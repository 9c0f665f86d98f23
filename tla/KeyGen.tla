-------------------------------- MODULE KeyGen --------------------------------
(***************************************************************************)
(* From entropy to a Falcon-1024 key pair: the reference key generation    *)
(* (crates/pq-core/src/falcon.rs), its steps one by one                    *)
(* (crates/pq-core/src/fast.rs over vendor-shim/pqv_shim.c) and the retry  *)
(* loop of the device (cuda/pq_vanity.cu).  The seed of an entropy starts  *)
(* one stream of attempts at (f, g); an attempt is the checks that it      *)
(* fails and the public key that it gives.  The lattice arithmetic that    *)
(* decides the checks is a constant of the model.                          *)
(***************************************************************************)
EXTENDS PqAddress, Integers, Sequences, SequencesExt

CONSTANTS
    Entropies,    \* the 32-byte entropies
    Attempts,     \* Attempts[e]: the attempts of e's stream, up to one that is accepted
    MaxAttempts,  \* PQ_MAX_ATTEMPTS [192]
    NoKey

\* SampleStage: the checks in the order in which they are made.
Stages == <<"CoefLimit", "SqNorm", "BNorm", "NotInvertible", "SolveFailed">>

\* The device's check of the norm is in single precision, and may be wrong
\* within a hair of the bound.
Fg == [fails : SUBSET ToSet(Stages), borderline : BOOLEAN, pk : Keys]

ASSUME KeyGenAssumption ==
    /\ \A e \in Entropies : /\ Attempts[e] \in Seq(Fg)
                            /\ Attempts[e] # <<>> /\ Last(Attempts[e]).fails = {}
    /\ MaxAttempts \in Nat
    /\ NoKey \notin Keys

\* sample_fg_nth, counted from 0, and sample_fg
SampleFgNth(e, n) == Attempts[e][n + 1]
SampleFg(e) == SampleFgNth(e, 0)

\* first_sample_stage
FirstSampleStage(fg) ==
    IF fg.fails = {} THEN "Accepted" ELSE Stages[SelectInSeq(Stages, LAMBDA s : s \in fg.fails)]

\* pubkey_from_fg: the public half does not look at the other checks.
PubkeyFromFg(fg) == IF "NotInvertible" \in fg.fails THEN NoKey ELSE fg.pk

\* Mutant of CompleteFromFg: the failure of solve_NTRU is not looked at.
CompleteUnsolved(fg) ==
    IF FirstSampleStage(fg) \in {"Accepted", "SolveFailed"} THEN fg.pk ELSE NoKey

\* complete_from_fg
CompleteFromFg(fg) == IF FirstSampleStage(fg) = "Accepted" THEN fg.pk ELSE NoKey

\* The position of the first attempt for which Passes holds.
FirstAttempt(e, Passes(_)) == SelectInSeq(Attempts[e], Passes)

\* keygen_from_seed: attempts until one is accepted.
KeygenFromSeed(e) == Attempts[e][FirstAttempt(e, LAMBDA fg : fg.fails = {})].pk

\* Mutant of FirstVisibleAccept: solve_NTRU is consulted.
FirstFullAccept(e, cap) ==
    LET n == FirstAttempt(e, LAMBDA fg : fg.fails = {}) IN IF n <= cap THEN n - 1 ELSE -1

\* first_visible_accept: the first attempt that only solve_NTRU may reject.
FirstVisibleAccept(e, cap) ==
    LET n == FirstAttempt(e, LAMBDA fg : fg.fails \subseteq {"SolveFailed"})
    IN IF n <= cap THEN n - 1 ELSE -1

DeviceFails(fg) == IF ~fg.borderline THEN fg.fails
                   ELSE (fg.fails \cup {"BNorm"}) \ (fg.fails \cap {"BNorm"})

\* dev_retry_sample: the number of attempts made, 0 for none accepted.
DevRetrySample(e) ==
    LET n == FirstAttempt(e, LAMBDA fg : DeviceFails(fg) \subseteq {"SolveFailed"})
    IN IF n <= MaxAttempts THEN n ELSE 0

\* pq_dbg_accept_kernel
DevAccept(e) == DevRetrySample(e) - 1
=============================================================================
