---------------------------- MODULE TargetSetProofs ----------------------------
(***************************************************************************)
(* Facts about the target list that the proofs of all searches rest on,    *)
(* for every list of targets: what first_match returns, and what claim     *)
(* does to the flags.                                                      *)
(***************************************************************************)
EXTENDS TargetSet, WellFoundedInduction, TLAPS

-----------------------------------------------------------------------------
(***************************************************************************)
(* Least elements: the "first" target and the "lowest" salt of the code.   *)
(***************************************************************************)

Below == {p \in Nat \X Nat : p[1] < p[2]}

\* The naturals are well founded.
LEMMA BelowWellFounded == IsWellFoundedOn(Below, Nat)
  BY NatLessThanWellFounded, Zenon DEF OpToRel, Below

\* Every non-empty set of naturals has a least element.
LEMMA LeastElement ==
    ASSUME NEW S \in SUBSET Nat, S # {}
    PROVE  \E m \in S : \A k \in S : m <= k
<1>1. PICK m \in S : \A k \in S : <<k, m>> \notin Below
  BY BelowWellFounded, WFMin
<1>2. \A k \in S : ~ (k < m)
  BY <1>1 DEF Below
<1> QED BY <1>2
-----------------------------------------------------------------------------
\* first_match returns an active target that the address matches, and none of
\* those before it in the list.
LEMMA FirstMatchSpec ==
    ASSUME NEW A \in [Targets -> BOOLEAN], NEW M \in SUBSET Targets,
           FirstMatch(A, M) # NoTarget
    PROVE  /\ FirstMatch(A, M) \in M
           /\ A[FirstMatch(A, M)]
           /\ \A t \in M : A[t] => FirstMatch(A, M) <= t
<1> DEFINE C == Candidates(A, M)
<1>1. C # {} /\ C \in SUBSET Nat
  <2>1. C # {}
    BY DEF FirstMatch
  <2>2. C \in SUBSET Nat
    <3>1. C \subseteq M
      BY DEF Candidates
    <3>2. Targets \subseteq Nat
      BY TargetSetAssumption DEF Targets
    <3> QED BY <3>1, <3>2
  <2> QED BY <2>1, <2>2
<1>2. \E m \in C : \A k \in C : m <= k
  BY <1>1, LeastElement
<1>3. /\ FirstMatch(A, M) \in C
      /\ \A u \in C : FirstMatch(A, M) <= u
  BY <1>1, <1>2 DEF FirstMatch
<1> QED BY <1>3 DEF Candidates

\* It returns none exactly when the address matches no active target.
LEMMA FirstMatchNone ==
    ASSUME NEW A \in [Targets -> BOOLEAN], NEW M \in SUBSET Targets
    PROVE  FirstMatch(A, M) = NoTarget <=> \A t \in M : ~A[t]
<1>1. ASSUME NEW t \in M, A[t] PROVE FirstMatch(A, M) # NoTarget
  <2>1. NoTarget \notin Targets
    BY DEF NoTarget, Targets
  <2>2. Candidates(A, M) # {} /\ Candidates(A, M) \in SUBSET Nat
    <3>1. Candidates(A, M) # {} /\ Candidates(A, M) \subseteq Targets
      BY <1>1 DEF Candidates
    <3>2. Targets \subseteq Nat
      BY TargetSetAssumption DEF Targets
    <3> QED BY <3>1, <3>2
  <2>3. \E m \in Candidates(A, M) : \A k \in Candidates(A, M) : m <= k
    BY <2>2, LeastElement
  <2>4. FirstMatch(A, M) \in Candidates(A, M)
    BY <2>2, <2>3 DEF FirstMatch
  <2> QED BY <2>1, <2>4 DEF Candidates
<1>2. ASSUME FirstMatch(A, M) # NoTarget PROVE \E t \in M : A[t]
  BY <1>2, FirstMatchSpec
<1> QED BY <1>1, <1>2

\* The flags stay Boolean whatever claim does.
LEMMA AfterClaimType ==
    ASSUME NEW A \in [Targets -> BOOLEAN], NEW t
    PROVE  AfterClaim(A, t) \in [Targets -> BOOLEAN]
  BY DEF AfterClaim

\* A claim clears the flag of its target in a retiring search, and touches no
\* other flag.
LEMMA AfterClaimSpec ==
    ASSUME NEW A \in [Targets -> BOOLEAN], NEW t \in Targets
    PROVE  /\ Retire => ~AfterClaim(A, t)[t]
           /\ ~Retire => AfterClaim(A, t) = A
           /\ \A u \in Targets : u # t => AfterClaim(A, t)[u] = A[u]
           /\ \A u \in Targets : AfterClaim(A, t)[u] => A[u]
  BY DEF AfterClaim
-----------------------------------------------------------------------------
(***************************************************************************)
(* The ledger of a set of hits (HitLedger).                                *)
(***************************************************************************)

\* Ledger L with target t shown as number n (Show of HitLedger).
LedgerWith(L, n, t) == [m \in DOMAIN L \cup {n} |-> IF m = n THEN t ELSE L[m]]

\* When no two hits have the same number, the ledger holds, for each number, the
\* target of a hit.
LEMMA LedgerOfSpec ==
    ASSUME NEW E, \A e, f \in E : e.number = f.number => e = f
    PROVE  /\ DOMAIN LedgerOf(E) = {e.number : e \in E}
           /\ \A e \in E : LedgerOf(E)[e.number] = e.target
  BY DEF LedgerOf

\* A hit with a new number adds one entry to it.
LEMMA LedgerOfAdd ==
    ASSUME NEW E, \A e, f \in E : e.number = f.number => e = f,
           NEW h, \A e \in E : e.number # h.number
    PROVE  LedgerOf(E \cup {h}) = LedgerWith(LedgerOf(E), h.number, h.target)
<1> DEFINE F == E \cup {h}
           D == DOMAIN LedgerOf(E) \cup {h.number}
<1>1. \A e, f \in F : e.number = f.number => e = f
  OBVIOUS
<1>2. /\ DOMAIN LedgerOf(F) = {e.number : e \in F}
      /\ \A e \in F : LedgerOf(F)[e.number] = e.target
  <2> HIDE DEF F
  <2> QED BY <1>1, LedgerOfSpec
<1>3. DOMAIN LedgerOf(F) = D
  <2>1. DOMAIN LedgerOf(E) = {e.number : e \in E}
    BY LedgerOfSpec
  <2> QED BY <1>2, <2>1
<1>4. \A m \in D : LedgerOf(F)[m] = IF m = h.number THEN h.target ELSE LedgerOf(E)[m]
  <2>1. LedgerOf(F)[h.number] = h.target
    BY <1>2
  <2>2. \A e \in E : LedgerOf(F)[e.number] = LedgerOf(E)[e.number] /\ e.number # h.number
    BY <1>2, LedgerOfSpec
  <2>3. DOMAIN LedgerOf(E) = {e.number : e \in E}
    BY LedgerOfSpec
  <2> HIDE DEF F
  <2> QED BY <2>1, <2>2, <2>3
<1>5. LedgerOf(F) = [m \in D |-> LedgerOf(F)[m]]
  BY <1>3 DEF LedgerOf
<1> HIDE DEF F, D
<1>6. LedgerOf(F) = [m \in D |-> IF m = h.number THEN h.target ELSE LedgerOf(E)[m]]
  BY <1>4, <1>5
<1> QED BY <1>6 DEF LedgerWith, F, D
=============================================================================
