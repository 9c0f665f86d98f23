------------------------------ MODULE GpuSearch ------------------------------
(***************************************************************************)
(* The host side of the GPU search for f1 addresses (cmd_gpu, verify_one   *)
(* and verify_hits of crates/pq-vanity/src/main.rs).  One thread draws a   *)
(* base, has the device search one batch of keys derived from it for the   *)
(* targets still active, verifies what the device reports and shows the    *)
(* usable hits.                                                            *)
(*                                                                         *)
(* A base is represented by the batch it was drawn for and the number of   *)
(* refreshes of the mix before it.  The device may answer any entropies    *)
(* and salts of the batch: a reported hit is a kind of key and a salt,     *)
(* right or wrong.  With DeviceExact it answers what the kernel computes   *)
(* (pq_search_kernel).                                                     *)
(* Elapsed times, throughput counters and the text of a hit are left out.  *)
(***************************************************************************)
EXTENDS PqAddress, Sequences, FiniteSets

CONSTANTS Doomed,         \* kinds of key whose first (f, g) keygen rejects
          Count,          \* --count
          MaxSalt,        \* --max-salt
          Options,        \* the choices of the options in Option below
          MaxHits,        \* --max-hits
          DeviceExact,    \* the device answers what its kernel computes
          BatchBound      \* bound on the number of batches (not in the code)

\* ~ --allow-non-canonical, --allow-sibling-hits and --batches (0: no limit)
Option == [canonicalOnly : BOOLEAN, allowSiblings : BOOLEAN, batches : Nat]

ASSUME GpuSearchAssumption ==
    /\ Doomed \subseteq Keys
    /\ {Count, BatchBound} \subseteq Nat \ {0}
    /\ {MaxSalt, MaxHits} \subseteq Nat
    /\ Options \subseteq Option
    /\ DeviceExact \in BOOLEAN

VARIABLES opt,           \* the options of the command line
          pc,            \* the next step of the host thread
          batch,         \* index of the batch
          cached,        \* number of refreshes of the mix's cached contributions
          base,          \* the base of the batch
          active,        \* TargetSet.active
          verified,      \* the batch's hits with the target each is usable for
          next,          \* index of the next hit of the batch to look at
          batchEmitted,  \* batch_emitted
          found,         \* found
          discarded,     \* siblings_discarded
          emitted        \* every hit written and printed so far

progress == <<pc, batch, cached, base, active, verified, next, batchEmitted, found,
              discarded, emitted>>
vars == <<opt, progress>>

Base == [batch : Nat, draw : Nat]

Init == /\ opt \in Options
        /\ pc = "draw"
        /\ batch = 0
        /\ cached = 0
        /\ base = [batch |-> 0, draw |-> 0]
        /\ active = AllActive
        /\ verified = <<>>
        /\ next = 1
        /\ batchEmitted = 0
        /\ found = 0
        /\ discarded = 0
        /\ emitted = {}
-----------------------------------------------------------------------------
(***************************************************************************)
(* The device: the first salt of the sweep whose address matches a target  *)
(* of the table uploaded with the batch.                                   *)
(***************************************************************************)

MatchingSalts(k) == {s \in 0 .. MaxSalt : FirstMatch(active, Matches[k][SaltByte(s)]) # NoTarget}

DeviceSalt(k) == SaltByte(CHOOSE s \in MatchingSalts(k) : \A r \in MatchingSalts(k) : s <= r)

RawHit == [key : Keys, salt : Salts]

DeviceReports(h) == MatchingSalts(h.key) # {} /\ h.salt = DeviceSalt(h.key)

(***************************************************************************)
(* verify_one: the target that a raw hit is usable for, if any.            *)
(***************************************************************************)

\* Mutant of Usable: a compliant salt is taken for the canonical one.
UsableAnySalt(h) == h.key \notin Doomed /\ h.salt \in Compliant[h.key]

Usable(h) == /\ h.key \notin Doomed
             /\ h.salt \in Compliant[h.key]
             /\ opt.canonicalOnly => h.salt = CanonicalPqSalt(h.key)

VerifyOne(h) == IF Usable(h) THEN FirstMatch(active, Matches[h.key][h.salt]) ELSE NoTarget
-----------------------------------------------------------------------------
(***************************************************************************)
(* cmd_gpu                                                                 *)
(***************************************************************************)

\* mix.next()
Draw == /\ pc = "draw"
        /\ base' = [batch |-> batch, draw |-> cached]
        /\ pc' = "search"
        /\ UNCHANGED <<opt, batch, cached, active, verified, next, batchEmitted, found,
                       discarded, emitted>>

\* mix.next() or search_batch fails: cmd_gpu returns the error.
Fail == /\ pc \in {"draw", "search"}
        /\ pc' = "failed"
        /\ UNCHANGED <<opt, batch, cached, base, active, verified, next, batchEmitted, found,
                       discarded, emitted>>

\* Mutant of Search: batch_emitted is kept from the batch before.
SearchKeepsEmitted(raw) ==
    /\ pc = "search"
    /\ DeviceExact => \A i \in DOMAIN raw : DeviceReports(raw[i])
    /\ verified' = [i \in DOMAIN raw |-> [key    |-> raw[i].key, salt |-> raw[i].salt,
                                          target |-> VerifyOne(raw[i])]]
    /\ next' = 1
    /\ pc' = "hits"
    /\ UNCHANGED <<opt, batch, cached, base, active, batchEmitted, found, discarded, emitted>>

\* Mutant of Search: the hits are counted from zero.
SearchFromZero(raw) ==
    /\ pc = "search"
    /\ verified' = [i \in DOMAIN raw |-> [key    |-> raw[i].key, salt |-> raw[i].salt,
                                          target |-> VerifyOne(raw[i])]]
    /\ next' = 0
    /\ batchEmitted' = 0
    /\ pc' = "hits"
    /\ UNCHANGED <<opt, batch, cached, base, active, found, discarded, emitted>>

\* search_batch and verify_hits, which keeps the order of the device's answer.
Search(raw) ==
    /\ pc = "search"
    /\ DeviceExact => \A i \in DOMAIN raw : DeviceReports(raw[i])
    /\ verified' = [i \in DOMAIN raw |-> [key    |-> raw[i].key, salt |-> raw[i].salt,
                                          target |-> VerifyOne(raw[i])]]
    /\ next' = 1
    /\ batchEmitted' = 0
    /\ pc' = "hits"
    /\ UNCHANGED <<opt, batch, cached, base, active, found, discarded, emitted>>

Hit == verified[next]

\* Mutant of Open: a target retired earlier in the batch counts as active.
OpenOnceVerified(t) == t # NoTarget

\* The hit was not culled and its target is still active.
Open(t) == t # NoTarget /\ active[t]

More == pc = "hits" /\ next \in DOMAIN verified

\* verify_one culled the hit, or its target was retired earlier in this batch.
Skip == /\ More
        /\ ~Open(Hit.target)
        /\ next' = next + 1
        /\ UNCHANGED <<opt, pc, batch, cached, base, active, verified, batchEmitted, found,
                       discarded, emitted>>

Wanted == More /\ Open(Hit.target)

\* Mutant of SiblingRefused: the second hit of a batch is let through.
SiblingRefusedLate == ~opt.allowSiblings /\ batchEmitted > 1

SiblingRefused == ~opt.allowSiblings /\ batchEmitted >= 1

DiscardSibling == /\ Wanted
                  /\ SiblingRefused
                  /\ discarded' = discarded + 1
                  /\ next' = next + 1
                  /\ UNCHANGED <<opt, pc, batch, cached, base, active, verified, batchEmitted,
                                 found, emitted>>

\* The budget is spent or no target is left.
Enough(f, act) == f >= Count \/ ~AnyActive(act)

Emit == /\ Wanted
        /\ ~SiblingRefused
        /\ active' = AfterClaim(active, Hit.target)
        /\ found' = found + 1
        /\ batchEmitted' = batchEmitted + 1
        /\ emitted' = emitted \cup {[number |-> found + 1, target |-> Hit.target,
                                     key |-> Hit.key, salt |-> Hit.salt, base |-> base]}
        /\ next' = next + 1
        /\ pc' = IF Enough(found', active') THEN "batchEnd" ELSE "hits"
        /\ UNCHANGED <<opt, batch, cached, base, verified, discarded>>

HitsDone == /\ pc = "hits"
            /\ next \notin DOMAIN verified
            /\ pc' = "batchEnd"
            /\ UNCHANGED <<opt, batch, cached, base, active, verified, next, batchEmitted,
                           found, discarded, emitted>>

\* Mutant of LastBatch: --batches is ignored.
LastBatchUnlimited == Enough(found, active)

LastBatch == Enough(found, active) \/ (opt.batches # 0 /\ batch + 1 >= opt.batches)

\* The batch's vectors are dropped; the mix is refreshed for the next batch.
NextBatch == /\ pc = "batchEnd"
             /\ ~LastBatch
             /\ batch + 1 < BatchBound
             /\ batch' = batch + 1
             /\ cached' = cached + 1
             /\ verified' = <<>>
             /\ pc' = "draw"
             /\ UNCHANGED <<opt, base, active, next, batchEmitted, found, discarded, emitted>>

Finish == /\ pc = "batchEnd"
          /\ LastBatch
          /\ pc' = "done"
          /\ UNCHANGED <<opt, batch, cached, base, active, verified, next, batchEmitted,
                         found, discarded, emitted>>

\* cmd_gpu has returned (or the bound on batches is reached).
Terminated == /\ \/ pc \in {"done", "failed"}
                 \/ pc = "batchEnd" /\ ~LastBatch /\ batch + 1 = BatchBound
              /\ UNCHANGED vars
-----------------------------------------------------------------------------
Answers == UNION {[1 .. n -> RawHit] : n \in 0 .. MaxHits}

HostStep == \/ Draw \/ Fail \/ (\E raw \in Answers : Search(raw))
            \/ Skip \/ DiscardSibling \/ Emit \/ HitsDone \/ NextBatch \/ Finish

Next == HostStep \/ Terminated

Spec == Init /\ [][Next]_vars

\* The host thread runs, and a launched batch returns.
FairSpec == Spec /\ WF_vars(HostStep)
-----------------------------------------------------------------------------
(***************************************************************************)
(* Properties                                                              *)
(***************************************************************************)

VerifiedHit == [key : Keys, salt : Salts, target : Targets \cup {NoTarget}]

HitRecord == [number : Nat, target : Targets, key : Keys, salt : Salts, base : Base]

\* Type invariant.
TypeOK == /\ opt \in Option
          /\ pc \in {"draw", "search", "hits", "batchEnd", "done", "failed"}
          /\ {batch, cached, batchEmitted, found, discarded} \subseteq Nat
          /\ base \in Base
          /\ active \in [Targets -> BOOLEAN]
          /\ verified \in Seq(VerifiedHit)
          /\ next \in Nat \ {0}
          /\ emitted \in SUBSET HitRecord

\* Whatever the device answers, a hit shown is the key's own address: the key
\* is the one that the mnemonic imports as, the address matches the target it
\* is shown for, is off-curve, and is the canonical one when only that will do.
HitsAreUsable ==
    \A e \in emitted :
        /\ e.key \notin Doomed
        /\ e.target \in Matches[e.key][e.salt]
        /\ e.salt \in Compliant[e.key]
        /\ opt.canonicalOnly => \A s \in Compliant[e.key] : e.salt <= s

\* Without --allow-sibling-hits no two hits shown share a base, and their bases
\* are of different refreshes of the mixer (so that their jitter differs, if not
\* their TPM bytes).
HitsShareNothing ==
    ~opt.allowSiblings =>
        \A e, f \in emitted : e # f => /\ e.base.batch # f.base.batch
                                       /\ e.base.draw # f.base.draw

\* A batch with a usable hit for a target that was active when it was launched
\* shows one: neither the sibling rule, nor the retirement of targets, nor what
\* earlier batches left behind can make it come to nothing.
BatchNotWasted ==
    pc = "batchEnd" /\ (\E i \in DOMAIN verified : verified[i].target # NoTarget) =>
        \E e \in emitted : e.base = base

\* pq_vanity.cu, line 948: the kernel leaves the sweep of a key at the first
\* match because "one usable salt per key is enough", and by main.rs, lines 644
\* to 646, the short sweep of canonical mode "loses nothing".  So a key that the
\* device answers for, whose canonical address lies within the sweep and matches
\* an active target, should be a usable hit.
SweepLosesNothing ==
    pc = "hits" /\ next = 1 /\ opt.canonicalOnly =>
        \A i \in DOMAIN verified :
            LET k == verified[i].key
            IN  /\ k \notin Doomed
                /\ HasCanonicalSalt(k)
                /\ CanonicalPqSalt(k) <= MaxSalt
                /\ FirstMatch(active, Matches[k][CanonicalPqSalt(k)]) # NoTarget
                => verified[i].target # NoTarget

\* A limited number of batches ends, whatever the device answers.
BatchesEnd == opt.batches # 0 => <>(pc \in {"done", "failed"})

\* The promise of HitLedger, kept by the hits written and printed here.
Ledger == INSTANCE HitLedger
            WITH ledger <- LedgerOf(emitted),
                 ended  <- pc = "done",
                 total  <- IF pc = "done" THEN found ELSE 0

ImplementsLedger == Ledger!LedgerSpec
=============================================================================
