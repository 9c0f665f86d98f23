--------------------------- MODULE ClassicGpuSearch ---------------------------
(***************************************************************************)
(* The host side of the GPU search for classic Ed25519 addresses (cmd_gpu  *)
(* of crates/pq-vanity/src/classic.rs).  Unlike the f1 search it matches   *)
(* each seed that the device reports when it comes to look at it, against  *)
(* the targets active at that moment.                                      *)
(*                                                                         *)
(* A reported seed is represented by the set of targets that its address   *)
(* matches, worked out on the CPU; the set is empty when the device is     *)
(* wrong.  A base is represented by its batch and the number of refreshes  *)
(* of the mix before it.  Times and throughput counters are left out.      *)
(***************************************************************************)
EXTENDS TargetSet, Sequences

CONSTANTS Overlap,        \* the sets of targets that one address can match
          Count,          \* --count
          Options,        \* the choices of the options in Option below
          MaxHits,        \* --max-hits
          BatchBound      \* bound on the number of batches (not in the code)

\* --allow-sibling-hits and --batches (0: no limit)
Option == [allowSiblings : BOOLEAN, batches : Nat]

ASSUME ClassicGpuSearchAssumption ==
    /\ Overlap \subseteq SUBSET Targets
    /\ {Count, BatchBound} \subseteq Nat \ {0}
    /\ MaxHits \in Nat
    /\ Options \subseteq Option

VARIABLES opt,           \* the options of the command line
          exact,         \* the device is right throughout (not in the code)
          pc,            \* the next step of the host thread
          batch,         \* index of the batch
          cached,        \* number of refreshes of the mix's cached contributions
          base,          \* the base of the batch
          active,        \* TargetSet.active
          seeds,         \* the seeds reported for the batch
          next,          \* index of the next seed to look at
          batchEmitted,  \* batch_emitted
          found,         \* found
          siblings,      \* siblings
          warnings,      \* warnings that the device is wrong
          emitted        \* every hit written and printed so far

progress == <<pc, batch, cached, base, active, seeds, next, batchEmitted, found,
              siblings, warnings, emitted>>
given == <<opt, exact>>
vars == <<given, progress>>

Base == [batch : Nat, draw : Nat]

Init == /\ opt \in Options
        /\ exact \in BOOLEAN
        /\ pc = "draw"
        /\ batch = 0
        /\ cached = 0
        /\ base = [batch |-> 0, draw |-> 0]
        /\ active = AllActive
        /\ seeds = <<>>
        /\ next = 1
        /\ batchEmitted = 0
        /\ found = 0
        /\ siblings = 0
        /\ warnings = 0
        /\ emitted = {}
-----------------------------------------------------------------------------
\* mix.next()
Draw == /\ pc = "draw"
        /\ base' = [batch |-> batch, draw |-> cached]
        /\ pc' = "search"
        /\ UNCHANGED <<given, batch, cached, active, seeds, next, batchEmitted, found,
                       siblings, warnings, emitted>>

\* mix.next() or ed_search_batch fails: cmd_gpu returns the error.
Fail == /\ pc \in {"draw", "search"}
        /\ pc' = "failed"
        /\ UNCHANGED <<given, batch, cached, base, active, seeds, next, batchEmitted, found,
                       siblings, warnings, emitted>>

\* Mutant of Search: the seeds are counted from zero.
SearchFromZero(answer) ==
    /\ pc = "search"
    /\ seeds' = answer
    /\ next' = 0
    /\ batchEmitted' = 0
    /\ pc' = "seeds"
    /\ UNCHANGED <<given, batch, cached, base, active, found, siblings, warnings, emitted>>

\* ed_search_batch: an exact device reports addresses that match its table,
\* which holds the targets active at the launch.
Search(answer) ==
    /\ pc = "search"
    /\ exact =>
          \A i \in DOMAIN answer : FirstMatch(active, answer[i]) # NoTarget
    /\ seeds' = answer
    /\ next' = 1
    /\ batchEmitted' = 0
    /\ pc' = "seeds"
    /\ UNCHANGED <<given, batch, cached, base, active, found, siblings, warnings, emitted>>

More == pc = "seeds" /\ next \in DOMAIN seeds

\* first_match_display, now.
Target == FirstMatch(active, seeds[next])

\* Mutant of Skip: a warning for every seed without an active target.
SkipWarns == /\ More
             /\ Target = NoTarget
             /\ warnings' = warnings + 1
             /\ next' = next + 1
             /\ UNCHANGED <<given, pc, batch, cached, base, active, seeds, batchEmitted, found,
                            siblings, emitted>>

\* Mutant of Skip: a seed is skipped when the first target that it matched at
\* the launch has been retired, whatever else it matches.
SkipStale == /\ More
             /\ LET t == FirstMatch(AllActive, seeds[next])
                IN  ~(t # NoTarget /\ active[t])
             /\ next' = next + 1
             /\ UNCHANGED <<given, pc, batch, cached, base, active, seeds, batchEmitted, found,
                            siblings, warnings, emitted>>

\* No target that is still active: warn if no target at all.
Skip == /\ More
        /\ Target = NoTarget
        /\ warnings' = IF seeds[next] = {} THEN warnings + 1 ELSE warnings
        /\ next' = next + 1
        /\ UNCHANGED <<given, pc, batch, cached, base, active, seeds, batchEmitted, found,
                       siblings, emitted>>

SiblingRefused == ~opt.allowSiblings /\ batchEmitted >= 1

DiscardSibling == /\ More
                  /\ Target # NoTarget
                  /\ SiblingRefused
                  /\ siblings' = siblings + 1
                  /\ next' = next + 1
                  /\ UNCHANGED <<given, pc, batch, cached, base, active, seeds, batchEmitted,
                                 found, warnings, emitted>>

\* Mutant of Enough: the budget may be exceeded by one.
EnoughOneMore(f, act) == f > Count \/ ~AnyActive(act)

\* The budget is spent or no target is left.
Enough(f, act) == f >= Count \/ ~AnyActive(act)

Emit == /\ More
        /\ Target # NoTarget
        /\ ~SiblingRefused
        /\ active' = AfterClaim(active, Target)
        /\ found' = found + 1
        /\ batchEmitted' = batchEmitted + 1
        /\ emitted' = emitted \cup {[number |-> found + 1, target |-> Target,
                                     index |-> next, base |-> base]}
        /\ next' = next + 1
        /\ pc' = IF Enough(found', active') THEN "batchEnd" ELSE "seeds"
        /\ UNCHANGED <<given, batch, cached, base, seeds, siblings, warnings>>

SeedsDone == /\ pc = "seeds"
             /\ next \notin DOMAIN seeds
             /\ pc' = "batchEnd"
             /\ UNCHANGED <<given, batch, cached, base, active, seeds, next, batchEmitted,
                            found, siblings, warnings, emitted>>

LastBatch == Enough(found, active) \/ (opt.batches # 0 /\ batch + 1 >= opt.batches)

\* Mutant of NextBatch: the mix is not refreshed.
NextBatchNoRefresh == /\ pc = "batchEnd"
                      /\ ~LastBatch
                      /\ batch + 1 < BatchBound
                      /\ batch' = batch + 1
                      /\ seeds' = <<>>
                      /\ pc' = "draw"
                      /\ UNCHANGED <<given, cached, base, active, next, batchEmitted, found,
                                     siblings, warnings, emitted>>

\* The batch's seeds are dropped; the mix is refreshed for the next batch.
NextBatch == /\ pc = "batchEnd"
             /\ ~LastBatch
             /\ batch + 1 < BatchBound
             /\ batch' = batch + 1
             /\ cached' = cached + 1
             /\ seeds' = <<>>
             /\ pc' = "draw"
             /\ UNCHANGED <<given, base, active, next, batchEmitted, found, siblings, warnings,
                            emitted>>

Finish == /\ pc = "batchEnd"
          /\ LastBatch
          /\ pc' = "done"
          /\ UNCHANGED <<given, batch, cached, base, active, seeds, next, batchEmitted, found,
                         siblings, warnings, emitted>>

\* cmd_gpu has returned (or the bound on batches is reached).
Terminated == /\ \/ pc \in {"done", "failed"}
                 \/ pc = "batchEnd" /\ ~LastBatch /\ batch + 1 = BatchBound
              /\ UNCHANGED vars
-----------------------------------------------------------------------------
Answers == UNION {[1 .. n -> Overlap] : n \in 0 .. MaxHits}

HostStep == \/ Draw \/ Fail \/ (\E answer \in Answers : Search(answer))
            \/ Skip \/ DiscardSibling \/ Emit \/ SeedsDone \/ NextBatch \/ Finish

Next == HostStep \/ Terminated

Spec == Init /\ [][Next]_vars
-----------------------------------------------------------------------------
(***************************************************************************)
(* Properties                                                              *)
(***************************************************************************)

HitRecord == [number : Nat, target : Targets, index : Nat, base : Base]

\* Type invariant.
TypeOK == /\ opt \in Option
          /\ exact \in BOOLEAN
          /\ pc \in {"draw", "search", "seeds", "batchEnd", "done", "failed"}
          /\ {batch, cached, batchEmitted, found, siblings, warnings} \subseteq Nat
          /\ base \in Base
          /\ active \in [Targets -> BOOLEAN]
          /\ seeds \in Seq(SUBSET Targets)
          /\ next \in Nat \ {0}
          /\ emitted \in SUBSET HitRecord

\* Without --allow-sibling-hits no two hits shown share a base, and their bases
\* are of different refreshes of the mixer (so that their jitter differs, if not
\* their TPM bytes).
HitsShareNothing ==
    ~opt.allowSiblings =>
        \A e, f \in emitted : e # f => /\ e.base.batch # f.base.batch
                                       /\ e.base.draw # f.base.draw

\* The warning "device hit failed CPU re-verification" is never given for a
\* device that is right: a seed whose targets were all retired by hits shown
\* earlier in its batch does not count against it.
NoFalseAlarm == exact => warnings = 0

\* With --allow-sibling-hits a batch that does not end the search leaves no
\* hit behind: a seed of it that was not shown matches no target that is still
\* active, although targets were retired between the launch and the look at it.
NothingMissed ==
    opt.allowSiblings /\ pc = "batchEnd" /\ ~Enough(found, active) =>
        \A i \in DOMAIN seeds :
            \/ FirstMatch(active, seeds[i]) = NoTarget
            \/ \E e \in emitted : e.base = base /\ e.index = i

\* The promise of HitLedger, kept by the hits written and printed here.
Ledger == INSTANCE HitLedger
            WITH ledger <- LedgerOf(emitted),
                 ended  <- pc = "done",
                 total  <- IF pc = "done" THEN found ELSE 0

ImplementsLedger == Ledger!LedgerSpec
=============================================================================
