------------------------- MODULE ClassicGpuSearchProofs -------------------------
(***************************************************************************)
(* Theorems about ClassicGpuSearch, for every target list, budget and size *)
(* of a batch, for all options and whatever the device answers.            *)
(***************************************************************************)
EXTENDS ClassicGpuSearch, TargetSetProofs, TLAPS

-----------------------------------------------------------------------------
(***************************************************************************)
(* Types.                                                                  *)
(***************************************************************************)

\* The seeds of a batch: at most MaxHits, each matching some of the targets.
LEMMA AnswerType ==
    ASSUME NEW answer \in Answers
    PROVE  answer \in Seq(SUBSET Targets)
<1>1. PICK n \in 0 .. MaxHits : answer \in [1 .. n -> Overlap]
  BY DEF Answers
<1>2. answer \in [1 .. n -> SUBSET Targets] /\ n \in Nat
  BY <1>1, ClassicGpuSearchAssumption
<1> QED BY <1>2

\* The target found for a seed matches it and is active.
LEMMA TargetSpec ==
    ASSUME TypeOK, More
    PROVE  /\ pc = "seeds" /\ next \in DOMAIN seeds /\ seeds[next] \in SUBSET Targets
           /\ Target # NoTarget =>
                Target \in Targets /\ Target \in seeds[next] /\ active[Target]
<1>1. pc = "seeds" /\ next \in DOMAIN seeds /\ seeds[next] \in SUBSET Targets
  BY DEF More, TypeOK
<1>2. active \in [Targets -> BOOLEAN]
  BY DEF TypeOK
<1> QED BY <1>1, <1>2, FirstMatchSpec DEF Target

\* The types hold before the first batch.
LEMMA TypeInit == Init => TypeOK
  BY ClassicGpuSearchAssumption DEF Init, TypeOK, Base, AllActive

\* A hit that is shown keeps the types.
LEMMA EmitType ==
    ASSUME TypeOK, Emit
    PROVE  TypeOK'
<1>1. Target \in Targets
  BY TargetSpec DEF Emit
<1>2. [number |-> found + 1, target |-> Target, index |-> next, base |-> base] \in HitRecord
  BY <1>1 DEF HitRecord, TypeOK
<1>3. active' \in [Targets -> BOOLEAN]
  BY AfterClaimType DEF Emit, TypeOK
<1> QED BY <1>2, <1>3 DEF Emit, TypeOK, given

\* Every step of the ed25519 cmd_gpu keeps the types.
LEMMA TypeStep == TypeOK /\ [Next]_vars => TypeOK'
<1> SUFFICES ASSUME TypeOK, [Next]_vars PROVE TypeOK'
  OBVIOUS
<1> USE DEF TypeOK
<1>1. CASE Draw
  BY <1>1 DEF Draw, given, Base
<1>2. CASE Fail
  BY <1>2 DEF Fail, given
<1>3. ASSUME NEW answer \in Answers, Search(answer) PROVE TypeOK'
  BY <1>3, AnswerType DEF Search, given
<1>4. CASE Skip
  BY <1>4 DEF Skip, given
<1>5. CASE DiscardSibling
  BY <1>5 DEF DiscardSibling, given
<1>6. CASE Emit
  BY <1>6, EmitType
<1>7. CASE SeedsDone
  BY <1>7 DEF SeedsDone, given
<1>8. CASE NextBatch
  BY <1>8 DEF NextBatch, given
<1>9. CASE Finish
  BY <1>9 DEF Finish, given
<1>10. CASE Terminated \/ UNCHANGED vars
  BY <1>10 DEF Terminated, vars, given, progress
<1> QED
  BY <1>1, <1>2, <1>3, <1>4, <1>5, <1>6, <1>7, <1>8, <1>9, <1>10 DEF Next, HostStep

\* The types of the state of the ed25519 cmd_gpu: every hit shown is for a
\* target of the list, with the base of a batch.
THEOREM ClassicGpuTypeCorrect == Spec => []TypeOK
  BY TypeInit, TypeStep, PTL DEF Spec
-----------------------------------------------------------------------------
(***************************************************************************)
(* Bases.                                                                  *)
(***************************************************************************)

\* No hit shown so far has the batch or the refresh of the mixer of now.
BaseUnused == \A e \in emitted : e.base.batch < batch /\ e.base.draw < cached

\* Between the draw of a base and the end of its batch the base is the newest
\* one, and batch_emitted tells whether it has shown a hit.
ShareInv ==
    /\ pc \in {"search", "seeds", "batchEnd"} => base = [batch |-> batch, draw |-> cached]
    /\ pc \in {"draw", "search"} => BaseUnused
    /\ pc = "seeds" /\ batchEmitted = 0 => BaseUnused
    /\ \A e \in emitted : e.base.batch <= batch /\ e.base.draw <= cached
    /\ HitsShareNothing

\* Without siblings the first hit of a batch is the only one of its base.
LEMMA EmitShare ==
    ASSUME TypeOK, ShareInv, Emit
    PROVE  ShareInv'
<1> DEFINE h == [number |-> found + 1, target |-> Target, index |-> next, base |-> base]
<1>1. /\ pc = "seeds" /\ emitted' = emitted \cup {h} /\ opt' = opt
      /\ batch' = batch /\ cached' = cached /\ base' = base
      /\ batchEmitted' = batchEmitted + 1 /\ pc' \in {"seeds", "batchEnd"}
  BY DEF Emit, More, given
<1>2. h.base = base /\ base = [batch |-> batch, draw |-> cached]
  BY <1>1 DEF ShareInv
<1>3. ~opt.allowSiblings => batchEmitted = 0
  BY DEF Emit, SiblingRefused, TypeOK
<1>4. batch \in Nat /\ cached \in Nat /\ batchEmitted' # 0
  BY <1>1 DEF TypeOK
<1>5. ~opt.allowSiblings => \A e \in emitted : /\ e.base.batch # h.base.batch
                                               /\ e.base.draw # h.base.draw
  <2>1. \A e \in emitted : e.base.batch \in Nat /\ e.base.draw \in Nat
    BY DEF TypeOK, HitRecord, Base
  <2> HIDE DEF h
  <2> QED BY <1>1, <1>2, <1>3, <1>4, <2>1 DEF ShareInv, BaseUnused
<1> HIDE DEF h
<1>6. HitsShareNothing'
  BY <1>1, <1>5 DEF ShareInv, HitsShareNothing
<1>7. \A e \in emitted' : e.base.batch <= batch' /\ e.base.draw <= cached'
  BY <1>1, <1>2, <1>4 DEF ShareInv
<1> QED BY <1>1, <1>2, <1>4, <1>6, <1>7 DEF ShareInv

\* No step shows a second hit of a base.
LEMMA ShareStep == TypeOK /\ ShareInv /\ [Next]_vars => ShareInv'
<1> SUFFICES ASSUME TypeOK, ShareInv, [Next]_vars PROVE ShareInv'
  OBVIOUS
<1> USE DEF ShareInv, HitsShareNothing, BaseUnused
<1>1. CASE Draw
  BY <1>1 DEF Draw, given
<1>2. CASE Fail
  BY <1>2 DEF Fail, given
<1>3. ASSUME NEW answer \in Answers, Search(answer) PROVE ShareInv'
  BY <1>3 DEF Search, given
<1>4. CASE Skip
  BY <1>4 DEF Skip, given
<1>5. CASE DiscardSibling
  BY <1>5 DEF DiscardSibling, given
<1>6. CASE Emit
  BY <1>6, EmitShare
<1>7. CASE SeedsDone
  BY <1>7 DEF SeedsDone, given
<1>8. CASE NextBatch
  <2>1. \A e \in emitted : e.base.batch \in Nat /\ e.base.draw \in Nat
    BY DEF TypeOK, HitRecord, Base
  <2> QED BY <1>8, <2>1 DEF NextBatch, TypeOK, given
<1>9. CASE Finish
  BY <1>9 DEF Finish, given
<1>10. CASE Terminated \/ UNCHANGED vars
  BY <1>10 DEF Terminated, vars, given, progress
<1> QED
  BY <1>1, <1>2, <1>3, <1>4, <1>5, <1>6, <1>7, <1>8, <1>9, <1>10 DEF Next, HostStep

\* Without --allow-sibling-hits no two hits shown share a base or are of the same
\* refresh of the mixer: batch_emitted is reset with each base, and the mixer is
\* refreshed between two batches.
THEOREM ClassicGpuHitsShareNothing == Spec => []HitsShareNothing
<1>1. Init => ShareInv
  BY DEF Init, ShareInv, HitsShareNothing, BaseUnused
<1>2. ShareInv => HitsShareNothing
  BY DEF ShareInv
<1> QED BY <1>1, <1>2, ShareStep, ClassicGpuTypeCorrect, PTL DEF Spec
-----------------------------------------------------------------------------
(***************************************************************************)
(* Warnings.                                                               *)
(***************************************************************************)

\* Every seed of an exact device matches some target.
AlarmInv ==
    exact => /\ warnings = 0
             /\ \A i \in DOMAIN seeds : seeds[i] # {}

\* An address that matches no target has no first match.
LEMMA NoTargetForNone == \A A : FirstMatch(A, {}) = NoTarget
  BY DEF FirstMatch, Candidates

\* No step of a search with a right device ends in the warning.
LEMMA AlarmStep == TypeOK /\ AlarmInv /\ [Next]_vars => AlarmInv'
<1> SUFFICES ASSUME TypeOK, AlarmInv, [Next]_vars PROVE AlarmInv'
  OBVIOUS
<1> USE DEF AlarmInv
<1>1. CASE Draw
  BY <1>1 DEF Draw, given
<1>2. CASE Fail
  BY <1>2 DEF Fail, given
<1>3. ASSUME NEW answer \in Answers, Search(answer) PROVE AlarmInv'
  BY <1>3, NoTargetForNone DEF Search, given
<1>4. CASE Skip
  BY <1>4 DEF Skip, More, given
<1>5. CASE DiscardSibling
  BY <1>5 DEF DiscardSibling, given
<1>6. CASE Emit
  BY <1>6 DEF Emit, given
<1>7. CASE SeedsDone
  BY <1>7 DEF SeedsDone, given
<1>8. CASE NextBatch
  BY <1>8 DEF NextBatch, given
<1>9. CASE Finish
  BY <1>9 DEF Finish, given
<1>10. CASE Terminated \/ UNCHANGED vars
  BY <1>10 DEF Terminated, vars, given, progress
<1> QED
  BY <1>1, <1>2, <1>3, <1>4, <1>5, <1>6, <1>7, <1>8, <1>9, <1>10 DEF Next, HostStep

\* The warning that the device is wrong is never given for one that is right.
THEOREM ClassicGpuNoFalseAlarm == Spec => []NoFalseAlarm
<1>1. Init => AlarmInv
  BY DEF Init, AlarmInv
<1>2. AlarmInv => NoFalseAlarm
  BY DEF AlarmInv, NoFalseAlarm
<1> QED BY <1>1, <1>2, AlarmStep, ClassicGpuTypeCorrect, PTL DEF Spec
-----------------------------------------------------------------------------
(***************************************************************************)
(* Seeds that were looked at.                                              *)
(***************************************************************************)

\* Seed i of the batch matches no active target, or was shown.
Settled(i) ==
    \/ FirstMatch(active, seeds[i]) = NoTarget
    \/ \E e \in emitted : e.base = base /\ e.index = i

\* With --allow-sibling-hits, every seed of the batch that was looked at is
\* settled; and a batch ends before its last seed only if the search does.
MissInv ==
    /\ opt.allowSiblings /\ pc \in {"seeds", "batchEnd"} =>
         \A i \in DOMAIN seeds : i < next => Settled(i)
    /\ pc = "batchEnd" /\ ~Enough(found, active) => \A i \in DOMAIN seeds : i < next

\* A claim retires targets only, so what is settled stays so.
LEMMA SettledStays ==
    ASSUME TypeOK, Emit, NEW i \in DOMAIN seeds, Settled(i)
    PROVE  Settled(i)'
<1>1. Target \in Targets /\ active' = AfterClaim(active, Target) /\ seeds' = seeds /\ base' = base
  BY TargetSpec DEF Emit
<1>2. \/ \E e \in emitted' : e.base = base' /\ e.index = i
      \/ FirstMatch(active, seeds[i]) = NoTarget
  BY <1>1 DEF Settled, Emit
<1>3. seeds[i] \in SUBSET Targets /\ active \in [Targets -> BOOLEAN]
      /\ active' \in [Targets -> BOOLEAN]
  BY <1>1, AfterClaimType DEF TypeOK
<1>4. \A t \in seeds[i] : active'[t] => active[t]
  BY <1>1, <1>3, AfterClaimSpec
<1>5. FirstMatch(active, seeds[i]) = NoTarget => FirstMatch(active', seeds[i]) = NoTarget
  BY <1>3, <1>4, FirstMatchNone
<1> QED BY <1>1, <1>2, <1>5 DEF Settled

\* A hit that is shown is behind the seed that the loop looks at next.
LEMMA EmitMiss ==
    ASSUME TypeOK, MissInv, Emit
    PROVE  MissInv'
<1>1. /\ pc = "seeds" /\ next \in DOMAIN seeds /\ next' = next + 1 /\ seeds' = seeds
      /\ opt' = opt /\ base' = base
      /\ pc' = IF Enough(found', active') THEN "batchEnd" ELSE "seeds"
      /\ [number |-> found + 1, target |-> Target, index |-> next, base |-> base] \in emitted'
  BY DEF Emit, More, given
<1>2. ASSUME NEW i \in DOMAIN seeds, i = next PROVE Settled(i)'
  BY <1>1, <1>2 DEF Settled
<1>3. DOMAIN seeds \subseteq Nat /\ next \in Nat
  <2>1. DOMAIN seeds = 1 .. Len(seeds) /\ Len(seeds) \in Nat
    BY DEF TypeOK
  <2> QED BY <2>1 DEF TypeOK
<1>4. ASSUME opt.allowSiblings, NEW i \in DOMAIN seeds, i < next + 1
      PROVE  Settled(i)'
  <2>1. CASE i = next
    BY <1>2, <2>1
  <2>2. CASE i < next
    BY <1>1, <1>4, <2>2, SettledStays DEF MissInv
  <2> QED BY <1>3, <1>4, <2>1, <2>2
<1> QED BY <1>1, <1>4 DEF MissInv

\* No step passes over a seed that matches a live target.
LEMMA MissStep == TypeOK /\ MissInv /\ [Next]_vars => MissInv'
<1> SUFFICES ASSUME TypeOK, MissInv, [Next]_vars PROVE MissInv'
  OBVIOUS
<1>0. DOMAIN seeds \subseteq Nat /\ next \in Nat
  <2>1. DOMAIN seeds = 1 .. Len(seeds) /\ Len(seeds) \in Nat
    BY DEF TypeOK
  <2> QED BY <2>1 DEF TypeOK
<1>1. CASE Draw
  BY <1>1 DEF Draw, MissInv
<1>2. CASE Fail
  BY <1>2 DEF Fail, MissInv
<1>3. ASSUME NEW answer \in Answers, Search(answer) PROVE MissInv'
  <2>1. pc' = "seeds" /\ next' = 1 /\ DOMAIN seeds' \subseteq Nat \ {0}
    <3>1. DOMAIN answer = 1 .. Len(answer) /\ Len(answer) \in Nat
      BY AnswerType
    <3> QED BY <1>3, <3>1 DEF Search
  <2> QED BY <2>1 DEF MissInv
<1>4. CASE Skip
  <2>1. /\ More /\ Target = NoTarget /\ next' = next + 1
        /\ UNCHANGED <<opt, pc, base, active, seeds, found, emitted>>
    BY <1>4 DEF Skip, given
  <2>2. \A i \in DOMAIN seeds : i = next \/ Settled(i) => Settled(i)'
    BY <2>1 DEF Settled, Target
  <2> QED BY <1>0, <2>1, <2>2 DEF MissInv, More
<1>5. CASE DiscardSibling
  <2>1. ~opt.allowSiblings /\ opt' = opt /\ pc = "seeds" /\ pc' = pc
    BY <1>5 DEF DiscardSibling, SiblingRefused, More, given
  <2> QED BY <2>1 DEF MissInv
<1>6. CASE Emit
  BY <1>6, EmitMiss
<1>7. CASE SeedsDone
  <2>1. /\ pc = "seeds" /\ pc' = "batchEnd" /\ next \notin DOMAIN seeds
        /\ UNCHANGED <<opt, base, active, seeds, next, found, emitted>>
    BY <1>7 DEF SeedsDone, given
  <2>2. \A i \in DOMAIN seeds : i < next
    <3>1. DOMAIN seeds = 1 .. Len(seeds) /\ Len(seeds) \in Nat
      BY DEF TypeOK
    <3> QED BY <2>1, <3>1 DEF TypeOK
  <2> QED BY <2>1, <2>2 DEF MissInv, Settled
<1>8. CASE NextBatch
  BY <1>8 DEF NextBatch, MissInv
<1>9. CASE Finish
  BY <1>9 DEF Finish, MissInv
<1>10. CASE Terminated \/ UNCHANGED vars
  BY <1>10 DEF Terminated, vars, given, progress, MissInv, Settled, Enough
<1> QED
  BY <1>1, <1>2, <1>3, <1>4, <1>5, <1>6, <1>7, <1>8, <1>9, <1>10 DEF Next, HostStep

\* With --allow-sibling-hits a batch that does not end the search leaves no hit
\* behind, whatever its hits retired meanwhile.
THEOREM ClassicGpuNothingMissed == Spec => []NothingMissed
<1>1. Init => MissInv
  BY DEF Init, MissInv
<1>2. MissInv => NothingMissed
  BY DEF MissInv, NothingMissed, Settled
<1> QED BY <1>1, <1>2, MissStep, ClassicGpuTypeCorrect, PTL DEF Spec
-----------------------------------------------------------------------------
(***************************************************************************)
(* Refinement.                                                             *)
(***************************************************************************)

Numbers == {e.number : e \in emitted}

\* The hits shown are numbered from 1 to found; the search goes on only while
\* the budget is not spent; and a retiring search clears the flag of what it
\* shows.
NumberInv ==
    /\ Numbers = 1 .. found
    /\ \A e, f \in emitted : e.number = f.number => e = f
    /\ found <= Count
    /\ pc \in {"draw", "search", "seeds"} => found < Count
    /\ Retire => \A e \in emitted : ~active[e.target]

\* A hit that is shown has the next number.
LEMMA EmitNumbers ==
    ASSUME TypeOK, NumberInv, Emit
    PROVE  NumberInv'
<1> DEFINE h == [number |-> found + 1, target |-> Target, index |-> next, base |-> base]
<1>1. /\ emitted' = emitted \cup {h} /\ found' = found + 1 /\ pc = "seeds"
      /\ active' = AfterClaim(active, Target)
      /\ pc' = IF Enough(found', active') THEN "batchEnd" ELSE "seeds"
  BY DEF Emit, More
<1>2. h.number = found + 1 /\ h.target = Target /\ Target \in Targets
  BY TargetSpec DEF Emit
<1>3. found \in Nat /\ found < Count /\ Count \in Nat
  BY <1>1, ClassicGpuSearchAssumption DEF TypeOK, NumberInv
<1>4. \A e \in emitted : e.number \in 1 .. found /\ e.target \in Targets
  BY DEF NumberInv, Numbers, TypeOK, HitRecord
<1> HIDE DEF h
<1>5. Numbers' = Numbers \cup {found + 1}
  BY <1>1, <1>2 DEF Numbers
<1>6. Numbers' = 1 .. found'
  BY <1>1, <1>3, <1>5 DEF NumberInv
<1>7. \A e, f \in emitted' : e.number = f.number => e = f
  BY <1>1, <1>2, <1>3, <1>4 DEF NumberInv
<1>8. found' <= Count /\ (pc' \in {"draw", "search", "seeds"} => found' < Count)
  BY <1>1, <1>3 DEF Enough
<1>9. Retire => \A e \in emitted' : ~active'[e.target]
  <2>1. Retire => ~active'[h.target] /\ \A t \in Targets : ~active[t] => ~active'[t]
    BY <1>1, <1>2, AfterClaimSpec DEF TypeOK
  <2> QED BY <1>1, <1>4, <2>1 DEF NumberInv
<1> QED BY <1>6, <1>7, <1>8, <1>9 DEF NumberInv

\* The hits shown are numbered from 1 without a gap.
LEMMA NumberStep == TypeOK /\ NumberInv /\ [Next]_vars => NumberInv'
<1> SUFFICES ASSUME TypeOK, NumberInv, [Next]_vars PROVE NumberInv'
  OBVIOUS
<1> USE DEF NumberInv, Numbers
<1>1. CASE Draw
  BY <1>1 DEF Draw, given
<1>2. CASE Fail
  BY <1>2 DEF Fail, given
<1>3. ASSUME NEW answer \in Answers, Search(answer) PROVE NumberInv'
  BY <1>3 DEF Search, given
<1>4. CASE Skip
  BY <1>4 DEF Skip, given
<1>5. CASE DiscardSibling
  BY <1>5 DEF DiscardSibling, given
<1>6. CASE Emit
  BY <1>6, EmitNumbers
<1>7. CASE SeedsDone
  BY <1>7 DEF SeedsDone, given
<1>8. CASE NextBatch
  BY <1>8, ClassicGpuSearchAssumption DEF NextBatch, LastBatch, Enough, TypeOK
<1>9. CASE Finish
  BY <1>9 DEF Finish, given
<1>10. CASE Terminated \/ UNCHANGED vars
  BY <1>10 DEF Terminated, vars, given, progress
<1> QED
  BY <1>1, <1>2, <1>3, <1>4, <1>5, <1>6, <1>7, <1>8, <1>9, <1>10 DEF Next, HostStep

\* At first no number is given.
LEMMA NumberInit == Init => NumberInv
<1> SUFFICES ASSUME Init PROVE NumberInv
  OBVIOUS
<1>1. emitted = {} /\ found = 0
  BY DEF Init
<1>2. Numbers = {} /\ 1 .. 0 = {}
  BY <1>1 DEF Numbers
<1> QED BY <1>1, <1>2, ClassicGpuSearchAssumption DEF NumberInv

\* A step that shows nothing leaves the ledger as it is.
LEMMA LedgerStutter ==
    ASSUME emitted' = emitted, pc # "done", pc' # "done"
    PROVE  UNCHANGED Ledger!ledgerVars
  BY DEF Ledger!ledgerVars

\* A hit written and printed is a new entry of the ledger.
LEMMA EmitShows ==
    ASSUME TypeOK, NumberInv, Emit
    PROVE  Ledger!Show(found + 1, Target)
<1> DEFINE k == found + 1
           h == [number |-> found + 1, target |-> Target, index |-> next, base |-> base]
<1>1. /\ emitted' = emitted \cup {h} /\ h.number = k /\ h.target = Target
      /\ pc = "seeds" /\ pc' # "done" /\ active[Target]
  BY TargetSpec DEF Emit
<1>2. k \in 1 .. Count /\ k \notin Numbers /\ found \in Nat
  <2>1. found \in Nat /\ found < Count /\ Numbers = 1 .. found
    BY <1>1 DEF TypeOK, NumberInv
  <2> QED BY <2>1, ClassicGpuSearchAssumption
<1> HIDE DEF h, k
<1>3. (\A e \in emitted : e.number # k) /\ \A e, f \in emitted : e.number = f.number => e = f
  BY <1>2 DEF Numbers, NumberInv
<1>4. DOMAIN LedgerOf(emitted) = Numbers
  BY <1>3, LedgerOfSpec DEF Numbers
<1>5. LedgerOf(emitted') = LedgerWith(LedgerOf(emitted), k, Target)
  BY <1>1, <1>3, LedgerOfAdd
<1>6. Retire => \A m \in DOMAIN LedgerOf(emitted) : LedgerOf(emitted)[m] # Target
  <2>1. \A e \in emitted : LedgerOf(emitted)[e.number] = e.target
    BY <1>3, LedgerOfSpec
  <2>2. Retire => \A e \in emitted : e.target # Target
    BY <1>1 DEF NumberInv
  <2> QED BY <1>4, <2>1, <2>2 DEF Numbers
<1>7. Ledger!Show(k, Target)
  BY <1>1, <1>2, <1>4, <1>5, <1>6 DEF Ledger!Show, LedgerWith
<1> QED BY <1>7 DEF k

\* When cmd_gpu returns, the ledger is complete and its size is found.
LEMMA FinishEnds ==
    ASSUME TypeOK, NumberInv, Finish
    PROVE  found \in 0 .. Count /\ Ledger!End(found)
<1>1. /\ pc = "batchEnd" /\ pc' = "done" /\ emitted' = emitted /\ found' = found
  BY DEF Finish
<1>2. found \in 0 .. Count
  BY ClassicGpuSearchAssumption DEF TypeOK, NumberInv
<1>3. DOMAIN LedgerOf(emitted) = 1 .. found
  BY DEF NumberInv, Numbers, LedgerOf
<1> QED BY <1>1, <1>2, <1>3 DEF Ledger!End

\* Every step adds one hit to the ledger, closes it, or leaves it as it is.
LEMMA LedgerStep == TypeOK /\ NumberInv /\ [Next]_vars => [Ledger!LedgerNext]_(Ledger!ledgerVars)
<1> SUFFICES ASSUME TypeOK, NumberInv, [Next]_vars
             PROVE  [Ledger!LedgerNext]_(Ledger!ledgerVars)
  OBVIOUS
<1>1. CASE Emit
  <2>1. found + 1 \in 1 .. Count /\ Target \in Targets
    BY <1>1, EmitShows, TargetSpec DEF Ledger!Show, Emit
  <2>2. Ledger!Show(found + 1, Target)
    BY <1>1, EmitShows
  <2>3. \E n \in 1 .. Count, t \in Targets : Ledger!Show(n, t)
    BY <2>1, <2>2
  <2> QED BY <2>3 DEF Ledger!LedgerNext
<1>2. CASE Finish
  BY <1>2, FinishEnds DEF Ledger!LedgerNext
<1>3. CASE Draw \/ Fail \/ (\E answer \in Answers : Search(answer))
  BY <1>3, LedgerStutter DEF Draw, Fail, Search
<1>4. CASE Skip \/ DiscardSibling \/ SeedsDone \/ NextBatch
  BY <1>4, LedgerStutter DEF Skip, DiscardSibling, More, SeedsDone, NextBatch
<1>5. CASE Terminated \/ UNCHANGED vars
  BY <1>5 DEF Terminated, vars, progress, Ledger!ledgerVars
<1> QED BY <1>1, <1>2, <1>3, <1>4, <1>5 DEF Next, HostStep

\* The ledger begins empty and open.
LEMMA LedgerInit == Init => Ledger!LedgerInit
<1> SUFFICES ASSUME Init PROVE Ledger!LedgerInit
  OBVIOUS
<1>1. emitted = {} /\ pc = "draw"
  BY DEF Init
<1> QED BY <1>1 DEF Ledger!LedgerInit, LedgerOf

\* The GPU search for ed25519 addresses keeps the promise of HitLedger, whatever
\* the device answers.
THEOREM ClassicGpuImplementsLedger == Spec => ImplementsLedger
  BY LedgerInit, ClassicGpuTypeCorrect, NumberInit, NumberStep, LedgerStep, PTL
  DEF Spec, ImplementsLedger, Ledger!LedgerSpec
=============================================================================
