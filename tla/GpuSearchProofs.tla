---------------------------- MODULE GpuSearchProofs ----------------------------
(***************************************************************************)
(* Theorems about GpuSearch, for every target list, budget and size of a   *)
(* batch, for all options and whatever the device answers.                 *)
(***************************************************************************)
EXTENDS GpuSearch, TargetSetProofs, TLAPS

-----------------------------------------------------------------------------
(***************************************************************************)
(* Types.                                                                  *)
(***************************************************************************)

\* verify_one's target matches the address of the hit and is active.
LEMMA VerifyOneSpec ==
    ASSUME TypeOK, NEW h \in RawHit
    PROVE  /\ VerifyOne(h) \in Targets \cup {NoTarget}
           /\ VerifyOne(h) # NoTarget =>
                /\ Usable(h)
                /\ VerifyOne(h) \in Matches[h.key][h.salt]
                /\ active[VerifyOne(h)]
<1>1. Matches[h.key][h.salt] \in SUBSET Targets
  BY PqAddressAssumption DEF RawHit
<1>2. active \in [Targets -> BOOLEAN]
  BY DEF TypeOK
<1>3. FirstMatch(active, Matches[h.key][h.salt]) # NoTarget =>
        /\ FirstMatch(active, Matches[h.key][h.salt]) \in Matches[h.key][h.salt]
        /\ active[FirstMatch(active, Matches[h.key][h.salt])]
  BY <1>1, <1>2, FirstMatchSpec
<1> QED BY <1>1, <1>3 DEF VerifyOne

\* verify_hits: one entry for each raw hit, in the order of the answer.
LEMMA SearchVerifies ==
    ASSUME TypeOK, NEW raw \in Answers, Search(raw)
    PROVE  /\ verified' \in Seq(VerifiedHit)
           /\ \A i \in DOMAIN verified' :
                /\ verified'[i].target # NoTarget =>
                     /\ Usable(verified'[i])
                     /\ verified'[i].target \in Matches[verified'[i].key][verified'[i].salt]
                     /\ active[verified'[i].target]
<1>1. PICK n \in 0 .. MaxHits : raw \in [1 .. n -> RawHit]
  BY DEF Answers
<1>2. verified' = [i \in 1 .. n |-> [key |-> raw[i].key, salt |-> raw[i].salt,
                                     target |-> VerifyOne(raw[i])]]
  BY <1>1 DEF Search
<1>3. ASSUME NEW i \in 1 .. n
      PROVE  /\ verified'[i] \in VerifiedHit
             /\ verified'[i].target # NoTarget =>
                  /\ Usable(verified'[i])
                  /\ verified'[i].target \in Matches[verified'[i].key][verified'[i].salt]
                  /\ active[verified'[i].target]
  <2>1. raw[i] \in RawHit
    BY <1>1
  <2>2. /\ verified'[i].key = raw[i].key /\ verified'[i].salt = raw[i].salt
        /\ verified'[i].target = VerifyOne(raw[i])
    BY <1>2
  <2>3. verified'[i] \in VerifiedHit
    BY <1>2, <2>1, VerifyOneSpec DEF VerifiedHit, RawHit
  <2>4. Usable(raw[i]) => Usable(verified'[i])
    BY <2>2 DEF Usable
  <2> QED BY <2>1, <2>2, <2>3, <2>4, VerifyOneSpec
<1>4. n \in Nat
  BY GpuSearchAssumption
<1>5. DOMAIN verified' = 1 .. n /\ verified' \in [1 .. n -> VerifiedHit]
  BY <1>2, <1>3
<1>6. verified' \in Seq(VerifiedHit)
  BY <1>4, <1>5
<1> QED BY <1>3, <1>5, <1>6

\* The hit in hand is a verified one of the batch, with a live target.
LEMMA HitType ==
    ASSUME TypeOK, Wanted
    PROVE  /\ Hit \in VerifiedHit /\ Hit.target \in Targets /\ active[Hit.target]
           /\ next \in DOMAIN verified /\ pc = "hits"
<1>1. Hit \in VerifiedHit
  BY DEF TypeOK, Wanted, More, Hit
<1> QED BY <1>1 DEF Wanted, More, Open, VerifiedHit

\* The types hold before the first batch.
LEMMA TypeInit == Init => TypeOK
  BY GpuSearchAssumption DEF Init, TypeOK, Base, AllActive

\* A hit that is shown keeps the types.
LEMMA EmitType ==
    ASSUME TypeOK, Emit
    PROVE  TypeOK'
<1>1. Hit \in VerifiedHit /\ Hit.target \in Targets
  BY HitType DEF Emit
<1>2. [number |-> found + 1, target |-> Hit.target, key |-> Hit.key,
       salt |-> Hit.salt, base |-> base] \in HitRecord
  BY <1>1 DEF HitRecord, VerifiedHit, TypeOK
<1>3. active' \in [Targets -> BOOLEAN]
  BY AfterClaimType DEF Emit, TypeOK
<1> QED BY <1>2, <1>3 DEF Emit, TypeOK

\* Every step of cmd_gpu keeps the types.
LEMMA TypeStep == TypeOK /\ [Next]_vars => TypeOK'
<1> SUFFICES ASSUME TypeOK, [Next]_vars PROVE TypeOK'
  OBVIOUS
<1>1. CASE Draw
  BY <1>1 DEF Draw, TypeOK, Base
<1>2. CASE Fail
  BY <1>2 DEF Fail, TypeOK
<1>3. ASSUME NEW raw \in Answers, Search(raw) PROVE TypeOK'
  BY <1>3, SearchVerifies DEF Search, TypeOK
<1>4. CASE Skip
  BY <1>4 DEF Skip, TypeOK
<1>5. CASE DiscardSibling
  BY <1>5 DEF DiscardSibling, TypeOK
<1>6. CASE Emit
  BY <1>6, EmitType
<1>7. CASE HitsDone
  BY <1>7 DEF HitsDone, TypeOK
<1>8. CASE NextBatch
  BY <1>8 DEF NextBatch, TypeOK
<1>9. CASE Finish
  BY <1>9 DEF Finish, TypeOK
<1>10. CASE Terminated \/ UNCHANGED vars
  BY <1>10 DEF Terminated, vars, progress, TypeOK
<1> QED
  BY <1>1, <1>2, <1>3, <1>4, <1>5, <1>6, <1>7, <1>8, <1>9, <1>10 DEF Next, HostStep

\* The types of the state of cmd_gpu: every hit shown is for a target of
\* the list, with the base of a batch.
THEOREM GpuTypeCorrect == Spec => []TypeOK
  BY TypeInit, TypeStep, PTL DEF Spec
-----------------------------------------------------------------------------
(***************************************************************************)
(* Usable hits.                                                            *)
(***************************************************************************)

\* A hit of the batch that was not culled is usable for its target.
UsableInv ==
    /\ \A i \in DOMAIN verified :
         verified[i].target # NoTarget =>
            /\ Usable(verified[i])
            /\ verified[i].target \in Matches[verified[i].key][verified[i].salt]
    /\ HitsAreUsable

\* The hit that is shown is one that verify_one let through.
LEMMA EmitUsable ==
    ASSUME TypeOK, UsableInv, Emit
    PROVE  UsableInv'
<1> DEFINE e == [number |-> found + 1, target |-> Hit.target, key |-> Hit.key,
                 salt |-> Hit.salt, base |-> base]
<1>1. Hit \in VerifiedHit /\ Hit.target \in Targets /\ next \in DOMAIN verified
  BY HitType DEF Emit
<1>2. Hit.target # NoTarget
  BY DEF Emit, Wanted, Open
<1>3. Usable(Hit) /\ Hit.target \in Matches[Hit.key][Hit.salt]
  BY <1>1, <1>2 DEF UsableInv, Hit
<1>4. opt.canonicalOnly => \A s \in Compliant[Hit.key] : Hit.salt <= s
  <2>1. Compliant[Hit.key] \in SUBSET Nat /\ Compliant[Hit.key] # {}
    <3>1. Compliant[Hit.key] \in SUBSET Salts
      BY <1>1, PqAddressAssumption DEF VerifiedHit
    <3>2. Salts \subseteq Nat
      BY PqAddressAssumption DEF Salts
    <3> QED BY <1>3, <3>1, <3>2 DEF Usable
  <2>2. \A s \in Compliant[Hit.key] : CanonicalPqSalt(Hit.key) <= s
    BY <2>1, LeastElement DEF CanonicalPqSalt
  <2> QED BY <1>3, <2>2 DEF Usable
<1>5. emitted' = emitted \cup {e} /\ verified' = verified /\ opt' = opt
  BY DEF Emit
<1>6. /\ e.key \notin Doomed /\ e.target \in Matches[e.key][e.salt]
      /\ e.salt \in Compliant[e.key]
      /\ opt.canonicalOnly => \A s \in Compliant[e.key] : e.salt <= s
  BY <1>3, <1>4 DEF Usable
<1> HIDE DEF e
<1>7. HitsAreUsable'
  BY <1>5, <1>6 DEF UsableInv, HitsAreUsable
<1> QED BY <1>5, <1>7 DEF UsableInv, Usable

\* No step shows a hit that verify_one has not let through.
LEMMA UsableStep == TypeOK /\ UsableInv /\ [Next]_vars => UsableInv'
<1> SUFFICES ASSUME TypeOK, UsableInv, [Next]_vars PROVE UsableInv'
  OBVIOUS
<1> USE DEF UsableInv, Usable, HitsAreUsable
<1>1. CASE Draw
  BY <1>1 DEF Draw
<1>2. CASE Fail
  BY <1>2 DEF Fail
<1>3. ASSUME NEW raw \in Answers, Search(raw) PROVE UsableInv'
  BY <1>3, SearchVerifies DEF Search
<1>4. CASE Skip
  BY <1>4 DEF Skip
<1>5. CASE DiscardSibling
  BY <1>5 DEF DiscardSibling
<1>6. CASE Emit
  BY <1>6, EmitUsable
<1>7. CASE HitsDone
  BY <1>7 DEF HitsDone
<1>8. CASE NextBatch
  BY <1>8 DEF NextBatch
<1>9. CASE Finish
  BY <1>9 DEF Finish
<1>10. CASE Terminated \/ UNCHANGED vars
  BY <1>10 DEF Terminated, vars, progress
<1> QED
  BY <1>1, <1>2, <1>3, <1>4, <1>5, <1>6, <1>7, <1>8, <1>9, <1>10 DEF Next, HostStep

\* Whatever the device answers, verify_one lets through only hits whose address
\* the user of the mnemonic gets, and cmd_gpu shows no other.
THEOREM GpuHitsUsable == Spec => []HitsAreUsable
<1>1. Init => UsableInv
  BY DEF Init, UsableInv, HitsAreUsable
<1>2. UsableInv => HitsAreUsable
  BY DEF UsableInv
<1> QED BY <1>1, <1>2, UsableStep, GpuTypeCorrect, PTL DEF Spec
-----------------------------------------------------------------------------
(***************************************************************************)
(* Bases.  Between the draw of a base and the end of its batch the base is *)
(* the newest one, and batch_emitted tells whether it has shown a hit.     *)
(***************************************************************************)

\* No hit shown so far has the batch or the refresh of the mixer of now.
BaseUnused == \A e \in emitted : e.base.batch < batch /\ e.base.draw < cached

ShareInv ==
    /\ pc \in {"search", "hits", "batchEnd"} => base = [batch |-> batch, draw |-> cached]
    /\ pc \in {"draw", "search"} => BaseUnused
    /\ pc = "hits" /\ batchEmitted = 0 => BaseUnused
    /\ \A e \in emitted : e.base.batch <= batch /\ e.base.draw <= cached
    /\ HitsShareNothing

\* Without siblings the first hit of a batch is the only one of its base.
LEMMA EmitShare ==
    ASSUME TypeOK, ShareInv, Emit
    PROVE  ShareInv'
<1> DEFINE h == [number |-> found + 1, target |-> Hit.target, key |-> Hit.key,
                 salt |-> Hit.salt, base |-> base]
<1>1. /\ pc = "hits" /\ emitted' = emitted \cup {h} /\ opt' = opt
      /\ batch' = batch /\ cached' = cached /\ base' = base
      /\ batchEmitted' = batchEmitted + 1 /\ pc' \in {"hits", "batchEnd"}
  BY DEF Emit, Wanted, More
<1>2. h.base = base /\ base = [batch |-> batch, draw |-> cached]
  BY <1>1 DEF ShareInv
<1>3. ~opt.allowSiblings => batchEmitted = 0
  BY DEF Emit, SiblingRefused, TypeOK
<1>4. batch \in Nat /\ cached \in Nat /\ batchEmitted' # 0
  BY <1>1 DEF TypeOK
<1>5. ~opt.allowSiblings => \A e \in emitted : /\ e.base.batch # h.base.batch
                                               /\ e.base.draw # h.base.draw
  <2>1. \A e \in emitted : e.base.batch \in Nat /\ e.base.draw \in Nat
    BY DEF TypeOK, HitRecord, Base
  <2> HIDE DEF h
  <2> QED BY <1>1, <1>2, <1>3, <1>4, <2>1 DEF ShareInv, BaseUnused
<1> HIDE DEF h
<1>6. HitsShareNothing'
  BY <1>1, <1>5 DEF ShareInv, HitsShareNothing
<1>7. \A e \in emitted' : e.base.batch <= batch' /\ e.base.draw <= cached'
  BY <1>1, <1>2, <1>4 DEF ShareInv
<1> QED BY <1>1, <1>2, <1>4, <1>6, <1>7 DEF ShareInv

\* No step shows a second hit of a base.
LEMMA ShareStep == TypeOK /\ ShareInv /\ [Next]_vars => ShareInv'
<1> SUFFICES ASSUME TypeOK, ShareInv, [Next]_vars PROVE ShareInv'
  OBVIOUS
<1> USE DEF ShareInv, HitsShareNothing, BaseUnused
<1>1. CASE Draw
  BY <1>1 DEF Draw
<1>2. CASE Fail
  BY <1>2 DEF Fail
<1>3. ASSUME NEW raw \in Answers, Search(raw) PROVE ShareInv'
  BY <1>3 DEF Search
<1>4. CASE Skip
  BY <1>4 DEF Skip
<1>5. CASE DiscardSibling
  BY <1>5 DEF DiscardSibling
<1>6. CASE Emit
  BY <1>6, EmitShare
<1>7. CASE HitsDone
  BY <1>7 DEF HitsDone
<1>8. CASE NextBatch
  <2>1. \A e \in emitted : e.base.batch \in Nat /\ e.base.draw \in Nat
    BY DEF TypeOK, HitRecord, Base
  <2> QED BY <1>8, <2>1 DEF NextBatch, TypeOK
<1>9. CASE Finish
  BY <1>9 DEF Finish
<1>10. CASE Terminated \/ UNCHANGED vars
  BY <1>10 DEF Terminated, vars, progress
<1> QED
  BY <1>1, <1>2, <1>3, <1>4, <1>5, <1>6, <1>7, <1>8, <1>9, <1>10 DEF Next, HostStep

\* Without --allow-sibling-hits no two hits shown share a base or are of the same
\* refresh of the mixer: batch_emitted is reset with each base, and the mixer is
\* refreshed between two batches.
THEOREM GpuHitsShareNothing == Spec => []HitsShareNothing
<1>1. Init => ShareInv
  BY DEF Init, ShareInv, HitsShareNothing, BaseUnused
<1>2. ShareInv => HitsShareNothing
  BY DEF ShareInv
<1> QED BY <1>1, <1>2, ShareStep, GpuTypeCorrect, PTL DEF Spec
-----------------------------------------------------------------------------
(***************************************************************************)
(* Batches.                                                                *)
(***************************************************************************)

\* While a batch has shown nothing, the targets that its hits were verified
\* for are all still active, and every hit looked at so far was culled; once
\* batch_emitted is positive, a hit of the batch's base has been shown.
WasteInv ==
    /\ pc = "hits" /\ batchEmitted = 0 =>
         \A i \in DOMAIN verified :
            /\ verified[i].target # NoTarget => active[verified[i].target]
            /\ i < next => verified[i].target = NoTarget
    /\ pc = "hits" /\ batchEmitted # 0 => \E e \in emitted : e.base = base
    /\ BatchNotWasted

\* No step leaves a batch whose usable hit was not shown.
LEMMA WasteStep == TypeOK /\ WasteInv /\ [Next]_vars => WasteInv'
<1> SUFFICES ASSUME TypeOK, WasteInv, [Next]_vars PROVE WasteInv'
  OBVIOUS
<1> USE DEF WasteInv, BatchNotWasted
<1>0. DOMAIN verified \subseteq Nat \ {0} /\ next \in Nat /\ batchEmitted \in Nat
  <2>1. DOMAIN verified = 1 .. Len(verified) /\ Len(verified) \in Nat
    BY DEF TypeOK
  <2> QED BY <2>1 DEF TypeOK
<1>1. CASE Draw
  BY <1>1 DEF Draw
<1>2. CASE Fail
  BY <1>2 DEF Fail
<1>3. ASSUME NEW raw \in Answers, Search(raw) PROVE WasteInv'
  <2>1. DOMAIN verified' \subseteq Nat \ {0}
    <3>1. verified' \in Seq(VerifiedHit)
      BY <1>3, SearchVerifies
    <3>2. DOMAIN verified' = 1 .. Len(verified') /\ Len(verified') \in Nat
      BY <3>1
    <3> QED BY <3>2
  <2> QED BY <1>3, <2>1, SearchVerifies DEF Search
<1>4. CASE Skip
  <2>1. /\ pc = "hits" /\ pc' = pc /\ next' = next + 1 /\ next \in DOMAIN verified
        /\ UNCHANGED <<active, verified, batchEmitted, emitted, base>>
    BY <1>4 DEF Skip, More
  <2>2. ~(verified[next].target # NoTarget /\ active[verified[next].target])
    BY <1>4 DEF Skip, Open, Hit
  <2> QED BY <1>0, <2>1, <2>2
<1>5. CASE DiscardSibling
  <2>1. batchEmitted # 0 /\ UNCHANGED <<pc, batchEmitted, emitted, base>>
    BY <1>0, <1>5 DEF DiscardSibling, SiblingRefused
  <2> QED BY <1>5, <2>1 DEF DiscardSibling, Wanted, More
<1>6. CASE Emit
  <2> DEFINE h == [number |-> found + 1, target |-> Hit.target, key |-> Hit.key,
                   salt |-> Hit.salt, base |-> base]
  <2>1. h \in emitted' /\ h.base = base /\ base' = base /\ batchEmitted' # 0
    BY <1>0, <1>6 DEF Emit
  <2> HIDE DEF h
  <2> QED BY <2>1
<1>7. CASE HitsDone
  <2>1. /\ next \notin DOMAIN verified /\ pc = "hits" /\ pc' = "batchEnd"
        /\ UNCHANGED <<verified, batchEmitted, emitted, base>>
    BY <1>7 DEF HitsDone
  <2>2. \A i \in DOMAIN verified : i < next
    <3>1. DOMAIN verified = 1 .. Len(verified) /\ Len(verified) \in Nat
      BY DEF TypeOK
    <3> QED BY <2>1, <3>1 DEF TypeOK
  <2> QED BY <2>1, <2>2
<1>8. CASE NextBatch
  BY <1>8 DEF NextBatch
<1>9. CASE Finish
  BY <1>9 DEF Finish
<1>10. CASE Terminated \/ UNCHANGED vars
  BY <1>10 DEF Terminated, vars, progress
<1> QED
  BY <1>1, <1>2, <1>3, <1>4, <1>5, <1>6, <1>7, <1>8, <1>9, <1>10 DEF Next, HostStep

\* A batch with a usable hit shows one.
THEOREM NoBatchWasted == Spec => []BatchNotWasted
<1>1. Init => WasteInv
  BY DEF Init, WasteInv, BatchNotWasted
<1>2. WasteInv => BatchNotWasted
  BY DEF WasteInv
<1> QED BY <1>1, <1>2, WasteStep, GpuTypeCorrect, PTL DEF Spec
-----------------------------------------------------------------------------
(***************************************************************************)
(* Refinement.                                                             *)
(***************************************************************************)

Numbers == {e.number : e \in emitted}

\* The hits shown are numbered from 1 to found; the search goes on only while
\* the budget is not spent; and a retiring search clears the flag of what it
\* shows.
NumberInv ==
    /\ Numbers = 1 .. found
    /\ \A e, f \in emitted : e.number = f.number => e = f
    /\ found <= Count
    /\ pc \in {"draw", "search", "hits"} => found < Count
    /\ Retire => \A e \in emitted : ~active[e.target]

\* A hit that is shown has the next number.
LEMMA EmitNumbers ==
    ASSUME TypeOK, NumberInv, Emit
    PROVE  NumberInv'
<1> DEFINE h == [number |-> found + 1, target |-> Hit.target, key |-> Hit.key,
                 salt |-> Hit.salt, base |-> base]
<1>1. /\ emitted' = emitted \cup {h} /\ found' = found + 1 /\ pc = "hits"
      /\ active' = AfterClaim(active, Hit.target)
      /\ pc' = IF Enough(found', active') THEN "batchEnd" ELSE "hits"
  BY DEF Emit, Wanted, More
<1>2. h.number = found + 1 /\ h.target = Hit.target /\ Hit.target \in Targets
  BY HitType DEF Emit
<1>3. found \in Nat /\ found < Count /\ Count \in Nat
  BY <1>1, GpuSearchAssumption DEF TypeOK, NumberInv
<1>4. \A e \in emitted : e.number \in 1 .. found /\ e.target \in Targets
  BY DEF NumberInv, Numbers, TypeOK, HitRecord
<1> HIDE DEF h
<1>5. Numbers' = Numbers \cup {found + 1}
  BY <1>1, <1>2 DEF Numbers
<1>6. Numbers' = 1 .. found'
  BY <1>1, <1>3, <1>5 DEF NumberInv
<1>7. \A e, f \in emitted' : e.number = f.number => e = f
  BY <1>1, <1>2, <1>3, <1>4 DEF NumberInv
<1>8. found' <= Count /\ (pc' \in {"draw", "search", "hits"} => found' < Count)
  BY <1>1, <1>3 DEF Enough
<1>9. Retire => \A e \in emitted' : ~active'[e.target]
  <2>1. Retire => ~active'[h.target] /\ \A t \in Targets : ~active[t] => ~active'[t]
    BY <1>1, <1>2, AfterClaimSpec DEF TypeOK
  <2> QED BY <1>1, <1>4, <2>1 DEF NumberInv
<1> QED BY <1>6, <1>7, <1>8, <1>9 DEF NumberInv

\* The hits shown are numbered from 1 without a gap.
LEMMA NumberStep == TypeOK /\ NumberInv /\ [Next]_vars => NumberInv'
<1> SUFFICES ASSUME TypeOK, NumberInv, [Next]_vars PROVE NumberInv'
  OBVIOUS
<1> USE DEF NumberInv, Numbers
<1>1. CASE Draw
  BY <1>1 DEF Draw
<1>2. CASE Fail
  BY <1>2 DEF Fail
<1>3. ASSUME NEW raw \in Answers, Search(raw) PROVE NumberInv'
  BY <1>3 DEF Search
<1>4. CASE Skip
  BY <1>4 DEF Skip
<1>5. CASE DiscardSibling
  BY <1>5 DEF DiscardSibling
<1>6. CASE Emit
  BY <1>6, EmitNumbers
<1>7. CASE HitsDone
  BY <1>7 DEF HitsDone
<1>8. CASE NextBatch
  BY <1>8, GpuSearchAssumption DEF NextBatch, LastBatch, Enough, TypeOK
<1>9. CASE Finish
  BY <1>9 DEF Finish
<1>10. CASE Terminated \/ UNCHANGED vars
  BY <1>10 DEF Terminated, vars, progress
<1> QED
  BY <1>1, <1>2, <1>3, <1>4, <1>5, <1>6, <1>7, <1>8, <1>9, <1>10 DEF Next, HostStep

\* At first no number is given.
LEMMA NumberInit == Init => NumberInv
<1> SUFFICES ASSUME Init PROVE NumberInv
  OBVIOUS
<1>1. emitted = {} /\ found = 0
  BY DEF Init
<1>2. Numbers = {} /\ 1 .. 0 = {}
  BY <1>1 DEF Numbers
<1> QED BY <1>1, <1>2, GpuSearchAssumption DEF NumberInv

\* A step that shows nothing leaves the ledger as it is.
LEMMA LedgerStutter ==
    ASSUME emitted' = emitted, pc # "done", pc' # "done"
    PROVE  UNCHANGED Ledger!ledgerVars
  BY DEF Ledger!ledgerVars

\* A hit written and printed is a new entry of the ledger.
LEMMA EmitShows ==
    ASSUME TypeOK, NumberInv, Emit
    PROVE  Ledger!Show(found + 1, Hit.target)
<1> DEFINE k == found + 1
           h == [number |-> found + 1, target |-> Hit.target, key |-> Hit.key,
                 salt |-> Hit.salt, base |-> base]
<1>1. /\ emitted' = emitted \cup {h} /\ h.number = k /\ h.target = Hit.target
      /\ pc = "hits" /\ pc' # "done" /\ active[Hit.target]
  BY HitType DEF Emit
<1>2. k \in 1 .. Count /\ k \notin Numbers /\ found \in Nat
  <2>1. found \in Nat /\ found < Count /\ Numbers = 1 .. found
    BY <1>1 DEF TypeOK, NumberInv
  <2> QED BY <2>1, GpuSearchAssumption
<1> HIDE DEF h, k
<1>3. (\A e \in emitted : e.number # k) /\ \A e, f \in emitted : e.number = f.number => e = f
  BY <1>2 DEF Numbers, NumberInv
<1>4. DOMAIN LedgerOf(emitted) = Numbers
  BY <1>3, LedgerOfSpec DEF Numbers
<1>5. LedgerOf(emitted') = LedgerWith(LedgerOf(emitted), k, Hit.target)
  BY <1>1, <1>3, LedgerOfAdd
<1>6. Retire => \A m \in DOMAIN LedgerOf(emitted) : LedgerOf(emitted)[m] # Hit.target
  <2>1. \A e \in emitted : LedgerOf(emitted)[e.number] = e.target
    BY <1>3, LedgerOfSpec
  <2>2. Retire => \A e \in emitted : e.target # Hit.target
    BY <1>1 DEF NumberInv
  <2> QED BY <1>4, <2>1, <2>2 DEF Numbers
<1>7. Ledger!Show(k, Hit.target)
  BY <1>1, <1>2, <1>4, <1>5, <1>6 DEF Ledger!Show, LedgerWith
<1> QED BY <1>7 DEF k

\* When cmd_gpu returns, the ledger is complete and its size is found.
LEMMA FinishEnds ==
    ASSUME TypeOK, NumberInv, Finish
    PROVE  found \in 0 .. Count /\ Ledger!End(found)
<1>1. /\ pc = "batchEnd" /\ pc' = "done" /\ emitted' = emitted /\ found' = found
  BY DEF Finish
<1>2. found \in 0 .. Count
  BY GpuSearchAssumption DEF TypeOK, NumberInv
<1>3. DOMAIN LedgerOf(emitted) = 1 .. found
  BY DEF NumberInv, Numbers, LedgerOf
<1> QED BY <1>1, <1>2, <1>3 DEF Ledger!End

\* Every step adds one hit to the ledger, closes it, or leaves it as it is.
LEMMA LedgerStep == TypeOK /\ NumberInv /\ [Next]_vars => [Ledger!LedgerNext]_(Ledger!ledgerVars)
<1> SUFFICES ASSUME TypeOK, NumberInv, [Next]_vars
             PROVE  [Ledger!LedgerNext]_(Ledger!ledgerVars)
  OBVIOUS
<1>1. CASE Emit
  <2>1. found + 1 \in 1 .. Count /\ Hit.target \in Targets
    BY <1>1, EmitShows, HitType DEF Ledger!Show, Emit
  <2>2. Ledger!Show(found + 1, Hit.target)
    BY <1>1, EmitShows
  <2>3. \E n \in 1 .. Count, t \in Targets : Ledger!Show(n, t)
    BY <2>1, <2>2
  <2> QED BY <2>3 DEF Ledger!LedgerNext
<1>2. CASE Finish
  BY <1>2, FinishEnds DEF Ledger!LedgerNext
<1>3. CASE Draw \/ Fail \/ (\E raw \in Answers : Search(raw))
  BY <1>3, LedgerStutter DEF Draw, Fail, Search
<1>4. CASE Skip \/ DiscardSibling \/ HitsDone \/ NextBatch
  BY <1>4, LedgerStutter DEF Skip, DiscardSibling, Wanted, More, HitsDone, NextBatch
<1>5. CASE Terminated \/ UNCHANGED vars
  BY <1>5 DEF Terminated, vars, progress, Ledger!ledgerVars
<1> QED BY <1>1, <1>2, <1>3, <1>4, <1>5 DEF Next, HostStep

\* The ledger begins empty and open.
LEMMA LedgerInit == Init => Ledger!LedgerInit
<1> SUFFICES ASSUME Init PROVE Ledger!LedgerInit
  OBVIOUS
<1>1. emitted = {} /\ pc = "draw"
  BY DEF Init
<1> QED BY <1>1 DEF Ledger!LedgerInit, LedgerOf

\* The GPU search for f1 addresses keeps the promise of HitLedger, whatever the
\* device answers and wherever the search is interrupted.
THEOREM GpuSearchImplementsLedger == Spec => ImplementsLedger
  BY LedgerInit, GpuTypeCorrect, NumberInit, NumberStep, LedgerStep, PTL
  DEF Spec, ImplementsLedger, Ledger!LedgerSpec
=============================================================================
