------------------------- MODULE ClassicSearchProofs -------------------------
(***************************************************************************)
(* Theorems about ClassicSearch, for every number of workers and targets,  *)
(* every length of a run and of the interval between two looks at the stop *)
(* flag, and every budget.                                                 *)
(***************************************************************************)
EXTENDS ClassicSearch, TargetSetProofs, FiniteSetTheorems, TLAPS

-----------------------------------------------------------------------------
(***************************************************************************)
(* The hit numbers of record_cpu_hit: those shown, those held by a worker, *)
(* and the increments of the counter that are to be undone.                *)
(***************************************************************************)

Pending == {w \in Workers : pc[w] \in {"lock", "emit"}}
Undoing == {w \in Workers : pc[w] = "undo"}

Shown == {e.number : e \in emitted}
Held  == {local[w].n + 1 : w \in Pending}

Granted == hits - Cardinality(Undoing)

\* Every number from 1 to Granted is shown once or held by one worker, and the
\* counter is over the budget only when the budget is spent.
HitAccounting ==
    /\ Shown \cup Held = 1 .. Granted
    /\ Shown \cap Held = {}
    /\ \A e, f \in emitted : e.number = f.number => e = f
    /\ \A v, w \in Pending : local[v].n = local[w].n => v = w
    /\ Granted <= Count
    /\ Undoing # {} => Granted = Count

\* A worker that is recording a hit has a target to record it for.
TargetChosen ==
    \A w \in Workers :
        pc[w] \in {"claim", "count", "lock", "emit"} => local[w].target # NoTarget

IInv == TypeOK /\ TargetChosen /\ HitAccounting

\* A fresh run has locals of their types.
LEMMA IdleType == Idle \in Local
  BY DEF Idle, Local

\* The workers that have to undo an increment are counted by hits.
LEMMA GrantedType ==
    ASSUME TypeOK, HitAccounting
    PROVE  /\ IsFiniteSet(Undoing)
           /\ Cardinality(Undoing) \in Nat
           /\ Granted \in Nat
           /\ hits = Granted + Cardinality(Undoing)
           /\ Undoing # {} => Cardinality(Undoing) > 0
<1>1. IsFiniteSet(Undoing)
  BY FS_Subset, ClassicSearchAssumption DEF Undoing
<1>2. Cardinality(Undoing) \in Nat /\ (Undoing = {} <=> Cardinality(Undoing) = 0)
  BY <1>1, FS_CardinalityType, FS_EmptySet
<1>3. Granted \in Nat
  <2>1. CASE Undoing = {}
    BY <2>1, <1>2 DEF Granted, TypeOK
  <2>2. CASE Undoing # {}
    BY <2>2, ClassicSearchAssumption DEF HitAccounting
  <2> QED BY <2>1, <2>2
<1> QED BY <1>1, <1>2, <1>3 DEF Granted, TypeOK

\* The search starts with no hit shown, held or counted.
LEMMA IInvInit == Init => IInv
<1> SUFFICES ASSUME Init PROVE IInv
  OBVIOUS
<1>1. TypeOK
  <2>1. local \in [Workers -> Local] /\ pc \in [Workers -> Labels]
    BY IdleType DEF Init, Labels
  <2>2. active \in [Targets -> BOOLEAN] /\ late \in [Workers -> Nat]
    BY DEF Init, AllActive
  <2>3. {hits, keys, cached, bases, result, derived} \subseteq Nat
    BY DEF Init
  <2>4. emitted \in SUBSET HitRecord /\ ioLock \in SUBSET Workers
    BY DEF Init
  <2> QED BY <2>1, <2>2, <2>3, <2>4 DEF Init, TypeOK
<1>2. TargetChosen
  BY DEF Init, TargetChosen
<1>3. HitAccounting
  <2>1. Undoing = {} /\ Pending = {} /\ Shown = {} /\ Held = {}
    BY DEF Init, Undoing, Pending, Shown, Held
  <2>2. Granted = 0
    BY <2>1, FS_EmptySet DEF Granted, Init
  <2> QED BY <2>1, <2>2, ClassicSearchAssumption DEF HitAccounting, Init
<1> QED BY <1>1, <1>2, <1>3 DEF IInv

-----------------------------------------------------------------------------
(***************************************************************************)
(* Types.                                                                  *)
(***************************************************************************)

\* The address of the next seed matches an active target: the hit is recorded
\* for the first of them.
LEMMA ScanHitType ==
    ASSUME NEW w \in Workers, NEW m \in Overlap, TypeOK, TargetChosen, ScanHit(w, m)
    PROVE  TypeOK' /\ TargetChosen'
<1>1. m \in SUBSET Targets
  BY ClassicSearchAssumption
<1>2. FirstMatch(active, m) \in Targets /\ FirstMatch(active, m) # NoTarget
  BY <1>1, FirstMatchSpec DEF ScanHit, TypeOK
<1>3. local' \in [Workers -> Local] /\ local'[w].target # NoTarget
  BY <1>2 DEF ScanHit, TypeOK, Local
<1>4. pc' = [pc EXCEPT ![w] = "claim"] /\ pc' \in [Workers -> Labels]
  BY DEF ScanHit, Goto, TypeOK, Labels
<1>5. keys' \in Nat /\ derived' \in Nat /\ late' \in [Workers -> Nat]
  <2>1. local[w].done \in Nat
    BY DEF TypeOK, Local
  <2> QED BY <2>1 DEF ScanHit, Derive, TypeOK
<1>6. TypeOK'
  BY <1>3, <1>4, <1>5 DEF ScanHit, TypeOK
<1>7. TargetChosen'
  BY <1>3, <1>4 DEF ScanHit, TypeOK, TargetChosen
<1> QED BY <1>6, <1>7

\* A fresh base is one more than the bases drawn so far.
LEMMA DrawBaseType ==
    ASSUME NEW w \in Workers, TypeOK, TargetChosen, DrawBase(w)
    PROVE  TypeOK' /\ TargetChosen'
<1>1. bases' \in Nat /\ cached \in Nat
  BY DEF DrawBase, TypeOK
<1>2. [Idle EXCEPT !.base = bases', !.draw = cached] \in Local
  BY <1>1 DEF Idle, Local
<1>3. local' \in [Workers -> Local]
  BY <1>2 DEF DrawBase, TypeOK
<1>4. pc' = [pc EXCEPT ![w] = "scan"] /\ pc' \in [Workers -> Labels]
  BY DEF DrawBase, Goto, TypeOK, Labels
<1>5. TypeOK'
  BY <1>1, <1>3, <1>4 DEF DrawBase, TypeOK, history
<1>6. TargetChosen'
  BY <1>4 DEF DrawBase, TypeOK, TargetChosen
<1> QED BY <1>5, <1>6

\* Every Poll keys the shared counter goes up by as many.
LEMMA ScanPollType ==
    ASSUME NEW w \in Workers, TypeOK, TargetChosen, ScanPoll(w)
    PROVE  TypeOK' /\ TargetChosen'
<1>1. keys' \in Nat /\ derived' \in Nat /\ late' \in [Workers -> Nat]
  BY ClassicSearchAssumption DEF ScanPoll, Derive, TypeOK
<1>2. local' \in [Workers -> Local]
  <2>1. [local[w] EXCEPT !.index = @ + 1, !.done = 0] \in Local
    <3>1. local[w] \in Local /\ local[w].index + 1 \in Nat
      BY DEF TypeOK, Local
    <3> QED BY <3>1 DEF Local
  <2>2. local' = [local EXCEPT ![w] = [local[w] EXCEPT !.index = @ + 1, !.done = 0]]
    BY DEF ScanPoll, TypeOK, Local
  <2> QED BY <2>1, <2>2 DEF TypeOK
<1>3. pc' = [pc EXCEPT ![w] = "poll"] /\ pc' \in [Workers -> Labels]
  BY DEF ScanPoll, Goto, TypeOK, Labels
<1>4. TypeOK'
  BY <1>1, <1>2, <1>3 DEF ScanPoll, TypeOK
<1>5. TargetChosen'
  BY <1>3 DEF ScanPoll, TypeOK, TargetChosen
<1> QED BY <1>4, <1>5

\* A hit shown has the worker's target.
LEMMA EmitType ==
    ASSUME NEW w \in Workers, TypeOK, TargetChosen, Emit(w)
    PROVE  TypeOK' /\ TargetChosen'
<1>1. local[w] \in Local /\ local[w].target \in Targets
  BY DEF TypeOK, TargetChosen, Emit, Local
<1>2. emitted' \in SUBSET HitRecord
  BY <1>1 DEF Emit, HitOf, TypeOK, HitRecord, Local
<1>3. pc' = [pc EXCEPT ![w] = "finish"] /\ pc' \in [Workers -> Labels]
  BY DEF Emit, Goto, TypeOK, Labels
<1>4. TypeOK'
  BY <1>2, <1>3 DEF Emit, TypeOK, shared, history
<1>5. TargetChosen'
  BY <1>3 DEF Emit, TypeOK, TargetChosen
<1> QED BY <1>4, <1>5

\* Every step keeps the types and gives a recording worker a target.
LEMMA TypeStep == IInv /\ [Next]_vars => TypeOK' /\ TargetChosen'
<1> SUFFICES ASSUME IInv, [Next]_vars
             PROVE  TypeOK' /\ TargetChosen'
  OBVIOUS
<1> USE IdleType DEF IInv, TypeOK, TargetChosen, Goto, NextRun, Labels, shared, history
<1>0. /\ {hits, keys, cached, bases, result, derived} \subseteq Nat
      /\ \A w \in Workers : local[w] \in Local /\ local[w].index \in Nat /\ local[w].done \in Nat
  BY DEF Local
<1>1. ASSUME NEW w \in Workers, CheckStop(w) PROVE TypeOK' /\ TargetChosen'
  BY <1>1 DEF CheckStop, Local
<1>2. ASSUME NEW w \in Workers, DrawFails(w) PROVE TypeOK' /\ TargetChosen'
  BY <1>2 DEF DrawFails, Local
<1>3. ASSUME NEW w \in Workers, DrawBase(w) PROVE TypeOK' /\ TargetChosen'
  BY <1>3, DrawBaseType
<1>4. ASSUME NEW w \in Workers, NEW m \in Overlap, ScanHit(w, m) PROVE TypeOK' /\ TargetChosen'
  BY <1>4, ScanHitType
<1>5. ASSUME NEW w \in Workers, ScanMiss(w) PROVE TypeOK' /\ TargetChosen'
  BY <1>5 DEF ScanMiss, Derive, Local
<1>6. ASSUME NEW w \in Workers, ScanPoll(w) PROVE TypeOK' /\ TargetChosen'
  BY <1>6, ScanPollType
<1>7. ASSUME NEW w \in Workers, CheckPoll(w) PROVE TypeOK' /\ TargetChosen'
  BY <1>7 DEF CheckPoll, Local
<1>8. ASSUME NEW w \in Workers, RunEnds(w) PROVE TypeOK' /\ TargetChosen'
  <2>1. local[w].done \in Nat
    BY DEF Local
  <2>2. keys' \in Nat
    BY <1>8, <2>1 DEF RunEnds
  <2> QED BY <1>8, <2>2 DEF RunEnds, Local
<1>9. ASSUME NEW w \in Workers, Claim(w) PROVE TypeOK' /\ TargetChosen'
  BY <1>9, AfterClaimType DEF Claim, Local
<1>10. ASSUME NEW w \in Workers, ClaimLost(w) PROVE TypeOK' /\ TargetChosen'
  BY <1>10 DEF ClaimLost, Local
<1>11. ASSUME NEW w \in Workers, CountHit(w) PROVE TypeOK' /\ TargetChosen'
  BY <1>11 DEF CountHit, Local
<1>12. ASSUME NEW w \in Workers, UndoCount(w) PROVE TypeOK' /\ TargetChosen'
  <2>1. hits - 1 \in Nat
    BY <1>12, GrantedType DEF UndoCount, Undoing
  <2> QED BY <1>12, <2>1 DEF UndoCount
<1>13. ASSUME NEW w \in Workers, StopOverCount(w) PROVE TypeOK' /\ TargetChosen'
  BY <1>13 DEF StopOverCount, Local
<1>14. ASSUME NEW w \in Workers, LockIo(w) PROVE TypeOK' /\ TargetChosen'
  BY <1>14 DEF LockIo, Local
<1>15. ASSUME NEW w \in Workers, Emit(w) PROVE TypeOK' /\ TargetChosen'
  BY <1>15, EmitType
<1>16. ASSUME NEW w \in Workers, FinishStop(w) PROVE TypeOK' /\ TargetChosen'
  BY <1>16 DEF FinishStop, Local
<1>17. ASSUME NEW w \in Workers, FinishRefresh(w) PROVE TypeOK' /\ TargetChosen'
  BY <1>17 DEF FinishRefresh, Local
<1>18. ASSUME WatchEnds PROVE TypeOK' /\ TargetChosen'
  BY <1>18 DEF WatchEnds, Local
<1>19. ASSUME Join PROVE TypeOK' /\ TargetChosen'
  BY <1>19 DEF Join, Local
<1>20. CASE Terminated \/ UNCHANGED vars
  BY <1>20 DEF Terminated, vars
<1> QED
  BY <1>1, <1>2, <1>3, <1>4, <1>5, <1>6, <1>7, <1>8, <1>9, <1>10, <1>11, <1>12,
     <1>13, <1>14, <1>15, <1>16, <1>17, <1>18, <1>19, <1>20
  DEF Next, Worker, Scan, RecordHit

-----------------------------------------------------------------------------
(***************************************************************************)
(* Hit numbers.                                                            *)
(***************************************************************************)

\* A step that touches neither the counter, nor the hits shown, nor who holds
\* which number keeps the accounts.
LEMMA AccountingFrame ==
    ASSUME HitAccounting, hits' = hits, emitted' = emitted,
           Pending' = Pending, Undoing' = Undoing,
           \A w \in Pending : local'[w].n = local[w].n
    PROVE  HitAccounting'
<1>1. Shown' = Shown /\ Held' = Held /\ Granted' = Granted
  BY DEF Shown, Held, Granted
<1> QED BY <1>1 DEF HitAccounting

\* fetch_add below the budget: no undo is under way, and the number granted is
\* the next one.
LEMMA CountHitGrants ==
    ASSUME NEW w \in Workers, TypeOK, HitAccounting, CountHit(w), hits < Count
    PROVE  HitAccounting' /\ Granted' = Granted + 1
<1>1. Undoing = {} /\ Granted = hits
  <2>1. Undoing = {}
    BY GrantedType, ClassicSearchAssumption DEF HitAccounting, TypeOK
  <2> QED BY <2>1, FS_EmptySet DEF Granted, TypeOK
<1>2. w \notin Pending /\ Pending' = Pending \cup {w} /\ Undoing' = {}
  BY <1>1, ClassicSearchAssumption DEF CountHit, Goto, Pending, Undoing, TypeOK
<1>3. local'[w].n = hits /\ \A v \in Pending : local'[v].n = local[v].n
  BY <1>2 DEF CountHit, TypeOK, Local, Pending
<1>4. Shown' = Shown /\ emitted' = emitted
  BY DEF CountHit, Shown
<1>5. Held' = Held \cup {hits + 1}
  BY <1>2, <1>3 DEF Held, Pending
<1>6. Granted' = hits + 1
  BY <1>2, FS_EmptySet DEF Granted, CountHit, TypeOK
<1>7. Shown \cup Held = 1 .. hits /\ Shown \cap Held = {}
  BY <1>1 DEF HitAccounting
<1>8. \A v \in Pending : local[v].n # hits
  <2> SUFFICES ASSUME NEW v \in Pending, local[v].n = hits PROVE FALSE
    OBVIOUS
  <2>1. hits + 1 \in Held
    BY DEF Held
  <2> QED BY <2>1, <1>7 DEF TypeOK
<1>9. (Shown \cup Held = 1 .. Granted)' /\ (Shown \cap Held = {})'
  BY <1>4, <1>5, <1>6, <1>7 DEF TypeOK
<1>10. \A u, v \in Pending' : local'[u].n = local'[v].n => u = v
  BY <1>2, <1>3, <1>8 DEF HitAccounting
<1>11. (Granted <= Count)'
  BY <1>6, ClassicSearchAssumption DEF TypeOK
<1> QED BY <1>1, <1>2, <1>4, <1>6, <1>9, <1>10, <1>11 DEF HitAccounting

\* fetch_add beyond the budget: one more increment to undo.
LEMMA CountHitOver ==
    ASSUME NEW w \in Workers, TypeOK, HitAccounting, CountHit(w), hits >= Count
    PROVE  HitAccounting' /\ Granted = Count /\ Granted' = Granted
<1>1. Granted = Count
  <2>1. CASE Undoing # {}
    BY <2>1 DEF HitAccounting
  <2>2. CASE Undoing = {}
    BY <2>2, FS_EmptySet, ClassicSearchAssumption DEF HitAccounting, Granted, TypeOK
  <2> QED BY <2>1, <2>2
<1>2. w \notin Undoing /\ Undoing' = Undoing \cup {w}
  BY ClassicSearchAssumption DEF CountHit, Goto, Undoing, TypeOK
<1>3. Pending' = Pending /\ \A v \in Pending : local'[v].n = local[v].n
  BY ClassicSearchAssumption DEF CountHit, Goto, Pending, TypeOK
<1>4. Shown' = Shown /\ Held' = Held /\ emitted' = emitted
  BY <1>3 DEF CountHit, Shown, Held
<1>5. Cardinality(Undoing') = Cardinality(Undoing) + 1
  BY <1>2, GrantedType, FS_AddElement
<1>6. Granted' = Granted
  BY <1>5, GrantedType DEF Granted, CountHit, TypeOK
<1> QED BY <1>1, <1>3, <1>4, <1>6 DEF HitAccounting

\* fetch_sub: the counter gives back one increment beyond the budget.
LEMMA UndoAccounts ==
    ASSUME NEW w \in Workers, TypeOK, HitAccounting, UndoCount(w)
    PROVE  HitAccounting' /\ Granted = Count /\ Granted' = Granted
<1>1. w \in Undoing /\ Undoing' = Undoing \ {w}
  BY DEF UndoCount, Goto, Undoing, TypeOK
<1>2. Pending' = Pending /\ local' = local
  BY DEF UndoCount, Goto, Pending, TypeOK
<1>3. Shown' = Shown /\ Held' = Held /\ emitted' = emitted
  BY <1>2 DEF UndoCount, Shown, Held
<1>4. Cardinality(Undoing') = Cardinality(Undoing) - 1
  BY <1>1, GrantedType, FS_RemoveElement
<1>5. Granted' = Granted
  BY <1>4, GrantedType DEF Granted, UndoCount, TypeOK
<1>6. Granted = Count
  BY <1>1 DEF HitAccounting
<1> QED BY <1>2, <1>3, <1>5, <1>6 DEF HitAccounting

\* Showing a hit moves its number from the held ones to the shown ones.
LEMMA EmitAccounts ==
    ASSUME NEW w \in Workers, TypeOK, HitAccounting, Emit(w)
    PROVE  HitAccounting'
<1> DEFINE k == local[w].n + 1
<1>1. /\ w \in Pending /\ Pending' = Pending \ {w} /\ Undoing' = Undoing
      /\ local' = local /\ hits' = hits
  BY DEF Emit, Goto, Pending, Undoing, TypeOK, shared
<1>2. k \in Held /\ k \notin Shown
  BY <1>1 DEF Held, HitAccounting
<1>3. Shown' = Shown \cup {k}
  <2>1. emitted' = emitted \cup {HitOf(w)}
    BY DEF Emit
  <2>2. HitOf(w).number = k
    BY DEF HitOf
  <2> QED BY <2>1, <2>2 DEF Shown
<1>4. Held' = Held \ {k}
  <2>1. Held' = {local[v].n + 1 : v \in Pending \ {w}}
    BY <1>1 DEF Held
  <2>2. \A v \in Pending : local[v].n \in Nat
    BY DEF Pending, TypeOK, Local
  <2>3. \A v \in Pending \ {w} : local[v].n + 1 # k
    BY <1>1, <2>2 DEF HitAccounting
  <2> QED BY <2>1, <2>3 DEF Held
<1>5. \A e, f \in emitted' : e.number = f.number => e = f
  <2>1. \A e \in emitted : e.number # k
    BY <1>2 DEF Shown
  <2> QED BY <2>1 DEF Emit, HitOf, HitAccounting
<1>6. Granted' = Granted
  BY <1>1 DEF Granted
<1>7. (Shown \cup Held = 1 .. Granted)' /\ (Shown \cap Held = {})'
  BY <1>2, <1>3, <1>4, <1>6 DEF HitAccounting
<1>8. \A u, v \in Pending' : local'[u].n = local'[v].n => u = v
  BY <1>1 DEF HitAccounting
<1> QED BY <1>1, <1>5, <1>6, <1>7, <1>8 DEF HitAccounting

\* Every step keeps the accounts.
LEMMA AccountingStep == IInv /\ [Next]_vars => HitAccounting'
<1> SUFFICES ASSUME IInv, [Next]_vars
             PROVE  HitAccounting'
  OBVIOUS
<1> USE DEF IInv, TypeOK, Goto, NextRun, shared, Pending, Undoing
<1>1. ASSUME NEW w \in Workers, CheckStop(w) PROVE HitAccounting'
  BY <1>1, AccountingFrame DEF CheckStop
<1>2. ASSUME NEW w \in Workers, DrawFails(w) PROVE HitAccounting'
  BY <1>2, AccountingFrame DEF DrawFails
<1>3. ASSUME NEW w \in Workers, DrawBase(w) PROVE HitAccounting'
  BY <1>3, AccountingFrame DEF DrawBase
<1>4. ASSUME NEW w \in Workers, NEW m \in Overlap, ScanHit(w, m) PROVE HitAccounting'
  BY <1>4, AccountingFrame DEF ScanHit
<1>5. ASSUME NEW w \in Workers, ScanMiss(w) PROVE HitAccounting'
  BY <1>5, AccountingFrame DEF ScanMiss
<1>6. ASSUME NEW w \in Workers, ScanPoll(w) PROVE HitAccounting'
  BY <1>6, AccountingFrame DEF ScanPoll
<1>7. ASSUME NEW w \in Workers, CheckPoll(w) PROVE HitAccounting'
  BY <1>7, AccountingFrame DEF CheckPoll
<1>8. ASSUME NEW w \in Workers, RunEnds(w) PROVE HitAccounting'
  BY <1>8, AccountingFrame DEF RunEnds
<1>9. ASSUME NEW w \in Workers, Claim(w) PROVE HitAccounting'
  BY <1>9, AccountingFrame DEF Claim
<1>10. ASSUME NEW w \in Workers, ClaimLost(w) PROVE HitAccounting'
  BY <1>10, AccountingFrame DEF ClaimLost
<1>11. ASSUME NEW w \in Workers, CountHit(w) PROVE HitAccounting'
  <2>1. hits < Count \/ hits >= Count
    BY ClassicSearchAssumption
  <2> QED BY <1>11, <2>1, CountHitGrants, CountHitOver
<1>12. ASSUME NEW w \in Workers, UndoCount(w) PROVE HitAccounting'
  BY <1>12, UndoAccounts
<1>13. ASSUME NEW w \in Workers, StopOverCount(w) PROVE HitAccounting'
  BY <1>13, AccountingFrame DEF StopOverCount
<1>14. ASSUME NEW w \in Workers, LockIo(w) PROVE HitAccounting'
  BY <1>14, AccountingFrame DEF LockIo
<1>15. ASSUME NEW w \in Workers, Emit(w) PROVE HitAccounting'
  BY <1>15, EmitAccounts
<1>16. ASSUME NEW w \in Workers, FinishStop(w) PROVE HitAccounting'
  BY <1>16, AccountingFrame DEF FinishStop
<1>17. ASSUME NEW w \in Workers, FinishRefresh(w) PROVE HitAccounting'
  BY <1>17, AccountingFrame DEF FinishRefresh
<1>18. ASSUME WatchEnds PROVE HitAccounting'
  BY <1>18, AccountingFrame DEF WatchEnds
<1>19. ASSUME Join PROVE HitAccounting'
  BY <1>19, AccountingFrame DEF Join
<1>20. CASE Terminated \/ UNCHANGED vars
  BY <1>20, AccountingFrame DEF Terminated, vars
<1> QED
  BY <1>1, <1>2, <1>3, <1>4, <1>5, <1>6, <1>7, <1>8, <1>9, <1>10, <1>11, <1>12,
     <1>13, <1>14, <1>15, <1>16, <1>17, <1>18, <1>19, <1>20
  DEF Next, Worker, Scan, RecordHit

\* The accounts are kept in every reachable state.
LEMMA IInvAlways == Spec => []IInv
<1>1. IInv /\ [Next]_vars => IInv'
  BY TypeStep, AccountingStep DEF IInv
<1> QED BY <1>1, IInvInit, PTL DEF Spec

\* The types of TypeOK hold in every reachable state: the counter of hits, which
\* record_cpu_hit also decrements, never goes below zero.
THEOREM ClassicTypeCorrect == Spec => []TypeOK
<1>1. IInv => TypeOK
  BY DEF IInv
<1> QED BY <1>1, IInvAlways, PTL

-----------------------------------------------------------------------------
(***************************************************************************)
(* One key per base.  The base of a run that is under way belongs to one   *)
(* worker and has not been shown.                                          *)
(***************************************************************************)

Open == {"scan", "poll", "claim", "count", "undo", "halt", "lock", "emit"}

BaseInv ==
    /\ OneKeyPerBase
    /\ \A e \in emitted : e.base <= bases
    /\ \A w \in Workers : pc[w] \in Open =>
          /\ local[w].base <= bases
          /\ \A e \in emitted : e.base # local[w].base
    /\ \A v, w \in Workers :
          pc[v] \in Open /\ pc[w] \in Open /\ local[v].base = local[w].base => v = w

\* A step that draws no base and shows no hit: no run is opened, and an open one
\* keeps its base.
LEMMA BaseFrame ==
    ASSUME BaseInv, emitted' = emitted, bases' = bases,
           \A w \in Workers : pc'[w] \in Open =>
              pc[w] \in Open /\ local'[w].base = local[w].base
    PROVE  BaseInv'
  BY DEF BaseInv, OneKeyPerBase

\* A fresh base differs from all earlier ones, shown or still scanned.
LEMMA DrawBaseOpens ==
    ASSUME NEW w \in Workers, TypeOK, BaseInv, DrawBase(w)
    PROVE  BaseInv'
<1>1. /\ emitted' = emitted /\ bases' = bases + 1 /\ bases \in Nat
      /\ pc' = [pc EXCEPT ![w] = "scan"]
      /\ \A v \in Workers : v # w => local'[v] = local[v]
  BY DEF DrawBase, Goto, TypeOK
<1>2. local'[w].base = bases'
  BY DEF DrawBase, TypeOK, Idle
<1>3. /\ \A e \in emitted : e.base \in Nat
      /\ \A v \in Workers : local[v].base \in Nat
  BY DEF TypeOK, HitRecord, Local
<1>4. /\ \A e \in emitted : e.base <= bases /\ e.base # bases'
      /\ \A v \in Workers : pc[v] \in Open => local[v].base <= bases /\ local[v].base # bases'
  BY <1>1, <1>3 DEF BaseInv
<1>5. \A v \in Workers : v # w => pc'[v] = pc[v]
  BY <1>1 DEF TypeOK
<1>6. ASSUME NEW v \in Workers, pc'[v] \in Open
      PROVE  local'[v].base <= bases' /\ \A e \in emitted' : e.base # local'[v].base
  BY <1>1, <1>2, <1>3, <1>4, <1>5, <1>6 DEF BaseInv
<1>7. ASSUME NEW u \in Workers, NEW v \in Workers, pc'[u] \in Open, pc'[v] \in Open,
             local'[u].base = local'[v].base
      PROVE  u = v
  BY <1>1, <1>2, <1>4, <1>5, <1>7 DEF BaseInv
<1>8. \A e \in emitted' : e.base <= bases'
  BY <1>1, <1>3, <1>4
<1> QED BY <1>1, <1>6, <1>7, <1>8 DEF BaseInv, OneKeyPerBase

\* Showing a hit closes the run of its base.
LEMMA EmitCloses ==
    ASSUME NEW w \in Workers, TypeOK, BaseInv, Emit(w)
    PROVE  BaseInv'
<1>1. /\ emitted' = emitted \cup {HitOf(w)} /\ bases' = bases /\ local' = local
      /\ pc[w] = "emit" /\ pc' = [pc EXCEPT ![w] = "finish"]
  BY DEF Emit, Goto, shared
<1>2. HitOf(w).base = local[w].base
  BY DEF HitOf
<1>3. /\ local[w].base <= bases
      /\ \A e \in emitted : e.base # local[w].base
      /\ \A v \in Workers : v # w /\ pc[v] \in Open => local[v].base # local[w].base
  BY <1>1 DEF BaseInv, Open
<1>4. \A v \in Workers : pc'[v] \in Open => v # w /\ pc[v] \in Open
  BY <1>1 DEF TypeOK, Open
<1> QED BY <1>1, <1>2, <1>3, <1>4 DEF BaseInv, OneKeyPerBase

\* Every step keeps open runs on bases of their own.
LEMMA BaseStep == TypeOK /\ BaseInv /\ [Next]_vars => BaseInv'
<1> SUFFICES ASSUME TypeOK, BaseInv, [Next]_vars
             PROVE  BaseInv'
  OBVIOUS
<1> USE DEF TypeOK, Goto, NextRun, shared, Open
<1>1. ASSUME NEW w \in Workers, CheckStop(w) PROVE BaseInv'
  BY <1>1, BaseFrame DEF CheckStop
<1>2. ASSUME NEW w \in Workers, DrawFails(w) PROVE BaseInv'
  BY <1>2, BaseFrame DEF DrawFails
<1>3. ASSUME NEW w \in Workers, DrawBase(w) PROVE BaseInv'
  BY <1>3, DrawBaseOpens
<1>4. ASSUME NEW w \in Workers, NEW m \in Overlap, ScanHit(w, m) PROVE BaseInv'
  <2>1. \A v \in Workers : local'[v].base = local[v].base
    BY <1>4 DEF ScanHit, Local
  <2> QED BY <1>4, <2>1, BaseFrame DEF ScanHit
<1>5. ASSUME NEW w \in Workers, ScanMiss(w) PROVE BaseInv'
  <2>1. \A v \in Workers : local'[v].base = local[v].base
    BY <1>5 DEF ScanMiss, Local
  <2> QED BY <1>5, <2>1, BaseFrame DEF ScanMiss
<1>6. ASSUME NEW w \in Workers, ScanPoll(w) PROVE BaseInv'
  <2>1. \A v \in Workers : local'[v].base = local[v].base
    BY <1>6 DEF ScanPoll, Local
  <2> QED BY <1>6, <2>1, BaseFrame DEF ScanPoll
<1>7. ASSUME NEW w \in Workers, CheckPoll(w) PROVE BaseInv'
  BY <1>7, BaseFrame DEF CheckPoll
<1>8. ASSUME NEW w \in Workers, RunEnds(w) PROVE BaseInv'
  BY <1>8, BaseFrame DEF RunEnds
<1>9. ASSUME NEW w \in Workers, Claim(w) PROVE BaseInv'
  BY <1>9, BaseFrame DEF Claim
<1>10. ASSUME NEW w \in Workers, ClaimLost(w) PROVE BaseInv'
  BY <1>10, BaseFrame DEF ClaimLost
<1>11. ASSUME NEW w \in Workers, CountHit(w) PROVE BaseInv'
  <2>1. \A v \in Workers : local'[v].base = local[v].base
    BY <1>11 DEF CountHit, Local
  <2> QED BY <1>11, <2>1, BaseFrame DEF CountHit
<1>12. ASSUME NEW w \in Workers, UndoCount(w) PROVE BaseInv'
  BY <1>12, BaseFrame DEF UndoCount
<1>13. ASSUME NEW w \in Workers, StopOverCount(w) PROVE BaseInv'
  BY <1>13, BaseFrame DEF StopOverCount
<1>14. ASSUME NEW w \in Workers, LockIo(w) PROVE BaseInv'
  BY <1>14, BaseFrame DEF LockIo
<1>15. ASSUME NEW w \in Workers, Emit(w) PROVE BaseInv'
  BY <1>15, EmitCloses
<1>16. ASSUME NEW w \in Workers, FinishStop(w) PROVE BaseInv'
  BY <1>16, BaseFrame DEF FinishStop
<1>17. ASSUME NEW w \in Workers, FinishRefresh(w) PROVE BaseInv'
  BY <1>17, BaseFrame DEF FinishRefresh
<1>18. ASSUME WatchEnds PROVE BaseInv'
  BY <1>18, BaseFrame DEF WatchEnds
<1>19. ASSUME Join PROVE BaseInv'
  BY <1>19, BaseFrame DEF Join
<1>20. CASE Terminated \/ UNCHANGED vars
  BY <1>20, BaseFrame DEF Terminated, vars
<1> QED
  BY <1>1, <1>2, <1>3, <1>4, <1>5, <1>6, <1>7, <1>8, <1>9, <1>10, <1>11, <1>12,
     <1>13, <1>14, <1>15, <1>16, <1>17, <1>18, <1>19, <1>20
  DEF Next, Worker, Scan, RecordHit

\* At most one key of a base is ever shown, whatever happens to the hits found
\* in a run: a hit, taken or lost, ends its run, and no two runs share a base.
THEOREM ClassicOneKeyPerBase == Spec => []OneKeyPerBase
<1>1. Init => BaseInv
  BY DEF Init, BaseInv, OneKeyPerBase, Open
<1>2. BaseInv => OneKeyPerBase
  BY DEF BaseInv
<1> QED BY <1>1, <1>2, BaseStep, ClassicTypeCorrect, PTL DEF Spec
-----------------------------------------------------------------------------
(***************************************************************************)
(* The keys of a worker since its last look at the stop flag: `done` of    *)
(* them in a run, and never more than Poll.  Of those, the ones derived    *)
(* after stop was set are the late ones.                                   *)
(***************************************************************************)

\* done is below Poll, and zero outside the scan of a run.
DoneInv ==
    \A w \in Workers :
        /\ local[w].done < Poll
        /\ pc[w] # "scan" => local[w].done = 0

PromptInv ==
    /\ StopIsPrompt
    /\ \A w \in Workers :
          /\ ~stop => late[w] = 0
          /\ pc[w] = "draw" => late[w] = 0
          /\ pc[w] = "scan" => late[w] <= local[w].done

\* done is reset by every report, and reaches Poll only to be reported.
LEMMA DoneStep == TypeOK /\ DoneInv /\ [Next]_vars => DoneInv'
<1> SUFFICES ASSUME TypeOK, DoneInv, [Next]_vars
             PROVE  DoneInv'
  OBVIOUS
<1> USE DEF TypeOK, DoneInv, Goto, NextRun, shared, history
<1>0. /\ Poll \in Nat \ {0} /\ keys \in Nat /\ derived \in Nat
      /\ \A w \in Workers : late[w] \in Nat /\ local[w].done \in Nat
  BY ClassicSearchAssumption DEF TypeOK, Local
<1>1. ASSUME NEW w \in Workers, CheckStop(w) PROVE DoneInv'
  BY <1>0, <1>1 DEF CheckStop
<1>2. ASSUME NEW w \in Workers, DrawFails(w) PROVE DoneInv'
  BY <1>0, <1>2 DEF DrawFails
<1>3. ASSUME NEW w \in Workers, DrawBase(w) PROVE DoneInv'
  BY <1>0, <1>3 DEF DrawBase, Idle
<1>4. ASSUME NEW w \in Workers, NEW m \in Overlap, ScanHit(w, m) PROVE DoneInv'
  <2>1. local'[w].done = 0 /\ \A v \in Workers : v # w => local'[v] = local[v]
    BY <1>4 DEF ScanHit, Local
  <2> QED BY <1>0, <1>4, <2>1 DEF ScanHit
<1>5. ASSUME NEW w \in Workers, ScanMiss(w) PROVE DoneInv'
  <2>1. local'[w].done = local[w].done + 1 /\ \A v \in Workers : v # w => local'[v] = local[v]
    BY <1>5 DEF ScanMiss, Local
  <2> QED BY <1>0, <1>5, <2>1 DEF ScanMiss
<1>6. ASSUME NEW w \in Workers, ScanPoll(w) PROVE DoneInv'
  <2>1. local'[w].done = 0 /\ \A v \in Workers : v # w => local'[v] = local[v]
    BY <1>6 DEF ScanPoll, Local
  <2> QED BY <1>0, <1>6, <2>1 DEF ScanPoll
<1>7. ASSUME NEW w \in Workers, CheckPoll(w) PROVE DoneInv'
  BY <1>0, <1>7 DEF CheckPoll
<1>8. ASSUME NEW w \in Workers, RunEnds(w) PROVE DoneInv'
  BY <1>0, <1>8 DEF RunEnds, Idle
<1>9. ASSUME NEW w \in Workers, Claim(w) PROVE DoneInv'
  BY <1>0, <1>9 DEF Claim
<1>10. ASSUME NEW w \in Workers, ClaimLost(w) PROVE DoneInv'
  BY <1>0, <1>10 DEF ClaimLost, Idle
<1>11. ASSUME NEW w \in Workers, CountHit(w) PROVE DoneInv'
  <2>1. \A v \in Workers : local'[v].done = local[v].done
    BY <1>11 DEF CountHit, Local
  <2> QED BY <1>0, <1>11, <2>1 DEF CountHit
<1>12. ASSUME NEW w \in Workers, UndoCount(w) PROVE DoneInv'
  BY <1>0, <1>12 DEF UndoCount
<1>13. ASSUME NEW w \in Workers, StopOverCount(w) PROVE DoneInv'
  BY <1>0, <1>13 DEF StopOverCount, Idle
<1>14. ASSUME NEW w \in Workers, LockIo(w) PROVE DoneInv'
  BY <1>0, <1>14 DEF LockIo
<1>15. ASSUME NEW w \in Workers, Emit(w) PROVE DoneInv'
  BY <1>0, <1>15 DEF Emit
<1>16. ASSUME NEW w \in Workers, FinishStop(w) PROVE DoneInv'
  BY <1>0, <1>16 DEF FinishStop, Idle
<1>17. ASSUME NEW w \in Workers, FinishRefresh(w) PROVE DoneInv'
  BY <1>0, <1>17 DEF FinishRefresh, Idle
<1>18. ASSUME WatchEnds PROVE DoneInv'
  BY <1>18 DEF WatchEnds
<1>19. ASSUME Join PROVE DoneInv'
  BY <1>19 DEF Join
<1>20. CASE Terminated \/ UNCHANGED vars
  BY <1>20 DEF Terminated, vars
<1> QED
  BY <1>1, <1>2, <1>3, <1>4, <1>5, <1>6, <1>7, <1>8, <1>9, <1>10, <1>11, <1>12,
     <1>13, <1>14, <1>15, <1>16, <1>17, <1>18, <1>19, <1>20
  DEF Next, Worker, Scan, RecordHit

\* A worker that goes on has seen stop unset, and so has no late key.
LEMMA PromptStep == TypeOK /\ DoneInv /\ PromptInv /\ [Next]_vars => PromptInv'
<1> SUFFICES ASSUME TypeOK, DoneInv, PromptInv, [Next]_vars
             PROVE  PromptInv'
  OBVIOUS
<1> USE DEF TypeOK, DoneInv, PromptInv, StopIsPrompt, Goto, NextRun, shared, history
<1>0. /\ Poll \in Nat \ {0} /\ keys \in Nat /\ derived \in Nat
      /\ \A w \in Workers : late[w] \in Nat /\ local[w].done \in Nat
  BY ClassicSearchAssumption DEF TypeOK, Local
<1>1. ASSUME NEW w \in Workers, CheckStop(w) PROVE PromptInv'
  BY <1>0, <1>1 DEF CheckStop
<1>2. ASSUME NEW w \in Workers, DrawFails(w) PROVE PromptInv'
  BY <1>0, <1>2 DEF DrawFails
<1>3. ASSUME NEW w \in Workers, DrawBase(w) PROVE PromptInv'
  BY <1>0, <1>3 DEF DrawBase, Idle
<1>4. ASSUME NEW w \in Workers, NEW m \in Overlap, ScanHit(w, m) PROVE PromptInv'
  <2>1. local'[w].done = 0 /\ \A v \in Workers : v # w => local'[v] = local[v]
    BY <1>4 DEF ScanHit, Local
  <2>2. pc[w] = "scan" /\ stop' = stop /\ local[w].done < Poll /\ late[w] <= local[w].done
    BY <1>4 DEF ScanHit
  <2>3. /\ late'[w] = IF stop THEN late[w] + 1 ELSE late[w]
        /\ \A v \in Workers : v # w => late'[v] = late[v]
    BY <1>4 DEF ScanHit, Derive
  <2>4. late'[w] <= local[w].done + 1 /\ local[w].done + 1 <= Poll /\ (~stop => late'[w] = 0)
    BY <1>0, <2>2, <2>3
  <2>5. StopIsPrompt'
    BY <1>0, <2>3, <2>4
  <2> QED BY <1>0, <1>4, <2>1, <2>2, <2>3, <2>4, <2>5 DEF ScanHit
<1>5. ASSUME NEW w \in Workers, ScanMiss(w) PROVE PromptInv'
  <2>1. local'[w].done = local[w].done + 1 /\ \A v \in Workers : v # w => local'[v] = local[v]
    BY <1>5 DEF ScanMiss, Local
  <2>2. pc[w] = "scan" /\ stop' = stop /\ local[w].done < Poll /\ late[w] <= local[w].done
    BY <1>5 DEF ScanMiss
  <2>3. /\ late'[w] = IF stop THEN late[w] + 1 ELSE late[w]
        /\ \A v \in Workers : v # w => late'[v] = late[v]
    BY <1>5 DEF ScanMiss, Derive
  <2>4. late'[w] <= local[w].done + 1 /\ local[w].done + 1 <= Poll /\ (~stop => late'[w] = 0)
    BY <1>0, <2>2, <2>3
  <2>5. StopIsPrompt'
    BY <1>0, <2>3, <2>4
  <2> QED BY <1>0, <1>5, <2>1, <2>2, <2>3, <2>4, <2>5 DEF ScanMiss
<1>6. ASSUME NEW w \in Workers, ScanPoll(w) PROVE PromptInv'
  <2>1. local'[w].done = 0 /\ \A v \in Workers : v # w => local'[v] = local[v]
    BY <1>6 DEF ScanPoll, Local
  <2>2. pc[w] = "scan" /\ stop' = stop /\ local[w].done < Poll /\ late[w] <= local[w].done
    BY <1>6 DEF ScanPoll
  <2>3. /\ late'[w] = IF stop THEN late[w] + 1 ELSE late[w]
        /\ \A v \in Workers : v # w => late'[v] = late[v]
    BY <1>6 DEF ScanPoll, Derive
  <2>4. late'[w] <= local[w].done + 1 /\ local[w].done + 1 <= Poll /\ (~stop => late'[w] = 0)
    BY <1>0, <2>2, <2>3
  <2>5. StopIsPrompt'
    BY <1>0, <2>3, <2>4
  <2> QED BY <1>0, <1>6, <2>1, <2>2, <2>3, <2>4, <2>5 DEF ScanPoll
<1>7. ASSUME NEW w \in Workers, CheckPoll(w) PROVE PromptInv'
  BY <1>0, <1>7 DEF CheckPoll
<1>8. ASSUME NEW w \in Workers, RunEnds(w) PROVE PromptInv'
  BY <1>0, <1>8 DEF RunEnds, Idle
<1>9. ASSUME NEW w \in Workers, Claim(w) PROVE PromptInv'
  BY <1>0, <1>9 DEF Claim
<1>10. ASSUME NEW w \in Workers, ClaimLost(w) PROVE PromptInv'
  BY <1>0, <1>10 DEF ClaimLost, Idle
<1>11. ASSUME NEW w \in Workers, CountHit(w) PROVE PromptInv'
  <2>1. \A v \in Workers : local'[v].done = local[v].done
    BY <1>11 DEF CountHit, Local
  <2> QED BY <1>0, <1>11, <2>1 DEF CountHit
<1>12. ASSUME NEW w \in Workers, UndoCount(w) PROVE PromptInv'
  BY <1>0, <1>12 DEF UndoCount
<1>13. ASSUME NEW w \in Workers, StopOverCount(w) PROVE PromptInv'
  BY <1>0, <1>13 DEF StopOverCount, Idle
<1>14. ASSUME NEW w \in Workers, LockIo(w) PROVE PromptInv'
  BY <1>0, <1>14 DEF LockIo
<1>15. ASSUME NEW w \in Workers, Emit(w) PROVE PromptInv'
  BY <1>0, <1>15 DEF Emit
<1>16. ASSUME NEW w \in Workers, FinishStop(w) PROVE PromptInv'
  BY <1>0, <1>16 DEF FinishStop, Idle
<1>17. ASSUME NEW w \in Workers, FinishRefresh(w) PROVE PromptInv'
  BY <1>0, <1>17 DEF FinishRefresh, Idle
<1>18. ASSUME WatchEnds PROVE PromptInv'
  BY <1>18 DEF WatchEnds
<1>19. ASSUME Join PROVE PromptInv'
  BY <1>19 DEF Join
<1>20. CASE Terminated \/ UNCHANGED vars
  BY <1>20 DEF Terminated, vars
<1> QED
  BY <1>1, <1>2, <1>3, <1>4, <1>5, <1>6, <1>7, <1>8, <1>9, <1>10, <1>11, <1>12,
     <1>13, <1>14, <1>15, <1>16, <1>17, <1>18, <1>19, <1>20
  DEF Next, Worker, Scan, RecordHit

\* done starts at zero.
LEMMA DoneInit == Init => DoneInv
  BY ClassicSearchAssumption DEF Init, DoneInv, Idle

\* Once stop is set a worker derives at most Poll more keys, wherever it is then.
THEOREM ClassicStopIsPrompt == Spec => []StopIsPrompt
<1>1. Init => PromptInv
  BY ClassicSearchAssumption DEF Init, PromptInv, StopIsPrompt
<1>2. PromptInv => StopIsPrompt
  BY DEF PromptInv
<1> QED BY <1>1, <1>2, DoneInit, DoneStep, PromptStep, ClassicTypeCorrect, PTL DEF Spec
-----------------------------------------------------------------------------
(***************************************************************************)
(* The shared counter of keys.                                             *)
(***************************************************************************)

\* The keys of one run are finitely many, and so are those of all workers.
LEMMA RunKeysFinite ==
    ASSUME NEW n \in Nat, NEW w
    PROVE  /\ IsFiniteSet({w} \X (1 .. n))
           /\ Cardinality({w} \X (1 .. n)) = n
<1> DEFINE S == {w}
           T == 1 .. n
<1>1. IsFiniteSet(T) /\ Cardinality(T) = n
  <2>1. Cardinality(1 .. n) = (IF 1 > n THEN 0 ELSE n - 1 + 1) /\ IsFiniteSet(1 .. n)
    BY FS_Interval
  <2> QED BY <2>1
<1>2. IsFiniteSet(S) /\ Cardinality(S) = 1
  BY FS_Singleton
<1> HIDE DEF S, T
<1>3. IsFiniteSet(S \X T) /\ Cardinality(S \X T) = Cardinality(S) * Cardinality(T)
  BY <1>1, <1>2, FS_Product
<1>4. Cardinality(S \X T) = n
  BY <1>1, <1>2, <1>3
<1> QED BY <1>3, <1>4 DEF S, T

\* The keys that the workers check between two polls are finitely many.
LEMMA AllKeysFinite == IsFiniteSet(Workers \X (1 .. Poll))
<1> DEFINE T == 1 .. Poll
<1>1. IsFiniteSet(T)
  <2>1. 1 \in Int /\ Poll \in Int
    BY ClassicSearchAssumption
  <2> QED BY <2>1, FS_Interval
<1> HIDE DEF T
<1>2. IsFiniteSet(Workers \X T)
  BY <1>1, ClassicSearchAssumption, FS_Product
<1> QED BY <1>2 DEF T

\* Keys not reported yet, of worker w alone.
KeysOf(w) == {w} \X (1 .. local[w].done)

\* There are as many as done says, and they can be counted.
LEMMA UnreportedFinite ==
    ASSUME TypeOK
    PROVE  /\ IsFiniteSet(Unreported) /\ Cardinality(Unreported) \in Nat
           /\ \A w \in Workers : /\ IsFiniteSet(KeysOf(w))
                               /\ Cardinality(KeysOf(w)) = local[w].done
<1>1. Poll \in Nat /\ \A w \in Workers : local[w].done \in Nat
  BY ClassicSearchAssumption DEF TypeOK, Local
<1>2. IsFiniteSet(Workers \X (1 .. Poll))
  BY AllKeysFinite
<1>3. Unreported \subseteq Workers \X (1 .. Poll)
  BY DEF Unreported
<1>4. IsFiniteSet(Unreported) /\ Cardinality(Unreported) \in Nat
  BY <1>2, <1>3, FS_Subset, FS_CardinalityType
<1>5. ASSUME NEW w \in Workers
      PROVE  IsFiniteSet(KeysOf(w)) /\ Cardinality(KeysOf(w)) = local[w].done
  BY <1>1, RunKeysFinite DEF KeysOf
<1> QED BY <1>4, <1>5

\* A key more in the run of one worker is one more key to report.
LEMMA OneMoreUnreported ==
    ASSUME NEW w \in Workers, TypeOK, local[w].done < Poll,
           local'[w].done = local[w].done + 1,
           \A v \in Workers : v # w => local'[v].done = local[v].done
    PROVE  Cardinality(Unreported') = Cardinality(Unreported) + 1
<1> DEFINE d == local[w].done + 1
<1>1. Poll \in Nat /\ \A v \in Workers : local[v].done \in Nat
  BY ClassicSearchAssumption DEF TypeOK, Local
<1>2. d \in 1 .. Poll /\ \A i \in 1 .. Poll : i <= d <=> i <= local[w].done \/ i = d
  BY <1>1
<1>3. \A k \in Workers \X (1 .. Poll) :
         k[2] <= local'[k[1]].done <=> k[2] <= local[k[1]].done \/ k = <<w, d>>
  <2> SUFFICES ASSUME NEW v \in Workers, NEW i \in 1 .. Poll
               PROVE  i <= local'[v].done <=> i <= local[v].done \/ <<v, i>> = <<w, d>>
    OBVIOUS
  <2>1. CASE v = w
    BY <1>2, <2>1
  <2>2. CASE v # w
    BY <2>2
  <2> QED BY <2>1, <2>2
<1>4. <<w, d>> \in Workers \X (1 .. Poll) /\ ~ (d <= local[w].done)
  BY <1>1, <1>2
<1>5. Unreported' = Unreported \cup {<<w, d>>} /\ <<w, d>> \notin Unreported
  BY <1>3, <1>4 DEF Unreported
<1> QED BY <1>5, UnreportedFinite, FS_AddElement

\* A worker that reports what it has derived leaves nothing of its own behind.
LEMMA NoneUnreported ==
    ASSUME NEW w \in Workers, TypeOK, local[w].done <= Poll, local'[w].done = 0,
           \A v \in Workers : v # w => local'[v].done = local[v].done
    PROVE  Cardinality(Unreported) = Cardinality(Unreported') + local[w].done
<1>1. Poll \in Nat /\ \A v \in Workers : local[v].done \in Nat
  BY ClassicSearchAssumption DEF TypeOK, Local
<1>2. \A i \in 1 .. Poll : ~ (i <= 0)
  BY <1>1
<1>3. KeysOf(w) \subseteq Unreported
  <2> SUFFICES ASSUME NEW i \in 1 .. local[w].done PROVE <<w, i>> \in Unreported
    BY DEF KeysOf
  <2>1. i \in 1 .. Poll /\ i <= local[w].done
    BY <1>1
  <2> QED BY <2>1 DEF Unreported
<1>4. Unreported' = Unreported \ KeysOf(w)
  <2>1. ASSUME NEW v \in Workers, NEW i \in 1 .. Poll
        PROVE  i <= local'[v].done <=> i <= local[v].done /\ <<v, i>> \notin KeysOf(w)
    <3>1. CASE v = w
      BY <1>1, <1>2, <3>1 DEF KeysOf
    <3>2. CASE v # w
      BY <3>2 DEF KeysOf
    <3> QED BY <3>1, <3>2
  <2> QED BY <2>1 DEF Unreported
<1>5. Unreported \cap KeysOf(w) = KeysOf(w)
  BY <1>3
<1>6. Cardinality(Unreported') = Cardinality(Unreported) - Cardinality(KeysOf(w))
  <2>1. Cardinality(Unreported \ KeysOf(w))
          = Cardinality(Unreported) - Cardinality(Unreported \cap KeysOf(w))
    BY UnreportedFinite, FS_Difference
  <2> QED BY <1>4, <1>5, <2>1
<1> QED BY <1>1, <1>6, UnreportedFinite

\* A step that derives nothing and reports nothing.
LEMMA KeysFrame ==
    ASSUME KeysExact, keys' = keys, derived' = derived,
           \A w \in Workers : local'[w].done = local[w].done
    PROVE  KeysExact'
<1>1. Unreported' = Unreported
  BY DEF Unreported
<1> QED BY <1>1 DEF KeysExact

\* A step that derives n keys, and reports them with all that w had to report.
LEMMA KeysReported ==
    ASSUME NEW w \in Workers, NEW n \in Nat, TypeOK, KeysExact, local[w].done <= Poll,
           local'[w].done = 0,
           \A v \in Workers : v # w => local'[v].done = local[v].done,
           keys' = keys + local[w].done + n, derived' = derived + n
    PROVE  KeysExact'
<1>1. local[w].done \in Nat /\ keys \in Nat /\ derived \in Nat
  BY DEF TypeOK, Local
<1>2. Cardinality(Unreported) = Cardinality(Unreported') + local[w].done
  BY NoneUnreported
<1>3. Cardinality(Unreported) \in Nat
  BY UnreportedFinite
<1>4. keys + Cardinality(Unreported) = derived
  BY DEF KeysExact
<1>5. Cardinality(Unreported') \in Int
  <2>1. Unreported' \subseteq Workers \X (1 .. Poll)
    BY DEF Unreported
  <2>2. IsFiniteSet(Workers \X (1 .. Poll))
    BY AllKeysFinite
  <2> QED BY <2>1, <2>2, FS_Subset, FS_CardinalityType
<1>6. keys' + Cardinality(Unreported') = derived'
  BY <1>1, <1>2, <1>3, <1>4, <1>5
<1> QED BY <1>6 DEF KeysExact

\* Every step keeps the difference between the keys derived and reported.
LEMMA KeysStep == TypeOK /\ DoneInv /\ KeysExact /\ [Next]_vars => KeysExact'
<1> SUFFICES ASSUME TypeOK, DoneInv, KeysExact, [Next]_vars
             PROVE  KeysExact'
  OBVIOUS
<1> USE DEF TypeOK, Goto, NextRun, shared, history
<1>0. /\ TypeOK /\ KeysExact /\ keys \in Nat /\ derived \in Nat /\ Poll \in Nat
      /\ \A w \in Workers : local[w].done \in Nat /\ local[w].done < Poll
      /\ \A w \in Workers : local[w].done <= Poll /\ (pc[w] # "scan" => local[w].done = 0)
  BY ClassicSearchAssumption DEF TypeOK, Local, DoneInv
<1>1. ASSUME NEW w \in Workers, CheckStop(w) PROVE KeysExact'
  BY <1>0, <1>1, KeysFrame DEF CheckStop
<1>2. ASSUME NEW w \in Workers, DrawFails(w) PROVE KeysExact'
  BY <1>0, <1>2, KeysFrame DEF DrawFails
<1>3. ASSUME NEW w \in Workers, DrawBase(w) PROVE KeysExact'
  BY <1>0, <1>3, KeysFrame DEF DrawBase, Idle
<1>4. ASSUME NEW w \in Workers, NEW m \in Overlap, ScanHit(w, m) PROVE KeysExact'
  <2>1. local'[w].done = 0 /\ \A v \in Workers : v # w => local'[v].done = local[v].done
    BY <1>4 DEF ScanHit, Local
  <2>2. keys' = keys + local[w].done + 1 /\ derived' = derived + 1
    BY <1>0, <1>4 DEF ScanHit, Derive
  <2> QED BY <1>0, <2>1, <2>2, KeysReported
<1>5. ASSUME NEW w \in Workers, ScanMiss(w) PROVE KeysExact'
  <2>1. /\ local'[w].done = local[w].done + 1
        /\ \A v \in Workers : v # w => local'[v].done = local[v].done
    BY <1>5 DEF ScanMiss, Local
  <2>2. Cardinality(Unreported') = Cardinality(Unreported) + 1
    BY <1>0, <2>1, OneMoreUnreported
  <2>3. keys' = keys /\ derived' = derived + 1
    BY <1>5 DEF ScanMiss, Derive
  <2> QED BY <1>0, <2>2, <2>3, UnreportedFinite DEF KeysExact
<1>6. ASSUME NEW w \in Workers, ScanPoll(w) PROVE KeysExact'
  <2>1. local'[w].done = 0 /\ \A v \in Workers : v # w => local'[v].done = local[v].done
    BY <1>6 DEF ScanPoll, Local
  <2>2. keys' = keys + local[w].done + 1 /\ derived' = derived + 1
    BY <1>0, <1>6 DEF ScanPoll, Derive
  <2> QED BY <1>0, <2>1, <2>2, KeysReported
<1>7. ASSUME NEW w \in Workers, CheckPoll(w) PROVE KeysExact'
  BY <1>0, <1>7, KeysFrame DEF CheckPoll
<1>8. ASSUME NEW w \in Workers, RunEnds(w) PROVE KeysExact'
  <2>1. local'[w].done = 0 /\ \A v \in Workers : v # w => local'[v].done = local[v].done
    BY <1>8 DEF RunEnds, Local, Idle
  <2>2. keys' = keys + local[w].done + 0 /\ derived' = derived + 0
    BY <1>0, <1>8 DEF RunEnds
  <2> QED BY <1>0, <2>1, <2>2, KeysReported
<1>9. ASSUME NEW w \in Workers, Claim(w) PROVE KeysExact'
  BY <1>0, <1>9, KeysFrame DEF Claim
<1>10. ASSUME NEW w \in Workers, ClaimLost(w) PROVE KeysExact'
  BY <1>0, <1>10, KeysFrame DEF ClaimLost, Idle
<1>11. ASSUME NEW w \in Workers, CountHit(w) PROVE KeysExact'
  <2>1. \A v \in Workers : local'[v].done = local[v].done
    BY <1>11 DEF CountHit, Local
  <2> QED BY <1>11, <2>1, KeysFrame DEF CountHit
<1>12. ASSUME NEW w \in Workers, UndoCount(w) PROVE KeysExact'
  BY <1>0, <1>12, KeysFrame DEF UndoCount
<1>13. ASSUME NEW w \in Workers, StopOverCount(w) PROVE KeysExact'
  BY <1>0, <1>13, KeysFrame DEF StopOverCount, Idle
<1>14. ASSUME NEW w \in Workers, LockIo(w) PROVE KeysExact'
  BY <1>0, <1>14, KeysFrame DEF LockIo
<1>15. ASSUME NEW w \in Workers, Emit(w) PROVE KeysExact'
  BY <1>0, <1>15, KeysFrame DEF Emit
<1>16. ASSUME NEW w \in Workers, FinishStop(w) PROVE KeysExact'
  BY <1>0, <1>16, KeysFrame DEF FinishStop, Idle
<1>17. ASSUME NEW w \in Workers, FinishRefresh(w) PROVE KeysExact'
  BY <1>0, <1>17, KeysFrame DEF FinishRefresh, Idle
<1>18. ASSUME WatchEnds PROVE KeysExact'
  BY <1>0, <1>18, KeysFrame DEF WatchEnds
<1>19. ASSUME Join PROVE KeysExact'
  BY <1>0, <1>19, KeysFrame DEF Join
<1>20. CASE Terminated \/ UNCHANGED vars
  BY <1>20, KeysFrame DEF Terminated, vars
<1> QED
  BY <1>1, <1>2, <1>3, <1>4, <1>5, <1>6, <1>7, <1>8, <1>9, <1>10, <1>11, <1>12,
     <1>13, <1>14, <1>15, <1>16, <1>17, <1>18, <1>19, <1>20
  DEF Next, Worker, Scan, RecordHit

\* The counter that the progress report and the final rate are computed from lags
\* behind the keys derived by what the workers still have to report, and no more.
THEOREM ClassicKeysExact == Spec => []KeysExact
<1>1. Init => KeysExact
  <2> SUFFICES ASSUME Init PROVE KeysExact
    OBVIOUS
  <2>1. Unreported = {}
    <3>1. \A w \in Workers : local[w].done = 0
      BY DEF Init, Idle
    <3>2. \A i \in 1 .. Poll : ~ (i <= 0)
      BY ClassicSearchAssumption
    <3> QED BY <3>1, <3>2 DEF Unreported
  <2> QED BY <2>1, FS_EmptySet DEF Init, KeysExact
<1> QED BY <1>1, DoneInit, DoneStep, KeysStep, ClassicTypeCorrect, PTL DEF Spec
-----------------------------------------------------------------------------
(***************************************************************************)
(* Refreshes.  The base of a run was drawn after the refresh that followed *)
(* the worker's last hit; a worker about to draw would get a later refresh *)
(* than those of all its hits, unless stop is set.                         *)
(***************************************************************************)

FreshInv ==
    /\ WorkerHitsShareNothing
    /\ \A e \in emitted : e.draw <= cached
    /\ \A w \in Workers : pc[w] \in Open =>
          /\ local[w].draw <= cached
          /\ \A e \in emitted : e.worker = w => e.draw < local[w].draw
    /\ \A w \in Workers : pc[w] = "draw" =>
          \A e \in emitted : e.worker = w => e.draw < cached
    /\ \A w \in Workers : pc[w] = "runs" =>
          stop \/ \A e \in emitted : e.worker = w => e.draw < cached

\* The step that adds a hit: its refresh is later than those of every earlier
\* hit of the worker.
LEMMA EmitFresh ==
    ASSUME NEW w \in Workers, TypeOK, FreshInv, Emit(w)
    PROVE  FreshInv'
<1> DEFINE h == HitOf(w)
<1>1. h.worker = w /\ h.draw = local[w].draw
  BY DEF HitOf
<1>2. emitted' = emitted \cup {h}
  BY DEF Emit
<1>3. /\ local' = local /\ cached' = cached /\ stop' = stop
      /\ pc' = [pc EXCEPT ![w] = "finish"] /\ pc[w] = "emit"
  BY DEF Emit, Goto, shared
<1>4. /\ \A e \in emitted : e.worker = w => e.draw < local[w].draw
      /\ local[w].draw <= cached
  BY <1>3 DEF FreshInv, Open
<1>5. /\ cached \in Nat /\ local[w].draw \in Nat
      /\ \A e \in emitted : e.draw \in Nat
  BY DEF TypeOK, Local, HitRecord
<1>6. WorkerHitsShareNothing'
  BY <1>1, <1>2, <1>4, <1>5 DEF FreshInv, WorkerHitsShareNothing
<1>7. \A e \in emitted' : e.draw <= cached'
  BY <1>1, <1>2, <1>3, <1>4 DEF FreshInv
<1>8. ASSUME NEW v \in Workers, v # w
      PROVE  pc'[v] = pc[v] /\ \A e \in emitted' : e.worker = v => e \in emitted
  BY <1>1, <1>2, <1>3, <1>8 DEF TypeOK
<1>9. pc'[w] = "finish"
  BY <1>3 DEF TypeOK
<1> QED BY <1>3, <1>6, <1>7, <1>8, <1>9 DEF FreshInv, Open

\* Every step keeps what a worker draws newer than what it has shown.
LEMMA FreshStep == TypeOK /\ FreshInv /\ [Next]_vars => FreshInv'
<1> SUFFICES ASSUME TypeOK, FreshInv, [Next]_vars
             PROVE  FreshInv'
  OBVIOUS
<1> USE DEF TypeOK, FreshInv, Open, Goto, NextRun, shared, WorkerHitsShareNothing
<1>0. /\ cached \in Nat
      /\ \A e \in emitted : e.draw \in Nat
      /\ \A w \in Workers : local[w].draw \in Nat
  BY DEF HitRecord, Local
<1>1. ASSUME NEW w \in Workers, CheckStop(w) PROVE FreshInv'
  BY <1>0, <1>1 DEF CheckStop
<1>2. ASSUME NEW w \in Workers, DrawFails(w) PROVE FreshInv'
  BY <1>0, <1>2 DEF DrawFails
<1>3. ASSUME NEW w \in Workers, DrawBase(w) PROVE FreshInv'
  <2>1. local'[w].draw = cached /\ \A v \in Workers : v # w => local'[v] = local[v]
    BY <1>3, IdleType DEF DrawBase, Local, Idle
  <2>2. /\ pc[w] = "draw" /\ pc' = [pc EXCEPT ![w] = "scan"]
        /\ emitted' = emitted /\ cached' = cached /\ stop' = stop
    BY <1>3 DEF DrawBase
  <2> QED BY <1>0, <2>1, <2>2
<1>4. ASSUME NEW w \in Workers, NEW m \in Overlap, ScanHit(w, m) PROVE FreshInv'
  <2>1. \A v \in Workers : local'[v].draw = local[v].draw
    BY <1>4 DEF ScanHit, Local
  <2> QED BY <1>4, <2>1 DEF ScanHit
<1>5. ASSUME NEW w \in Workers, ScanMiss(w) PROVE FreshInv'
  <2>1. \A v \in Workers : local'[v].draw = local[v].draw
    BY <1>5 DEF ScanMiss, Local
  <2> QED BY <1>5, <2>1 DEF ScanMiss
<1>6. ASSUME NEW w \in Workers, ScanPoll(w) PROVE FreshInv'
  <2>1. \A v \in Workers : local'[v].draw = local[v].draw
    BY <1>6 DEF ScanPoll, Local
  <2> QED BY <1>6, <2>1 DEF ScanPoll
<1>7. ASSUME NEW w \in Workers, CheckPoll(w) PROVE FreshInv'
  BY <1>0, <1>7 DEF CheckPoll
<1>8. ASSUME NEW w \in Workers, RunEnds(w) PROVE FreshInv'
  <2>1. /\ pc[w] \in Open /\ pc' = [pc EXCEPT ![w] = "runs"]
        /\ \A v \in Workers : v # w => local'[v] = local[v]
        /\ emitted' = emitted /\ cached' = cached /\ stop' = stop
    BY <1>8 DEF RunEnds
  <2> QED BY <1>0, <2>1
<1>9. ASSUME NEW w \in Workers, Claim(w) PROVE FreshInv'
  BY <1>0, <1>9 DEF Claim
<1>10. ASSUME NEW w \in Workers, ClaimLost(w) PROVE FreshInv'
  <2>1. /\ pc[w] \in Open /\ pc' = [pc EXCEPT ![w] = "runs"]
        /\ \A v \in Workers : v # w => local'[v] = local[v]
        /\ emitted' = emitted /\ cached' = cached /\ stop' = stop
    BY <1>10 DEF ClaimLost
  <2> QED BY <1>0, <2>1
<1>11. ASSUME NEW w \in Workers, CountHit(w) PROVE FreshInv'
  <2>1. \A v \in Workers : local'[v].draw = local[v].draw
    BY <1>11 DEF CountHit, Local
  <2> QED BY <1>11, <2>1 DEF CountHit
<1>12. ASSUME NEW w \in Workers, UndoCount(w) PROVE FreshInv'
  BY <1>0, <1>12 DEF UndoCount
<1>13. ASSUME NEW w \in Workers, StopOverCount(w) PROVE FreshInv'
  BY <1>0, <1>13 DEF StopOverCount
<1>14. ASSUME NEW w \in Workers, LockIo(w) PROVE FreshInv'
  BY <1>0, <1>14 DEF LockIo
<1>15. ASSUME NEW w \in Workers, Emit(w) PROVE FreshInv'
  BY <1>15, EmitFresh
<1>16. ASSUME NEW w \in Workers, FinishStop(w) PROVE FreshInv'
  BY <1>0, <1>16 DEF FinishStop
<1>17. ASSUME NEW w \in Workers, FinishRefresh(w) PROVE FreshInv'
  <2>1. cached' = cached + 1
    BY <1>17 DEF FinishRefresh
  <2> QED BY <1>0, <1>17, <2>1 DEF FinishRefresh
<1>18. ASSUME WatchEnds PROVE FreshInv'
  BY <1>0, <1>18 DEF WatchEnds
<1>19. ASSUME Join PROVE FreshInv'
  BY <1>0, <1>19 DEF Join
<1>20. CASE Terminated \/ UNCHANGED vars
  BY <1>20 DEF Terminated, vars
<1> QED
  BY <1>1, <1>2, <1>3, <1>4, <1>5, <1>6, <1>7, <1>8, <1>9, <1>10, <1>11, <1>12,
     <1>13, <1>14, <1>15, <1>16, <1>17, <1>18, <1>19, <1>20
  DEF Next, Worker, Scan, RecordHit

\* Two hits of one worker are never of the same refresh of the mixer: the jump to
\* the next run after a hit is what makes the refresh reach the next hit.
THEOREM ClassicHitsFresh == Spec => []WorkerHitsShareNothing
<1>1. Init => FreshInv
  BY DEF Init, FreshInv, WorkerHitsShareNothing, Open
<1>2. FreshInv => WorkerHitsShareNothing
  BY DEF FreshInv
<1> QED BY <1>1, <1>2, FreshStep, ClassicTypeCorrect, PTL DEF Spec
-----------------------------------------------------------------------------
(***************************************************************************)
(* Refinement.  In a retiring search the claim makes its holder the only   *)
(* one that can show the target, now or later.                             *)
(***************************************************************************)

Holders == {w \in Workers : pc[w] \in {"count", "lock", "emit"}}

ClaimInv ==
    /\ Retire =>
         /\ \A w \in Holders : local[w].target \in Targets /\ ~active[local[w].target]
         /\ \A e \in emitted : ~active[e.target]
         /\ \A v, w \in Holders : local[v].target = local[w].target => v = w
         /\ \A e \in emitted, w \in Holders : e.target # local[w].target
    /\ main = "returned" => \A w \in Workers : Finished(w)

\* A claim that is granted takes a target that nobody holds or has shown.
LEMMA ClaimHolds ==
    ASSUME NEW w \in Workers, TypeOK, TargetChosen, ClaimInv, Claim(w)
    PROVE  ClaimInv'
<1>1. /\ pc[w] = "claim" /\ pc' = [pc EXCEPT ![w] = "count"]
      /\ local' = local /\ emitted' = emitted /\ main' = main
  BY DEF Claim, Goto
<1>2. Holders' = Holders \cup {w} /\ w \notin Holders
  BY <1>1 DEF Holders, TypeOK
<1>3. main # "returned"
  BY <1>1 DEF ClaimInv, Finished
<1>4. local[w].target \in Targets
  BY <1>1 DEF TargetChosen, TypeOK, Local
<1>5. ASSUME Retire
      PROVE  active[local[w].target] /\ active' = [active EXCEPT ![local[w].target] = FALSE]
  BY <1>5 DEF Claim, ClaimGranted, AfterClaim
<1>6. ASSUME Retire
      PROVE  /\ \A v \in Holders : local[v].target # local[w].target
             /\ \A e \in emitted : e.target # local[w].target
  BY <1>5, <1>6 DEF ClaimInv
<1>7. ASSUME Retire
      PROVE  /\ \A v \in Holders' : local'[v].target \in Targets /\ ~active'[local'[v].target]
             /\ \A e \in emitted' : ~active'[e.target]
  <2>1. \A t \in Targets : ~active[t] => ~active'[t]
    BY <1>5, <1>7 DEF TypeOK
  <2>2. ~active'[local[w].target]
    BY <1>4, <1>5, <1>7 DEF TypeOK
  <2>3. \A e \in emitted : e.target \in Targets
    BY DEF TypeOK, HitRecord
  <2> QED BY <1>1, <1>2, <1>4, <1>7, <2>1, <2>2, <2>3 DEF ClaimInv
<1> QED BY <1>1, <1>2, <1>3, <1>6, <1>7 DEF ClaimInv

\* The hit shown is the one its worker held the target for.
LEMMA EmitClaim ==
    ASSUME NEW w \in Workers, TypeOK, ClaimInv, Emit(w)
    PROVE  ClaimInv'
<1>1. /\ pc[w] = "emit" /\ pc' = [pc EXCEPT ![w] = "finish"] /\ active' = active
      /\ local' = local /\ emitted' = emitted \cup {HitOf(w)} /\ main' = main
  BY DEF Emit, Goto, shared
<1>2. Holders' = Holders \ {w} /\ w \in Holders
  BY <1>1 DEF Holders, TypeOK
<1>3. main # "returned"
  BY <1>1 DEF ClaimInv, Finished
<1>4. HitOf(w).target = local[w].target
  BY DEF HitOf
<1> QED BY <1>1, <1>2, <1>3, <1>4 DEF ClaimInv

\* Every step keeps claimed targets with one holder.
LEMMA ClaimStep == IInv /\ ClaimInv /\ [Next]_vars => ClaimInv'
<1> SUFFICES ASSUME IInv, ClaimInv, [Next]_vars
             PROVE  ClaimInv'
  OBVIOUS
<1> USE DEF IInv, TypeOK, ClaimInv, Holders, Finished, Goto, NextRun, shared
<1>1. ASSUME NEW w \in Workers, CheckStop(w) PROVE ClaimInv'
  BY <1>1 DEF CheckStop
<1>2. ASSUME NEW w \in Workers, DrawFails(w) PROVE ClaimInv'
  BY <1>2 DEF DrawFails
<1>3. ASSUME NEW w \in Workers, DrawBase(w) PROVE ClaimInv'
  BY <1>3 DEF DrawBase
<1>4. ASSUME NEW w \in Workers, NEW m \in Overlap, ScanHit(w, m) PROVE ClaimInv'
  <2>1. /\ Holders' \subseteq Holders /\ emitted' = emitted /\ active' = active
        /\ main' = main /\ main # "returned"
    BY <1>4 DEF ScanHit
  <2>2. \A v \in Holders : local'[v].target = local[v].target
    BY <1>4 DEF ScanHit, Local
  <2> HIDE DEF Holders
  <2> QED BY <2>1, <2>2
<1>5. ASSUME NEW w \in Workers, ScanMiss(w) PROVE ClaimInv'
  <2>1. /\ Holders' \subseteq Holders /\ emitted' = emitted /\ active' = active
        /\ main' = main /\ main # "returned"
    BY <1>5 DEF ScanMiss
  <2>2. \A v \in Holders : local'[v].target = local[v].target
    BY <1>5 DEF ScanMiss, Local
  <2> HIDE DEF Holders
  <2> QED BY <2>1, <2>2
<1>6. ASSUME NEW w \in Workers, ScanPoll(w) PROVE ClaimInv'
  <2>1. /\ Holders' \subseteq Holders /\ emitted' = emitted /\ active' = active
        /\ main' = main /\ main # "returned"
    BY <1>6 DEF ScanPoll
  <2>2. \A v \in Holders : local'[v].target = local[v].target
    BY <1>6 DEF ScanPoll, Local
  <2> HIDE DEF Holders
  <2> QED BY <2>1, <2>2
<1>7. ASSUME NEW w \in Workers, CheckPoll(w) PROVE ClaimInv'
  BY <1>7 DEF CheckPoll
<1>8. ASSUME NEW w \in Workers, RunEnds(w) PROVE ClaimInv'
  BY <1>8 DEF RunEnds
<1>9. ASSUME NEW w \in Workers, Claim(w) PROVE ClaimInv'
  BY <1>9, ClaimHolds
<1>10. ASSUME NEW w \in Workers, ClaimLost(w) PROVE ClaimInv'
  BY <1>10 DEF ClaimLost
<1>11. ASSUME NEW w \in Workers, CountHit(w) PROVE ClaimInv'
  <2>1. /\ Holders' \subseteq Holders /\ emitted' = emitted /\ active' = active
        /\ main' = main /\ main # "returned"
    BY <1>11 DEF CountHit
  <2>2. \A v \in Holders : local'[v].target = local[v].target
    BY <1>11 DEF CountHit, Local
  <2> HIDE DEF Holders
  <2> QED BY <2>1, <2>2
<1>12. ASSUME NEW w \in Workers, UndoCount(w) PROVE ClaimInv'
  BY <1>12 DEF UndoCount
<1>13. ASSUME NEW w \in Workers, StopOverCount(w) PROVE ClaimInv'
  BY <1>13 DEF StopOverCount
<1>14. ASSUME NEW w \in Workers, LockIo(w) PROVE ClaimInv'
  BY <1>14 DEF LockIo
<1>15. ASSUME NEW w \in Workers, Emit(w) PROVE ClaimInv'
  BY <1>15, EmitClaim
<1>16. ASSUME NEW w \in Workers, FinishStop(w) PROVE ClaimInv'
  BY <1>16 DEF FinishStop
<1>17. ASSUME NEW w \in Workers, FinishRefresh(w) PROVE ClaimInv'
  BY <1>17 DEF FinishRefresh
<1>18. ASSUME WatchEnds PROVE ClaimInv'
  BY <1>18 DEF WatchEnds
<1>19. ASSUME Join PROVE ClaimInv'
  BY <1>19 DEF Join
<1>20. CASE Terminated \/ UNCHANGED vars
  BY <1>20 DEF Terminated, vars
<1> QED
  BY <1>1, <1>2, <1>3, <1>4, <1>5, <1>6, <1>7, <1>8, <1>9, <1>10, <1>11, <1>12,
     <1>13, <1>14, <1>15, <1>16, <1>17, <1>18, <1>19, <1>20
  DEF Next, Worker, Scan, RecordHit

\* A step that shows nothing and does not end the search is a stutter of the ledger.
LEMMA LedgerStutter ==
    ASSUME emitted' = emitted, main' # "returned", main # "returned", result' = result
    PROVE  UNCHANGED Ledger!ledgerVars
  BY DEF Ledger!ledgerVars

\* A hit written and printed is a new entry of the ledger.
LEMMA EmitShows ==
    ASSUME NEW w \in Workers, IInv, ClaimInv, Emit(w)
    PROVE  Ledger!Show(local[w].n + 1, local[w].target)
<1> DEFINE k == local[w].n + 1
           h == HitOf(w)
<1>1. /\ w \in Pending /\ w \in Holders /\ main' = main /\ result' = result
      /\ emitted' = emitted \cup {h} /\ main # "returned"
  BY DEF Emit, Pending, Holders, ClaimInv, Finished
<1>2. h.number = k /\ h.target = local[w].target
  BY DEF HitOf
<1>3. k \in Held /\ k \notin Shown
  BY <1>1 DEF Held, IInv, HitAccounting
<1>4. k \in 1 .. Count
  <2>1. k \in 1 .. Granted /\ Granted <= Count
    BY <1>3 DEF IInv, HitAccounting
  <2> QED BY <2>1, GrantedType, ClassicSearchAssumption DEF IInv
<1>5. \A e \in emitted : e.number # h.number
  BY <1>2, <1>3 DEF Shown
<1>6. \A e, f \in emitted : e.number = f.number => e = f
  BY DEF IInv, HitAccounting
<1>7. DOMAIN LedgerOf(emitted) = Shown
  BY <1>6, LedgerOfSpec DEF Shown
<1>8. LedgerOf(emitted') = LedgerWith(LedgerOf(emitted), k, local[w].target)
  BY <1>1, <1>2, <1>5, <1>6, LedgerOfAdd
<1>9. Retire => \A m \in DOMAIN LedgerOf(emitted) : LedgerOf(emitted)[m] # local[w].target
  <2>1. \A e \in emitted : LedgerOf(emitted)[e.number] = e.target
    BY <1>6, LedgerOfSpec
  <2>2. Retire => \A e \in emitted : e.target # local[w].target
    BY <1>1 DEF ClaimInv
  <2> QED BY <1>7, <2>1, <2>2 DEF Shown
<1> HIDE DEF h
<1> QED BY <1>1, <1>3, <1>4, <1>7, <1>8, <1>9 DEF Ledger!Show, LedgerWith

\* When cmd_search returns, the ledger is complete and its size is the number reported.
LEMMA JoinEnds ==
    ASSUME IInv, Join
    PROVE  hits \in 0 .. Count /\ Ledger!End(hits)
<1>1. Pending = {} /\ Undoing = {}
  BY DEF Join, Finished, Pending, Undoing
<1>2. Granted = hits /\ Held = {}
  BY <1>1, FS_EmptySet DEF Granted, Held, IInv, TypeOK
<1>3. Shown = 1 .. hits /\ hits \in 0 .. Count
  BY <1>2, ClassicSearchAssumption DEF IInv, HitAccounting, TypeOK
<1>4. /\ main # "returned" /\ main' = "returned" /\ result' = hits
      /\ emitted' = emitted
  BY DEF Join
<1>5. DOMAIN LedgerOf(emitted) = 1 .. hits
  BY <1>3 DEF Shown, LedgerOf
<1> QED BY <1>3, <1>4, <1>5 DEF Ledger!End

\* Every step shows one hit, ends the search or leaves the ledger alone.
LEMMA LedgerStep == IInv /\ ClaimInv /\ [Next]_vars => [Ledger!LedgerNext]_(Ledger!ledgerVars)
<1> SUFFICES ASSUME IInv, ClaimInv, [Next]_vars
             PROVE  [Ledger!LedgerNext]_(Ledger!ledgerVars)
  OBVIOUS
<1>0. \A w \in Workers : pc[w] \notin {"done", "failed"} => main # "returned"
  BY DEF ClaimInv, Finished
<1>1. ASSUME NEW w \in Workers, Emit(w) PROVE Ledger!LedgerNext
  <2>1. local[w].n + 1 \in 1 .. Count /\ local[w].target \in Targets
    <3>1. local[w].target \in Targets
      BY <1>1 DEF IInv, TypeOK, TargetChosen, Emit, Local
    <3>2. local[w].n + 1 \in 1 .. Count
      BY <1>1, EmitShows DEF Ledger!Show
    <3> QED BY <3>1, <3>2
  <2>2. Ledger!Show(local[w].n + 1, local[w].target)
    BY <1>1, EmitShows
  <2> SUFFICES \E n \in 1 .. Count, t \in Targets : Ledger!Show(n, t)
    BY DEF Ledger!LedgerNext
  <2> QED BY <2>1, <2>2
<1>2. ASSUME Join PROVE Ledger!LedgerNext
  BY <1>2, JoinEnds DEF Ledger!LedgerNext
<1>3. ASSUME NEW w \in Workers,
             \/ CheckStop(w) \/ DrawFails(w) \/ DrawBase(w) \/ Scan(w)
      PROVE  UNCHANGED Ledger!ledgerVars
  <2>1. main # "returned" /\ main' = main /\ emitted' = emitted /\ result' = result
    BY <1>0, <1>3 DEF CheckStop, DrawFails, DrawBase, Scan, ScanHit, ScanMiss, ScanPoll,
                      CheckPoll, RunEnds
  <2> QED BY <2>1, LedgerStutter
<1>4. ASSUME NEW w \in Workers,
             \/ Claim(w) \/ ClaimLost(w) \/ CountHit(w) \/ UndoCount(w)
             \/ StopOverCount(w) \/ LockIo(w) \/ FinishStop(w) \/ FinishRefresh(w)
      PROVE  UNCHANGED Ledger!ledgerVars
  <2>1. main # "returned" /\ main' = main /\ emitted' = emitted /\ result' = result
    BY <1>0, <1>4 DEF Claim, ClaimLost, CountHit, UndoCount, StopOverCount, LockIo,
                      FinishStop, FinishRefresh
  <2> QED BY <2>1, LedgerStutter
<1>5. ASSUME WatchEnds PROVE UNCHANGED Ledger!ledgerVars
  BY <1>5, LedgerStutter DEF WatchEnds
<1>6. ASSUME Terminated \/ UNCHANGED vars PROVE UNCHANGED Ledger!ledgerVars
  <2>1. emitted' = emitted /\ main' = main /\ result' = result
    BY <1>6 DEF Terminated, vars
  <2> QED BY <2>1 DEF Ledger!ledgerVars
<1> QED
  BY <1>1, <1>2, <1>3, <1>4, <1>5, <1>6 DEF Next, Worker, RecordHit

\* The classic CPU search keeps the promise of HitLedger too: record_cpu_hit
\* numbers hits within the budget without gap or repetition, a retiring search
\* shows each target at most once, and the total reported is the number shown.
THEOREM ClassicSearchImplementsLedger == Spec => ImplementsLedger
<1>1. Init => ClaimInv
  BY DEF Init, ClaimInv, Holders
<1>2. Init => Ledger!LedgerInit
  <2> SUFFICES ASSUME Init PROVE Ledger!LedgerInit
    OBVIOUS
  <2>1. emitted = {} /\ main # "returned" /\ result = 0
    BY DEF Init
  <2> QED BY <2>1 DEF Ledger!LedgerInit, LedgerOf
<1> QED
  BY <1>1, <1>2, IInvAlways, ClaimStep, LedgerStep, PTL
  DEF Spec, ImplementsLedger, Ledger!LedgerSpec
=============================================================================
