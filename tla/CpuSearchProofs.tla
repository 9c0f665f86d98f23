--------------------------- MODULE CpuSearchProofs ---------------------------
(***************************************************************************)
(* Theorems about CpuSearch, for every number of workers, targets, keys    *)
(* and salts and for every budget.                                         *)
(***************************************************************************)
EXTENDS CpuSearch, TargetSetProofs, FiniteSetTheorems, TLAPS

-----------------------------------------------------------------------------
(***************************************************************************)
(* The addresses of a key, and the locals of a worker.                     *)
(***************************************************************************)

\* canonical_pq_salt returns a compliant salt, and the lowest of them.
LEMMA CanonicalPqSaltSpec ==
    ASSUME NEW k \in Keys, HasCanonicalSalt(k)
    PROVE  /\ CanonicalPqSalt(k) \in Compliant[k]
           /\ CanonicalPqSalt(k) \in Salts
           /\ \A s \in Compliant[k] : CanonicalPqSalt(k) <= s
<1>1. Compliant[k] \in SUBSET Salts
  BY PqAddressAssumption
<1>2. Compliant[k] \in SUBSET Nat /\ Compliant[k] # {}
  BY <1>1, PqAddressAssumption DEF Salts, HasCanonicalSalt
<1>3. \E m \in Compliant[k] : \A s \in Compliant[k] : m <= s
  BY <1>2, LeastElement
<1> QED BY <1>1, <1>3 DEF CanonicalPqSalt

\* Truncation to the salt byte gives a salt.
LEMMA SaltByteType == \A s \in Nat : SaltByte(s) \in Salts /\ SaltByte(s) \in Nat
  BY PqAddressAssumption DEF SaltByte, Salts

\* ... and leaves one alone.
LEMMA SaltByteId == \A s \in Salts : SaltByte(s) = s
<1>1. \A s \in Salts : s \in Nat /\ s < SaltSpace
  BY PqAddressAssumption DEF Salts
<1>2. \A s \in Nat, n \in Nat : s < n => s % n = s
  BY SMT
<1> QED BY <1>1, <1>2, PqAddressAssumption DEF SaltByte

\* A worker that has no key yet is a record of the local variables.
LEMMA IdleType == Idle \in Local
  BY CpuSearchAssumption DEF Idle, Local, Cache
-----------------------------------------------------------------------------
(***************************************************************************)
(* The inductive invariant.                                                *)
(***************************************************************************)

\* A worker that is recording a hit has a target to record it for.
TargetChosen ==
    \A w \in Workers :
        pc[w] \in {"claim", "count", "lock", "emit"} => local[w].target # NoTarget

IInv == TypeOK /\ TargetChosen /\ HitAccounting

\* The workers that have to undo an increment are counted by hits.
LEMMA GrantedType ==
    ASSUME TypeOK, HitAccounting
    PROVE  /\ IsFiniteSet(Undoing)
           /\ Cardinality(Undoing) \in Nat
           /\ Granted \in Nat
           /\ hits = Granted + Cardinality(Undoing)
           /\ Undoing # {} => Cardinality(Undoing) > 0
<1>1. IsFiniteSet(Undoing)
  BY FS_Subset, CpuSearchAssumption DEF Undoing
<1>2. Cardinality(Undoing) \in Nat /\ (Undoing = {} <=> Cardinality(Undoing) = 0)
  BY <1>1, FS_CardinalityType, FS_EmptySet
<1>3. Granted \in Nat
  <2>1. CASE Undoing = {}
    BY <2>1, <1>2 DEF Granted, TypeOK
  <2>2. CASE Undoing # {}
    BY <2>2, CpuSearchAssumption DEF HitAccounting
  <2> QED BY <2>1, <2>2
<1> QED BY <1>1, <1>2, <1>3 DEF Granted, TypeOK

\* The invariant holds before the workers are spawned.
LEMMA IInvInit == Init => IInv
<1> SUFFICES ASSUME Init PROVE IInv
  OBVIOUS
<1>1. TypeOK
  BY IdleType, TargetSetAssumption, CpuSearchAssumption
  DEF Init, TypeOK, AllActive, Cache, Labels, HitRecord
<1>2. TargetChosen
  BY DEF Init, TargetChosen
<1>3. HitAccounting
  <2>1. Undoing = {} /\ Pending = {} /\ Shown = {} /\ Held = {}
    BY DEF Init, Undoing, Pending, Shown, Held
  <2>2. Granted = 0
    BY <2>1, FS_EmptySet DEF Granted, Init
  <2> QED BY <2>1, <2>2, CpuSearchAssumption DEF HitAccounting, Init
<1> QED BY <1>1, <1>2, <1>3 DEF IInv
-----------------------------------------------------------------------------
(***************************************************************************)
(* Types.                                                                  *)
(***************************************************************************)

\* One lemma for the draw of a key: its salt is a natural number.
LEMMA DrawKeyType ==
    ASSUME NEW w \in Workers, NEW k \in Keys, TypeOK, TargetChosen, DrawKey(w, k)
    PROVE  TypeOK' /\ TargetChosen'
<1>1. (IF CanonicalOnly THEN CanonicalPqSalt(k) ELSE 0) \in Nat
  BY CanonicalPqSaltSpec, PqAddressAssumption DEF DrawKey, Salts
<1>2. local' \in [Workers -> Local]
  BY <1>1, IdleType DEF DrawKey, TypeOK, Local
<1>3. pc' = [pc EXCEPT ![w] = "match"] /\ pc' \in [Workers -> Labels]
  BY DEF DrawKey, Goto, TypeOK, Labels
<1>4. TypeOK'
  BY <1>2, <1>3 DEF DrawKey, TypeOK, shared
<1>5. TargetChosen'
  BY <1>3 DEF DrawKey, TypeOK, TargetChosen
<1> QED BY <1>4, <1>5

\* The target that a matched key claims is one of the list.
LEMMA MatchHitType ==
    ASSUME NEW w \in Workers, TypeOK, TargetChosen, MatchHit(w)
    PROVE  TypeOK' /\ TargetChosen'
<1>1. local[w] \in Local
  BY DEF TypeOK
<1>2. SaltByte(local[w].salt) \in Salts /\ SaltByte(local[w].salt) \in Nat
  BY <1>1, SaltByteType DEF Local
<1>3. Matches[local[w].key][SaltByte(local[w].salt)] \in SUBSET Targets
  BY <1>1, <1>2, PqAddressAssumption DEF Local
<1>4. Matched(w) \in Targets
  BY <1>3, FirstMatchSpec DEF Matched, MatchHit, TypeOK
<1>5. Matched(w) # NoTarget
  BY DEF MatchHit
<1>6. local' \in [Workers -> Local] /\ local'[w].target # NoTarget
  BY <1>1, <1>2, <1>4, <1>5 DEF MatchHit, TypeOK, Local
<1>7. pc' = [pc EXCEPT ![w] = "claim"] /\ pc' \in [Workers -> Labels]
  BY DEF MatchHit, Goto, TypeOK, Labels
<1>8. TypeOK'
  BY <1>6, <1>7 DEF MatchHit, TypeOK, shared
<1>9. TargetChosen'
  BY <1>6, <1>7 DEF MatchHit, TypeOK, TargetChosen
<1> QED BY <1>8, <1>9

\* A hit that is shown has a number, a target of the list and the salt in hand.
LEMMA EmitType ==
    ASSUME NEW w \in Workers, TypeOK, TargetChosen, Emit(w)
    PROVE  TypeOK' /\ TargetChosen'
<1>1. local[w] \in Local /\ local[w].target \in Targets
  BY DEF TypeOK, TargetChosen, Emit, Local
<1>2. emitted' \in SUBSET HitRecord
  BY <1>1 DEF Emit, HitOf, TypeOK, HitRecord, Local
<1>3. pc' = [pc EXCEPT ![w] = "finish"] /\ pc' \in [Workers -> Labels]
  BY DEF Emit, Goto, TypeOK, Labels
<1>4. TypeOK'
  BY <1>2, <1>3 DEF Emit, TypeOK, shared
<1>5. TargetChosen'
  BY <1>3 DEF Emit, TypeOK, TargetChosen
<1> QED BY <1>4, <1>5

\* Every step keeps the types and gives a recording worker a target.
LEMMA TypeStep == IInv /\ [Next]_vars => TypeOK' /\ TargetChosen'
<1> SUFFICES ASSUME IInv, [Next]_vars
             PROVE  TypeOK' /\ TargetChosen'
  OBVIOUS
<1> USE IdleType DEF IInv, TypeOK, TargetChosen, Goto, EndOfKey, Labels, shared
<1>1. ASSUME NEW w \in Workers, CheckStop(w) PROVE TypeOK' /\ TargetChosen'
  BY <1>1 DEF CheckStop, Local
<1>2. ASSUME NEW w \in Workers, DrawFails(w) PROVE TypeOK' /\ TargetChosen'
  BY <1>2 DEF DrawFails, Local
<1>3. ASSUME NEW w \in Workers, DrawUseless(w) PROVE TypeOK' /\ TargetChosen'
  BY <1>3 DEF DrawUseless, Local
<1>4. ASSUME NEW w \in Workers, NEW k \in Keys, DrawKey(w, k)
      PROVE  TypeOK' /\ TargetChosen'
  BY <1>4, DrawKeyType
<1>5. ASSUME NEW w \in Workers, MatchHit(w) PROVE TypeOK' /\ TargetChosen'
  BY <1>5, MatchHitType
<1>6. ASSUME NEW w \in Workers, MatchMiss(w) PROVE TypeOK' /\ TargetChosen'
  BY <1>6 DEF MatchMiss, Local
<1>7. ASSUME NEW w \in Workers, Claim(w) PROVE TypeOK' /\ TargetChosen'
  BY <1>7, AfterClaimType DEF Claim, Local
<1>8. ASSUME NEW w \in Workers, ClaimLost(w) PROVE TypeOK' /\ TargetChosen'
  BY <1>8 DEF ClaimLost, Local
<1>9. ASSUME NEW w \in Workers, CountHit(w) PROVE TypeOK' /\ TargetChosen'
  BY <1>9 DEF CountHit, Local
<1>10. ASSUME NEW w \in Workers, UndoCount(w) PROVE TypeOK' /\ TargetChosen'
  <2>1. hits - 1 \in Nat
    BY <1>10, GrantedType DEF UndoCount, Undoing
  <2> QED BY <1>10, <2>1 DEF UndoCount
<1>11. ASSUME NEW w \in Workers, StopOverCount(w) PROVE TypeOK' /\ TargetChosen'
  BY <1>11 DEF StopOverCount, Local
<1>12. ASSUME NEW w \in Workers, LockIo(w) PROVE TypeOK' /\ TargetChosen'
  BY <1>12 DEF LockIo, Local
<1>13. ASSUME NEW w \in Workers, Emit(w) PROVE TypeOK' /\ TargetChosen'
  BY <1>13, EmitType
<1>14. ASSUME NEW w \in Workers, FinishStop(w) PROVE TypeOK' /\ TargetChosen'
  BY <1>14 DEF FinishStop, Local
<1>15. ASSUME NEW w \in Workers, FinishRefresh(w) PROVE TypeOK' /\ TargetChosen'
  BY <1>15 DEF FinishRefresh, Local, Refreshed, Cache
<1>16. ASSUME WatchEnds PROVE TypeOK' /\ TargetChosen'
  BY <1>16 DEF WatchEnds, Local
<1>17. ASSUME Join PROVE TypeOK' /\ TargetChosen'
  BY <1>17 DEF Join, Local
<1>18. CASE Terminated \/ UNCHANGED vars
  BY <1>18 DEF Terminated, vars
<1> QED
  BY <1>1, <1>2, <1>3, <1>4, <1>5, <1>6, <1>7, <1>8, <1>9, <1>10, <1>11, <1>12,
     <1>13, <1>14, <1>15, <1>16, <1>17, <1>18 DEF Next, Worker, Draw, RecordHit

-----------------------------------------------------------------------------
(***************************************************************************)
(* Hit numbers.                                                            *)
(***************************************************************************)

\* A step that touches neither the counter, nor the hits shown, nor who holds
\* which number keeps the accounts.
LEMMA AccountingFrame ==
    ASSUME HitAccounting, hits' = hits, emitted' = emitted,
           Pending' = Pending, Undoing' = Undoing,
           \A w \in Pending : local'[w].n = local[w].n
    PROVE  HitAccounting'
<1>1. Shown' = Shown /\ Held' = Held /\ Granted' = Granted
  BY DEF Shown, Held, Granted
<1> QED BY <1>1 DEF HitAccounting

\* fetch_add below the budget: no undo is under way, and the number granted is
\* the next one.
LEMMA CountHitGrants ==
    ASSUME NEW w \in Workers, TypeOK, HitAccounting, CountHit(w), hits < Count
    PROVE  HitAccounting' /\ Granted' = Granted + 1
<1>1. Undoing = {} /\ Granted = hits
  <2>1. Undoing = {}
    BY GrantedType, CpuSearchAssumption DEF HitAccounting, TypeOK
  <2> QED BY <2>1, FS_EmptySet DEF Granted, TypeOK
<1>2. w \notin Pending /\ Pending' = Pending \cup {w} /\ Undoing' = {}
  BY <1>1, CpuSearchAssumption DEF CountHit, Goto, Pending, Undoing, TypeOK
<1>3. local'[w].n = hits /\ \A v \in Pending : local'[v].n = local[v].n
  BY <1>2 DEF CountHit, TypeOK, Local, Pending
<1>4. Shown' = Shown /\ emitted' = emitted
  BY DEF CountHit, Shown
<1>5. Held' = Held \cup {hits + 1}
  BY <1>2, <1>3 DEF Held, Pending
<1>6. Granted' = hits + 1
  BY <1>2, FS_EmptySet DEF Granted, CountHit, TypeOK
<1>7. Shown \cup Held = 1 .. hits /\ Shown \cap Held = {}
  BY <1>1 DEF HitAccounting
<1>8. \A v \in Pending : local[v].n # hits
  <2> SUFFICES ASSUME NEW v \in Pending, local[v].n = hits PROVE FALSE
    OBVIOUS
  <2>1. hits + 1 \in Held
    BY DEF Held
  <2> QED BY <2>1, <1>7 DEF TypeOK
<1>9. (Shown \cup Held = 1 .. Granted)' /\ (Shown \cap Held = {})'
  BY <1>4, <1>5, <1>6, <1>7 DEF TypeOK
<1>10. \A u, v \in Pending' : local'[u].n = local'[v].n => u = v
  BY <1>2, <1>3, <1>8 DEF HitAccounting
<1>11. (Granted <= Count)'
  BY <1>6, CpuSearchAssumption DEF TypeOK
<1> QED BY <1>1, <1>2, <1>4, <1>6, <1>9, <1>10, <1>11 DEF HitAccounting

\* fetch_add beyond the budget: one more increment to undo.
LEMMA CountHitOver ==
    ASSUME NEW w \in Workers, TypeOK, HitAccounting, CountHit(w), hits >= Count
    PROVE  HitAccounting' /\ Granted = Count /\ Granted' = Granted
<1>1. Granted = Count
  <2>1. CASE Undoing # {}
    BY <2>1 DEF HitAccounting
  <2>2. CASE Undoing = {}
    BY <2>2, FS_EmptySet, CpuSearchAssumption DEF HitAccounting, Granted, TypeOK
  <2> QED BY <2>1, <2>2
<1>2. w \notin Undoing /\ Undoing' = Undoing \cup {w}
  BY CpuSearchAssumption DEF CountHit, Goto, Undoing, TypeOK
<1>3. Pending' = Pending /\ \A v \in Pending : local'[v].n = local[v].n
  BY CpuSearchAssumption DEF CountHit, Goto, Pending, TypeOK
<1>4. Shown' = Shown /\ Held' = Held /\ emitted' = emitted
  BY <1>3 DEF CountHit, Shown, Held
<1>5. Cardinality(Undoing') = Cardinality(Undoing) + 1
  BY <1>2, GrantedType, FS_AddElement
<1>6. Granted' = Granted
  BY <1>5, GrantedType DEF Granted, CountHit, TypeOK
<1> QED BY <1>1, <1>3, <1>4, <1>6 DEF HitAccounting

\* fetch_sub: the counter gives back one increment beyond the budget.
LEMMA UndoAccounts ==
    ASSUME NEW w \in Workers, TypeOK, HitAccounting, UndoCount(w)
    PROVE  HitAccounting' /\ Granted = Count /\ Granted' = Granted
<1>1. w \in Undoing /\ Undoing' = Undoing \ {w}
  BY DEF UndoCount, Goto, Undoing, TypeOK
<1>2. Pending' = Pending /\ local' = local
  BY DEF UndoCount, Goto, Pending, TypeOK
<1>3. Shown' = Shown /\ Held' = Held /\ emitted' = emitted
  BY <1>2 DEF UndoCount, Shown, Held
<1>4. Cardinality(Undoing') = Cardinality(Undoing) - 1
  BY <1>1, GrantedType, FS_RemoveElement
<1>5. Granted' = Granted
  BY <1>4, GrantedType DEF Granted, UndoCount, TypeOK
<1>6. Granted = Count
  BY <1>1 DEF HitAccounting
<1> QED BY <1>2, <1>3, <1>5, <1>6 DEF HitAccounting

\* Showing a hit moves its number from the held ones to the shown ones.
LEMMA EmitAccounts ==
    ASSUME NEW w \in Workers, TypeOK, HitAccounting, Emit(w)
    PROVE  HitAccounting'
<1> DEFINE k == local[w].n + 1
<1>1. /\ w \in Pending /\ Pending' = Pending \ {w} /\ Undoing' = Undoing
      /\ local' = local /\ hits' = hits
  BY DEF Emit, Goto, Pending, Undoing, TypeOK, shared
<1>2. k \in Held /\ k \notin Shown
  BY <1>1 DEF Held, HitAccounting
<1>3. Shown' = Shown \cup {k}
  <2>1. emitted' = emitted \cup {HitOf(w)}
    BY DEF Emit
  <2>2. HitOf(w).number = k
    BY DEF HitOf
  <2> QED BY <2>1, <2>2 DEF Shown
<1>4. Held' = Held \ {k}
  <2>1. Held' = {local[v].n + 1 : v \in Pending \ {w}}
    BY <1>1 DEF Held
  <2>2. \A v \in Pending : local[v].n \in Nat
    BY DEF Pending, TypeOK, Local
  <2>3. \A v \in Pending \ {w} : local[v].n + 1 # k
    BY <1>1, <2>2 DEF HitAccounting
  <2> QED BY <2>1, <2>3 DEF Held
<1>5. \A e, f \in emitted' : e.number = f.number => e = f
  <2>1. \A e \in emitted : e.number # k
    BY <1>2 DEF Shown
  <2> QED BY <2>1 DEF Emit, HitOf, HitAccounting
<1>6. Granted' = Granted
  BY <1>1 DEF Granted
<1>7. (Shown \cup Held = 1 .. Granted)' /\ (Shown \cap Held = {})'
  BY <1>2, <1>3, <1>4, <1>6 DEF HitAccounting
<1>8. \A u, v \in Pending' : local'[u].n = local'[v].n => u = v
  BY <1>1 DEF HitAccounting
<1> QED BY <1>1, <1>5, <1>6, <1>7, <1>8 DEF HitAccounting

\* Every step keeps the accounts.
LEMMA AccountingStep == IInv /\ [Next]_vars => HitAccounting'
<1> SUFFICES ASSUME IInv, [Next]_vars
             PROVE  HitAccounting'
  OBVIOUS
<1> USE DEF IInv, TypeOK, Goto, EndOfKey, shared, Pending, Undoing
<1>1. ASSUME NEW w \in Workers, CheckStop(w) PROVE HitAccounting'
  BY <1>1, AccountingFrame DEF CheckStop
<1>2. ASSUME NEW w \in Workers, DrawFails(w) PROVE HitAccounting'
  BY <1>2, AccountingFrame DEF DrawFails
<1>3. ASSUME NEW w \in Workers, DrawUseless(w) PROVE HitAccounting'
  BY <1>3, AccountingFrame DEF DrawUseless
<1>4. ASSUME NEW w \in Workers, NEW k \in Keys, DrawKey(w, k)
      PROVE  HitAccounting'
  BY <1>4, AccountingFrame DEF DrawKey
<1>5. ASSUME NEW w \in Workers, MatchHit(w) PROVE HitAccounting'
  BY <1>5, AccountingFrame DEF MatchHit
<1>6. ASSUME NEW w \in Workers, MatchMiss(w) PROVE HitAccounting'
  BY <1>6, AccountingFrame DEF MatchMiss
<1>7. ASSUME NEW w \in Workers, Claim(w) PROVE HitAccounting'
  BY <1>7, AccountingFrame DEF Claim
<1>8. ASSUME NEW w \in Workers, ClaimLost(w) PROVE HitAccounting'
  BY <1>8, AccountingFrame DEF ClaimLost
<1>9. ASSUME NEW w \in Workers, CountHit(w) PROVE HitAccounting'
  <2>1. hits < Count \/ hits >= Count
    BY CpuSearchAssumption
  <2> QED BY <1>9, <2>1, CountHitGrants, CountHitOver
<1>10. ASSUME NEW w \in Workers, UndoCount(w) PROVE HitAccounting'
  BY <1>10, UndoAccounts
<1>11. ASSUME NEW w \in Workers, StopOverCount(w) PROVE HitAccounting'
  BY <1>11, AccountingFrame DEF StopOverCount
<1>12. ASSUME NEW w \in Workers, LockIo(w) PROVE HitAccounting'
  BY <1>12, AccountingFrame DEF LockIo
<1>13. ASSUME NEW w \in Workers, Emit(w) PROVE HitAccounting'
  BY <1>13, EmitAccounts
<1>14. ASSUME NEW w \in Workers, FinishStop(w) PROVE HitAccounting'
  BY <1>14, AccountingFrame DEF FinishStop
<1>15. ASSUME NEW w \in Workers, FinishRefresh(w) PROVE HitAccounting'
  BY <1>15, AccountingFrame DEF FinishRefresh
<1>16. ASSUME WatchEnds PROVE HitAccounting'
  BY <1>16, AccountingFrame DEF WatchEnds
<1>17. ASSUME Join PROVE HitAccounting'
  BY <1>17, AccountingFrame DEF Join
<1>18. CASE Terminated \/ UNCHANGED vars
  BY <1>18, AccountingFrame DEF Terminated, vars
<1> QED
  BY <1>1, <1>2, <1>3, <1>4, <1>5, <1>6, <1>7, <1>8, <1>9, <1>10, <1>11, <1>12,
     <1>13, <1>14, <1>15, <1>16, <1>17, <1>18 DEF Next, Worker, Draw, RecordHit

\* Every reachable state is as the invariant says.
LEMMA IInvAlways == Spec => []IInv
<1>1. IInv /\ [Next]_vars => IInv'
  BY TypeStep, AccountingStep DEF IInv
<1> QED BY <1>1, IInvInit, PTL DEF Spec

\* The types of TypeOK hold in every reachable state.
THEOREM TypeCorrect == Spec => []TypeOK
<1>1. IInv => TypeOK
  BY DEF IInv
<1> QED BY <1>1, IInvAlways, PTL

\* Whatever the interleaving of the workers' fetch_add and fetch_sub, the
\* numbers of the hits shown and about to be shown are 1 .. Granted without
\* gap or repetition, and never exceed the budget.
THEOREM HitNumbersCorrect == Spec => []HitAccounting
<1>1. IInv => HitAccounting
  BY DEF IInv
<1> QED BY <1>1, IInvAlways, PTL
-----------------------------------------------------------------------------
(***************************************************************************)
(* Refreshes.  A worker that holds an entropy drew it after its last hit   *)
(* was followed by a refresh; one that is about to draw would get a later  *)
(* refresh than those of all its hits, unless stop is set, and then it     *)
(* does not draw again.                                                    *)
(***************************************************************************)

HasDrawn == {"match", "claim", "count", "undo", "halt", "lock", "emit"}

FreshInv ==
    /\ WorkerHitsShareNothing
    /\ \A e \in emitted : e.draw.jitter <= cached.jitter
    /\ \A w \in Workers : pc[w] \in HasDrawn =>
          /\ local[w].draw.jitter <= cached.jitter
          /\ \A e \in emitted : e.worker = w => e.draw.jitter < local[w].draw.jitter
    /\ \A w \in Workers : pc[w] = "draw" =>
          \A e \in emitted : e.worker = w => e.draw.jitter < cached.jitter
    /\ \A w \in Workers : pc[w] = "loop" =>
          stop \/ \A e \in emitted : e.worker = w => e.draw.jitter < cached.jitter

\* The step that adds a hit: its refresh is later than those of every earlier
\* hit of the worker.
LEMMA EmitFresh ==
    ASSUME NEW w \in Workers, TypeOK, FreshInv, Emit(w)
    PROVE  FreshInv'
<1> DEFINE h == HitOf(w)
<1>1. h.worker = w /\ h.draw = local[w].draw
  BY DEF HitOf
<1>2. emitted' = emitted \cup {h}
  BY DEF Emit
<1>3. /\ local' = local /\ cached' = cached /\ stop' = stop
      /\ pc' = [pc EXCEPT ![w] = "finish"] /\ pc[w] = "emit"
  BY DEF Emit, Goto, shared
<1>4. /\ \A e \in emitted : e.worker = w => e.draw.jitter < local[w].draw.jitter
      /\ local[w].draw.jitter <= cached.jitter
  BY <1>3 DEF FreshInv, HasDrawn
<1>5. /\ cached.jitter \in Nat /\ local[w].draw.jitter \in Nat
      /\ \A e \in emitted : e.draw.jitter \in Nat
  BY DEF TypeOK, Cache, Local, HitRecord
<1>6. WorkerHitsShareNothing'
  BY <1>1, <1>2, <1>4, <1>5 DEF FreshInv, WorkerHitsShareNothing
<1>7. \A e \in emitted' : e.draw.jitter <= cached'.jitter
  BY <1>1, <1>2, <1>3, <1>4 DEF FreshInv
<1>8. ASSUME NEW v \in Workers, v # w
      PROVE  pc'[v] = pc[v] /\ \A e \in emitted' : e.worker = v => e \in emitted
  BY <1>1, <1>2, <1>3, <1>8 DEF TypeOK
<1>9. pc'[w] = "finish"
  BY <1>3 DEF TypeOK
<1> QED BY <1>3, <1>6, <1>7, <1>8, <1>9 DEF FreshInv, HasDrawn

\* No step lets two hits of a worker be of the same refresh.
LEMMA FreshStep == TypeOK /\ FreshInv /\ [Next]_vars => FreshInv'
<1> SUFFICES ASSUME TypeOK, FreshInv, [Next]_vars
             PROVE  FreshInv'
  OBVIOUS
<1> USE DEF TypeOK, FreshInv, HasDrawn, Goto, EndOfKey, shared, WorkerHitsShareNothing
<1>0. /\ cached.jitter \in Nat
      /\ \A e \in emitted : e.draw.jitter \in Nat
      /\ \A w \in Workers : local[w].draw.jitter \in Nat
  BY DEF Cache, HitRecord, Local
<1>1. ASSUME NEW w \in Workers, CheckStop(w) PROVE FreshInv'
  BY <1>1 DEF CheckStop
<1>2. ASSUME NEW w \in Workers, DrawFails(w) PROVE FreshInv'
  BY <1>2 DEF DrawFails
<1>3. ASSUME NEW w \in Workers, DrawUseless(w) PROVE FreshInv'
  BY <1>3 DEF DrawUseless
<1>4. ASSUME NEW w \in Workers, NEW k \in Keys, DrawKey(w, k) PROVE FreshInv'
  <2>1. local'[w].draw = cached /\ \A v \in Workers : v # w => local'[v] = local[v]
    BY <1>4, IdleType DEF DrawKey, Local
  <2>2. /\ pc[w] = "draw" /\ pc' = [pc EXCEPT ![w] = "match"]
        /\ emitted' = emitted /\ cached' = cached /\ stop' = stop
    BY <1>4 DEF DrawKey
  <2> QED BY <1>0, <2>1, <2>2
<1>5. ASSUME NEW w \in Workers, MatchHit(w) PROVE FreshInv'
  BY <1>5 DEF MatchHit
<1>6. ASSUME NEW w \in Workers, MatchMiss(w) PROVE FreshInv'
  <2>1. pc[w] = "match" /\ emitted' = emitted /\ cached' = cached /\ stop' = stop
    BY <1>6 DEF MatchMiss
  <2>2. CASE CanonicalOnly \/ local[w].salt >= MaxSalt
    BY <1>0, <1>6, <2>1, <2>2 DEF MatchMiss
  <2>3. CASE ~ (CanonicalOnly \/ local[w].salt >= MaxSalt)
    <3>1. pc' = pc /\ local' = [local EXCEPT ![w].salt = @ + 1]
      BY <1>6, <2>3 DEF MatchMiss
    <3>2. \A v \in Workers : local'[v].draw = local[v].draw
      BY <3>1 DEF Local
    <3> QED BY <2>1, <3>1, <3>2
  <2> QED BY <2>2, <2>3
<1>7. ASSUME NEW w \in Workers, Claim(w) PROVE FreshInv'
  BY <1>7 DEF Claim
<1>8. ASSUME NEW w \in Workers, ClaimLost(w) PROVE FreshInv'
  BY <1>0, <1>8 DEF ClaimLost
<1>9. ASSUME NEW w \in Workers, CountHit(w) PROVE FreshInv'
  BY <1>9 DEF CountHit
<1>10. ASSUME NEW w \in Workers, UndoCount(w) PROVE FreshInv'
  BY <1>10 DEF UndoCount
<1>11. ASSUME NEW w \in Workers, StopOverCount(w) PROVE FreshInv'
  BY <1>11 DEF StopOverCount
<1>12. ASSUME NEW w \in Workers, LockIo(w) PROVE FreshInv'
  BY <1>12 DEF LockIo
<1>13. ASSUME NEW w \in Workers, Emit(w) PROVE FreshInv'
  BY <1>13, EmitFresh
<1>14. ASSUME NEW w \in Workers, FinishStop(w) PROVE FreshInv'
  BY <1>14 DEF FinishStop
<1>15. ASSUME NEW w \in Workers, FinishRefresh(w) PROVE FreshInv'
  <2>1. cached'.jitter = cached.jitter + 1
    BY <1>15 DEF FinishRefresh, Refreshed
  <2> QED BY <1>0, <1>15, <2>1 DEF FinishRefresh
<1>16. ASSUME WatchEnds PROVE FreshInv'
  BY <1>16 DEF WatchEnds
<1>17. ASSUME Join PROVE FreshInv'
  BY <1>17 DEF Join
<1>18. CASE Terminated \/ UNCHANGED vars
  BY <1>18 DEF Terminated, vars
<1> QED
  BY <1>1, <1>2, <1>3, <1>4, <1>5, <1>6, <1>7, <1>8, <1>9, <1>10, <1>11, <1>12,
     <1>13, <1>14, <1>15, <1>16, <1>17, <1>18 DEF Next, Worker, Draw, RecordHit

\* No worker ever shows two hits of the same refresh of the mixer.
THEOREM WorkerHitsFresh == Spec => []WorkerHitsShareNothing
<1>1. Init => FreshInv
  BY DEF Init, FreshInv, WorkerHitsShareNothing, HasDrawn
<1>2. FreshInv => WorkerHitsShareNothing
  BY DEF FreshInv
<1> QED BY <1>1, <1>2, FreshStep, TypeCorrect, PTL DEF Spec
-----------------------------------------------------------------------------
(***************************************************************************)
(* Refinement.  In a retiring search the claim makes its holder the only   *)
(* one that can show the target, now or later.                             *)
(***************************************************************************)

Holders == {w \in Workers : pc[w] \in {"count", "lock", "emit"}}

ClaimInv ==
    /\ Retire =>
         /\ \A w \in Holders : local[w].target \in Targets /\ ~active[local[w].target]
         /\ \A e \in emitted : ~active[e.target]
         /\ \A v, w \in Holders : local[v].target = local[w].target => v = w
         /\ \A e \in emitted, w \in Holders : e.target # local[w].target
    /\ main = "returned" => \A w \in Workers : Finished(w)

\* A granted claim makes its worker the only holder of the retired target.
LEMMA ClaimHolds ==
    ASSUME NEW w \in Workers, TypeOK, TargetChosen, ClaimInv, Claim(w)
    PROVE  ClaimInv'
<1>1. /\ pc[w] = "claim" /\ pc' = [pc EXCEPT ![w] = "count"]
      /\ local' = local /\ emitted' = emitted /\ main' = main
  BY DEF Claim, Goto
<1>2. Holders' = Holders \cup {w} /\ w \notin Holders
  BY <1>1 DEF Holders, TypeOK
<1>3. main # "returned"
  BY <1>1 DEF ClaimInv, Finished
<1>4. local[w].target \in Targets
  BY <1>1 DEF TargetChosen, TypeOK, Local
<1>5. ASSUME Retire
      PROVE  active[local[w].target] /\ active' = [active EXCEPT ![local[w].target] = FALSE]
  BY <1>5 DEF Claim, ClaimGranted, AfterClaim
<1>6. ASSUME Retire
      PROVE  /\ \A v \in Holders : local[v].target # local[w].target
             /\ \A e \in emitted : e.target # local[w].target
  BY <1>5, <1>6 DEF ClaimInv
<1>7. ASSUME Retire
      PROVE  /\ \A v \in Holders' : local'[v].target \in Targets /\ ~active'[local'[v].target]
             /\ \A e \in emitted' : ~active'[e.target]
  <2>1. \A t \in Targets : ~active[t] => ~active'[t]
    BY <1>5, <1>7 DEF TypeOK
  <2>2. ~active'[local[w].target]
    BY <1>4, <1>5, <1>7 DEF TypeOK
  <2>3. \A e \in emitted : e.target \in Targets
    BY DEF TypeOK, HitRecord
  <2> QED BY <1>1, <1>2, <1>4, <1>7, <2>1, <2>2, <2>3 DEF ClaimInv
<1> QED BY <1>1, <1>2, <1>3, <1>6, <1>7 DEF ClaimInv

\* A hit that is shown passes its target from the worker to the output.
LEMMA EmitClaim ==
    ASSUME NEW w \in Workers, TypeOK, ClaimInv, Emit(w)
    PROVE  ClaimInv'
<1>1. /\ pc[w] = "emit" /\ pc' = [pc EXCEPT ![w] = "finish"] /\ active' = active
      /\ local' = local /\ emitted' = emitted \cup {HitOf(w)} /\ main' = main
  BY DEF Emit, Goto, shared
<1>2. Holders' = Holders \ {w} /\ w \in Holders
  BY <1>1 DEF Holders, TypeOK
<1>3. main # "returned"
  BY <1>1 DEF ClaimInv, Finished
<1>4. HitOf(w).target = local[w].target
  BY DEF HitOf
<1> QED BY <1>1, <1>2, <1>3, <1>4 DEF ClaimInv

\* No step gives a retired target a second holder.
LEMMA ClaimStep == IInv /\ ClaimInv /\ [Next]_vars => ClaimInv'
<1> SUFFICES ASSUME IInv, ClaimInv, [Next]_vars
             PROVE  ClaimInv'
  OBVIOUS
<1> USE DEF IInv, TypeOK, ClaimInv, Holders, Finished, Goto, EndOfKey, shared
<1>1. ASSUME NEW w \in Workers, CheckStop(w) PROVE ClaimInv'
  BY <1>1 DEF CheckStop
<1>2. ASSUME NEW w \in Workers, DrawFails(w) PROVE ClaimInv'
  BY <1>2 DEF DrawFails
<1>3. ASSUME NEW w \in Workers, DrawUseless(w) PROVE ClaimInv'
  BY <1>3 DEF DrawUseless
<1>4. ASSUME NEW w \in Workers, NEW k \in Keys, DrawKey(w, k)
      PROVE  ClaimInv'
  BY <1>4 DEF DrawKey
<1>5. ASSUME NEW w \in Workers, MatchHit(w) PROVE ClaimInv'
  BY <1>5 DEF MatchHit
<1>6. ASSUME NEW w \in Workers, MatchMiss(w) PROVE ClaimInv'
  BY <1>6 DEF MatchMiss
<1>7. ASSUME NEW w \in Workers, Claim(w) PROVE ClaimInv'
  BY <1>7, ClaimHolds
<1>8. ASSUME NEW w \in Workers, ClaimLost(w) PROVE ClaimInv'
  BY <1>8 DEF ClaimLost
<1>9. ASSUME NEW w \in Workers, CountHit(w) PROVE ClaimInv'
  <2>1. /\ Holders' \subseteq Holders /\ emitted' = emitted /\ active' = active
        /\ main' = main /\ main # "returned"
    BY <1>9 DEF CountHit
  <2>2. \A v \in Workers : local'[v].target = local[v].target
    BY <1>9 DEF CountHit, Local
  <2> HIDE DEF Holders
  <2>3. Holders \subseteq Workers
    BY DEF Holders
  <2> QED BY <2>1, <2>2, <2>3
<1>10. ASSUME NEW w \in Workers, UndoCount(w) PROVE ClaimInv'
  BY <1>10 DEF UndoCount
<1>11. ASSUME NEW w \in Workers, StopOverCount(w) PROVE ClaimInv'
  BY <1>11 DEF StopOverCount
<1>12. ASSUME NEW w \in Workers, LockIo(w) PROVE ClaimInv'
  BY <1>12 DEF LockIo
<1>13. ASSUME NEW w \in Workers, Emit(w) PROVE ClaimInv'
  BY <1>13, EmitClaim
<1>14. ASSUME NEW w \in Workers, FinishStop(w) PROVE ClaimInv'
  BY <1>14 DEF FinishStop
<1>15. ASSUME NEW w \in Workers, FinishRefresh(w) PROVE ClaimInv'
  BY <1>15 DEF FinishRefresh
<1>16. ASSUME WatchEnds PROVE ClaimInv'
  BY <1>16 DEF WatchEnds
<1>17. ASSUME Join PROVE ClaimInv'
  BY <1>17 DEF Join
<1>18. CASE Terminated \/ UNCHANGED vars
  BY <1>18 DEF Terminated, vars
<1> QED
  BY <1>1, <1>2, <1>3, <1>4, <1>5, <1>6, <1>7, <1>8, <1>9, <1>10, <1>11, <1>12,
     <1>13, <1>14, <1>15, <1>16, <1>17, <1>18 DEF Next, Worker, Draw, RecordHit

\* A step that shows nothing leaves the ledger as it is.
LEMMA LedgerStutter ==
    ASSUME emitted' = emitted, main' # "returned", main # "returned", result' = result
    PROVE  UNCHANGED Ledger!ledgerVars
  BY DEF Ledger!ledgerVars

\* A hit written and printed is a new entry of the ledger.
LEMMA EmitShows ==
    ASSUME NEW w \in Workers, IInv, ClaimInv, Emit(w)
    PROVE  Ledger!Show(local[w].n + 1, local[w].target)
<1> DEFINE k == local[w].n + 1
           h == HitOf(w)
<1>1. /\ w \in Pending /\ w \in Holders /\ main' = main /\ result' = result
      /\ emitted' = emitted \cup {h} /\ main # "returned"
  BY DEF Emit, Pending, Holders, ClaimInv, Finished
<1>2. h.number = k /\ h.target = local[w].target
  BY DEF HitOf
<1>3. k \in Held /\ k \notin Shown
  BY <1>1 DEF Held, IInv, HitAccounting
<1>4. k \in 1 .. Count
  <2>1. k \in 1 .. Granted /\ Granted <= Count
    BY <1>3 DEF IInv, HitAccounting
  <2> QED BY <2>1, GrantedType, CpuSearchAssumption DEF IInv
<1>5. \A e \in emitted : e.number # h.number
  BY <1>2, <1>3 DEF Shown
<1>6. \A e, f \in emitted : e.number = f.number => e = f
  BY DEF IInv, HitAccounting
<1>7. DOMAIN LedgerOf(emitted) = Shown
  BY <1>6, LedgerOfSpec DEF Shown
<1>8. LedgerOf(emitted') = LedgerWith(LedgerOf(emitted), k, local[w].target)
  BY <1>1, <1>2, <1>5, <1>6, LedgerOfAdd
<1>9. Retire => \A m \in DOMAIN LedgerOf(emitted) : LedgerOf(emitted)[m] # local[w].target
  <2>1. \A e \in emitted : LedgerOf(emitted)[e.number] = e.target
    BY <1>6, LedgerOfSpec
  <2>2. Retire => \A e \in emitted : e.target # local[w].target
    BY <1>1 DEF ClaimInv
  <2> QED BY <1>7, <2>1, <2>2 DEF Shown
<1> HIDE DEF h
<1> QED BY <1>1, <1>3, <1>4, <1>7, <1>8, <1>9 DEF Ledger!Show, LedgerWith

\* When run returns, the ledger is complete and its size is the value returned.
LEMMA JoinEnds ==
    ASSUME IInv, Join
    PROVE  hits \in 0 .. Count /\ Ledger!End(hits)
<1>1. Pending = {} /\ Undoing = {}
  BY DEF Join, Finished, Pending, Undoing
<1>2. Granted = hits /\ Held = {}
  BY <1>1, FS_EmptySet DEF Granted, Held, IInv, TypeOK
<1>3. Shown = 1 .. hits /\ hits \in 0 .. Count
  BY <1>2, CpuSearchAssumption DEF IInv, HitAccounting, TypeOK
<1>4. /\ main # "returned" /\ main' = "returned" /\ result' = hits
      /\ emitted' = emitted
  BY DEF Join
<1>5. DOMAIN LedgerOf(emitted) = 1 .. hits
  BY <1>3 DEF Shown, LedgerOf
<1> QED BY <1>3, <1>4, <1>5 DEF Ledger!End

\* Every step adds one hit to the ledger, closes it, or leaves it as it is.
LEMMA LedgerStep == IInv /\ ClaimInv /\ [Next]_vars => [Ledger!LedgerNext]_(Ledger!ledgerVars)
<1> SUFFICES ASSUME IInv, ClaimInv, [Next]_vars
             PROVE  [Ledger!LedgerNext]_(Ledger!ledgerVars)
  OBVIOUS
<1>0. \A w \in Workers : pc[w] \notin {"done", "failed"} => main # "returned"
  BY DEF ClaimInv, Finished
<1>1. ASSUME NEW w \in Workers, Emit(w) PROVE Ledger!LedgerNext
  <2>1. local[w].n + 1 \in 1 .. Count /\ local[w].target \in Targets
    <3>1. local[w].target \in Targets
      BY <1>1 DEF IInv, TypeOK, TargetChosen, Emit, Local
    <3>2. local[w].n + 1 \in 1 .. Count
      BY <1>1, EmitShows DEF Ledger!Show
    <3> QED BY <3>1, <3>2
  <2>2. Ledger!Show(local[w].n + 1, local[w].target)
    BY <1>1, EmitShows
  <2> SUFFICES \E n \in 1 .. Count, t \in Targets : Ledger!Show(n, t)
    BY DEF Ledger!LedgerNext
  <2> QED BY <2>1, <2>2
<1>2. ASSUME Join PROVE Ledger!LedgerNext
  BY <1>2, JoinEnds DEF Ledger!LedgerNext
<1>3. ASSUME NEW w \in Workers,
             CheckStop(w) \/ Draw(w) \/ MatchHit(w) \/ MatchMiss(w)
      PROVE  UNCHANGED Ledger!ledgerVars
  <2>1. main # "returned" /\ main' = main /\ emitted' = emitted /\ result' = result
    BY <1>0, <1>3 DEF CheckStop, Draw, DrawFails, DrawUseless, DrawKey, MatchHit, MatchMiss
  <2> QED BY <2>1, LedgerStutter
<1>4. ASSUME NEW w \in Workers,
             \/ Claim(w) \/ ClaimLost(w) \/ CountHit(w) \/ UndoCount(w)
             \/ StopOverCount(w) \/ LockIo(w) \/ FinishStop(w) \/ FinishRefresh(w)
      PROVE  UNCHANGED Ledger!ledgerVars
  <2>1. main # "returned" /\ main' = main /\ emitted' = emitted /\ result' = result
    BY <1>0, <1>4 DEF Claim, ClaimLost, CountHit, UndoCount, StopOverCount, LockIo,
                      FinishStop, FinishRefresh
  <2> QED BY <2>1, LedgerStutter
<1>5. ASSUME WatchEnds PROVE UNCHANGED Ledger!ledgerVars
  BY <1>5, LedgerStutter DEF WatchEnds
<1>6. ASSUME Terminated \/ UNCHANGED vars PROVE UNCHANGED Ledger!ledgerVars
  <2>1. emitted' = emitted /\ main' = main /\ result' = result
    BY <1>6 DEF Terminated, vars
  <2> QED BY <2>1 DEF Ledger!ledgerVars
<1> QED
  BY <1>1, <1>2, <1>3, <1>4, <1>5, <1>6 DEF Next, Worker, RecordHit

\* The CPU search keeps the promise of HitLedger: hits are numbered without
\* gap or repetition within the budget, a retiring search shows each target at
\* most once, and run returns the number of hits shown.
THEOREM CpuSearchImplementsLedger == Spec => ImplementsLedger
<1>1. Init => ClaimInv
  BY DEF Init, ClaimInv, Holders
<1>2. Init => Ledger!LedgerInit
  <2> SUFFICES ASSUME Init PROVE Ledger!LedgerInit
    OBVIOUS
  <2>1. emitted = {} /\ main # "returned" /\ result = 0
    BY DEF Init
  <2> QED BY <2>1 DEF Ledger!LedgerInit, LedgerOf
<1> QED
  BY <1>1, <1>2, IInvAlways, ClaimStep, LedgerStep, PTL
  DEF Spec, ImplementsLedger, Ledger!LedgerSpec
-----------------------------------------------------------------------------
(***************************************************************************)
(* Usable hits.  What the match has established about its salt and target  *)
(* has to survive until the hit is shown, several steps later.             *)
(***************************************************************************)

\* Salt s of a key of kind k is one that the search asks for, and its address
\* matches target t.
UsableFor(k, s, t) ==
    /\ s \in Compliant[k]
    /\ t \in Matches[k][s]
    /\ CanonicalOnly => s = CanonicalPqSalt(k)

UsableInv ==
    /\ \A w \in Workers :
         /\ pc[w] = "match" /\ CanonicalOnly =>
              /\ HasCanonicalSalt(local[w].key)
              /\ local[w].salt = CanonicalPqSalt(local[w].key)
         /\ pc[w] \in {"claim", "count", "undo", "lock", "emit"} =>
              UsableFor(local[w].key, local[w].salt, local[w].target)
    /\ HitsAreUsable

\* The canonical salt is fixed when the key is drawn.
LEMMA DrawKeyUsable ==
    ASSUME NEW w \in Workers, NEW k \in Keys, TypeOK, UsableInv, DrawKey(w, k)
    PROVE  UsableInv'
<1>1. /\ pc' = [pc EXCEPT ![w] = "match"] /\ emitted' = emitted
      /\ CanonicalOnly => HasCanonicalSalt(k)
  BY DEF DrawKey, Goto
<1>2. /\ CanonicalOnly => local'[w].salt = CanonicalPqSalt(k)
      /\ local'[w].key = k
      /\ \A v \in Workers : v # w => local'[v] = local[v]
  BY DEF DrawKey, TypeOK, Idle
<1> QED BY <1>1, <1>2 DEF UsableInv, TypeOK, HitsAreUsable

\* A canonical salt is a byte already; a swept one is truncated before it is
\* checked, and it is the truncated one that the hit carries.
LEMMA MatchHitUsable ==
    ASSUME NEW w \in Workers, TypeOK, UsableInv, MatchHit(w)
    PROVE  UsableInv'
<1> DEFINE k == local[w].key
           s == SaltByte(local[w].salt)
           t == Matched(w)
<1>1. k \in Keys /\ local[w].salt \in Nat /\ s \in Salts
  BY SaltByteType DEF TypeOK, Local
<1>2. t \in Matches[k][s]
  <2>1. Matches[k][s] \in SUBSET Targets
    BY <1>1, PqAddressAssumption
  <2> QED BY <2>1, FirstMatchSpec DEF Matched, MatchHit, TypeOK
<1>3. CanonicalOnly => s = CanonicalPqSalt(k) /\ s \in Compliant[k]
  <2> SUFFICES ASSUME CanonicalOnly PROVE s = CanonicalPqSalt(k) /\ s \in Compliant[k]
    OBVIOUS
  <2>1. HasCanonicalSalt(k) /\ local[w].salt = CanonicalPqSalt(k)
    BY DEF UsableInv, MatchHit
  <2>2. CanonicalPqSalt(k) \in Compliant[k] /\ CanonicalPqSalt(k) \in Salts
    BY <1>1, <2>1, CanonicalPqSaltSpec
  <2>3. SaltByte(CanonicalPqSalt(k)) = CanonicalPqSalt(k)
    BY <2>2, SaltByteId
  <2> QED BY <2>1, <2>2, <2>3
<1>4. UsableFor(k, s, t)
  BY <1>2, <1>3 DEF UsableFor, MatchHit, Usable
<1>5. /\ pc' = [pc EXCEPT ![w] = "claim"] /\ emitted' = emitted
      /\ local'[w].key = k /\ local'[w].salt = s /\ local'[w].target = t
      /\ \A v \in Workers : v # w => local'[v] = local[v]
  BY DEF MatchHit, Goto, TypeOK, Local
<1> HIDE DEF k, s, t
<1> QED BY <1>4, <1>5 DEF UsableInv, TypeOK, HitsAreUsable

\* A hit is shown with a salt that the matcher accepted.
LEMMA EmitUsable ==
    ASSUME NEW w \in Workers, TypeOK, UsableInv, Emit(w)
    PROVE  UsableInv'
<1>1. /\ pc[w] = "emit" /\ pc' = [pc EXCEPT ![w] = "finish"] /\ local' = local
      /\ emitted' = emitted \cup {HitOf(w)}
  BY DEF Emit, Goto
<1>2. UsableFor(HitOf(w).key, HitOf(w).salt, HitOf(w).target)
  BY <1>1 DEF UsableInv, HitOf
<1>3. HitsAreUsable'
  BY <1>1, <1>2 DEF UsableInv, HitsAreUsable, UsableFor
<1> QED BY <1>1, <1>3 DEF UsableInv, TypeOK

\* No step lets a hit through that its user could not import.
LEMMA UsableStep == TypeOK /\ UsableInv /\ [Next]_vars => UsableInv'
<1> SUFFICES ASSUME TypeOK, UsableInv, [Next]_vars
             PROVE  UsableInv'
  OBVIOUS
<1> USE DEF TypeOK, UsableInv, HitsAreUsable, Goto, EndOfKey, shared
<1>1. ASSUME NEW w \in Workers, CheckStop(w) PROVE UsableInv'
  BY <1>1 DEF CheckStop
<1>2. ASSUME NEW w \in Workers, DrawFails(w) PROVE UsableInv'
  BY <1>2 DEF DrawFails
<1>3. ASSUME NEW w \in Workers, DrawUseless(w) PROVE UsableInv'
  BY <1>3 DEF DrawUseless
<1>4. ASSUME NEW w \in Workers, NEW k \in Keys, DrawKey(w, k)
      PROVE  UsableInv'
  BY <1>4, DrawKeyUsable
<1>5. ASSUME NEW w \in Workers, MatchHit(w) PROVE UsableInv'
  BY <1>5, MatchHitUsable
<1>6. ASSUME NEW w \in Workers, MatchMiss(w) PROVE UsableInv'
  BY <1>6 DEF MatchMiss
<1>7. ASSUME NEW w \in Workers, Claim(w) PROVE UsableInv'
  BY <1>7 DEF Claim
<1>8. ASSUME NEW w \in Workers, ClaimLost(w) PROVE UsableInv'
  BY <1>8 DEF ClaimLost
<1>9. ASSUME NEW w \in Workers, CountHit(w) PROVE UsableInv'
  <2>1. \A v \in Workers : /\ local'[v].key = local[v].key
                           /\ local'[v].salt = local[v].salt
                           /\ local'[v].target = local[v].target
    BY <1>9 DEF CountHit, Local
  <2> QED BY <1>9, <2>1 DEF CountHit
<1>10. ASSUME NEW w \in Workers, UndoCount(w) PROVE UsableInv'
  BY <1>10 DEF UndoCount
<1>11. ASSUME NEW w \in Workers, StopOverCount(w) PROVE UsableInv'
  BY <1>11 DEF StopOverCount
<1>12. ASSUME NEW w \in Workers, LockIo(w) PROVE UsableInv'
  BY <1>12 DEF LockIo
<1>13. ASSUME NEW w \in Workers, Emit(w) PROVE UsableInv'
  BY <1>13, EmitUsable
<1>14. ASSUME NEW w \in Workers, FinishStop(w) PROVE UsableInv'
  BY <1>14 DEF FinishStop
<1>15. ASSUME NEW w \in Workers, FinishRefresh(w) PROVE UsableInv'
  BY <1>15 DEF FinishRefresh
<1>16. ASSUME WatchEnds PROVE UsableInv'
  BY <1>16 DEF WatchEnds
<1>17. ASSUME Join PROVE UsableInv'
  BY <1>17 DEF Join
<1>18. CASE Terminated \/ UNCHANGED vars
  BY <1>18 DEF Terminated, vars
<1> QED
  BY <1>1, <1>2, <1>3, <1>4, <1>5, <1>6, <1>7, <1>8, <1>9, <1>10, <1>11, <1>12,
     <1>13, <1>14, <1>15, <1>16, <1>17, <1>18 DEF Next, Worker, Draw, RecordHit

\* Every hit shown is off-curve, matches its target and, in canonical-only
\* mode, has the salt that stock tooling picks (record_hit shows what worker
\* matched, whatever happens between the two).
THEOREM ShownHitsUsable == Spec => []HitsAreUsable
<1>1. Init => UsableInv
  BY DEF Init, UsableInv, HitsAreUsable
<1>2. UsableInv => HitsAreUsable
  BY DEF UsableInv
<1> QED BY <1>1, <1>2, UsableStep, TypeCorrect, PTL DEF Spec
-----------------------------------------------------------------------------
(***************************************************************************)
(* Why the search stops, and what has become of the retired targets.       *)
(***************************************************************************)

\* A step other than the fetch_add and the fetch_sub grants no number.
LEMMA GrantedFrame ==
    ASSUME IInv, [Next]_vars, ~(\E w \in Workers : CountHit(w) \/ UndoCount(w))
    PROVE  Granted' = Granted
<1> SUFFICES hits' = hits /\ Undoing' = Undoing
  BY DEF Granted
<1> USE DEF IInv, TypeOK, Goto, EndOfKey, shared, Undoing
<1>1. ASSUME NEW w \in Workers, CheckStop(w) PROVE hits' = hits /\ Undoing' = Undoing
  BY <1>1 DEF CheckStop
<1>2. ASSUME NEW w \in Workers, Draw(w) PROVE hits' = hits /\ Undoing' = Undoing
  BY <1>2 DEF Draw, DrawFails, DrawUseless, DrawKey
<1>3. ASSUME NEW w \in Workers, MatchHit(w) \/ MatchMiss(w)
      PROVE  hits' = hits /\ Undoing' = Undoing
  BY <1>3 DEF MatchHit, MatchMiss
<1>4. ASSUME NEW w \in Workers, Claim(w) \/ ClaimLost(w) \/ StopOverCount(w) \/ LockIo(w)
      PROVE  hits' = hits /\ Undoing' = Undoing
  BY <1>4 DEF Claim, ClaimLost, StopOverCount, LockIo
<1>5. ASSUME NEW w \in Workers, Emit(w) \/ FinishStop(w) \/ FinishRefresh(w)
      PROVE  hits' = hits /\ Undoing' = Undoing
  BY <1>5 DEF Emit, FinishStop, FinishRefresh
<1>6. CASE WatchEnds \/ Join \/ Terminated \/ UNCHANGED vars
  BY <1>6 DEF WatchEnds, Join, Terminated, vars
<1> QED BY <1>1, <1>2, <1>3, <1>4, <1>5, <1>6 DEF Next, Worker, RecordHit

\* A number that was granted stays granted, and a spent budget stays spent.
LEMMA GrantedGrows ==
    ASSUME IInv, [Next]_vars
    PROVE  /\ Granted' \in Nat /\ Granted' >= Granted
           /\ Granted = Count => Granted' = Count
<1>1. Granted \in Nat /\ Granted <= Count /\ TypeOK /\ HitAccounting
  BY GrantedType DEF IInv, HitAccounting
<1>2. ASSUME NEW w \in Workers, CountHit(w)
      PROVE  Granted' = Granted \/ Granted' = Granted + 1
  <2>1. hits < Count \/ hits >= Count
    BY <1>1, CpuSearchAssumption DEF TypeOK
  <2> QED BY <1>1, <1>2, <2>1, CountHitGrants, CountHitOver
<1>3. ASSUME NEW w \in Workers, UndoCount(w) PROVE Granted' = Granted
  BY <1>1, <1>3, UndoAccounts
<1>4. Granted' = Granted \/ Granted' = Granted + 1
  BY <1>2, <1>3, GrantedFrame
<1>5. Granted' <= Count
  BY AccountingStep DEF HitAccounting
<1> QED BY <1>1, <1>4, <1>5, CpuSearchAssumption

\* The flag of a target, once cleared, stays so; a worker that failed has failed.
LEMMA RetiredStays ==
    ASSUME TypeOK, [Next]_vars
    PROVE  /\ \A t \in Targets : ~active[t] => ~active'[t]
           /\ \A w \in Workers : pc[w] = "failed" => pc'[w] = "failed"
<1> USE DEF TypeOK, Goto, EndOfKey, shared
<1> DEFINE P == /\ \A t \in Targets : ~active[t] => ~active'[t]
                /\ \A w \in Workers : pc[w] = "failed" => pc'[w] = "failed"
<1>1. ASSUME NEW w \in Workers, Claim(w) PROVE P
  BY <1>1 DEF Claim, AfterClaim
<1>2. ASSUME NEW w \in Workers, CheckStop(w) \/ Draw(w) \/ MatchHit(w) \/ MatchMiss(w)
      PROVE  P
  BY <1>2 DEF CheckStop, Draw, DrawFails, DrawUseless, DrawKey, MatchHit, MatchMiss
<1>3. ASSUME NEW w \in Workers, ClaimLost(w) \/ CountHit(w) \/ UndoCount(w) \/ StopOverCount(w)
      PROVE  P
  BY <1>3 DEF ClaimLost, CountHit, UndoCount, StopOverCount
<1>4. ASSUME NEW w \in Workers, LockIo(w) \/ Emit(w) \/ FinishStop(w) \/ FinishRefresh(w)
      PROVE  P
  BY <1>4 DEF LockIo, Emit, FinishStop, FinishRefresh
<1>5. CASE WatchEnds \/ Join \/ Terminated \/ UNCHANGED vars
  BY <1>5 DEF WatchEnds, Join, Terminated, vars
<1> QED BY <1>1, <1>2, <1>3, <1>4, <1>5 DEF Next, Worker, RecordHit

\* A reason to stop does not go away.
LEMMA StopCauseStays ==
    ASSUME IInv, [Next]_vars, StopCause
    PROVE  StopCause'
<1>1. CASE Granted = Count
  BY <1>1, GrantedGrows DEF StopCause
<1>2. CASE ~AnyActive(active)
  BY <1>2, RetiredStays DEF StopCause, AnyActive, IInv
<1>3. CASE \E w \in Workers : pc[w] = "failed"
  BY <1>3, RetiredStays DEF StopCause, IInv
<1> QED BY <1>1, <1>2, <1>3 DEF StopCause

\* A worker that shows a hit number, or has shown it, knows that it is granted;
\* one that has given its number back knows that the budget is spent.
CauseInv ==
    /\ StopHasCause
    /\ \A w \in Workers : pc[w] = "halt" => Granted = Count
    /\ \A w \in Workers : pc[w] = "finish" => local[w].n + 1 <= Granted

\* A step that neither sets stop, nor brings a worker to "halt" or "finish".
LEMMA CauseFrame ==
    ASSUME IInv, CauseInv, [Next]_vars, stop' = stop,
           \A w \in Workers : pc'[w] \in {"halt", "finish"} =>
              pc'[w] = pc[w] /\ local'[w].n = local[w].n
    PROVE  CauseInv'
<1>1. StopHasCause'
  BY StopCauseStays DEF CauseInv, StopHasCause
<1>2. Granted \in Nat /\ \A w \in Workers : local[w].n \in Nat
  BY GrantedType DEF IInv, TypeOK, Local
<1> QED BY <1>1, <1>2, GrantedGrows DEF CauseInv

\* No step sets the stop flag, or ends a worker, without a cause.
LEMMA CauseStep == IInv /\ CauseInv /\ [Next]_vars => CauseInv'
<1> SUFFICES ASSUME IInv, CauseInv, [Next]_vars
             PROVE  CauseInv'
  OBVIOUS
<1>0. /\ TypeOK /\ HitAccounting /\ Granted \in Nat /\ Granted <= Count
      /\ \A w \in Workers : local[w].n \in Nat
  BY GrantedType DEF IInv, TypeOK, Local, HitAccounting
<1> USE DEF TypeOK, Goto, EndOfKey, shared
<1>1. ASSUME NEW w \in Workers, CheckStop(w) PROVE CauseInv'
  BY <1>0, <1>1, CauseFrame DEF CheckStop
<1>2. ASSUME NEW w \in Workers, DrawFails(w) PROVE CauseInv'
  <2>1. StopHasCause'
    BY <1>0, <1>2 DEF DrawFails, StopHasCause, StopCause
  <2>2. Granted' = Granted
    BY <1>0, <1>2, GrantedFrame DEF DrawFails, CountHit, UndoCount
  <2> QED BY <1>0, <1>2, <2>1, <2>2 DEF DrawFails, CauseInv
<1>3. ASSUME NEW w \in Workers, DrawUseless(w) PROVE CauseInv'
  BY <1>0, <1>3, CauseFrame DEF DrawUseless
<1>4. ASSUME NEW w \in Workers, NEW k \in Keys, DrawKey(w, k)
      PROVE  CauseInv'
  BY <1>0, <1>4, CauseFrame DEF DrawKey
<1>5. ASSUME NEW w \in Workers, MatchHit(w) PROVE CauseInv'
  BY <1>0, <1>5, CauseFrame DEF MatchHit
<1>6. ASSUME NEW w \in Workers, MatchMiss(w) PROVE CauseInv'
  BY <1>0, <1>6, CauseFrame DEF MatchMiss
<1>7. ASSUME NEW w \in Workers, Claim(w) PROVE CauseInv'
  BY <1>0, <1>7, CauseFrame DEF Claim
<1>8. ASSUME NEW w \in Workers, ClaimLost(w) PROVE CauseInv'
  BY <1>0, <1>8, CauseFrame DEF ClaimLost
<1>9. ASSUME NEW w \in Workers, CountHit(w) PROVE CauseInv'
  BY <1>0, <1>9, CauseFrame DEF CountHit
<1>10. ASSUME NEW w \in Workers, UndoCount(w) PROVE CauseInv'
  <2>1. Granted = Count /\ Granted' = Granted
    BY <1>0, <1>10, UndoAccounts
  <2>2. StopHasCause'
    BY <2>1 DEF StopHasCause, StopCause
  <2>3. pc' = [pc EXCEPT ![w] = "halt"] /\ local' = local
    BY <1>10 DEF UndoCount
  <2> QED BY <1>0, <2>1, <2>2, <2>3 DEF CauseInv
<1>11. ASSUME NEW w \in Workers, StopOverCount(w) PROVE CauseInv'
  <2>1. Granted' = Granted /\ Granted = Count
    BY <1>0, <1>11, GrantedFrame DEF StopOverCount, CountHit, UndoCount, CauseInv
  <2>2. StopHasCause'
    BY <2>1 DEF StopHasCause, StopCause
  <2> QED BY <1>0, <1>11, <2>1, <2>2 DEF StopOverCount, CauseInv
<1>12. ASSUME NEW w \in Workers, LockIo(w) PROVE CauseInv'
  BY <1>0, <1>12, CauseFrame DEF LockIo
<1>13. ASSUME NEW w \in Workers, Emit(w) PROVE CauseInv'
  <2>1. /\ w \in Pending /\ local' = local /\ stop' = stop
        /\ pc' = [pc EXCEPT ![w] = "finish"]
    BY <1>13 DEF Emit, Pending
  <2>2. local[w].n + 1 \in 1 .. Granted
    BY <1>0, <2>1 DEF Held, HitAccounting
  <2>3. Granted' \in Nat /\ Granted' >= Granted /\ (Granted = Count => Granted' = Count)
    BY GrantedGrows
  <2>4. StopHasCause'
    BY <2>1, StopCauseStays DEF CauseInv, StopHasCause
  <2> QED BY <1>0, <2>1, <2>2, <2>3, <2>4 DEF CauseInv
<1>14. ASSUME NEW w \in Workers, FinishStop(w) PROVE CauseInv'
  <2>1. Granted' = Granted
    BY <1>0, <1>14, GrantedFrame DEF FinishStop, CountHit, UndoCount
  <2>2. Granted = Count \/ ~AnyActive(active)
    BY <1>0, <1>14, CpuSearchAssumption DEF FinishStop, LastHit, CauseInv
  <2>3. StopHasCause'
    BY <1>14, <2>1, <2>2 DEF StopHasCause, StopCause, FinishStop
  <2> QED BY <1>0, <1>14, <2>1, <2>3 DEF FinishStop, CauseInv
<1>15. ASSUME NEW w \in Workers, FinishRefresh(w) PROVE CauseInv'
  BY <1>0, <1>15, CauseFrame DEF FinishRefresh
<1>16. ASSUME WatchEnds PROVE CauseInv'
  BY <1>0, <1>16, CauseFrame DEF WatchEnds
<1>17. ASSUME Join PROVE CauseInv'
  BY <1>0, <1>17, CauseFrame DEF Join
<1>18. CASE Terminated \/ UNCHANGED vars
  BY <1>0, <1>18, CauseFrame DEF Terminated, vars
<1> QED
  BY <1>1, <1>2, <1>3, <1>4, <1>5, <1>6, <1>7, <1>8, <1>9, <1>10, <1>11, <1>12,
     <1>13, <1>14, <1>15, <1>16, <1>17, <1>18 DEF Next, Worker, Draw, RecordHit

\* At first the stop flag is down and the workers are at work.
LEMMA CauseInit == Init => CauseInv
  BY DEF Init, CauseInv, StopHasCause

\* The stop flag is set only when the budget is granted, no target is left or
\* the generator failed a worker, whichever worker sets it and however late.
THEOREM StopsForCause == Spec => []StopHasCause
<1>1. CauseInv => StopHasCause
  BY DEF CauseInv
<1> QED BY <1>1, CauseInit, CauseStep, IInvAlways, PTL DEF Spec
-----------------------------------------------------------------------------
\* A target that was retired has been shown or is being recorded, unless the
\* budget is spent; a worker ends well only when it sees stop; and run returns
\* the counter as the last worker left it.
RetiredKnown ==
    \A t \in Targets : ~active[t] =>
        \/ Granted = Count
        \/ \E w \in Holders : local[w].target = t
        \/ \E e \in emitted : e.target = t

RetiredInv ==
    /\ RetiredKnown
    /\ \A w \in Workers : pc[w] = "done" => stop
    /\ main = "returned" => result = hits /\ \A w \in Workers : Finished(w)

\* A step that retires nothing and shows nothing, and after which every holder
\* of a target still holds it.
LEMMA RetiredFrame ==
    ASSUME IInv, RetiredKnown, [Next]_vars, active' = active, emitted' = emitted,
           \A w \in Holders : w \in Holders' /\ local'[w].target = local[w].target
    PROVE  RetiredKnown'
  BY GrantedGrows DEF RetiredKnown

\* A retired target is held by a worker or shown, unless the budget is used up.
LEMMA RetiredKnownStep == IInv /\ RetiredKnown /\ [Next]_vars => RetiredKnown'
<1> SUFFICES ASSUME IInv, RetiredKnown, [Next]_vars
             PROVE  RetiredKnown'
  OBVIOUS
<1>0. TypeOK /\ TargetChosen /\ HitAccounting
  BY DEF IInv
<1> USE DEF TypeOK, Goto, EndOfKey, shared, Holders
<1>1. ASSUME NEW w \in Workers, CheckStop(w) \/ Draw(w) \/ MatchHit(w) \/ MatchMiss(w)
      PROVE  RetiredKnown'
  <2>1. active' = active /\ emitted' = emitted
    BY <1>1 DEF CheckStop, Draw, DrawFails, DrawUseless, DrawKey, MatchHit, MatchMiss
  <2>2. ASSUME NEW v \in Holders PROVE v \in Holders' /\ local'[v] = local[v]
    BY <1>0, <1>1, <2>2 DEF CheckStop, Draw, DrawFails, DrawUseless, DrawKey, MatchHit, MatchMiss
  <2> QED BY <2>1, <2>2, RetiredFrame
<1>2. ASSUME NEW w \in Workers, Claim(w) PROVE RetiredKnown'
  <2>1. /\ active' = AfterClaim(active, local[w].target) /\ local[w].target \in Targets
        /\ local' = local /\ emitted' = emitted /\ pc' = [pc EXCEPT ![w] = "count"]
    BY <1>0, <1>2 DEF Claim, TargetChosen, Local
  <2>2. w \in Holders' /\ \A v \in Holders : v \in Holders'
    BY <1>0, <2>1
  <2>3. \A t \in Targets : ~active'[t] => ~active[t] \/ t = local[w].target
    BY <1>0, <2>1, AfterClaimSpec
  <2> HIDE DEF Holders
  <2> QED BY <2>1, <2>2, <2>3, GrantedGrows DEF RetiredKnown
<1>3. ASSUME NEW w \in Workers, CountHit(w) PROVE RetiredKnown'
  <2>1. CASE hits >= Count
    BY <1>0, <1>3, <2>1, CountHitOver DEF RetiredKnown
  <2>2. CASE hits < Count
    <3>1. active' = active /\ emitted' = emitted
      BY <1>3 DEF CountHit
    <3>2. ASSUME NEW v \in Holders
          PROVE  v \in Holders' /\ local'[v].target = local[v].target
      <4>1. ~(hits >= Count)
        BY <1>0, <2>2, CpuSearchAssumption
      <4>2. pc' = [pc EXCEPT ![w] = "lock"]
        BY <1>3, <4>1 DEF CountHit
      <4>3. local'[v].target = local[v].target
        BY <1>0, <1>3 DEF CountHit, Local
      <4> QED BY <1>0, <3>2, <4>2, <4>3
    <3> QED BY <3>1, <3>2, RetiredFrame
  <2> QED BY <1>0, <2>1, <2>2, CpuSearchAssumption
<1>4. ASSUME NEW w \in Workers, Emit(w) PROVE RetiredKnown'
  <2>1. /\ active' = active /\ local' = local /\ pc' = [pc EXCEPT ![w] = "finish"]
        /\ emitted' = emitted \cup {HitOf(w)} /\ HitOf(w).target = local[w].target
    BY <1>4 DEF Emit, HitOf
  <2>2. \A v \in Holders : v = w \/ v \in Holders'
    BY <1>0, <2>1
  <2> HIDE DEF Holders
  <2> QED BY <2>1, <2>2, GrantedGrows DEF RetiredKnown
<1>5. ASSUME NEW w \in Workers, ClaimLost(w) \/ UndoCount(w) \/ StopOverCount(w) \/ LockIo(w)
      PROVE  RetiredKnown'
  <2>1. active' = active /\ emitted' = emitted
    BY <1>5 DEF ClaimLost, UndoCount, StopOverCount, LockIo
  <2>2. ASSUME NEW v \in Holders PROVE v \in Holders' /\ local'[v] = local[v]
    BY <1>0, <1>5, <2>2 DEF ClaimLost, UndoCount, StopOverCount, LockIo
  <2> QED BY <2>1, <2>2, RetiredFrame
<1>6. ASSUME NEW w \in Workers, FinishStop(w) \/ FinishRefresh(w)
      PROVE  RetiredKnown'
  <2>1. active' = active /\ emitted' = emitted
    BY <1>6 DEF FinishStop, FinishRefresh
  <2>2. ASSUME NEW v \in Holders PROVE v \in Holders' /\ local'[v] = local[v]
    BY <1>0, <1>6, <2>2 DEF FinishStop, FinishRefresh
  <2> QED BY <2>1, <2>2, RetiredFrame
<1>7. CASE WatchEnds \/ Join \/ Terminated \/ UNCHANGED vars
  <2>1. active' = active /\ emitted' = emitted /\ local' = local /\ pc' = pc
    BY <1>7 DEF WatchEnds, Join, Terminated, vars
  <2> QED BY <2>1, RetiredFrame
<1> QED BY <1>1, <1>2, <1>3, <1>4, <1>5, <1>6, <1>7 DEF Next, Worker, RecordHit

\* No step makes a worker end, or run return, while that is in doubt.
LEMMA RetiredStep == IInv /\ RetiredInv /\ [Next]_vars => RetiredInv'
<1> SUFFICES ASSUME IInv, RetiredInv, [Next]_vars
             PROVE  RetiredInv'
  OBVIOUS
<1>0. RetiredKnown'
  BY RetiredKnownStep DEF RetiredInv
<1> USE DEF IInv, TypeOK, RetiredInv, Finished, Goto, EndOfKey, shared
<1> HIDE DEF RetiredKnown
<1>1. ASSUME NEW w \in Workers, CheckStop(w) PROVE RetiredInv'
  BY <1>0, <1>1 DEF CheckStop
<1>2. ASSUME NEW w \in Workers, Draw(w) PROVE RetiredInv'
  BY <1>0, <1>2 DEF Draw, DrawFails, DrawUseless, DrawKey
<1>3. ASSUME NEW w \in Workers, MatchHit(w) \/ MatchMiss(w) PROVE RetiredInv'
  BY <1>0, <1>3 DEF MatchHit, MatchMiss
<1>4. ASSUME NEW w \in Workers, Claim(w) \/ ClaimLost(w) PROVE RetiredInv'
  BY <1>0, <1>4 DEF Claim, ClaimLost
<1>5. ASSUME NEW w \in Workers, CountHit(w) \/ UndoCount(w) \/ StopOverCount(w)
      PROVE  RetiredInv'
  BY <1>0, <1>5 DEF CountHit, UndoCount, StopOverCount
<1>6. ASSUME NEW w \in Workers, LockIo(w) \/ Emit(w) PROVE RetiredInv'
  BY <1>0, <1>6 DEF LockIo, Emit
<1>7. ASSUME NEW w \in Workers, FinishStop(w) \/ FinishRefresh(w) PROVE RetiredInv'
  BY <1>0, <1>7 DEF FinishStop, FinishRefresh
<1>8. ASSUME WatchEnds \/ Join PROVE RetiredInv'
  BY <1>0, <1>8 DEF WatchEnds, Join
<1>9. CASE Terminated \/ UNCHANGED vars
  BY <1>0, <1>9 DEF Terminated, vars
<1> QED BY <1>1, <1>2, <1>3, <1>4, <1>5, <1>6, <1>7, <1>8, <1>9 DEF Next, Worker, RecordHit

\* At first no target is retired.
LEMMA RetiredInit == Init => RetiredInv
  BY DEF Init, RetiredInv, RetiredKnown, AllActive

\* When run has returned nobody holds a target any more, and a search that was
\* neither cut short by its budget nor failed was stopped for want of targets.
LEMMA ReturnedAccounts ==
    ASSUME IInv, CauseInv, RetiredInv
    PROVE  NoTargetLost
<1> SUFFICES ASSUME main = "returned"
             PROVE  /\ \A t \in Targets : ~active[t] =>
                          result = Count \/ \E e \in emitted : e.target = t
                    /\ (\A w \in Workers : pc[w] = "done") =>
                          result = Count \/ \A t \in Targets : \E e \in emitted : e.target = t
  BY DEF NoTargetLost
<1>1. result = hits /\ \A w \in Workers : Finished(w)
  BY DEF RetiredInv
<1>2. Holders = {} /\ Undoing = {}
  BY <1>1 DEF Holders, Undoing, Finished
<1>3. Granted = result
  BY <1>1, <1>2, FS_EmptySet DEF Granted, IInv, TypeOK
<1>4. ASSUME NEW t \in Targets, ~active[t]
      PROVE  result = Count \/ \E e \in emitted : e.target = t
  BY <1>2, <1>3, <1>4 DEF RetiredInv, RetiredKnown
<1>5. ASSUME \A w \in Workers : pc[w] = "done"
      PROVE  result = Count \/ \A t \in Targets : \E e \in emitted : e.target = t
  <2>1. stop
    BY <1>5, CpuSearchAssumption DEF RetiredInv
  <2>2. Granted = Count \/ \A t \in Targets : ~active[t]
    BY <1>5, <2>1 DEF CauseInv, StopHasCause, StopCause, AnyActive
  <2> QED BY <1>3, <1>4, <2>2
<1> QED BY <1>4, <1>5

\* No retired target is lost: when run returns each was shown, unless the
\* budget was spent; and a search that ended for no other reason found them all.
THEOREM TargetsAccountedFor == Spec => []NoTargetLost
  BY ReturnedAccounts, IInvAlways, CauseInit, CauseStep, RetiredInit, RetiredStep, PTL DEF Spec
=============================================================================
