------------------------------ MODULE CpuSearch ------------------------------
(***************************************************************************)
(* The CPU search for f1 addresses (crates/pq-vanity/src/search.rs): `run` *)
(* spawns the workers, watches `stop` and joins them; each worker draws an *)
(* entropy, derives a key, looks for a salt whose address matches a target *)
(* and records the hit.  Workers share the stop flag, the hit counter, one *)
(* active flag per target, the cached contributions of the entropy mix and *)
(* the mutex `io_lock`; every access to one of them is a step of its own.  *)
(*                                                                         *)
(* An entropy is represented by the two cached contributions mixed into    *)
(* it, each named by the refresh that produced it (0: the start-up probe). *)
(* The statistics counters, the text of a hit and a failed write of its    *)
(* file (which is only warned about) are left out.                         *)
(***************************************************************************)
EXTENDS PqAddress, FiniteSets

CONSTANTS Workers,        \* the worker threads
          Count,          \* --count
          MaxSalt,        \* --max-salt, when all salts are swept
          CanonicalOnly,  \* ~ --allow-non-canonical
          Progress,       \* ~ --quiet
          HasTpm          \* a TPM answered the start-up probe

ASSUME CpuSearchAssumption ==
    /\ Workers # {} /\ IsFiniteSet(Workers)
    /\ Keys # {}
    /\ Count \in Nat \ {0}
    /\ MaxSalt \in Nat
    /\ {CanonicalOnly, Progress, HasTpm} \subseteq BOOLEAN

VARIABLES stop,     \* Counters.stop
          hits,     \* Counters.hits
          active,   \* TargetSet.active
          cached,   \* EntropyMix.cached
          ioLock,   \* the workers inside io_lock's critical section
          pc,       \* pc[w]: the next step of worker w
          local,    \* local[w]: the locals of w's loop body and of record_hit
          main,     \* where `run` is
          result,   \* the value that `run` returned
          emitted   \* every hit written and printed so far

shared == <<stop, hits, active, cached, ioLock>>
vars == <<shared, pc, local, main, result, emitted>>

Cache == [jitter : Nat, tpm : Nat]

\* entropy (its cached contributions), kp, salt, t and n of the code.
Local == [draw : Cache, key : Keys, salt : Nat, target : Targets \cup {NoTarget}, n : Nat]

Idle == [draw |-> [jitter |-> 0, tpm |-> 0], key |-> CHOOSE k \in Keys : TRUE,
         salt |-> 0, target |-> NoTarget, n |-> 0]

Init == /\ stop = FALSE
        /\ hits = 0
        /\ active = AllActive
        /\ cached = [jitter |-> 0, tpm |-> 0]
        /\ ioLock = {}
        /\ pc = [w \in Workers |-> "loop"]
        /\ local = [w \in Workers |-> Idle]
        /\ main = IF Progress THEN "watch" ELSE "join"
        /\ result = 0
        /\ emitted = {}
-----------------------------------------------------------------------------
(***************************************************************************)
(* worker                                                                  *)
(***************************************************************************)

Goto(w, label) == pc' = [pc EXCEPT ![w] = label]

\* Back to the head of the loop: the locals of the body go out of scope.
EndOfKey(w) == /\ Goto(w, "loop")
               /\ local' = [local EXCEPT ![w] = Idle]

CheckStop(w) ==
    /\ pc[w] = "loop"
    /\ Goto(w, IF stop THEN "done" ELSE "draw")
    /\ UNCHANGED <<shared, local, main, result, emitted>>

\* Mutant of DrawFails: the worker gives up without stopping the others.
DrawFailsAlone(w) ==
    /\ pc[w] = "draw"
    /\ Goto(w, "failed")
    /\ UNCHANGED <<shared, local, main, result, emitted>>

\* mix.next() fails with the operating system's generator; the worker gives up.
DrawFails(w) ==
    /\ pc[w] = "draw"
    /\ stop' = TRUE
    /\ Goto(w, "failed")
    /\ UNCHANGED <<hits, active, cached, ioLock, local, main, result, emitted>>

\* mix.next() gives an entropy for which keygen fails, or a key without any
\* canonical salt in canonical-only mode: try another entropy.
DrawUseless(w) ==
    /\ pc[w] = "draw"
    /\ EndOfKey(w)
    /\ UNCHANGED <<shared, main, result, emitted>>

\* mix.next() gives an entropy that keygen turns into a key of kind k.
DrawKey(w, k) ==
    /\ pc[w] = "draw"
    /\ CanonicalOnly => HasCanonicalSalt(k)
    /\ Goto(w, "match")
    /\ local' = [local EXCEPT ![w] =
                   [Idle EXCEPT !.draw = cached, !.key = k,
                                !.salt = IF CanonicalOnly THEN CanonicalPqSalt(k) ELSE 0]]
    /\ UNCHANGED <<shared, main, result, emitted>>

Matched(w) == FirstMatch(active, Matches[local[w].key][SaltByte(local[w].salt)])

\* Mutant of Usable: a swept salt is not checked for compliance.
UsableUnchecked(w) == TRUE

Usable(w) == CanonicalOnly \/ SaltByte(local[w].salt) \in Compliant[local[w].key]

\* The address of the current salt is a hit for a target that is still active.
MatchHit(w) ==
    /\ pc[w] = "match"
    /\ Matched(w) # NoTarget
    /\ Usable(w)
    /\ Goto(w, "claim")
    /\ local' = [local EXCEPT ![w].target = Matched(w), ![w].salt = SaltByte(@)]
    /\ UNCHANGED <<shared, main, result, emitted>>

\* It is not: go on with the next salt of the sweep, or with the next key.
MatchMiss(w) ==
    /\ pc[w] = "match"
    /\ Matched(w) = NoTarget \/ ~Usable(w)
    /\ IF CanonicalOnly \/ local[w].salt >= MaxSalt
       THEN EndOfKey(w)
       ELSE /\ local' = [local EXCEPT ![w].salt = @ + 1]
            /\ UNCHANGED pc
    /\ UNCHANGED <<shared, main, result, emitted>>
-----------------------------------------------------------------------------
(***************************************************************************)
(* record_hit                                                              *)
(***************************************************************************)

Claim(w) ==
    /\ pc[w] = "claim"
    /\ ClaimGranted(active, local[w].target)
    /\ active' = AfterClaim(active, local[w].target)
    /\ Goto(w, "count")
    /\ UNCHANGED <<stop, hits, cached, ioLock, local, main, result, emitted>>

\* Another worker retired the target between the match and the claim.
ClaimLost(w) ==
    /\ pc[w] = "claim"
    /\ ~ClaimGranted(active, local[w].target)
    /\ EndOfKey(w)
    /\ UNCHANGED <<shared, main, result, emitted>>

\* Mutant of CountHit: the counter goes down.
CountHitDown(w) ==
    /\ pc[w] = "count"
    /\ hits' = hits - 1
    /\ local' = [local EXCEPT ![w].n = hits]
    /\ Goto(w, IF hits >= Count THEN "undo" ELSE "lock")
    /\ UNCHANGED <<stop, active, cached, ioLock, main, result, emitted>>

\* Mutant of CountHit: one hit too many is granted.
CountHitOneMore(w) ==
    /\ pc[w] = "count"
    /\ hits' = hits + 1
    /\ local' = [local EXCEPT ![w].n = hits]
    /\ Goto(w, IF hits > Count THEN "undo" ELSE "lock")
    /\ UNCHANGED <<stop, active, cached, ioLock, main, result, emitted>>

\* hits.fetch_add(1)
CountHit(w) ==
    /\ pc[w] = "count"
    /\ hits' = hits + 1
    /\ local' = [local EXCEPT ![w].n = hits]
    /\ Goto(w, IF hits >= Count THEN "undo" ELSE "lock")
    /\ UNCHANGED <<stop, active, cached, ioLock, main, result, emitted>>

\* Already enough: hits.fetch_sub(1), then stop.
UndoCount(w) ==
    /\ pc[w] = "undo"
    /\ hits' = hits - 1
    /\ Goto(w, "halt")
    /\ UNCHANGED <<stop, active, cached, ioLock, local, main, result, emitted>>

StopOverCount(w) ==
    /\ pc[w] = "halt"
    /\ stop' = TRUE
    /\ EndOfKey(w)
    /\ UNCHANGED <<hits, active, cached, ioLock, main, result, emitted>>

LockIo(w) ==
    /\ pc[w] = "lock"
    /\ ioLock = {}
    /\ ioLock' = {w}
    /\ Goto(w, "emit")
    /\ UNCHANGED <<stop, hits, active, cached, local, main, result, emitted>>

HitOf(w) == [number |-> local[w].n + 1, worker |-> w, target |-> local[w].target,
             key |-> local[w].key, salt |-> local[w].salt, draw |-> local[w].draw]

\* write_hit_record and print_hit
Emit(w) ==
    /\ pc[w] = "emit"
    /\ emitted' = emitted \cup {HitOf(w)}
    /\ Goto(w, "finish")
    /\ UNCHANGED <<shared, local, main, result>>

\* Mutant of LastHit: the budget is compared with the wrong number.
LastHitEarly(w) == local[w].n + 2 >= Count \/ ~AnyActive(active)

LastHit(w) == local[w].n + 1 >= Count \/ ~AnyActive(active)

\* Mutant of FinishStop: every hit stops the search.
FinishStopAlways(w) ==
    /\ pc[w] = "finish"
    /\ stop' = TRUE
    /\ ioLock' = ioLock \ {w}
    /\ EndOfKey(w)
    /\ UNCHANGED <<hits, active, cached, main, result, emitted>>

FinishStop(w) ==
    /\ pc[w] = "finish"
    /\ LastHit(w)
    /\ stop' = TRUE
    /\ ioLock' = ioLock \ {w}
    /\ EndOfKey(w)
    /\ UNCHANGED <<hits, active, cached, main, result, emitted>>

\* Mutant of Refreshed: a failed TPM read keeps the jitter as well.
RefreshedTogether(tpmRead) ==
    IF tpmRead THEN [jitter |-> cached.jitter + 1, tpm |-> cached.jitter + 1] ELSE cached

\* mix.refresh(): fresh jitter; fresh TPM bytes unless there is no TPM or its
\* read fails, which keeps the previous ones.
Refreshed(tpmRead) ==
    [jitter |-> cached.jitter + 1,
     tpm    |-> IF tpmRead THEN cached.jitter + 1 ELSE cached.tpm]

FinishRefresh(w) ==
    /\ pc[w] = "finish"
    /\ ~LastHit(w)
    /\ \E tpmRead \in {HasTpm, FALSE} : cached' = Refreshed(tpmRead)
    /\ ioLock' = ioLock \ {w}
    /\ EndOfKey(w)
    /\ UNCHANGED <<stop, hits, active, main, result, emitted>>
-----------------------------------------------------------------------------
(***************************************************************************)
(* run, on the main thread                                                 *)
(***************************************************************************)

Finished(w) == pc[w] \in {"done", "failed"}

\* The progress loop ends when it sees stop.
WatchEnds ==
    /\ main = "watch"
    /\ stop
    /\ main' = "join"
    /\ UNCHANGED <<shared, pc, local, result, emitted>>

Join ==
    /\ main = "join"
    /\ \A w \in Workers : Finished(w)
    /\ main' = "returned"
    /\ result' = hits
    /\ UNCHANGED <<shared, pc, local, emitted>>

\* The process is over: nothing more happens.
Terminated == main = "returned" /\ UNCHANGED vars
-----------------------------------------------------------------------------
Draw(w) == DrawFails(w) \/ DrawUseless(w) \/ \E k \in Keys : DrawKey(w, k)

RecordHit(w) == \/ Claim(w) \/ ClaimLost(w)
                \/ CountHit(w) \/ UndoCount(w) \/ StopOverCount(w)
                \/ LockIo(w) \/ Emit(w) \/ FinishStop(w) \/ FinishRefresh(w)

Worker(w) == CheckStop(w) \/ Draw(w) \/ MatchHit(w) \/ MatchMiss(w) \/ RecordHit(w)

Next == (\E w \in Workers : Worker(w)) \/ WatchEnds \/ Join \/ Terminated

Spec == Init /\ [][Next]_vars

\* The operating system runs every thread again and again.
Fairness == /\ \A w \in Workers : WF_vars(Worker(w))
            /\ WF_vars(WatchEnds \/ Join)

FairSpec == Spec /\ Fairness
-----------------------------------------------------------------------------
(***************************************************************************)
(* Properties                                                              *)
(***************************************************************************)

Labels == {"loop", "draw", "match", "claim", "count", "undo", "halt", "lock",
           "emit", "finish", "done", "failed"}

HitRecord == [number : Nat, worker : Workers, target : Targets,
              key : Keys, salt : Nat, draw : Cache]

\* Type invariant of the shared state, the locals and the record of hits.
TypeOK == /\ stop \in BOOLEAN
          /\ hits \in Nat
          /\ active \in [Targets -> BOOLEAN]
          /\ cached \in Cache
          /\ ioLock \in SUBSET Workers
          /\ pc \in [Workers -> Labels]
          /\ local \in [Workers -> Local]
          /\ main \in {"watch", "join", "returned"}
          /\ result \in Nat
          /\ emitted \in SUBSET HitRecord

\* Workers that hold a hit number which is not shown yet, and workers that
\* have taken a number beyond the budget and not given it back.
Pending == {w \in Workers : pc[w] \in {"lock", "emit"}}
Undoing == {w \in Workers : pc[w] = "undo"}

Shown == {e.number : e \in emitted}
Held  == {local[w].n + 1 : w \in Pending}

\* Numbers granted so far: the counter without the increments to be undone.
Granted == hits - Cardinality(Undoing)

\* Every hit number from 1 to Granted is either shown, once, or held, by one
\* worker; no number exceeds the budget, and the counter is over the budget
\* only when the budget is spent.  This is what the fetch_add, the comparison
\* with count and the fetch_sub of record_hit are for: whatever their
\* interleaving no number is skipped, repeated or handed out again after an
\* undo.
HitAccounting ==
    /\ Shown \cup Held = 1 .. Granted
    /\ Shown \cap Held = {}
    /\ \A e, f \in emitted : e.number = f.number => e = f
    /\ \A v, w \in Pending : local[v].n = local[w].n => v = w
    /\ Granted <= Count
    /\ Undoing # {} => Granted = Count

\* Two hits of one worker are never of the same refresh: record_hit refreshes the
\* mixer before its worker can draw again, or stops the search.  Their jitter
\* differs; their TPM bytes may be the same, if the read of the refresh failed.
\* (Hits of different workers may share both, see ConsecutiveHitsShareNothing.)
WorkerHitsShareNothing ==
    \A e, f \in emitted :
        e.worker = f.worker /\ e # f => e.draw.jitter # f.draw.jitter

\* entropy.rs, lines 17 to 19: the CPU search refreshes after each emitted hit
\* "so consecutive hits never share the cached contributions".
ConsecutiveHitsShareNothing ==
    \A e, f \in emitted :
        f.number = e.number + 1 => e.draw.jitter # f.draw.jitter

\* A retired target is never lost.  When run returns, each one was shown as a
\* hit, unless the budget was spent by others first; so a search that was not
\* cut short by its budget or by the system's generator has found every target.
NoTargetLost ==
    main = "returned" =>
        /\ \A t \in Targets : ~active[t] =>
              result = Count \/ \E e \in emitted : e.target = t
        /\ (\A w \in Workers : pc[w] = "done") =>
              result = Count \/ \A t \in Targets : \E e \in emitted : e.target = t

\* README.md, line 148: without --count the budget is "1, or one per target in
\* a multi-target search".  So a multi-target search that is given the default
\* budget, and that no failure cuts short, shows as many hits as targets.
DefaultIsOnePerTarget ==
    /\ main = "returned"
    /\ \A w \in Workers : pc[w] = "done"
    /\ Count = DefaultCount
    /\ NTargets > 1
    => Cardinality(emitted) = NTargets

\* Every hit shown is an address its user can use: off-curve, matching the
\* target it is reported for and, in canonical-only mode, the address that
\* stock tooling derives for the key.  The match, the claim and the print are
\* steps apart, and a swept salt is truncated to a byte on the way.
HitsAreUsable ==
    \A e \in emitted :
        /\ e.salt \in Compliant[e.key]
        /\ e.target \in Matches[e.key][e.salt]
        /\ CanonicalOnly => e.salt = CanonicalPqSalt(e.key)

\* The search is stopped for three reasons only: all hit numbers are granted,
\* no target is left, or the system's generator failed some worker.
StopCause == \/ Granted = Count
             \/ ~AnyActive(active)
             \/ \E w \in Workers : pc[w] = "failed"

StopHasCause == stop => StopCause

\* Once the budget is spent, the targets are used up or the generator failed
\* a worker, every worker ends and run returns: nobody is left waiting for
\* io_lock, for the stop flag or for a join.
SearchEnds == StopCause ~> main = "returned"

\* The promise of HitLedger, kept by the hits written and printed here.
Ledger == INSTANCE HitLedger
            WITH ledger <- LedgerOf(emitted),
                 ended  <- main = "returned",
                 total  <- result

ImplementsLedger == Ledger!LedgerSpec
=============================================================================
