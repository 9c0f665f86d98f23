---------------------------- MODULE ClassicSearch ----------------------------
(***************************************************************************)
(* The CPU search for classic Ed25519 addresses                            *)
(* (crates/pq-vanity/src/classic.rs).  A worker draws one base from the    *)
(* entropy mix and scans a run of CpuRun consecutive seeds of it; it adds  *)
(* the keys it has derived to the shared counter, and looks at the stop    *)
(* flag, once per Poll keys.  A hit ends the run.                          *)
(*                                                                         *)
(* A base is represented by its place in the order of all draws and by the *)
(* number of refreshes of the cached contributions mixed into it; a seed   *)
(* by its base and its index in the run, an address by the targets that it *)
(* matches.                                                                *)
(***************************************************************************)
EXTENDS TargetSet, FiniteSets

CONSTANTS Workers,   \* the worker threads
          Count,     \* --count
          CpuRun,    \* CPU_RUN, 2^15
          Poll,      \* keys between two looks at the stop flag, 1024
          Overlap,   \* the sets of targets that one address can match
          BaseBound  \* bound on the number of bases drawn (not in the code)

ASSUME ClassicSearchAssumption ==
    /\ Workers # {} /\ IsFiniteSet(Workers)
    /\ {Count, CpuRun, Poll} \subseteq Nat \ {0}
    /\ Overlap \subseteq SUBSET Targets
    /\ BaseBound \in Nat

VARIABLES stop,     \* Shared.stop
          hits,     \* Shared.hits
          keys,     \* Shared.keys
          active,   \* TargetSet.active
          cached,   \* number of refreshes of the mix's cached contributions
          bases,    \* number of bases drawn
          ioLock,   \* the workers inside io_lock's critical section
          pc,       \* pc[w]: the next step of worker w
          local,    \* local[w]: the locals of the run, and of record_cpu_hit
          main,     \* where cmd_search is
          result,   \* the number of hits that it reports at the end
          emitted,  \* every hit written and printed so far
          derived,  \* number of keys derived by all workers
          late      \* late[w]: number of keys w derived since stop was set

shared == <<stop, hits, keys, active, cached, bases, ioLock>>
history == <<derived, late>>
vars == <<shared, pc, local, main, result, emitted, history>>

\* base, i, done, t and n of the code.
Local == [base : Nat, draw : Nat, index : Nat, done : Nat,
          target : Targets \cup {NoTarget}, n : Nat]

Idle == [base |-> 0, draw |-> 0, index |-> 0, done |-> 0, target |-> NoTarget, n |-> 0]

Init == /\ stop = FALSE
        /\ hits = 0
        /\ keys = 0
        /\ active = AllActive
        /\ cached = 0
        /\ bases = 0
        /\ ioLock = {}
        /\ pc = [w \in Workers |-> "runs"]
        /\ local = [w \in Workers |-> Idle]
        /\ main = "watch"
        /\ result = 0
        /\ emitted = {}
        /\ derived = 0
        /\ late = [w \in Workers |-> 0]
-----------------------------------------------------------------------------
(***************************************************************************)
(* cpu_worker                                                              *)
(***************************************************************************)

Goto(w, label) == pc' = [pc EXCEPT ![w] = label]

\* continue 'runs
NextRun(w) == /\ Goto(w, "runs")
              /\ local' = [local EXCEPT ![w] = Idle]

CheckStop(w) ==
    /\ pc[w] = "runs"
    /\ Goto(w, IF stop THEN "done" ELSE "draw")
    /\ UNCHANGED <<shared, local, main, result, emitted, history>>

DrawFails(w) ==
    /\ pc[w] = "draw"
    /\ stop' = TRUE
    /\ Goto(w, "failed")
    /\ UNCHANGED <<hits, keys, active, cached, bases, ioLock, local, main, result,
                   emitted, history>>

DrawBase(w) ==
    /\ pc[w] = "draw"
    /\ bases < BaseBound
    /\ bases' = bases + 1
    /\ local' = [local EXCEPT ![w] = [Idle EXCEPT !.base = bases', !.draw = cached]]
    /\ Goto(w, "scan")
    /\ UNCHANGED <<stop, hits, keys, active, cached, ioLock, main, result, emitted,
                   history>>

\* Derive the key of the next seed of the run; done += 1.
Derive(w) == /\ derived' = derived + 1
             /\ late' = [late EXCEPT ![w] = IF stop THEN @ + 1 ELSE @]

\* Mutant of ScanHit: the keys since the last report are forgotten.
ScanHitForgets(w, m) ==
    /\ pc[w] = "scan"
    /\ local[w].index < CpuRun
    /\ FirstMatch(active, m) # NoTarget
    /\ Derive(w)
    /\ keys' = keys + 1
    /\ local' = [local EXCEPT ![w].target = FirstMatch(active, m), ![w].done = 0]
    /\ Goto(w, "claim")
    /\ UNCHANGED <<stop, hits, active, cached, bases, ioLock, main, result, emitted>>

\* Its address matches the targets in m, one of them still active.
ScanHit(w, m) ==
    /\ pc[w] = "scan"
    /\ local[w].index < CpuRun
    /\ FirstMatch(active, m) # NoTarget
    /\ Derive(w)
    /\ keys' = keys + local[w].done + 1
    /\ local' = [local EXCEPT ![w].target = FirstMatch(active, m), ![w].done = 0]
    /\ Goto(w, "claim")
    /\ UNCHANGED <<stop, hits, active, cached, bases, ioLock, main, result, emitted>>

\* No active target matches; fewer than Poll keys since the last look at stop.
ScanMiss(w) ==
    /\ pc[w] = "scan"
    /\ local[w].index < CpuRun
    /\ local[w].done + 1 # Poll
    /\ Derive(w)
    /\ local' = [local EXCEPT ![w].index = @ + 1, ![w].done = @ + 1]
    /\ UNCHANGED <<shared, pc, main, result, emitted>>

\* No active target matches; report the last Poll keys, then look at stop.
ScanPoll(w) ==
    /\ pc[w] = "scan"
    /\ local[w].index < CpuRun
    /\ local[w].done + 1 = Poll
    /\ Derive(w)
    /\ keys' = keys + Poll
    /\ local' = [local EXCEPT ![w].index = @ + 1, ![w].done = 0]
    /\ Goto(w, "poll")
    /\ UNCHANGED <<stop, hits, active, cached, bases, ioLock, main, result, emitted>>

\* Mutant of CheckPoll: stop is not looked at within a run.
CheckPollNever(w) ==
    /\ pc[w] = "poll"
    /\ Goto(w, "scan")
    /\ UNCHANGED <<shared, local, main, result, emitted, history>>

CheckPoll(w) ==
    /\ pc[w] = "poll"
    /\ Goto(w, IF stop THEN "done" ELSE "scan")
    /\ UNCHANGED <<shared, local, main, result, emitted, history>>

\* The run is exhausted.
RunEnds(w) ==
    /\ pc[w] = "scan"
    /\ local[w].index = CpuRun
    /\ keys' = keys + local[w].done
    /\ NextRun(w)
    /\ UNCHANGED <<stop, hits, active, cached, bases, ioLock, main, result, emitted,
                   history>>
-----------------------------------------------------------------------------
(***************************************************************************)
(* record_cpu_hit                                                          *)
(***************************************************************************)

Claim(w) ==
    /\ pc[w] = "claim"
    /\ ClaimGranted(active, local[w].target)
    /\ active' = AfterClaim(active, local[w].target)
    /\ Goto(w, "count")
    /\ UNCHANGED <<stop, hits, keys, cached, bases, ioLock, local, main, result,
                   emitted, history>>

ClaimLost(w) ==
    /\ pc[w] = "claim"
    /\ ~ClaimGranted(active, local[w].target)
    /\ NextRun(w)
    /\ UNCHANGED <<shared, main, result, emitted, history>>

\* Mutant of CountHit: the counter goes down.
CountHitDown(w) ==
    /\ pc[w] = "count"
    /\ hits' = hits - 1
    /\ local' = [local EXCEPT ![w].n = hits]
    /\ Goto(w, IF hits >= Count THEN "undo" ELSE "lock")
    /\ UNCHANGED <<stop, keys, active, cached, bases, ioLock, main, result, emitted,
                   history>>

\* Mutant of CountHit: one hit too many is granted.
CountHitOneMore(w) ==
    /\ pc[w] = "count"
    /\ hits' = hits + 1
    /\ local' = [local EXCEPT ![w].n = hits]
    /\ Goto(w, IF hits > Count THEN "undo" ELSE "lock")
    /\ UNCHANGED <<stop, keys, active, cached, bases, ioLock, main, result, emitted,
                   history>>

\* hits.fetch_add(1)
CountHit(w) ==
    /\ pc[w] = "count"
    /\ hits' = hits + 1
    /\ local' = [local EXCEPT ![w].n = hits]
    /\ Goto(w, IF hits >= Count THEN "undo" ELSE "lock")
    /\ UNCHANGED <<stop, keys, active, cached, bases, ioLock, main, result, emitted,
                   history>>

\* hits.fetch_sub(1)
UndoCount(w) ==
    /\ pc[w] = "undo"
    /\ hits' = hits - 1
    /\ Goto(w, "halt")
    /\ UNCHANGED <<stop, keys, active, cached, bases, ioLock, local, main, result,
                   emitted, history>>

StopOverCount(w) ==
    /\ pc[w] = "halt"
    /\ stop' = TRUE
    /\ NextRun(w)
    /\ UNCHANGED <<hits, keys, active, cached, bases, ioLock, main, result, emitted,
                   history>>

LockIo(w) ==
    /\ pc[w] = "lock"
    /\ ioLock = {}
    /\ ioLock' = {w}
    /\ Goto(w, "emit")
    /\ UNCHANGED <<stop, hits, keys, active, cached, bases, local, main, result,
                   emitted, history>>

HitOf(w) == [number |-> local[w].n + 1, worker |-> w, target |-> local[w].target,
             base |-> local[w].base, index |-> local[w].index, draw |-> local[w].draw]

\* write_hit_record and print_hit
Emit(w) ==
    /\ pc[w] = "emit"
    /\ emitted' = emitted \cup {HitOf(w)}
    /\ Goto(w, "finish")
    /\ UNCHANGED <<shared, local, main, result, history>>

LastHit(w) == local[w].n + 1 >= Count \/ ~AnyActive(active)

FinishStop(w) ==
    /\ pc[w] = "finish"
    /\ LastHit(w)
    /\ stop' = TRUE
    /\ ioLock' = ioLock \ {w}
    /\ NextRun(w)
    /\ UNCHANGED <<hits, keys, active, cached, bases, main, result, emitted, history>>

\* Mutant of FinishRefresh: the worker goes on with the run of the hit.
FinishRefreshSameRun(w) ==
    /\ pc[w] = "finish"
    /\ ~LastHit(w)
    /\ cached' = cached + 1
    /\ ioLock' = ioLock \ {w}
    /\ Goto(w, "scan")
    /\ local' = [local EXCEPT ![w].index = @ + 1]
    /\ UNCHANGED <<stop, hits, keys, active, bases, main, result, emitted, history>>

\* Mutant of FinishRefresh: the mix is not refreshed.
FinishNoRefresh(w) ==
    /\ pc[w] = "finish"
    /\ ~LastHit(w)
    /\ ioLock' = ioLock \ {w}
    /\ NextRun(w)
    /\ UNCHANGED <<stop, hits, keys, active, cached, bases, main, result, emitted, history>>

FinishRefresh(w) ==
    /\ pc[w] = "finish"
    /\ ~LastHit(w)
    /\ cached' = cached + 1
    /\ ioLock' = ioLock \ {w}
    /\ NextRun(w)
    /\ UNCHANGED <<stop, hits, keys, active, bases, main, result, emitted, history>>
-----------------------------------------------------------------------------
(***************************************************************************)
(* cmd_search, on the main thread                                          *)
(***************************************************************************)

Finished(w) == pc[w] \in {"done", "failed"}

\* The loop that sleeps and reports, quiet or not, ends when it sees stop.
WatchEnds ==
    /\ main = "watch"
    /\ stop
    /\ main' = "join"
    /\ UNCHANGED <<shared, pc, local, result, emitted, history>>

Join ==
    /\ main = "join"
    /\ \A w \in Workers : Finished(w)
    /\ main' = "returned"
    /\ result' = hits
    /\ UNCHANGED <<shared, pc, local, emitted, history>>

Terminated == main = "returned" /\ UNCHANGED vars
-----------------------------------------------------------------------------
Scan(w) == \/ \E m \in Overlap : ScanHit(w, m)
           \/ ScanMiss(w) \/ ScanPoll(w) \/ CheckPoll(w) \/ RunEnds(w)

RecordHit(w) == \/ Claim(w) \/ ClaimLost(w)
                \/ CountHit(w) \/ UndoCount(w) \/ StopOverCount(w)
                \/ LockIo(w) \/ Emit(w) \/ FinishStop(w) \/ FinishRefresh(w)

Worker(w) == CheckStop(w) \/ DrawFails(w) \/ DrawBase(w) \/ Scan(w) \/ RecordHit(w)

Next == (\E w \in Workers : Worker(w)) \/ WatchEnds \/ Join \/ Terminated

Spec == Init /\ [][Next]_vars
-----------------------------------------------------------------------------
(***************************************************************************)
(* Properties                                                              *)
(***************************************************************************)

Labels == {"runs", "draw", "scan", "poll", "claim", "count", "undo", "halt",
           "lock", "emit", "finish", "done", "failed"}

HitRecord == [number : Nat, worker : Workers, target : Targets,
              base : Nat, index : Nat, draw : Nat]

\* Type invariant of the shared state, the locals and the record of hits.
TypeOK == /\ stop \in BOOLEAN
          /\ {hits, keys, cached, bases, result, derived} \subseteq Nat
          /\ active \in [Targets -> BOOLEAN]
          /\ ioLock \in SUBSET Workers
          /\ pc \in [Workers -> Labels]
          /\ local \in [Workers -> Local]
          /\ main \in {"watch", "join", "returned"}
          /\ emitted \in SUBSET HitRecord
          /\ late \in [Workers -> Nat]

\* At most one key of a run is shown, so keys shown never share base entropy:
\* what the jump to the next run after a hit, taken or lost, is for.
OneKeyPerBase == \A e, f \in emitted : e.base = f.base => e = f

\* The keys derived and not reported: the last `done` ones of each worker.
Unreported == {k \in Workers \X (1 .. Poll) : k[2] <= local[k[1]].done}

\* The shared counter lags behind the keys derived by exactly what the workers
\* have not reported yet, and by nothing once the search has returned: no
\* exit from a run forgets its last keys or reports them twice.
KeysExact == keys + Cardinality(Unreported) = derived

\* A worker derives at most Poll more keys once stop is set, wherever in its
\* run it is when that happens.
StopIsPrompt == \A w \in Workers : late[w] <= Poll

\* Two hits of one worker are never of the same refresh of the mixer (so that
\* their jitter differs, if not their TPM bytes).
WorkerHitsShareNothing ==
    \A e, f \in emitted : e.worker = f.worker /\ e # f => e.draw # f.draw

\* The promise of HitLedger, kept by the hits written and printed here.
Ledger == INSTANCE HitLedger
            WITH ledger <- LedgerOf(emitted),
                 ended  <- main = "returned",
                 total  <- result

ImplementsLedger == Ledger!LedgerSpec
=============================================================================
