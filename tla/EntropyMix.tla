------------------------------ MODULE EntropyMix ------------------------------
(***************************************************************************)
(* The entropy mixer shared by the search threads                          *)
(* (crates/pq-vanity/src/entropy.rs): `new` probes the TPM, `refresh`      *)
(* renews the cached contributions and `next` mixes them into an output.   *)
(* The device is behind a mutex and the cache behind a read-write lock;    *)
(* every exchange with the device and every access to the cache or to the  *)
(* counter is a step of its own.                                           *)
(*                                                                         *)
(* Jitter is named by the draw that produced it, and each TPM byte by the  *)
(* call of tpm2_get_random that read it (0: never read).  An output is the *)
(* cached part of its preimage and the counter; the contributions that are *)
(* fresh for each output or never change (getrandom, the CPU's generator,  *)
(* --extra-entropy), the hash, and a failure of getrandom, which leaves    *)
(* the mixer as it was, are left out.                                      *)
(***************************************************************************)
EXTENDS Naturals, FiniteSets, Sequences

CONSTANTS Threads,      \* the threads that share the mixer
          Size,         \* bytes of a contribution, 32 in the code
          MaxReply,     \* the longest reply of the device, in bytes
          CtrSpace,     \* values of the counter, 2^64 in the code
          MaxRefreshes, \* bound: calls of refresh, by all threads
          MaxCalls      \* bound: calls of next, by all threads

ASSUME EntropyMixAssumption ==
    /\ Threads # {}
    /\ {Size, MaxReply, CtrSpace} \subseteq Nat \ {0}
    /\ {MaxRefreshes, MaxCalls} \subseteq Nat

VARIABLES device,   \* the TPM: "unknown" before the probe, then "live" or "none"
          cached,   \* EntropyMix.cached
          ctr,      \* EntropyMix.ctr
          tpmLock,  \* the threads inside the device mutex's critical section
          writing,  \* the threads that hold the cache's lock for writing
          reading,  \* the threads that hold it for reading
          pc,       \* pc[w]: the next step of thread w
          local,    \* local[w]: the locals of w's calls
          draws,    \* jitter draws so far
          reads,    \* calls of tpm2_get_random so far
          earlier,  \* the contributions cached before
          own,      \* own[w]: w's refreshes so far, and those that read the TPM
          outputs   \* every output so far, in the order of the counter

locks == <<tpmLock, writing, reading>>
history == <<draws, reads, earlier, own>>
vars == <<device, cached, ctr, locks, pc, local, history, outputs>>

Bytes == [1 .. Size -> Nat]
Zeros == [i \in 1 .. Size |-> 0]

\* jitter, b and filled of refresh, the TPM bytes copied by next, and buf's
\* cached part; `read` is the number of the call of tpm2_get_random.
Local == [jitter : Nat, b : Bytes, filled : 0 .. Size, read : Nat,
          copied : Bytes, buf : [jitter : Nat, tpm : Bytes]]

Fresh == [jitter |-> 0, b |-> Zeros, filled |-> 0, read |-> 0,
          copied |-> Zeros, buf |-> [jitter |-> 0, tpm |-> Zeros]]

\* One thread makes the mixer; the others get it when it is made.
Init == /\ device = "unknown"
        /\ cached = [jitter |-> 0, tpm |-> Zeros]
        /\ ctr = 0
        /\ tpmLock = {} /\ writing = {} /\ reading = {}
        /\ \E maker \in Threads :
              pc = [w \in Threads |-> IF w = maker THEN "open" ELSE "wait"]
        /\ local = [w \in Threads |-> Fresh]
        /\ draws = 0
        /\ reads = 0
        /\ earlier = {}
        /\ own = [w \in Threads |-> [refreshes |-> 0, tpm |-> 0]]
        /\ outputs = <<>>

InNext == {"lockRead", "readTpm", "readJitter", "count"}

Goto(w, label) == pc' = [pc EXCEPT ![w] = label]
-----------------------------------------------------------------------------
(***************************************************************************)
(* tpm2_get_random                                                         *)
(***************************************************************************)

\* A call begins: nothing filled yet, in a buffer of zeros.
BeginRead(w) == /\ reads' = reads + 1
                /\ local' = [local EXCEPT ![w].b = Zeros, ![w].filled = 0,
                                          ![w].read = reads + 1]

\* Mutant of Taken: a reply longer than the rest of the buffer is not cut.
TakenAll(w, n) == n

\* Bytes used of a reply of n bytes: no more than are still wanted.
Taken(w, n) == IF n <= Size - local[w].filled THEN n ELSE Size - local[w].filled

Complete(w, n) == local[w].filled + Taken(w, n) = Size

Filled(w, n) ==
    [local EXCEPT ![w].b = [i \in 1 .. Size |->
                              IF i > local[w].filled /\ i <= local[w].filled + Taken(w, n)
                              THEN local[w].read ELSE local[w].b[i]],
                  ![w].filled = @ + Taken(w, n)]
-----------------------------------------------------------------------------
(***************************************************************************)
(* new                                                                     *)
(***************************************************************************)

\* The device opens; the probe goes straight into the first cached bytes.
Open(w) == /\ pc[w] = "open"
           /\ BeginRead(w)
           /\ Goto(w, "probe")
           /\ UNCHANGED <<device, cached, ctr, locks, draws, earlier, own, outputs>>

\* The mixer is made with the bytes read so far, even if the probe failed.
Made(state, bytes) ==
    /\ device' = state
    /\ draws' = draws + 1
    /\ cached' = [jitter |-> draws + 1, tpm |-> bytes]
    /\ local' = [w \in Threads |-> Fresh]
    /\ pc' = [w \in Threads |-> "idle"]

NoDevice(w) == /\ pc[w] = "open"
               /\ Made("none", Zeros)
               /\ UNCHANGED <<ctr, locks, reads, earlier, own, outputs>>

ProbeReply(w, n) == /\ pc[w] = "probe"
                    /\ IF Complete(w, n)
                       THEN Made("live", Filled(w, n)[w].b)
                       ELSE local' = Filled(w, n) /\ UNCHANGED <<device, cached, draws, pc>>
                    /\ UNCHANGED <<ctr, locks, reads, earlier, own, outputs>>

ProbeFails(w) == /\ pc[w] = "probe"
                 /\ Made("none", local[w].b)
                 /\ UNCHANGED <<ctr, locks, reads, earlier, own, outputs>>
-----------------------------------------------------------------------------
(***************************************************************************)
(* refresh                                                                 *)
(***************************************************************************)

\* jitter32() comes first, before any lock.
DrawJitter(w) ==
    /\ pc[w] = "idle"
    /\ draws <= MaxRefreshes
    /\ draws' = draws + 1
    /\ local' = [local EXCEPT ![w].jitter = draws + 1]
    /\ Goto(w, IF device = "live" THEN "lockTpm" ELSE "lockWrite")
    /\ UNCHANGED <<device, cached, ctr, locks, reads, earlier, own, outputs>>

LockTpm(w) ==
    /\ pc[w] = "lockTpm"
    /\ tpmLock = {}
    /\ tpmLock' = {w}
    /\ BeginRead(w)
    /\ Goto(w, "exchange")
    /\ UNCHANGED <<device, cached, ctr, writing, reading, draws, earlier, own, outputs>>

\* A reply of n bytes; the last one also releases the device.
Reply(w, n) ==
    /\ pc[w] = "exchange"
    /\ local' = Filled(w, n)
    /\ IF Complete(w, n)
       THEN tpmLock' = {} /\ Goto(w, "lockWrite")
       ELSE UNCHANGED <<tpmLock, pc>>
    /\ UNCHANGED <<device, cached, ctr, writing, reading, history, outputs>>

\* An error of the device or of a reply: the call fails, the device is released.
ReplyBad(w) ==
    /\ pc[w] = "exchange"
    /\ tpmLock' = {}
    /\ Goto(w, "lockWrite")
    /\ UNCHANGED <<device, cached, ctr, writing, reading, local, history, outputs>>

\* tpm_new is Some: the call filled its buffer.
TpmRead(w) == local[w].filled = Size

LockWrite(w) ==
    /\ pc[w] = "lockWrite"
    /\ writing = {} /\ reading = {}
    /\ writing' = {w}
    /\ Goto(w, "writeJitter")
    /\ UNCHANGED <<device, cached, ctr, tpmLock, reading, local, history, outputs>>

\* The write lock is released at the end of refresh, and its locals go.
EndRefresh(w) ==
    /\ writing' = {}
    /\ local' = [local EXCEPT ![w] = [Fresh EXCEPT !.buf = local[w].buf]]
    /\ Goto(w, "idle")
    /\ own' = [own EXCEPT ![w].refreshes = @ + 1,
                          ![w].tpm = IF TpmRead(w) THEN @ + 1 ELSE @]

\* Mutant of WriteJitter: a failed TPM read ends the refresh with nothing renewed.
WriteJitterIfRead(w) ==
    /\ pc[w] = "writeJitter"
    /\ IF TpmRead(w)
       THEN /\ cached' = [cached EXCEPT !.jitter = local[w].jitter]
            /\ earlier' = earlier \cup {cached}
            /\ Goto(w, "writeTpm")
            /\ UNCHANGED <<writing, local, own>>
       ELSE EndRefresh(w) /\ UNCHANGED <<cached, earlier>>
    /\ UNCHANGED <<device, ctr, tpmLock, reading, draws, reads, outputs>>

WriteJitter(w) ==
    /\ pc[w] = "writeJitter"
    /\ cached' = [cached EXCEPT !.jitter = local[w].jitter]
    /\ earlier' = earlier \cup {cached}
    /\ IF TpmRead(w)
       THEN Goto(w, "writeTpm") /\ UNCHANGED <<writing, local, own>>
       ELSE EndRefresh(w)
    /\ UNCHANGED <<device, ctr, tpmLock, reading, draws, reads, outputs>>

WriteTpm(w) ==
    /\ pc[w] = "writeTpm"
    /\ cached' = [cached EXCEPT !.tpm = local[w].b]
    /\ EndRefresh(w)
    /\ UNCHANGED <<device, ctr, tpmLock, reading, draws, reads, earlier, outputs>>
-----------------------------------------------------------------------------
(***************************************************************************)
(* next                                                                    *)
(***************************************************************************)

\* A call of next draws its fresh contributions.
CallNext(w) ==
    /\ pc[w] = "idle"
    /\ Len(outputs) + Cardinality({v \in Threads : pc[v] \in InNext}) < MaxCalls
    /\ Goto(w, "lockRead")
    /\ UNCHANGED <<device, cached, ctr, locks, local, history, outputs>>

\* Mutant of LockRead: the cache is read without its lock.
LockReadFree(w) ==
    /\ pc[w] = "lockRead"
    /\ reading' = reading \cup {w}
    /\ Goto(w, "readTpm")
    /\ UNCHANGED <<device, cached, ctr, tpmLock, writing, local, history, outputs>>

\* Mutant of LockRead: one lock for the device and the cache.
LockReadWithDevice(w) ==
    /\ pc[w] = "lockRead"
    /\ writing = {} /\ tpmLock = {}
    /\ reading' = reading \cup {w}
    /\ Goto(w, "readTpm")
    /\ UNCHANGED <<device, cached, ctr, tpmLock, writing, local, history, outputs>>

LockRead(w) ==
    /\ pc[w] = "lockRead"
    /\ writing = {}
    /\ reading' = reading \cup {w}
    /\ Goto(w, "readTpm")
    /\ UNCHANGED <<device, cached, ctr, tpmLock, writing, local, history, outputs>>

ReadTpm(w) ==
    /\ pc[w] = "readTpm"
    /\ local' = [local EXCEPT ![w].copied = cached.tpm]
    /\ Goto(w, "readJitter")
    /\ UNCHANGED <<device, cached, ctr, locks, history, outputs>>

\* The second copy completes the cached part of buf and ends the critical section.
ReadJitter(w) ==
    /\ pc[w] = "readJitter"
    /\ local' = [local EXCEPT ![w].buf = [jitter |-> cached.jitter, tpm |-> local[w].copied],
                              ![w].copied = Zeros]
    /\ reading' = reading \ {w}
    /\ Goto(w, "count")
    /\ UNCHANGED <<device, cached, ctr, tpmLock, writing, history, outputs>>

\* What next hashes (its cached part and the counter), with the caller and
\* the refreshes that it had made when it called.
Output(w) == [jitter |-> local[w].buf.jitter, tpm |-> local[w].buf.tpm, ctr |-> ctr,
              by |-> w, own |-> own[w]]

\* Mutant of Count: the number is read, and not taken.
CountNotTaken(w) ==
    /\ pc[w] = "count"
    /\ outputs' = Append(outputs, Output(w))
    /\ Goto(w, "idle")
    /\ UNCHANGED <<device, cached, ctr, locks, local, history>>

\* ctr.fetch_add(1)
Count(w) ==
    /\ pc[w] = "count"
    /\ outputs' = Append(outputs, Output(w))
    /\ ctr' = (ctr + 1) % CtrSpace
    /\ Goto(w, "idle")
    /\ UNCHANGED <<device, cached, locks, local, history>>
-----------------------------------------------------------------------------
\* Every call returned and the bounds are spent.
Rest == /\ \A w \in Threads : pc[w] = "idle"
        /\ draws > MaxRefreshes /\ Len(outputs) >= MaxCalls
        /\ UNCHANGED vars

DeviceAnswers(w) == \/ \E n \in 1 .. MaxReply : ProbeReply(w, n) \/ Reply(w, n)
                    \/ ProbeFails(w) \/ ReplyBad(w)

Proceed(w) == \/ Open(w) \/ NoDevice(w)
              \/ LockTpm(w) \/ LockWrite(w) \/ WriteJitter(w) \/ WriteTpm(w)
              \/ LockRead(w) \/ ReadTpm(w) \/ ReadJitter(w) \/ Count(w)

Next == \/ \E w \in Threads : \/ DeviceAnswers(w)
                              \/ Proceed(w)
                              \/ DrawJitter(w) \/ CallNext(w)
        \/ Rest

\* A thread inside a call goes on when it can.  Nothing is asked of the device,
\* which may never answer, nor of the callers.
Fairness == \A w \in Threads : WF_vars(Proceed(w))

Spec == Init /\ [][Next]_vars /\ Fairness
-----------------------------------------------------------------------------
Labels == InNext \cup {"open", "probe", "wait", "idle", "lockTpm", "exchange",
                       "lockWrite", "writeJitter", "writeTpm"}

OutputRecord == [jitter : Nat, tpm : Bytes, ctr : 0 .. CtrSpace - 1, by : Threads,
                 own : [refreshes : Nat, tpm : Nat]]

TypeOK == /\ device \in {"unknown", "live", "none"}
          /\ cached \in [jitter : Nat, tpm : Bytes]
          /\ ctr \in 0 .. CtrSpace - 1
          /\ {tpmLock, writing, reading} \subseteq SUBSET Threads
          /\ pc \in [Threads -> Labels]
          /\ local \in [Threads -> Local]
          /\ {draws, reads} \subseteq Nat
          /\ earlier \in SUBSET [jitter : Nat, tpm : Bytes]
          /\ own \in [Threads -> [refreshes : Nat, tpm : Nat]]
          /\ outputs \in Seq(OutputRecord)

\* "process-local counter ... monotonic (uniqueness)": within a period of the
\* counter no two outputs have the same preimage, even when every cached
\* contribution is stale.
OutputsDiffer ==
    \A i, j \in 1 .. Len(outputs) :
        i < j /\ j - i < CtrSpace =>
            LET o == outputs[i]  p == outputs[j]
            IN <<o.ctr, o.jitter, o.tpm>> # <<p.ctr, p.jitter, p.tpm>>

\* A thread that has refreshed never gets jitter again that it got before, and
\* none of the TPM bytes if its refresh read the TPM, whatever the other
\* threads refresh meanwhile and in whatever order the refreshes end.
OwnRefreshRenews ==
    \A i, j \in 1 .. Len(outputs) :
        LET o == outputs[i]  p == outputs[j]
        IN o.by = p.by =>
             /\ o.own.refreshes < p.own.refreshes => o.jitter # p.jitter
             /\ o.own.tpm < p.own.tpm => o.tpm # p.tpm

\* next is never held up by the device: a refresh talks to it before it locks
\* the cache, so a call of next returns even if the device never answers.
NextNeverWaitsForDevice ==
    \A w \in Threads : pc[w] \in InNext ~> pc[w] = "idle"
-----------------------------------------------------------------------------
\* The writer that has stored its jitter and not its TPM bytes yet.  The cache
\* counts as renewed from the first of the two stores: nobody can read between.
HalfWritten == {w \in Threads : pc[w] = "writeTpm"}

NotMade == [made |-> FALSE]

Cache == IF device = "unknown" THEN NotMade
         ELSE [jitter |-> cached.jitter,
               tpm |-> IF HalfWritten = {} THEN cached.tpm
                       ELSE local[CHOOSE w \in HalfWritten : TRUE].b]

Mix == INSTANCE AtomicMix
         WITH Nothing <- Fresh.buf,
              cache   <- Cache,
              held    <- [w \in Threads |-> local[w].buf]

\* The promise of AtomicMix: the two locks make a call of next, and a refresh,
\* act on the cached contributions as one step.
ImplementsAtomicMix == Mix!MixSpec
=============================================================================
