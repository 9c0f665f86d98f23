----------------------------- MODULE DeviceKernel -----------------------------
(***************************************************************************)
(* One batch on the device: the f1 kernel of cuda/pq_vanity.cu, whose      *)
(* threads look at one key each, and the ed25519 kernel of                 *)
(* cuda/ed25519_vanity.cu, whose threads look at several, with the host    *)
(* functions that launch them (pq_cuda_search, ed_cuda_search) and their   *)
(* wrappers in crates/pq-cuda/src/lib.rs.  The threads of a launch are     *)
(* blocks * block size; each works out its first item, derives its keys    *)
(* and reports those that match in slots of a buffer of max_hits, handed   *)
(* out by an atomic counter.                                               *)
(*                                                                         *)
(* A key is the value of the 8-byte counter spliced into its entropy;      *)
(* which of them match some target (at some salt of the sweep) is any set. *)
(* The counter of the slots and the number of blocks have the width of an  *)
(* unsigned int, and --items is any uint64_t: a batch may have more blocks *)
(* or more matches than an unsigned int, or its sign, can tell.  The       *)
(* arithmetic that derives the keys is left out.                           *)
(***************************************************************************)
EXTENDS Integers, FiniteSets, Sequences

CONSTANTS PerThread,  \* keys per thread: 1 for f1, ED_KEYS_PER_THREAD for ed25519
          Block,      \* the block sizes that PQ_GPU_BLOCK may ask for
          MaxItems,   \* bound: keys per batch
          MaxHits,    \* --max-hits
          CtrSpace,   \* values of the counter, 2^64 in the code
          SizeSpace,  \* values of a number of items, 2^64 in the code
          IntSpace,   \* values of an unsigned int, 2^32 in the code
          Junk        \* what a slot of the buffer holds before it is written

\* A batch has no two keys with the same counter, and --max-hits fits the c_int
\* that it is passed as.
ASSUME KernelAssumption ==
    /\ PerThread \subseteq Nat \ {0} /\ PerThread # {}
    /\ Block \subseteq Nat \ {0} /\ Block # {}
    /\ {MaxItems, MaxHits, CtrSpace, SizeSpace, IntSpace} \subseteq Nat
    /\ MaxItems <= CtrSpace /\ MaxItems < SizeSpace /\ CtrSpace > 0
    /\ MaxHits < IntSpace \div 2
    /\ Junk \notin Nat

Counters == 0 .. CtrSpace - 1

VARIABLES call,      \* the arguments of the call and the kernel's constants
          matching,  \* the keys that match a target
          host,      \* where the host function is
          pc,        \* pc[t]: the next step of device thread t
          item,      \* item[t]: the item of the batch that t looks at
          slot,      \* slot[t]: what t's atomicAdd returned
          hitCount,  \* *hit_count
          outHits,   \* the buffer of the device
          copied,    \* count, as the host read it and cut it
          answer     \* the hits given to the caller

device == <<pc, item, slot, hitCount, outHits>>
vars == <<call, matching, host, device, copied, answer>>

\* perThread and block are fixed when the kernel is compiled and launched.
Call == [start : Counters, items : 0 .. MaxItems, perThread : PerThread, block : Block]

\* Mutant of RoundUp: what does not fill a thread or a block is left out.
RoundUpFloor(a, b) == a \div b

\* The sum is one of 64 bits.
RoundUp(a, b) == ((a + b - 1) % SizeSpace) \div b

WorkThreads(c) == RoundUp(c.items, c.perThread)

\* At least one block is launched, even for an empty batch; the number of blocks
\* is cut to an unsigned int.
Blocks(c) == (IF WorkThreads(c) = 0 THEN 1 ELSE RoundUp(WorkThreads(c), c.block)) % IntSpace

\* (int) of an unsigned int.
SignedInt(n) == IF n < IntSpace \div 2 THEN n ELSE n - IntSpace

Launched == 0 .. Blocks(call) * call.block - 1

First(t) == t * call.perThread

\* The counter of item i: the start wraps.
Counter(i) == (call.start + i) % CtrSpace

Init == /\ call \in Call
        /\ matching \in SUBSET Counters
        /\ host = "setup"
        /\ pc = [t \in Launched |-> "start"]
        /\ item = [t \in Launched |-> 0]
        /\ slot = [t \in Launched |-> 0]
        /\ hitCount = 0
        /\ outHits = [s \in 0 .. MaxHits - 1 |-> Junk]
        /\ copied = 0
        /\ answer = <<>>
-----------------------------------------------------------------------------
(***************************************************************************)
(* The host                                                                *)
(***************************************************************************)

\* The buffers are allocated, the count is set to zero, the kernel is launched;
\* the runtime refuses a grid without blocks or with more than an int can count.
Launch == /\ host = "setup"
          /\ SignedInt(Blocks(call)) > 0
          /\ host' = "sync"
          /\ UNCHANGED <<call, matching, device, copied, answer>>

\* A call of the CUDA runtime fails, or the kernel is ended by a write outside of
\* its memory: the caller gets an error and no hit.
RuntimeFails == /\ host \in {"setup", "sync", "copy"}
                /\ host' = "failed"
                /\ UNCHANGED <<call, matching, device, copied, answer>>

\* Mutant of Cut: the count is not cut to the buffer.
CutNot(n) == n

\* The f1 host compares the count as a signed int, the ed25519 host does not.
Cut(n) == IF (IF call.perThread = 1 THEN SignedInt(n) ELSE n) > MaxHits THEN MaxHits ELSE n

\* cudaDeviceSynchronize waits for every thread; then the count is copied.
Synchronise == /\ host = "sync"
               /\ \A t \in Launched : pc[t] = "exit"
               /\ copied' = Cut(hitCount)
               /\ host' = "copy"
               /\ UNCHANGED <<call, matching, device, answer>>

\* The slots are copied and unpacked in their order; the runtime refuses to copy
\* more than the buffer, which a count that reads as negative would be.
CopyHits == /\ host = "copy"
            /\ copied <= MaxHits
            /\ answer' = [i \in 1 .. copied |-> outHits[i - 1]]
            /\ host' = "returned"
            /\ UNCHANGED <<call, matching, device, copied>>
-----------------------------------------------------------------------------
(***************************************************************************)
(* A device thread                                                         *)
(***************************************************************************)

Running(t) == host = "sync" /\ t \in Launched

Exit(t) == pc' = [pc EXCEPT ![t] = "exit"]

\* The threads of the last block beyond the batch have nothing to do.
StartIdle(t) == /\ Running(t) /\ pc[t] = "start"
                /\ First(t) >= call.items
                /\ Exit(t)
                /\ UNCHANGED <<call, matching, host, item, slot, hitCount, outHits, copied, answer>>

Start(t) == /\ Running(t) /\ pc[t] = "start"
            /\ First(t) < call.items
            /\ item' = [item EXCEPT ![t] = First(t)]
            /\ pc' = [pc EXCEPT ![t] = "match"]
            /\ UNCHANGED <<call, matching, host, slot, hitCount, outHits, copied, answer>>

\* Mutant of LastOf: a thread does not stop at the end of the batch.
LastOfThread(t) == item[t] + 1 = First(t) + call.perThread

\* The item is the last of its thread (nk of the ed25519 kernel).
LastOf(t) == item[t] + 1 = First(t) + call.perThread \/ item[t] + 1 = call.items

NextItem(t) == IF LastOf(t) THEN Exit(t) /\ UNCHANGED item
               ELSE /\ item' = [item EXCEPT ![t] = @ + 1]
                    /\ pc' = [pc EXCEPT ![t] = "match"]

NoMatch(t) == /\ Running(t) /\ pc[t] = "match"
              /\ Counter(item[t]) \notin matching
              /\ NextItem(t)
              /\ UNCHANGED <<call, matching, host, slot, hitCount, outHits, copied, answer>>

\* atomicAdd(hit_count, 1) of an unsigned int
TakeSlot(t) == /\ Running(t) /\ pc[t] = "match"
               /\ Counter(item[t]) \in matching
               /\ slot' = [slot EXCEPT ![t] = hitCount]
               /\ hitCount' = (hitCount + 1) % IntSpace
               /\ pc' = [pc EXCEPT ![t] = "write"]
               /\ UNCHANGED <<call, matching, host, item, outHits, copied, answer>>

\* A slot beyond the buffer is dropped.  It is compared as a signed int: one that
\* reads as negative is written far outside of the buffer, which leaves the
\* buffer as it is and may end the kernel (RuntimeFails).
WriteHit(t) == /\ Running(t) /\ pc[t] = "write"
               /\ outHits' = IF SignedInt(slot[t]) < MaxHits /\ slot[t] \in DOMAIN outHits
                             THEN [outHits EXCEPT ![slot[t]] = Counter(item[t])]
                             ELSE outHits
               /\ NextItem(t)
               /\ UNCHANGED <<call, matching, host, slot, hitCount, copied, answer>>

Thread(t) == StartIdle(t) \/ Start(t) \/ NoMatch(t) \/ TakeSlot(t) \/ WriteHit(t)

\* The batch is over for the host.
Done == host \in {"returned", "failed"} /\ UNCHANGED vars

Next == \/ Launch \/ RuntimeFails \/ Synchronise \/ CopyHits
        \/ \E t \in Launched : Thread(t)
        \/ Done

Spec == Init /\ [][Next]_vars
-----------------------------------------------------------------------------
SlotValue == Counters \cup {Junk}

\* A count that the buffer can hold or, for f1 alone, that reads as negative.
FitsBuffer(n) == n <= MaxHits \/ (call.perThread = 1 /\ SignedInt(n) < 0)

TypeOK == /\ call \in Call
          /\ matching \in SUBSET Counters
          /\ host \in {"setup", "sync", "copy", "returned", "failed"}
          /\ pc \in [Launched -> {"start", "match", "write", "exit"}]
          /\ item \in [Launched -> Nat]
          /\ slot \in [Launched -> 0 .. IntSpace - 1]
          /\ hitCount \in 0 .. IntSpace - 1
          /\ outHits \in [0 .. MaxHits - 1 -> SlotValue]
          /\ copied \in 0 .. IntSpace - 1 /\ FitsBuffer(copied)
          /\ answer \in Seq(SlotValue)

\* The items of the batch that match, and their keys.
Items == 0 .. call.items - 1

Matches == {i \in Items : Counter(i) \in matching}

BatchHits == {Counter(i) : i \in Matches}

\* The counter of the slots has room for every match of the batch.
MatchesFit == Cardinality(Matches) < IntSpace

\* The launch has a thread for every item: its blocks fit an unsigned int, and no
\* sum on the way to them exceeds 64 bits.
LaunchFits == /\ call.items <= (IntSpace - 1) * (call.block * call.perThread)
              /\ call.items + call.perThread <= SizeSpace
              /\ call.items + call.block <= SizeSpace

Writers(s) == {t \in Launched : pc[t] = "write" /\ slot[t] = s}

\* Unless the counter wraps, whatever the order of the threads, each slot of the
\* buffer that it has passed belongs to one key: it holds it, or one thread is
\* about to write it there; the slots beyond are untouched.  No key has two slots.
SlotsAccounted ==
    /\ MatchesFit =>
          \A s \in 0 .. MaxHits - 1 :
             \/ s < hitCount /\ outHits[s] \in BatchHits /\ Writers(s) = {}
             \/ s < hitCount /\ outHits[s] = Junk /\ \E t \in Launched : Writers(s) = {t}
             \/ s >= hitCount /\ outHits[s] = Junk /\ Writers(s) = {}
    /\ \A r, s \in 0 .. MaxHits - 1 : outHits[r] = outHits[s] => r = s \/ outHits[r] = Junk

\* Whatever the size of the batch, the caller gets different matching keys of it,
\* and no slot that was not written, even where the counter of the slots wraps or
\* reads as negative.  They are all the matching keys, or max_hits of them, unless
\* the blocks or the matches exceed an unsigned int: no item is skipped where the
\* batch does not fill its last thread or block or where its counter wraps.
AnswerIsExact ==
    host = "returned" =>
        LET reported == {answer[i] : i \in DOMAIN answer}
        IN /\ reported \subseteq BatchHits
           /\ Cardinality(reported) = Len(answer)
           /\ LaunchFits /\ MatchesFit => reported = BatchHits \/ Len(answer) = MaxHits
=============================================================================
