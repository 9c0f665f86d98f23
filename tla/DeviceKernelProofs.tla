-------------------------- MODULE DeviceKernelProofs --------------------------
(***************************************************************************)
(* Theorems about DeviceKernel, for every size of batch, number of keys    *)
(* per thread and block size, and every width of the counters: a batch may *)
(* have more items, blocks and matches than an unsigned int can count.     *)
(* Only the length of the buffer fits a signed int.                        *)
(***************************************************************************)
EXTENDS DeviceKernel, FiniteSetTheorems, TLAPS

-----------------------------------------------------------------------------
(***************************************************************************)
(* The arithmetic of the launch and of the counter.                        *)
(***************************************************************************)

\* Enough of them to cover a, and no more than a: work threads and blocks.
LEMMA RoundUpSpec ==
    ASSUME NEW a \in Nat, NEW b \in Nat \ {0}, a + b <= SizeSpace
    PROVE  /\ RoundUp(a, b) \in Nat
           /\ a <= RoundUp(a, b) * b /\ RoundUp(a, b) <= a
           /\ RoundUp(a, b) * b < a + b
<1> DEFINE x == a + b - 1
           q == x \div b
<1>1. x \in Nat /\ SizeSpace \in Nat /\ x < SizeSpace
  BY KernelAssumption
<1>2. RoundUp(a, b) = q
  <2>1. \A y \in Nat, n \in Nat : y < n => y % n = y
    BY SMT
  <2>2. x % SizeSpace = x
    <3> HIDE DEF x
    <3> QED BY <1>1, <2>1
  <2> QED BY <2>2 DEF RoundUp
<1>3. q \in Nat /\ q * b <= x /\ x < q * b + b
  <2>1. \A y \in Nat, n \in Nat \ {0} :
           y \div n \in Nat /\ (y \div n) * n <= y /\ y < (y \div n) * n + n
    BY SMT
  <2> HIDE DEF x
  <2> QED BY <1>1, <2>1
<1> HIDE DEF q
<1>4. a <= q * b /\ q * b < a + b
  <2>1. q * b \in Nat
    BY <1>3
  <2> QED BY <1>3, <2>1
<1>5. q <= a
  <2> SUFFICES ASSUME a + 1 <= q PROVE FALSE
    BY <1>3
  <2>1. (a + 1) * b <= q * b
    BY <1>3
  <2>2. a + b <= (a + 1) * b
    BY SMT
  <2>3. q * b \in Nat /\ (a + 1) * b \in Nat
    BY <1>3
  <2> QED BY <1>3, <2>1, <2>2, <2>3
<1> QED BY <1>2, <1>3, <1>4, <1>5

\* No more of them than n, if n of them would cover a.
LEMMA RoundUpBound ==
    ASSUME NEW a \in Nat, NEW b \in Nat \ {0}, a + b <= SizeSpace,
           NEW n \in Nat, a <= n * b
    PROVE  RoundUp(a, b) <= n
<1> DEFINE q == RoundUp(a, b)
<1>1. q \in Nat /\ q * b < a + b
  BY RoundUpSpec
<1> HIDE DEF q
<1> SUFFICES ASSUME n + 1 <= q PROVE FALSE
  BY <1>1 DEF q
<1>2. (n + 1) * b <= q * b
  BY <1>1
<1>3. (n + 1) * b = n * b + b
  BY SMT
<1>4. n * b \in Nat /\ q * b \in Nat
  BY <1>1
<1> QED BY <1>1, <1>2, <1>3, <1>4

\* The arguments of a call are within the bounds of the code.
LEMMA CallType ==
    ASSUME NEW c \in Call
    PROVE  /\ c.items \in Nat /\ c.items <= MaxItems
           /\ c.perThread \in Nat \ {0} /\ c.block \in Nat \ {0}
           /\ c.start \in Nat /\ c.start < CtrSpace
<1>1. /\ c.start \in Counters /\ c.items \in 0 .. MaxItems
      /\ c.perThread \in PerThread /\ c.block \in Block
  BY DEF Call
<1>2. MaxItems \in Nat /\ CtrSpace \in Nat
  BY KernelAssumption
<1>3. PerThread \subseteq Nat \ {0} /\ Block \subseteq Nat \ {0}
  BY KernelAssumption
<1>4. c.start \in Nat /\ c.start < CtrSpace
  BY <1>1, <1>2 DEF Counters
<1>5. c.items \in Nat /\ c.items <= MaxItems
  BY <1>1, <1>2
<1>6. c.perThread \in Nat \ {0} /\ c.block \in Nat \ {0}
  BY <1>1, <1>3
<1> QED BY <1>4, <1>5, <1>6

\* There is a number of blocks, cut or not.
LEMMA BlocksType ==
    ASSUME NEW c \in Call
    PROVE  Blocks(c) \in Nat
<1>1. \A x \in Int, n \in Nat \ {0} : x % n \in Nat /\ x \div n \in Int
  BY SMT
<1>2. \A a \in Int, b \in Nat \ {0} : RoundUp(a, b) \in Int
  <2>1. SizeSpace \in Nat \ {0}
    BY KernelAssumption
  <2> SUFFICES ASSUME NEW a \in Int, NEW b \in Nat \ {0} PROVE RoundUp(a, b) \in Int
    OBVIOUS
  <2>2. a + b - 1 \in Int
    OBVIOUS
  <2>3. (a + b - 1) % SizeSpace \in Int
    BY <1>1, <2>1, <2>2
  <2> QED BY <1>1, <2>3 DEF RoundUp
<1>3. c.items \in Int /\ c.perThread \in Nat \ {0} /\ c.block \in Nat \ {0}
  BY CallType
<1>4. WorkThreads(c) \in Int
  BY <1>2, <1>3 DEF WorkThreads
<1>5. RoundUp(WorkThreads(c), c.block) \in Int
  BY <1>2, <1>3, <1>4
<1>6. IntSpace \in Nat \ {0}
  BY KernelAssumption
<1> QED BY <1>1, <1>5, <1>6 DEF Blocks

\* A launch that fits has a thread for every item.
LEMMA BlocksSpec ==
    ASSUME call \in Call, LaunchFits
    PROVE  /\ WorkThreads(call) \in Nat
           /\ call.items <= WorkThreads(call) * call.perThread
           /\ WorkThreads(call) <= Blocks(call) * call.block
<1> DEFINE W == WorkThreads(call)
           R == RoundUp(W, call.block)
           m == IntSpace - 1
<1>1. /\ call.items \in Nat /\ call.perThread \in Nat \ {0} /\ call.block \in Nat \ {0}
  BY CallType
<1>2. /\ IntSpace \in Nat /\ m \in Nat /\ 1 < IntSpace /\ SizeSpace \in Nat
  BY KernelAssumption
<1> HIDE DEF m
<1>3. W \in Nat /\ call.items <= W * call.perThread /\ W <= call.items
  BY <1>1, RoundUpSpec DEF WorkThreads, LaunchFits
<1>4. W <= m * call.block
  <2>1. m * call.block \in Nat
    BY <1>1, <1>2
  <2>2. call.items <= (m * call.block) * call.perThread
    BY <1>1, <1>2, SMT DEF LaunchFits, m
  <2> QED BY <1>1, <2>1, <2>2, RoundUpBound DEF WorkThreads, LaunchFits
<1> HIDE DEF W
<1>5. W + call.block <= SizeSpace
  BY <1>1, <1>2, <1>3 DEF LaunchFits
<1>6. R \in Nat /\ W <= R * call.block /\ R <= m
  BY <1>1, <1>2, <1>3, <1>4, <1>5, RoundUpSpec, RoundUpBound
<1> HIDE DEF R
<1>7. Blocks(call) = IF W = 0 THEN 1 ELSE R
  <2>1. \A x \in Nat, n \in Nat : x < n => x % n = x
    BY SMT
  <2>2. (IF W = 0 THEN 1 ELSE R) \in Nat /\ (IF W = 0 THEN 1 ELSE R) < IntSpace
    BY <1>2, <1>6 DEF m
  <2> QED BY <1>2, <2>1, <2>2 DEF Blocks, W, R
<1>8. W <= Blocks(call) * call.block
  <2>1. CASE W = 0
    BY <1>1, <1>7, <2>1
  <2>2. CASE W # 0
    BY <1>6, <1>7, <2>2
  <2> QED BY <2>1, <2>2
<1> QED BY <1>3, <1>8 DEF W

\* The items of the batch that thread t looks at.
Mine(t) == {i \in Items : First(t) <= i /\ i < First(t) + call.perThread}

\* The threads of the launch have numbers, and so have their first items.
LEMMA LaunchedType ==
    ASSUME call \in Call
    PROVE  /\ call.items \in Nat /\ call.perThread \in Nat \ {0}
           /\ call.items <= MaxItems
           /\ \A t \in Launched : t \in Nat /\ First(t) \in Nat
<1>1. /\ call.items \in Nat /\ call.perThread \in Nat \ {0} /\ call.block \in Nat \ {0}
      /\ call.items <= MaxItems
  BY CallType
<1>2. Blocks(call) * call.block \in Nat
  <2>1. Blocks(call) \in Nat
    BY BlocksType
  <2> QED BY <1>1, <2>1
<1>3. ASSUME NEW t \in Launched PROVE t \in Nat /\ First(t) \in Nat
  <2>1. t \in Nat
    BY <1>2 DEF Launched
  <2> QED BY <1>1, <2>1 DEF First
<1> QED BY <1>1, <1>3

\* Every item of a batch that fits is looked at by a thread of the launch ...
LEMMA ItemsCovered ==
    ASSUME call \in Call, LaunchFits, NEW i \in Items
    PROVE  \E t \in Launched : i \in Mine(t)
<1> DEFINE p == call.perThread
           t == i \div p
           W == WorkThreads(call)
           T == Blocks(call) * call.block
<1>1. /\ call.items \in Nat /\ p \in Nat \ {0} /\ call.block \in Nat \ {0}
      /\ i \in Nat /\ i < call.items
  BY CallType DEF Items
<1> HIDE DEF p
<1>2. t \in Nat /\ t * p <= i /\ i < t * p + p
  BY <1>1, SMT
<1>3. Blocks(call) \in Nat /\ W \in Nat /\ call.items <= W * p /\ W <= T
  BY BlocksSpec, BlocksType DEF p
<1> HIDE DEF t, W
<1>4. t < W
  <2> SUFFICES ASSUME W <= t PROVE FALSE
    BY <1>2, <1>3
  <2>1. W * p <= t * p /\ W * p \in Nat /\ t * p \in Nat
    BY <1>1, <1>2, <1>3
  <2> QED BY <1>1, <1>2, <1>3, <2>1
<1>5. T \in Nat
  BY <1>1, <1>3
<1>6. t \in 0 .. T - 1
  <2> HIDE DEF T
  <2> QED BY <1>2, <1>3, <1>4, <1>5
<1>7. t \in Launched /\ i \in Mine(t)
  <2>1. t \in Launched
    BY <1>6 DEF Launched
  <2>2. First(t) = t * p
    BY DEF First, p
  <2>3. First(t) <= i /\ i < First(t) + call.perThread
    BY <1>2, <2>2 DEF p
  <2> QED BY <2>1, <2>3 DEF Mine
<1> QED BY <1>7

\* ... and no item by two.
LEMMA ItemsApart ==
    ASSUME call \in Call, NEW t \in Launched, NEW u \in Launched,
           NEW i \in Mine(t), i \in Mine(u)
    PROVE  t = u
<1>1. /\ call.perThread \in Nat \ {0} /\ t \in Nat /\ u \in Nat
  BY LaunchedType
<1>2. i \in Nat
  BY LaunchedType DEF Mine, Items
<1>3. /\ t * call.perThread <= i /\ i < t * call.perThread + call.perThread
      /\ u * call.perThread <= i /\ i < u * call.perThread + call.perThread
  BY DEF Mine, First
<1>4. \A x, y \in Nat, p \in Nat \ {0}, j \in Nat :
         x * p <= j /\ j < x * p + p /\ y * p <= j /\ j < y * p + p => x = y
  BY SMT
<1> QED BY <1>1, <1>2, <1>3, <1>4

\* The remainder of a number that passes its divisor once at most.
LEMMA WrapOnce ==
    ASSUME NEW x \in Nat, NEW n \in Nat, x < n + n
    PROVE  (x < n => x % n = x) /\ (n <= x => x % n = x - n)
<1>1. ASSUME x < n PROVE x % n = x
  BY <1>1, SMT
<1>2. ASSUME n <= x PROVE x % n = x - n
  BY <1>2, SMT
<1> QED BY <1>1, <1>2

\* The counter of an item is a counter, and no two items have the same, although
\* the start may wrap.
LEMMA CounterSpec ==
    ASSUME call \in Call
    PROVE  /\ \A i \in Items : Counter(i) \in Counters /\ Counter(i) \in Nat
           /\ \A i, j \in Items : Counter(i) = Counter(j) => i = j
<1>1. /\ CtrSpace \in Nat \ {0} /\ MaxItems \in Nat /\ MaxItems <= CtrSpace
      /\ call.start \in Nat /\ call.start < CtrSpace
  BY KernelAssumption, CallType
<1>2. \A i \in Items : i \in Nat /\ i < CtrSpace
  <2>1. call.items \in Nat /\ call.items <= MaxItems
    BY LaunchedType
  <2> QED BY <1>1, <2>1 DEF Items
<1>3. ASSUME NEW i \in Items
      PROVE  /\ call.start + i < CtrSpace => Counter(i) = call.start + i
             /\ CtrSpace <= call.start + i => Counter(i) = (call.start + i) - CtrSpace
  <2>1. /\ call.start + i \in Nat /\ CtrSpace \in Nat
        /\ call.start + i < CtrSpace + CtrSpace
    BY <1>1, <1>2
  <2> QED BY <2>1, WrapOnce DEF Counter
<1>4. ASSUME NEW i \in Items PROVE Counter(i) \in Nat /\ Counter(i) < CtrSpace
  BY <1>1, <1>2, <1>3
<1>5. ASSUME NEW i \in Items, NEW j \in Items, Counter(i) = Counter(j) PROVE i = j
  BY <1>1, <1>2, <1>3, <1>5
<1> QED BY <1>1, <1>4, <1>5 DEF Counters
-----------------------------------------------------------------------------
(***************************************************************************)
(* The inductive invariant.                                                *)
(***************************************************************************)

Slots == 0 .. MaxHits - 1

\* The items that thread t has finished with, and the one it has a slot for.
Written(t) == CASE pc[t] = "start" -> {}
                [] pc[t] = "exit"  -> Mine(t)
                [] OTHER           -> {i \in Mine(t) : i < item[t]}

InHand(t) == IF pc[t] = "write" THEN {item[t]} ELSE {}

\* The items for which a slot was taken.
Reported == {i \in Matches : \E t \in Launched : i \in Written(t) \cup InHand(t)}

\* A thread stays within its items, and takes slots for matching keys only.
ItemsInv ==
    \A t \in Launched :
        /\ pc[t] \in {"match", "write"} => item[t] \in Mine(t)
        /\ pc[t] = "write" => Counter(item[t]) \in matching

\* Unless it wraps the counter is the number of slots taken, and slots are handed
\* out once.
CountInv ==
    MatchesFit =>
        /\ hitCount = Cardinality(Reported)
        /\ \A t \in Launched : pc[t] = "write" => slot[t] < hitCount
        /\ \A t, u \in Launched :
              pc[t] = "write" /\ pc[u] = "write" /\ slot[t] = slot[u] => t = u

\* Key i of the batch matches, and the thread that looks at it is through with it.
Settled(i) == Counter(i) \in matching /\ \E t \in Launched : i \in Written(t)

\* Even if the counter wraps, a slot below it is empty only while a thread is about
\* to write there, and the slots written hold keys that are settled, no key twice.
SlotsInv ==
    /\ \A s \in Slots :
          /\ s < hitCount /\ outHits[s] = Junk =>
                \E t \in Launched : pc[t] = "write" /\ slot[t] = s
          /\ outHits[s] # Junk => \E i \in Items : Settled(i) /\ outHits[s] = Counter(i)
    /\ \A r, s \in Slots : outHits[r] = outHits[s] => r = s \/ outHits[r] = Junk

\* Unless the counter wraps no slot is written before it is handed out, or twice,
\* and while the buffer is not full every key settled is in it.
KeptInv ==
    MatchesFit =>
        /\ \A s \in Slots :
              /\ s >= hitCount => outHits[s] = Junk
              /\ outHits[s] # Junk => \A t \in Launched : pc[t] = "write" => slot[t] # s
        /\ hitCount <= MaxHits =>
              \A i \in Items : Settled(i) => \E s \in Slots : outHits[s] = Counter(i)

\* What the host has read since the threads ended.
HostInv ==
    /\ host \in {"copy", "returned"} =>
          /\ \A t \in Launched : pc[t] = "exit"
          /\ copied = Cut(hitCount)
    /\ host = "returned" => copied <= MaxHits /\ answer = [i \in 1 .. copied |-> outHits[i - 1]]

IInv == TypeOK /\ ItemsInv /\ CountInv /\ SlotsInv /\ KeptInv /\ HostInv

\* The call does not change, and neither does what its threads are to look at.
LEMMA CallFrame ==
    ASSUME call' = call
    PROVE  /\ Launched' = Launched /\ Items' = Items
           /\ \A t : Mine(t)' = Mine(t) /\ First(t)' = First(t)
           /\ \A i : Counter(i)' = Counter(i)
           /\ matching' = matching => Matches' = Matches /\ MatchesFit' = MatchesFit
<1>1. /\ Launched' = Launched /\ Items' = Items
      /\ \A t : Mine(t)' = Mine(t) /\ First(t)' = First(t)
      /\ \A i : Counter(i)' = Counter(i)
  BY DEF Launched, Items, Mine, First, Counter
<1>2. matching' = matching => Matches' = Matches
  BY <1>1 DEF Matches
<1> QED BY <1>1, <1>2 DEF MatchesFit

\* A thread that does not move keeps what it has done.
LEMMA ThreadFrame ==
    ASSUME call' = call, NEW u, pc'[u] = pc[u], item'[u] = item[u]
    PROVE  Written(u)' = Written(u) /\ InHand(u)' = InHand(u)
  BY CallFrame DEF Written, InHand

\* What a thread has done or has in hand is its own.
LEMMA OwnItems ==
    ASSUME TypeOK, ItemsInv, NEW t \in Launched
    PROVE  /\ Written(t) \subseteq Mine(t)
           /\ InHand(t) \subseteq Mine(t)
           /\ Mine(t) \subseteq Items
<1>1. Written(t) \subseteq Mine(t)
  BY DEF Written
<1>2. InHand(t) \subseteq Mine(t)
  BY DEF InHand, ItemsInv
<1> QED BY <1>1, <1>2 DEF Mine

\* A thread that goes on to its next item, or ends, is through with this one.
LEMMA NextItemSpec ==
    ASSUME TypeOK, ItemsInv, NEW t \in Launched, pc[t] \in {"match", "write"},
           NextItem(t), call' = call
    PROVE  /\ Written(t)' = Written(t) \cup {item[t]} /\ InHand(t)' = {}
           /\ pc' \in [Launched -> {"start", "match", "write", "exit"}]
           /\ item' \in [Launched -> Nat]
           /\ pc'[t] # "write" /\ pc'[t] # "start"
           /\ pc'[t] = "match" => item'[t] \in Mine(t)
           /\ \A u \in Launched : u # t => pc'[u] = pc[u] /\ item'[u] = item[u]
<1> DEFINE i == item[t]
           p == call.perThread
<1>1. i \in Mine(t) /\ Written(t) = {j \in Mine(t) : j < i}
  BY DEF ItemsInv, Written
<1>2. /\ i \in Nat /\ i < call.items /\ First(t) \in Nat /\ First(t) <= i /\ i < First(t) + p
      /\ p \in Nat /\ call.items \in Nat
  BY <1>1, LaunchedType DEF TypeOK, Mine, Items
<1>3. \A j \in Mine(t) : j \in Nat /\ j < call.items /\ j < First(t) + p
  BY <1>2 DEF Mine, Items
<1>4. CASE LastOf(t)
  <2>1. pc' = [pc EXCEPT ![t] = "exit"] /\ item' = item
    BY <1>4 DEF NextItem, Exit
  <2>2. \A j \in Mine(t) : j < i \/ j = i
    BY <1>2, <1>3, <1>4 DEF LastOf
  <2>3. Written(t)' = Mine(t) /\ InHand(t)' = {}
    BY <2>1, CallFrame DEF Written, InHand, TypeOK
  <2>4. Mine(t) = Written(t) \cup {i}
    BY <1>1, <2>2
  <2> QED BY <2>1, <2>3, <2>4 DEF TypeOK
<1>5. CASE ~LastOf(t)
  <2>1. pc' = [pc EXCEPT ![t] = "match"] /\ item' = [item EXCEPT ![t] = i + 1]
    BY <1>5 DEF NextItem
  <2>2. i + 1 \in Mine(t)
    <3>1. i + 1 < First(t) + p /\ i + 1 < call.items
      BY <1>2, <1>5 DEF LastOf
    <3> QED BY <1>2, <3>1 DEF Mine, Items
  <2>3. \A j \in Mine(t) : j < i + 1 <=> j < i \/ j = i
    BY <1>2, <1>3
  <2>4. Written(t)' = {j \in Mine(t) : j < i + 1} /\ InHand(t)' = {}
    BY <2>1, CallFrame DEF Written, InHand, TypeOK
  <2>5. {j \in Mine(t) : j < i + 1} = Written(t) \cup {i}
    BY <1>1, <2>3
  <2> QED BY <1>2, <2>1, <2>2, <2>4, <2>5 DEF TypeOK
<1> QED BY <1>4, <1>5

\* The slots taken can be counted, and are no more than the matches.
LEMMA ReportedFinite ==
    ASSUME TypeOK
    PROVE  /\ IsFiniteSet(Matches) /\ Cardinality(Matches) \in Nat
           /\ \A S \in SUBSET Matches :
                 /\ IsFiniteSet(S) /\ Cardinality(S) \in Nat
                 /\ Cardinality(S) <= Cardinality(Matches)
           /\ Reported \in SUBSET Matches
<1>1. call.items \in Nat
  BY LaunchedType DEF TypeOK
<1>2. IsFiniteSet(Items)
  <2>1. 0 \in Int /\ call.items - 1 \in Int
    BY <1>1
  <2> QED BY <2>1, FS_Interval DEF Items
<1>3. Matches \in SUBSET Items /\ Reported \in SUBSET Matches
  BY DEF Matches, Reported
<1>4. IsFiniteSet(Matches)
  BY <1>2, <1>3, FS_Subset
<1>5. ASSUME NEW S \in SUBSET Matches
      PROVE  IsFiniteSet(S) /\ Cardinality(S) <= Cardinality(Matches)
  BY <1>4, FS_Subset
<1> QED BY <1>3, <1>4, <1>5, FS_CardinalityType

\* The slots that a thread writes to are those of the buffer: one that reads as
\* negative is none of them.
LEMMA SlotInBuffer ==
    ASSUME NEW n \in 0 .. IntSpace - 1
    PROVE  SignedInt(n) < MaxHits /\ n \in Slots <=> n \in Slots
<1>1. MaxHits \in Nat /\ IntSpace \in Nat /\ MaxHits < IntSpace \div 2
  BY KernelAssumption
<1>2. ASSUME n \in Slots PROVE SignedInt(n) < MaxHits
  BY <1>1, <1>2 DEF SignedInt, Slots
<1> QED BY <1>2

\* The count that the host reads is cut to the buffer, unless it reads as negative.
LEMMA CutSpec ==
    ASSUME NEW n \in 0 .. IntSpace - 1
    PROVE  /\ Cut(n) \in 0 .. IntSpace - 1 /\ FitsBuffer(Cut(n))
           /\ n <= MaxHits => Cut(n) = n
           /\ n > MaxHits /\ Cut(n) <= MaxHits => Cut(n) = MaxHits
<1>1. /\ MaxHits \in Nat /\ IntSpace \in Nat /\ IntSpace \div 2 \in Nat
      /\ MaxHits < IntSpace \div 2 /\ IntSpace \div 2 <= IntSpace
  BY KernelAssumption
<1>2. n < IntSpace \div 2 => SignedInt(n) = n
  BY DEF SignedInt
<1>3. n >= IntSpace \div 2 => SignedInt(n) = n - IntSpace
  BY <1>1 DEF SignedInt
<1>4. CASE Cut(n) = MaxHits /\ n > MaxHits
  BY <1>1, <1>4 DEF FitsBuffer
<1>5. CASE Cut(n) = n /\ FitsBuffer(n)
  BY <1>1, <1>5
<1>6. \/ Cut(n) = MaxHits /\ n > MaxHits
      \/ Cut(n) = n /\ FitsBuffer(n)
  BY <1>1, <1>2, <1>3 DEF Cut, FitsBuffer
<1>7. n <= MaxHits => SignedInt(n) = n
  BY <1>1, <1>2
<1> QED BY <1>1, <1>4, <1>5, <1>6, <1>7 DEF Cut

-----------------------------------------------------------------------------
(***************************************************************************)
(* Steps of the device threads.                                            *)
(***************************************************************************)

\* A step that settles no matching key, takes no slot and writes to none.
LEMMA QuietStep ==
    ASSUME IInv, call' = call, matching' = matching, host' = host, host = "sync",
           slot' = slot, hitCount' = hitCount, outHits' = outHits,
           \A u \in Launched : pc'[u] = "write" <=> pc[u] = "write",
           Reported' = Reported, \A i \in Items : Settled(i)' = Settled(i)
    PROVE  CountInv' /\ SlotsInv' /\ KeptInv' /\ HostInv'
<1>1. /\ Launched' = Launched /\ Items' = Items /\ \A i : Counter(i)' = Counter(i)
      /\ MatchesFit' = MatchesFit
  BY CallFrame
<1>2. CountInv'
  BY <1>1 DEF IInv, CountInv
<1>3. SlotsInv'
  BY <1>1 DEF IInv, SlotsInv, Slots
<1>4. KeptInv'
  BY <1>1 DEF IInv, KeptInv, Slots
<1>5. HostInv'
  BY DEF HostInv
<1> QED BY <1>2, <1>3, <1>4, <1>5

\* The reported and the settled keys change only as the threads' do.
LEMMA SettledFrame ==
    ASSUME call' = call, matching' = matching,
           \A u \in Launched : Written(u)' = Written(u)
    PROVE  \A i \in Items : Settled(i)' = Settled(i)
  BY CallFrame DEF Settled

\* The items reported depend on what the threads have written and have in hand.
LEMMA ReportedFrame ==
    ASSUME call' = call, matching' = matching,
           \A u \in Launched : (Written(u) \cup InHand(u))' = Written(u) \cup InHand(u)
    PROVE  Reported' = Reported
  BY CallFrame DEF Reported

\* A thread that begins is at the first of its items, if it has any.
LEMMA StartStep ==
    ASSUME IInv, NEW t \in Launched, StartIdle(t) \/ Start(t)
    PROVE  IInv'
<1>1. /\ call' = call /\ matching' = matching /\ host' = host /\ host = "sync"
      /\ slot' = slot /\ hitCount' = hitCount /\ outHits' = outHits
      /\ copied' = copied /\ answer' = answer /\ pc[t] = "start"
  BY DEF StartIdle, Start, Running
<1>2. TypeOK /\ ItemsInv /\ Launched' = Launched
  BY <1>1, CallFrame DEF IInv
<1>3. /\ First(t) \in Nat /\ call.items \in Nat /\ call.perThread \in Nat \ {0}
  BY <1>2, LaunchedType DEF TypeOK
<1>4. \A i \in Mine(t) : i \in Nat /\ First(t) <= i /\ i < call.items
  BY <1>3 DEF Mine, Items
<1>5. /\ Written(t)' = {} /\ InHand(t)' = {}
      /\ pc' \in [Launched -> {"start", "match", "write", "exit"}]
      /\ item' \in [Launched -> Nat]
      /\ pc'[t] # "write" /\ (pc'[t] = "match" => item'[t] \in Mine(t))
      /\ \A u \in Launched : u # t => pc'[u] = pc[u] /\ item'[u] = item[u]
  <2>1. CASE StartIdle(t)
    <3>1. pc' = [pc EXCEPT ![t] = "exit"] /\ item' = item /\ First(t) >= call.items
      BY <2>1 DEF StartIdle, Exit
    <3>2. Mine(t) = {}
      BY <1>3, <1>4, <3>1
    <3>3. pc'[t] = "exit"
      BY <1>2, <3>1 DEF TypeOK
    <3>4. Written(t)' = {} /\ InHand(t)' = {}
      BY <1>1, <3>2, <3>3, CallFrame DEF Written, InHand
    <3> QED BY <1>2, <3>1, <3>3, <3>4 DEF TypeOK
  <2>2. CASE Start(t)
    <3>1. /\ pc' = [pc EXCEPT ![t] = "match"] /\ item' = [item EXCEPT ![t] = First(t)]
          /\ First(t) < call.items
      BY <2>2 DEF Start
    <3>2. pc'[t] = "match" /\ item'[t] = First(t)
      BY <1>2, <3>1 DEF TypeOK
    <3>3. First(t) \in Mine(t)
      BY <1>3, <3>1 DEF Mine, Items
    <3>4. {i \in Mine(t) : i < First(t)} = {}
      BY <1>3, <1>4
    <3>5. Written(t)' = {} /\ InHand(t)' = {}
      BY <1>1, <3>2, <3>4, CallFrame DEF Written, InHand
    <3> QED BY <1>2, <1>3, <3>1, <3>2, <3>3, <3>5 DEF TypeOK
  <2> QED BY <2>1, <2>2
<1>6. \A u \in Launched : Written(u)' = Written(u) /\ InHand(u)' = InHand(u)
  <2>1. Written(t) = {} /\ InHand(t) = {}
    BY <1>1 DEF Written, InHand
  <2>2. ASSUME NEW u \in Launched, u # t
        PROVE  Written(u)' = Written(u) /\ InHand(u)' = InHand(u)
    BY <1>1, <1>5, <2>2, ThreadFrame
  <2> QED BY <1>5, <2>1, <2>2
<1>7. Reported' = Reported /\ \A i \in Items : Settled(i)' = Settled(i)
  BY <1>1, <1>6, ReportedFrame, SettledFrame
<1>8. \A u \in Launched : pc'[u] = "write" <=> pc[u] = "write"
  BY <1>1, <1>5
<1>9. TypeOK'
  BY <1>1, <1>2, <1>5 DEF FitsBuffer, SignedInt, TypeOK
<1>10. ItemsInv'
  BY <1>1, <1>2, <1>5, CallFrame DEF ItemsInv
<1> QED BY <1>1, <1>7, <1>8, <1>9, <1>10, QuietStep DEF IInv

\* A key that does not match is passed over.
LEMMA NoMatchStep ==
    ASSUME IInv, NEW t \in Launched, NoMatch(t)
    PROVE  IInv'
<1>1. /\ call' = call /\ matching' = matching /\ host' = host /\ host = "sync"
      /\ slot' = slot /\ hitCount' = hitCount /\ outHits' = outHits
      /\ copied' = copied /\ answer' = answer /\ pc[t] = "match"
      /\ NextItem(t) /\ Counter(item[t]) \notin matching
  BY DEF NoMatch, Running
<1>2. TypeOK /\ ItemsInv /\ Launched' = Launched
  BY <1>1, CallFrame DEF IInv
<1>3. /\ Written(t)' = Written(t) \cup {item[t]} /\ InHand(t)' = {}
      /\ pc' \in [Launched -> {"start", "match", "write", "exit"}]
      /\ item' \in [Launched -> Nat]
      /\ pc'[t] # "write" /\ (pc'[t] = "match" => item'[t] \in Mine(t))
      /\ \A u \in Launched : u # t => pc'[u] = pc[u] /\ item'[u] = item[u]
  BY <1>1, <1>2, NextItemSpec
<1>4. InHand(t) = {}
  BY <1>1 DEF InHand
<1>5. \A u \in Launched : u # t => Written(u)' = Written(u) /\ InHand(u)' = InHand(u)
  <2> SUFFICES ASSUME NEW u \in Launched, u # t
               PROVE  Written(u)' = Written(u) /\ InHand(u)' = InHand(u)
    OBVIOUS
  <2> QED BY <1>1, <1>3, ThreadFrame
<1>6. \A i \in Items, u \in Launched : Counter(i) \in matching =>
         /\ i \in Written(u)' <=> i \in Written(u)
         /\ i \in InHand(u)' <=> i \in InHand(u)
  BY <1>1, <1>3, <1>4, <1>5
<1>7. Reported' = Reported /\ \A i \in Items : Settled(i)' = Settled(i)
  BY <1>1, <1>6, CallFrame DEF Reported, Settled, Matches
<1>8. \A u \in Launched : pc'[u] = "write" <=> pc[u] = "write"
  BY <1>1, <1>3
<1>9. TypeOK'
  BY <1>1, <1>2, <1>3 DEF FitsBuffer, SignedInt, TypeOK
<1>10. ItemsInv'
  BY <1>1, <1>2, <1>3, CallFrame DEF ItemsInv
<1> QED BY <1>1, <1>7, <1>8, <1>9, <1>10, QuietStep DEF IInv

\* atomicAdd hands out the next slot, for a key that had none.
LEMMA TakeSlotStep ==
    ASSUME IInv, NEW t \in Launched, TakeSlot(t)
    PROVE  IInv'
<1> DEFINE i == item[t]
<1>1. /\ call' = call /\ matching' = matching /\ host' = host /\ host = "sync"
      /\ item' = item /\ outHits' = outHits /\ copied' = copied /\ answer' = answer
      /\ pc[t] = "match" /\ Counter(i) \in matching
      /\ pc' = [pc EXCEPT ![t] = "write"] /\ slot' = [slot EXCEPT ![t] = hitCount]
  BY DEF TakeSlot, Running
<1>2. /\ TypeOK /\ ItemsInv /\ CountInv /\ SlotsInv /\ KeptInv /\ Launched' = Launched
      /\ Items' = Items /\ \A j : Counter(j)' = Counter(j)
      /\ Matches' = Matches /\ MatchesFit' = MatchesFit
  BY <1>1, CallFrame DEF IInv
<1>3. /\ pc'[t] = "write" /\ slot'[t] = hitCount
      /\ \A u \in Launched : u # t => pc'[u] = pc[u] /\ slot'[u] = slot[u]
  BY <1>1, <1>2 DEF TypeOK
<1>4. /\ hitCount \in 0 .. IntSpace - 1 /\ IntSpace \in Nat /\ MaxHits \in Nat
      /\ hitCount' \in 0 .. IntSpace - 1 /\ hitCount' <= hitCount + 1
      /\ hitCount + 1 < IntSpace => hitCount' = hitCount + 1
  <2>1. \A x \in Nat, n \in Nat \ {0} : /\ x % n \in Nat /\ x % n < n
                                        /\ x < n => x % n = x
    BY SMT
  <2>2. hitCount \in 0 .. IntSpace - 1 /\ IntSpace \in Nat /\ MaxHits \in Nat
    BY <1>2, KernelAssumption DEF TypeOK
  <2>3. hitCount' = (hitCount + 1) % IntSpace
    BY DEF TakeSlot
  <2>4. hitCount' \in Nat /\ hitCount' < IntSpace
    BY <2>1, <2>2, <2>3
  <2>5. hitCount + 1 < IntSpace => hitCount' = hitCount + 1
    BY <2>1, <2>2, <2>3
  <2> QED BY <2>2, <2>4, <2>5
<1>5. \A u \in Launched : Written(u)' = Written(u)
  <2>1. Written(t)' = Written(t)
    BY <1>1, <1>3, CallFrame DEF Written
  <2>2. ASSUME NEW u \in Launched, u # t PROVE Written(u)' = Written(u)
    BY <1>1, <1>3, <2>2, ThreadFrame
  <2> QED BY <2>1, <2>2
<1>6. /\ InHand(t)' = {i} /\ InHand(t) = {}
      /\ \A u \in Launched : u # t => InHand(u)' = InHand(u)
  <2>1. InHand(t)' = {i} /\ InHand(t) = {}
    BY <1>1, <1>3 DEF InHand
  <2>2. ASSUME NEW u \in Launched, u # t PROVE InHand(u)' = InHand(u)
    BY <1>1, <1>3, <2>2, ThreadFrame
  <2> QED BY <2>1, <2>2
<1>7. i \in Mine(t) /\ i \in Items /\ i \in Matches
  BY <1>1, <1>2, OwnItems DEF ItemsInv, Matches
<1>8. i \notin Reported
  <2> SUFFICES ASSUME NEW u \in Launched, i \in Written(u) \cup InHand(u) PROVE FALSE
    BY DEF Reported
  <2>1. i \in Mine(u)
    BY <1>2, OwnItems
  <2>2. u = t
    BY <1>2, <1>7, <2>1, ItemsApart DEF TypeOK
  <2>3. i \in Nat /\ Written(t) = {j \in Mine(t) : j < i}
    BY <1>1, <1>2 DEF Written, TypeOK
  <2> QED BY <1>6, <2>2, <2>3
<1>9. Reported' = Reported \cup {i}
  <2>1. \A j \in Matches : (\E u \in Launched : j \in (Written(u) \cup InHand(u))')
           <=> (\E u \in Launched : j \in Written(u) \cup InHand(u)) \/ j = i
    BY <1>5, <1>6
  <2> QED BY <1>1, <1>2, <1>7, <2>1 DEF Reported
<1>10. ASSUME MatchesFit
       PROVE  /\ hitCount = Cardinality(Reported) /\ hitCount' = hitCount + 1
              /\ Cardinality(Reported') = hitCount + 1
  <2>1. /\ hitCount = Cardinality(Reported) /\ IsFiniteSet(Reported)
        /\ Reported' \in SUBSET Matches /\ Cardinality(Matches) \in Nat
    BY <1>2, <1>7, <1>9, <1>10, ReportedFinite DEF CountInv
  <2>2. Cardinality(Reported') = hitCount + 1
    BY <1>8, <1>9, <2>1, FS_AddElement
  <2>3. Cardinality(Reported') <= Cardinality(Matches)
    BY <1>2, <2>1, ReportedFinite
  <2>4. hitCount + 1 < IntSpace
    BY <1>4, <1>10, <2>1, <2>2, <2>3 DEF MatchesFit
  <2> QED BY <1>4, <2>1, <2>2, <2>4
<1>11. CountInv'
  <2> SUFFICES ASSUME MatchesFit
               PROVE  /\ hitCount' = Cardinality(Reported')
                      /\ \A u \in Launched : pc'[u] = "write" => slot'[u] < hitCount'
                      /\ \A u, v \in Launched :
                            pc'[u] = "write" /\ pc'[v] = "write" /\ slot'[u] = slot'[v] => u = v
    BY <1>2 DEF CountInv
  <2>1. \A u \in Launched : u # t /\ pc[u] = "write" => slot[u] \in Nat /\ slot[u] < hitCount
    BY <1>2 DEF CountInv, TypeOK
  <2>2. \A u, v \in Launched :
           pc[u] = "write" /\ pc[v] = "write" /\ slot[u] = slot[v] => u = v
    BY <1>2 DEF CountInv
  <2> QED BY <1>3, <1>4, <1>10, <2>1, <2>2
<1>12. /\ \A j \in Items : Settled(j)' = Settled(j)
       /\ Slots' = Slots
  BY <1>1, <1>5, SettledFrame DEF Slots
<1>13. SlotsInv'
  <2>1. ASSUME NEW s \in Slots, s < hitCount', outHits[s] = Junk
        PROVE  \E u \in Launched : pc'[u] = "write" /\ slot'[u] = s
    <3>1. s \in Nat /\ (s = hitCount \/ s < hitCount)
      BY <1>4, <2>1 DEF Slots
    <3>2. CASE s = hitCount
      BY <1>3, <3>2
    <3>3. CASE s < hitCount
      <4>1. PICK u \in Launched : pc[u] = "write" /\ slot[u] = s
        BY <1>2, <2>1, <3>3 DEF SlotsInv
      <4> QED BY <1>1, <1>3, <4>1
    <3> QED BY <3>1, <3>2, <3>3
  <2>2. \A s \in Slots : outHits[s] # Junk => \E j \in Items : Settled(j)' /\ outHits[s] = Counter(j)
    BY <1>2, <1>12 DEF SlotsInv
  <2>3. \A r, s \in Slots : outHits[r] = outHits[s] => r = s \/ outHits[r] = Junk
    BY <1>2 DEF SlotsInv
  <2> QED BY <1>1, <1>2, <1>12, <2>1, <2>2, <2>3 DEF SlotsInv
<1>14. KeptInv'
  <2> SUFFICES ASSUME MatchesFit
               PROVE  /\ \A s \in Slots :
                            /\ s >= hitCount' => outHits'[s] = Junk
                            /\ outHits'[s] # Junk =>
                                  \A u \in Launched : pc'[u] = "write" => slot'[u] # s
                      /\ hitCount' <= MaxHits =>
                            \A j \in Items : Settled(j) => \E s \in Slots : outHits'[s] = Counter(j)
    BY <1>2, <1>12 DEF KeptInv
  <2>1. /\ \A s \in Slots :
              /\ s >= hitCount => outHits[s] = Junk
              /\ outHits[s] # Junk => \A u \in Launched : pc[u] = "write" => slot[u] # s
        /\ hitCount <= MaxHits =>
              \A j \in Items : Settled(j) => \E s \in Slots : outHits[s] = Counter(j)
    BY <1>2 DEF KeptInv
  <2>2. \A s \in Slots : s \in Nat
    BY DEF Slots
  <2>3. /\ hitCount' = hitCount + 1 /\ hitCount \in Nat
        /\ hitCount' <= MaxHits => hitCount <= MaxHits
    BY <1>4, <1>10
  <2> QED BY <1>1, <1>3, <2>1, <2>2, <2>3
<1>15. TypeOK'
  BY <1>1, <1>2, <1>4 DEF FitsBuffer, SignedInt, TypeOK
<1>16. ItemsInv'
  BY <1>1, <1>2, <1>3, <1>7, CallFrame DEF ItemsInv
<1>17. HostInv'
  BY <1>1 DEF HostInv
<1> QED BY <1>11, <1>13, <1>14, <1>15, <1>16, <1>17 DEF IInv

\* The key goes into the slot that was taken for it, if the buffer has it.
LEMMA WriteHitStep ==
    ASSUME IInv, NEW t \in Launched, WriteHit(t)
    PROVE  IInv'
<1> DEFINE i == item[t]
           n == slot[t]
<1>1. /\ call' = call /\ matching' = matching /\ host' = host /\ host = "sync"
      /\ slot' = slot /\ hitCount' = hitCount /\ copied' = copied /\ answer' = answer
      /\ pc[t] = "write" /\ NextItem(t)
  BY DEF WriteHit, Running
<1>2. /\ TypeOK /\ ItemsInv /\ CountInv /\ SlotsInv /\ KeptInv /\ Launched' = Launched
      /\ Items' = Items /\ Slots' = Slots /\ \A j : Counter(j)' = Counter(j)
      /\ MatchesFit' = MatchesFit
  BY <1>1, CallFrame DEF IInv, Slots
<1>3. /\ Written(t)' = Written(t) \cup {i} /\ InHand(t)' = {}
      /\ pc' \in [Launched -> {"start", "match", "write", "exit"}]
      /\ item' \in [Launched -> Nat]
      /\ pc'[t] # "write" /\ (pc'[t] = "match" => item'[t] \in Mine(t))
      /\ \A u \in Launched : u # t => pc'[u] = pc[u] /\ item'[u] = item[u]
  BY <1>1, <1>2, NextItemSpec
<1>4. \A u \in Launched : u # t => Written(u)' = Written(u) /\ InHand(u)' = InHand(u)
  <2> SUFFICES ASSUME NEW u \in Launched, u # t
               PROVE  Written(u)' = Written(u) /\ InHand(u)' = InHand(u)
    OBVIOUS
  <2> QED BY <1>1, <1>3, ThreadFrame
<1>5. InHand(t) = {i} /\ i \in Mine(t) /\ i \in Items /\ i \notin Written(t)
  <2>1. InHand(t) = {i} /\ i \in Mine(t)
    BY <1>1, <1>2 DEF InHand, ItemsInv
  <2>2. i \in Nat /\ Written(t) = {j \in Mine(t) : j < i}
    BY <1>1, <1>2 DEF Written, TypeOK
  <2>3. i \notin Written(t)
    BY <2>2
  <2> QED BY <2>1, <2>3 DEF Mine
<1>6. Reported' = Reported
  BY <1>1, <1>3, <1>4, <1>5, ReportedFrame
<1>7. Counter(i) \in matching /\ Counter(i) \in Counters /\ Counter(i) \in Nat
  BY <1>1, <1>2, <1>5, CounterSpec DEF ItemsInv, TypeOK
<1>8. \A j \in Items : Settled(j)' <=> Settled(j) \/ j = i
  BY <1>1, <1>2, <1>3, <1>4, <1>7 DEF Settled
<1>9. \A j \in Items : Settled(j) => Counter(j) # Counter(i)
  <2> SUFFICES ASSUME NEW j \in Items, Settled(j), Counter(j) = Counter(i) PROVE FALSE
    OBVIOUS
  <2>1. j = i
    BY <1>2, <1>5, CounterSpec DEF TypeOK
  <2>2. PICK u \in Launched : i \in Written(u)
    BY <2>1 DEF Settled
  <2>3. i \in Mine(u)
    BY <1>2, <2>2, OwnItems
  <2>4. u = t
    BY <1>2, <1>5, <2>3, ItemsApart DEF TypeOK
  <2> QED BY <1>5, <2>2, <2>4
<1>10. /\ n \in 0 .. IntSpace - 1 /\ hitCount \in Nat /\ MaxHits \in Nat
       /\ outHits \in [Slots -> SlotValue]
  BY <1>2, KernelAssumption DEF TypeOK, Slots
<1>11. outHits' = IF n \in Slots THEN [outHits EXCEPT ![n] = Counter(i)] ELSE outHits
  <2>1. DOMAIN outHits = Slots
    BY <1>10
  <2>2. outHits' = IF SignedInt(n) < MaxHits /\ n \in Slots
                   THEN [outHits EXCEPT ![n] = Counter(i)] ELSE outHits
    BY <2>1 DEF WriteHit
  <2> QED BY <1>10, <2>2, SlotInBuffer
<1>12. ASSUME MatchesFit
       PROVE  /\ n < hitCount
              /\ \A u \in Launched : u # t /\ pc[u] = "write" => slot[u] # n
  BY <1>1, <1>2, <1>12 DEF CountInv
<1>13. \A u \in Launched : pc'[u] = "write" <=> u # t /\ pc[u] = "write"
  BY <1>3
<1>15. TypeOK'
  <2>1. outHits' \in [Slots -> SlotValue]
    BY <1>7, <1>10, <1>11 DEF SlotValue
  <2> QED BY <1>1, <1>2, <1>3, <2>1 DEF FitsBuffer, SignedInt, TypeOK, SlotValue, Slots
<1>16. ItemsInv'
  BY <1>1, <1>2, <1>3, CallFrame DEF ItemsInv
<1>17. CountInv'
  BY <1>1, <1>2, <1>6, <1>13 DEF CountInv
<1>18. HostInv'
  BY <1>1 DEF HostInv
<1>19. CASE n \in Slots
  <2>1. /\ outHits'[n] = Counter(i) /\ Counter(i) # Junk
        /\ \A s \in Slots : s # n => outHits'[s] = outHits[s]
    BY <1>7, <1>10, <1>11, <1>19, KernelAssumption
  <2>2. \A s \in Slots : outHits[s] # Counter(i)
    <3> SUFFICES ASSUME NEW s \in Slots, outHits[s] = Counter(i) PROVE FALSE
      OBVIOUS
    <3>1. PICK j \in Items : Settled(j) /\ outHits[s] = Counter(j)
      BY <1>2, <2>1 DEF SlotsInv
    <3> QED BY <1>9, <3>1
  <2>3. ASSUME NEW s \in Slots
        PROVE  /\ s < hitCount /\ outHits'[s] = Junk =>
                     \E u \in Launched : pc'[u] = "write" /\ slot[u] = s
               /\ outHits'[s] # Junk => \E j \in Items : Settled(j)' /\ outHits'[s] = Counter(j)
    <3>1. CASE s = n
      BY <1>5, <1>8, <2>1, <3>1
    <3>2. CASE s # n
      <4>1. s < hitCount /\ outHits'[s] = Junk =>
               \E u \in Launched : pc'[u] = "write" /\ slot[u] = s
        BY <1>2, <1>13, <2>1, <3>2 DEF SlotsInv
      <4>2. outHits'[s] # Junk => \E j \in Items : Settled(j)' /\ outHits'[s] = Counter(j)
        BY <1>2, <1>8, <2>1, <3>2 DEF SlotsInv
      <4> QED BY <4>1, <4>2
    <3> QED BY <3>1, <3>2
  <2>4. \A r, s \in Slots : outHits'[r] = outHits'[s] => r = s \/ outHits'[r] = Junk
    <3>1. \A r, s \in Slots : outHits[r] = outHits[s] => r = s \/ outHits[r] = Junk
      BY <1>2 DEF SlotsInv
    <3> QED BY <2>1, <2>2, <3>1
  <2>5. SlotsInv'
    BY <1>1, <1>2, <2>3, <2>4 DEF SlotsInv
  <2>6. KeptInv'
    <3> SUFFICES ASSUME MatchesFit
                 PROVE  /\ \A s \in Slots :
                              /\ s >= hitCount => outHits'[s] = Junk
                              /\ outHits'[s] # Junk =>
                                    \A u \in Launched : pc'[u] = "write" => slot[u] # s
                        /\ hitCount <= MaxHits =>
                              \A j \in Items : Settled(j)' => \E s \in Slots : outHits'[s] = Counter(j)
      BY <1>1, <1>2 DEF KeptInv
    <3>1. /\ \A s \in Slots :
                /\ s >= hitCount => outHits[s] = Junk
                /\ outHits[s] # Junk => \A u \in Launched : pc[u] = "write" => slot[u] # s
          /\ hitCount <= MaxHits =>
                \A j \in Items : Settled(j) => \E s \in Slots : outHits[s] = Counter(j)
      BY <1>2 DEF KeptInv
    <3>2. ~(n >= hitCount) /\ \A u \in Launched : pc'[u] = "write" => slot[u] # n
      BY <1>10, <1>12, <1>13
    <3>3. outHits[n] = Junk
      BY <1>1, <1>19, <3>1
    <3>4. ASSUME NEW s \in Slots
          PROVE  /\ s >= hitCount => outHits'[s] = Junk
                 /\ outHits'[s] # Junk =>
                       \A u \in Launched : pc'[u] = "write" => slot[u] # s
      <4>1. CASE s = n
        BY <3>2, <4>1
      <4>2. CASE s # n
        BY <1>13, <2>1, <3>1, <4>2
      <4> QED BY <4>1, <4>2
    <3>5. ASSUME hitCount <= MaxHits, NEW j \in Items, Settled(j)'
          PROVE  \E s \in Slots : outHits'[s] = Counter(j)
      <4>1. CASE j = i
        BY <1>19, <2>1, <4>1
      <4>2. CASE j # i
        <5>1. PICK s \in Slots : outHits[s] = Counter(j)
          BY <1>8, <3>1, <3>5, <4>2
        <5>2. Counter(j) \in Nat
          BY <1>2, CounterSpec DEF TypeOK
        <5>3. s # n
          BY <3>3, <5>1, <5>2, KernelAssumption
        <5> QED BY <2>1, <5>1, <5>3
      <4> QED BY <4>1, <4>2
    <3> QED BY <3>4, <3>5
  <2> QED BY <1>15, <1>16, <1>17, <1>18, <2>5, <2>6 DEF IInv
<1>20. CASE n \notin Slots
  <2>1. outHits' = outHits
    BY <1>11, <1>20
  <2>2. SlotsInv'
    <3>1. ASSUME NEW s \in Slots
          PROVE  /\ s < hitCount /\ outHits[s] = Junk =>
                       \E u \in Launched : pc'[u] = "write" /\ slot[u] = s
                 /\ outHits[s] # Junk => \E j \in Items : Settled(j)' /\ outHits[s] = Counter(j)
      BY <1>2, <1>8, <1>13, <1>20 DEF SlotsInv
    <3>2. \A r, s \in Slots : outHits[r] = outHits[s] => r = s \/ outHits[r] = Junk
      BY <1>2 DEF SlotsInv
    <3> QED BY <1>1, <1>2, <2>1, <3>1, <3>2 DEF SlotsInv
  <2>3. KeptInv'
    <3>1. MatchesFit => hitCount > MaxHits
      BY <1>10, <1>12, <1>20 DEF Slots
    <3>2. MatchesFit =>
             \A s \in Slots :
                /\ s >= hitCount => outHits[s] = Junk
                /\ outHits[s] # Junk => \A u \in Launched : pc[u] = "write" => slot[u] # s
      BY <1>2 DEF KeptInv
    <3>3. hitCount > MaxHits => ~(hitCount <= MaxHits)
      BY <1>10
    <3> QED BY <1>1, <1>2, <1>13, <2>1, <3>1, <3>2, <3>3 DEF KeptInv
  <2> QED BY <1>15, <1>16, <1>17, <1>18, <2>2, <2>3 DEF IInv
<1> QED BY <1>19, <1>20

-----------------------------------------------------------------------------
(***************************************************************************)
(* Steps of the host.                                                      *)
(***************************************************************************)

\* What the device has done does not depend on the host.
LEMMA DeviceFrame ==
    ASSUME ItemsInv, CountInv, SlotsInv, KeptInv, UNCHANGED <<call, matching, device>>
    PROVE  ItemsInv' /\ CountInv' /\ SlotsInv' /\ KeptInv'
<1>1. /\ Launched' = Launched /\ Items' = Items /\ Slots' = Slots
      /\ \A i : Counter(i)' = Counter(i)
      /\ \A u \in Launched : Mine(u)' = Mine(u) /\ Written(u)' = Written(u)
      /\ \A u \in Launched : InHand(u)' = InHand(u)
  BY CallFrame, ThreadFrame DEF device, Slots
<1>2. /\ Reported' = Reported /\ \A i \in Items : Settled(i)' = Settled(i)
      /\ MatchesFit' = MatchesFit
  BY <1>1, CallFrame, ReportedFrame, SettledFrame
<1>3. ItemsInv'
  BY <1>1 DEF ItemsInv, device
<1>4. CountInv'
  BY <1>1, <1>2 DEF CountInv, device
<1>5. SlotsInv'
  BY <1>1, <1>2 DEF SlotsInv, device
<1>6. KeptInv'
  BY <1>1, <1>2 DEF KeptInv, device
<1> QED BY <1>3, <1>4, <1>5, <1>6

\* The host launches, waits, copies what it waited for, or gives up.
LEMMA HostStep ==
    ASSUME IInv, Launch \/ RuntimeFails \/ Synchronise \/ CopyHits \/ UNCHANGED vars
    PROVE  IInv'
<1>1. UNCHANGED <<call, matching, device>>
  BY DEF Launch, RuntimeFails, Synchronise, CopyHits, vars
<1>2. /\ TypeOK /\ ItemsInv /\ CountInv /\ SlotsInv /\ KeptInv /\ HostInv
      /\ Launched' = Launched
  BY <1>1, CallFrame DEF IInv
<1>3. ItemsInv' /\ CountInv' /\ SlotsInv' /\ KeptInv'
  BY <1>1, <1>2, DeviceFrame
<1>4. hitCount \in 0 .. IntSpace - 1 /\ MaxHits \in Nat /\ IntSpace \in Nat
  BY <1>2, KernelAssumption DEF TypeOK
<1>5. /\ host' \in {"setup", "sync", "copy", "returned", "failed"}
      /\ copied' \in 0 .. IntSpace - 1 /\ FitsBuffer(copied)'
      /\ answer' \in Seq(SlotValue) /\ HostInv'
  <2>1. CASE Launch
    BY <1>2, <2>1 DEF FitsBuffer, SignedInt, Launch, HostInv, TypeOK
  <2>2. CASE RuntimeFails
    BY <1>2, <2>2 DEF FitsBuffer, SignedInt, RuntimeFails, HostInv, TypeOK
  <2>3. CASE Synchronise
    <3>1. /\ copied' = Cut(hitCount)
          /\ host' = "copy" /\ answer' = answer /\ \A t \in Launched : pc[t] = "exit"
      BY <2>3 DEF Synchronise
    <3>2. Cut(hitCount) \in 0 .. IntSpace - 1 /\ FitsBuffer(Cut(hitCount))
      BY <1>4, CutSpec
    <3>3. Cut(hitCount)' = Cut(hitCount)
      BY <1>1 DEF Cut, device
    <3>4. HostInv'
      BY <1>1, <1>2, <3>1, <3>3 DEF HostInv, device
    <3> QED BY <1>1, <1>2, <3>1, <3>2, <3>4 DEF FitsBuffer, SignedInt, TypeOK
  <2>4. CASE CopyHits
    <3>1. /\ answer' = [j \in 1 .. copied |-> outHits[j - 1]] /\ copied <= MaxHits
          /\ host = "copy" /\ host' = "returned" /\ copied' = copied
      BY <2>4 DEF CopyHits
    <3>2. copied \in Nat /\ copied <= MaxHits
      BY <1>2, <1>4, <3>1 DEF TypeOK
    <3>3. \A j \in 1 .. copied : outHits[j - 1] \in SlotValue
      BY <1>2, <1>4, <3>2 DEF TypeOK
    <3>4. answer' \in Seq(SlotValue)
      BY <3>1, <3>2, <3>3
    <3>5. Cut(hitCount)' = Cut(hitCount)
      BY <1>1 DEF Cut, device
    <3>6. HostInv'
      BY <1>1, <1>2, <3>1, <3>5 DEF HostInv, device
    <3> QED BY <1>1, <1>2, <3>1, <3>4, <3>6 DEF FitsBuffer, SignedInt, TypeOK
  <2>5. CASE UNCHANGED vars
    <3>1. Cut(hitCount)' = Cut(hitCount)
      BY <1>1 DEF Cut, device
    <3> QED BY <1>1, <1>2, <2>5, <3>1 DEF FitsBuffer, SignedInt, HostInv, TypeOK, vars, device
  <2> QED BY <2>1, <2>2, <2>3, <2>4, <2>5
<1>6. TypeOK'
  BY <1>1, <1>2, <1>5 DEF TypeOK, SlotValue, device
<1> QED BY <1>3, <1>5, <1>6 DEF IInv

\* At the launch no thread has done anything and no slot is taken.
LEMMA IInvInit == Init => IInv
<1> SUFFICES ASSUME Init PROVE IInv
  OBVIOUS
<1>1. MaxHits \in Nat /\ CtrSpace \in Nat
  BY KernelAssumption
<1>2. TypeOK
  <2>1. 0 \in 0 .. IntSpace - 1 /\ FitsBuffer(0)
    BY <1>1, KernelAssumption DEF FitsBuffer, SignedInt
  <2> QED BY <2>1 DEF Init, TypeOK, SlotValue
<1>3. \A t \in Launched : pc[t] = "start" /\ Written(t) = {} /\ InHand(t) = {}
  BY DEF Init, Written, InHand
<1>4. ItemsInv
  BY <1>3 DEF ItemsInv
<1>5. CountInv
  <2>1. Reported = {}
    BY <1>3 DEF Reported
  <2> QED BY <1>3, <2>1, FS_EmptySet DEF CountInv, Init
<1>6. \A s \in Slots : outHits[s] = Junk /\ s >= hitCount /\ ~(s < hitCount)
  BY <1>1 DEF Init, Slots
<1>7. SlotsInv
  BY <1>6 DEF SlotsInv
<1>8. KeptInv
  BY <1>3, <1>6 DEF KeptInv, Settled
<1>9. HostInv
  BY DEF HostInv, Init
<1> QED BY <1>2, <1>4, <1>5, <1>7, <1>8, <1>9 DEF IInv

\* The invariant holds of every batch, whatever the order of its threads.
LEMMA IInvAlways == Spec => []IInv
<1>1. ASSUME IInv, [Next]_vars PROVE IInv'
  <2>1. CASE \E t \in Launched : Thread(t)
    <3>1. PICK t \in Launched : Thread(t)
      BY <2>1
    <3>2. CASE StartIdle(t) \/ Start(t)
      BY <1>1, <3>2, StartStep
    <3>3. CASE NoMatch(t)
      BY <1>1, <3>3, NoMatchStep
    <3>4. CASE TakeSlot(t)
      BY <1>1, <3>4, TakeSlotStep
    <3>5. CASE WriteHit(t)
      BY <1>1, <3>5, WriteHitStep
    <3> QED BY <3>1, <3>2, <3>3, <3>4, <3>5 DEF Thread
  <2>2. CASE Launch \/ RuntimeFails \/ Synchronise \/ CopyHits \/ UNCHANGED vars
    BY <1>1, <2>2, HostStep
  <2> QED BY <1>1, <2>1, <2>2 DEF Next, Done
<1> QED BY <1>1, IInvInit, PTL DEF Spec

-----------------------------------------------------------------------------
(***************************************************************************)
(* The theorems.                                                           *)
(***************************************************************************)

\* The slots of the buffer, the count that is read and the state of every thread
\* stay in their types, whatever the launch and the order of the threads: a count
\* that does not read as negative is cut to the buffer.
THEOREM KernelTypeCorrect == Spec => []TypeOK
<1>1. IInv => TypeOK
  BY DEF IInv
<1> QED BY <1>1, IInvAlways, PTL

\* Unless a batch has more matches than an unsigned int can count, each slot that
\* atomicAdd handed out is written by one thread with its own key, and no slot
\* beyond them is touched; no key of any batch has two slots.
THEOREM KernelSlotsAccounted == Spec => []SlotsAccounted
<1>1. ASSUME IInv PROVE SlotsAccounted
  <2>1. TypeOK /\ CountInv /\ SlotsInv /\ KeptInv
    BY <1>1 DEF IInv
  <2>2. ASSUME MatchesFit, NEW s \in Slots
        PROVE  \/ s < hitCount /\ outHits[s] \in BatchHits /\ Writers(s) = {}
               \/ s < hitCount /\ outHits[s] = Junk /\ \E t \in Launched : Writers(s) = {t}
               \/ s >= hitCount /\ outHits[s] = Junk /\ Writers(s) = {}
    <3>1. s \in Nat /\ hitCount \in Nat
      BY <2>1, KernelAssumption DEF Slots, TypeOK
    <3>2. CASE outHits[s] # Junk
      <4>1. s < hitCount
        BY <2>1, <2>2, <3>1, <3>2 DEF KeptInv
      <4>2. Writers(s) = {}
        BY <2>1, <2>2, <3>2 DEF KeptInv, Writers
      <4>3. PICK i \in Items : Settled(i) /\ outHits[s] = Counter(i)
        BY <2>1, <3>2 DEF SlotsInv
      <4>4. outHits[s] \in BatchHits
        BY <4>3 DEF Settled, BatchHits, Matches
      <4> QED BY <4>1, <4>2, <4>4
    <3>3. CASE outHits[s] = Junk /\ s < hitCount
      <4>1. PICK t \in Launched : pc[t] = "write" /\ slot[t] = s
        BY <2>1, <3>3 DEF SlotsInv
      <4>2. Writers(s) = {t}
        BY <2>1, <2>2, <4>1 DEF CountInv, Writers
      <4> QED BY <3>3, <4>2
    <3>4. CASE outHits[s] = Junk /\ ~(s < hitCount)
      <4>1. ASSUME NEW t \in Launched, pc[t] = "write" PROVE slot[t] # s
        BY <2>1, <2>2, <3>4, <4>1 DEF CountInv
      <4>2. Writers(s) = {}
        BY <4>1 DEF Writers
      <4> QED BY <3>1, <3>4, <4>2
    <3> QED BY <3>2, <3>3, <3>4
  <2>3. \A r, s \in Slots : outHits[r] = outHits[s] => r = s \/ outHits[r] = Junk
    BY <2>1 DEF SlotsInv
  <2> QED BY <2>2, <2>3 DEF SlotsAccounted, Slots
<1> QED BY <1>1, IInvAlways, PTL

\* Of a batch of any size the caller gets different matching keys and no slot that
\* was not written, though blocks and matches may exceed what an unsigned int can
\* tell.  If they do not, it gets all the matching keys, or as many as the buffer
\* has room for: the launch covers every item once, the count is not read before
\* the threads end and is cut to the buffer.
THEOREM KernelAnswerIsExact == Spec => []AnswerIsExact
<1>1. ASSUME IInv PROVE AnswerIsExact
  <2> SUFFICES ASSUME host = "returned"
               PROVE  LET reported == {answer[j] : j \in DOMAIN answer}
                      IN /\ reported \subseteq BatchHits
                         /\ Cardinality(reported) = Len(answer)
                         /\ LaunchFits /\ MatchesFit =>
                               reported = BatchHits \/ Len(answer) = MaxHits
    BY DEF AnswerIsExact
  <2> DEFINE reported == {answer[j] : j \in DOMAIN answer}
  <2>1. TypeOK /\ CountInv /\ SlotsInv /\ KeptInv
    BY <1>1 DEF IInv
  <2>2. /\ \A t \in Launched : pc[t] = "exit"
        /\ copied = Cut(hitCount) /\ copied <= MaxHits
        /\ answer = [j \in 1 .. copied |-> outHits[j - 1]]
    BY <1>1 DEF IInv, HostInv
  <2>3. /\ hitCount \in Nat /\ MaxHits \in Nat /\ copied \in Nat
        /\ copied <= hitCount /\ copied <= MaxHits
        /\ hitCount > MaxHits => copied = MaxHits
        /\ ~(hitCount > MaxHits) => copied = hitCount
    <3>1. hitCount \in 0 .. IntSpace - 1 /\ MaxHits \in Nat /\ IntSpace \in Nat
      BY <2>1, KernelAssumption DEF TypeOK
    <3> QED BY <2>2, <3>1, CutSpec
  <2>4. DOMAIN answer = 1 .. copied /\ Len(answer) = copied
    BY <2>1, <2>2, <2>3 DEF TypeOK
  <2>5. ASSUME NEW j \in 1 .. copied
        PROVE  /\ j - 1 \in Slots /\ answer[j] = outHits[j - 1]
               /\ outHits[j - 1] # Junk /\ outHits[j - 1] \in BatchHits
    <3>1. j - 1 \in Slots /\ j - 1 < hitCount
      BY <2>3 DEF Slots
    <3>2. outHits[j - 1] # Junk
      BY <2>1, <2>2, <3>1 DEF SlotsInv
    <3>3. PICK i \in Items : Settled(i) /\ outHits[j - 1] = Counter(i)
      BY <2>1, <3>1, <3>2 DEF SlotsInv
    <3> QED BY <2>2, <3>1, <3>2, <3>3 DEF Settled, BatchHits, Matches
  <2>6. reported \subseteq BatchHits
    BY <2>4, <2>5
  <2>7. Cardinality(reported) = Len(answer)
    <3>1. ASSUME NEW j \in 1 .. copied, NEW k \in 1 .. copied, answer[j] = answer[k]
          PROVE  j = k
      <4>1. j - 1 = k - 1
        BY <2>1, <2>5, <3>1 DEF SlotsInv
      <4> QED BY <4>1
    <3>2. answer \in [1 .. copied -> reported]
      BY <2>2, <2>4
    <3>3. \A y \in reported : \E j \in 1 .. copied : answer[j] = y
      BY <2>4
    <3> HIDE DEF reported
    <3>4. answer \in Bijection(1 .. copied, reported)
      BY <3>1, <3>2, <3>3 DEF Bijection, Injection, Surjection, IsInjective
    <3>5. ExistsBijection(1 .. copied, reported)
      BY <3>4 DEF ExistsBijection
    <3> QED BY <2>3, <2>4, <3>5, FS_CountingElements
  <2>8. ASSUME LaunchFits, MatchesFit, ~(hitCount > MaxHits)
        PROVE  BatchHits \subseteq reported
    <3> SUFFICES ASSUME NEW i \in Items, Counter(i) \in matching
                 PROVE  Counter(i) \in reported
      BY DEF BatchHits, Matches
    <3>1. PICK t \in Launched : i \in Mine(t)
      BY <2>1, <2>8, ItemsCovered DEF TypeOK
    <3>2. Settled(i)
      BY <2>2, <3>1 DEF Settled, Written
    <3>3. PICK s \in Slots : outHits[s] = Counter(i)
      BY <2>1, <2>3, <2>8, <3>2 DEF KeptInv
    <3>4. outHits[s] # Junk
      BY <2>1, <3>3, CounterSpec, KernelAssumption DEF TypeOK
    <3>5. s \in Nat /\ s < copied
      BY <2>1, <2>3, <2>8, <3>4 DEF KeptInv, Slots
    <3>6. s + 1 \in 1 .. copied /\ (s + 1) - 1 = s
      BY <2>3, <3>5
    <3> QED BY <2>4, <2>5, <3>3, <3>6
  <2>9. ASSUME LaunchFits, MatchesFit
        PROVE  reported = BatchHits \/ Len(answer) = MaxHits
    <3>1. CASE hitCount > MaxHits
      BY <2>3, <2>4, <3>1
    <3>2. CASE ~(hitCount > MaxHits)
      BY <2>6, <2>8, <2>9, <3>2
    <3> QED BY <3>1, <3>2
  <2> QED BY <2>6, <2>7, <2>9
<1> QED BY <1>1, IInvAlways, PTL

=============================================================================
