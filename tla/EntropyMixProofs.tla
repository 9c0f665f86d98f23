--------------------------- MODULE EntropyMixProofs ---------------------------
(***************************************************************************)
(* Theorems about EntropyMix, for any set of threads, any size of the      *)
(* contributions, of the device's replies and of the counter.              *)
(***************************************************************************)
EXTENDS EntropyMix, TLAPS

-----------------------------------------------------------------------------
(***************************************************************************)
(* The inductive invariant.                                                *)
(***************************************************************************)

Ready == device # "unknown"

\* Until the mixer is made no thread uses it, and nothing has come out of it.
PhaseInv ==
    /\ ~Ready => /\ earlier = {} /\ outputs = <<>>
                 /\ \A w \in Threads : pc[w] \in {"open", "probe", "wait"}
                 /\ \A w \in Threads : local[w].buf = Fresh.buf
    /\ Ready => \A w \in Threads : pc[w] \notin {"open", "probe", "wait"}

\* The threads that hold the cache's lock: one writer, or readers.
LockInv ==
    /\ \A w \in Threads : /\ w \in writing <=> pc[w] \in {"writeJitter", "writeTpm"}
                          /\ w \in reading <=> pc[w] \in {"readTpm", "readJitter"}
    /\ \A v, w \in writing : v = w
    /\ writing = {} \/ reading = {}

\* The counter numbers the outputs.
CtrInv ==
    /\ ctr = Len(outputs) % CtrSpace
    /\ \A j \in 1 .. Len(outputs) : outputs[j].ctr = (j - 1) % CtrSpace

\* Threads that drew jitter and have not stored it.
Pending == {w \in Threads : pc[w] \in {"lockTpm", "exchange", "lockWrite", "writeJitter"}}

\* Every contribution that was ever cached as a whole.
Shown == earlier \cup {Cache}

\* A thread's buffer holds what its own call of tpm2_get_random has filled so
\* far, and no two threads have the same call or the same draw.
CallInv ==
    /\ \A w \in Threads :
          /\ local[w].read <= reads
          /\ pc[w] \in {"probe", "exchange"} => local[w].read > 0
          /\ local[w].filled > 0 => local[w].read > 0
          /\ \A i \in 1 .. Size :
                local[w].b[i] = IF i <= local[w].filled THEN local[w].read ELSE 0
    /\ \A v, w \in Threads : local[v].read > 0 /\ local[v].read = local[w].read => v = w
    /\ \A w \in Pending : local[w].jitter > 0 /\ local[w].jitter <= draws
    /\ \A v, w \in Pending : local[v].jitter = local[w].jitter => v = w

\* What a thread is about to store was never cached.
StampInv ==
    Ready =>
        /\ \A c \in Shown : c.jitter <= draws /\ c.tpm[1] <= reads
        /\ \A w \in Pending, c \in Shown : c.jitter # local[w].jitter
        /\ \A w \in Threads : local[w].read > 0 /\ pc[w] # "writeTpm" =>
              \A c \in Shown : c.tpm[1] # local[w].read

Part(o) == [jitter |-> o.jitter, tpm |-> o.tpm]

\* An output's contributions were cached, and are no longer once its thread w
\* has refreshed them; so they are not those that w has taken since.
OutputInv(o, w) ==
    /\ o.own.refreshes <= own[w].refreshes /\ o.own.tpm <= own[w].tpm
    /\ Part(o) \in Shown
    /\ o.own.refreshes < own[w].refreshes \/ pc[w] = "writeTpm" => o.jitter # Cache.jitter
    /\ o.own.tpm < own[w].tpm \/ pc[w] = "writeTpm" => o.tpm[1] # Cache.tpm[1]
    /\ pc[w] = "count" =>
          /\ o.own.refreshes < own[w].refreshes => o.jitter # local[w].buf.jitter
          /\ o.own.tpm < own[w].tpm => o.tpm[1] # local[w].buf.tpm[1]

OwnInv ==
    /\ \A j \in 1 .. Len(outputs) : OutputInv(outputs[j], outputs[j].by)
    /\ \A w \in Threads : /\ pc[w] = "readJitter" => local[w].copied = cached.tpm
                          /\ pc[w] = "count" => local[w].buf \in Shown
    /\ \A i, j \in 1 .. Len(outputs) :
          LET o == outputs[i]  p == outputs[j]
          IN o.by = p.by =>
               /\ o.own.refreshes < p.own.refreshes => o.jitter # p.jitter
               /\ o.own.tpm < p.own.tpm => o.tpm[1] # p.tpm[1]

IInv == TypeOK /\ PhaseInv /\ LockInv /\ CtrInv /\ CallInv /\ StampInv /\ OwnInv

\* The constants, and the locals of a thread, one by one.
LEMMA SizeType == Size \in Nat \ {0} /\ CtrSpace \in Nat \ {0} /\ 1 \in 1 .. Size
<1>1. Size \in Nat \ {0} /\ CtrSpace \in Nat \ {0}
  BY EntropyMixAssumption
<1> QED BY <1>1

\* The fields of the local variables of a thread.
LEMMA LocalType ==
    ASSUME NEW l \in Local
    PROVE  /\ l.jitter \in Nat /\ l.b \in Bytes /\ l.filled \in 0 .. Size /\ l.read \in Nat
           /\ l.filled \in Nat /\ l.filled <= Size
           /\ l.copied \in Bytes /\ l.buf \in [jitter : Nat, tpm : Bytes]
<1>1. /\ l.jitter \in Nat /\ l.b \in Bytes /\ l.filled \in 0 .. Size /\ l.read \in Nat
      /\ l.copied \in Bytes /\ l.buf \in [jitter : Nat, tpm : Bytes]
  BY DEF Local
<1> QED BY <1>1, SizeType

\* A thread starts with zeroed buffers, which are local variables.
LEMMA FreshType == Fresh \in Local /\ Zeros \in Bytes /\ Fresh.buf \in [jitter : Nat, tpm : Bytes]
<1>1. Zeros \in Bytes
  BY DEF Zeros, Bytes
<1>2. 0 \in 0 .. Size
  BY SizeType
<1> QED BY <1>1, <1>2 DEF Fresh, Local

\* An output names its thread and what that had refreshed.
LEMMA OutputsType ==
    ASSUME TypeOK
    PROVE  /\ Len(outputs) \in Nat
           /\ \A j \in 1 .. Len(outputs) :
                 LET o == outputs[j]
                 IN /\ o \in OutputRecord /\ o.by \in Threads
                    /\ o.jitter \in Nat /\ o.tpm \in Bytes /\ o.tpm[1] \in Nat
                    /\ o.own.refreshes \in Nat /\ o.own.tpm \in Nat
<1>1. outputs \in Seq(OutputRecord)
  BY DEF TypeOK
<1>2. Len(outputs) \in Nat /\ \A j \in 1 .. Len(outputs) : outputs[j] \in OutputRecord
  <2> HIDE DEF OutputRecord
  <2> QED BY <1>1
<1>3. ASSUME NEW o \in OutputRecord
      PROVE  /\ o.by \in Threads /\ o.jitter \in Nat /\ o.tpm \in Bytes /\ o.tpm[1] \in Nat
             /\ o.own.refreshes \in Nat /\ o.own.tpm \in Nat
  BY SizeType DEF OutputRecord, Bytes
<1> HIDE DEF OutputRecord
<1> QED BY <1>2, <1>3

\* The types, for a step that produces no output and caches nothing.
LEMMA TypeStep ==
    ASSUME TypeOK, UNCHANGED <<device, cached, ctr, earlier, own, outputs>>,
           tpmLock' \in SUBSET Threads, writing' \in SUBSET Threads,
           reading' \in SUBSET Threads, pc' \in [Threads -> Labels],
           local' \in [Threads -> Local], draws' \in Nat, reads' \in Nat
    PROVE  TypeOK'
<1>1. ctr' \in 0 .. CtrSpace - 1 /\ outputs' \in Seq(OutputRecord) /\ own' = own
  BY DEF TypeOK
<1>2. Labels' = Labels /\ Local' = Local /\ Bytes' = Bytes /\ OutputRecord' = OutputRecord
  BY DEF Labels, InNext, Local, Bytes, OutputRecord
<1> QED BY <1>1, <1>2 DEF TypeOK

\* A call of tpm2_get_random begins with nothing filled.
LEMMA BeginReadSpec ==
    ASSUME TypeOK, NEW w \in Threads, BeginRead(w)
    PROVE  /\ local' \in [Threads -> Local] /\ reads' = reads + 1
           /\ \A v \in Threads : v # w => local'[v] = local[v]
           /\ local'[w].b = Zeros /\ local'[w].filled = 0 /\ local'[w].read = reads'
           /\ local'[w].jitter = local[w].jitter /\ local'[w].buf = local[w].buf
           /\ local'[w].copied = local[w].copied
<1>1. local \in [Threads -> Local] /\ reads \in Nat
  BY DEF TypeOK
<1>2. local[w] \in Local
  BY <1>1
<1> DEFINE l == [local[w] EXCEPT !.b = Zeros, !.filled = 0, !.read = reads + 1]
<1>3. reads' = reads + 1 /\ local' = [local EXCEPT ![w] = l]
  BY <1>1, <1>2 DEF BeginRead, Local
<1>4. /\ l.b = Zeros /\ l.filled = 0 /\ l.read = reads + 1 /\ l.jitter = local[w].jitter
      /\ l.buf = local[w].buf /\ l.copied = local[w].copied
  BY <1>2 DEF Local
<1>5. l \in Local
  <2>1. Zeros \in Bytes /\ 0 \in 0 .. Size /\ reads + 1 \in Nat
    BY <1>1, FreshType, SizeType
  <2> QED BY <1>2, <2>1 DEF Local
<1> HIDE DEF l
<1> QED BY <1>1, <1>3, <1>4, <1>5

\* A reply fills the bytes that it has, and never more than are wanted.
LEMMA FilledSpec ==
    ASSUME TypeOK, NEW w \in Threads, NEW n \in Nat
    PROVE  LET F == Filled(w, n)
           IN /\ F \in [Threads -> Local]
              /\ \A v \in Threads : v # w => F[v] = local[v]
              /\ F[w].filled >= local[w].filled /\ F[w].filled = local[w].filled + Taken(w, n)
              /\ \A i \in 1 .. Size :
                    F[w].b[i] = IF i > local[w].filled /\ i <= F[w].filled
                                THEN local[w].read ELSE local[w].b[i]
              /\ F[w].read = local[w].read /\ F[w].jitter = local[w].jitter
              /\ F[w].buf = local[w].buf /\ F[w].copied = local[w].copied
<1>1. local \in [Threads -> Local] /\ local[w] \in Local
  BY DEF TypeOK
<1>2. /\ local[w].filled \in Nat /\ local[w].filled <= Size /\ Size \in Nat
      /\ local[w].read \in Nat /\ local[w].b \in Bytes
  BY <1>1, LocalType, SizeType
<1>3. /\ Taken(w, n) \in Nat /\ local[w].filled + Taken(w, n) \in 0 .. Size
  BY <1>2 DEF Taken
<1> DEFINE f == local[w].filled + Taken(w, n)
           b == [i \in 1 .. Size |-> IF i > local[w].filled /\ i <= f
                                     THEN local[w].read ELSE local[w].b[i]]
           l == [local[w] EXCEPT !.b = b, !.filled = f]
<1>4. b \in Bytes
  BY <1>2 DEF Bytes
<1>5. Filled(w, n) = [local EXCEPT ![w] = l]
  BY <1>1 DEF Filled, Local
<1> HIDE DEF f
<1>6. \A i \in 1 .. Size : b[i] = IF i > local[w].filled /\ i <= f
                                  THEN local[w].read ELSE local[w].b[i]
  OBVIOUS
<1> HIDE DEF b
<1>7. /\ l.b = b /\ l.filled = f /\ l.read = local[w].read /\ l.jitter = local[w].jitter
      /\ l.buf = local[w].buf /\ l.copied = local[w].copied
  BY <1>1 DEF Local
<1>8. l \in Local
  <2>1. f \in 0 .. Size
    BY <1>3 DEF f
  <2> QED BY <1>1, <1>4, <2>1 DEF Local
<1> HIDE DEF l
<1>9. f = local[w].filled + Taken(w, n) /\ f >= local[w].filled
  BY <1>2, <1>3 DEF f
<1> QED BY <1>1, <1>5, <1>6, <1>7, <1>8, <1>9

-----------------------------------------------------------------------------
(***************************************************************************)
(* The cached contributions as the readers see them.                       *)
(***************************************************************************)

Contribution == [jitter : Nat, tpm : Bytes]

\* The writer between its two stores is alone.
LEMMA HalfWrittenSpec ==
    ASSUME LockInv, NEW w \in Threads, pc[w] \in {"writeJitter", "writeTpm"}
    PROVE  /\ pc[w] = "writeTpm" => HalfWritten = {w}
           /\ pc[w] = "writeJitter" => HalfWritten = {}
           /\ \A v \in Threads : v # w => pc[v] \notin {"writeJitter", "writeTpm"}
           /\ \A v \in Threads : pc[v] \notin {"readTpm", "readJitter"}
  BY DEF LockInv, HalfWritten

\* The contributions of the mixer: those cached, but for the TPM bytes that the
\* thread between its two stores still holds.
LEMMA CacheSpec ==
    ASSUME TypeOK
    PROVE  /\ Ready /\ HalfWritten = {} => Cache = cached
           /\ \A w \in Threads : Ready /\ HalfWritten = {w} =>
                 Cache = [jitter |-> cached.jitter, tpm |-> local[w].b]
           /\ Ready => Cache \in Contribution /\ Cache.jitter = cached.jitter
           /\ ~Ready => Cache = NotMade
<1>1. cached \in Contribution /\ \A w \in Threads : local[w].b \in Bytes
  BY LocalType DEF TypeOK, Contribution
<1>2. cached = [jitter |-> cached.jitter, tpm |-> cached.tpm]
  BY <1>1 DEF Contribution
<1>3. ASSUME Ready, HalfWritten = {} PROVE Cache = cached
  BY <1>2, <1>3 DEF Cache, Ready
<1>4. ASSUME Ready, NEW w \in Threads, HalfWritten = {w}
      PROVE  Cache = [jitter |-> cached.jitter, tpm |-> local[w].b]
  <2>1. (CHOOSE v \in HalfWritten : TRUE) = w /\ HalfWritten # {}
    BY <1>4
  <2> QED BY <1>4, <2>1 DEF Cache, Ready
<1>5. ASSUME Ready PROVE Cache \in Contribution /\ Cache.jitter = cached.jitter
  <2> DEFINE bytes == IF HalfWritten = {} THEN cached.tpm
                      ELSE local[CHOOSE v \in HalfWritten : TRUE].b
  <2>1. bytes \in Bytes
    <3>1. CASE HalfWritten = {}
      BY <1>1, <3>1 DEF Contribution
    <3>2. CASE HalfWritten # {}
      <4>1. (CHOOSE v \in HalfWritten : TRUE) \in Threads
        BY <3>2 DEF HalfWritten
      <4> QED BY <1>1, <3>2, <4>1
    <3> QED BY <3>1, <3>2
  <2>2. Cache = [jitter |-> cached.jitter, tpm |-> bytes]
    BY <1>5 DEF Cache, Ready
  <2> HIDE DEF bytes
  <2> QED BY <1>1, <2>1, <2>2 DEF Contribution
<1>6. ASSUME ~Ready PROVE Cache = NotMade
  BY <1>6 DEF Cache, Ready
<1> QED BY <1>3, <1>4, <1>5, <1>6

\* All the contributions cached so far have stamps of jitter and of a read.
LEMMA ShownType ==
    ASSUME TypeOK, Ready
    PROVE  /\ Shown \subseteq Contribution /\ Cache \in Shown
           /\ \A c \in Shown : c.jitter \in Nat /\ c.tpm[1] \in Nat
<1>1. Shown \subseteq Contribution /\ Cache \in Shown
  BY CacheSpec DEF Shown, TypeOK, Contribution
<1>2. \A c \in Contribution : c.jitter \in Nat /\ c.tpm[1] \in Nat
  BY SizeType DEF Contribution, Bytes
<1> QED BY <1>1, <1>2

\* They change only when a writer stores.
LEMMA CacheFrame ==
    ASSUME device' = device, cached' = cached, earlier' = earlier,
           HalfWritten' = HalfWritten, \A w \in HalfWritten : local'[w].b = local[w].b
    PROVE  Cache' = Cache /\ Shown' = Shown /\ (Ready' <=> Ready)
<1>1. Cache' = Cache
  <2>1. CASE HalfWritten = {}
    BY <2>1 DEF Cache
  <2>2. CASE HalfWritten # {}
    <3>1. (CHOOSE w \in HalfWritten : TRUE) \in HalfWritten
      BY <2>2
    <3> QED BY <2>2, <3>1 DEF Cache
  <2> QED BY <2>1, <2>2
<1> QED BY <1>1 DEF Shown, Ready

\* A step of one thread that stores nothing and ends no call of next.
LEMMA QuietStep ==
    ASSUME IInv, NEW w \in Threads,
           UNCHANGED <<device, cached, earlier, outputs, own, ctr>>,
           pc[w] \notin {"open", "probe", "wait", "writeTpm"},
           pc'[w] \notin {"open", "probe", "wait", "writeTpm", "count"},
           \A v \in Threads : v # w => pc'[v] = pc[v] /\ local'[v] = local[v],
           pc'[w] = "readJitter" => local'[w].copied = cached.tpm
    PROVE  /\ Cache' = Cache /\ Shown' = Shown /\ Ready /\ Ready'
           /\ PhaseInv' /\ CtrInv' /\ OwnInv'
<1>1. TypeOK /\ PhaseInv /\ CtrInv /\ OwnInv
  BY DEF IInv
<1>2. HalfWritten' = HalfWritten /\ w \notin HalfWritten /\ HalfWritten \subseteq Threads
  BY DEF HalfWritten
<1>3. Cache' = Cache /\ Shown' = Shown /\ (Ready' <=> Ready)
  BY <1>2, CacheFrame
<1>4. Ready
  BY <1>1 DEF PhaseInv
<1>5. PhaseInv'
  BY <1>1, <1>3, <1>4 DEF PhaseInv
<1>6. CtrInv'
  BY <1>1 DEF CtrInv
<1>7. \A v \in Threads : /\ pc'[v] = "writeTpm" => pc[v] = "writeTpm"
                         /\ pc'[v] = "count" => pc[v] = "count" /\ local'[v] = local[v]
                         /\ pc'[v] = "readJitter" =>
                               \/ local'[v].copied = cached.tpm
                               \/ pc[v] = "readJitter" /\ local'[v] = local[v]
  OBVIOUS
<1>8. \A j \in 1 .. Len(outputs) : outputs[j].by \in Threads
  BY <1>1, OutputsType
<1>9. \A o, v : v \in Threads /\ OutputInv(o, v) => OutputInv(o, v)'
  BY <1>3, <1>7 DEF OutputInv, Part
<1>10. \A v \in Threads : /\ pc'[v] = "readJitter" => local'[v].copied = cached.tpm
                          /\ pc'[v] = "count" => local'[v].buf \in Shown
  BY <1>1, <1>7 DEF OwnInv
<1>11. OwnInv'
  BY <1>1, <1>3, <1>8, <1>9, <1>10 DEF OwnInv
<1> QED BY <1>3, <1>4, <1>5, <1>6, <1>11

\* A step that neither draws nor reads keeps the calls and their numbers.
LEMMA KeepCalls ==
    ASSUME CallInv, StampInv, UNCHANGED <<draws, reads>>, Pending' = Pending,
           (Ready' <=> Ready), Shown' = Shown,
           \A v \in Threads :
              /\ local'[v].read = local[v].read /\ local'[v].filled = local[v].filled
              /\ local'[v].b = local[v].b /\ local'[v].jitter = local[v].jitter
              /\ pc'[v] \in {"probe", "exchange"} => pc[v] \in {"probe", "exchange"}
              /\ pc[v] = "writeTpm" => pc'[v] = "writeTpm"
    PROVE  CallInv' /\ StampInv'
<1>1. Pending \subseteq Threads
  BY DEF Pending
<1>2. CallInv'
  BY <1>1 DEF CallInv
<1>3. StampInv'
  BY <1>1 DEF StampInv
<1> QED BY <1>2, <1>3

\* A step of one thread whose new numbers, if any, were not given out before.
LEMMA CallStep ==
    ASSUME TypeOK, CallInv, NEW w \in Threads,
           local' \in [Threads -> Local], draws' \in Nat, reads' \in Nat,
           draws <= draws', reads <= reads',
           \A v \in Threads : v # w => pc'[v] = pc[v] /\ local'[v] = local[v],
           local'[w].read <= reads',
           pc'[w] \in {"probe", "exchange"} => local'[w].read > 0,
           local'[w].filled > 0 => local'[w].read > 0,
           \A i \in 1 .. Size :
              local'[w].b[i] = IF i <= local'[w].filled THEN local'[w].read ELSE 0,
           \/ local'[w].read = 0 \/ local'[w].read > reads
           \/ local'[w].read = local[w].read,
           w \in Pending' =>
              \/ w \in Pending /\ local'[w].jitter = local[w].jitter
              \/ local'[w].jitter > draws /\ local'[w].jitter <= draws'
    PROVE  CallInv'
<1>1. /\ draws \in Nat /\ reads \in Nat
      /\ \A v \in Threads : /\ local[v].jitter \in Nat /\ local'[v].jitter \in Nat
                            /\ local[v].read \in Nat /\ local'[v].read \in Nat
  BY LocalType DEF TypeOK
<1>2. ASSUME NEW v \in Threads
      PROVE  /\ local'[v].read <= reads'
             /\ pc'[v] \in {"probe", "exchange"} => local'[v].read > 0
             /\ local'[v].filled > 0 => local'[v].read > 0
             /\ \A i \in 1 .. Size :
                   local'[v].b[i] = IF i <= local'[v].filled THEN local'[v].read ELSE 0
  <2>1. CASE v = w
    BY <2>1
  <2>2. CASE v # w
    BY <1>1, <2>2 DEF CallInv
  <2> QED BY <2>1, <2>2
<1>3. ASSUME NEW u \in Threads, NEW v \in Threads,
             local'[u].read > 0, local'[u].read = local'[v].read
      PROVE  u = v
  <2>1. \A x \in Threads : local[x].read <= reads
    BY DEF CallInv
  <2>2. \A x, y \in Threads : local[x].read > 0 /\ local[x].read = local[y].read => x = y
    BY DEF CallInv
  <2> QED BY <1>1, <1>3, <2>1, <2>2
<1>4. \A v \in Threads : v # w => (v \in Pending' <=> v \in Pending)
  BY DEF Pending
<1>5. Pending' \subseteq Threads
  BY DEF Pending
<1>6. ASSUME NEW v \in Pending' PROVE local'[v].jitter > 0 /\ local'[v].jitter <= draws'
  <2>1. CASE v \in Pending /\ local'[v].jitter = local[v].jitter
    BY <1>1, <1>5, <2>1 DEF CallInv
  <2>2. CASE v = w /\ local'[w].jitter > draws /\ local'[w].jitter <= draws'
    BY <1>1, <2>2
  <2> QED BY <1>4, <1>5, <2>1, <2>2
<1>7. ASSUME NEW u \in Pending', NEW v \in Pending', local'[u].jitter = local'[v].jitter
      PROVE  u = v
  <2>1. \A x \in Pending : local[x].jitter <= draws
    BY DEF CallInv
  <2>2. \A x, y \in Pending : local[x].jitter = local[y].jitter => x = y
    BY DEF CallInv
  <2> QED BY <1>1, <1>4, <1>5, <1>7, <2>1, <2>2
<1> QED BY <1>2, <1>3, <1>6, <1>7 DEF CallInv

\* If such a step stores nothing, its numbers are not among those cached.
LEMMA StampStep ==
    ASSUME TypeOK, StampInv, NEW w \in Threads,
           local' \in [Threads -> Local], draws' \in Nat, reads' \in Nat,
           draws <= draws', reads <= reads', (Ready' <=> Ready), Shown' = Shown,
           \A v \in Threads : v # w => pc'[v] = pc[v] /\ local'[v] = local[v],
           local'[w].read > 0 /\ pc'[w] # "writeTpm" =>
              \/ local'[w].read > reads
              \/ local'[w].read = local[w].read /\ pc[w] # "writeTpm",
           w \in Pending' =>
              \/ w \in Pending /\ local'[w].jitter = local[w].jitter
              \/ local'[w].jitter > draws /\ local'[w].jitter <= draws'
    PROVE  StampInv'
<1> SUFFICES ASSUME Ready PROVE StampInv'
  BY DEF StampInv
<1>1. /\ draws \in Nat /\ reads \in Nat
      /\ \A v \in Threads : local'[v].jitter \in Nat /\ local'[v].read \in Nat
  BY LocalType DEF TypeOK
<1>2. /\ \A c \in Shown : c.jitter \in Nat /\ c.tpm[1] \in Nat
      /\ \A c \in Shown : c.jitter <= draws /\ c.tpm[1] <= reads
  BY ShownType DEF StampInv
<1>3. Pending' \subseteq Threads /\ \A v \in Pending' : v # w => v \in Pending
  BY DEF Pending
<1>4. \A c \in Shown : c.jitter <= draws' /\ c.tpm[1] <= reads'
  BY <1>1, <1>2
<1>5. ASSUME NEW v \in Pending', NEW c \in Shown PROVE c.jitter # local'[v].jitter
  <2>1. CASE v \in Pending /\ local'[v].jitter = local[v].jitter
    BY <2>1 DEF StampInv
  <2>2. CASE v = w /\ local'[w].jitter > draws
    BY <1>1, <1>2, <2>2
  <2> QED BY <1>3, <2>1, <2>2
<1>6. ASSUME NEW v \in Threads, local'[v].read > 0, pc'[v] # "writeTpm", NEW c \in Shown
      PROVE  c.tpm[1] # local'[v].read
  <2>1. CASE v = w /\ local'[w].read > reads
    BY <1>1, <1>2, <2>1
  <2>2. CASE local'[v].read = local[v].read /\ pc[v] # "writeTpm"
    BY <1>6, <2>2 DEF StampInv
  <2> QED BY <1>6, <2>1, <2>2
<1> QED BY <1>4, <1>5, <1>6 DEF StampInv

-----------------------------------------------------------------------------
(***************************************************************************)
(* Steps of refresh and next that store nothing.                           *)
(***************************************************************************)

\* jitter32() gives new jitter.
LEMMA DrawJitterStep ==
    ASSUME IInv, NEW w \in Threads, DrawJitter(w)
    PROVE  IInv' /\ Cache' = Cache
<1>1. TypeOK /\ LockInv /\ CallInv /\ StampInv
  BY DEF IInv
<1>2. /\ local \in [Threads -> Local] /\ local[w] \in Local /\ pc \in [Threads -> Labels]
      /\ draws \in Nat /\ reads \in Nat
  BY <1>1 DEF TypeOK
<1> DEFINE l == [local[w] EXCEPT !.jitter = draws + 1]
<1>3. /\ pc[w] = "idle" /\ draws' = draws + 1
      /\ UNCHANGED <<device, cached, ctr, locks, reads, earlier, own, outputs>>
      /\ pc' = [pc EXCEPT ![w] = IF device = "live" THEN "lockTpm" ELSE "lockWrite"]
  BY DEF DrawJitter, Goto
<1>4. local' = [local EXCEPT ![w] = l]
  BY <1>2 DEF DrawJitter, Local
<1>5. /\ l \in Local /\ l.jitter = draws + 1 /\ l.read = local[w].read
      /\ l.filled = local[w].filled /\ l.b = local[w].b
  BY <1>2 DEF Local
<1> HIDE DEF l
<1>6. /\ local' \in [Threads -> Local] /\ local'[w] = l
      /\ pc' \in [Threads -> Labels] /\ pc'[w] \in {"lockTpm", "lockWrite"}
      /\ \A v \in Threads : v # w => pc'[v] = pc[v] /\ local'[v] = local[v]
  BY <1>2, <1>3, <1>4, <1>5 DEF Labels
<1>7. Cache' = Cache /\ Shown' = Shown /\ (Ready' <=> Ready) /\ PhaseInv' /\ CtrInv' /\ OwnInv'
  <2>1. UNCHANGED <<device, cached, earlier, outputs, own, ctr>>
    BY <1>3
  <2>2. /\ pc[w] \notin {"open", "probe", "wait", "writeTpm"}
        /\ pc'[w] \notin {"open", "probe", "wait", "writeTpm", "count", "readJitter"}
    BY <1>3, <1>6
  <2> QED BY <1>6, <2>1, <2>2, QuietStep
<1>8. CallInv' /\ StampInv'
  <2>1. local[w].read \in Nat
    BY <1>2, LocalType
  <2>2. /\ local[w].read <= reads /\ (local[w].filled > 0 => local[w].read > 0)
        /\ \A i \in 1 .. Size :
              local[w].b[i] = IF i <= local[w].filled THEN local[w].read ELSE 0
    BY <1>1 DEF CallInv
  <2>3. CallInv'
    BY <1>1, <1>2, <1>3, <1>5, <1>6, <2>2, CallStep
  <2>4. StampInv'
    BY <1>1, <1>2, <1>3, <1>5, <1>6, <1>7, StampStep
  <2> QED BY <2>3, <2>4
<1>9. LockInv'
  BY <1>1, <1>3, <1>6 DEF LockInv, locks
<1>10. TypeOK'
  <2>1. UNCHANGED <<tpmLock, writing, reading>> /\ draws' \in Nat /\ reads' \in Nat
    BY <1>2, <1>3 DEF locks
  <2>2. {tpmLock, writing, reading} \subseteq SUBSET Threads
    BY <1>1 DEF TypeOK
  <2> QED BY <1>1, <1>3, <1>6, <2>1, <2>2, TypeStep
<1> QED BY <1>7, <1>8, <1>9, <1>10 DEF IInv

\* A step that only takes or releases locks, or begins a call of next.
LEMMA LockStep ==
    ASSUME IInv, NEW w \in Threads, NEW x \in Labels,
           UNCHANGED <<device, cached, earlier, outputs, own, ctr>>,
           UNCHANGED <<local, draws, reads>>, pc' = [pc EXCEPT ![w] = x],
           pc[w] \notin {"open", "probe", "wait", "writeTpm"},
           x \notin {"open", "probe", "wait", "exchange", "writeTpm", "count", "readJitter"},
           w \in Pending <=> x \in {"lockTpm", "lockWrite", "writeJitter"},
           tpmLock' \in SUBSET Threads, writing' \in SUBSET Threads,
           reading' \in SUBSET Threads, LockInv'
    PROVE  IInv' /\ Cache' = Cache
<1>1. TypeOK /\ CallInv /\ StampInv
  BY DEF IInv
<1>2. /\ pc' \in [Threads -> Labels] /\ pc'[w] = x
      /\ \A v \in Threads : v # w => pc'[v] = pc[v]
  BY <1>1 DEF TypeOK
<1>3. /\ Cache' = Cache /\ Shown' = Shown /\ (Ready' <=> Ready)
      /\ PhaseInv' /\ CtrInv' /\ OwnInv'
  BY <1>2, QuietStep
<1>4. Pending' = Pending
  BY <1>2 DEF Pending
<1>5. CallInv' /\ StampInv'
  <2>1. \A v \in Threads : /\ pc'[v] \in {"probe", "exchange"} => pc[v] \in {"probe", "exchange"}
                           /\ pc[v] = "writeTpm" => pc'[v] = "writeTpm"
    BY <1>2
  <2> QED BY <1>1, <1>3, <1>4, <2>1, KeepCalls
<1>6. TypeOK'
  BY <1>1, <1>2, TypeStep DEF TypeOK
<1> QED BY <1>3, <1>5, <1>6 DEF IInv

\* The device's failure, the write lock, a call of next and the read lock.
LEMMA LocksStep ==
    ASSUME IInv, NEW w \in Threads, ReplyBad(w) \/ LockWrite(w) \/ CallNext(w) \/ LockRead(w)
    PROVE  IInv' /\ Cache' = Cache
<1>1. /\ LockInv /\ writing \in SUBSET Threads /\ reading \in SUBSET Threads
      /\ tpmLock \in SUBSET Threads /\ pc \in [Threads -> Labels]
  BY DEF IInv, TypeOK
<1>2. CASE ReplyBad(w)
  <2>1. /\ pc' = [pc EXCEPT ![w] = "lockWrite"] /\ pc[w] = "exchange" /\ tpmLock' = {}
        /\ UNCHANGED <<device, cached, earlier, outputs, own, ctr>>
        /\ UNCHANGED <<local, draws, reads>> /\ UNCHANGED <<writing, reading>>
    BY <1>2 DEF ReplyBad, Goto, history
  <2>2. LockInv'
    BY <1>1, <2>1 DEF LockInv
  <2>3. w \in Pending /\ "lockWrite" \in Labels
    BY <2>1 DEF Pending, Labels
  <2> QED BY <1>1, <2>1, <2>2, <2>3, LockStep
<1>3. CASE LockWrite(w)
  <2>1. /\ pc' = [pc EXCEPT ![w] = "writeJitter"] /\ pc[w] = "lockWrite"
        /\ writing = {} /\ reading = {} /\ writing' = {w}
        /\ UNCHANGED <<device, cached, earlier, outputs, own, ctr>>
        /\ UNCHANGED <<local, draws, reads>> /\ UNCHANGED <<tpmLock, reading>>
    BY <1>3 DEF LockWrite, Goto, history
  <2>2. LockInv'
    BY <1>1, <2>1 DEF LockInv
  <2>3. w \in Pending /\ "writeJitter" \in Labels
    BY <2>1 DEF Pending, Labels
  <2>4. writing' \in SUBSET Threads
    BY <2>1
  <2> QED BY <1>1, <2>1, <2>2, <2>3, <2>4, LockStep
<1>4. CASE CallNext(w)
  <2>1. /\ pc' = [pc EXCEPT ![w] = "lockRead"] /\ pc[w] = "idle"
        /\ UNCHANGED <<device, cached, earlier, outputs, own, ctr>>
        /\ UNCHANGED <<local, draws, reads>> /\ UNCHANGED <<tpmLock, writing, reading>>
    BY <1>4 DEF CallNext, Goto, history, locks
  <2>2. LockInv'
    BY <1>1, <2>1 DEF LockInv
  <2>3. w \notin Pending /\ "lockRead" \in Labels
    BY <2>1 DEF Pending, Labels, InNext
  <2> QED BY <1>1, <2>1, <2>2, <2>3, LockStep
<1>5. CASE LockRead(w)
  <2>1. /\ pc' = [pc EXCEPT ![w] = "readTpm"] /\ pc[w] = "lockRead"
        /\ writing = {} /\ reading' = reading \cup {w}
        /\ UNCHANGED <<device, cached, earlier, outputs, own, ctr>>
        /\ UNCHANGED <<local, draws, reads>> /\ UNCHANGED <<tpmLock, writing>>
    BY <1>5 DEF LockRead, Goto, history
  <2>2. LockInv'
    BY <1>1, <2>1 DEF LockInv
  <2>3. w \notin Pending /\ "readTpm" \in Labels
    BY <2>1 DEF Pending, Labels, InNext
  <2>4. reading' \in SUBSET Threads
    BY <1>1, <2>1
  <2> QED BY <1>1, <2>1, <2>2, <2>3, <2>4, LockStep
<1> QED BY <1>2, <1>3, <1>4, <1>5

\* The device's lock is taken, and the call of tpm2_get_random gets a number.
LEMMA LockTpmStep ==
    ASSUME IInv, NEW w \in Threads, LockTpm(w)
    PROVE  IInv' /\ Cache' = Cache
<1>1. TypeOK /\ LockInv /\ CallInv /\ StampInv
  BY DEF IInv
<1>2. /\ draws \in Nat /\ reads \in Nat /\ pc \in [Threads -> Labels]
      /\ writing \in SUBSET Threads /\ reading \in SUBSET Threads
  BY <1>1 DEF TypeOK
<1>3. /\ pc[w] = "lockTpm" /\ BeginRead(w) /\ pc' = [pc EXCEPT ![w] = "exchange"]
      /\ tpmLock' = {w} /\ draws' = draws /\ UNCHANGED <<writing, reading>>
      /\ UNCHANGED <<device, cached, earlier, outputs, own, ctr>>
  BY DEF LockTpm, Goto
<1>4. /\ local' \in [Threads -> Local] /\ reads' = reads + 1
      /\ \A v \in Threads : v # w => local'[v] = local[v]
      /\ local'[w].b = Zeros /\ local'[w].filled = 0 /\ local'[w].read = reads'
      /\ local'[w].jitter = local[w].jitter
  BY <1>1, <1>3, BeginReadSpec
<1>5. /\ pc' \in [Threads -> Labels] /\ pc'[w] = "exchange"
      /\ \A v \in Threads : v # w => pc'[v] = pc[v]
  BY <1>2, <1>3 DEF Labels
<1>6. /\ Cache' = Cache /\ Shown' = Shown /\ (Ready' <=> Ready)
      /\ PhaseInv' /\ CtrInv' /\ OwnInv'
  BY <1>3, <1>4, <1>5, QuietStep
<1>7. w \in Pending
  BY <1>3 DEF Pending
<1>8. \A i \in 1 .. Size :
         local'[w].b[i] = IF i <= local'[w].filled THEN local'[w].read ELSE 0
  <2>1. \A i \in 1 .. Size : Zeros[i] = 0 /\ ~(i <= 0)
    BY SizeType DEF Zeros
  <2> QED BY <1>4, <2>1
<1>9. reads' \in Nat /\ reads <= reads' /\ reads' > reads /\ reads' > 0 /\ ~(0 > 0)
  BY <1>2, <1>4
<1>10. CallInv'
  BY <1>1, <1>2, <1>3, <1>4, <1>5, <1>7, <1>8, <1>9, CallStep
<1>11. StampInv'
  BY <1>1, <1>2, <1>3, <1>4, <1>5, <1>6, <1>7, <1>9, StampStep
<1>12. LockInv'
  BY <1>1, <1>3, <1>5 DEF LockInv
<1>13. TypeOK'
  BY <1>1, <1>2, <1>3, <1>4, <1>5, <1>9, TypeStep
<1> QED BY <1>6, <1>10, <1>11, <1>12, <1>13 DEF IInv

\* A reply of the device goes into the thread's own buffer.
LEMMA ReplyStep ==
    ASSUME IInv, NEW w \in Threads, NEW n \in 1 .. MaxReply, Reply(w, n)
    PROVE  IInv' /\ Cache' = Cache
<1>1. TypeOK /\ LockInv /\ CallInv /\ StampInv
  BY DEF IInv
<1>2. /\ draws \in Nat /\ reads \in Nat /\ pc \in [Threads -> Labels]
      /\ local \in [Threads -> Local]
      /\ tpmLock \in SUBSET Threads /\ writing \in SUBSET Threads /\ reading \in SUBSET Threads
  BY <1>1 DEF TypeOK
<1>3. /\ pc[w] = "exchange" /\ local' = Filled(w, n)
      /\ \/ pc' = [pc EXCEPT ![w] = "lockWrite"] /\ tpmLock' = {}
         \/ pc' = pc /\ tpmLock' = tpmLock
      /\ draws' = draws /\ reads' = reads /\ UNCHANGED <<writing, reading>>
      /\ UNCHANGED <<device, cached, earlier, outputs, own, ctr>>
  BY DEF Reply, Goto, history
<1>4. /\ local' \in [Threads -> Local]
      /\ \A v \in Threads : v # w => local'[v] = local[v]
      /\ local'[w].filled >= local[w].filled
      /\ \A i \in 1 .. Size :
            local'[w].b[i] = IF i > local[w].filled /\ i <= local'[w].filled
                             THEN local[w].read ELSE local[w].b[i]
      /\ local'[w].read = local[w].read /\ local'[w].jitter = local[w].jitter
  <2>1. n \in Nat
    BY EntropyMixAssumption
  <2> QED BY <1>1, <1>3, <2>1, FilledSpec
<1>5. /\ pc' \in [Threads -> Labels] /\ pc'[w] \in {"exchange", "lockWrite"}
      /\ \A v \in Threads : v # w => pc'[v] = pc[v]
  BY <1>2, <1>3 DEF Labels
<1>6. /\ Cache' = Cache /\ Shown' = Shown /\ (Ready' <=> Ready)
      /\ PhaseInv' /\ CtrInv' /\ OwnInv'
  BY <1>3, <1>4, <1>5, QuietStep
<1>7. w \in Pending
  BY <1>3 DEF Pending
<1>8. /\ local[w].read \in Nat /\ local[w].filled \in Nat
      /\ local'[w].filled \in Nat /\ Size \in Nat
  BY <1>2, <1>4, LocalType, SizeType
<1>9. /\ local[w].read > 0 /\ local[w].read <= reads
      /\ \A i \in 1 .. Size :
            local[w].b[i] = IF i <= local[w].filled THEN local[w].read ELSE 0
  BY <1>1, <1>3 DEF CallInv
<1>10. \A i \in 1 .. Size :
          local'[w].b[i] = IF i <= local'[w].filled THEN local'[w].read ELSE 0
  BY <1>4, <1>8, <1>9
<1>11. draws <= draws' /\ reads <= reads' /\ draws' \in Nat /\ reads' \in Nat
  BY <1>2, <1>3
<1>12. CallInv'
  BY <1>1, <1>3, <1>4, <1>5, <1>7, <1>9, <1>10, <1>11, CallStep
<1>13. StampInv'
  BY <1>1, <1>3, <1>4, <1>5, <1>6, <1>7, <1>11, StampStep
<1>14. LockInv'
  BY <1>1, <1>3, <1>5 DEF LockInv
<1>15. TypeOK'
  BY <1>1, <1>2, <1>3, <1>4, <1>5, <1>11, TypeStep
<1> QED BY <1>6, <1>12, <1>13, <1>14, <1>15 DEF IInv

\* next copies the TPM bytes under its read lock.
LEMMA ReadTpmStep ==
    ASSUME IInv, NEW w \in Threads, ReadTpm(w)
    PROVE  IInv' /\ Cache' = Cache
<1>1. TypeOK /\ LockInv /\ CallInv /\ StampInv
  BY DEF IInv
<1>2. /\ local \in [Threads -> Local] /\ local[w] \in Local /\ cached \in Contribution
      /\ draws \in Nat /\ reads \in Nat /\ pc \in [Threads -> Labels]
      /\ tpmLock \in SUBSET Threads /\ writing \in SUBSET Threads /\ reading \in SUBSET Threads
  BY <1>1 DEF TypeOK, Contribution
<1> DEFINE l == [local[w] EXCEPT !.copied = cached.tpm]
<1>3. /\ pc[w] = "readTpm" /\ pc' = [pc EXCEPT ![w] = "readJitter"]
      /\ UNCHANGED <<tpmLock, writing, reading>> /\ UNCHANGED <<draws, reads>>
      /\ UNCHANGED <<device, cached, earlier, outputs, own, ctr>>
  BY DEF ReadTpm, Goto, locks, history
<1>4. local' = [local EXCEPT ![w] = l]
  BY <1>2 DEF ReadTpm, Local
<1>5. /\ l \in Local /\ l.copied = cached.tpm /\ l.read = local[w].read
      /\ l.filled = local[w].filled /\ l.b = local[w].b /\ l.jitter = local[w].jitter
  BY <1>2 DEF Local, Contribution
<1> HIDE DEF l
<1>6. /\ local' \in [Threads -> Local] /\ local'[w] = l
      /\ pc' \in [Threads -> Labels] /\ pc'[w] = "readJitter"
      /\ \A v \in Threads : v # w => pc'[v] = pc[v] /\ local'[v] = local[v]
  BY <1>2, <1>3, <1>4, <1>5 DEF Labels, InNext
<1>7. /\ Cache' = Cache /\ Shown' = Shown /\ (Ready' <=> Ready)
      /\ PhaseInv' /\ CtrInv' /\ OwnInv'
  BY <1>3, <1>5, <1>6, QuietStep
<1>8. CallInv' /\ StampInv'
  <2>1. Pending' = Pending
    BY <1>3, <1>6 DEF Pending
  <2>2. \A v \in Threads :
           /\ local'[v].read = local[v].read /\ local'[v].filled = local[v].filled
           /\ local'[v].b = local[v].b /\ local'[v].jitter = local[v].jitter
           /\ pc'[v] \in {"probe", "exchange"} => pc[v] \in {"probe", "exchange"}
           /\ pc[v] = "writeTpm" => pc'[v] = "writeTpm"
    BY <1>3, <1>5, <1>6
  <2> QED BY <1>1, <1>3, <1>7, <2>1, <2>2, KeepCalls
<1>9. LockInv'
  BY <1>1, <1>3, <1>6 DEF LockInv
<1>10. TypeOK'
  BY <1>1, <1>2, <1>3, <1>6, TypeStep
<1> QED BY <1>7, <1>8, <1>9, <1>10 DEF IInv

-----------------------------------------------------------------------------
(***************************************************************************)
(* The end of a call of next.                                              *)
(***************************************************************************)

\* What next has copied under its read lock was cached as a whole.
LEMMA TakenWhole ==
    ASSUME IInv, NEW w \in Threads, ReadJitter(w)
    PROVE  /\ Ready /\ Cache = cached
           /\ local' \in [Threads -> Local] /\ local'[w].buf = Cache
           /\ \A v \in Threads : v # w => local'[v] = local[v]
           /\ local'[w].read = local[w].read /\ local'[w].filled = local[w].filled
           /\ local'[w].b = local[w].b /\ local'[w].jitter = local[w].jitter
<1>1. TypeOK /\ PhaseInv /\ LockInv /\ OwnInv
  BY DEF IInv
<1>2. pc[w] = "readJitter"
  BY DEF ReadJitter
<1>3. Ready
  BY <1>1, <1>2 DEF PhaseInv
<1>4. HalfWritten = {}
  BY <1>1, <1>2 DEF LockInv, HalfWritten
<1>5. Cache = cached
  BY <1>1, <1>3, <1>4, CacheSpec
<1>6. local \in [Threads -> Local] /\ local[w] \in Local /\ cached \in Contribution
  BY <1>1 DEF TypeOK, Contribution
<1>7. local[w].copied = cached.tpm
  BY <1>1, <1>2 DEF OwnInv
<1>8. [jitter |-> cached.jitter, tpm |-> local[w].copied] = cached
  BY <1>6, <1>7 DEF Contribution
<1> DEFINE l == [local[w] EXCEPT !.buf = cached, !.copied = Zeros]
<1>9. local' = [local EXCEPT ![w] = l]
  BY <1>6, <1>8 DEF ReadJitter, Local
<1>10. l \in Local
  BY <1>6, FreshType DEF Local, Contribution
<1>11. /\ l.buf = cached /\ l.read = local[w].read /\ l.filled = local[w].filled
       /\ l.b = local[w].b /\ l.jitter = local[w].jitter
  BY <1>6 DEF Local
<1> HIDE DEF l
<1> QED BY <1>3, <1>5, <1>6, <1>9, <1>10, <1>11

\* A call of next copies the contributions under the lock that it holds.
LEMMA ReadJitterStep ==
    ASSUME IInv, NEW w \in Threads, ReadJitter(w)
    PROVE  IInv' /\ Cache' = Cache
<1>1. TypeOK /\ PhaseInv /\ LockInv /\ CtrInv /\ CallInv /\ StampInv /\ OwnInv
  BY DEF IInv
<1>2. /\ draws \in Nat /\ reads \in Nat /\ pc \in [Threads -> Labels]
      /\ tpmLock \in SUBSET Threads /\ writing \in SUBSET Threads /\ reading \in SUBSET Threads
  BY <1>1 DEF TypeOK
<1>3. /\ pc[w] = "readJitter" /\ pc' = [pc EXCEPT ![w] = "count"]
      /\ reading' = reading \ {w} /\ UNCHANGED <<tpmLock, writing>>
      /\ UNCHANGED <<draws, reads>>
      /\ UNCHANGED <<device, cached, ctr, earlier, own, outputs>>
  BY DEF ReadJitter, Goto, history
<1>4. /\ Ready /\ Cache = cached
      /\ local' \in [Threads -> Local] /\ local'[w].buf = Cache
      /\ \A v \in Threads : v # w => local'[v] = local[v]
      /\ local'[w].read = local[w].read /\ local'[w].filled = local[w].filled
      /\ local'[w].b = local[w].b /\ local'[w].jitter = local[w].jitter
  BY TakenWhole
<1>5. /\ pc' \in [Threads -> Labels] /\ pc'[w] = "count"
      /\ \A v \in Threads : v # w => pc'[v] = pc[v]
  BY <1>2, <1>3 DEF Labels, InNext
<1>6. Cache' = Cache /\ Shown' = Shown /\ (Ready' <=> Ready)
  <2>1. HalfWritten' = HalfWritten /\ w \notin HalfWritten /\ HalfWritten \subseteq Threads
    BY <1>3, <1>5 DEF HalfWritten
  <2> QED BY <1>3, <1>4, <2>1, CacheFrame
<1>7. PhaseInv' /\ CtrInv'
  <2>1. PhaseInv'
    BY <1>1, <1>4, <1>5, <1>6 DEF PhaseInv
  <2>2. CtrInv'
    BY <1>1, <1>3 DEF CtrInv
  <2> QED BY <2>1, <2>2
<1>8. LockInv'
  BY <1>1, <1>3, <1>5 DEF LockInv
<1>9. CallInv' /\ StampInv'
  <2>1. Pending' = Pending
    BY <1>3, <1>5 DEF Pending
  <2>2. \A v \in Threads :
           /\ local'[v].read = local[v].read /\ local'[v].filled = local[v].filled
           /\ local'[v].b = local[v].b /\ local'[v].jitter = local[v].jitter
           /\ pc'[v] \in {"probe", "exchange"} => pc[v] \in {"probe", "exchange"}
           /\ pc[v] = "writeTpm" => pc'[v] = "writeTpm"
    BY <1>3, <1>4, <1>5
  <2> QED BY <1>1, <1>3, <1>6, <2>1, <2>2, KeepCalls
<1>10. OwnInv'
  <2>1. ASSUME NEW o, NEW v \in Threads, OutputInv(o, v) PROVE OutputInv(o, v)'
    <3>1. CASE v = w
      BY <1>3, <1>4, <1>5, <1>6, <2>1, <3>1 DEF OutputInv, Part
    <3>2. CASE v # w
      BY <1>3, <1>4, <1>5, <1>6, <2>1, <3>2 DEF OutputInv, Part
    <3> QED BY <3>1, <3>2
  <2>2. \A j \in 1 .. Len(outputs) : outputs[j].by \in Threads
    BY <1>1, OutputsType
  <2>3. ASSUME NEW v \in Threads
        PROVE  /\ pc'[v] = "readJitter" => local'[v].copied = cached.tpm
               /\ pc'[v] = "count" => local'[v].buf \in Shown
    BY <1>1, <1>4, <1>5 DEF OwnInv, Shown
  <2> QED BY <1>1, <1>3, <1>6, <2>1, <2>2, <2>3 DEF OwnInv
<1>11. TypeOK'
  <2>1. reading' \in SUBSET Threads
    BY <1>2, <1>3
  <2> QED BY <1>1, <1>2, <1>3, <1>4, <1>5, <2>1, TypeStep
<1> QED BY <1>6, <1>7, <1>8, <1>9, <1>10, <1>11 DEF IInv

\* Quotient and remainder by the number of values of the counter.
LEMMA ModSpec ==
    ASSUME NEW n \in Nat
    PROVE  /\ n \div CtrSpace \in Nat /\ n % CtrSpace \in Nat /\ n % CtrSpace < CtrSpace
           /\ n = (n \div CtrSpace) * CtrSpace + (n % CtrSpace)
<1>1. CtrSpace \in Nat \ {0}
  BY SizeType
<1> DEFINE q == n \div CtrSpace
           r == n - q * CtrSpace
<1>2. q \in Nat /\ r \in Nat /\ r < CtrSpace /\ n = q * CtrSpace + r
  <2>1. \A m \in Nat, k \in Nat \ {0} :
           m \div k \in Nat /\ (m \div k) * k <= m /\ m < (m \div k) * k + k
    BY SMT
  <2>2. q \in Nat /\ q * CtrSpace <= n /\ n < q * CtrSpace + CtrSpace
    BY <1>1, <2>1
  <2> HIDE DEF q
  <2>3. q * CtrSpace \in Nat
    BY <1>1, <2>2
  <2> QED BY <1>1, <2>2, <2>3
<1> HIDE DEF q, r
<1>3. \A m, k \in Nat : k < CtrSpace => (m * CtrSpace + k) % CtrSpace = k
  <2>1. \A m, s \in Nat, k \in Nat \ {0} : s < k => (m * k + s) % k = s
    BY SMT
  <2> QED BY <1>1, <2>1
<1>4. n % CtrSpace = r
  BY <1>2, <1>3
<1> QED BY <1>2, <1>4 DEF q

\* A counter that is increased by one counts on.
LEMMA CountSpec ==
    ASSUME NEW n \in Nat
    PROVE  /\ n % CtrSpace \in 0 .. CtrSpace - 1
           /\ ((n % CtrSpace) + 1) % CtrSpace = (n + 1) % CtrSpace
<1> DEFINE q == n \div CtrSpace
           r == n % CtrSpace
<1>1. CtrSpace \in Nat \ {0}
  BY SizeType
<1>2. q \in Nat /\ r \in Nat /\ r < CtrSpace /\ n = q * CtrSpace + r
  BY ModSpec
<1> HIDE DEF q, r
<1>3. \A m, k \in Nat : k < CtrSpace => (m * CtrSpace + k) % CtrSpace = k
  <2>1. \A m, s \in Nat, k \in Nat \ {0} : s < k => (m * k + s) % k = s
    BY SMT
  <2> QED BY <1>1, <2>1
<1>4. (r + 1) % CtrSpace = (n + 1) % CtrSpace
  <2>1. CASE r + 1 < CtrSpace
    <3>1. n + 1 = q * CtrSpace + (r + 1)
      BY <1>1, <1>2
    <3>2. (n + 1) % CtrSpace = r + 1
      BY <1>2, <1>3, <2>1, <3>1
    <3>3. (0 * CtrSpace + (r + 1)) % CtrSpace = r + 1 /\ 0 * CtrSpace + (r + 1) = r + 1
      BY <1>1, <1>2, <1>3, <2>1
    <3> QED BY <3>2, <3>3
  <2>2. CASE r + 1 = CtrSpace
    <3>1. n + 1 = (q + 1) * CtrSpace + 0
      BY <1>1, <1>2, <2>2
    <3>2. (n + 1) % CtrSpace = 0
      BY <1>1, <1>2, <1>3, <3>1
    <3>3. (1 * CtrSpace + 0) % CtrSpace = 0 /\ 1 * CtrSpace + 0 = CtrSpace
      BY <1>1, <1>3
    <3> QED BY <2>2, <3>2, <3>3
  <2> QED BY <1>1, <1>2, <2>1, <2>2
<1>5. r \in 0 .. CtrSpace - 1
  BY <1>1, <1>2
<1> QED BY <1>4, <1>5 DEF r

\* Two numbers less than a period apart have different counts.
LEMMA CountsDiffer ==
    ASSUME NEW m \in Nat, NEW n \in Nat, m < n, n - m < CtrSpace
    PROVE  m % CtrSpace # n % CtrSpace
<1> SUFFICES ASSUME m % CtrSpace = n % CtrSpace PROVE FALSE
  OBVIOUS
<1> DEFINE p == m \div CtrSpace
           q == n \div CtrSpace
           r == m % CtrSpace
<1>1. /\ CtrSpace \in Nat \ {0} /\ p \in Nat /\ q \in Nat /\ r \in Nat
      /\ m = p * CtrSpace + r /\ n = q * CtrSpace + r
  BY SizeType, ModSpec
<1> HIDE DEF p, q, r
<1>2. p * CtrSpace \in Nat /\ q * CtrSpace \in Nat
  BY <1>1
<1>3. CASE q <= p
  <2>1. q * CtrSpace <= p * CtrSpace
    BY <1>1, <1>3
  <2> QED BY <1>1, <1>2, <2>1
<1>4. CASE p + 1 <= q
  <2>1. (p + 1) * CtrSpace <= q * CtrSpace /\ (p + 1) * CtrSpace = p * CtrSpace + CtrSpace
    BY <1>1, <1>4
  <2> QED BY <1>1, <1>2, <2>1
<1> QED BY <1>1, <1>3, <1>4

\* A call of next takes a counter that no other call took, and its output differs.
LEMMA CountStep ==
    ASSUME IInv, NEW w \in Threads, Count(w)
    PROVE  IInv' /\ Cache' = Cache
<1>0. PICK n, out : n = Len(outputs) /\ out = Output(w)
  OBVIOUS
<1>1. TypeOK /\ PhaseInv /\ LockInv /\ CtrInv /\ CallInv /\ StampInv /\ OwnInv
  BY DEF IInv
<1>2. /\ draws \in Nat /\ reads \in Nat /\ pc \in [Threads -> Labels]
      /\ local \in [Threads -> Local] /\ local[w].buf \in Contribution
      /\ own \in [Threads -> [refreshes : Nat, tpm : Nat]]
      /\ own[w] \in [refreshes : Nat, tpm : Nat]
      /\ ctr \in 0 .. CtrSpace - 1 /\ n \in Nat
  BY <1>0, <1>1, LocalType, OutputsType DEF TypeOK, Contribution
<1>3. /\ pc[w] = "count" /\ pc' = [pc EXCEPT ![w] = "idle"]
      /\ outputs' = Append(outputs, out) /\ ctr' = (ctr + 1) % CtrSpace
      /\ UNCHANGED <<device, cached, locks, local, history>>
  BY <1>0 DEF Count, Goto
<1>4. /\ pc' \in [Threads -> Labels] /\ pc'[w] = "idle"
      /\ \A v \in Threads : v # w => pc'[v] = pc[v]
  BY <1>2, <1>3 DEF Labels
<1>5. Ready
  BY <1>1, <1>3 DEF PhaseInv
<1>6. /\ out \in OutputRecord /\ Part(out) = local[w].buf /\ out.by = w /\ out.own = own[w]
      /\ out.ctr = ctr /\ out.jitter = local[w].buf.jitter /\ out.tpm = local[w].buf.tpm
  BY <1>0, <1>2 DEF Output, OutputRecord, Part, Contribution
<1>7. outputs \in Seq(OutputRecord)
  BY <1>1 DEF TypeOK
<1>8. /\ outputs' \in Seq(OutputRecord) /\ Len(outputs') = n + 1
      /\ \A j \in 1 .. n : outputs'[j] = outputs[j]
      /\ outputs'[n + 1] = out
  <2> HIDE DEF OutputRecord
  <2> QED BY <1>0, <1>2, <1>3, <1>6, <1>7
<1>9. \A j \in 1 .. n + 1 : j \in 1 .. n \/ j = n + 1
  BY <1>2
<1>10. Cache' = Cache /\ Shown' = Shown /\ (Ready' <=> Ready)
  <2>1. HalfWritten' = HalfWritten /\ HalfWritten \subseteq Threads
    BY <1>3, <1>4 DEF HalfWritten
  <2> QED BY <1>3, <2>1, CacheFrame DEF history
<1>11. PhaseInv'
  BY <1>1, <1>4, <1>5, <1>10 DEF PhaseInv
<1>12. LockInv'
  BY <1>1, <1>3, <1>4 DEF LockInv, locks
<1>13. CtrInv'
  <2>1. ctr = n % CtrSpace /\ \A j \in 1 .. n : outputs[j].ctr = (j - 1) % CtrSpace
    BY <1>0, <1>1 DEF CtrInv
  <2>2. ctr' = (n + 1) % CtrSpace
    BY <1>2, <1>3, <2>1, CountSpec
  <2>3. (n + 1) - 1 = n
    BY <1>2
  <2>4. \A j \in 1 .. n + 1 : outputs'[j].ctr = (j - 1) % CtrSpace
    BY <1>6, <1>8, <1>9, <2>1, <2>3
  <2> QED BY <1>8, <2>2, <2>4 DEF CtrInv
<1>14. CallInv' /\ StampInv'
  <2>1. Pending' = Pending
    BY <1>3, <1>4 DEF Pending
  <2>2. \A v \in Threads : /\ pc'[v] \in {"probe", "exchange"} => pc[v] \in {"probe", "exchange"}
                           /\ pc[v] = "writeTpm" => pc'[v] = "writeTpm"
    BY <1>3, <1>4
  <2> QED BY <1>1, <1>3, <1>10, <2>1, <2>2, KeepCalls DEF history
<1>15. OwnInv'
  <2>1. \A o, v : v \in Threads /\ OutputInv(o, v) => OutputInv(o, v)'
    BY <1>3, <1>4, <1>10 DEF OutputInv, Part, history
  <2>2. \A j \in 1 .. n : outputs[j].by \in Threads /\ OutputInv(outputs[j], outputs[j].by)
    BY <1>0, <1>1, OutputsType DEF OwnInv
  <2>3. OutputInv(out, w)'
    <3>1. own[w].refreshes \in Nat /\ own[w].tpm \in Nat /\ own' = own
      BY <1>2, <1>3 DEF history
    <3>2. local[w].buf \in Shown
      BY <1>1, <1>3 DEF OwnInv
    <3> QED BY <1>4, <1>6, <1>10, <3>1, <3>2 DEF OutputInv
  <2>4. ASSUME NEW j \in 1 .. n + 1 PROVE OutputInv(outputs[j], outputs[j].by)'
    <3>1. PICK o, v : o = outputs'[j] /\ v = o.by
      OBVIOUS
    <3>2. OutputInv(o, v)'
      <4>1. CASE j \in 1 .. n
        BY <1>8, <2>1, <2>2, <3>1, <4>1
      <4>2. CASE j = n + 1
        BY <1>6, <1>8, <2>3, <3>1, <4>2
      <4> QED BY <1>9, <4>1, <4>2
    <3> QED BY <3>1, <3>2
  <2>5. \A v \in Threads : /\ pc'[v] = "readJitter" => local'[v].copied = cached'.tpm
                           /\ pc'[v] = "count" => local'[v].buf \in Shown'
    BY <1>1, <1>3, <1>4, <1>10 DEF OwnInv
  <2>6. ASSUME NEW i \in 1 .. n + 1, NEW j \in 1 .. n + 1, outputs'[i].by = outputs'[j].by
        PROVE  /\ outputs'[i].own.refreshes < outputs'[j].own.refreshes =>
                     outputs'[i].jitter # outputs'[j].jitter
               /\ outputs'[i].own.tpm < outputs'[j].own.tpm =>
                     outputs'[i].tpm[1] # outputs'[j].tpm[1]
    <3>1. CASE i \in 1 .. n /\ j \in 1 .. n
      BY <1>0, <1>1, <1>8, <2>6, <3>1 DEF OwnInv
    <3>2. CASE i \in 1 .. n /\ j = n + 1
      BY <1>3, <1>6, <1>8, <2>2, <2>6, <3>2 DEF OutputInv
    <3>3. CASE i = n + 1
      <4>1. own[w].refreshes \in Nat /\ own[w].tpm \in Nat
        BY <1>2
      <4>2. outputs'[j].own.refreshes <= own[w].refreshes /\ outputs'[j].own.tpm <= own[w].tpm
        BY <1>6, <1>8, <1>9, <2>2, <2>6, <3>3, <4>1 DEF OutputInv
      <4>3. outputs'[j].own.refreshes \in Nat /\ outputs'[j].own.tpm \in Nat
        BY <1>0, <1>1, <1>6, <1>8, <1>9, <3>3, <4>1, OutputsType
      <4> QED BY <1>6, <1>8, <3>3, <4>1, <4>2, <4>3
    <3> QED BY <1>9, <3>1, <3>2, <3>3
  <2> QED BY <1>8, <2>4, <2>5, <2>6 DEF OwnInv
<1>16. TypeOK'
  <2>1. ctr' \in 0 .. CtrSpace - 1
    BY <1>2, <1>3, CountSpec
  <2>2. /\ TypeOK
        /\ UNCHANGED <<device, cached, tpmLock, writing, reading, local, draws, reads, earlier,
                       own>>
    BY <1>1, <1>3 DEF locks, history
  <2> QED BY <1>4, <1>8, <2>1, <2>2 DEF TypeOK
<1> QED BY <1>10, <1>11, <1>12, <1>13, <1>14, <1>15, <1>16 DEF IInv

-----------------------------------------------------------------------------
(***************************************************************************)
(* The making of the mixer.                                                *)
(***************************************************************************)

\* A mixer just made, by one thread for all.
LEMMA MadeStep ==
    ASSUME IInv, ~Ready, NEW state \in {"live", "none"}, NEW bytes \in Bytes,
           bytes[1] <= reads, Made(state, bytes),
           UNCHANGED <<ctr, locks, reads, earlier, own, outputs>>
    PROVE  IInv' /\ Ready' /\ \A w \in Threads : local'[w].buf = local[w].buf
<1>1. TypeOK /\ PhaseInv /\ LockInv /\ CtrInv
  BY DEF IInv
<1>2. /\ draws \in Nat /\ reads \in Nat
      /\ {tpmLock, writing, reading} \subseteq SUBSET Threads
  BY <1>1 DEF TypeOK
<1>3. /\ device' = state /\ draws' = draws + 1
      /\ cached' = [jitter |-> draws + 1, tpm |-> bytes]
      /\ local' = [w \in Threads |-> Fresh] /\ pc' = [w \in Threads |-> "idle"]
  BY DEF Made
<1>4. /\ Ready' /\ cached' \in Contribution /\ draws' \in Nat
      /\ pc' \in [Threads -> Labels] /\ local' \in [Threads -> Local]
  BY <1>2, <1>3, FreshType DEF Ready, Contribution, Labels
<1>5. earlier = {} /\ outputs = <<>> /\ earlier' = {} /\ outputs' = <<>>
  BY <1>1 DEF PhaseInv
<1>6. TypeOK'
  <2>1. ctr \in 0 .. CtrSpace - 1 /\ own \in [Threads -> [refreshes : Nat, tpm : Nat]]
    BY <1>1 DEF TypeOK
  <2>2. outputs' \in Seq(OutputRecord) /\ earlier' \in SUBSET Contribution
    <3> HIDE DEF OutputRecord
    <3> QED BY <1>5
  <2>3. device' \in {"unknown", "live", "none"}
    BY <1>3
  <2> QED BY <1>2, <1>4, <2>1, <2>2, <2>3 DEF TypeOK, locks, Contribution
<1>7. \A w \in Threads : local'[w] = Fresh /\ pc'[w] = "idle"
  BY <1>3
<1>8. PhaseInv'
  BY <1>4, <1>7 DEF PhaseInv
<1>9. LockInv'
  BY <1>1, <1>7 DEF LockInv, locks, PhaseInv
<1>10. CtrInv'
  BY <1>1, <1>5 DEF CtrInv
<1>11. Pending' = {} /\ HalfWritten' = {}
  BY <1>7 DEF Pending, HalfWritten
<1>12. CallInv'
  <2>1. \A i \in 1 .. Size : Zeros[i] = 0
    BY DEF Zeros
  <2>2. /\ Fresh.read = 0 /\ Fresh.filled = 0 /\ Fresh.b = Zeros /\ ~(0 > 0) /\ 0 <= reads
        /\ \A i \in 1 .. Size : Fresh.b[i] = IF i <= 0 THEN 0 ELSE 0
    BY <1>2, <2>1 DEF Fresh
  <2> QED BY <1>7, <1>11, <2>2 DEF CallInv
<1>13. Cache' = cached' /\ Shown' = {cached'}
  <2>1. Cache' = [jitter |-> cached'.jitter, tpm |-> cached'.tpm]
    BY <1>4, <1>11 DEF Cache, Ready
  <2>2. Cache' = cached'
    BY <1>4, <2>1 DEF Contribution
  <2> QED BY <1>5, <2>2 DEF Shown
<1>14. StampInv'
  <2>1. cached'.jitter = draws' /\ cached'.tpm[1] <= reads' /\ Fresh.read = 0 /\ ~(0 > 0)
    BY <1>3 DEF Fresh
  <2> QED BY <1>4, <1>7, <1>11, <1>13, <2>1 DEF StampInv
<1>15. OwnInv'
  BY <1>5, <1>7 DEF OwnInv
<1>16. \A w \in Threads : local'[w].buf = local[w].buf
  BY <1>1, <1>7 DEF PhaseInv
<1> QED BY <1>4, <1>6, <1>8, <1>9, <1>10, <1>12, <1>14, <1>15, <1>16 DEF IInv

\* The bytes read so far have the number of the call, or none.
LEMMA BytesRead ==
    ASSUME IInv, NEW w \in Threads, local[w].filled = Size \/ ~Ready
    PROVE  /\ local[w].b \in Bytes /\ local[w].b[1] <= reads
           /\ local[w].filled = Size =>
                 /\ local[w].read > 0 /\ local[w].b[1] = local[w].read
                 /\ \A i \in 1 .. Size : local[w].b[i] = local[w].read
<1>1. CallInv /\ local[w] \in Local /\ reads \in Nat
  BY DEF IInv, TypeOK
<1>2. /\ local[w].b \in Bytes /\ local[w].read \in Nat /\ local[w].filled \in Nat
      /\ Size \in Nat \ {0} /\ 1 \in 1 .. Size
  BY <1>1, LocalType, SizeType
<1>3. /\ local[w].read <= reads /\ (local[w].filled > 0 => local[w].read > 0)
      /\ \A i \in 1 .. Size : local[w].b[i] = IF i <= local[w].filled THEN local[w].read ELSE 0
  BY <1>1 DEF CallInv
<1>4. local[w].b[1] <= reads
  BY <1>1, <1>2, <1>3
<1> QED BY <1>2, <1>3, <1>4

\* A step before the mixer is made that does not make it.
LEMMA ProbingStep ==
    ASSUME IInv, NEW w \in Threads, ~Ready,
           UNCHANGED <<device, cached, ctr, locks, draws, earlier, own, outputs>>,
           pc' \in [Threads -> Labels], pc'[w] = "probe",
           local' \in [Threads -> Local], reads' \in Nat, local'[w].buf = local[w].buf,
           \A v \in Threads : v # w => pc'[v] = pc[v] /\ local'[v] = local[v], CallInv'
    PROVE  IInv' /\ Cache' = Cache
<1>1. TypeOK /\ PhaseInv /\ LockInv /\ CtrInv
  BY DEF IInv
<1>2. ~Ready' /\ earlier' = {} /\ outputs' = <<>> /\ outputs = <<>>
  BY <1>1 DEF PhaseInv, Ready
<1>3. \A v \in Threads : /\ pc[v] \in {"open", "probe", "wait"}
                         /\ pc'[v] \in {"open", "probe", "wait"}
                         /\ local'[v].buf = Fresh.buf
  BY <1>1 DEF PhaseInv
<1>4. PhaseInv'
  BY <1>2, <1>3 DEF PhaseInv
<1>5. LockInv'
  BY <1>1, <1>3 DEF LockInv, locks
<1>6. CtrInv'
  BY <1>1 DEF CtrInv
<1>7. StampInv'
  BY <1>2 DEF StampInv
<1>8. OwnInv'
  BY <1>2, <1>3 DEF OwnInv
<1>9. TypeOK'
  <2>1. UNCHANGED <<tpmLock, writing, reading>> /\ draws' \in Nat
    BY <1>1 DEF locks, TypeOK
  <2>2. {tpmLock, writing, reading} \subseteq SUBSET Threads
    BY <1>1 DEF TypeOK
  <2> QED BY <1>1, <2>1, <2>2, TypeStep
<1>10. Cache' = Cache
  BY <1>2 DEF Cache, Ready
<1> QED BY <1>4, <1>5, <1>6, <1>7, <1>8, <1>9, <1>10 DEF IInv

\* The probe begins.
LEMMA OpenStep ==
    ASSUME IInv, NEW w \in Threads, Open(w)
    PROVE  IInv' /\ Cache' = Cache /\ \A v \in Threads : local'[v].buf = local[v].buf
<1>1. TypeOK /\ PhaseInv /\ CallInv
  BY DEF IInv
<1>2. draws \in Nat /\ reads \in Nat /\ pc \in [Threads -> Labels]
  BY <1>1 DEF TypeOK
<1>3. /\ pc[w] = "open" /\ BeginRead(w) /\ pc' = [pc EXCEPT ![w] = "probe"]
      /\ UNCHANGED <<device, cached, ctr, locks, draws, earlier, own, outputs>>
  BY DEF Open, Goto
<1>4. ~Ready
  BY <1>1, <1>3 DEF PhaseInv
<1>5. /\ local' \in [Threads -> Local] /\ reads' = reads + 1
      /\ \A v \in Threads : v # w => local'[v] = local[v]
      /\ local'[w].b = Zeros /\ local'[w].filled = 0 /\ local'[w].read = reads'
      /\ local'[w].buf = local[w].buf
  BY <1>1, <1>3, BeginReadSpec
<1>6. /\ pc' \in [Threads -> Labels] /\ pc'[w] = "probe" /\ w \notin Pending'
      /\ \A v \in Threads : v # w => pc'[v] = pc[v]
  BY <1>2, <1>3 DEF Labels, Pending
<1>7. \A i \in 1 .. Size :
         local'[w].b[i] = IF i <= local'[w].filled THEN local'[w].read ELSE 0
  <2>1. \A i \in 1 .. Size : Zeros[i] = 0 /\ ~(i <= 0)
    BY SizeType DEF Zeros
  <2> QED BY <1>5, <2>1
<1>8. /\ reads' \in Nat /\ reads <= reads' /\ reads' > reads /\ reads' > 0 /\ ~(0 > 0)
      /\ draws' \in Nat /\ draws <= draws'
  BY <1>2, <1>3, <1>5
<1>9. CallInv'
  BY <1>1, <1>5, <1>6, <1>7, <1>8, CallStep
<1>10. IInv' /\ Cache' = Cache
  BY <1>3, <1>4, <1>5, <1>6, <1>8, <1>9, ProbingStep
<1> QED BY <1>5, <1>10

\* A reply to the probe, which fills the buffer or a part of it.
LEMMA ProbeReplyStep ==
    ASSUME IInv, NEW w \in Threads, NEW n \in 1 .. MaxReply, ProbeReply(w, n)
    PROVE  /\ IInv' /\ (Cache' = Cache \/ (~Ready /\ Ready'))
           /\ \A v \in Threads : local'[v].buf = local[v].buf
<1> DEFINE F == Filled(w, n)
<1>1. TypeOK /\ PhaseInv /\ CallInv
  BY DEF IInv
<1>2. /\ draws \in Nat /\ reads \in Nat /\ pc \in [Threads -> Labels]
      /\ local \in [Threads -> Local]
  BY <1>1 DEF TypeOK
<1>3. pc[w] = "probe" /\ UNCHANGED <<ctr, locks, reads, earlier, own, outputs>>
  BY DEF ProbeReply
<1>4. ~Ready
  BY <1>1, <1>3 DEF PhaseInv
<1>5. /\ F \in [Threads -> Local] /\ \A v \in Threads : v # w => F[v] = local[v]
      /\ F[w].filled >= local[w].filled /\ F[w].filled = local[w].filled + Taken(w, n)
      /\ \A i \in 1 .. Size :
            F[w].b[i] = IF i > local[w].filled /\ i <= F[w].filled
                        THEN local[w].read ELSE local[w].b[i]
      /\ F[w].read = local[w].read /\ F[w].buf = local[w].buf
  <2>1. n \in Nat
    BY EntropyMixAssumption
  <2> QED BY <1>1, <2>1, FilledSpec
<1> HIDE DEF F
<1>6. /\ local[w].read \in Nat /\ local[w].filled \in Nat
      /\ F[w].filled \in Nat /\ F[w].b \in Bytes /\ Size \in Nat /\ 1 \in 1 .. Size
  BY <1>2, <1>5, LocalType, SizeType
<1>7. /\ local[w].read > 0 /\ local[w].read <= reads
      /\ \A i \in 1 .. Size :
            local[w].b[i] = IF i <= local[w].filled THEN local[w].read ELSE 0
  BY <1>1, <1>3 DEF CallInv
<1>8. \A i \in 1 .. Size : F[w].b[i] = IF i <= F[w].filled THEN F[w].read ELSE 0
  BY <1>5, <1>6, <1>7
<1>9. CASE Complete(w, n)
  <2>1. Made("live", F[w].b)
    BY <1>9 DEF ProbeReply, F
  <2>2. F[w].b[1] <= reads
    BY <1>2, <1>5, <1>6, <1>7, <1>8
  <2> QED BY <1>3, <1>4, <1>6, <2>1, <2>2, MadeStep
<1>10. CASE ~Complete(w, n)
  <2>1. local' = F /\ UNCHANGED <<device, cached, draws, pc>>
    BY <1>10 DEF ProbeReply, F
  <2>2. w \notin Pending' /\ draws' \in Nat /\ reads' \in Nat /\ draws <= draws' /\ reads <= reads'
    BY <1>2, <1>3, <2>1 DEF Pending
  <2>3. CallInv'
    BY <1>1, <1>3, <1>5, <1>7, <1>8, <2>1, <2>2, CallStep
  <2>4. IInv' /\ Cache' = Cache
    BY <1>2, <1>3, <1>4, <1>5, <2>1, <2>2, <2>3, ProbingStep
  <2> QED BY <1>5, <2>1, <2>4
<1> QED BY <1>9, <1>10

\* No device, or a probe that fails: the mixer is made all the same.
LEMMA NoDeviceStep ==
    ASSUME IInv, NEW w \in Threads, NoDevice(w) \/ ProbeFails(w)
    PROVE  IInv' /\ ~Ready /\ Ready' /\ \A v \in Threads : local'[v].buf = local[v].buf
<1>1. PhaseInv /\ reads \in Nat
  BY DEF IInv, TypeOK
<1>2. /\ pc[w] \in {"open", "probe"}
      /\ UNCHANGED <<ctr, locks, reads, earlier, own, outputs>>
  BY DEF NoDevice, ProbeFails
<1>3. ~Ready
  BY <1>1, <1>2 DEF PhaseInv
<1>4. CASE NoDevice(w)
  <2>1. Zeros[1] <= reads
    BY <1>1, SizeType DEF Zeros
  <2> QED BY <1>2, <1>3, <1>4, <2>1, FreshType, MadeStep DEF NoDevice
<1>5. CASE ProbeFails(w)
  <2>1. local[w].b \in Bytes /\ local[w].b[1] <= reads
    BY <1>3, BytesRead
  <2> QED BY <1>2, <1>3, <1>5, <2>1, MadeStep DEF ProbeFails
<1> QED BY <1>4, <1>5

-----------------------------------------------------------------------------
(***************************************************************************)
(* The stores of a refresh.                                                *)
(***************************************************************************)

\* The end of a refresh: the locals go, and the refresh is counted.
LEMMA EndRefreshSpec ==
    ASSUME TypeOK, NEW w \in Threads, EndRefresh(w)
    PROVE  /\ pc' = [pc EXCEPT ![w] = "idle"] /\ pc' \in [Threads -> Labels]
           /\ pc'[w] = "idle" /\ \A v \in Threads : v # w => pc'[v] = pc[v]
           /\ writing' = {} /\ local' \in [Threads -> Local]
           /\ local'[w].read = 0 /\ local'[w].filled = 0
           /\ \A i \in 1 .. Size : local'[w].b[i] = 0
           /\ local'[w].buf = local[w].buf
           /\ own' \in [Threads -> [refreshes : Nat, tpm : Nat]]
           /\ own'[w].refreshes = own[w].refreshes + 1
           /\ own'[w].tpm = IF TpmRead(w) THEN own[w].tpm + 1 ELSE own[w].tpm
           /\ \A v \in Threads : v # w => local'[v] = local[v] /\ own'[v] = own[v]
<1>1. /\ pc \in [Threads -> Labels] /\ local \in [Threads -> Local] /\ local[w] \in Local
      /\ own \in [Threads -> [refreshes : Nat, tpm : Nat]]
      /\ own[w] \in [refreshes : Nat, tpm : Nat]
  BY DEF TypeOK
<1> DEFINE l == [Fresh EXCEPT !.buf = local[w].buf]
           n == IF TpmRead(w) THEN own[w].tpm + 1 ELSE own[w].tpm
           o == [own[w] EXCEPT !.refreshes = @ + 1, !.tpm = n]
<1>2. /\ pc' = [pc EXCEPT ![w] = "idle"] /\ writing' = {}
      /\ local' = [local EXCEPT ![w] = l]
  BY DEF EndRefresh, Goto
<1>3. own' = [own EXCEPT ![w] = o]
  BY <1>1 DEF EndRefresh
<1>4. /\ o \in [refreshes : Nat, tpm : Nat] /\ o.refreshes = own[w].refreshes + 1
      /\ o.tpm = n
  <2>1. own[w].refreshes \in Nat /\ own[w].tpm \in Nat
    BY <1>1
  <2>2. n \in Nat /\ own[w].refreshes + 1 \in Nat
    BY <2>1
  <2> HIDE DEF n
  <2> QED BY <1>1, <2>2
<1>5. local[w].buf \in [jitter : Nat, tpm : Bytes]
  BY <1>1, LocalType
<1>6. /\ l.read = 0 /\ l.filled = 0 /\ l.b = Zeros /\ l.buf = local[w].buf
  BY DEF Fresh
<1>7. l \in Local
  <2>1. l = [jitter |-> 0, b |-> Zeros, filled |-> 0, read |-> 0, copied |-> Zeros,
             buf |-> local[w].buf]
    BY DEF Fresh
  <2>2. Zeros \in Bytes /\ 0 \in 0 .. Size
    BY FreshType, SizeType
  <2> HIDE DEF l
  <2> QED BY <1>5, <2>1, <2>2 DEF Local
<1>8. \A i \in 1 .. Size : Zeros[i] = 0
  BY DEF Zeros
<1>9. "idle" \in Labels
  BY DEF Labels
<1> HIDE DEF l, o
<1> QED BY <1>1, <1>2, <1>3, <1>4, <1>6, <1>7, <1>8, <1>9

\* The first store brings jitter that was never cached, and takes effect for
\* the readers together with the second, if there is one, which brings the bytes
\* of one new call of tpm2_get_random.
LEMMA RenewSpec ==
    ASSUME IInv, NEW w \in Threads, WriteJitter(w)
    PROVE  /\ Ready /\ Ready' /\ earlier' = Shown /\ Shown' = Shown \cup {Cache'}
           /\ cached' \in Contribution /\ Cache'.jitter = local[w].jitter
           /\ \A c \in Shown : c.jitter # local[w].jitter
           /\ TpmRead(w) =>
                 /\ pc' = [pc EXCEPT ![w] = "writeTpm"] /\ UNCHANGED <<writing, local, own>>
                 /\ local[w].read > 0 /\ Cache'.tpm = local[w].b
                 /\ \A i \in 1 .. Size : Cache'.tpm[i] = local[w].read
                 /\ \A c \in Shown : c.tpm[1] # local[w].read
           /\ ~TpmRead(w) => EndRefresh(w) /\ Cache'.tpm = Cache.tpm
<1>1. TypeOK /\ PhaseInv /\ LockInv /\ CallInv /\ StampInv
  BY DEF IInv
<1>2. /\ pc[w] = "writeJitter" /\ cached' = [cached EXCEPT !.jitter = local[w].jitter]
      /\ earlier' = earlier \cup {cached} /\ device' = device
  BY DEF WriteJitter
<1>3. /\ cached \in Contribution /\ local[w] \in Local /\ local[w].jitter \in Nat
      /\ pc \in [Threads -> Labels]
  BY <1>1, LocalType DEF TypeOK, Contribution
<1>4. Ready /\ Ready'
  BY <1>1, <1>2 DEF PhaseInv, Ready
<1>5. HalfWritten = {} /\ \A v \in Threads : v # w => pc[v] # "writeTpm"
  BY <1>1, <1>2, HalfWrittenSpec
<1>6. Cache = cached /\ earlier' = Shown /\ Shown' = Shown \cup {Cache'}
  BY <1>1, <1>2, <1>4, <1>5, CacheSpec DEF Shown
<1>7. /\ cached' \in Contribution /\ cached'.jitter = local[w].jitter
      /\ cached'.tpm = cached.tpm
  BY <1>2, <1>3 DEF Contribution
<1>8. w \in Pending /\ \A c \in Shown : c.jitter # local[w].jitter
  BY <1>1, <1>2, <1>4 DEF Pending, StampInv
<1>9. CASE TpmRead(w)
  <2>1. pc' = [pc EXCEPT ![w] = "writeTpm"] /\ UNCHANGED <<writing, local, own>>
    BY <1>9 DEF WriteJitter, Goto
  <2>2. HalfWritten' = {w}
    BY <1>3, <1>5, <2>1 DEF HalfWritten
  <2>3. (CHOOSE v \in HalfWritten' : TRUE) = w /\ HalfWritten' # {}
    BY <2>2
  <2>4. Cache' = [jitter |-> cached'.jitter, tpm |-> local[w].b]
    BY <1>4, <2>1, <2>3 DEF Cache, Ready
  <2>5. /\ local[w].read > 0 /\ \A i \in 1 .. Size : local[w].b[i] = local[w].read
    BY <1>9, BytesRead DEF TpmRead
  <2>6. \A c \in Shown : c.tpm[1] # local[w].read
    BY <1>1, <1>2, <1>4, <2>5 DEF StampInv
  <2> QED BY <1>4, <1>6, <1>7, <1>8, <1>9, <2>1, <2>4, <2>5, <2>6
<1>10. CASE ~TpmRead(w)
  <2>1. EndRefresh(w)
    BY <1>10 DEF WriteJitter
  <2>2. HalfWritten' = {}
    BY <1>1, <1>5, <2>1, EndRefreshSpec DEF HalfWritten
  <2>3. Cache' = [jitter |-> cached'.jitter, tpm |-> cached'.tpm]
    BY <1>4, <2>2 DEF Cache, Ready
  <2> QED BY <1>4, <1>6, <1>7, <1>8, <1>10, <2>1, <2>3
<1> QED BY <1>9, <1>10

\* What the other threads drew and read is not what is stored, so it is still new.
LEMMA RenewNumbers ==
    ASSUME IInv, NEW w \in Threads, WriteJitter(w)
    PROVE  CallInv' /\ StampInv'
<1>1. TypeOK /\ LockInv /\ CallInv /\ StampInv
  BY DEF IInv
<1>2. /\ Ready /\ Ready' /\ Shown' = Shown \cup {Cache'} /\ Cache'.jitter = local[w].jitter
      /\ TpmRead(w) =>
            /\ pc' = [pc EXCEPT ![w] = "writeTpm"] /\ UNCHANGED <<writing, local, own>>
            /\ local[w].read > 0 /\ \A i \in 1 .. Size : Cache'.tpm[i] = local[w].read
      /\ ~TpmRead(w) => EndRefresh(w) /\ Cache'.tpm = Cache.tpm
  BY RenewSpec
<1>3. /\ draws \in Nat /\ reads \in Nat /\ pc \in [Threads -> Labels]
      /\ local \in [Threads -> Local] /\ 1 \in 1 .. Size
  BY <1>1, SizeType DEF TypeOK
<1>4. pc[w] = "writeJitter" /\ draws' = draws /\ reads' = reads /\ w \in Pending
  BY DEF WriteJitter, Pending
<1>5. /\ local' \in [Threads -> Local]
      /\ \A v \in Threads : v # w => pc'[v] = pc[v] /\ local'[v] = local[v]
      /\ w \notin Pending' /\ pc'[w] \notin {"probe", "exchange"}
      /\ local'[w].read > 0 => pc'[w] = "writeTpm"
      /\ \/ local'[w] = local[w]
         \/ /\ local'[w].read = 0 /\ local'[w].filled = 0
            /\ \A i \in 1 .. Size : local'[w].b[i] = 0
  <2>1. CASE TpmRead(w)
    BY <1>2, <1>3, <2>1 DEF Pending
  <2>2. CASE ~TpmRead(w)
    BY <1>1, <1>2, <2>2, EndRefreshSpec DEF Pending
  <2> QED BY <2>1, <2>2
<1>6. CallInv'
  <2>1. /\ local'[w].read <= reads'
        /\ local'[w].filled > 0 => local'[w].read > 0
        /\ \A i \in 1 .. Size :
              local'[w].b[i] = IF i <= local'[w].filled THEN local'[w].read ELSE 0
    BY <1>1, <1>3, <1>4, <1>5 DEF CallInv
  <2>2. local'[w].read = 0 \/ local'[w].read = local[w].read
    BY <1>5
  <2> QED BY <1>1, <1>3, <1>4, <1>5, <2>1, <2>2, CallStep
<1>7. /\ \A c \in Shown : c.jitter <= draws /\ c.tpm[1] <= reads
      /\ Cache \in Shown
  BY <1>1, <1>2, ShownType DEF StampInv
<1>8. Cache'.jitter <= draws /\ Cache'.tpm[1] <= reads
  <2>1. local[w].jitter <= draws /\ local[w].read <= reads
    BY <1>1, <1>4 DEF CallInv
  <2>2. CASE TpmRead(w)
    BY <1>2, <1>3, <2>1, <2>2
  <2>3. CASE ~TpmRead(w)
    BY <1>2, <1>7, <2>1, <2>3
  <2> QED BY <2>2, <2>3
<1>9. \A v \in Pending' : v # w /\ v \in Pending /\ v \in Threads
  BY <1>5 DEF Pending
<1>10. ASSUME NEW v \in Pending', NEW c \in Shown' PROVE c.jitter # local'[v].jitter
  <2>1. v # w /\ v \in Pending /\ v \in Threads
    BY <1>9
  <2>2. local'[v] = local[v] /\ local[w].jitter # local[v].jitter
    BY <1>1, <1>4, <1>5, <2>1 DEF CallInv
  <2>3. \A d \in Shown : d.jitter # local[v].jitter
    BY <1>1, <1>2, <2>1 DEF StampInv
  <2> QED BY <1>2, <2>2, <2>3
<1>11. ASSUME NEW v \in Threads, local'[v].read > 0, pc'[v] # "writeTpm", NEW c \in Shown'
       PROVE  c.tpm[1] # local'[v].read
  <2>1. v # w
    BY <1>5, <1>11
  <2>2. local'[v] = local[v] /\ pc'[v] = pc[v]
    BY <1>5, <2>1
  <2>3. \A d \in Shown : d.tpm[1] # local[v].read
    BY <1>1, <1>2, <1>11, <2>2 DEF StampInv
  <2>4. Cache'.tpm[1] # local[v].read
    <3>1. CASE TpmRead(w)
      <4>1. Cache'.tpm[1] = local[w].read
        BY <1>2, <1>3, <3>1
      <4>2. local[v].read = local[w].read => v = w
        BY <1>1, <1>11, <2>2 DEF CallInv
      <4> QED BY <2>1, <4>1, <4>2
    <3>2. CASE ~TpmRead(w)
      BY <1>2, <1>7, <2>3, <3>2
    <3> QED BY <3>1, <3>2
  <2> QED BY <1>2, <2>2, <2>3, <2>4
<1>12. StampInv'
  <2>1. \A c \in Shown' : c.jitter <= draws' /\ c.tpm[1] <= reads'
    BY <1>2, <1>4, <1>7, <1>8
  <2> QED BY <1>10, <1>11, <2>1 DEF StampInv
<1> QED BY <1>6, <1>12

\* No output has what is stored; what the writer's own outputs have is past.
LEMMA RenewOutputs ==
    ASSUME IInv, NEW w \in Threads, WriteJitter(w)
    PROVE  OwnInv'
<1>1. TypeOK /\ LockInv /\ OwnInv
  BY DEF IInv
<1>2. /\ Ready /\ Shown' = Shown \cup {Cache'} /\ Cache'.jitter = local[w].jitter
      /\ \A c \in Shown : c.jitter # local[w].jitter
      /\ TpmRead(w) =>
            /\ pc' = [pc EXCEPT ![w] = "writeTpm"] /\ UNCHANGED <<writing, local, own>>
            /\ \A i \in 1 .. Size : Cache'.tpm[i] = local[w].read
            /\ \A c \in Shown : c.tpm[1] # local[w].read
      /\ ~TpmRead(w) => EndRefresh(w) /\ Cache'.tpm = Cache.tpm
  BY RenewSpec
<1>3. pc[w] = "writeJitter" /\ outputs' = outputs /\ 1 \in 1 .. Size
  BY SizeType DEF WriteJitter
<1>4. \A v \in Threads : /\ v # w => pc[v] \notin {"writeJitter", "writeTpm"}
                         /\ pc[v] \notin {"readTpm", "readJitter"}
  BY <1>1, <1>3, HalfWrittenSpec
<1>5. /\ \A v \in Threads : v # w => /\ pc'[v] = pc[v] /\ local'[v] = local[v]
                                     /\ own'[v] = own[v]
      /\ pc'[w] \in {"writeTpm", "idle"}
      /\ own'[w].refreshes = own[w].refreshes \/ own'[w].refreshes = own[w].refreshes + 1
      /\ own'[w].tpm = own[w].tpm
      /\ pc'[w] = "writeTpm" => TpmRead(w)
  <2>1. CASE TpmRead(w)
    BY <1>1, <1>2, <2>1 DEF TypeOK
  <2>2. CASE ~TpmRead(w)
    BY <1>1, <1>2, <2>2, EndRefreshSpec
  <2> QED BY <2>1, <2>2
<1>6. \A v \in Threads : own[v].refreshes \in Nat /\ own[v].tpm \in Nat
  BY <1>1 DEF TypeOK
<1>7. ASSUME NEW o, Part(o) \in Shown
      PROVE  /\ o.jitter # Cache'.jitter
             /\ TpmRead(w) \/ o.tpm[1] # Cache.tpm[1] => o.tpm[1] # Cache'.tpm[1]
  <2>1. Part(o).jitter = o.jitter /\ Part(o).tpm = o.tpm
    BY DEF Part
  <2> QED BY <1>2, <1>3, <1>7, <2>1
<1>8. ASSUME NEW o, NEW v \in Threads, OutputInv(o, v),
             o.own.refreshes \in Nat, o.own.tpm \in Nat
      PROVE  OutputInv(o, v)'
  <2>1. /\ o.own.refreshes <= own[v].refreshes /\ o.own.tpm <= own[v].tpm
        /\ Part(o) \in Shown
        /\ o.own.tpm < own[v].tpm => o.tpm[1] # Cache.tpm[1]
        /\ pc[v] = "count" =>
              /\ o.own.refreshes < own[v].refreshes => o.jitter # local[v].buf.jitter
              /\ o.own.tpm < own[v].tpm => o.tpm[1] # local[v].buf.tpm[1]
    BY <1>8 DEF OutputInv
  <2>2. /\ Part(o) \in Shown' /\ o.jitter # Cache'.jitter
        /\ TpmRead(w) \/ o.tpm[1] # Cache.tpm[1] => o.tpm[1] # Cache'.tpm[1]
    BY <1>2, <1>7, <2>1
  <2>3. CASE v = w
    <3>1. o.own.refreshes <= own'[w].refreshes /\ o.own.tpm <= own'[w].tpm
      BY <1>5, <1>6, <1>8, <2>1, <2>3
    <3>2. o.own.tpm < own'[w].tpm \/ pc'[w] = "writeTpm" => o.tpm[1] # Cache'.tpm[1]
      BY <1>5, <2>1, <2>2, <2>3
    <3> QED BY <1>5, <2>2, <2>3, <3>1, <3>2 DEF OutputInv, Part
  <2>4. CASE v # w
    BY <1>4, <1>5, <2>1, <2>2, <2>4 DEF OutputInv, Part
  <2> QED BY <2>3, <2>4
<1>9. \A j \in 1 .. Len(outputs) : /\ outputs[j].by \in Threads
                                   /\ outputs[j].own.refreshes \in Nat
                                   /\ outputs[j].own.tpm \in Nat
  BY <1>1, OutputsType
<1>10. \A v \in Threads : /\ pc'[v] # "readJitter"
                          /\ pc'[v] = "count" => local'[v].buf \in Shown'
  BY <1>1, <1>2, <1>4, <1>5 DEF OwnInv
<1> QED BY <1>1, <1>3, <1>8, <1>9, <1>10 DEF OwnInv

\* A refresh stores its jitter, by which the contributions change.
LEMMA WriteJitterStep ==
    ASSUME IInv, NEW w \in Threads, WriteJitter(w)
    PROVE  IInv'
<1>1. TypeOK /\ PhaseInv /\ LockInv /\ CtrInv
  BY DEF IInv
<1>2. /\ Ready /\ Ready' /\ earlier' = Shown /\ cached' \in Contribution
      /\ TpmRead(w) =>
            pc' = [pc EXCEPT ![w] = "writeTpm"] /\ UNCHANGED <<writing, local, own>>
      /\ ~TpmRead(w) => EndRefresh(w)
  BY RenewSpec
<1>3. /\ pc[w] = "writeJitter" /\ UNCHANGED <<device, ctr, tpmLock, reading, draws, reads, outputs>>
  BY DEF WriteJitter
<1>4. /\ pc' \in [Threads -> Labels] /\ local' \in [Threads -> Local]
      /\ own' \in [Threads -> [refreshes : Nat, tpm : Nat]]
      /\ \A v \in Threads : v # w => pc'[v] = pc[v]
      /\ \/ pc'[w] = "writeTpm" /\ writing' = writing
         \/ pc'[w] = "idle" /\ writing' = {}
  <2>1. CASE TpmRead(w)
    BY <1>1, <1>2, <2>1 DEF TypeOK, Labels
  <2>2. CASE ~TpmRead(w)
    BY <1>1, <1>2, <2>2, EndRefreshSpec
  <2> QED BY <2>1, <2>2
<1>5. PhaseInv'
  BY <1>1, <1>2, <1>3, <1>4 DEF PhaseInv
<1>6. LockInv'
  BY <1>1, <1>3, <1>4 DEF LockInv
<1>7. CtrInv'
  BY <1>1, <1>3 DEF CtrInv
<1>8. TypeOK'
  <2>1. earlier' \in SUBSET Contribution
    BY <1>1, <1>2, ShownType
  <2>2. /\ device \in {"unknown", "live", "none"} /\ ctr \in 0 .. CtrSpace - 1
        /\ {tpmLock, writing, reading} \subseteq SUBSET Threads /\ {draws, reads} \subseteq Nat
        /\ outputs \in Seq(OutputRecord)
    BY <1>1 DEF TypeOK
  <2>3. {tpmLock', writing', reading'} \subseteq SUBSET Threads
    BY <1>3, <1>4, <2>2
  <2> HIDE DEF OutputRecord
  <2> QED BY <1>2, <1>3, <1>4, <2>1, <2>2, <2>3 DEF TypeOK, Contribution
<1> QED BY <1>5, <1>6, <1>7, <1>8, RenewNumbers, RenewOutputs DEF IInv

\* The second store changes nothing for the readers, who could not see between.
LEMMA WriteTpmSpec ==
    ASSUME IInv, NEW w \in Threads, WriteTpm(w)
    PROVE  /\ Ready /\ Ready' /\ Cache' = Cache /\ Shown' = Shown /\ EndRefresh(w)
           /\ cached' = Cache /\ Cache \in Contribution
<1>1. TypeOK /\ PhaseInv /\ LockInv
  BY DEF IInv
<1>2. /\ pc[w] = "writeTpm" /\ cached' = [cached EXCEPT !.tpm = local[w].b] /\ EndRefresh(w)
      /\ device' = device /\ earlier' = earlier
  BY DEF WriteTpm
<1>3. Ready /\ Ready' /\ cached \in Contribution
  BY <1>1, <1>2 DEF PhaseInv, Ready, TypeOK, Contribution
<1>4. HalfWritten = {w}
  BY <1>1, <1>2, HalfWrittenSpec
<1>5. Cache = [jitter |-> cached.jitter, tpm |-> local[w].b] /\ Cache \in Contribution
  BY <1>1, <1>3, <1>4, CacheSpec
<1>6. cached' = Cache
  BY <1>2, <1>3, <1>5 DEF Contribution
<1>7. HalfWritten' = {}
  BY <1>1, <1>2, <1>4, EndRefreshSpec DEF HalfWritten
<1>8. Cache' = Cache
  <2>1. Cache' = [jitter |-> cached'.jitter, tpm |-> cached'.tpm]
    BY <1>3, <1>7 DEF Cache, Ready
  <2> QED BY <1>5, <1>6, <2>1
<1> QED BY <1>2, <1>3, <1>5, <1>6, <1>8 DEF Shown

\* A refresh stores its TPM bytes, by which they do not change any more.
LEMMA WriteTpmStep ==
    ASSUME IInv, NEW w \in Threads, WriteTpm(w)
    PROVE  IInv' /\ Cache' = Cache
<1>1. TypeOK /\ PhaseInv /\ LockInv /\ CtrInv /\ CallInv /\ StampInv /\ OwnInv
  BY DEF IInv
<1>2. /\ Ready /\ Ready' /\ Cache' = Cache /\ Shown' = Shown /\ EndRefresh(w)
      /\ cached' = Cache /\ Cache \in Contribution
  BY WriteTpmSpec
<1>3. /\ pc[w] = "writeTpm"
      /\ UNCHANGED <<device, ctr, tpmLock, reading, draws, reads, earlier, outputs>>
  BY DEF WriteTpm
<1>4. /\ pc' \in [Threads -> Labels] /\ pc'[w] = "idle"
      /\ \A v \in Threads : v # w => /\ pc'[v] = pc[v] /\ local'[v] = local[v]
                                     /\ own'[v] = own[v]
      /\ writing' = {} /\ local' \in [Threads -> Local]
      /\ local'[w].read = 0 /\ local'[w].filled = 0
      /\ \A i \in 1 .. Size : local'[w].b[i] = 0
      /\ own' \in [Threads -> [refreshes : Nat, tpm : Nat]]
      /\ own'[w].refreshes = own[w].refreshes + 1
      /\ own'[w].tpm = own[w].tpm \/ own'[w].tpm = own[w].tpm + 1
  BY <1>1, <1>2, EndRefreshSpec
<1>5. /\ draws \in Nat /\ reads \in Nat
      /\ \A v \in Threads : own[v].refreshes \in Nat /\ own[v].tpm \in Nat
  BY <1>1 DEF TypeOK
<1>6. PhaseInv'
  BY <1>1, <1>2, <1>4 DEF PhaseInv
<1>7. LockInv'
  BY <1>1, <1>3, <1>4 DEF LockInv
<1>8. CtrInv'
  BY <1>1, <1>3 DEF CtrInv
<1>9. w \notin Pending' /\ draws' \in Nat /\ reads' \in Nat /\ draws <= draws' /\ reads <= reads'
  BY <1>3, <1>4, <1>5 DEF Pending
<1>10. CallInv'
  <2>1. /\ local'[w].read <= reads' /\ ~(local'[w].filled > 0)
        /\ \A i \in 1 .. Size :
              local'[w].b[i] = IF i <= local'[w].filled THEN local'[w].read ELSE 0
    BY <1>3, <1>4, <1>5
  <2> QED BY <1>1, <1>4, <1>9, <2>1, CallStep
<1>11. StampInv'
  <2>1. ~(local'[w].read > 0)
    BY <1>4
  <2> QED BY <1>1, <1>2, <1>4, <1>9, <2>1, StampStep
<1>12. ASSUME NEW o, NEW v \in Threads, OutputInv(o, v),
              o.own.refreshes \in Nat, o.own.tpm \in Nat
       PROVE  OutputInv(o, v)'
  <2>1. CASE v = w
    <3>1. o.jitter # Cache.jitter /\ o.tpm[1] # Cache.tpm[1]
      BY <1>3, <1>12, <2>1 DEF OutputInv
    <3>2. o.own.refreshes <= own'[w].refreshes /\ o.own.tpm <= own'[w].tpm
      BY <1>4, <1>5, <1>12, <2>1 DEF OutputInv
    <3> QED BY <1>2, <1>4, <1>12, <2>1, <3>1, <3>2 DEF OutputInv, Part
  <2>2. CASE v # w
    BY <1>2, <1>4, <1>12, <2>2 DEF OutputInv, Part
  <2> QED BY <2>1, <2>2
<1>13. OwnInv'
  <2>1. \A j \in 1 .. Len(outputs) : /\ outputs[j].by \in Threads
                                     /\ outputs[j].own.refreshes \in Nat
                                     /\ outputs[j].own.tpm \in Nat
    BY <1>1, OutputsType
  <2>2. \A v \in Threads : pc[v] \notin {"readTpm", "readJitter"}
    BY <1>1, <1>3, HalfWrittenSpec
  <2>3. \A v \in Threads : /\ pc'[v] # "readJitter"
                           /\ pc'[v] = "count" => local'[v].buf \in Shown'
    BY <1>1, <1>2, <1>4, <2>2 DEF OwnInv
  <2> QED BY <1>1, <1>3, <1>12, <2>1, <2>3 DEF OwnInv
<1>14. TypeOK'
  <2>1. /\ device \in {"unknown", "live", "none"} /\ ctr \in 0 .. CtrSpace - 1
        /\ {tpmLock, writing, reading} \subseteq SUBSET Threads /\ {draws, reads} \subseteq Nat
        /\ outputs \in Seq(OutputRecord) /\ earlier \in SUBSET Contribution
    BY <1>1 DEF TypeOK, Contribution
  <2>2. {tpmLock', writing', reading'} \subseteq SUBSET Threads
    BY <1>3, <1>4, <2>1
  <2> HIDE DEF OutputRecord
  <2> QED BY <1>2, <1>3, <1>4, <2>1, <2>2 DEF TypeOK, Contribution
<1> QED BY <1>2, <1>6, <1>7, <1>8, <1>10, <1>11, <1>13, <1>14 DEF IInv

-----------------------------------------------------------------------------
(***************************************************************************)
(* The invariant.                                                          *)
(***************************************************************************)

\* Before the mixer is made there is nothing to tell apart.
LEMMA IInvInit == Init => IInv
<1> SUFFICES ASSUME Init PROVE IInv
  OBVIOUS
<1>1. CtrSpace \in Nat \ {0} /\ Size \in Nat \ {0}
  BY SizeType
<1>2. /\ device = "unknown" /\ ctr = 0 /\ earlier = {} /\ outputs = <<>>
      /\ tpmLock = {} /\ writing = {} /\ reading = {} /\ draws = 0 /\ reads = 0
      /\ cached = [jitter |-> 0, tpm |-> Zeros]
      /\ local = [w \in Threads |-> Fresh]
      /\ own = [w \in Threads |-> [refreshes |-> 0, tpm |-> 0]]
  BY DEF Init
<1>3. /\ pc \in [Threads -> Labels] /\ \A w \in Threads : pc[w] \in {"open", "wait"}
  BY DEF Init, Labels
<1>4. TypeOK
  <2>1. /\ cached \in Contribution /\ local \in [Threads -> Local]
        /\ own \in [Threads -> [refreshes : Nat, tpm : Nat]]
    BY <1>2, FreshType DEF Contribution
  <2>2. 0 \in 0 .. CtrSpace - 1
    BY <1>1
  <2>3. outputs \in Seq(OutputRecord)
    <3> HIDE DEF OutputRecord
    <3> QED BY <1>2
  <2> QED BY <1>2, <1>3, <2>1, <2>2, <2>3 DEF TypeOK, Contribution
<1>5. PhaseInv
  BY <1>2, <1>3 DEF PhaseInv, Ready
<1>6. LockInv
  BY <1>2, <1>3 DEF LockInv
<1>7. CtrInv
  <2>1. 0 % CtrSpace = 0
    <3>1. \A s \in Nat, k \in Nat \ {0} : s < k => s % k = s
      BY SMT
    <3> QED BY <1>1, <3>1
  <2> QED BY <1>2, <2>1 DEF CtrInv
<1>8. CallInv
  <2>1. /\ Fresh.read = 0 /\ Fresh.filled = 0 /\ Fresh.b = Zeros /\ ~(0 > 0) /\ 0 <= 0
        /\ \A i \in 1 .. Size : Zeros[i] = IF i <= 0 THEN 0 ELSE 0
    BY DEF Fresh, Zeros
  <2>2. Pending = {}
    BY <1>3 DEF Pending
  <2> QED BY <1>2, <1>3, <2>1, <2>2 DEF CallInv
<1>9. StampInv
  BY <1>2 DEF StampInv, Ready
<1>10. OwnInv
  BY <1>2, <1>3 DEF OwnInv
<1> QED BY <1>4, <1>5, <1>6, <1>7, <1>8, <1>9, <1>10 DEF IInv

\* A step that leaves everything as it is.
LEMMA IdleStep ==
    ASSUME IInv, UNCHANGED vars
    PROVE  IInv' /\ Cache' = Cache
<1>1. /\ UNCHANGED <<device, cached, ctr, tpmLock, writing, reading, pc, local>>
      /\ UNCHANGED <<draws, reads, earlier, own, outputs>>
  BY DEF vars, locks, history
<1>2. Cache' = Cache /\ Shown' = Shown /\ (Ready' <=> Ready) /\ Pending' = Pending
  <2>1. HalfWritten' = HalfWritten
    BY <1>1 DEF HalfWritten
  <2> QED BY <1>1, <2>1, CacheFrame DEF Pending
<1>3. TypeOK' /\ PhaseInv' /\ LockInv' /\ CtrInv' /\ CallInv' /\ StampInv'
  BY <1>1, <1>2 DEF IInv, TypeOK, PhaseInv, LockInv, CtrInv, CallInv, StampInv
<1>4. OwnInv'
  BY <1>1, <1>2 DEF IInv, OwnInv, OutputInv
<1> QED BY <1>2, <1>3, <1>4 DEF IInv

\* One step per action; which of them change what the readers see.
LEMMA IInvStep ==
    ASSUME IInv, [Next]_vars
    PROVE  IInv'
<1>1. CASE UNCHANGED vars
  BY <1>1, IdleStep
<1>2. CASE \E w \in Threads : DeviceAnswers(w) \/ Proceed(w) \/ DrawJitter(w) \/ CallNext(w)
  <2>1. PICK w \in Threads : DeviceAnswers(w) \/ Proceed(w) \/ DrawJitter(w) \/ CallNext(w)
    BY <1>2
  <2>2. CASE DeviceAnswers(w)
    <3>1. CASE \E n \in 1 .. MaxReply : ProbeReply(w, n)
      BY <3>1, ProbeReplyStep
    <3>2. CASE \E n \in 1 .. MaxReply : Reply(w, n)
      BY <3>2, ReplyStep
    <3>3. CASE ProbeFails(w)
      BY <3>3, NoDeviceStep
    <3>4. CASE ReplyBad(w)
      BY <3>4, LocksStep
    <3> QED BY <2>2, <3>1, <3>2, <3>3, <3>4 DEF DeviceAnswers
  <2>3. CASE Proceed(w)
    <3>1. CASE Open(w) \/ NoDevice(w)
      BY <3>1, OpenStep, NoDeviceStep
    <3>2. CASE LockTpm(w) \/ LockWrite(w)
      BY <3>2, LockTpmStep, LocksStep
    <3>3. CASE WriteJitter(w) \/ WriteTpm(w)
      BY <3>3, WriteJitterStep, WriteTpmStep
    <3>4. CASE LockRead(w) \/ ReadTpm(w)
      BY <3>4, LocksStep, ReadTpmStep
    <3>5. CASE ReadJitter(w) \/ Count(w)
      BY <3>5, ReadJitterStep, CountStep
    <3> QED BY <2>3, <3>1, <3>2, <3>3, <3>4, <3>5 DEF Proceed
  <2>4. CASE DrawJitter(w) \/ CallNext(w)
    BY <2>4, DrawJitterStep, LocksStep
  <2> QED BY <2>1, <2>2, <2>3, <2>4
<1> QED BY <1>1, <1>2 DEF Next, Rest

\* Every reachable state is as the invariant says.
LEMMA IInvAlways == Spec => []IInv
  BY IInvInit, IInvStep, PTL DEF Spec

-----------------------------------------------------------------------------
(***************************************************************************)
(* The theorems.                                                           *)
(***************************************************************************)

\* The buffers of tpm2_get_random are never overrun, the counter keeps its
\* width, and every contribution is complete: cached, copied and mixed.
THEOREM MixTypeCorrect == Spec => []TypeOK
<1>1. IInv => TypeOK
  BY DEF IInv
<1> QED BY <1>1, IInvAlways, PTL

\* No two outputs of next within a period of its counter hash the same cached
\* contributions and counter, whatever refresh, the device and the order of the
\* threads have done to the cache.
THEOREM MixOutputsDiffer == Spec => []OutputsDiffer
<1>1. ASSUME IInv PROVE OutputsDiffer
  <2> SUFFICES ASSUME NEW i \in 1 .. Len(outputs), NEW j \in 1 .. Len(outputs),
                      i < j, j - i < CtrSpace
               PROVE  outputs[i].ctr # outputs[j].ctr
    BY DEF OutputsDiffer
  <2>1. Len(outputs) \in Nat
    BY <1>1, OutputsType DEF IInv
  <2>2. outputs[i].ctr = (i - 1) % CtrSpace /\ outputs[j].ctr = (j - 1) % CtrSpace
    BY <1>1 DEF IInv, CtrInv
  <2>3. /\ i - 1 \in Nat /\ j - 1 \in Nat /\ i - 1 < j - 1
        /\ (j - 1) - (i - 1) < CtrSpace
    BY <2>1, SizeType
  <2> QED BY <2>2, <2>3, CountsDiffer
<1> QED BY <1>1, IInvAlways, PTL

\* What a thread gets from next after its own refresh it never got before it:
\* neither the jitter, nor the TPM bytes if that refresh read them, although
\* the stores of other threads' refreshes may come in between or after.
THEOREM MixOwnRefreshRenews == Spec => []OwnRefreshRenews
<1>1. IInv => OwnRefreshRenews
  BY DEF IInv, OwnInv, OwnRefreshRenews
<1> QED BY <1>1, IInvAlways, PTL

\* A mixer that is made has contributions.
LEMMA MadeIsMade ==
    ASSUME TypeOK
    PROVE  Cache = NotMade <=> ~Ready
<1>1. ASSUME NEW c \in Contribution PROVE c # NotMade
  <2>1. DOMAIN c = {"jitter", "tpm"} /\ DOMAIN NotMade = {"made"}
    BY DEF Contribution, NotMade
  <2> QED BY <2>1
<1> QED BY <1>1, CacheSpec

\* The record of a made cache is never the marker of one not made.
LEMMA RecordMade ==
    ASSUME NEW j, NEW t
    PROVE  [jitter |-> j, tpm |-> t] # NotMade
<1>1. DOMAIN [jitter |-> j, tpm |-> t] = {"jitter", "tpm"} /\ DOMAIN NotMade = {"made"}
  BY DEF NotMade
<1> QED BY <1>1

held == [w \in Threads |-> local[w].buf]

\* What the threads hold depends on their buffers alone.
LEMMA HeldFrame ==
    ASSUME \A w \in Threads : local'[w].buf = local[w].buf
    PROVE  held' = held
  BY DEF held

\* A store of jitter is the renewal, one of TPM bytes after it nothing new.
LEMMA RenewMaps ==
    ASSUME IInv, NEW w \in Threads, WriteJitter(w) \/ WriteTpm(w)
    PROVE  Mix!Renew \/ UNCHANGED Mix!mixVars
<1>1. TypeOK
  BY DEF IInv
<1>2. CASE WriteJitter(w)
  <2>1. /\ Ready /\ earlier' = Shown /\ Cache'.jitter = local[w].jitter
        /\ \A c \in Shown : c.jitter # local[w].jitter
        /\ TpmRead(w) =>
              /\ UNCHANGED <<writing, local, own>> /\ Cache'.tpm = local[w].b
              /\ \A i \in 1 .. Size : Cache'.tpm[i] = local[w].read
              /\ \A c \in Shown : c.tpm[1] # local[w].read
        /\ ~TpmRead(w) => EndRefresh(w) /\ Cache'.tpm = Cache.tpm
    BY <1>2, RenewSpec
  <2>2. held' = held
    <3>1. CASE TpmRead(w)
      BY <2>1, <3>1, HeldFrame
    <3>2. CASE ~TpmRead(w)
      <4>1. \A v \in Threads : local'[v].buf = local[v].buf
        BY <1>1, <2>1, <3>2, EndRefreshSpec
      <4> QED BY <4>1, HeldFrame
    <3> QED BY <3>1, <3>2
  <2>3. Cache # NotMade /\ earlier' = earlier \cup {Cache}
    BY <1>1, <2>1, MadeIsMade DEF Shown
  <2>4. \A c \in earlier' : Cache'.jitter # c.jitter
    BY <2>1
  <2>5. \/ Cache'.tpm = Cache.tpm
        \/ Mix!OfOneRead(Cache'.tpm) /\ \A c \in earlier' : Cache'.tpm # c.tpm
    <3>1. CASE TpmRead(w)
      <4>1. local[w].b \in Bytes /\ 1 \in 1 .. Size
        BY <1>1, LocalType, SizeType DEF TypeOK
      <4>2. DOMAIN (Cache'.tpm) = 1 .. Size
        BY <2>1, <3>1, <4>1 DEF Bytes
      <4>3. Mix!OfOneRead(Cache'.tpm)
        BY <2>1, <3>1, <4>2 DEF Mix!OfOneRead
      <4>4. \A c \in earlier' : Cache'.tpm # c.tpm
        BY <2>1, <3>1, <4>1
      <4> QED BY <4>3, <4>4
    <3>2. CASE ~TpmRead(w)
      BY <2>1, <3>2
    <3> QED BY <3>1, <3>2
  <2> QED BY <2>2, <2>3, <2>4, <2>5 DEF Mix!Renew, held
<1>3. CASE WriteTpm(w)
  <2>1. Cache' = Cache /\ EndRefresh(w) /\ earlier' = earlier
    BY <1>3, WriteTpmSpec DEF WriteTpm
  <2>2. \A v \in Threads : local'[v].buf = local[v].buf
    BY <1>1, <2>1, EndRefreshSpec
  <2>3. held' = held
    BY <2>2, HeldFrame
  <2> QED BY <2>1, <2>3 DEF Mix!mixVars, held
<1> QED BY <1>2, <1>3

\* The second copy of next is the taking, whole.
LEMMA TakeMaps ==
    ASSUME IInv, NEW w \in Threads, ReadJitter(w)
    PROVE  Mix!Take(w)
<1>1. TypeOK
  BY DEF IInv
<1>2. /\ Ready /\ local'[w].buf = Cache
      /\ \A v \in Threads : v # w => local'[v] = local[v]
  BY TakenWhole
<1>3. Cache' = Cache /\ earlier' = earlier
  BY ReadJitterStep DEF ReadJitter, history
<1>4. Cache # NotMade
  BY <1>1, <1>2, MadeIsMade
<1>5. held' = [held EXCEPT ![w] = Cache]
  BY <1>2 DEF held
<1> QED BY <1>3, <1>4, <1>5 DEF Mix!Take, held

\* The other steps keep the contributions and what the threads took, but for
\* the one that makes the mixer.
LEMMA OtherMaps ==
    ASSUME IInv, NEW w \in Threads,
           \/ DeviceAnswers(w) \/ Open(w) \/ NoDevice(w) \/ LockTpm(w) \/ LockWrite(w)
           \/ LockRead(w) \/ ReadTpm(w) \/ Count(w) \/ DrawJitter(w) \/ CallNext(w)
    PROVE  Mix!Make \/ UNCHANGED Mix!mixVars
<1>1. TypeOK
  BY DEF IInv
<1>2. local \in [Threads -> Local] /\ \A v \in Threads : local[v] \in Local
  BY <1>1 DEF TypeOK
<1>3. earlier' = earlier
  BY DEF DeviceAnswers, ProbeReply, Reply, ProbeFails, ReplyBad, Open, NoDevice, LockTpm,
         LockWrite, LockRead, ReadTpm, Count, DrawJitter, CallNext, history
<1>4. /\ IInv' /\ (Cache' = Cache \/ (~Ready /\ Ready'))
      /\ \A v \in Threads : local'[v].buf = local[v].buf
  <2>1. CASE \E n \in 1 .. MaxReply : ProbeReply(w, n)
    BY <2>1, ProbeReplyStep
  <2>2. CASE \E n \in 1 .. MaxReply : Reply(w, n)
    <3>1. PICK n \in 1 .. MaxReply : Reply(w, n)
      BY <2>2
    <3>2. n \in Nat /\ local' = Filled(w, n)
      BY <3>1, EntropyMixAssumption DEF Reply
    <3> QED BY <1>1, <3>1, <3>2, ReplyStep, FilledSpec
  <2>3. CASE NoDevice(w) \/ ProbeFails(w)
    BY <2>3, NoDeviceStep
  <2>4. CASE Open(w)
    BY <2>4, OpenStep
  <2>5. CASE ReplyBad(w) \/ LockWrite(w) \/ CallNext(w) \/ LockRead(w)
    <3>1. local' = local
      BY <2>5 DEF ReplyBad, LockWrite, CallNext, LockRead
    <3> QED BY <2>5, <3>1, LocksStep
  <2>6. CASE LockTpm(w)
    <3>1. BeginRead(w)
      BY <2>6 DEF LockTpm
    <3> QED BY <1>1, <2>6, <3>1, LockTpmStep, BeginReadSpec
  <2>7. CASE DrawJitter(w)
    <3>1. local' = [local EXCEPT ![w].jitter = draws + 1]
      BY <2>7 DEF DrawJitter
    <3>2. \A v \in Threads : local'[v].buf = local[v].buf
      BY <1>2, <3>1 DEF Local
    <3> QED BY <2>7, <3>2, DrawJitterStep
  <2>8. CASE ReadTpm(w)
    <3>1. local' = [local EXCEPT ![w].copied = cached.tpm]
      BY <2>8 DEF ReadTpm
    <3>2. \A v \in Threads : local'[v].buf = local[v].buf
      BY <1>2, <3>1 DEF Local
    <3> QED BY <2>8, <3>2, ReadTpmStep
  <2>9. CASE Count(w)
    <3>1. local' = local
      BY <2>9 DEF Count
    <3> QED BY <2>9, <3>1, CountStep
  <2> QED BY <2>1, <2>2, <2>3, <2>4, <2>5, <2>6, <2>7, <2>8, <2>9 DEF DeviceAnswers
<1>5. held' = held
  BY <1>4, HeldFrame
<1>6. CASE Cache' = Cache
  BY <1>3, <1>5, <1>6 DEF Mix!mixVars, held
<1>7. CASE ~Ready /\ Ready'
  <2>1. Cache = NotMade
    BY <1>1, <1>7, MadeIsMade
  <2>2. Cache' # NotMade
    <3>1. \A j, t : [jitter |-> j, tpm |-> t] # NotMade
      BY RecordMade
    <3> QED BY <1>7, <3>1 DEF Cache, Ready
  <2> QED BY <1>3, <1>5, <2>1, <2>2 DEF Mix!Make, held
<1> QED BY <1>4, <1>6, <1>7

\* The two locks make each call of next and each refresh act on the cached
\* contributions at one instant: a taking is never half old and half new, a
\* renewal brings jitter of its own and the bytes of one read, or none.
THEOREM EntropyMixImplementsAtomicMix == Spec => ImplementsAtomicMix
<1>1. Init => Mix!MixInit
  <2> SUFFICES ASSUME Init PROVE Mix!MixInit
    OBVIOUS
  <2>1. /\ device = "unknown" /\ earlier = {} /\ local = [w \in Threads |-> Fresh]
    BY DEF Init
  <2>2. Cache = NotMade
    BY <2>1 DEF Cache
  <2> QED BY <2>1, <2>2 DEF Mix!MixInit
<1>2. ASSUME IInv, [Next]_vars PROVE [Mix!MixNext]_(Mix!mixVars)
  <2>1. CASE UNCHANGED vars
    <3>1. Cache' = Cache
      BY <1>2, <2>1, IdleStep
    <3>2. local' = local /\ earlier' = earlier
      BY <2>1 DEF vars, history
    <3> QED BY <3>1, <3>2 DEF Mix!mixVars
  <2>2. CASE \E w \in Threads : DeviceAnswers(w) \/ Proceed(w) \/ DrawJitter(w) \/ CallNext(w)
    <3>1. PICK w \in Threads : DeviceAnswers(w) \/ Proceed(w) \/ DrawJitter(w) \/ CallNext(w)
      BY <2>2
    <3>2. CASE WriteJitter(w) \/ WriteTpm(w)
      BY <1>2, <3>2, RenewMaps DEF Mix!MixNext
    <3>3. CASE ReadJitter(w)
      BY <1>2, <3>3, TakeMaps DEF Mix!MixNext
    <3>4. CASE \/ DeviceAnswers(w) \/ Open(w) \/ NoDevice(w) \/ LockTpm(w) \/ LockWrite(w)
               \/ LockRead(w) \/ ReadTpm(w) \/ Count(w) \/ DrawJitter(w) \/ CallNext(w)
      BY <1>2, <3>4, OtherMaps DEF Mix!MixNext
    <3> QED BY <3>1, <3>2, <3>3, <3>4 DEF Proceed
  <2> QED BY <1>2, <2>1, <2>2 DEF Next, Rest
<1> QED BY <1>1, <1>2, IInvAlways, PTL DEF Spec, ImplementsAtomicMix, Mix!MixSpec

=============================================================================
