------------------------------ MODULE HostProofs ------------------------------
(***************************************************************************)
(* Theorems about what the host does outside the searches.  DeviceChecks:  *)
(* the chunks of the scoped threads, the verification of the raw hits of a *)
(* batch, and what a verdict of the self-test means, for every batch,      *)
(* number of threads, sequence of entropies and set of faults.  FrontEnd:  *)
(* the target list of a search, the four matchers and the mnemonic codec,  *)
(* for every call, every width of the characters, bytes and words, and     *)
(* every checksum.                                                         *)
(***************************************************************************)
EXTENDS DeviceChecks, FrontEnd, TargetSetProofs, FiniteSetTheorems, TLAPS

-----------------------------------------------------------------------------
(***************************************************************************)
(* Induction over the naturals                                             *)
(***************************************************************************)

\* Induction over the naturals, for a property given as the set of the numbers
\* that have it.
LEMMA SetInduction ==
    ASSUME NEW S, 0 \in S, \A n \in Nat : n \in S => n + 1 \in S
    PROVE  Nat \subseteq S
<1> DEFINE Out == Nat \ S
<1> SUFFICES ASSUME Out # {} PROVE FALSE
  OBVIOUS
<1>1. PICK m \in Out : \A k \in Out : m <= k
  <2>1. Out \in SUBSET Nat
    OBVIOUS
  <2> HIDE DEF Out
  <2> QED BY <2>1, LeastElement
<1>2. m # 0 /\ m \in Nat
  OBVIOUS
<1>3. m - 1 \in Nat /\ m - 1 \in S
  BY <1>1, <1>2
<1>4. (m - 1) + 1 \in S
  BY <1>3
<1> QED BY <1>2, <1>4

\* A function on 0 .. N that starts with a and makes step F[n] from n - 1 to n.
Iterates(f, A, a, N, F) == /\ f \in [0 .. N -> A]
                           /\ f[0] = a
                           /\ \A n \in 1 .. N : f[n] = F[n][f[n - 1]]

\* Such a function exists, so that a recursive definition has its meaning.
LEMMA RecursionExists ==
    ASSUME NEW A, NEW a \in A, NEW N \in Nat, NEW F \in [1 .. N -> [A -> A]]
    PROVE  \E f : Iterates(f, A, a, N, F)
<1> DEFINE Good(f, m) == /\ f \in [0 .. m -> A]
                         /\ f[0] = a
                         /\ \A n \in 1 .. m : f[n] = F[n][f[n - 1]]
           S == {m \in Nat : m <= N => \E f : Good(f, m)}
<1>1. 0 \in S
  <2>1. Good([n \in 0 .. 0 |-> a], 0)
    OBVIOUS
  <2> HIDE DEF Good
  <2> QED BY <2>1
<1>2. ASSUME NEW m \in Nat, m \in S PROVE m + 1 \in S
  <2> SUFFICES ASSUME m + 1 <= N PROVE \E f : Good(f, m + 1)
    OBVIOUS
  <2>1. PICK f : Good(f, m)
    BY <1>2
  <2> DEFINE g == [n \in 0 .. m + 1 |-> IF n <= m THEN f[n] ELSE F[m + 1][f[m]]]
  <2>2. F[m + 1] \in [A -> A] /\ f[m] \in A
    BY <2>1
  <2>3. g \in [0 .. m + 1 -> A]
    BY <2>1, <2>2
  <2>4. g[0] = a
    BY <2>1
  <2>5. ASSUME NEW n \in 1 .. m + 1 PROVE g[n] = F[n][g[n - 1]]
    <3>1. CASE n <= m
      <4>1. g[n] = f[n] /\ g[n - 1] = f[n - 1] /\ n \in 1 .. m
        BY <3>1
      <4> HIDE DEF g
      <4> QED BY <2>1, <4>1
    <3>2. CASE ~(n <= m)
      <4>1. n = m + 1 /\ n - 1 = m
        BY <3>2
      <4>2. g[n] = F[m + 1][f[m]] /\ g[n - 1] = f[m]
        BY <4>1, <3>2
      <4> HIDE DEF g
      <4> QED BY <4>1, <4>2
    <3> QED BY <3>1, <3>2
  <2> HIDE DEF g
  <2>6. Good(g, m + 1)
    BY <2>3, <2>4, <2>5
  <2> QED BY <2>6
<1>3. Nat \subseteq S
  <2> HIDE DEF S
  <2> QED BY <1>1, <1>2, SetInduction
<1>4. \E f : Good(f, N)
  BY <1>3
<1> QED BY <1>4 DEF Iterates

\* A non-empty set of naturals has its least element.
LEMMA MinSpec ==
    ASSUME NEW S \in SUBSET Nat, S # {}
    PROVE  Min(S) \in S /\ \A k \in S : Min(S) <= k
<1>1. \E m \in S : \A k \in S : m <= k
  BY LeastElement
<1> QED BY <1>1 DEF Min
-----------------------------------------------------------------------------
(***************************************************************************)
(* Products and quotients                                                  *)
(***************************************************************************)

\* The larger factor has the larger product.
LEMMA ProductOrder ==
    ASSUME NEW a \in Nat, NEW b \in Nat, NEW c \in Nat, a * c < b * c
    PROVE  a < b
<1> SUFFICES ASSUME b <= a PROVE FALSE
  OBVIOUS
<1>1. b * c <= a * c
  OBVIOUS
<1>2. b * c \in Nat /\ a * c \in Nat
  OBVIOUS
<1> QED BY <1>1, <1>2

\* It is never less for a larger factor.
LEMMA ProductMono ==
    ASSUME NEW a \in Nat, NEW b \in Nat, NEW c \in Nat, a <= b
    PROVE  a * c <= b * c
  OBVIOUS

\* Division with remainder.
LEMMA DivMod ==
    ASSUME NEW x \in Nat, NEW n \in Nat \ {0}
    PROVE  /\ x \div n \in Nat /\ x % n \in 0 .. n - 1
           /\ x = n * (x \div n) + (x % n)
  OBVIOUS

\* Quotient and remainder are the only numbers of their kind.
LEMMA DivModOf ==
    ASSUME NEW q \in Nat, NEW n \in Nat \ {0}, NEW r \in 0 .. n - 1
    PROVE  (q * n + r) \div n = q /\ (q * n + r) % n = r
<1> DEFINE x == q * n + r
           d == x \div n
           m == x % n
<1>1. q * n \in Nat /\ r \in Nat /\ x \in Nat
  OBVIOUS
<1>2. d \in Nat /\ m \in 0 .. n - 1 /\ x = n * d + m
  <2> HIDE DEF x
  <2> QED BY <1>1, DivMod
<1>3. n * d + m = n * q + r
  BY <1>2
<1> HIDE DEF d, m, x
<1>4. d = q
  <2>1. CASE d >= q + 1
    <3>1. n * d >= n * (q + 1)
      BY <1>2, <2>1
    <3>2. n * (q + 1) = n * q + n
      OBVIOUS
    <3> QED BY <1>1, <1>2, <1>3, <3>1, <3>2
  <2>2. CASE d + 1 <= q
    <3>1. n * q >= n * (d + 1)
      BY <1>2, <2>2
    <3>2. n * (d + 1) = n * d + n
      BY <1>2
    <3> QED BY <1>1, <1>2, <1>3, <3>1, <3>2
  <2> QED BY <1>2, <2>1, <2>2
<1>5. m = r
  BY <1>2, <1>3, <1>4
<1> QED BY <1>4, <1>5 DEF d, m, x

\* A number as a pair of numbers, and back.
LEMMA PairOfIndex ==
    ASSUME NEW a \in Nat, NEW b \in Nat \ {0}, NEW k \in 1 .. a * b
    PROVE  ((k - 1) \div b) + 1 \in 1 .. a /\ ((k - 1) % b) + 1 \in 1 .. b
<1> DEFINE x == k - 1
           q == x \div b
           r == x % b
<1>1. x \in Nat /\ x < a * b
  OBVIOUS
<1>2. q \in Nat /\ r \in 0 .. b - 1 /\ x = b * q + r
  <2> HIDE DEF x
  <2> QED BY <1>1, DivMod
<1> HIDE DEF q, r
<1>3. q < a
  <2> SUFFICES ASSUME q >= a PROVE FALSE
    BY <1>2
  <2>1. b * q >= b * a
    BY <1>2
  <2>2. b * q <= x
    BY <1>2
  <2> HIDE DEF x
  <2> QED BY <1>1, <1>2, <2>1, <2>2
<1> QED BY <1>2, <1>3 DEF q, r

\* The index of a pair gives the pair back.
LEMMA IndexOfPair ==
    ASSUME NEW a \in Nat, NEW b \in Nat \ {0}, NEW i \in 1 .. a, NEW j \in 1 .. b,
           NEW k, k = (i - 1) * b + j
    PROVE  k \in 1 .. a * b /\ ((k - 1) \div b) + 1 = i /\ ((k - 1) % b) + 1 = j
<1>1. i - 1 \in Nat /\ j - 1 \in 0 .. b - 1
  OBVIOUS
<1>2. ((i - 1) * b + (j - 1)) \div b = i - 1 /\ ((i - 1) * b + (j - 1)) % b = j - 1
  BY <1>1, DivModOf
<1>3. (i - 1) * b \in Nat /\ k - 1 = (i - 1) * b + (j - 1)
  OBVIOUS
<1>4. k <= a * b
  <2>1. (i - 1) * b + b = i * b /\ i * b <= a * b
    OBVIOUS
  <2> QED BY <1>3, <2>1
<1> QED BY <1>2, <1>3, <1>4

\* div_ceil, for any dividend.
LEMMA CeilDivBound ==
    ASSUME NEW a \in Nat, NEW b \in Nat \ {0}
    PROVE  /\ CeilDiv(a, b) \in Nat
           /\ a <= CeilDiv(a, b) * b
           /\ CeilDiv(a, b) * b < a + b
<1> DEFINE x == a + b - 1
           q == x \div b
<1>1. x \in Nat
  OBVIOUS
<1>2. q \in Nat /\ (x % b) \in 0 .. b - 1 /\ x = b * q + (x % b)
  <2> HIDE DEF x
  <2> QED BY <1>1, DivMod
<1>3. b * q \in Nat /\ q * b = b * q
  <2> HIDE DEF q
  <2> QED BY <1>2
<1>4. CeilDiv(a, b) = q
  BY DEF CeilDiv
<1> HIDE DEF q
<1>5. a <= b * q /\ b * q < a + b
  BY <1>1, <1>2, <1>3
<1> QED BY <1>2, <1>3, <1>4, <1>5

\* div_ceil is the least number of parts of b that hold a.
LEMMA CeilDivSpec ==
    ASSUME NEW a \in Nat \ {0}, NEW b \in Nat \ {0}
    PROVE  /\ CeilDiv(a, b) \in Nat \ {0}
           /\ a <= CeilDiv(a, b) * b
           /\ (CeilDiv(a, b) - 1) * b < a
<1> DEFINE q == CeilDiv(a, b)
<1>1. q \in Nat /\ a <= q * b /\ q * b < a + b
  BY CeilDivBound
<1> HIDE DEF q
<1>2. q # 0
  <2> SUFFICES ASSUME q = 0 PROVE FALSE
    OBVIOUS
  <2>1. q * b = 0
    OBVIOUS
  <2> QED BY <1>1, <2>1
<1>3. (q - 1) * b < a
  <2>1. (q - 1) * b = q * b - b /\ q * b \in Nat
    BY <1>1
  <2> QED BY <1>1, <2>1
<1> QED BY <1>1, <1>2, <1>3 DEF q

\* Numbers of groups that hold the same number of bits, up to less than one
\* group, are equal.
LEMMA SameCount ==
    ASSUME NEW w \in Nat \ {0}, NEW a \in Nat, NEW b \in Nat, NEW total \in Nat,
           total <= a * w, a * w < total + w, total <= b * w, b * w < total + w
    PROVE  a = b
<1>1. ASSUME NEW p \in Nat, NEW q \in Nat, total <= p * w, q * w < total + w PROVE q <= p
  <2> SUFFICES ASSUME p + 1 <= q PROVE FALSE
    OBVIOUS
  <2>1. (p + 1) * w <= q * w
    OBVIOUS
  <2>2. (p + 1) * w = p * w + w
    OBVIOUS
  <2>3. p * w \in Nat /\ q * w \in Nat
    OBVIOUS
  <2> QED BY <1>1, <2>1, <2>2, <2>3
<1>2. a <= b /\ b <= a
  BY <1>1
<1> QED BY <1>2
-----------------------------------------------------------------------------
(***************************************************************************)
(* Sequences                                                               *)
(***************************************************************************)

\* A sequence is a function on its positions.
LEMMA SequenceIsFunction ==
    ASSUME NEW A, NEW x \in Seq(A)
    PROVE  x \in [1 .. Len(x) -> A]
  OBVIOUS

\* The first elements of a sequence, and one sequence after another.
LEMMA TakeSpec ==
    ASSUME NEW A, NEW x \in Seq(A), NEW m \in 0 .. Len(x)
    PROVE  /\ SubSeq(x, 1, m) \in Seq(A) /\ Len(SubSeq(x, 1, m)) = m
           /\ \A j \in 1 .. m : SubSeq(x, 1, m)[j] = x[j]
  OBVIOUS

\* What a concatenation holds.
LEMMA ConcatSpec ==
    ASSUME NEW A, NEW x \in Seq(A), NEW y \in Seq(A)
    PROVE  /\ x \o y \in Seq(A) /\ Len(x \o y) = Len(x) + Len(y)
           /\ \A j \in 1 .. Len(x) : (x \o y)[j] = x[j]
           /\ \A j \in 1 .. Len(y) : (x \o y)[Len(x) + j] = y[j]
  OBVIOUS

\* What a sequence with one more element holds.
LEMMA AppendSpec ==
    ASSUME NEW A, NEW x \in Seq(A), NEW v \in A
    PROVE  /\ Append(x, v) \in Seq(A) /\ Len(Append(x, v)) = Len(x) + 1
           /\ \A i \in 1 .. Len(x) : Append(x, v)[i] = x[i]
           /\ Append(x, v)[Len(x) + 1] = v
  OBVIOUS

\* A sequence is its beginning and its last element.
LEMMA BeginningAndLast ==
    ASSUME NEW A, NEW x \in Seq(A), NEW n \in Nat, Len(x) = n + 1
    PROVE  Append(SubSeq(x, 1, n), x[n + 1]) = x
<1> DEFINE y == SubSeq(x, 1, n)
<1>1. y \in Seq(A) /\ Len(y) = n /\ \A i \in 1 .. n : y[i] = x[i]
  BY TakeSpec
<1>2. x[n + 1] \in A
  OBVIOUS
<1> HIDE DEF y
<1>3. /\ Append(y, x[n + 1]) \in Seq(A) /\ Len(Append(y, x[n + 1])) = n + 1
      /\ \A i \in 1 .. n : Append(y, x[n + 1])[i] = y[i]
      /\ Append(y, x[n + 1])[n + 1] = x[n + 1]
  BY <1>1, <1>2, AppendSpec
<1> DEFINE z == Append(y, x[n + 1])
<1> HIDE DEF z
<1>4. z \in Seq(A) /\ Len(z) = n + 1 /\ \A i \in 1 .. n + 1 : z[i] = x[i]
  BY <1>1, <1>3 DEF z
<1>5. z = x
  BY <1>4
<1> QED BY <1>5 DEF z, y

\* Without its last element it is the sequence that it was made of.
LEMMA LastOfAppend ==
    ASSUME NEW A, NEW x \in Seq(A), NEW v \in A
    PROVE  SubSeq(Append(x, v), 1, Len(x)) = x
<1> DEFINE z == Append(x, v)
<1>1. z \in Seq(A) /\ Len(z) = Len(x) + 1 /\ \A i \in 1 .. Len(x) : z[i] = x[i]
  BY AppendSpec
<1> HIDE DEF z
<1> DEFINE y == SubSeq(z, 1, Len(x))
<1>2. y \in Seq(A) /\ Len(y) = Len(x) /\ \A i \in 1 .. Len(x) : y[i] = z[i]
  <2>1. Len(x) \in 0 .. Len(z)
    BY <1>1
  <2> QED BY <1>1, <2>1, TakeSpec
<1> HIDE DEF y
<1>3. y = x
  BY <1>1, <1>2
<1> QED BY <1>3 DEF y, z
-----------------------------------------------------------------------------
(***************************************************************************)
(* DeviceChecks: the invariant                                             *)
(***************************************************************************)

VerifyArgs == [threads : Threads, hits : Batches, canonicalOnly : BOOLEAN,
               active : [Targets -> BOOLEAN]]

TestArgs == [threads : Threads, scheme : {"f1", "ed25519"}, seeds : SelfTests,
             faults : FaultSets]

F1Stages == {"sampler", "pubkey", "addr", "retry", "matcher", "search"}

EdStages == {"edReference", "edSearchPath", "edMatcher", "edSearch"}

Ended == {"pass", "fail", "error"}

Shared == {"verify", "retry", "search"}

\* The stages of a command are those of what it was called for.
PathInv ==
    \/ args \in VerifyArgs /\ stage \in {"verify", "verified"}
    \/ /\ args \in TestArgs
       /\ \/ args.scheme = "f1" /\ stage \in F1Stages
          \/ args.scheme = "ed25519" /\ stage \in EdStages
          \/ stage \in Ended

\* The items of a stage are those that it was entered with.
ItemsInv ==
    /\ args \in VerifyArgs => input \in Seq(RawHits)
    /\ args \in TestArgs => input \in Seq(Entropies)
    /\ stage \in {"verify", "verified"} => input = args.hits
    /\ stage = "retry" => input = Subset
    /\ stage = "search" => input = args.seeds

\* Each thread is in its chunk.
ChunksInv ==
    /\ pos \in Seq(Nat)
    /\ DOMAIN pos = DOMAIN Starts(input)
    /\ \A c \in DOMAIN pos : pos[c] \in FirstOf(c, Len(input)) .. LastOf(c, Len(input)) + 1

\* What a thread has passed is done, and stays so in the result.
ResultsInv ==
    /\ DOMAIN out = DOMAIN input
    /\ stage \in Shared =>
          \A c \in DOMAIN pos : \A i \in DOMAIN input :
              FirstOf(c, Len(input)) <= i /\ i < pos[c] => out[i] = ResultOf(input[i])
    /\ stage = "verified" => \A i \in DOMAIN input : out[i] = VerifyOne(input[i])

\* No fault of these kinds is in the answer for a seed.
Without(kinds) == \A e \in Seeds, kind \in kinds : ~Faulty(kind, e)

PubkeyRight == \A e \in Seeds : HasPubkey(e) => ~Faulty("pubkey", e)

AddrRight == \A e \in Seeds : HasPubkey(e) /\ ~Faulty("addrOk", e) => ~Faulty("addr", e)

RetryTolerated == Tolerated(Cardinality(RetryFaults), Len(Subset))

\* What the stages behind have shown.
PassedInv ==
    /\ stage \in {"pubkey", "addr", "retry", "matcher", "search"} => Without({"sampler"})
    /\ stage \in {"addr", "retry", "matcher", "search"} => PubkeyRight /\ Without({"invertible"})
    /\ stage \in {"retry", "matcher", "search"} => AddrRight
    /\ stage \in {"matcher", "search"} => RetryTolerated
    /\ stage = "search" => Without({"matcher"})
    /\ stage \in {"edSearchPath", "edMatcher", "edSearch"} => Without({"reference"})
    /\ stage \in {"edMatcher", "edSearch"} => Without({"fast"})
    /\ stage = "edSearch" => Without({"matcher"})

IInv == PathInv /\ ItemsInv /\ ChunksInv /\ ResultsInv /\ PassedInv /\ SelfTestVerdict
-----------------------------------------------------------------------------
(***************************************************************************)
(* DeviceChecks: sharing out                                               *)
(***************************************************************************)

\* The chunks of n items are not empty, cover the items and are no more than
\* the threads.
LEMMA ChunkSpec ==
    ASSUME NEW n \in Nat \ {0}, args.threads \in Nat \ {0}
    PROVE  /\ ChunkLen(n) \in Nat \ {0}
           /\ CeilDiv(n, ChunkLen(n)) \in Nat \ {0}
           /\ CeilDiv(n, ChunkLen(n)) <= args.threads
           /\ \A c \in 1 .. CeilDiv(n, ChunkLen(n)) :
                 /\ FirstOf(c, n) \in 1 .. n
                 /\ LastOf(c, n) \in FirstOf(c, n) .. n
           /\ \A i \in 1 .. n : \E c \in 1 .. CeilDiv(n, ChunkLen(n)) :
                 FirstOf(c, n) <= i /\ i <= LastOf(c, n)
<1> DEFINE W == IF args.threads < n THEN args.threads ELSE n
           L == ChunkLen(n)
           K == CeilDiv(n, L)
<1>1. W \in Nat \ {0} /\ W <= args.threads
  OBVIOUS
<1>2. L \in Nat \ {0} /\ n <= L * W
  <2> HIDE DEF W
  <2> QED BY <1>1, CeilDivSpec DEF ChunkLen, W
<1> HIDE DEF W
<1> HIDE DEF L
<1>3. K \in Nat \ {0} /\ n <= K * L /\ (K - 1) * L < n
  BY <1>2, CeilDivSpec
<1> HIDE DEF K
<1>4. K <= W
  <2>1. K - 1 \in Nat
    BY <1>3
  <2>2. (K - 1) * L \in Nat /\ L * W \in Nat /\ L * W = W * L
    BY <1>1, <1>2, <2>1
  <2>3. (K - 1) * L < W * L
    BY <1>2, <1>3, <2>2
  <2>4. K - 1 < W
    BY <1>1, <1>2, <2>1, <2>3, ProductOrder
  <2> QED BY <1>1, <1>3, <2>4
<1>5. ASSUME NEW c \in 1 .. K
      PROVE  FirstOf(c, n) \in 1 .. n /\ LastOf(c, n) \in FirstOf(c, n) .. n
  <2>1. /\ c \in Nat \ {0} /\ c <= K
        /\ c - 1 \in Nat /\ K - 1 \in Nat /\ c - 1 <= K - 1
    BY <1>3
  <2>2. (c - 1) * L \in Nat /\ (K - 1) * L \in Nat
    BY <1>2, <2>1
  <2>3. (c - 1) * L <= (K - 1) * L
    BY <1>2, <2>1, ProductMono
  <2>4. c * L = (c - 1) * L + L
    BY <1>2, <2>1
  <2>5. FirstOf(c, n) = (c - 1) * L + 1
    BY DEF FirstOf, L
  <2>6. FirstOf(c, n) \in 1 .. n
    BY <1>3, <2>2, <2>3, <2>5
  <2>7. LastOf(c, n) = IF c * L < n THEN c * L ELSE n
    BY DEF LastOf, L
  <2>8. c * L \in Nat /\ FirstOf(c, n) <= c * L
    BY <1>2, <2>2, <2>4, <2>5
  <2> QED BY <2>6, <2>7, <2>8
<1>6. ASSUME NEW i \in 1 .. n
      PROVE  \E c \in 1 .. K : FirstOf(c, n) <= i /\ i <= LastOf(c, n)
  <2> DEFINE c == CeilDiv(i, L)
  <2>1. c \in Nat \ {0} /\ i <= c * L /\ (c - 1) * L < i
    BY <1>2, CeilDivSpec
  <2> HIDE DEF c
  <2>2. c - 1 \in Nat
    BY <2>1
  <2>3. (c - 1) * L \in Nat /\ K * L \in Nat /\ c * L \in Nat
    BY <1>2, <1>3, <2>1, <2>2
  <2>4. (c - 1) * L < K * L
    BY <1>3, <2>1, <2>3
  <2>5. c - 1 < K
    BY <1>2, <1>3, <2>2, <2>4, ProductOrder
  <2>6. c \in 1 .. K
    BY <1>3, <2>1, <2>5
  <2>7. FirstOf(c, n) <= i
    BY <2>1, <2>3 DEF FirstOf, L
  <2>8. i <= LastOf(c, n)
    BY <2>1, <2>3 DEF LastOf, L
  <2> QED BY <2>6, <2>7, <2>8
<1> QED BY <1>1, <1>2, <1>3, <1>4, <1>5, <1>6 DEF K, L

\* The threads start in their chunks, and no more of them than there may be.
LEMMA StartsSpec ==
    ASSUME NEW S, NEW s \in Seq(S), args.threads \in Nat \ {0}
    PROVE  /\ Starts(s) \in Seq(Nat)
           /\ Len(Starts(s)) <= args.threads
           /\ \A c \in DOMAIN Starts(s) :
                 /\ Starts(s)[c] = FirstOf(c, Len(s))
                 /\ FirstOf(c, Len(s)) \in 1 .. Len(s)
                 /\ LastOf(c, Len(s)) \in FirstOf(c, Len(s)) .. Len(s)
           /\ \A i \in 1 .. Len(s) : \E c \in DOMAIN Starts(s) :
                 FirstOf(c, Len(s)) <= i /\ i <= LastOf(c, Len(s))
<1>1. CASE s = <<>>
  <2>1. Starts(s) = <<>> /\ Len(s) = 0
    BY <1>1 DEF Starts
  <2> QED BY <2>1
<1>2. CASE s # <<>>
  <2> DEFINE n == Len(s)
             K == CeilDiv(n, ChunkLen(n))
  <2>1. n \in Nat \ {0}
    BY <1>2
  <2>2. Starts(s) = [c \in 1 .. K |-> FirstOf(c, n)]
    BY <1>2 DEF Starts
  <2> HIDE DEF n
  <2>3. /\ K \in Nat /\ K <= args.threads
        /\ \A c \in 1 .. K : /\ FirstOf(c, n) \in 1 .. n
                             /\ LastOf(c, n) \in FirstOf(c, n) .. n
        /\ \A i \in 1 .. n : \E c \in 1 .. K : FirstOf(c, n) <= i /\ i <= LastOf(c, n)
    BY <2>1, ChunkSpec
  <2> HIDE DEF K
  <2>4. ASSUME NEW c \in 1 .. K PROVE FirstOf(c, n) \in Nat
    <3>1. FirstOf(c, n) \in 1 .. n
      BY <2>3
    <3> QED BY <2>1, <3>1
  <2>5. Starts(s) \in Seq(Nat) /\ Len(Starts(s)) = K /\ DOMAIN Starts(s) = 1 .. K
    BY <2>2, <2>3, <2>4
  <2> QED BY <2>2, <2>3, <2>5 DEF n
<1> QED BY <1>1, <1>2

-----------------------------------------------------------------------------
(***************************************************************************)
(* DeviceChecks: what a command is called with                             *)
(***************************************************************************)

\* There is a thread at least; raw hits to verify or entropies to test with.
LEMMA ArgsType ==
    /\ args \in VerifyArgs =>
          /\ args \notin TestArgs /\ "hits" \in DOMAIN args
          /\ args.threads \in Nat \ {0} /\ args.hits \in Seq(RawHits)
          /\ args.canonicalOnly \in BOOLEAN /\ args.active \in [Targets -> BOOLEAN]
    /\ args \in TestArgs =>
          /\ "hits" \notin DOMAIN args /\ args.scheme \in {"f1", "ed25519"}
          /\ args.threads \in Nat \ {0}
          /\ args.seeds \in Seq(Entropies) /\ args.seeds # <<>>
          /\ args.faults \in SUBSET [kind : Kinds, entropy : Entropies]
<1>1. /\ Threads \subseteq Nat \ {0} /\ Batches \subseteq Seq(RawHits)
      /\ SelfTests \subseteq Seq(Entropies) \ {<<>>}
      /\ FaultSets \subseteq SUBSET [kind : Kinds, entropy : Entropies]
  BY DeviceChecksAssumption
<1>2. ASSUME args \in VerifyArgs
      PROVE  /\ DOMAIN args = {"threads", "hits", "canonicalOnly", "active"}
             /\ args.threads \in Threads /\ args.hits \in Batches
             /\ args.canonicalOnly \in BOOLEAN /\ args.active \in [Targets -> BOOLEAN]
  BY <1>2 DEF VerifyArgs
<1>3. ASSUME args \in TestArgs
      PROVE  /\ DOMAIN args = {"threads", "scheme", "seeds", "faults"}
             /\ args.threads \in Threads /\ args.scheme \in {"f1", "ed25519"}
             /\ args.seeds \in SelfTests /\ args.faults \in FaultSets
  BY <1>3 DEF TestArgs
<1>4. "hits" \notin {"threads", "scheme", "seeds", "faults"}
  OBVIOUS
<1> QED BY <1>1, <1>2, <1>3, <1>4

\* The entropies of the retry stage are the first of the seeds.
LEMMA SubsetSpec ==
    ASSUME args \in TestArgs
    PROVE  /\ Subset \in Seq(Entropies)
           /\ \A i \in DOMAIN Subset : Subset[i] \in Seeds
           /\ Seeds \subseteq Entropies
<1>1. args.seeds \in Seq(Entropies) /\ RetryItems \in Nat \ {0}
  BY ArgsType, DeviceChecksAssumption
<1> DEFINE s == args.seeds
           m == IF Len(s) < RetryItems THEN Len(s) ELSE RetryItems
<1>2. m \in 0 .. Len(s)
  BY <1>1
<1>3. Subset = SubSeq(s, 1, m)
  BY DEF Subset
<1>4. \A i \in DOMAIN s : s[i] \in Entropies
  BY <1>1
<1>5. Seeds = {s[i] : i \in DOMAIN s}
  BY DEF Seeds, ToSet
<1> HIDE DEF m, s
<1>6. s \in Seq(Entropies)
  BY <1>1 DEF s
<1>7. /\ SubSeq(s, 1, m) \in Seq(Entropies) /\ Len(SubSeq(s, 1, m)) = m
      /\ \A i \in 1 .. m : SubSeq(s, 1, m)[i] = s[i]
  BY <1>2, <1>6
<1>8. \A i \in 1 .. m : i \in DOMAIN s
  BY <1>2, <1>6
<1> QED BY <1>3, <1>4, <1>5, <1>7, <1>8

\* What depends on the arguments alone stays while they do.
LEMMA ArgsFrame ==
    ASSUME args' = args
    PROVE  /\ Subset' = Subset /\ Seeds' = Seeds /\ Seen' = Seen /\ RetryDoubts' = RetryDoubts
           /\ RetryTolerated' <=> RetryTolerated
           /\ \A kinds : Without(kinds)' <=> Without(kinds)
           /\ PubkeyRight' <=> PubkeyRight
           /\ AddrRight' <=> AddrRight
           /\ (args \in VerifyArgs)' <=> args \in VerifyArgs
           /\ (args \in TestArgs)' <=> args \in TestArgs
           /\ \A c, n : FirstOf(c, n)' = FirstOf(c, n) /\ LastOf(c, n)' = LastOf(c, n)
           /\ \A s : Starts(s)' = Starts(s)
           /\ \A h : VerifyOne(h)' = VerifyOne(h)
<1>1. Subset' = Subset /\ Seeds' = Seeds /\ \A k, e : Faulty(k, e)' <=> Faulty(k, e)
  BY DEF Subset, Seeds, Faulty
<1>2. \A f : F1Unseen(f)' <=> F1Unseen(f)
  BY <1>1 DEF F1Unseen
<1>3. Seen' = Seen
  BY <1>1, <1>2 DEF Seen
<1>4. RetryDoubts' = RetryDoubts /\ (RetryTolerated' <=> RetryTolerated)
  BY <1>1 DEF RetryDoubts, RetryTolerated, RetryFaults, Tolerated
<1>5. /\ \A kinds : Without(kinds)' <=> Without(kinds)
      /\ PubkeyRight' <=> PubkeyRight
      /\ AddrRight' <=> AddrRight
  BY <1>1 DEF Without, PubkeyRight, AddrRight
<1>6. \A n : ChunkLen(n)' = ChunkLen(n)
  BY DEF ChunkLen
<1>7. \A c, n : FirstOf(c, n)' = FirstOf(c, n) /\ LastOf(c, n)' = LastOf(c, n)
  BY <1>6 DEF FirstOf, LastOf
<1>8. \A s : Starts(s)' = Starts(s)
  BY <1>6, <1>7 DEF Starts
<1>9. \A h : VerifyOne(h)' = VerifyOne(h)
  BY DEF VerifyOne
<1>10. /\ (args \in VerifyArgs)' <=> args \in VerifyArgs
       /\ (args \in TestArgs)' <=> args \in TestArgs
  BY DEF VerifyArgs, TestArgs
<1> QED BY <1>1, <1>3, <1>4, <1>5, <1>7, <1>8, <1>9, <1>10

-----------------------------------------------------------------------------
(***************************************************************************)
(* DeviceChecks: the threads                                               *)
(***************************************************************************)

\* A stage is entered with its threads at the start of their chunks.
LEMMA EnterSpec ==
    ASSUME NEW next, NEW S, NEW items \in Seq(S), args.threads \in Nat \ {0},
           Enter(next, items)
    PROVE  /\ stage' = next /\ input' = items /\ args' = args
           /\ ChunksInv'
           /\ DOMAIN out' = DOMAIN input'
           /\ \A c \in DOMAIN pos' : pos'[c] = FirstOf(c, Len(items))
<1>1. /\ stage' = next /\ input' = items /\ args' = args /\ pos' = Starts(items)
      /\ out' = [i \in DOMAIN items |-> Empty]
  BY DEF Enter
<1>2. /\ Starts(items) \in Seq(Nat)
      /\ \A c \in DOMAIN Starts(items) :
            /\ Starts(items)[c] = FirstOf(c, Len(items))
            /\ FirstOf(c, Len(items)) \in 1 .. Len(items)
            /\ LastOf(c, Len(items)) \in FirstOf(c, Len(items)) .. Len(items)
  BY StartsSpec
<1>3. /\ \A c, n : FirstOf(c, n)' = FirstOf(c, n) /\ LastOf(c, n)' = LastOf(c, n)
      /\ \A s : Starts(s)' = Starts(s)
  BY <1>1, ArgsFrame
<1>4. Len(items) \in Nat
  OBVIOUS
<1>5. ASSUME NEW c \in DOMAIN Starts(items)
      PROVE  Starts(items)[c] \in FirstOf(c, Len(items)) .. LastOf(c, Len(items)) + 1
  BY <1>2, <1>4, <1>5
<1>6. ChunksInv'
  <2>1. /\ pos' = Starts(items) /\ Starts(input)' = Starts(items)
        /\ \A c : /\ FirstOf(c, Len(input))' = FirstOf(c, Len(items))
                  /\ LastOf(c, Len(input))' = LastOf(c, Len(items))
    BY <1>1, <1>3 DEF Starts, FirstOf, LastOf, ChunkLen
  <2> QED BY <1>2, <1>5, <2>1 DEF ChunksInv
<1> QED BY <1>1, <1>2, <1>6

\* When all the threads have ended, each item has its result.
LEMMA AllDoneSpec ==
    ASSUME NEW S, input \in Seq(S), args.threads \in Nat \ {0}, ChunksInv, ResultsInv,
           AllDone, stage \in Shared, NEW i \in DOMAIN input
    PROVE  out[i] = ResultOf(input[i])
<1> DEFINE n == Len(input)
<1>1. n \in Nat /\ i \in 1 .. n
  OBVIOUS
<1>2. PICK c \in DOMAIN Starts(input) : FirstOf(c, n) <= i /\ i <= LastOf(c, n)
  BY <1>1, StartsSpec
<1>3. /\ c \in DOMAIN pos /\ pos[c] \in FirstOf(c, n) .. LastOf(c, n) + 1
      /\ ~(pos[c] <= LastOf(c, n))
  BY <1>2 DEF ChunksInv, AllDone, Working
<1>4. FirstOf(c, n) \in 1 .. n /\ LastOf(c, n) \in FirstOf(c, n) .. n
  BY <1>2, StartsSpec
<1> HIDE DEF n
<1>5. FirstOf(c, n) \in Int /\ LastOf(c, n) \in Int /\ i \in Int
  BY <1>1, <1>4
<1>6. i < pos[c]
  BY <1>2, <1>3, <1>5
<1> QED BY <1>2, <1>3, <1>6 DEF ResultsInv, n

\* A thread does the item that it is at, and nothing else.
LEMMA WorkSpec ==
    ASSUME NEW S, input \in Seq(S), args.threads \in Nat \ {0}, ChunksInv, ResultsInv,
           NEW c \in DOMAIN pos, Work(c)
    PROVE  ChunksInv' /\ ResultsInv'
<1> DEFINE n == Len(input)
<1>1. /\ stage \in Shared /\ stage' = stage /\ args' = args /\ input' = input
      /\ out' = [out EXCEPT ![pos[c]] = ResultOf(input[pos[c]])]
      /\ pos' = [pos EXCEPT ![c] = pos[c] + 1]
      /\ pos[c] <= LastOf(c, n)
  BY DEF Work, Shared, Working
<1>2. /\ \A k, m : FirstOf(k, m)' = FirstOf(k, m) /\ LastOf(k, m)' = LastOf(k, m)
      /\ \A s : Starts(s)' = Starts(s)
      /\ \A h : VerifyOne(h)' = VerifyOne(h)
  BY <1>1, ArgsFrame
<1>3. \A x : ResultOf(x)' = ResultOf(x)
  BY <1>1, <1>2 DEF ResultOf
<1>4. \A k : /\ FirstOf(k, Len(input))' = FirstOf(k, n)
             /\ LastOf(k, Len(input))' = LastOf(k, n)
  BY <1>1, <1>2 DEF FirstOf, LastOf, ChunkLen
<1>5. Starts(input)' = Starts(input)
  BY <1>1, <1>2 DEF Starts, FirstOf, ChunkLen
<1>6. \A k \in DOMAIN pos : /\ pos[k] \in FirstOf(k, n) .. LastOf(k, n) + 1
                            /\ FirstOf(k, n) \in 1 .. n
                            /\ LastOf(k, n) \in FirstOf(k, n) .. n
  BY StartsSpec DEF ChunksInv
<1>7. n \in Nat /\ DOMAIN input = 1 .. n
  OBVIOUS
<1>8. pos \in Seq(Nat) /\ DOMAIN pos = DOMAIN Starts(input)
  BY DEF ChunksInv
<1> HIDE DEF n
<1>9. pos[c] \in Nat /\ pos[c] + 1 \in Nat
  BY <1>8
<1>10. DOMAIN pos' = DOMAIN pos /\ pos' \in Seq(Nat) /\ pos'[c] = pos[c] + 1
       /\ \A k \in DOMAIN pos : k # c => pos'[k] = pos[k]
  BY <1>1, <1>8, <1>9
<1>11. pos[c] \in DOMAIN input
  BY <1>1, <1>6, <1>7
<1>12. ASSUME NEW k \in DOMAIN pos
       PROVE  pos'[k] \in FirstOf(k, n) .. LastOf(k, n) + 1
  <2>1. /\ pos[k] \in FirstOf(k, n) .. LastOf(k, n) + 1
        /\ FirstOf(k, n) \in Int /\ LastOf(k, n) \in Int
    BY <1>6, <1>7
  <2>2. CASE k = c
    BY <1>1, <1>10, <2>1, <2>2
  <2>3. CASE k # c
    BY <1>10, <2>1, <2>3
  <2> QED BY <2>2, <2>3
<1>13. ChunksInv'
  BY <1>4, <1>5, <1>8, <1>10, <1>12 DEF ChunksInv
<1>14. DOMAIN out' = DOMAIN out /\ DOMAIN out = DOMAIN input
  BY <1>1 DEF ResultsInv
<1>15. ASSUME NEW k \in DOMAIN pos, NEW i \in DOMAIN input, FirstOf(k, n) <= i, i < pos'[k]
       PROVE  out'[i] = ResultOf(input[i])
  <2>1. CASE i = pos[c]
    BY <1>1, <1>14, <2>1
  <2>2. CASE i # pos[c]
    <3>1. i \in Nat /\ pos[k] \in Nat
      BY <1>7, <1>8
    <3>2. i < pos[k]
      <4>1. CASE k = c
        BY <1>9, <1>10, <1>15, <2>2, <3>1, <4>1
      <4>2. CASE k # c
        BY <1>10, <1>15, <4>2
      <4> QED BY <4>1, <4>2
    <3>3. out[i] = ResultOf(input[i])
      BY <1>1, <1>15, <3>2 DEF ResultsInv, n
    <3> QED BY <1>1, <1>14, <2>2, <3>3
  <2> QED BY <2>1, <2>2
<1>16. stage' # "verified"
  BY <1>1 DEF Shared
<1>17. ResultsInv'
  BY <1>1, <1>3, <1>4, <1>10, <1>14, <1>15, <1>16 DEF ResultsInv
<1> QED BY <1>13, <1>17

-----------------------------------------------------------------------------
(***************************************************************************)
(* DeviceChecks: key generation                                            *)
(***************************************************************************)

\* The stream of an entropy has attempts, the last of which is accepted.
LEMMA AttemptsType ==
    ASSUME NEW e \in Entropies
    PROVE  /\ Attempts[e] \in Seq(Fg) /\ Len(Attempts[e]) \in Nat \ {0}
           /\ \A i \in 1 .. Len(Attempts[e]) : Attempts[e][i] \in Fg
           /\ Attempts[e][Len(Attempts[e])].fails = {}
           /\ SampleFg(e) = Attempts[e][1] /\ SampleFg(e) \in Fg
<1>1. Attempts[e] \in Seq(Fg) /\ Attempts[e] # <<>> /\ Last(Attempts[e]).fails = {}
  BY KeyGenAssumption
<1> DEFINE s == Attempts[e]
<1> HIDE DEF s
<1>2. s \in Seq(Fg) /\ s # <<>> /\ s[Len(s)].fails = {}
  BY <1>1 DEF Last, s
<1>3. Len(s) \in Nat \ {0} /\ \A i \in 1 .. Len(s) : s[i] \in Fg
  BY <1>2
<1>4. SampleFg(e) = s[1]
  BY DEF SampleFg, SampleFgNth, s
<1> QED BY <1>2, <1>3, <1>4 DEF s

\* The public half of a key fails only where there is none.
LEMMA PubkeyType ==
    ASSUME NEW fg \in Fg
    PROVE  /\ fg.pk \in Keys /\ fg.pk # NoKey
           /\ fg.fails \in SUBSET ToSet(Stages)
           /\ fg.borderline \in BOOLEAN
           /\ PubkeyFromFg(fg) \in Keys \cup {NoKey}
  BY KeyGenAssumption DEF Fg, PubkeyFromFg

\* An attempt is accepted when it fails none of the checks.
LEMMA AcceptedSpec ==
    ASSUME NEW fg \in Fg
    PROVE  FirstSampleStage(fg) = "Accepted" <=> fg.fails = {}
<1> SUFFICES ASSUME fg.fails # {} PROVE FirstSampleStage(fg) # "Accepted"
  BY DEF FirstSampleStage
<1> DEFINE I == {i \in 1 .. Len(Stages) : Stages[i] \in fg.fails}
<1>1. fg.fails \in SUBSET ToSet(Stages)
  BY PubkeyType
<1>2. Len(Stages) = 5 /\ DOMAIN Stages = 1 .. 5
  BY DEF Stages
<1>3. I \in SUBSET Nat /\ I # {}
  BY <1>1, <1>2 DEF ToSet
<1>4. Min(I) \in I
  BY <1>3, MinSpec
<1>5. SelectInSeq(Stages, LAMBDA s : s \in fg.fails) = Min(I)
  BY <1>3 DEF SelectInSeq
<1>6. FirstSampleStage(fg) = Stages[Min(I)]
  BY <1>5 DEF FirstSampleStage
<1>7. Stages[Min(I)] \in ToSet(Stages)
  BY <1>2, <1>4 DEF ToSet
<1>8. "Accepted" \notin ToSet(Stages)
  BY DEF ToSet, Stages
<1> QED BY <1>6, <1>7, <1>8

\* The whole key generation gives a key, and the first attempt's if it is
\* accepted.
LEMMA KeygenSpec ==
    ASSUME NEW e \in Entropies
    PROVE  /\ KeygenFromSeed(e) \in Keys
           /\ SampleFg(e).fails = {} => KeygenFromSeed(e) = SampleFg(e).pk
<1> DEFINE s == Attempts[e]
           I == {i \in 1 .. Len(s) : s[i].fails = {}}
<1>1. FirstAttempt(e, LAMBDA fg : fg.fails = {}) = IF I # {} THEN Min(I) ELSE 0
  BY DEF FirstAttempt, SelectInSeq
<1>2. /\ Len(s) \in Nat \ {0} /\ s[Len(s)].fails = {} /\ SampleFg(e) = s[1]
      /\ \A i \in 1 .. Len(s) : s[i] \in Fg
  BY AttemptsType
<1>3. KeygenFromSeed(e) = s[FirstAttempt(e, LAMBDA fg : fg.fails = {})].pk
  BY DEF KeygenFromSeed
<1> HIDE DEF s
<1>4. I \in SUBSET Nat /\ Len(s) \in I
  BY <1>2
<1>5. Min(I) \in I /\ \A i \in I : Min(I) <= i
  BY <1>4, MinSpec
<1>6. KeygenFromSeed(e) = s[Min(I)].pk
  BY <1>1, <1>3, <1>4
<1>7. s[Min(I)] \in Fg
  BY <1>2, <1>5
<1>8. ASSUME SampleFg(e).fails = {} PROVE Min(I) = 1
  <2>1. 1 \in I
    BY <1>2, <1>8
  <2>2. Min(I) <= 1 /\ Min(I) \in 1 .. Len(s)
    BY <1>5, <2>1
  <2> HIDE DEF I
  <2> QED BY <2>2
<1> QED BY <1>2, <1>6, <1>7, <1>8, PubkeyType

\* Without a borderline attempt the retry loop of the device and that of the
\* CPU stop at the same attempt.
LEMMA RetrySpec ==
    ASSUME NEW e \in Entropies, \A fg \in ToSet(Attempts[e]) : ~fg.borderline
    PROVE  DevAccept(e) = FirstVisibleAccept(e, MaxAttempts)
<1> DEFINE s == Attempts[e]
           I == {i \in 1 .. Len(s) : s[i].fails \subseteq {"SolveFailed"}}
           J == {i \in 1 .. Len(s) : DeviceFails(s[i]) \subseteq {"SolveFailed"}}
           n == IF I # {} THEN Min(I) ELSE 0
<1>1. FirstAttempt(e, LAMBDA fg : fg.fails \subseteq {"SolveFailed"}) = n
  BY DEF FirstAttempt, SelectInSeq
<1>2. FirstAttempt(e, LAMBDA fg : DeviceFails(fg) \subseteq {"SolveFailed"})
        = IF J # {} THEN Min(J) ELSE 0
  BY DEF FirstAttempt, SelectInSeq
<1>3. I = J
  <2>1. DOMAIN s = 1 .. Len(s)
    BY AttemptsType
  <2>2. \A i \in 1 .. Len(s) : DeviceFails(s[i]) = s[i].fails
    BY <2>1 DEF DeviceFails, ToSet
  <2> QED BY <2>2
<1>4. FirstVisibleAccept(e, MaxAttempts) = IF n <= MaxAttempts THEN n - 1 ELSE -1
  BY <1>1 DEF FirstVisibleAccept
<1>5. DevAccept(e) = (IF n <= MaxAttempts THEN n ELSE 0) - 1
  BY <1>2, <1>3 DEF DevAccept, DevRetrySample
<1> HIDE DEF n
<1> QED BY <1>4, <1>5

\* What verify_hits keeps and what it culls, one raw hit at a time.
LEMMA VerifyOneSpec ==
    ASSUME args \in VerifyArgs, NEW hit \in RawHits
    PROVE  LET pk == KeygenFromSeed(hit.entropy)
               asked == {t \in Matches[pk][hit.salt] : args.active[t]}
               kept == VerifyOne(hit)
           IN IF kept.found
              THEN /\ kept.entropy = hit.entropy /\ kept.salt = hit.salt /\ kept.pk = pk
                   /\ Imports(hit, args.canonicalOnly) /\ kept.target \in asked
              ELSE \/ SampleFg(hit.entropy).fails # {}
                   \/ ~Imports(hit, args.canonicalOnly) \/ asked = {}
<1> DEFINE e == hit.entropy
           fg == SampleFg(e)
           pk == KeygenFromSeed(e)
           M == Matches[pk][hit.salt]
           t == FirstMatch(args.active, M)
           asked == {u \in M : args.active[u]}
<1>1. e \in Entropies /\ hit.salt \in Salts
  BY DEF RawHits
<1>2. fg \in Fg /\ pk \in Keys /\ (fg.fails = {} => pk = fg.pk)
  BY <1>1, AttemptsType, KeygenSpec
<1>3. args.active \in [Targets -> BOOLEAN] /\ M \in SUBSET Targets
  BY <1>1, <1>2, ArgsType, PqAddressAssumption
<1>4. CASE fg.fails # {}
  <2>1. CompleteFromFg(fg) = NoKey
    BY <1>2, <1>4, AcceptedSpec DEF CompleteFromFg
  <2>2. VerifyOne(hit) = Empty
    BY <2>1 DEF VerifyOne
  <2> QED BY <1>4, <2>2 DEF Empty
<1>5. CASE fg.fails = {}
  <2>1. CompleteFromFg(fg) = pk /\ pk # NoKey
    BY <1>2, <1>5, AcceptedSpec, PubkeyType DEF CompleteFromFg
  <2>2. VerifyOne(hit) =
          IF t # NoTarget /\ Imports(hit, args.canonicalOnly)
          THEN [found |-> TRUE, entropy |-> e, salt |-> hit.salt, pk |-> pk, target |-> t]
          ELSE Empty
    BY <2>1 DEF VerifyOne, Imports
  <2>3. CASE t # NoTarget /\ Imports(hit, args.canonicalOnly)
    <3>1. t \in asked
      BY <1>3, <2>3, FirstMatchSpec
    <3> HIDE DEF pk, t, asked
    <3> QED BY <2>2, <2>3, <3>1 DEF pk, asked
  <2>4. CASE ~(t # NoTarget /\ Imports(hit, args.canonicalOnly))
    <3>1. VerifyOne(hit) = Empty /\ ~Empty.found
      BY <2>2, <2>4 DEF Empty
    <3>2. t = NoTarget => asked = {}
      BY <1>3, FirstMatchNone
    <3> QED BY <2>4, <3>1, <3>2
  <2> QED BY <2>3, <2>4
<1> QED BY <1>4, <1>5

-----------------------------------------------------------------------------
(***************************************************************************)
(* DeviceChecks: the stages of the self-test                               *)
(***************************************************************************)

\* A wrong answer differs from the right one.
LEMMA AnswerSpec ==
    ASSUME NEW kind, NEW e, NEW right, "wrong" \notin DOMAIN right
    PROVE  Answer(kind, e, right) = right <=> ~Faulty(kind, e)
<1>1. [wrong |-> right] # right
  <2>1. "wrong" \in DOMAIN [wrong |-> right]
    OBVIOUS
  <2> QED BY <2>1
<1> QED BY <1>1 DEF Answer

\* None of the answers that are right has the mark of a wrong one.
LEMMA RightAnswers ==
    /\ \A fg \in Fg : "wrong" \notin DOMAIN fg
    /\ \A e : /\ "wrong" \notin DOMAIN Pubkey(e)
              /\ "wrong" \notin DOMAIN Scan(e)
              /\ "wrong" \notin DOMAIN EdScan(e)
              /\ "wrong" \notin DOMAIN [entropy |-> e]
    /\ \A e, salt : "wrong" \notin DOMAIN Addr(e, salt)
    /\ \A n : "wrong" \notin DOMAIN [att |-> n]
    /\ "wrong" \notin DOMAIN Empty
<1>1. \A fg \in Fg : DOMAIN fg = {"fails", "borderline", "pk"}
  BY DEF Fg
<1>2. \A e : DOMAIN Pubkey(e) = {"pk"} /\ DOMAIN EdScan(e) = {"found", "entropy"}
             /\ DOMAIN [entropy |-> e] = {"entropy"}
  BY DEF Pubkey, EdScan
<1>3. \A e, salt : DOMAIN Addr(e, salt) = {"pk", "salt"}
  BY DEF Addr
<1>4. DOMAIN Empty = {"found"} /\ \A n : DOMAIN [att |-> n] = {"att"}
  BY DEF Empty
<1>5. ASSUME NEW e PROVE "wrong" \notin DOMAIN Scan(e)
  <2>1. \/ Scan(e) = Empty
        \/ \E s : Scan(e) = [found |-> TRUE, entropy |-> e, salt |-> s]
    BY DEF Scan
  <2>2. \A s : DOMAIN [found |-> TRUE, entropy |-> e, salt |-> s] = {"found", "entropy", "salt"}
    OBVIOUS
  <2> QED BY <1>4, <2>1, <2>2
<1> QED BY <1>1, <1>2, <1>3, <1>4, <1>5

\* A fault of a kind that the scheme's stages see, in the answer for a seed.
LEMMA SeenSpec ==
    ASSUME NEW kind, NEW e \in Seeds, Faulty(kind, e),
           \/ args.scheme = "f1" /\ ~F1Unseen([kind |-> kind, entropy |-> e])
           \/ args.scheme # "f1" /\ kind \in {"reference", "fast", "matcher", "search"}
    PROVE  Seen # {}
<1> DEFINE fault == [kind |-> kind, entropy |-> e]
<1>1. fault \in args.faults /\ fault.kind = kind /\ fault.entropy = e
  BY DEF Faulty
<1>2. fault \in Seen
  BY <1>1 DEF Seen, EdUnseen
<1> QED BY <1>2

\* The sampler: it agrees if and only if no answer is wrong.
LEMMA SamplerStage ==
    ASSUME args \in TestArgs
    PROVE  /\ SamplerAgrees => Without({"sampler"})
           /\ ~SamplerAgrees /\ args.scheme = "f1" => Seen # {}
<1>1. \A e \in Seeds : SampleFg(e) \in Fg
  BY SubsetSpec, AttemptsType
<1>2. \A e \in Seeds : DbgSampleFg(e) = SampleFg(e) <=> ~Faulty("sampler", e)
  BY <1>1, RightAnswers, AnswerSpec DEF DbgSampleFg
<1>3. ASSUME ~SamplerAgrees, args.scheme = "f1" PROVE Seen # {}
  <2>1. PICK e \in Seeds : Faulty("sampler", e)
    BY <1>2, <1>3 DEF SamplerAgrees
  <2> QED BY <1>3, <2>1, SeenSpec DEF F1Unseen
<1> QED BY <1>2, <1>3 DEF SamplerAgrees, Without

\* The public keys: which items have one, and which.
LEMMA PubkeyStage ==
    ASSUME args \in TestArgs
    PROVE  /\ PubkeyAgrees => PubkeyRight /\ Without({"invertible"})
           /\ ~PubkeyAgrees /\ args.scheme = "f1" => Seen # {}
<1>1. \A e : Answer("pubkey", e, Pubkey(e)) = Pubkey(e) <=> ~Faulty("pubkey", e)
  BY RightAnswers, AnswerSpec
<1>2. \A e : /\ DbgPubkey(e).ok <=> (HasPubkey(e) # Faulty("invertible", e))
             /\ DbgPubkey(e).key = Answer("pubkey", e, Pubkey(e))
  BY DEF DbgPubkey
<1>3. \A e : HasPubkey(e) \in BOOLEAN /\ Faulty("invertible", e) \in BOOLEAN
  BY DEF HasPubkey, Faulty
<1>4. ASSUME PubkeyAgrees, NEW e \in Seeds
      PROVE  ~Faulty("invertible", e) /\ (HasPubkey(e) => ~Faulty("pubkey", e))
  <2>1. IF DbgPubkey(e).ok THEN HasPubkey(e) /\ DbgPubkey(e).key = Pubkey(e) ELSE ~HasPubkey(e)
    BY <1>4 DEF PubkeyAgrees
  <2> QED BY <1>1, <1>2, <1>3, <2>1
<1>5. ASSUME ~PubkeyAgrees, args.scheme = "f1" PROVE Seen # {}
  <2>1. PICK e \in Seeds : ~ IF DbgPubkey(e).ok
                             THEN HasPubkey(e) /\ DbgPubkey(e).key = Pubkey(e)
                             ELSE ~HasPubkey(e)
    BY <1>5 DEF PubkeyAgrees
  <2>2. CASE Faulty("invertible", e)
    BY <1>5, <2>2, SeenSpec DEF F1Unseen
  <2>3. CASE ~Faulty("invertible", e)
    <3>1. HasPubkey(e) /\ Faulty("pubkey", e)
      BY <1>1, <1>2, <1>3, <2>1, <2>3
    <3> QED BY <1>5, <3>1, SeenSpec DEF F1Unseen
  <2> QED BY <2>2, <2>3
<1> QED BY <1>4, <1>5 DEF PubkeyRight, Without

\* The addresses of the items that the device does not call singular.
LEMMA AddrStage ==
    ASSUME args \in TestArgs
    PROVE  /\ AddrAgrees => AddrRight
           /\ ~AddrAgrees /\ args.scheme = "f1" => Seen # {}
<1>1. \A e, salt : Answer("addr", e, Addr(e, salt)) = Addr(e, salt) <=> ~Faulty("addr", e)
  BY RightAnswers, AnswerSpec
<1>2. \A e, salt : /\ DbgAddr32(e, salt).ok <=> (HasPubkey(e) # Faulty("addrOk", e))
                   /\ DbgAddr32(e, salt).addr = Answer("addr", e, Addr(e, salt))
  BY DEF DbgAddr32
<1>3. \A e : HasPubkey(e) \in BOOLEAN /\ Faulty("addrOk", e) \in BOOLEAN
  BY DEF HasPubkey, Faulty
<1>4. ASSUME AddrAgrees, NEW e \in Seeds, HasPubkey(e), ~Faulty("addrOk", e)
      PROVE  ~Faulty("addr", e)
  <2>1. PICK salt \in TestSalts : TRUE
    BY DeviceChecksAssumption
  <2>2. DbgAddr32(e, salt).ok /\ HasPubkey(e) => DbgAddr32(e, salt).addr = Addr(e, salt)
    BY <1>4 DEF AddrAgrees
  <2> QED BY <1>1, <1>2, <1>3, <1>4, <2>2
<1>5. ASSUME ~AddrAgrees, args.scheme = "f1" PROVE Seen # {}
  <2>1. PICK salt \in TestSalts, e \in Seeds :
            ~(DbgAddr32(e, salt).ok /\ HasPubkey(e) => DbgAddr32(e, salt).addr = Addr(e, salt))
    BY <1>5 DEF AddrAgrees
  <2>2. HasPubkey(e) /\ ~Faulty("addrOk", e) /\ Faulty("addr", e)
    BY <1>1, <1>2, <1>3, <2>1
  <2> QED BY <1>5, <2>2, SeenSpec DEF F1Unseen
<1> QED BY <1>4, <1>5 DEF AddrRight

\* The stages of the matcher, and those of ed25519.
LEMMA PlainStages ==
    ASSUME args \in TestArgs
    PROVE  /\ MatcherAgrees <=> Without({"matcher"})
           /\ EdPubkeyAgrees(FALSE) <=> Without({"reference"})
           /\ EdPubkeyAgrees(TRUE) <=> Without({"fast"})
           /\ EdSearchAgrees <=> Without({"search"})
           /\ ~MatcherAgrees => Seen # {}
           /\ args.scheme # "f1" /\ ~(EdPubkeyAgrees(FALSE) /\ EdPubkeyAgrees(TRUE)
                                         /\ EdSearchAgrees) => Seen # {}
<1>1. \A kind, e : Answer(kind, e, [entropy |-> e]) = [entropy |-> e] <=> ~Faulty(kind, e)
  BY RightAnswers, AnswerSpec
<1>2. \A e : Answer("search", e, EdScan(e)) = EdScan(e) <=> ~Faulty("search", e)
  BY RightAnswers, AnswerSpec
<1>3. /\ MatcherAgrees <=> Without({"matcher"})
      /\ EdPubkeyAgrees(FALSE) <=> Without({"reference"})
      /\ EdPubkeyAgrees(TRUE) <=> Without({"fast"})
      /\ EdSearchAgrees <=> Without({"search"})
  BY <1>1, <1>2 DEF MatcherAgrees, DbgMatch, EdPubkeyAgrees, EdDbgPubkey, EdSearchAgrees, Without
<1>4. ASSUME ~MatcherAgrees PROVE Seen # {}
  <2>1. PICK e \in Seeds : Faulty("matcher", e)
    BY <1>3, <1>4 DEF Without
  <2> QED BY <2>1, SeenSpec DEF F1Unseen
<1>5. ASSUME args.scheme # "f1", NEW kind \in {"reference", "fast", "search"}, ~Without({kind})
      PROVE  Seen # {}
  <2>1. PICK e \in Seeds : Faulty(kind, e)
    BY <1>5 DEF Without
  <2> QED BY <1>5, <2>1, SeenSpec
<1> QED BY <1>3, <1>4, <1>5

\* The search: the two lists of hits are the same if and only if no answer is
\* wrong, whichever items it has hits for.
LEMMA SearchStage ==
    ASSUME args \in TestArgs, input = args.seeds, DOMAIN out = DOMAIN input,
           \A i \in DOMAIN input : out[i] = Scan(input[i])
    PROVE  /\ SearchAgrees => Without({"search"})
           /\ ~SearchAgrees /\ args.scheme = "f1" => Seen # {}
<1> DEFINE A == {Answer("search", e, Scan(e)) : e \in Seeds}
<1>1. \A e : Answer("search", e, Scan(e)) = IF Faulty("search", e) THEN [wrong |-> Scan(e)]
                                                                 ELSE Scan(e)
  BY DEF Answer
<1>2. ToSet(input) = Seeds /\ ToSet(out) = {Scan(e) : e \in Seeds}
  BY DEF ToSet, Seeds
<1>3. SearchAgrees <=> A \ {Empty} = {Scan(e) : e \in Seeds} \ {Empty}
  BY <1>2 DEF SearchAgrees
<1>4. ASSUME SearchAgrees, NEW e \in Seeds, Faulty("search", e) PROVE FALSE
  <2>1. [wrong |-> Scan(e)] \in A
    BY <1>1, <1>4
  <2>2. "wrong" \in DOMAIN [wrong |-> Scan(e)]
    OBVIOUS
  <2>3. [wrong |-> Scan(e)] # Empty /\ \A f : [wrong |-> Scan(e)] # Scan(f)
    BY <2>2, RightAnswers
  <2> QED BY <1>3, <1>4, <2>1, <2>3
<1>5. ASSUME ~SearchAgrees, args.scheme = "f1" PROVE Seen # {}
  <2>1. PICK e \in Seeds : Faulty("search", e)
    <3> SUFFICES ASSUME \A e \in Seeds : ~Faulty("search", e) PROVE FALSE
      OBVIOUS
    <3>1. A = {Scan(e) : e \in Seeds}
      BY <1>1
    <3> QED BY <1>3, <1>5, <3>1
  <2> QED BY <1>5, <2>1, SeenSpec DEF F1Unseen
<1> QED BY <1>4, <1>5 DEF Without

\* The retry loop: the items on which it is wrong disagree, and those that disagree
\* are in doubt, so that no fewer of them disagree than are wrong, and no more
\* than are in doubt.
LEMMA RetryStage ==
    ASSUME args \in TestArgs, input = Subset, DOMAIN out = DOMAIN input,
           \A i \in DOMAIN input : out[i] = [att |-> FirstVisibleAccept(input[i], MaxAttempts)]
    PROVE  /\ ~RetryAgrees => ~Tolerated(Cardinality(RetryDoubts), Len(Subset))
           /\ RetryAgrees => RetryTolerated
<1> DEFINE bad == {i \in DOMAIN input : DbgAccept(input[i]) # out[i]}
<1>1. /\ Subset \in Seq(Entropies) /\ \A i \in DOMAIN Subset : Subset[i] \in Entropies
  BY SubsetSpec
<1>2. ASSUME NEW i \in bad PROVE i \in RetryDoubts
  <2> SUFFICES ASSUME i \notin RetryDoubts PROVE FALSE
    OBVIOUS
  <2>1. i \in DOMAIN Subset /\ Subset[i] \in Entropies
    BY <1>1, <1>2
  <2>2. /\ ~Faulty("retry", Subset[i])
        /\ \A fg \in ToSet(Attempts[Subset[i]]) : ~fg.borderline
    BY <2>1 DEF RetryDoubts
  <2>3. DevAccept(Subset[i]) = FirstVisibleAccept(Subset[i], MaxAttempts)
    BY <2>1, <2>2, RetrySpec
  <2>4. DbgAccept(Subset[i]) = [att |-> DevAccept(Subset[i])]
    BY <2>2 DEF DbgAccept, Answer
  <2> QED BY <1>2, <2>3, <2>4
<1>3. RetryDoubts \subseteq 1 .. Len(Subset) /\ Len(Subset) \in Nat
  BY <1>1 DEF RetryDoubts
<1>4. IsFiniteSet(1 .. Len(Subset))
  BY <1>3, FS_Interval
<1>5. IsFiniteSet(RetryDoubts) /\ bad \in SUBSET RetryDoubts
  BY <1>2, <1>3, <1>4, FS_Subset
<1>6. Cardinality(bad) <= Cardinality(RetryDoubts) /\ IsFiniteSet(bad)
  BY <1>5, FS_Subset
<1>7. Cardinality(bad) \in Nat /\ Cardinality(RetryDoubts) \in Nat
  BY <1>5, <1>6, FS_CardinalityType
<1>8. RetryAgrees <=> Tolerated(Cardinality(bad), Len(Subset))
  BY DEF RetryAgrees
<1>10. ASSUME NEW i \in RetryFaults PROVE i \in bad
  <2>1. i \in DOMAIN input /\ Faulty("retry", input[i])
    BY <1>10 DEF RetryFaults
  <2>2. DbgAccept(input[i]) # [att |-> DevAccept(input[i])]
    BY <2>1, AnswerSpec, RightAnswers DEF DbgAccept
  <2>3. DbgAccept(input[i]) = [wrong |-> [att |-> DevAccept(input[i])]]
    BY <2>1 DEF DbgAccept, Answer
  <2>4. "wrong" \in DOMAIN DbgAccept(input[i]) /\ "wrong" \notin DOMAIN out[i]
    BY <2>1, <2>3, RightAnswers
  <2> QED BY <2>1, <2>4
<1> HIDE DEF bad
<1>11. Cardinality(RetryFaults) <= Cardinality(bad) /\ Cardinality(RetryFaults) \in Nat
  BY <1>6, <1>10, FS_Subset, FS_CardinalityType
<1>9. ASSUME NEW m \in Nat, NEW d \in Nat, m <= d, NEW k \in Nat, Tolerated(d, k)
      PROVE  Tolerated(m, k)
  <2>1. SlackShare \in Nat /\ SlackFloor \in Nat
    BY DeviceChecksAssumption
  <2>2. m * SlackShare <= d * SlackShare
    BY <1>9, <2>1, ProductMono
  <2>3. m * SlackShare \in Nat /\ d * SlackShare \in Nat
    BY <2>1
  <2> QED BY <1>9, <2>1, <2>2, <2>3 DEF Tolerated
<1> QED BY <1>3, <1>6, <1>7, <1>8, <1>9, <1>11 DEF RetryTolerated

-----------------------------------------------------------------------------
(***************************************************************************)
(* DeviceChecks: the steps keep the invariant                              *)
(***************************************************************************)

\* The items and their number of threads, whatever the command.
LEMMA ItemsType ==
    ASSUME PathInv, ItemsInv
    PROVE  args.threads \in Nat \ {0} /\ \E S : input \in Seq(S)
<1>1. args \in VerifyArgs \/ args \in TestArgs
  BY DEF PathInv
<1> QED BY <1>1, ArgsType DEF ItemsInv

\* The invariant holds where verify_hits and gpu-selftest begin.
LEMMA InitInv == Init => IInv
<1> SUFFICES ASSUME Init PROVE IInv
  OBVIOUS
<1>1. pos = Starts(input) /\ out = [i \in DOMAIN input |-> Empty]
  BY DEF Init
<1>2. \/ args \in VerifyArgs /\ stage = "verify" /\ input = args.hits
      \/ /\ args \in TestArgs /\ input = <<>>
         /\ stage = IF args.scheme = "f1" THEN "sampler" ELSE "edReference"
  BY DEF Init, VerifyArgs, TestArgs
<1>3. PathInv
  BY <1>2, ArgsType DEF PathInv, F1Stages, EdStages
<1>4. ItemsInv
  <2>1. <<>> \in Seq(Entropies)
    OBVIOUS
  <2> QED BY <1>2, <2>1, ArgsType DEF ItemsInv
<1>5. PICK S : input \in Seq(S)
  BY <1>3, <1>4, ItemsType
<1>6. args.threads \in Nat \ {0}
  BY <1>3, <1>4, ItemsType
<1>7. /\ Starts(input) \in Seq(Nat)
      /\ \A c \in DOMAIN Starts(input) :
            /\ Starts(input)[c] = FirstOf(c, Len(input))
            /\ FirstOf(c, Len(input)) \in 1 .. Len(input)
            /\ LastOf(c, Len(input)) \in FirstOf(c, Len(input)) .. Len(input)
  BY <1>5, <1>6, StartsSpec
<1>8. Len(input) \in Nat /\ DOMAIN input = 1 .. Len(input)
  BY <1>5
<1>9. ChunksInv
  <2>1. ASSUME NEW c \in DOMAIN pos
        PROVE  pos[c] \in FirstOf(c, Len(input)) .. LastOf(c, Len(input)) + 1
    BY <1>1, <1>7, <1>8, <2>1
  <2> QED BY <1>1, <1>7, <2>1 DEF ChunksInv
<1>10. ResultsInv
  <2>1. ASSUME NEW c \in DOMAIN pos, NEW i \in DOMAIN input,
               FirstOf(c, Len(input)) <= i, i < pos[c]
        PROVE  FALSE
    <3>1. pos[c] = FirstOf(c, Len(input)) /\ FirstOf(c, Len(input)) \in Int /\ i \in Int
      BY <1>1, <1>7, <1>8
    <3> QED BY <2>1, <3>1
  <2>2. stage # "verified" /\ DOMAIN out = DOMAIN input
    BY <1>1, <1>2
  <2> QED BY <2>1, <2>2 DEF ResultsInv
<1>11. PassedInv /\ SelfTestVerdict
  <2>1. stage \in {"verify", "sampler", "edReference"}
    BY <1>2
  <2> QED BY <2>1 DEF PassedInv, SelfTestVerdict
<1> QED BY <1>3, <1>4, <1>9, <1>10, <1>11 DEF IInv

\* A new stage of the self-test.
LEMMA EnterStage ==
    ASSUME IInv, args \in TestArgs, NEW next, NEW items \in Seq(Entropies), Enter(next, items),
           \/ args.scheme = "f1" /\ next \in F1Stages
           \/ args.scheme = "ed25519" /\ next \in EdStages
           \/ next = "pass",
           next = "retry" => items = Subset,
           next = "search" => items = args.seeds
    PROVE  /\ PathInv' /\ ItemsInv' /\ ChunksInv' /\ ResultsInv'
           /\ args' = args /\ stage' = next
<1>1. args.threads \in Nat \ {0} /\ args \notin VerifyArgs
  BY ArgsType
<1>2. /\ stage' = next /\ input' = items /\ args' = args
      /\ ChunksInv' /\ DOMAIN out' = DOMAIN input'
      /\ \A c \in DOMAIN pos' : pos'[c] = FirstOf(c, Len(items))
  BY <1>1, EnterSpec
<1>3. next \notin {"verify", "verified"}
  BY DEF F1Stages, EdStages
<1>4. /\ \A c : FirstOf(c, Len(input))' = FirstOf(c, Len(items))
      /\ Subset' = Subset
  BY <1>2, ArgsFrame DEF FirstOf, ChunkLen
<1>5. PathInv'
  BY <1>2, <1>3 DEF PathInv, Ended, TestArgs
<1>6. ItemsInv'
  BY <1>1, <1>2, <1>3, <1>4 DEF ItemsInv, VerifyArgs, TestArgs
<1>7. ResultsInv'
  <2>1. ASSUME NEW c \in DOMAIN pos', NEW i \in DOMAIN items,
               FirstOf(c, Len(items)) <= i, i < pos'[c]
        PROVE  FALSE
    <3>1. pos'[c] = FirstOf(c, Len(items)) /\ i \in Int /\ pos'[c] \in Nat
      BY <1>2 DEF ChunksInv
    <3> QED BY <2>1, <3>1
  <2> QED BY <1>2, <1>3, <1>4, <2>1 DEF ResultsInv
<1> QED BY <1>2, <1>5, <1>6, <1>7

\* The end of a self-test that does not pass.
LEMMA LeaveStage ==
    ASSUME IInv, args \in TestArgs, NEW next \in {"fail", "error"}, Leave(next)
    PROVE  /\ PathInv' /\ ItemsInv' /\ ChunksInv' /\ ResultsInv' /\ PassedInv'
           /\ args' = args /\ stage' = next
<1>1. stage' = next /\ args' = args /\ input' = input /\ pos' = pos /\ out' = out
  BY DEF Leave
<1>2. /\ \A c : /\ FirstOf(c, Len(input))' = FirstOf(c, Len(input))
                /\ LastOf(c, Len(input))' = LastOf(c, Len(input))
      /\ Starts(input)' = Starts(input)
  BY <1>1, ArgsFrame DEF FirstOf, LastOf, ChunkLen, Starts
<1>3. PathInv'
  BY <1>1 DEF PathInv, Ended, TestArgs
<1>4. ItemsInv'
  BY <1>1 DEF IInv, ItemsInv, VerifyArgs, TestArgs
<1>5. ChunksInv'
  BY <1>1, <1>2 DEF IInv, ChunksInv
<1>6. ResultsInv'
  BY <1>1 DEF IInv, ResultsInv, Shared
<1>7. PassedInv'
  BY <1>1 DEF PassedInv
<1> QED BY <1>1, <1>3, <1>4, <1>5, <1>6, <1>7

\* A stage whose verdict is a fault seen, or too many doubts.
LEMMA FailStage ==
    ASSUME IInv, args \in TestArgs, Leave("fail"),
           \/ Seen # {}
           \/ args.scheme = "f1" /\ ~Tolerated(Cardinality(RetryDoubts), Len(Subset))
    PROVE  IInv'
<1>1. /\ PathInv' /\ ItemsInv' /\ ChunksInv' /\ ResultsInv' /\ PassedInv'
      /\ args' = args /\ stage' = "fail"
  BY LeaveStage
<1>2. Seen' = Seen /\ RetryDoubts' = RetryDoubts /\ Subset' = Subset
  BY <1>1, ArgsFrame
<1>3. SelfTestVerdict'
  BY <1>1, <1>2 DEF SelfTestVerdict, Tolerated
<1> QED BY <1>1, <1>3 DEF IInv

\* What the stages of f1 have shown leaves no fault that they can see.
LEMMA F1PassSees ==
    ASSUME args \in TestArgs, args.scheme = "f1", PubkeyRight, AddrRight,
           Without({"sampler"}), Without({"invertible"}), Without({"matcher"}),
           Without({"search"})
    PROVE  Seen = {}
<1> SUFFICES ASSUME NEW fault \in Seen PROVE FALSE
  OBVIOUS
<1> DEFINE k == fault.kind
           e == fault.entropy
<1>1. fault \in args.faults /\ e \in Seeds /\ ~F1Unseen(fault)
  BY DEF Seen
<1>2. k \in Kinds /\ fault = [kind |-> k, entropy |-> e]
  BY <1>1, ArgsType
<1>3. Faulty(k, e)
  BY <1>1, <1>2 DEF Faulty
<1>4. k \notin {"sampler", "invertible", "matcher", "search"}
  BY <1>1, <1>3 DEF Without
<1>5. k \notin {"addrOk", "retry", "reference", "fast"}
  BY <1>1 DEF F1Unseen
<1>6. k \in {"pubkey", "addr"}
  BY <1>2, <1>4, <1>5 DEF Kinds
<1>7. HasPubkey(e) /\ (k = "addr" => ~Faulty("addrOk", e))
  BY <1>1, <1>6 DEF F1Unseen
<1> QED BY <1>1, <1>3, <1>6, <1>7 DEF PubkeyRight, AddrRight

\* And so for ed25519.
LEMMA EdPassSees ==
    ASSUME args \in TestArgs, args.scheme = "ed25519",
           Without({"reference"}), Without({"fast"}), Without({"matcher"}), Without({"search"})
    PROVE  Seen = {}
<1> SUFFICES ASSUME NEW fault \in Seen PROVE FALSE
  OBVIOUS
<1> DEFINE k == fault.kind
           e == fault.entropy
<1>1. fault \in args.faults /\ e \in Seeds /\ k \in {"reference", "fast", "matcher", "search"}
  BY DEF Seen, EdUnseen
<1>2. fault = [kind |-> k, entropy |-> e]
  BY <1>1, ArgsType
<1> QED BY <1>1, <1>2 DEF Faulty, Without

\* A stage of the self-test of f1 has its scheme, and a call made for it.
LEMMA StageArgs ==
    ASSUME PathInv
    PROVE  /\ stage \in F1Stages => args \in TestArgs /\ args.scheme = "f1"
           /\ stage \in EdStages => args \in TestArgs /\ args.scheme = "ed25519"
           /\ stage \in {"verify", "verified"} => args \in VerifyArgs
  BY DEF PathInv, F1Stages, EdStages, Ended

\* The self-test of f1, one stage at a time.
LEMMA SelfTestStep ==
    ASSUME IInv, SelfTest
    PROVE  IInv'
<1>1. PathInv /\ ItemsInv /\ ChunksInv /\ ResultsInv /\ PassedInv
  BY DEF IInv
<1>2. stage \in F1Stages /\ AllDone
  BY DEF SelfTest, Compare, F1Stages
<1>3. /\ args \in TestArgs /\ args.scheme = "f1" /\ args.threads \in Nat \ {0}
      /\ input \in Seq(Entropies)
  BY <1>1, <1>2, StageArgs, ArgsType DEF ItemsInv
<1>4. <<>> \in Seq(Entropies) /\ Subset \in Seq(Entropies) /\ args.seeds \in Seq(Entropies)
  BY <1>3, SubsetSpec, ArgsType
<1>5. ASSUME stage \in Shared, NEW i \in DOMAIN input PROVE out[i] = ResultOf(input[i])
  BY <1>1, <1>2, <1>3, <1>5, AllDoneSpec
<1>6. args' = args =>
        /\ Seen' = Seen
        /\ RetryTolerated' <=> RetryTolerated
        /\ \A kinds : Without(kinds)' <=> Without(kinds)
        /\ PubkeyRight' <=> PubkeyRight
        /\ AddrRight' <=> AddrRight
  BY ArgsFrame
<1>7. CASE Compare("sampler", SamplerAgrees, "pubkey", <<>>)
  <2>1. CASE SamplerAgrees
    <3>1. Enter("pubkey", <<>>)
      BY <1>7, <2>1 DEF Compare
    <3>2. PathInv' /\ ItemsInv' /\ ChunksInv' /\ ResultsInv' /\ args' = args /\ stage' = "pubkey"
      BY <1>3, <1>4, <3>1, EnterStage DEF F1Stages
    <3>3. PassedInv' /\ SelfTestVerdict'
      BY <1>3, <1>6, <2>1, <3>2, SamplerStage DEF PassedInv, SelfTestVerdict
    <3> QED BY <3>2, <3>3 DEF IInv
  <2>2. CASE ~SamplerAgrees
    BY <1>3, <1>7, <2>2, SamplerStage, FailStage DEF Compare
  <2> QED BY <2>1, <2>2
<1>8. CASE Compare("pubkey", PubkeyAgrees, "addr", <<>>)
  <2>1. CASE PubkeyAgrees
    <3>1. Enter("addr", <<>>) /\ stage = "pubkey"
      BY <1>8, <2>1 DEF Compare
    <3>2. PathInv' /\ ItemsInv' /\ ChunksInv' /\ ResultsInv' /\ args' = args /\ stage' = "addr"
      BY <1>3, <1>4, <3>1, EnterStage DEF F1Stages
    <3>3. Without({"sampler"}) /\ PubkeyRight /\ Without({"invertible"})
      BY <1>1, <1>3, <2>1, <3>1, PubkeyStage DEF PassedInv
    <3>4. PassedInv' /\ SelfTestVerdict'
      BY <1>6, <3>2, <3>3 DEF PassedInv, SelfTestVerdict
    <3> QED BY <3>2, <3>4 DEF IInv
  <2>2. CASE ~PubkeyAgrees
    BY <1>3, <1>8, <2>2, PubkeyStage, FailStage DEF Compare
  <2> QED BY <2>1, <2>2
<1>9. CASE Compare("addr", AddrAgrees, "retry", Subset)
  <2>1. CASE AddrAgrees
    <3>1. Enter("retry", Subset) /\ stage = "addr"
      BY <1>9, <2>1 DEF Compare
    <3>2. PathInv' /\ ItemsInv' /\ ChunksInv' /\ ResultsInv' /\ args' = args /\ stage' = "retry"
      BY <1>3, <1>4, <3>1, EnterStage DEF F1Stages
    <3>3. Without({"sampler"}) /\ PubkeyRight /\ Without({"invertible"}) /\ AddrRight
      BY <1>1, <1>3, <2>1, <3>1, AddrStage DEF PassedInv
    <3>4. PassedInv' /\ SelfTestVerdict'
      BY <1>6, <3>2, <3>3 DEF PassedInv, SelfTestVerdict
    <3> QED BY <3>2, <3>4 DEF IInv
  <2>2. CASE ~AddrAgrees
    BY <1>3, <1>9, <2>2, AddrStage, FailStage DEF Compare
  <2> QED BY <2>1, <2>2
<1>10. CASE Compare("retry", RetryAgrees, "matcher", <<>>)
  <2>3. stage = "retry" /\ input = Subset /\ DOMAIN out = DOMAIN input
    BY <1>1, <1>10 DEF Compare, ItemsInv, ResultsInv
  <2>4. \A i \in DOMAIN input : out[i] = [att |-> FirstVisibleAccept(input[i], MaxAttempts)]
    BY <1>5, <2>3 DEF Shared, ResultOf
  <2>1. CASE RetryAgrees
    <3>1. Enter("matcher", <<>>) /\ stage = "retry"
      BY <1>10, <2>1 DEF Compare
    <3>2. PathInv' /\ ItemsInv' /\ ChunksInv' /\ ResultsInv' /\ args' = args /\ stage' = "matcher"
      BY <1>3, <1>4, <3>1, EnterStage DEF F1Stages
    <3>3. Without({"sampler"}) /\ PubkeyRight /\ Without({"invertible"}) /\ AddrRight
      BY <1>1, <3>1 DEF PassedInv
    <3>4. RetryTolerated
      BY <1>3, <2>1, <2>3, <2>4, RetryStage
    <3>5. PassedInv' /\ SelfTestVerdict'
      BY <1>6, <3>2, <3>3, <3>4 DEF PassedInv, SelfTestVerdict
    <3> QED BY <3>2, <3>5 DEF IInv
  <2>2. CASE ~RetryAgrees
    <3>1. Leave("fail")
      BY <1>10, <2>2 DEF Compare
    <3>2. ~Tolerated(Cardinality(RetryDoubts), Len(Subset))
      BY <1>3, <2>2, <2>3, <2>4, RetryStage
    <3> QED BY <1>3, <3>1, <3>2, FailStage
  <2> QED BY <2>1, <2>2
<1>11. CASE Compare("matcher", MatcherAgrees, "search", args.seeds)
  <2>1. CASE MatcherAgrees
    <3>1. Enter("search", args.seeds) /\ stage = "matcher"
      BY <1>11, <2>1 DEF Compare
    <3>2. PathInv' /\ ItemsInv' /\ ChunksInv' /\ ResultsInv' /\ args' = args /\ stage' = "search"
      BY <1>3, <1>4, <3>1, EnterStage DEF F1Stages
    <3>3. /\ Without({"sampler"}) /\ PubkeyRight /\ Without({"invertible"}) /\ AddrRight
          /\ Without({"matcher"}) /\ RetryTolerated
      BY <1>1, <1>3, <2>1, <3>1, PlainStages DEF PassedInv
    <3>4. PassedInv' /\ SelfTestVerdict'
      BY <1>6, <3>2, <3>3 DEF PassedInv, SelfTestVerdict
    <3> QED BY <3>2, <3>4 DEF IInv
  <2>2. CASE ~MatcherAgrees
    BY <1>3, <1>11, <2>2, PlainStages, FailStage DEF Compare
  <2> QED BY <2>1, <2>2
<1>12. CASE Compare("search", SearchAgrees, "pass", <<>>)
  <2>1. stage = "search"
    BY <1>12 DEF Compare
  <2>2. input = args.seeds /\ DOMAIN out = DOMAIN input
    BY <1>1, <2>1 DEF ItemsInv, ResultsInv
  <2>3. \A i \in DOMAIN input : out[i] = Scan(input[i])
    BY <1>5, <2>1 DEF Shared, ResultOf
  <2>4. CASE SearchAgrees
    <3>1. Enter("pass", <<>>)
      BY <1>12, <2>4 DEF Compare
    <3>2. PathInv' /\ ItemsInv' /\ ChunksInv' /\ ResultsInv' /\ args' = args /\ stage' = "pass"
      BY <1>3, <1>4, <3>1, EnterStage
    <3>3. /\ Without({"sampler"}) /\ PubkeyRight /\ Without({"invertible"}) /\ AddrRight
          /\ Without({"matcher"}) /\ Without({"search"}) /\ RetryTolerated
      BY <1>1, <1>3, <2>1, <2>2, <2>3, <2>4, SearchStage DEF PassedInv
    <3>4. Seen = {}
      BY <1>3, <3>3, F1PassSees
    <3>5. PassedInv' /\ SelfTestVerdict'
      BY <1>6, <3>2, <3>3, <3>4 DEF PassedInv, SelfTestVerdict, RetryTolerated
    <3> QED BY <3>2, <3>5 DEF IInv
  <2>5. CASE ~SearchAgrees
    BY <1>3, <1>12, <2>2, <2>3, <2>5, SearchStage, FailStage DEF Compare
  <2> QED BY <2>4, <2>5
<1> QED BY <1>7, <1>8, <1>9, <1>10, <1>11, <1>12 DEF SelfTest

\* The self-test of ed25519.
LEMMA EdSelfTestStep ==
    ASSUME IInv, EdSelfTest
    PROVE  IInv'
<1>1. PathInv /\ ItemsInv /\ ChunksInv /\ ResultsInv /\ PassedInv
  BY DEF IInv
<1>2. stage \in EdStages
  BY DEF EdSelfTest, Compare, EdStages
<1>3. args \in TestArgs /\ args.scheme = "ed25519" /\ <<>> \in Seq(Entropies)
  BY <1>1, <1>2, StageArgs
<1>4. args' = args => Seen' = Seen /\ \A kinds : Without(kinds)' <=> Without(kinds)
  BY ArgsFrame
<1>5. CASE Compare("edReference", EdPubkeyAgrees(FALSE), "edSearchPath", <<>>)
  <2>1. CASE EdPubkeyAgrees(FALSE)
    <3>1. Enter("edSearchPath", <<>>)
      BY <1>5, <2>1 DEF Compare
    <3>2. /\ PathInv' /\ ItemsInv' /\ ChunksInv' /\ ResultsInv'
          /\ args' = args /\ stage' = "edSearchPath"
      BY <1>3, <3>1, EnterStage DEF EdStages
    <3>3. PassedInv' /\ SelfTestVerdict'
      BY <1>3, <1>4, <2>1, <3>2, PlainStages DEF PassedInv, SelfTestVerdict
    <3> QED BY <3>2, <3>3 DEF IInv
  <2>2. CASE ~EdPubkeyAgrees(FALSE)
    BY <1>3, <1>5, <2>2, PlainStages, FailStage DEF Compare
  <2> QED BY <2>1, <2>2
<1>6. CASE Compare("edSearchPath", EdPubkeyAgrees(TRUE), "edMatcher", <<>>)
  <2>1. CASE EdPubkeyAgrees(TRUE)
    <3>1. Enter("edMatcher", <<>>) /\ stage = "edSearchPath"
      BY <1>6, <2>1 DEF Compare
    <3>2. /\ PathInv' /\ ItemsInv' /\ ChunksInv' /\ ResultsInv'
          /\ args' = args /\ stage' = "edMatcher"
      BY <1>3, <3>1, EnterStage DEF EdStages
    <3>3. Without({"reference"}) /\ Without({"fast"})
      BY <1>1, <1>3, <2>1, <3>1, PlainStages DEF PassedInv
    <3>4. PassedInv' /\ SelfTestVerdict'
      BY <1>4, <3>2, <3>3 DEF PassedInv, SelfTestVerdict
    <3> QED BY <3>2, <3>4 DEF IInv
  <2>2. CASE ~EdPubkeyAgrees(TRUE)
    BY <1>3, <1>6, <2>2, PlainStages, FailStage DEF Compare
  <2> QED BY <2>1, <2>2
<1>7. CASE Compare("edMatcher", MatcherAgrees, "edSearch", <<>>)
  <2>1. CASE MatcherAgrees
    <3>1. Enter("edSearch", <<>>) /\ stage = "edMatcher"
      BY <1>7, <2>1 DEF Compare
    <3>2. /\ PathInv' /\ ItemsInv' /\ ChunksInv' /\ ResultsInv'
          /\ args' = args /\ stage' = "edSearch"
      BY <1>3, <3>1, EnterStage DEF EdStages
    <3>3. Without({"reference"}) /\ Without({"fast"}) /\ Without({"matcher"})
      BY <1>1, <1>3, <2>1, <3>1, PlainStages DEF PassedInv
    <3>4. PassedInv' /\ SelfTestVerdict'
      BY <1>4, <3>2, <3>3 DEF PassedInv, SelfTestVerdict
    <3> QED BY <3>2, <3>4 DEF IInv
  <2>2. CASE ~MatcherAgrees
    BY <1>3, <1>7, <2>2, PlainStages, FailStage DEF Compare
  <2> QED BY <2>1, <2>2
<1>8. CASE Compare("edSearch", EdSearchAgrees, "pass", <<>>)
  <2>1. CASE EdSearchAgrees
    <3>1. Enter("pass", <<>>) /\ stage = "edSearch"
      BY <1>8, <2>1 DEF Compare
    <3>2. PathInv' /\ ItemsInv' /\ ChunksInv' /\ ResultsInv' /\ args' = args /\ stage' = "pass"
      BY <1>3, <3>1, EnterStage
    <3>3. /\ Without({"reference"}) /\ Without({"fast"}) /\ Without({"matcher"})
          /\ Without({"search"})
      BY <1>1, <1>3, <2>1, <3>1, PlainStages DEF PassedInv
    <3>4. Seen = {}
      BY <1>3, <3>3, EdPassSees
    <3>5. PassedInv' /\ SelfTestVerdict'
      BY <1>3, <1>4, <3>2, <3>4 DEF PassedInv, SelfTestVerdict
    <3> QED BY <3>2, <3>5 DEF IInv
  <2>2. CASE ~EdSearchAgrees
    BY <1>3, <1>8, <2>2, PlainStages, FailStage DEF Compare
  <2> QED BY <2>1, <2>2
<1> QED BY <1>5, <1>6, <1>7, <1>8 DEF EdSelfTest

\* verify_hits returns: the result of each raw hit is that of verify_one.
LEMMA VerifiedStep ==
    ASSUME IInv, Verified
    PROVE  IInv'
<1>1. PathInv /\ ItemsInv /\ ChunksInv /\ ResultsInv
  BY DEF IInv
<1>2. /\ stage = "verify" /\ AllDone
      /\ stage' = "verified" /\ args' = args /\ input' = input /\ pos' = pos /\ out' = out
  BY DEF Verified, Leave
<1>3. args \in VerifyArgs /\ args.threads \in Nat \ {0} /\ input \in Seq(RawHits)
  BY <1>1, <1>2, StageArgs, ArgsType DEF ItemsInv
<1>4. \A i \in DOMAIN input : out[i] = VerifyOne(input[i])
  <2> SUFFICES ASSUME NEW i \in DOMAIN input PROVE out[i] = VerifyOne(input[i])
    OBVIOUS
  <2>1. out[i] = ResultOf(input[i])
    BY <1>1, <1>2, <1>3, AllDoneSpec DEF Shared
  <2> QED BY <1>2, <2>1 DEF ResultOf
<1>5. /\ \A c : /\ FirstOf(c, Len(input))' = FirstOf(c, Len(input))
                /\ LastOf(c, Len(input))' = LastOf(c, Len(input))
      /\ Starts(input)' = Starts(input)
      /\ \A h : VerifyOne(h)' = VerifyOne(h)
  BY <1>2, ArgsFrame DEF FirstOf, LastOf, ChunkLen, Starts
<1>6. PathInv' /\ ItemsInv'
  BY <1>1, <1>2, <1>3 DEF PathInv, ItemsInv, VerifyArgs, TestArgs
<1>7. ChunksInv'
  BY <1>1, <1>2, <1>5 DEF ChunksInv
<1>8. ResultsInv'
  BY <1>1, <1>2, <1>4, <1>5 DEF ResultsInv, Shared
<1>9. PassedInv' /\ SelfTestVerdict'
  BY <1>2 DEF PassedInv, SelfTestVerdict
<1> QED BY <1>6, <1>7, <1>8, <1>9 DEF IInv

\* The work of a thread leaves the call and its stage as they are.
LEMMA WorkStep ==
    ASSUME IInv, NEW c \in DOMAIN pos, Work(c)
    PROVE  IInv'
<1>1. PathInv /\ ItemsInv /\ ChunksInv /\ ResultsInv /\ PassedInv
  BY DEF IInv
<1>2. stage \in Shared /\ stage' = stage /\ args' = args /\ input' = input
  BY DEF Work, Shared
<1>3. args.threads \in Nat \ {0} /\ \E S : input \in Seq(S)
  BY <1>1, ItemsType
<1>4. ChunksInv' /\ ResultsInv'
  BY <1>1, <1>3, WorkSpec
<1>5. /\ Subset' = Subset /\ \A kinds : Without(kinds)' <=> Without(kinds)
      /\ RetryTolerated' <=> RetryTolerated
      /\ PubkeyRight' <=> PubkeyRight
      /\ AddrRight' <=> AddrRight
  BY <1>2, ArgsFrame
<1>6. PathInv' /\ ItemsInv'
  BY <1>1, <1>2, <1>5 DEF PathInv, ItemsInv, VerifyArgs, TestArgs
<1>7. PassedInv'
  BY <1>1, <1>2, <1>5 DEF PassedInv
<1>8. SelfTestVerdict'
  BY <1>2 DEF SelfTestVerdict, Shared
<1> QED BY <1>4, <1>6, <1>7, <1>8 DEF IInv

\* An error of the device gives no verdict.
LEMMA CallFailsStep ==
    ASSUME IInv, CallFails
    PROVE  IInv'
<1>1. /\ Leave("error")
      /\ stage \notin {"verify", "verified", "pass", "fail", "error"}
  BY DEF CallFails
<1>2. args \in TestArgs
  BY <1>1 DEF IInv, PathInv
<1>3. /\ PathInv' /\ ItemsInv' /\ ChunksInv' /\ ResultsInv' /\ PassedInv' /\ stage' = "error"
  BY <1>1, <1>2, LeaveStage
<1>4. SelfTestVerdict'
  BY <1>3 DEF SelfTestVerdict
<1> QED BY <1>3, <1>4 DEF IInv

\* Nothing moves when a command has ended.
LEMMA IdleStep ==
    ASSUME IInv, UNCHANGED vars
    PROVE  IInv'
<1>1. stage' = stage /\ args' = args /\ input' = input /\ pos' = pos /\ out' = out
  BY DEF vars
<1>2. /\ \A c : /\ FirstOf(c, Len(input))' = FirstOf(c, Len(input))
                /\ LastOf(c, Len(input))' = LastOf(c, Len(input))
      /\ Starts(input)' = Starts(input)
      /\ \A h : VerifyOne(h)' = VerifyOne(h)
  BY <1>1, ArgsFrame DEF FirstOf, LastOf, ChunkLen, Starts
<1>3. /\ Subset' = Subset /\ \A kinds : Without(kinds)' <=> Without(kinds)
      /\ PubkeyRight' <=> PubkeyRight
      /\ AddrRight' <=> AddrRight
      /\ Seen' = Seen /\ RetryDoubts' = RetryDoubts
      /\ RetryTolerated' <=> RetryTolerated
  BY <1>1, ArgsFrame
<1>4. \A x : ResultOf(x)' = ResultOf(x)
  BY <1>1, <1>2 DEF ResultOf
<1>5. PathInv' /\ ItemsInv'
  BY <1>1, <1>3 DEF IInv, PathInv, ItemsInv, VerifyArgs, TestArgs
<1>6. ChunksInv'
  BY <1>1, <1>2 DEF IInv, ChunksInv
<1>7. ResultsInv'
  BY <1>1, <1>2, <1>4 DEF IInv, ResultsInv
<1>8. PassedInv'
  BY <1>1, <1>3 DEF IInv, PassedInv
<1>9. SelfTestVerdict'
  <2>1. stage = "pass" => Seen = {} /\ (args.scheme = "f1" => RetryTolerated)
    BY DEF IInv, SelfTestVerdict, RetryTolerated
  <2>2. stage' = "pass" => Seen' = {} /\ (args.scheme' = "f1" => RetryTolerated')
    BY <1>1, <1>3, <2>1
  <2>3. stage' = "fail" => \/ Seen' # {}
                          \/ /\ args.scheme' = "f1"
                             /\ ~Tolerated(Cardinality(RetryDoubts'), Len(Subset'))
    BY <1>1, <1>3 DEF IInv, SelfTestVerdict
  <2> QED BY <2>2, <2>3 DEF SelfTestVerdict, RetryTolerated, Tolerated
<1> QED BY <1>5, <1>6, <1>7, <1>8, <1>9 DEF IInv

\* Every reachable state is as the invariant says.
LEMMA IInvAlways == Spec => []IInv
<1>1. ASSUME IInv, [Next]_vars PROVE IInv'
  BY <1>1, WorkStep, VerifiedStep, SelfTestStep, EdSelfTestStep, CallFailsStep, IdleStep
     DEF Next, Done
<1> QED BY InitInv, <1>1, PTL DEF Spec
-----------------------------------------------------------------------------
(***************************************************************************)
(* DeviceChecks: the theorems                                              *)
(***************************************************************************)

\* The items are shared out to no more threads than there are, each at an item
\* of its chunk or done with it, for every number of threads and of items.
THEOREM ChecksTypeCorrect == Spec => []TypeOK
<1>1. ASSUME IInv PROVE TypeOK
  <2>1. PathInv /\ ItemsInv /\ ChunksInv /\ ResultsInv
    BY <1>1 DEF IInv
  <2>2. stage \in {"verify", "verified", "sampler", "pubkey", "addr", "retry", "matcher",
                   "search", "edReference", "edSearchPath", "edMatcher", "edSearch", "pass",
                   "fail", "error"}
    BY <2>1 DEF PathInv, F1Stages, EdStages, Ended
  <2>3. input \in IF "hits" \in DOMAIN args THEN Seq(RawHits) ELSE Seq(Entropies)
    BY <2>1, ArgsType DEF PathInv, ItemsInv
  <2>4. Len(pos) <= args.threads
    <3>1. PICK S : input \in Seq(S)
      BY <2>1, ItemsType
    <3>2. Starts(input) \in Seq(Nat) /\ Len(Starts(input)) <= args.threads
      BY <2>1, <3>1, ItemsType, StartsSpec
    <3>3. pos \in Seq(Nat) /\ DOMAIN pos = DOMAIN Starts(input)
      BY <2>1 DEF ChunksInv
    <3>4. Len(pos) = Len(Starts(input))
      BY <3>2, <3>3
    <3> QED BY <3>2, <3>4
  <2> QED BY <2>1, <2>2, <2>3, <2>4 DEF TypeOK, ChunksInv, ResultsInv
<1> QED BY <1>1, IInvAlways, PTL

\* What verify_hits keeps is what importing the entropy gives, and what it
\* culls could not be imported or was not asked for, whatever batch the device
\* returns and however the batch is shared out.
THEOREM VerificationIsExact == Spec => []ImportGivesShownAddress
<1>1. ASSUME IInv PROVE ImportGivesShownAddress
  <2> SUFFICES ASSUME stage = "verified", NEW i \in DOMAIN args.hits
               PROVE  LET hit == args.hits[i]
                          pk == KeygenFromSeed(hit.entropy)
                          asked == {t \in Matches[pk][hit.salt] : args.active[t]}
                      IN IF out[i].found
                         THEN /\ out[i].entropy = hit.entropy /\ out[i].salt = hit.salt
                              /\ out[i].pk = pk /\ Imports(hit, args.canonicalOnly)
                              /\ out[i].target \in asked
                         ELSE \/ SampleFg(hit.entropy).fails # {}
                              \/ ~Imports(hit, args.canonicalOnly) \/ asked = {}
    BY DEF ImportGivesShownAddress
  <2>1. args \in VerifyArgs /\ input = args.hits
    BY <1>1, StageArgs DEF IInv, ItemsInv
  <2>2. args.hits[i] \in RawHits
    BY <2>1, ArgsType
  <2>3. out[i] = VerifyOne(args.hits[i])
    BY <1>1, <2>1 DEF IInv, ResultsInv
  <2> QED BY <2>1, <2>2, <2>3, VerifyOneSpec
<1> QED BY <1>1, IInvAlways, PTL

\* A self-test that passes leaves no fault that its stages can see, and no more
\* wrong attempts of the retry loop than it tolerates; one that fails has seen a
\* fault, or too many attempts are wrong or within a hair of the bound.
THEOREM VerdictIsExact == Spec => []SelfTestVerdict
<1>1. IInv => SelfTestVerdict
  BY DEF IInv
<1> QED BY <1>1, IInvAlways, PTL
-----------------------------------------------------------------------------
(***************************************************************************)
(* FrontEnd: dropping repetitions                                          *)
(***************************************************************************)

\* What is kept of n + 1 targets, from what is kept of n.
KeptStep(kept, t) == IF t \in ToSet(kept) THEN kept ELSE Append(kept, t)

\* What is kept is given by the recursion.
LEMMA KeptEquations ==
    ASSUME NEW T, NEW l \in Seq(T)
    PROVE  /\ Kept(l) \in [0 .. Len(l) -> Seq(T)]
           /\ Kept(l)[0] = <<>>
           /\ \A n \in 1 .. Len(l) : Kept(l)[n] = KeptStep(Kept(l)[n - 1], l[n])
<1> DEFINE N == Len(l)
           A == Seq(T)
           F == [n \in 1 .. N |-> [kept \in A |-> KeptStep(kept, l[n])]]
           Is(f) == f = [n \in 0 .. N |->
                            IF n = 0 THEN <<>>
                            ELSE IF l[n] \in ToSet(f[n - 1]) THEN f[n - 1]
                                 ELSE Append(f[n - 1], l[n])]
<1>1. N \in Nat /\ <<>> \in A
  OBVIOUS
<1>2. F \in [1 .. N -> [A -> A]]
  <2>1. \A n \in 1 .. N : l[n] \in T
    OBVIOUS
  <2>2. ASSUME NEW n \in 1 .. N, NEW kept \in A PROVE KeptStep(kept, l[n]) \in A
    BY <2>1 DEF KeptStep
  <2> QED BY <2>2
<1>3. \E f : Iterates(f, A, <<>>, N, F)
  <2>1. N \in Nat
    OBVIOUS
  <2>2. <<>> \in A
    OBVIOUS
  <2> HIDE DEF F, N, A
  <2> QED BY <2>1, <2>2, <1>2, RecursionExists
<1>4. PICK f \in [0 .. N -> A] : f[0] = <<>> /\ \A n \in 1 .. N : f[n] = F[n][f[n - 1]]
  <2> HIDE DEF F, N, A
  <2> QED BY <1>3 DEF Iterates
<1>5. ASSUME NEW n \in 1 .. N PROVE f[n] = KeptStep(f[n - 1], l[n])
  <2>1. n - 1 \in 0 .. N
    OBVIOUS
  <2>2. f[n - 1] \in A
    BY <2>1
  <2> QED BY <1>4, <2>2
<1>6. Is(f)
  <2>1. \A n \in 0 .. N : f[n] = IF n = 0 THEN <<>> ELSE KeptStep(f[n - 1], l[n])
    BY <1>4, <1>5
  <2>2. f = [n \in 0 .. N |-> f[n]]
    OBVIOUS
  <2>3. f = [n \in 0 .. N |-> IF n = 0 THEN <<>> ELSE KeptStep(f[n - 1], l[n])]
    BY <2>1, <2>2, Zenon
  <2> QED BY <2>3, Zenon DEF KeptStep
<1>7. Is(Kept(l))
  <2>1. Kept(l) = CHOOSE g : Is(g)
    BY DEF Kept
  <2> HIDE DEF Is
  <2> QED BY <1>6, <2>1
<1>8. ASSUME NEW g, Is(g)
      PROVE  /\ DOMAIN g = 0 .. N
             /\ g[0] = <<>>
             /\ \A n \in 1 .. N : g[n] = KeptStep(g[n - 1], l[n])
             /\ g = [n \in 0 .. N |-> g[n]]
  <2>1. g = [n \in 0 .. N |-> IF n = 0 THEN <<>> ELSE KeptStep(g[n - 1], l[n])]
    BY <1>8, Zenon DEF KeptStep
  <2>2. DOMAIN g = 0 .. N
    BY <2>1, Zenon
  <2>3. \A n \in 0 .. N : g[n] = IF n = 0 THEN <<>> ELSE KeptStep(g[n - 1], l[n])
    BY <2>1, Zenon
  <2>4. g = [n \in 0 .. N |-> g[n]]
    BY <2>1, <2>3, Zenon
  <2>5. N \in Nat
    OBVIOUS
  <2> HIDE DEF N, Is
  <2>6. g[0] = <<>>
    BY <2>3, <2>5
  <2>7. \A n \in 1 .. N : g[n] = KeptStep(g[n - 1], l[n])
    BY <2>3, <2>5
  <2> QED BY <2>2, <2>4, <2>6, <2>7
<1>9. /\ DOMAIN Kept(l) = 0 .. N
      /\ Kept(l)[0] = <<>>
      /\ \A n \in 1 .. N : Kept(l)[n] = KeptStep(Kept(l)[n - 1], l[n])
      /\ Kept(l) = [n \in 0 .. N |-> Kept(l)[n]]
  <2> HIDE DEF Is, N
  <2> QED BY <1>7, <1>8
<1>10. \A n \in 0 .. N : Kept(l)[n] \in A
  <2> DEFINE S == {n \in Nat : n \in 0 .. N => Kept(l)[n] \in A}
  <2>1. 0 \in S
    BY <1>1, <1>9
  <2>2. ASSUME NEW n \in Nat, n \in S PROVE n + 1 \in S
    <3> SUFFICES ASSUME n + 1 \in 0 .. N PROVE Kept(l)[n + 1] \in A
      OBVIOUS
    <3>1. n \in 0 .. N /\ n + 1 \in 1 .. N /\ (n + 1) - 1 = n
      OBVIOUS
    <3>2. Kept(l)[n] \in A /\ l[n + 1] \in T
      BY <2>2, <3>1
    <3>3. Kept(l)[n + 1] = KeptStep(Kept(l)[n], l[n + 1])
      <4> HIDE DEF N
      <4> QED BY <1>9, <3>1
    <3>4. KeptStep(Kept(l)[n], l[n + 1]) \in A
      BY <3>2 DEF KeptStep
    <3> QED BY <3>3, <3>4
  <2>3. Nat \subseteq S
    <3> HIDE DEF S
    <3> QED BY <2>1, <2>2, SetInduction
  <2> QED BY <2>3
<1> HIDE DEF N, A
<1>11. Kept(l) \in [0 .. N -> A]
  BY <1>9, <1>10
<1> QED BY <1>9, <1>11 DEF N, A

\* What is kept of the first n targets has all of them, and none twice.
LEMMA KeptSpec ==
    ASSUME NEW T, NEW l \in Seq(T), NEW n \in 0 .. Len(l)
    PROVE  /\ ToSet(Kept(l)[n]) = {l[i] : i \in 1 .. n}
           /\ \A i, j \in DOMAIN Kept(l)[n] : Kept(l)[n][i] = Kept(l)[n][j] => i = j
<1> DEFINE N == Len(l)
           Distinct(k) == \A i, j \in DOMAIN k : k[i] = k[j] => i = j
           S == {m \in Nat : m \in 0 .. N => /\ ToSet(Kept(l)[m]) = {l[i] : i \in 1 .. m}
                                             /\ Distinct(Kept(l)[m])}
<1>1. N \in Nat
  OBVIOUS
<1>2. 0 \in S
  <2>1. Kept(l)[0] = <<>>
    BY KeptEquations
  <2>2. ToSet(<<>>) = {} /\ Distinct(<<>>)
    BY DEF ToSet
  <2>3. {l[i] : i \in 1 .. 0} = {}
    OBVIOUS
  <2> HIDE DEF Distinct
  <2> QED BY <2>1, <2>2, <2>3
<1>3. ASSUME NEW k \in Seq(T), NEW t \in T, Distinct(k)
      PROVE  ToSet(KeptStep(k, t)) = ToSet(k) \cup {t} /\ Distinct(KeptStep(k, t))
  <2>1. CASE t \in ToSet(k)
    <3>1. KeptStep(k, t) = k
      BY <2>1 DEF KeptStep
    <3> HIDE DEF Distinct
    <3> QED BY <2>1, <3>1, <1>3
  <2>2. CASE t \notin ToSet(k)
    <3> DEFINE a == Append(k, t)
    <3>1. KeptStep(k, t) = a
      BY <2>2 DEF KeptStep
    <3>2. /\ DOMAIN a = 1 .. Len(k) + 1 /\ DOMAIN k = 1 .. Len(k) /\ Len(k) \in Nat
          /\ \A i \in 1 .. Len(k) : a[i] = k[i]
          /\ a[Len(k) + 1] = t
      OBVIOUS
    <3> HIDE DEF a
    <3>3. ToSet(a) = ToSet(k) \cup {t}
      BY <3>2 DEF ToSet
    <3>4. Distinct(a)
      BY <1>3, <2>2, <3>2 DEF ToSet
    <3> HIDE DEF Distinct
    <3> QED BY <3>1, <3>3, <3>4
  <2> QED BY <2>1, <2>2
<1>4. ASSUME NEW m \in Nat, m \in S PROVE m + 1 \in S
  <2> SUFFICES ASSUME m + 1 \in 0 .. N
               PROVE  /\ ToSet(Kept(l)[m + 1]) = {l[i] : i \in 1 .. m + 1}
                      /\ Distinct(Kept(l)[m + 1])
    OBVIOUS
  <2>1. m \in 0 .. N /\ m + 1 \in 1 .. N /\ (m + 1) - 1 = m /\ l[m + 1] \in T
    OBVIOUS
  <2>2. Kept(l)[m] \in Seq(T) /\ Kept(l)[m + 1] = KeptStep(Kept(l)[m], l[m + 1])
    <3> HIDE DEF N
    <3> QED BY <2>1, KeptEquations DEF N
  <2>3. ToSet(Kept(l)[m]) = {l[i] : i \in 1 .. m} /\ Distinct(Kept(l)[m])
    BY <1>4, <2>1
  <2>4. {l[i] : i \in 1 .. m + 1} = {l[i] : i \in 1 .. m} \cup {l[m + 1]}
    OBVIOUS
  <2> HIDE DEF Distinct
  <2> QED BY <1>3, <2>1, <2>2, <2>3, <2>4
<1>5. Nat \subseteq S
  <2> HIDE DEF S
  <2> QED BY <1>2, <1>4, SetInduction
<1>6. n \in S /\ n \in 0 .. N
  <2>1. n \in Nat /\ n \in 0 .. N
    BY <1>1
  <2> HIDE DEF S
  <2> QED BY <1>5, <2>1
<1>7. /\ ToSet(Kept(l)[n]) = {l[i] : i \in 1 .. n}
      /\ Distinct(Kept(l)[n])
  <2> HIDE DEF Distinct
  <2> QED BY <1>6
<1> QED BY <1>7

\* Dedup drops repetitions and nothing else.
LEMMA DedupSpec ==
    ASSUME NEW T, NEW l \in Seq(T)
    PROVE  /\ Dedup(l) \in Seq(T)
           /\ ToSet(Dedup(l)) = ToSet(l)
           /\ Cardinality(ToSet(Dedup(l))) = Len(Dedup(l))
<1> DEFINE N == Len(l)
           d == Kept(l)[N]
<1>1. N \in Nat /\ N \in 0 .. N /\ DOMAIN l = 1 .. N
  OBVIOUS
<1>2. d \in Seq(T)
  <2> HIDE DEF N
  <2> QED BY <1>1, KeptEquations DEF N
<1>3. ToSet(d) = ToSet(l)
  <2>1. ToSet(d) = {l[i] : i \in 1 .. N}
    BY <1>1, KeptSpec
  <2> QED BY <1>1, <2>1 DEF ToSet
<1>4. \A i, j \in DOMAIN d : d[i] = d[j] => i = j
  BY <1>1, KeptSpec
<1> HIDE DEF d, N
<1>5. Cardinality(ToSet(d)) = Len(d)
  <2>1. DOMAIN d = 1 .. Len(d) /\ Len(d) \in Nat
    BY <1>2
  <2>2. d \in Bijection(1 .. Len(d), ToSet(d))
    <3>1. d \in [1 .. Len(d) -> ToSet(d)]
      BY <1>2, <2>1 DEF ToSet
    <3>2. \A t \in ToSet(d) : \E i \in 1 .. Len(d) : d[i] = t
      BY <2>1 DEF ToSet
    <3> QED BY <1>4, <2>1, <3>1, <3>2 DEF Bijection, Injection, Surjection, IsInjective
  <2>3. ExistsBijection(1 .. Len(d), ToSet(d))
    BY <2>2 DEF ExistsBijection
  <2>4. IsFiniteSet(1 .. Len(d)) /\ Cardinality(1 .. Len(d)) = Len(d)
    <3>1. 1 \in Int /\ Len(d) \in Int
      BY <2>1
    <3>2. /\ IsFiniteSet(1 .. Len(d))
          /\ Cardinality(1 .. Len(d)) = IF 1 > Len(d) THEN 0 ELSE Len(d) - 1 + 1
      BY <3>1, FS_Interval
    <3> QED BY <2>1, <3>2
  <2> QED BY <2>3, <2>4, FS_Bijection
<1> QED BY <1>2, <1>3, <1>5 DEF Dedup, d, N
-----------------------------------------------------------------------------
(***************************************************************************)
(* FrontEnd: parsing (TargetSet::parse)                                    *)
(***************************************************************************)

Separators == {Dots, Ellipsis, Dash}

\* A pattern with a separator is split at one.
LEMMA SplitSpec ==
    ASSUME NEW e \in Seq(Symbols), ToSet(e) \cap Separators # {}
    PROVE  \E i \in DOMAIN e :
              /\ e[i] \in Separators
              /\ SplitPair(e) = [prefix |-> SubSeq(e, 1, i - 1),
                                 suffix |-> SubSeq(e, i + 1, Len(e))]
<1> DEFINE seps == <<Dots, Ellipsis, Dash>>
           I == {i \in 1 .. Len(seps) : seps[i] \in ToSet(e)}
           c == Separator(e)
           J == {i \in 1 .. Len(e) : e[i] = c}
<1>1. I # {} /\ I \in SUBSET Nat /\ \A i \in I : seps[i] \in ToSet(e) \cap Separators
  <2>1. Len(seps) = 3 /\ seps[1] = Dots /\ seps[2] = Ellipsis /\ seps[3] = Dash
    OBVIOUS
  <2> HIDE DEF seps
  <2> QED BY <2>1 DEF Separators
<1>2. c \in ToSet(e) /\ c \in Separators
  <2>1. c = seps[Min(I)]
    <3>1. I # {}
      BY <1>1
    <3> QED BY <3>1 DEF Separator, SelectInSeq
  <2>2. Min(I) \in I
    <3> HIDE DEF I
    <3> QED BY <1>1, MinSpec
  <2> HIDE DEF I, c, seps
  <2> QED BY <1>1, <2>1, <2>2
<1>3. J # {} /\ J \in SUBSET Nat
  <2>1. DOMAIN e = 1 .. Len(e)
    OBVIOUS
  <2> HIDE DEF c
  <2> QED BY <1>2, <2>1 DEF ToSet
<1>4. Min(J) \in J
  <2> HIDE DEF J
  <2> QED BY <1>3, MinSpec
<1>5. SelectInSeq(e, LAMBDA x : x = Separator(e)) = Min(J)
  BY <1>3 DEF SelectInSeq
<1>6. SplitPair(e) = [prefix |-> SubSeq(e, 1, Min(J) - 1),
                      suffix |-> SubSeq(e, Min(J) + 1, Len(e))]
  BY <1>5 DEF SplitPair
<1>7. Min(J) \in DOMAIN e /\ e[Min(J)] \in Separators
  <2> HIDE DEF c
  <2>1. Min(J) \in 1 .. Len(e) /\ e[Min(J)] = c
    BY <1>4
  <2> QED BY <1>2, <2>1
<1> HIDE DEF J
<1> QED BY <1>6, <1>7

\* The options of a search or gpu command.
Options(c) == /\ {c.prefix, c.suffix, c.pattern} \subseteq Seq(Seq(Symbols))

\* The list before the repetitions are dropped: the patterns, or the product of
\* the prefixes and the suffixes.
LEMMA ListedSpec ==
    ASSUME NEW c, Options(c), WellSplit(c)
    PROVE  /\ Listed(c) \in Seq(ToSet(Listed(c)))
           /\ c.pattern # NotGiven => ToSet(Listed(c)) = {SplitPair(e) : e \in ToSet(c.pattern)}
           /\ c.pattern = NotGiven =>
                 ToSet(Listed(c)) = {[prefix |-> p, suffix |-> s] :
                                        p \in ToSet(Affixes(c.prefix)),
                                        s \in ToSet(Affixes(c.suffix))}
<1>1. CASE c.pattern # NotGiven
  <2>1. Listed(c) = [i \in DOMAIN c.pattern |-> SplitPair(c.pattern[i])]
    BY <1>1 DEF Listed
  <2>2. DOMAIN c.pattern = 1 .. Len(c.pattern) /\ Len(c.pattern) \in Nat
    BY DEF Options
  <2>3. \A i \in DOMAIN c.pattern : SplitPair(c.pattern[i]) \in ToSet(Listed(c))
    BY <2>1 DEF ToSet
  <2>4. Listed(c) \in Seq(ToSet(Listed(c)))
    BY <2>1, <2>2, <2>3
  <2> QED BY <1>1, <2>1, <2>4 DEF ToSet
<1>2. CASE c.pattern = NotGiven
  <2> DEFINE ps == Affixes(c.prefix)
             ss == Affixes(c.suffix)
             a == Len(ps)
             b == Len(ss)
             P(k) == ps[((k - 1) \div b) + 1]
             S(k) == ss[((k - 1) % b) + 1]
             l == [k \in 1 .. a * b |-> [prefix |-> P(k), suffix |-> S(k)]]
  <2>1. Listed(c) = l
    BY <1>2 DEF Listed
  <2>2. /\ DOMAIN ps = 1 .. a /\ a \in Nat
        /\ DOMAIN ss = 1 .. b /\ b \in Nat \ {0}
    <3>1. ps \in Seq(Seq(Symbols)) /\ ss \in Seq(Seq(Symbols)) /\ ss # <<>>
      BY DEF Options, Affixes, NotGiven
    <3> HIDE DEF ps, ss
    <3> QED BY <3>1
  <2> HIDE DEF ps, ss, a, b
  <2>3. a * b \in Nat
    BY <2>2
  <2>4. DOMAIN l = 1 .. a * b /\ l \in Seq(ToSet(l))
    <3> HIDE DEF P, S
    <3>1. \A k \in 1 .. a * b : [prefix |-> P(k), suffix |-> S(k)] \in ToSet(l)
      BY DEF ToSet
    <3> QED BY <2>3, <3>1
  <2>5. ASSUME NEW k \in 1 .. a * b PROVE P(k) \in ToSet(ps) /\ S(k) \in ToSet(ss)
    <3>1. ((k - 1) \div b) + 1 \in 1 .. a /\ ((k - 1) % b) + 1 \in 1 .. b
      BY <2>2, PairOfIndex
    <3> QED BY <2>2, <3>1 DEF ToSet
  <2>6. ASSUME NEW p \in ToSet(ps), NEW s \in ToSet(ss)
        PROVE  \E k \in 1 .. a * b : P(k) = p /\ S(k) = s
    <3>1. PICK i \in 1 .. a : ps[i] = p
      BY <2>2 DEF ToSet
    <3>2. PICK j \in 1 .. b : ss[j] = s
      BY <2>2 DEF ToSet
    <3> DEFINE k == (i - 1) * b + j
    <3>3. k \in 1 .. a * b /\ ((k - 1) \div b) + 1 = i /\ ((k - 1) % b) + 1 = j
      <4>1. a \in Nat /\ b \in Nat \ {0} /\ k = (i - 1) * b + j
        BY <2>2
      <4> HIDE DEF k
      <4> QED BY <4>1, IndexOfPair
    <3> QED BY <3>1, <3>2, <3>3
  <2>7. ToSet(l) = {[prefix |-> P(k), suffix |-> S(k)] : k \in 1 .. a * b}
    BY <2>4 DEF ToSet
  <2> HIDE DEF P, S
  <2>8. ToSet(l) = {[prefix |-> p, suffix |-> s] : p \in ToSet(ps), s \in ToSet(ss)}
    BY <2>5, <2>6, <2>7
  <2> HIDE DEF l
  <2> QED BY <1>2, <2>1, <2>4, <2>8 DEF ps, ss
<1> QED BY <1>1, <1>2

\* A listed target has symbols on both sides, and as a valid one characters.
LEMMA ListedTarget ==
    ASSUME NEW c, Options(c), WellSplit(c), NEW t \in ToSet(Listed(c)), Valid(t)
    PROVE  t \in Target
<1>1. \E p, s \in Seq(Symbols) : t = [prefix |-> p, suffix |-> s]
  <2>1. CASE c.pattern # NotGiven
    <3>1. PICK e \in ToSet(c.pattern) : t = SplitPair(e)
      BY <2>1, ListedSpec
    <3>2. e \in Seq(Symbols)
      BY DEF Options, ToSet
    <3>3. ToSet(e) \cap Separators # {}
      BY <3>1 DEF WellSplit, Separators
    <3>4. PICK i \in DOMAIN e : t = [prefix |-> SubSeq(e, 1, i - 1),
                                     suffix |-> SubSeq(e, i + 1, Len(e))]
      BY <3>1, <3>2, <3>3, SplitSpec
    <3>5. SubSeq(e, 1, i - 1) \in Seq(Symbols) /\ SubSeq(e, i + 1, Len(e)) \in Seq(Symbols)
      BY <3>2
    <3> QED BY <3>4, <3>5
  <2>2. CASE c.pattern = NotGiven
    <3>1. PICK p \in ToSet(Affixes(c.prefix)), s \in ToSet(Affixes(c.suffix)) :
             t = [prefix |-> p, suffix |-> s]
      BY <2>2, ListedSpec
    <3>2. p \in Seq(Symbols) /\ s \in Seq(Symbols)
      <4>1. Affixes(c.prefix) \in Seq(Seq(Symbols)) /\ Affixes(c.suffix) \in Seq(Seq(Symbols))
        BY DEF Affixes, Options
      <4> QED BY <4>1 DEF ToSet
    <3> QED BY <3>1, <3>2
  <2> QED BY <2>1, <2>2
<1>2. PICK p \in Seq(Symbols), s \in Seq(Symbols) : t = [prefix |-> p, suffix |-> s]
  BY <1>1
<1>3. ToSet(p) \subseteq Alphabet /\ ToSet(s) \subseteq Alphabet
  BY <1>2 DEF Valid
<1>4. p \in Seq(Alphabet) /\ s \in Seq(Alphabet)
  BY <1>3 DEF ToSet
<1> QED BY <1>2, <1>4 DEF Target

\* What an accepted list of options gives: different, valid targets, no more
\* than the device holds, and exactly the listed ones.
LEMMA ParseSpec ==
    ASSUME NEW c, Options(c), Parse(c) # Refused
    PROVE  /\ Parse(c) \in Seq(Target)
           /\ Len(Parse(c)) <= MaxTargets
           /\ Cardinality(ToSet(Parse(c))) = Len(Parse(c))
           /\ \A t \in ToSet(Parse(c)) : Valid(t)
           /\ WellSplit(c)
           /\ ToSet(Parse(c)) = ToSet(Listed(c))
<1>1. /\ WellSplit(c)
      /\ \A t \in ToSet(Listed(c)) : Valid(t)
      /\ Len(Dedup(Listed(c))) <= MaxTargets
      /\ Parse(c) = Dedup(Listed(c))
  BY DEF Parse
<1>2. Listed(c) \in Seq(Target)
  <2>1. Listed(c) \in Seq(ToSet(Listed(c)))
    BY <1>1, ListedSpec
  <2>2. ToSet(Listed(c)) \subseteq Target
    BY <1>1, ListedTarget
  <2> QED BY <2>1, <2>2
<1>3. /\ Parse(c) \in Seq(Target)
      /\ ToSet(Parse(c)) = ToSet(Listed(c))
      /\ Cardinality(ToSet(Parse(c))) = Len(Parse(c))
  BY <1>1, <1>2, DedupSpec
<1> QED BY <1>1, <1>3
-----------------------------------------------------------------------------
(***************************************************************************)
(* FrontEnd: strings (IsPrefix and IsSuffix of matches_display)            *)
(***************************************************************************)

\* starts_with compares the first characters.
LEMMA PrefixSpec ==
    ASSUME NEW A, NEW p \in Seq(A), NEW d \in Seq(A)
    PROVE  IsPrefix(p, d) <=> Len(p) <= Len(d) /\ \A i \in 1 .. Len(p) : p[i] = d[i]
<1>1. Len(p) \in Nat /\ Len(d) \in Nat
  OBVIOUS
<1>2. ASSUME Len(p) <= Len(d)
      PROVE  SubSeq(p, 1, Len(p)) = SubSeq(d, 1, Len(p)) <=> \A i \in 1 .. Len(p) : p[i] = d[i]
  <2>1. /\ SubSeq(p, 1, Len(p)) = [i \in 1 .. Len(p) |-> p[i]]
        /\ SubSeq(d, 1, Len(p)) = [i \in 1 .. Len(p) |-> d[i]]
    BY <1>1, <1>2
  <2> QED BY <2>1
<1> QED BY <1>2 DEF IsPrefix

\* ends_with compares the last ones.
LEMMA SuffixSpec ==
    ASSUME NEW A, NEW s \in Seq(A), NEW d \in Seq(A)
    PROVE  IsSuffix(s, d) <=> /\ Len(s) <= Len(d)
                              /\ \A i \in 1 .. Len(s) : s[i] = d[Len(d) - Len(s) + i]
<1> DEFINE n == Len(s)
           m == Len(d)
           rs == Reverse(s)
           rd == Reverse(d)
<1>1. n \in Nat /\ m \in Nat
  OBVIOUS
<1>2. /\ rs \in Seq(A) /\ Len(rs) = n /\ \A i \in 1 .. n : rs[i] = s[n - i + 1]
      /\ rd \in Seq(A) /\ Len(rd) = m /\ \A i \in 1 .. m : rd[i] = d[m - i + 1]
  <2>1. rs = [i \in 1 .. n |-> s[n - i + 1]] /\ rd = [i \in 1 .. m |-> d[m - i + 1]]
    BY DEF Reverse
  <2>2. /\ \A i \in 1 .. n : s[n - i + 1] \in A
        /\ \A i \in 1 .. m : d[m - i + 1] \in A
    BY <1>1
  <2> HIDE DEF rs, rd
  <2> QED BY <1>1, <2>1, <2>2
<1> HIDE DEF rs, rd, n, m
<1>3. IsSuffix(s, d) <=> n <= m /\ \A i \in 1 .. n : rs[i] = rd[i]
  <2>1. IsSuffix(s, d) <=> IsPrefix(rs, rd)
    BY DEF IsSuffix, rs, rd
  <2>2. rs \in Seq(A) /\ rd \in Seq(A)
    BY <1>2
  <2>3. IsPrefix(rs, rd) <=> Len(rs) <= Len(rd) /\ \A i \in 1 .. Len(rs) : rs[i] = rd[i]
    BY <2>2, PrefixSpec, SMTT(60)
  <2>4. Len(rs) = n /\ Len(rd) = m
    BY <1>2
  <2> QED BY <2>1, <2>3, <2>4
<1>4. ASSUME n <= m
      PROVE  (\A i \in 1 .. n : rs[i] = rd[i]) <=> \A i \in 1 .. n : s[i] = d[m - n + i]
  <2>1. ASSUME \A i \in 1 .. n : rs[i] = rd[i], NEW i \in 1 .. n PROVE s[i] = d[m - n + i]
    <3>1. n - i + 1 \in 1 .. n /\ n - i + 1 \in 1 .. m
      BY <1>1, <1>4
    <3>2. n - (n - i + 1) + 1 = i /\ m - (n - i + 1) + 1 = m - n + i
      BY <1>1
    <3>3. rs[n - i + 1] = s[i] /\ rd[n - i + 1] = d[m - n + i]
      BY <1>2, <3>1, <3>2
    <3> QED BY <2>1, <3>1, <3>3
  <2>2. ASSUME \A i \in 1 .. n : s[i] = d[m - n + i], NEW i \in 1 .. n PROVE rs[i] = rd[i]
    <3>1. n - i + 1 \in 1 .. n /\ i \in 1 .. m
      BY <1>1, <1>4
    <3>2. m - n + (n - i + 1) = m - i + 1
      BY <1>1
    <3>3. s[n - i + 1] = d[m - i + 1]
      BY <2>2, <3>1, <3>2
    <3> QED BY <1>2, <3>1, <3>3
  <2> QED BY <2>1, <2>2
<1> QED BY <1>3, <1>4 DEF n, m

\* Nothing is asked of a display string by an option that is not given.
LEMMA EmptyAffix ==
    ASSUME NEW A, NEW d \in Seq(A)
    PROVE  IsPrefix(<<>>, d) /\ IsSuffix(<<>>, d)
<1>1. ASSUME NEW u \in Seq(A) PROVE IsPrefix(<<>>, u)
  <2>1. Len(<<>>) = 0 /\ Len(u) \in Nat
    OBVIOUS
  <2>2. SubSeq(<<>>, 1, 0) = <<>> /\ SubSeq(u, 1, 0) = <<>>
    OBVIOUS
  <2> QED BY <2>1, <2>2 DEF IsPrefix
<1>2. Reverse(<<>>) = <<>>
  BY DEF Reverse
<1>3. Reverse(d) \in Seq(A)
  <2>1. Len(d) \in Nat /\ \A i \in 1 .. Len(d) : d[Len(d) - i + 1] \in A
    OBVIOUS
  <2> QED BY <2>1 DEF Reverse
<1> QED BY <1>1, <1>2, <1>3 DEF IsSuffix

\* A valid pattern has one symbol outside the alphabet, where it is split.
LEMMA PatternSpec ==
    ASSUME NEW e \in Seq(Symbols), ToSet(e) \cap Separators # {}, Valid(SplitPair(e))
    PROVE  \E i \in DOMAIN e :
              /\ e[i] \notin Alphabet
              /\ \A j \in DOMAIN e : e[j] \notin Alphabet => j = i
              /\ SplitPair(e) = [prefix |-> SubSeq(e, 1, i - 1),
                                 suffix |-> SubSeq(e, i + 1, Len(e))]
<1>1. PICK i \in DOMAIN e : /\ e[i] \in Separators
                            /\ SplitPair(e) = [prefix |-> SubSeq(e, 1, i - 1),
                                               suffix |-> SubSeq(e, i + 1, Len(e))]
  BY SplitSpec
<1> DEFINE p == SubSeq(e, 1, i - 1)
           s == SubSeq(e, i + 1, Len(e))
<1>2. e[i] \notin Alphabet
  BY <1>1, PatternAssumption DEF Separators
<1>3. DOMAIN e = 1 .. Len(e) /\ Len(e) \in Nat /\ i \in 1 .. Len(e)
  OBVIOUS
<1>4. /\ DOMAIN p = 1 .. i - 1 /\ \A j \in 1 .. i - 1 : p[j] = e[j]
      /\ DOMAIN s = 1 .. Len(e) - i /\ \A j \in 1 .. Len(e) - i : s[j] = e[i + j]
  BY <1>3
<1>5. ToSet(p) \subseteq Alphabet /\ ToSet(s) \subseteq Alphabet
  BY <1>1 DEF Valid
<1> HIDE DEF p, s
<1>6. ASSUME NEW j \in DOMAIN e, e[j] \notin Alphabet PROVE j = i
  <2>1. ~(j < i)
    <3> SUFFICES ASSUME j < i PROVE FALSE
      OBVIOUS
    <3>1. j \in DOMAIN p /\ p[j] = e[j]
      BY <1>3, <1>4
    <3> QED BY <1>5, <1>6, <3>1 DEF ToSet
  <2>2. ~(i < j)
    <3> SUFFICES ASSUME i < j PROVE FALSE
      OBVIOUS
    <3>1. j - i \in DOMAIN s /\ s[j - i] = e[i + (j - i)] /\ i + (j - i) = j
      BY <1>3, <1>4
    <3> QED BY <1>5, <1>6, <3>1 DEF ToSet
  <2> QED BY <1>3, <2>1, <2>2
<1> QED BY <1>1, <1>2, <1>6

\* The target list of accepted options matches what the options ask for.
LEMMA AskedSpec ==
    ASSUME NEW c, Options(c), Parse(c) # Refused, NEW d \in Seq(Alphabet)
    PROVE  Asked(c, d) <=> \E t \in ToSet(Parse(c)) : MatchesDisplay(t, d)
<1>1. /\ WellSplit(c)
      /\ ToSet(Parse(c)) = ToSet(Listed(c))
      /\ \A t \in ToSet(Listed(c)) : Valid(t)
  BY ParseSpec
<1>2. CASE c.pattern # NotGiven
  <2> DEFINE AskedAt(e) == \E i \in DOMAIN e : /\ e[i] \notin Alphabet
                                               /\ IsPrefix(SubSeq(e, 1, i - 1), d)
                                               /\ IsSuffix(SubSeq(e, i + 1, Len(e)), d)
  <2>1. ASSUME NEW e \in ToSet(c.pattern)
        PROVE  AskedAt(e) <=> MatchesDisplay(SplitPair(e), d)
    <3>1. e \in Seq(Symbols) /\ ToSet(e) \cap Separators # {}
      <4>1. e \in Seq(Symbols)
        BY DEF Options, ToSet
      <4>2. ToSet(e) \cap {Dots, Ellipsis, Dash} # {}
        BY <1>1 DEF WellSplit
      <4> QED BY <4>1, <4>2 DEF Separators
    <3>2. Valid(SplitPair(e))
      BY <1>1, <1>2, ListedSpec
    <3>3. PICK i \in DOMAIN e :
              /\ e[i] \notin Alphabet
              /\ \A j \in DOMAIN e : e[j] \notin Alphabet => j = i
              /\ SplitPair(e) = [prefix |-> SubSeq(e, 1, i - 1),
                                 suffix |-> SubSeq(e, i + 1, Len(e))]
      BY <3>1, <3>2, PatternSpec
    <3>4. MatchesDisplay(SplitPair(e), d) <=> /\ IsPrefix(SubSeq(e, 1, i - 1), d)
                                              /\ IsSuffix(SubSeq(e, i + 1, Len(e)), d)
      BY <3>3 DEF MatchesDisplay
    <3> QED BY <3>3, <3>4
  <2>2. Asked(c, d) <=> \E e \in ToSet(c.pattern) : AskedAt(e)
    BY <1>2 DEF Asked
  <2>3. ToSet(Parse(c)) = {SplitPair(e) : e \in ToSet(c.pattern)}
    BY <1>1, <1>2, ListedSpec
  <2> HIDE DEF AskedAt
  <2> QED BY <2>1, <2>2, <2>3
<1>3. CASE c.pattern = NotGiven
  <2>1. Asked(c, d) <=> /\ \E p \in ToSet(Affixes(c.prefix)) : IsPrefix(p, d)
                        /\ \E s \in ToSet(Affixes(c.suffix)) : IsSuffix(s, d)
    <3>1. ToSet(<< <<>> >>) = {<<>>}
      BY DEF ToSet
    <3> QED BY <1>3, <3>1, EmptyAffix DEF Asked, Affixes
  <2> DEFINE P == ToSet(Affixes(c.prefix))
             S == ToSet(Affixes(c.suffix))
             T == {[prefix |-> p, suffix |-> s] : p \in P, s \in S}
  <2>2. ToSet(Parse(c)) = T
    BY <1>1, <1>3, ListedSpec
  <2>3. \A p, s : MatchesDisplay([prefix |-> p, suffix |-> s], d)
                     <=> IsPrefix(p, d) /\ IsSuffix(s, d)
    BY DEF MatchesDisplay
  <2> HIDE DEF P, S
  <2>4. /\ \A t \in T : \E p \in P, s \in S : t = [prefix |-> p, suffix |-> s]
        /\ \A p \in P, s \in S : [prefix |-> p, suffix |-> s] \in T
    OBVIOUS
  <2> HIDE DEF T
  <2>5. (\E t \in T : MatchesDisplay(t, d))
           <=> (\E p \in P : IsPrefix(p, d)) /\ (\E s \in S : IsSuffix(s, d))
    BY <2>3, <2>4, Zenon
  <2> QED BY <2>1, <2>2, <2>5, Zenon DEF P, S
<1> QED BY <1>2, <1>3
-----------------------------------------------------------------------------
(***************************************************************************)
(* FrontEnd: bits and characters (display strings, words of the device)    *)
(***************************************************************************)

\* A bit of a sequence that is filled up with zeros.
BitAt(bits, j) == IF j <= Len(bits) THEN bits[j] ELSE 0

\* The characters hold the bits in order, and zeros after the last one.
LEMMA EncodeSpec ==
    ASSUME NEW bits \in Seq(Bit)
    PROVE  /\ Encode(bits) \in Seq(Alphabet)
           /\ Len(Encode(bits)) = CeilDiv(Len(bits), CharBits)
           /\ \A i \in 1 .. CeilDiv(Len(bits), CharBits), k \in 1 .. CharBits :
                 Encode(bits)[i][k] = BitAt(bits, (i - 1) * CharBits + k)
<1> DEFINE n == CeilDiv(Len(bits), CharBits)
           w == n * CharBits
           padded == AtHigh(bits, w)
<1>1. CharBits \in Nat \ {0} /\ Len(bits) \in Nat
  BY PatternAssumption
<1>2. n \in Nat
  BY <1>1, CeilDivBound
<1>3. Encode(bits) = [i \in 1 .. n |-> [k \in 1 .. CharBits |-> padded[(i - 1) * CharBits + k]]]
  BY DEF Encode
<1> HIDE DEF n
<1>4. w \in Nat
  BY <1>1, <1>2
<1>5. ASSUME NEW i \in 1 .. n, NEW k \in 1 .. CharBits
      PROVE  (i - 1) * CharBits + k \in 1 .. w
  <2> DEFINE j == (i - 1) * CharBits + k
  <2>1. n \in Nat /\ CharBits \in Nat \ {0} /\ j = (i - 1) * CharBits + k
    BY <1>1, <1>2
  <2> HIDE DEF j
  <2>2. j \in 1 .. n * CharBits
    BY <2>1, IndexOfPair
  <2> QED BY <2>2 DEF j
<1> HIDE DEF w
<1>6. ASSUME NEW j \in 1 .. w PROVE padded[j] = BitAt(bits, j) /\ padded[j] \in Bit
  BY <1>1, <1>4, <1>6 DEF AtHigh, BitAt, Bit
<1> HIDE DEF padded
<1>7. ASSUME NEW i \in 1 .. n, NEW k \in 1 .. CharBits
      PROVE  /\ padded[(i - 1) * CharBits + k] = BitAt(bits, (i - 1) * CharBits + k)
             /\ padded[(i - 1) * CharBits + k] \in Bit
  BY <1>5, <1>6
<1>8. Encode(bits) \in [1 .. n -> Alphabet]
  BY <1>3, <1>7 DEF Alphabet
<1>9. Encode(bits) \in Seq(Alphabet) /\ Len(Encode(bits)) = n
  BY <1>2, <1>8
<1>10. ASSUME NEW i \in 1 .. n, NEW k \in 1 .. CharBits
       PROVE  Encode(bits)[i][k] = BitAt(bits, (i - 1) * CharBits + k)
  BY <1>3, <1>7
<1> QED BY <1>9, <1>10 DEF n

\* The bits that a display string shows.
Shown(addr) == addr \o Checksum(addr)

\* The numbers of bits, as naturals.
LEMMA Widths ==
    /\ CharBits \in Nat \ {0} /\ ByteBits \in Nat \ {0}
    /\ AddrBits \in Nat \ {0} /\ SumBits \in Nat
    /\ DisplayLen \in Nat
    /\ PadBits \in Nat /\ PadBits < CharBits
    /\ DisplayLen * CharBits = AddrBits + SumBits + PadBits
<1>1. /\ CharBits \in Nat \ {0} /\ ByteBits \in Nat \ {0}
      /\ AddrBytes \in Nat \ {0} /\ SumBytes \in Nat
  BY PatternAssumption
<1>2. AddrBits \in Nat \ {0} /\ SumBits \in Nat
  <2>1. \A m, n \in Nat \ {0} : m * n \in Nat \ {0}
    BY SMT
  <2>2. \A m, n \in Nat : m * n \in Nat
    BY SMT
  <2> QED BY <1>1, <2>1, <2>2 DEF AddrBits, SumBits
<1>3. AddrBits + SumBits \in Nat
  BY <1>2
<1>4. /\ DisplayLen \in Nat
      /\ AddrBits + SumBits <= DisplayLen * CharBits
      /\ DisplayLen * CharBits < AddrBits + SumBits + CharBits
  BY <1>1, <1>3, CeilDivBound DEF DisplayLen
<1>5. DisplayLen * CharBits \in Nat
  BY <1>1, <1>4
<1> QED BY <1>1, <1>2, <1>4, <1>5 DEF PadBits

\* What is encoded: the address, then its checksum.
LEMMA ShownSpec ==
    ASSUME NEW addr \in AddressBits
    PROVE  /\ Shown(addr) \in [1 .. AddrBits + SumBits -> Bit]
           /\ Shown(addr) \in Seq(Bit)
           /\ Len(Shown(addr)) = AddrBits + SumBits
           /\ \A j \in 1 .. AddrBits : Shown(addr)[j] = addr[j]
           /\ \A j \in 1 .. SumBits : Shown(addr)[AddrBits + j] = Checksum(addr)[j]
<1> DEFINE sum == Checksum(addr)
<1>1. AddrBits \in Nat /\ SumBits \in Nat
  BY Widths
<1>2. addr \in [1 .. AddrBits -> Bit] /\ sum \in [1 .. SumBits -> Bit]
  BY PatternAssumption DEF AddressBits
<1> HIDE DEF sum
<1>3. addr \in Seq(Bit) /\ sum \in Seq(Bit) /\ Len(addr) = AddrBits /\ Len(sum) = SumBits
  BY <1>1, <1>2
<1>4. /\ addr \o sum \in Seq(Bit) /\ Len(addr \o sum) = AddrBits + SumBits
      /\ \A j \in 1 .. AddrBits : (addr \o sum)[j] = addr[j]
      /\ \A j \in 1 .. SumBits : (addr \o sum)[AddrBits + j] = sum[j]
  BY <1>1, <1>3
<1>5. addr \o sum \in [1 .. AddrBits + SumBits -> Bit]
  <2> DEFINE u == addr \o sum
             n == AddrBits + SumBits
  <2>1. u \in Seq(Bit) /\ Len(u) = n
    BY <1>4
  <2> HIDE DEF u, n
  <2>2. u \in [1 .. n -> Bit]
    BY <2>1
  <2> QED BY <2>2 DEF u, n
<1> QED BY <1>4, <1>5 DEF Shown, sum

\* A display string and its bits.
LEMMA DisplaySpec ==
    ASSUME NEW addr \in AddressBits
    PROVE  /\ Display(addr) \in Seq(Alphabet)
           /\ Len(Display(addr)) = DisplayLen
           /\ \A i \in 1 .. DisplayLen, k \in 1 .. CharBits :
                 Display(addr)[i][k] = BitAt(Shown(addr), (i - 1) * CharBits + k)
<1> DEFINE bits == Shown(addr)
<1>1. bits \in Seq(Bit) /\ CeilDiv(Len(bits), CharBits) = DisplayLen
  BY ShownSpec DEF DisplayLen
<1>2. Display(addr) = Encode(bits)
  BY DEF Display, Shown
<1> HIDE DEF bits
<1>3. /\ Encode(bits) \in Seq(Alphabet)
      /\ Len(Encode(bits)) = CeilDiv(Len(bits), CharBits)
      /\ \A i \in 1 .. CeilDiv(Len(bits), CharBits), k \in 1 .. CharBits :
            Encode(bits)[i][k] = BitAt(bits, (i - 1) * CharBits + k)
  BY <1>1, EncodeSpec
<1> QED BY <1>1, <1>2, <1>3 DEF bits

\* A character is its bits.
LEMMA SameChar ==
    ASSUME NEW c \in Alphabet, NEW d \in Alphabet, \A k \in 1 .. CharBits : c[k] = d[k]
    PROVE  c = d
<1>1. c = [k \in 1 .. CharBits |-> c[k]] /\ d = [k \in 1 .. CharBits |-> d[k]]
  BY DEF Alphabet
<1>2. [k \in 1 .. CharBits |-> c[k]] = [k \in 1 .. CharBits |-> d[k]]
  OBVIOUS
<1> QED BY <1>1, <1>2

Group(width) == [1 .. width -> Bit]

\* The bits of a sequence of groups, one group after the other.
Flat(s, width) == [j \in 1 .. width * Len(s) |->
                      s[((j - 1) \div width) + 1][((j - 1) % width) + 1]]

\* Every bit of every group has its place among all of them, and no other has it.
LEMMA FlatSpec ==
    ASSUME NEW W \in Nat \ {0}, NEW s \in Seq(Group(W))
    PROVE  /\ W * Len(s) \in Nat
           /\ Flat(s, W) \in [1 .. W * Len(s) -> Bit]
           /\ \A i \in 1 .. Len(s), k \in 1 .. W :
                 /\ (i - 1) * W + k \in 1 .. W * Len(s)
                 /\ Flat(s, W)[(i - 1) * W + k] = s[i][k]
           /\ \A j \in 1 .. W * Len(s) : \E i \in 1 .. Len(s), k \in 1 .. W :
                 j = (i - 1) * W + k
<1> DEFINE n == Len(s)
           w == W * n
           I(j) == ((j - 1) \div W) + 1
           K(j) == ((j - 1) % W) + 1
<1>1. W \in Nat \ {0} /\ n \in Nat /\ w \in Nat /\ w = n * W
  OBVIOUS
<1>2. Flat(s, W) = [j \in 1 .. w |-> s[I(j)][K(j)]]
  BY DEF Flat
<1>3. \A i \in 1 .. n, k \in 1 .. W : s[i][k] \in Bit
  <2>1. \A i \in 1 .. n : s[i] \in Group(W)
    OBVIOUS
  <2> QED BY <2>1 DEF Group
<1> HIDE DEF n, w
<1>4. ASSUME NEW j \in 1 .. w
      PROVE  I(j) \in 1 .. n /\ K(j) \in 1 .. W /\ j = (I(j) - 1) * W + K(j)
  <2>1. I(j) \in 1 .. n /\ K(j) \in 1 .. W
    BY <1>1, PairOfIndex
  <2>2. j - 1 \in Nat
    BY <1>1
  <2>3. j - 1 = W * ((j - 1) \div W) + ((j - 1) % W)
    BY <1>1, <2>2, DivMod
  <2> DEFINE q == (j - 1) \div W
             r == (j - 1) % W
  <2>4. q \in Nat /\ r \in Nat
    <3> DEFINE x == j - 1
    <3>1. x \in Nat
      BY <2>2
    <3> HIDE DEF x
    <3>2. x \div W \in Nat /\ x % W \in 0 .. W - 1
      BY <1>1, <3>1, DivMod
    <3> QED BY <1>1, <3>2 DEF x
  <2>5. I(j) - 1 = q /\ K(j) = r + 1
    <3>1. I(j) = q + 1 /\ K(j) = r + 1
      OBVIOUS
    <3> HIDE DEF q, r, I, K
    <3> QED BY <2>4, <3>1
  <2>6. j - 1 = W * q + r
    BY <2>3
  <2> HIDE DEF q, r, I, K
  <2>7. W * q = q * W /\ W * q \in Nat
    BY <1>1, <2>4
  <2> QED BY <1>1, <2>1, <2>4, <2>5, <2>6, <2>7
<1>5. ASSUME NEW i \in 1 .. n, NEW k \in 1 .. W, NEW j, j = (i - 1) * W + k
      PROVE  j \in 1 .. w /\ I(j) = i /\ K(j) = k
  BY <1>1, <1>5, IndexOfPair
<1> HIDE DEF I, K
<1>6. Flat(s, W) \in [1 .. w -> Bit]
  BY <1>2, <1>3, <1>4
<1>7. ASSUME NEW i \in 1 .. n, NEW k \in 1 .. W, NEW j, j = (i - 1) * W + k
      PROVE  Flat(s, W)[j] = s[i][k]
  BY <1>2, <1>5, <1>7
<1>8. \A i \in 1 .. n, k \in 1 .. W :
         /\ (i - 1) * W + k \in 1 .. w
         /\ Flat(s, W)[(i - 1) * W + k] = s[i][k]
  BY <1>5, <1>7
<1>9. \A j \in 1 .. w : \E i \in 1 .. n, k \in 1 .. W : j = (i - 1) * W + k
  BY <1>4
<1> QED BY <1>1, <1>6, <1>8, <1>9 DEF n, w

\* The bits of a string are those of its characters.
LEMMA BitsSpec ==
    ASSUME NEW s \in Seq(Alphabet)
    PROVE  /\ CharBits * Len(s) \in Nat
           /\ Bits(s) \in [1 .. CharBits * Len(s) -> Bit]
           /\ \A i \in 1 .. Len(s), k \in 1 .. CharBits :
                 /\ (i - 1) * CharBits + k \in 1 .. CharBits * Len(s)
                 /\ Bits(s)[(i - 1) * CharBits + k] = s[i][k]
           /\ \A j \in 1 .. CharBits * Len(s) : \E i \in 1 .. Len(s), k \in 1 .. CharBits :
                 j = (i - 1) * CharBits + k
<1>1. Bits(s) = Flat(s, CharBits) /\ Alphabet = Group(CharBits)
  BY DEF Bits, Flat, Alphabet, Group
<1>2. CharBits \in Nat \ {0} /\ s \in Seq(Group(CharBits))
  BY <1>1, Widths
<1>3. /\ CharBits * Len(s) \in Nat
      /\ Flat(s, CharBits) \in [1 .. CharBits * Len(s) -> Bit]
      /\ \A i \in 1 .. Len(s), k \in 1 .. CharBits :
            /\ (i - 1) * CharBits + k \in 1 .. CharBits * Len(s)
            /\ Flat(s, CharBits)[(i - 1) * CharBits + k] = s[i][k]
      /\ \A j \in 1 .. CharBits * Len(s) : \E i \in 1 .. Len(s), k \in 1 .. CharBits :
            j = (i - 1) * CharBits + k
  BY <1>2, FlatSpec, Zenon
<1> QED BY <1>1, <1>3, Zenon

\* The first n characters of u have the bits g.
HaveBits(u, n, g) == \A i \in 1 .. n : /\ u[i] \in Alphabet
                                       /\ \A k \in 1 .. CharBits :
                                             u[i][k] = g[(i - 1) * CharBits + k]

\* Comparing characters compares their bits.
LEMMA CharsAreBits ==
    ASSUME NEW s \in Seq(Alphabet), NEW u, NEW g, HaveBits(u, Len(s), g)
    PROVE  (\A i \in 1 .. Len(s) : s[i] = u[i])
              <=> \A j \in 1 .. CharBits * Len(s) : Bits(s)[j] = g[j]
<1> DEFINE n == Len(s)
           w == CharBits * n
<1>1. \A i \in 1 .. n : /\ u[i] \in Alphabet
                        /\ \A k \in 1 .. CharBits : u[i][k] = g[(i - 1) * CharBits + k]
  BY DEF HaveBits
<1>2. /\ \A i \in 1 .. n, k \in 1 .. CharBits :
            /\ (i - 1) * CharBits + k \in 1 .. w
            /\ Bits(s)[(i - 1) * CharBits + k] = s[i][k]
      /\ \A j \in 1 .. w : \E i \in 1 .. n, k \in 1 .. CharBits : j = (i - 1) * CharBits + k
  BY BitsSpec
<1>3. \A i \in 1 .. n : s[i] \in Alphabet
  OBVIOUS
<1> HIDE DEF n, w
<1>4. ASSUME \A i \in 1 .. n : s[i] = u[i], NEW j \in 1 .. w PROVE Bits(s)[j] = g[j]
  <2>1. PICK i \in 1 .. n, k \in 1 .. CharBits : j = (i - 1) * CharBits + k
    BY <1>2
  <2>2. Bits(s)[j] = s[i][k] /\ g[j] = u[i][k]
    BY <1>1, <1>2, <2>1
  <2> QED BY <1>4, <2>2
<1>5. ASSUME \A j \in 1 .. w : Bits(s)[j] = g[j], NEW i \in 1 .. n PROVE s[i] = u[i]
  <2>1. \A k \in 1 .. CharBits : s[i][k] = u[i][k]
    BY <1>1, <1>2, <1>5
  <2> QED BY <1>1, <1>3, <2>1, SameChar
<1> QED BY <1>4, <1>5 DEF n, w

\* A prefix within addr32 is one of its bits.
LEMMA PrefixBits ==
    ASSUME NEW p \in Seq(Alphabet), Len(p) <= DisplayLen, CharBits * Len(p) <= AddrBits,
           NEW addr \in AddressBits
    PROVE  IsPrefix(p, Display(addr)) <=> \A j \in 1 .. CharBits * Len(p) : Bits(p)[j] = addr[j]
<1> DEFINE n == Len(p)
           d == Display(addr)
<1>1. d \in Seq(Alphabet) /\ Len(d) = DisplayLen /\ DisplayLen \in Nat /\ n \in Nat
  BY DisplaySpec, Widths
<1>2. IsPrefix(p, d) <=> Len(p) <= Len(d) /\ \A i \in 1 .. Len(p) : p[i] = d[i]
  <2> HIDE DEF d
  <2> QED BY <1>1, PrefixSpec
<1>3. ASSUME NEW i \in 1 .. n, NEW k \in 1 .. CharBits
      PROVE  d[i][k] = addr[(i - 1) * CharBits + k]
  <2> DEFINE j == (i - 1) * CharBits + k
  <2>1. d[i][k] = BitAt(Shown(addr), j)
    BY <1>1, DisplaySpec
  <2>2. j \in 1 .. CharBits * n /\ CharBits * n \in Nat
    BY BitsSpec
  <2> HIDE DEF j
  <2>3. j \in 1 .. AddrBits /\ j <= AddrBits + SumBits
    BY <2>2, Widths
  <2>4. Shown(addr)[j] = addr[j] /\ Len(Shown(addr)) = AddrBits + SumBits
    BY <2>3, ShownSpec
  <2> QED BY <2>1, <2>3, <2>4 DEF BitAt, j
<1>4. \A i \in 1 .. n : d[i] \in Alphabet
  <2> HIDE DEF d
  <2> QED BY <1>1
<1> HIDE DEF d
<1>5. HaveBits(d, Len(p), addr)
  BY <1>3, <1>4 DEF HaveBits
<1>6. (\A i \in 1 .. Len(p) : p[i] = d[i])
         <=> \A j \in 1 .. CharBits * Len(p) : Bits(p)[j] = addr[j]
  BY <1>5, CharsAreBits
<1> QED BY <1>1, <1>2, <1>6 DEF d

\* The display string of an address agrees with the base32 of its leading
\* bytes, as far as the bytes determine the characters.
LEMMA HeadAgrees ==
    ASSUME NEW addr \in AddressBits, NEW h \in Nat, h * ByteBits <= AddrBits,
           NEW i \in Nat \ {0}, i * CharBits <= h * ByteBits
    PROVE  LET head == Encode(SubSeq(addr, 1, h * ByteBits))
           IN /\ head \in Seq(Alphabet)
              /\ i <= Len(head) /\ i <= DisplayLen
              /\ head[i] = Display(addr)[i]
<1> DEFINE w == h * ByteBits
           bits == SubSeq(addr, 1, w)
           head == Encode(bits)
<1>1. w \in Nat /\ w <= AddrBits
  BY Widths
<1>2. addr \in Seq(Bit) /\ Len(addr) = AddrBits
  <2> DEFINE n == AddrBits
  <2>1. n \in Nat /\ addr \in [1 .. n -> Bit]
    BY Widths DEF AddressBits
  <2> HIDE DEF n
  <2>2. addr \in Seq(Bit) /\ Len(addr) = n
    BY <2>1
  <2> QED BY <2>2 DEF n
<1> HIDE DEF w
<1>3. bits \in Seq(Bit) /\ Len(bits) = w /\ \A j \in 1 .. w : bits[j] = addr[j]
  <2>1. AddrBits \in Nat
    BY Widths
  <2> QED BY <1>1, <1>2, <2>1
<1> HIDE DEF bits
<1> DEFINE m == CeilDiv(w, CharBits)
<1>4. /\ head \in Seq(Alphabet) /\ Len(head) = m
      /\ \A l \in 1 .. m, k \in 1 .. CharBits : head[l][k] = BitAt(bits, (l - 1) * CharBits + k)
  BY <1>3, EncodeSpec
<1>5. m \in Nat /\ w <= m * CharBits
  BY <1>1, Widths, CeilDivBound
<1> HIDE DEF m, head
<1>6. \A a, b \in Nat : a * CharBits <= b * CharBits => a <= b
  <2> SUFFICES ASSUME NEW a \in Nat, NEW b \in Nat, b + 1 <= a PROVE ~(a * CharBits <= b * CharBits)
    OBVIOUS
  <2>0. CharBits \in Nat \ {0}
    BY Widths
  <2>1. (b + 1) * CharBits <= a * CharBits
    BY <2>0
  <2>2. (b + 1) * CharBits = b * CharBits + CharBits
    BY <2>0
  <2>3. a * CharBits \in Nat /\ b * CharBits \in Nat
    BY <2>0
  <2> QED BY <2>0, <2>1, <2>2, <2>3
<1>7. i <= m
  <2>1. i * CharBits <= m * CharBits
    <3>1. i * CharBits \in Nat /\ m * CharBits \in Nat
      BY <1>5, Widths
    <3> QED BY <1>1, <1>5, <3>1 DEF w
  <2> QED BY <1>5, <1>6, <2>1
<1>8. i <= DisplayLen
  <2>1. i * CharBits <= DisplayLen * CharBits
    <3>1. i * CharBits \in Nat
      BY Widths
    <3> QED BY <1>1, <3>1, Widths DEF w
  <2> QED BY <1>6, <2>1, Widths
<1>9. ASSUME NEW k \in 1 .. CharBits PROVE head[i][k] = Display(addr)[i][k]
  <2> DEFINE j == (i - 1) * CharBits + k
  <2>1. j \in 1 .. w
    <3>1. (i - 1) * CharBits = i * CharBits - CharBits /\ (i - 1) * CharBits \in Nat
      BY Widths
    <3>2. i * CharBits <= w /\ i * CharBits \in Nat
      BY Widths DEF w
    <3> DEFINE x == (i - 1) * CharBits
               y == i * CharBits
    <3>3. x = y - CharBits /\ x \in Nat /\ y <= w /\ y \in Nat /\ j = x + k
      BY <3>1, <3>2
    <3> HIDE DEF x, y, j
    <3> QED BY <1>1, <3>3, Widths
  <2>2. head[i][k] = BitAt(bits, j)
    <3>1. i \in 1 .. m
      BY <1>5, <1>7
    <3> QED BY <1>4, <3>1, Zenon
  <2>3. Display(addr)[i][k] = BitAt(Shown(addr), j)
    BY <1>8, Widths, DisplaySpec
  <2> HIDE DEF j
  <2>4. j \in 1 .. AddrBits /\ j <= AddrBits + SumBits
    BY <1>1, <2>1, Widths
  <2>5. Shown(addr)[j] = addr[j] /\ Len(Shown(addr)) = AddrBits + SumBits
    BY <2>4, ShownSpec
  <2>6. bits[j] = addr[j] /\ j <= Len(bits)
    BY <1>3, <2>1
  <2> QED BY <2>2, <2>3, <2>4, <2>5, <2>6 DEF BitAt
<1>10. head[i] \in Alphabet /\ Display(addr)[i] \in Alphabet
  <2>1. Display(addr) \in Seq(Alphabet) /\ Len(Display(addr)) = DisplayLen
    BY DisplaySpec
  <2> QED BY <1>4, <1>7, <1>8, <2>1, Widths
<1>11. head[i] = Display(addr)[i]
  BY <1>9, <1>10, SameChar
<1> QED BY <1>4, <1>7, <1>8, <1>11 DEF head, bits, w

\* A suffix is the bits at the end, without the padding of its last character.
LEMMA SuffixBits ==
    ASSUME NEW s \in Seq(Alphabet), s # <<>>, Last(s) \in LastChars, Len(s) <= DisplayLen,
           NEW addr \in AddressBits,
           NEW k0, k0 = CharBits * Len(s) - PadBits
    PROVE  /\ k0 \in 1 .. CharBits * Len(s)
           /\ IsSuffix(s, Display(addr))
                 <=> \A j \in 1 .. k0 : Bits(s)[j] = Shown(addr)[(AddrBits + SumBits) - k0 + j]
<1> DEFINE n == Len(s)
           w == CharBits * n
           T == AddrBits + SumBits
           d == Display(addr)
           u == [i \in 1 .. n |-> d[DisplayLen - n + i]]
           g == [j \in 1 .. w |-> BitAt(Shown(addr), T - k0 + j)]
<1>1. /\ n \in Nat \ {0} /\ DisplayLen \in Nat /\ n <= DisplayLen /\ w \in Nat
      /\ CharBits \in Nat \ {0} /\ PadBits \in Nat /\ PadBits < CharBits
      /\ T \in Nat /\ DisplayLen * CharBits = T + PadBits
  <2>1. n \in Nat \ {0}
    OBVIOUS
  <2> HIDE DEF n
  <2> QED BY <2>1, Widths DEF n
<1>2. CharBits <= w /\ k0 = w - PadBits /\ k0 \in 1 .. w
  <2>1. CharBits <= w
    BY <1>1
  <2> HIDE DEF w
  <2> QED BY <1>1, <2>1 DEF w
<1>3. w <= T + PadBits
  BY <1>1
<1>4. d \in Seq(Alphabet) /\ Len(d) = DisplayLen
  BY DisplaySpec
<1> HIDE DEF T, d
<1>5. IsSuffix(s, d) <=> \A i \in 1 .. n : s[i] = u[i]
  <2>1. IsSuffix(s, d) <=> /\ Len(s) <= Len(d)
                           /\ \A i \in 1 .. Len(s) : s[i] = d[Len(d) - Len(s) + i]
    BY <1>4, SuffixSpec
  <2> QED BY <1>1, <1>4, <2>1
<1>6. HaveBits(u, Len(s), g)
  <2>1. ASSUME NEW i \in 1 .. n PROVE u[i] \in Alphabet
    <3>1. DisplayLen - n + i \in 1 .. DisplayLen
      BY <1>1
    <3> QED BY <1>4, <3>1
  <2>2. ASSUME NEW i \in 1 .. n, NEW k \in 1 .. CharBits
        PROVE  u[i][k] = g[(i - 1) * CharBits + k]
    <3> DEFINE l == DisplayLen - n + i
               j == (i - 1) * CharBits + k
    <3>1. l \in 1 .. DisplayLen /\ u[i] = d[l]
      BY <1>1
    <3>2. d[l][k] = BitAt(Shown(addr), (l - 1) * CharBits + k)
      BY <3>1, DisplaySpec DEF d
    <3>3. j \in 1 .. w
      BY BitsSpec
    <3>4. (l - 1) * CharBits + k = T - k0 + j
      <4>1. (l - 1) * CharBits = DisplayLen * CharBits - n * CharBits + (i - 1) * CharBits
        <5> DEFINE a == i - 1
        <5>1. a \in Int /\ l - 1 = DisplayLen - n + a
          BY <1>1
        <5> HIDE DEF a, l, n
        <5>2. (DisplayLen - n + a) * CharBits = DisplayLen * CharBits - n * CharBits + a * CharBits
          BY <1>1, <5>1
        <5> QED BY <5>1, <5>2 DEF a
      <4>2. n * CharBits = w /\ (i - 1) * CharBits \in Int
        BY <1>1
      <4> DEFINE a == (i - 1) * CharBits
                 b == (l - 1) * CharBits
                 e == DisplayLen * CharBits
      <4>3. b = e - w + a /\ e = T + PadBits /\ a \in Int /\ j = a + k
        BY <1>1, <4>1, <4>2
      <4> HIDE DEF a, b, e, j, w, l
      <4>4. b + k = T - k0 + j
        BY <1>1, <1>2, <4>3
      <4> QED BY <4>4 DEF b
    <3>5. g[j] = BitAt(Shown(addr), T - k0 + j)
      <4> HIDE DEF j
      <4> QED BY <3>3
    <3> QED BY <3>1, <3>2, <3>4, <3>5
  <2> QED BY <2>1, <2>2 DEF HaveBits
<1> HIDE DEF u
<1>7. (\A i \in 1 .. Len(s) : s[i] = u[i])
         <=> \A j \in 1 .. CharBits * Len(s) : Bits(s)[j] = g[j]
  <2> HIDE DEF g
  <2> QED BY <1>6, CharsAreBits
<1>8. Len(Shown(addr)) = T
  BY ShownSpec DEF T
<1>9. ASSUME NEW j \in 1 .. k0 PROVE g[j] = Shown(addr)[T - k0 + j]
  <2>1. j \in 1 .. w /\ T - k0 + j <= T
    BY <1>1, <1>2
  <2> QED BY <1>8, <2>1 DEF BitAt
<1>10. ASSUME NEW j \in 1 .. w, j > k0 PROVE g[j] = 0 /\ Bits(s)[j] = 0
  <2>1. ~(T - k0 + j <= T)
    BY <1>1, <1>2, <1>10
  <2>2. g[j] = 0
    BY <1>8, <2>1 DEF BitAt
  <2>3. PICK i \in 1 .. n, k \in 1 .. CharBits : j = (i - 1) * CharBits + k
    BY BitsSpec
  <2>4. Bits(s)[j] = s[i][k]
    BY <2>3, BitsSpec
  <2>5. i = n
    <3> SUFFICES ASSUME i + 1 <= n PROVE FALSE
      BY <1>1
    <3>1. (i + 1) * CharBits <= n * CharBits
      BY <1>1
    <3>2. (i + 1) * CharBits = (i - 1) * CharBits + 2 * CharBits /\ n * CharBits = w
      BY <1>1
    <3> DEFINE a == (i - 1) * CharBits
    <3>3. a + 2 * CharBits <= w /\ a \in Int /\ j = a + k
      BY <1>1, <2>3, <3>1, <3>2
    <3> HIDE DEF a, w
    <3> QED BY <1>1, <1>2, <1>10, <3>3
  <2>6. k \in CharBits - PadBits + 1 .. CharBits
    <3> DEFINE a == (n - 1) * CharBits
    <3>1. a = w - CharBits /\ j = a + k
      BY <1>1, <2>3, <2>5
    <3> HIDE DEF a, w
    <3> QED BY <1>1, <1>2, <1>10, <3>1
  <2>7. s[n] \in LastChars
    BY DEF Last
  <2>8. s[n][k] = 0
    BY <2>6, <2>7 DEF LastChars
  <2> QED BY <2>2, <2>4, <2>5, <2>8
<1> HIDE DEF g, w
<1>11. (\A j \in 1 .. w : Bits(s)[j] = g[j])
          <=> \A j \in 1 .. k0 : Bits(s)[j] = Shown(addr)[T - k0 + j]
  <2>1. ASSUME \A j \in 1 .. w : Bits(s)[j] = g[j], NEW j \in 1 .. k0
        PROVE  Bits(s)[j] = Shown(addr)[T - k0 + j]
    <3>1. j \in 1 .. w
      BY <1>1, <1>2
    <3> QED BY <1>9, <2>1, <3>1
  <2>2. ASSUME \A j \in 1 .. k0 : Bits(s)[j] = Shown(addr)[T - k0 + j], NEW j \in 1 .. w
        PROVE  Bits(s)[j] = g[j]
    <3>1. CASE j > k0
      BY <1>10, <3>1
    <3>2. CASE ~(j > k0)
      <4>1. j \in 1 .. k0
        BY <1>1, <1>2, <3>2
      <4> QED BY <1>9, <2>2, <4>1
    <3> QED BY <3>1, <3>2
  <2> QED BY <2>1, <2>2
<1>12. IsSuffix(s, d) <=> \A j \in 1 .. k0 : Bits(s)[j] = Shown(addr)[T - k0 + j]
  BY <1>5, <1>7, <1>11, Zenon DEF w, n
<1>13. k0 \in 1 .. CharBits * Len(s)
  BY <1>2, Zenon DEF w
<1> QED BY <1>12, <1>13, Zenon DEF T, d

\* The widths of the device's words.
LEMMA DeviceWidths ==
    /\ HiBits \in Nat /\ HiBits <= AddrBits
    /\ LoBytes * ByteBits \in Nat /\ LoBytes * ByteBits <= AddrBits
    /\ LoBits \in Nat /\ LoBits = LoBytes * ByteBits + SumBits
    /\ GpuMaxPrefix * CharBits <= HiBits
    /\ GpuMaxSuffix * CharBits - PadBits < LoBits
<1>1. /\ ByteBits \in Nat \ {0} /\ HiBytes \in Nat /\ LoBytes \in Nat
      /\ AddrBytes \in Nat /\ SumBytes \in Nat
      /\ HiBytes <= AddrBytes /\ LoBytes <= AddrBytes
  BY PatternAssumption
<1>2. \A a, b \in Nat : a <= b => a * ByteBits \in Nat /\ a * ByteBits <= b * ByteBits
  BY <1>1
<1>3. (LoBytes + SumBytes) * ByteBits = LoBytes * ByteBits + SumBytes * ByteBits
  BY <1>1
<1>4. LoBytes * ByteBits + SumBytes * ByteBits \in Nat
  BY <1>1
<1> QED BY <1>1, <1>2, <1>3, <1>4, PatternAssumption DEF HiBits, LoBits, AddrBits, SumBits

\* The mask and the value of a prefix that fits the device ask for the prefix.
LEMMA DevicePrefix ==
    ASSUME NEW p \in Seq(Alphabet), Len(p) <= DisplayLen, Len(p) <= GpuMaxPrefix,
           NEW addr \in AddressBits
    PROVE  KeepHigh(HiWord(addr), Len(Bits(p))) = AtHigh(Bits(p), HiBits)
              <=> IsPrefix(p, Display(addr))
<1> DEFINE w == CharBits * Len(p)
           b == Bits(p)
           hi == HiWord(addr)
<1>1. /\ w \in Nat /\ w <= HiBits /\ w <= AddrBits
      /\ HiBits \in Nat /\ HiBits <= AddrBits /\ AddrBits \in Nat
  <2>1. Len(p) \in Nat /\ GpuMaxPrefix \in Nat /\ CharBits \in Nat
    BY PatternAssumption
  <2>2. w \in Nat /\ w <= GpuMaxPrefix * CharBits /\ GpuMaxPrefix * CharBits \in Nat
    <3>1. \A a, c \in Nat : a <= c => /\ CharBits * a \in Nat /\ CharBits * a <= c * CharBits
                                     /\ c * CharBits \in Nat
      BY <2>1
    <3> QED BY <2>1, <3>1
  <2> HIDE DEF w
  <2> QED BY <2>2, DeviceWidths, Widths
<1>2. b \in [1 .. w -> Bit] /\ Len(b) = w
  <2>1. b \in [1 .. w -> Bit]
    BY BitsSpec
  <2> HIDE DEF b, w
  <2> QED BY <1>1, <2>1
<1>3. DOMAIN hi = 1 .. HiBits /\ \A j \in 1 .. HiBits : hi[j] = addr[j]
  BY <1>1 DEF HiWord
<1>4. IsPrefix(p, Display(addr)) <=> \A j \in 1 .. w : b[j] = addr[j]
  BY <1>1, PrefixBits
<1> HIDE DEF w, b, hi
<1> DEFINE x == KeepHigh(hi, w)
           y == AtHigh(b, HiBits)
<1>5. x = y <=> \A j \in 1 .. HiBits : x[j] = y[j]
  <2>1. x = [j \in 1 .. HiBits |-> x[j]] /\ y = [j \in 1 .. HiBits |-> y[j]]
    BY <1>3 DEF KeepHigh, AtHigh
  <2> HIDE DEF x, y
  <2> QED BY <2>1
<1>6. ASSUME NEW j \in 1 .. HiBits
      PROVE  /\ x[j] = IF j <= w THEN addr[j] ELSE 0
             /\ y[j] = IF j <= w THEN b[j] ELSE 0
  BY <1>2, <1>3 DEF KeepHigh, AtHigh
<1> HIDE DEF x, y
<1>7. x = y <=> \A j \in 1 .. w : b[j] = addr[j]
  <2>1. ASSUME x = y, NEW j \in 1 .. w PROVE b[j] = addr[j]
    <3>1. j \in 1 .. HiBits /\ j <= w
      BY <1>1
    <3> QED BY <1>6, <2>1, <3>1
  <2>2. ASSUME \A j \in 1 .. w : b[j] = addr[j], NEW j \in 1 .. HiBits PROVE x[j] = y[j]
    <3>1. CASE j <= w
      <4>1. j \in 1 .. w
        BY <1>1, <3>1
      <4> QED BY <1>6, <2>2, <4>1
    <3>2. CASE ~(j <= w)
      BY <1>6, <3>2
    <3> QED BY <3>1, <3>2
  <2> QED BY <1>5, <2>1, <2>2
<1> QED BY <1>2, <1>4, <1>7 DEF x, y, b, hi

\* So do those of a suffix, whose last character may reach into the padding.
LEMMA DeviceSuffix ==
    ASSUME NEW s \in Seq(Alphabet), s # <<>>, Last(s) \in LastChars,
           Len(s) <= DisplayLen, Len(s) <= GpuMaxSuffix,
           NEW addr \in AddressBits,
           NEW b, b = SubSeq(Bits(s), 1, CharBits * Len(s) - PadBits)
    PROVE  /\ Len(b) # 0
           /\ KeepLow(LoWord(addr), Len(b)) = AtLow(b, LoBits) <=> IsSuffix(s, Display(addr))
<1> DEFINE w == CharBits * Len(s)
           k0 == w - PadBits
           T == AddrBits + SumBits
           lo == LoWord(addr)
           v == LoBytes * ByteBits
<1>1. /\ k0 \in 1 .. w
      /\ IsSuffix(s, Display(addr))
            <=> \A j \in 1 .. k0 : Bits(s)[j] = Shown(addr)[T - k0 + j]
  <2>1. k0 = CharBits * Len(s) - PadBits
    OBVIOUS
  <2> HIDE DEF k0
  <2> QED BY <2>1, SuffixBits
<1>2. /\ w \in Nat /\ w <= GpuMaxSuffix * CharBits /\ GpuMaxSuffix * CharBits \in Nat
  <2>1. Len(s) \in Nat /\ GpuMaxSuffix \in Nat /\ CharBits \in Nat
    BY PatternAssumption
  <2>2. \A a, c \in Nat : a <= c => /\ CharBits * a \in Nat /\ CharBits * a <= c * CharBits
                                   /\ c * CharBits \in Nat
    BY <2>1
  <2> QED BY <2>1, <2>2
<1>3. /\ v \in Nat /\ v <= AddrBits /\ AddrBits \in Nat /\ SumBits \in Nat
      /\ LoBits = v + SumBits /\ T \in Nat /\ T - LoBits = AddrBits - v
      /\ PadBits \in Nat
  BY Widths, DeviceWidths
<1>4. k0 < LoBits
  <2> DEFINE z == GpuMaxSuffix * CharBits
  <2>1. z \in Nat /\ w <= z /\ z - PadBits < LoBits /\ LoBits \in Nat
    BY <1>2, DeviceWidths
  <2> HIDE DEF w, z
  <2> QED BY <1>2, <1>3, <2>1
<1>5. /\ Len(b) = k0
      /\ \A j \in 1 .. k0 : b[j] = Bits(s)[j]
  <2>1. Bits(s) \in [1 .. w -> Bit]
    BY BitsSpec
  <2>2. b = SubSeq(Bits(s), 1, k0)
    OBVIOUS
  <2>3. k0 \in 0 .. w /\ w \in Nat
    BY <1>1, <1>2
  <2> HIDE DEF w, k0
  <2>4. Bits(s) \in Seq(Bit) /\ Len(Bits(s)) = w
    BY <2>1, <2>3
  <2>5. k0 \in 0 .. Len(Bits(s))
    BY <2>3, <2>4
  <2> QED BY <2>2, <2>4, <2>5, TakeSpec
<1> HIDE DEF w, k0, v
<1>6. DOMAIN lo = 1 .. LoBits /\ Len(lo) = LoBits
      /\ \A j \in 1 .. LoBits : lo[j] = Shown(addr)[T - LoBits + j]
  <2> DEFINE hd == SubSeq(addr, AddrBits - v + 1, AddrBits)
             sum == Checksum(addr)
  <2>1. addr \in [1 .. AddrBits -> Bit] /\ sum \in [1 .. SumBits -> Bit]
    BY PatternAssumption DEF AddressBits
  <2>2. hd \in Seq(Bit) /\ Len(hd) = v /\ \A j \in 1 .. v : hd[j] = addr[AddrBits - v + j]
    <3>1. hd = [j \in 1 .. v |-> addr[AddrBits - v + j]]
      BY <1>3
    <3>2. \A j \in 1 .. v : addr[AddrBits - v + j] \in Bit
      <4>1. \A j \in 1 .. v : AddrBits - v + j \in 1 .. AddrBits
        BY <1>3
      <4> QED BY <2>1, <4>1
    <3> HIDE DEF hd
    <3> QED BY <1>3, <3>1, <3>2
  <2>3. sum \in Seq(Bit) /\ Len(sum) = SumBits
    <3> HIDE DEF sum
    <3> QED BY <1>3, <2>1
  <2>4. lo = hd \o sum
    BY DEF LoWord, v
  <2> HIDE DEF hd, lo
  <2>5. /\ Len(lo) = LoBits /\ DOMAIN lo = 1 .. LoBits
        /\ \A j \in 1 .. v : lo[j] = hd[j]
        /\ \A j \in 1 .. SumBits : lo[v + j] = sum[j]
    <3>1. /\ hd \o sum \in Seq(Bit) /\ Len(hd \o sum) = Len(hd) + Len(sum)
          /\ \A j \in 1 .. Len(hd) : (hd \o sum)[j] = hd[j]
          /\ \A j \in 1 .. Len(sum) : (hd \o sum)[Len(hd) + j] = sum[j]
      <4>1. hd \in Seq(Bit)
        BY <2>2
      <4>2. sum \in Seq(Bit)
        BY <2>3
      <4> HIDE DEF sum
      <4> QED BY <4>1, <4>2, ConcatSpec
    <3>2. DOMAIN (hd \o sum) = 1 .. Len(hd \o sum)
      BY <3>1
    <3> HIDE DEF sum
    <3> QED BY <1>3, <2>2, <2>3, <2>4, <3>1, <3>2
  <2>6. ASSUME NEW j \in 1 .. LoBits PROVE lo[j] = Shown(addr)[T - LoBits + j]
    <3>1. CASE j <= v
      <4>1. j \in 1 .. v /\ AddrBits - v + j \in 1 .. AddrBits /\ T - LoBits + j = AddrBits - v + j
        BY <1>3, <3>1
      <4>2. lo[j] = addr[AddrBits - v + j]
        BY <2>2, <2>5, <4>1
      <4> HIDE DEF T
      <4> QED BY <4>1, <4>2, ShownSpec
    <3>2. CASE ~(j <= v)
      <4>1. j - v \in 1 .. SumBits /\ v + (j - v) = j /\ T - LoBits + j = AddrBits + (j - v)
        BY <1>3, <3>2
      <4>2. lo[j] = sum[j - v]
        BY <2>5, <4>1
      <4>3. Shown(addr)[AddrBits + (j - v)] = sum[j - v]
        BY <4>1, ShownSpec
      <4> HIDE DEF T, sum
      <4> QED BY <4>1, <4>2, <4>3
    <3> QED BY <3>1, <3>2
  <2> QED BY <2>5, <2>6
<1> HIDE DEF lo, T
<1> DEFINE x == KeepLow(lo, k0)
           y == AtLow(b, LoBits)
<1>7. x = y <=> \A j \in 1 .. LoBits : x[j] = y[j]
  <2>1. x = [j \in 1 .. LoBits |-> x[j]] /\ y = [j \in 1 .. LoBits |-> y[j]]
    BY <1>6 DEF KeepLow, AtLow
  <2> HIDE DEF x, y
  <2> QED BY <2>1
<1>8. ASSUME NEW j \in 1 .. LoBits
      PROVE  /\ x[j] = IF j > LoBits - k0 THEN Shown(addr)[T - LoBits + j] ELSE 0
             /\ y[j] = IF j > LoBits - k0 THEN b[j - (LoBits - k0)] ELSE 0
  BY <1>5, <1>6 DEF KeepLow, AtLow
<1> HIDE DEF x, y
<1>9. x = y <=> \A j \in 1 .. k0 : Bits(s)[j] = Shown(addr)[T - k0 + j]
  <2>0. LoBits \in Nat /\ T \in Nat /\ k0 \in Nat
    BY <1>1, <1>2, <1>3
  <2>1. ASSUME x = y, NEW j \in 1 .. k0 PROVE Bits(s)[j] = Shown(addr)[T - k0 + j]
    <3> DEFINE i == LoBits - k0 + j
    <3>1. /\ i \in 1 .. LoBits /\ i > LoBits - k0
          /\ i - (LoBits - k0) = j /\ T - LoBits + i = T - k0 + j
      BY <1>4, <2>0
    <3> HIDE DEF i
    <3>2. x[i] = Shown(addr)[T - k0 + j] /\ y[i] = b[j]
      BY <1>8, <3>1
    <3> QED BY <1>5, <2>1, <3>2
  <2>2. ASSUME \A j \in 1 .. k0 : Bits(s)[j] = Shown(addr)[T - k0 + j], NEW i \in 1 .. LoBits
        PROVE  x[i] = y[i]
    <3>1. CASE i > LoBits - k0
      <4> DEFINE j == i - (LoBits - k0)
      <4>1. j \in 1 .. k0 /\ T - LoBits + i = T - k0 + j
        BY <1>4, <2>0, <3>1
      <4>2. x[i] = Shown(addr)[T - k0 + j] /\ y[i] = b[j]
        BY <1>8, <3>1, <4>1
      <4> HIDE DEF j
      <4> QED BY <1>5, <2>2, <4>1, <4>2
    <3>2. CASE ~(i > LoBits - k0)
      BY <1>8, <3>2
    <3> QED BY <3>1, <3>2
  <2> QED BY <1>7, <2>1, <2>2
<1>10. k0 # 0
  BY <1>1
<1> QED BY <1>1, <1>5, <1>9, <1>10 DEF x, y, lo
-----------------------------------------------------------------------------
(***************************************************************************)
(* FrontEnd: the matchers                                                  *)
(***************************************************************************)

\* What the device asks of an address for one target.
DeviceAsks(w, addr) == /\ KeepHigh(HiWord(addr), w.pkeep) = w.pval
                       /\ w.skeep = 0 \/ KeepLow(LoWord(addr), w.skeep) = w.sval

\* The words of a target that fits the device ask for the target.
LEMMA DeviceWordsSpec ==
    ASSUME NEW t \in Target, Valid(t),
           Len(t.prefix) <= GpuMaxPrefix, Len(t.suffix) <= GpuMaxSuffix,
           NEW addr \in AddressBits
    PROVE  DeviceAsks(DeviceWords(t), addr) <=> MatchesDisplay(t, Display(addr))
<1> DEFINE p == t.prefix
           s == t.suffix
           b == SubSeq(Bits(s), 1, CharBits * Len(s) - PadBits)
<1>1. /\ p \in Seq(Alphabet) /\ s \in Seq(Alphabet)
      /\ Len(p) <= DisplayLen /\ Len(s) <= DisplayLen
      /\ s # <<>> => Last(s) \in LastChars
  <2>1. p \in Seq(Alphabet) /\ s \in Seq(Alphabet)
    BY DEF Target
  <2>2. /\ Len(p) + Len(s) <= DisplayLen
        /\ s # <<>> => Last(s) \in LastChars
    BY DEF Valid
  <2>3. Len(p) \in Nat /\ Len(s) \in Nat /\ DisplayLen \in Nat
    BY <2>1, Widths
  <2> HIDE DEF p, s
  <2> QED BY <2>1, <2>2, <2>3
<1>2. DeviceWords(t) = [pkeep |-> Len(Bits(p)), pval |-> AtHigh(Bits(p), HiBits),
                        skeep |-> Len(b), sval |-> AtLow(b, LoBits)]
  BY DEF DeviceWords
<1>3. DeviceAsks(DeviceWords(t), addr)
         <=> /\ KeepHigh(HiWord(addr), Len(Bits(p))) = AtHigh(Bits(p), HiBits)
             /\ Len(b) = 0 \/ KeepLow(LoWord(addr), Len(b)) = AtLow(b, LoBits)
  <2> HIDE DEF p, b
  <2> QED BY <1>2 DEF DeviceAsks
<1>4. MatchesDisplay(t, Display(addr))
         <=> IsPrefix(p, Display(addr)) /\ IsSuffix(s, Display(addr))
  BY DEF MatchesDisplay
<1>5. Len(p) <= GpuMaxPrefix /\ Len(s) <= GpuMaxSuffix
  OBVIOUS
<1> HIDE DEF p, s
<1>6. KeepHigh(HiWord(addr), Len(Bits(p))) = AtHigh(Bits(p), HiBits)
         <=> IsPrefix(p, Display(addr))
  BY <1>1, <1>5, DevicePrefix
<1>7. CASE s = <<>>
  <2>1. IsSuffix(s, Display(addr))
    <3>1. Display(addr) \in Seq(Alphabet)
      BY DisplaySpec
    <3> QED BY <1>7, <3>1, EmptyAffix
  <2>2. Len(b) = 0
    <3>1. Len(s) = 0 /\ CharBits \in Nat /\ PadBits \in Nat
      BY <1>7, Widths
    <3>2. CharBits * Len(s) - PadBits <= 0 /\ CharBits * Len(s) - PadBits \in Int
      BY <3>1
    <3> DEFINE k == CharBits * Len(s) - PadBits
    <3>3. b = SubSeq(Bits(s), 1, k) /\ k <= 0 /\ k \in Int
      BY <3>2
    <3> HIDE DEF b, k
    <3>4. SubSeq(Bits(s), 1, k) = <<>>
      BY <3>3
    <3> QED BY <3>3, <3>4
  <2> HIDE DEF b
  <2> QED BY <1>3, <1>4, <1>6, <2>1, <2>2
<1>8. CASE s # <<>>
  <2>1. /\ Len(b) # 0
        /\ KeepLow(LoWord(addr), Len(b)) = AtLow(b, LoBits) <=> IsSuffix(s, Display(addr))
    <3>1. b = SubSeq(Bits(s), 1, CharBits * Len(s) - PadBits)
      OBVIOUS
    <3> HIDE DEF b
    <3> QED BY <1>1, <1>5, <1>8, <3>1, DeviceSuffix
  <2> HIDE DEF b
  <2> QED BY <1>3, <1>4, <1>6, <2>1
<1> QED BY <1>7, <1>8

\* The longest prefix of a list of valid targets.
LEMMA MaxPrefixSpec ==
    ASSUME NEW l \in Seq(Target), l # <<>>, \A t \in ToSet(l) : Valid(t)
    PROVE  /\ MaxPrefix(l) \in Nat
           /\ \A t \in ToSet(l) : Len(t.prefix) \in Nat /\ Len(t.prefix) <= MaxPrefix(l)
<1> DEFINE P == {Len(t.prefix) : t \in ToSet(l)}
           D == {DisplayLen - n : n \in P}
<1>1. DisplayLen \in Nat
  BY Widths
<1>2. ASSUME NEW t \in ToSet(l) PROVE Len(t.prefix) \in Nat /\ Len(t.prefix) <= DisplayLen
  <2>1. t \in Target
    BY DEF ToSet
  <2>2. t.prefix \in Seq(Alphabet) /\ t.suffix \in Seq(Alphabet)
    BY <2>1 DEF Target
  <2>3. Len(t.prefix) + Len(t.suffix) <= DisplayLen
    BY DEF Valid
  <2>4. Len(t.prefix) \in Nat /\ Len(t.suffix) \in Nat
    BY <2>2
  <2> DEFINE n == Len(t.prefix)
             m == Len(t.suffix)
  <2> HIDE DEF n, m
  <2>5. n \in Nat /\ m \in Nat /\ n + m <= DisplayLen
    BY <2>3, <2>4 DEF n, m
  <2>6. n <= DisplayLen
    BY <1>1, <2>5
  <2> QED BY <2>5, <2>6 DEF n
<1>3. l[1] \in ToSet(l)
  BY DEF ToSet
<1>4. P # {} /\ P \in SUBSET Nat /\ \A n \in P : n <= DisplayLen
  BY <1>2, <1>3
<1> HIDE DEF P
<1>5. D # {} /\ D \in SUBSET Nat
  <2>1. \A n \in P : DisplayLen - n \in Nat
    BY <1>1, <1>4
  <2> QED BY <1>4, <2>1
<1>6. PICK d \in D : \A e \in D : d <= e
  <2> HIDE DEF D
  <2> QED BY <1>5, LeastElement
<1>7. PICK n \in P : d = DisplayLen - n
  BY <1>6
<1>8. \A m \in P : m <= n
  <2>1. \A m \in P : DisplayLen - n <= DisplayLen - m
    BY <1>6, <1>7
  <2> QED BY <1>1, <1>4, <2>1
<1>9. \E m \in P : \A t \in ToSet(l) : Len(t.prefix) <= m
  BY <1>8 DEF P
<1>10. MaxPrefix(l) = CHOOSE m \in P : \A t \in ToSet(l) : Len(t.prefix) <= m
  BY DEF MaxPrefix, P
<1>11. MaxPrefix(l) \in P /\ \A t \in ToSet(l) : Len(t.prefix) <= MaxPrefix(l)
  BY <1>9, <1>10
<1> QED BY <1>2, <1>4, <1>11

\* The bytes of the hot path are bytes of addr32, and determine the prefixes
\* that addr32 alone determines.
LEMMA HeadBytesSpec ==
    ASSUME NEW l \in Seq(Target), l # <<>>, \A t \in ToSet(l) : Valid(t)
    PROVE  /\ HeadBytes(l) \in Nat
           /\ HeadBytes(l) * ByteBits <= AddrBits
           /\ \A t \in ToSet(l) : Len(t.prefix) <= AddrOnlyChars =>
                 Len(t.prefix) * CharBits <= HeadBytes(l) * ByteBits
<1> DEFINE m == IF MaxPrefix(l) < AddrOnlyChars THEN MaxPrefix(l) ELSE AddrOnlyChars
           x == m * CharBits
           h == CeilDiv(x, ByteBits)
<1>1. /\ CharBits \in Nat \ {0} /\ ByteBits \in Nat \ {0} /\ AddrBits \in Nat
      /\ AddrBytes \in Nat /\ AddrBits = AddrBytes * ByteBits
  BY Widths, PatternAssumption DEF AddrBits
<1>2. AddrOnlyChars \in Nat /\ AddrOnlyChars * CharBits <= AddrBits
  <2> DEFINE q == AddrBits \div CharBits
  <2>1. q \in Nat /\ AddrBits % CharBits \in 0 .. CharBits - 1
        /\ AddrBits = CharBits * q + (AddrBits % CharBits)
    BY <1>1, DivMod
  <2> HIDE DEF q
  <2>2. CharBits * q \in Nat /\ q * CharBits = CharBits * q
    BY <1>1, <2>1
  <2>3. q * CharBits <= AddrBits
    BY <1>1, <2>1, <2>2
  <2> QED BY <2>1, <2>3 DEF q, AddrOnlyChars
<1>3. /\ m \in Nat /\ m <= AddrOnlyChars
      /\ \A n \in Nat : n <= MaxPrefix(l) /\ n <= AddrOnlyChars => n <= m
  BY <1>2, MaxPrefixSpec
<1> HIDE DEF m
<1>4. /\ x \in Nat /\ x <= AddrBits
      /\ \A n \in Nat : n <= m => n * CharBits <= x
  <2>1. \A a, b \in Nat : a <= b => a * CharBits <= b * CharBits
    BY <1>1
  <2>2. x \in Nat /\ AddrOnlyChars * CharBits \in Nat
    BY <1>1, <1>2, <1>3
  <2>3. x <= AddrOnlyChars * CharBits
    BY <1>2, <1>3, <2>1
  <2> QED BY <1>1, <1>2, <1>3, <2>1, <2>2, <2>3
<1> HIDE DEF x
<1>5. h \in Nat /\ x <= h * ByteBits /\ h * ByteBits < x + ByteBits
  BY <1>1, <1>4, CeilDivBound
<1>6. HeadBytes(l) = h
  BY DEF HeadBytes, h, x, m
<1> HIDE DEF h
<1>7. h <= AddrBytes
  <2> SUFFICES ASSUME AddrBytes + 1 <= h PROVE FALSE
    BY <1>1, <1>5
  <2>1. (AddrBytes + 1) * ByteBits <= h * ByteBits
    BY <1>1, <1>5
  <2>2. (AddrBytes + 1) * ByteBits = AddrBytes * ByteBits + ByteBits
    BY <1>1
  <2>3. h * ByteBits \in Nat
    BY <1>1, <1>5
  <2> QED BY <1>1, <1>4, <1>5, <2>1, <2>2, <2>3
<1>8. h * ByteBits <= AddrBits
  BY <1>1, <1>5, <1>7
<1>9. ASSUME NEW t \in ToSet(l), Len(t.prefix) <= AddrOnlyChars
      PROVE  Len(t.prefix) * CharBits <= h * ByteBits
  <2>1. Len(t.prefix) \in Nat /\ Len(t.prefix) <= m
    BY <1>3, <1>9, MaxPrefixSpec
  <2>2. Len(t.prefix) * CharBits <= x /\ Len(t.prefix) * CharBits \in Nat
    BY <1>1, <1>4, <2>1
  <2>3. h * ByteBits \in Nat
    BY <1>1, <1>5
  <2> QED BY <1>4, <1>5, <2>2, <2>3
<1> QED BY <1>5, <1>6, <1>8, <1>9

\* What the hot path asks of an address for one target.
HostAsks(l, t, addr) ==
    /\ IsPrefix(t.prefix, IF Len(t.prefix) <= AddrOnlyChars
                          THEN HeadString(l, addr) ELSE Display(addr))
    /\ t.suffix = <<>> \/ IsSuffix(t.suffix, Display(addr))

\* For a valid target of the list, HeadBytes(l) bytes are enough for the prefix.
LEMMA HostAsksSpec ==
    ASSUME NEW l \in Seq(Target), \A t \in ToSet(l) : Valid(t),
           NEW t \in ToSet(l), NEW addr \in AddressBits
    PROVE  HostAsks(l, t, addr) <=> MatchesDisplay(t, Display(addr))
<1> DEFINE p == t.prefix
           d == Display(addr)
           w == HeadString(l, addr)
           h == HeadBytes(l)
<1>1. t \in Target /\ l # <<>>
  BY DEF ToSet
<1>2. p \in Seq(Alphabet) /\ t.suffix \in Seq(Alphabet) /\ Len(p) + Len(t.suffix) <= DisplayLen
  BY <1>1 DEF Target, Valid
<1>3. d \in Seq(Alphabet) /\ Len(d) = DisplayLen /\ DisplayLen \in Nat
  BY DisplaySpec, Widths
<1>4. t.suffix = <<>> => IsSuffix(t.suffix, d)
  <2> HIDE DEF d
  <2> QED BY <1>3, EmptyAffix
<1>5. ASSUME Len(p) <= AddrOnlyChars PROVE IsPrefix(p, w) <=> IsPrefix(p, d)
  <2>1. h \in Nat /\ h * ByteBits <= AddrBits /\ Len(p) * CharBits <= h * ByteBits
    BY <1>1, <1>5, HeadBytesSpec
  <2>2. w = Encode(SubSeq(addr, 1, h * ByteBits))
    BY DEF HeadString
  <2>3. Len(p) \in Nat
    BY <1>2
  <2> HIDE DEF h, w, p, d
  <2>4. ASSUME NEW i \in 1 .. Len(p)
        PROVE  w \in Seq(Alphabet) /\ i <= Len(w) /\ i <= DisplayLen /\ w[i] = d[i]
    <3>1. i \in Nat \ {0}
      BY <2>3
    <3>2. i * CharBits <= h * ByteBits
      <4>1. i * CharBits <= Len(p) * CharBits /\ i * CharBits \in Nat /\ Len(p) * CharBits \in Nat
        BY <2>3, Widths
      <4>2. h * ByteBits \in Nat
        BY <2>1, Widths
      <4> QED BY <2>1, <4>1, <4>2
    <3> QED BY <2>1, <2>2, <3>1, <3>2, HeadAgrees DEF d
  <2>5. CASE Len(p) = 0
    <3>1. p = <<>>
      BY <1>2, <2>5 DEF p
    <3>2. w \in Seq(Alphabet)
      <4> DEFINE n == h * ByteBits
      <4>1. n \in 0 .. AddrBits /\ AddrBits \in Nat
        BY <2>1, Widths
      <4>2. addr \in [1 .. AddrBits -> Bit]
        BY DEF AddressBits
      <4>3. w = Encode(SubSeq(addr, 1, n))
        BY <2>2
      <4> DEFINE z == AddrBits
      <4> HIDE DEF n, z
      <4>4. addr \in Seq(Bit) /\ n \in 0 .. Len(addr)
        BY <4>1, <4>2 DEF z
      <4>5. SubSeq(addr, 1, n) \in Seq(Bit)
        BY <4>4, TakeSpec
      <4> QED BY <4>3, <4>5, EncodeSpec
    <3> QED BY <1>3, <3>1, <3>2, EmptyAffix
  <2>6. CASE Len(p) # 0
    <3>1. Len(p) \in 1 .. Len(p)
      BY <2>3, <2>6
    <3>2. w \in Seq(Alphabet) /\ Len(p) <= Len(w) /\ Len(p) <= Len(d)
      BY <1>3, <2>4, <3>1
    <3>3. p \in Seq(Alphabet)
      BY <1>2 DEF p
    <3>4. IsPrefix(p, w) <=> Len(p) <= Len(w) /\ \A i \in 1 .. Len(p) : p[i] = w[i]
      BY <3>2, <3>3, PrefixSpec
    <3>5. IsPrefix(p, d) <=> Len(p) <= Len(d) /\ \A i \in 1 .. Len(p) : p[i] = d[i]
      BY <1>3, <3>3, PrefixSpec
    <3> QED BY <2>4, <3>2, <3>4, <3>5
  <2> QED BY <2>5, <2>6
<1> HIDE DEF d, w
<1> QED BY <1>4, <1>5 DEF HostAsks, MatchesDisplay, d, w

\* The targets that an address can be a hit for.
HitSet(l, A, addr) == {i \in DOMAIN l : A[i] /\ MatchesDisplay(l[i], Display(addr))}

LeastOf(S) == IF S = {} THEN 0 ELSE CHOOSE i \in S : \A j \in S : i <= j

\* All matchers pick the first target of the hit set.
LEMMA MatchersSpec ==
    ASSUME NEW l \in Seq(Target), \A t \in ToSet(l) : Valid(t), NEW A,
           NEW keepFound, NEW addr \in AddressBits
    PROVE  /\ FirstMatchDisplay(l, A, addr) = LeastOf(HitSet(l, A, addr))
           /\ FirstMatchLazy(l, A, addr) = LeastOf(HitSet(l, A, addr))
           /\ TS(l, keepFound)!FirstMatch(A, {i \in DOMAIN l : MatchesDisplay(l[i], Display(addr))})
                 = LeastOf(HitSet(l, A, addr))
           /\ FitsGpu(l) =>
                 (DeviceMatches(DeviceTable(l, A), addr) <=> LeastOf(HitSet(l, A, addr)) # 0)
<1> DEFINE H == HitSet(l, A, addr)
           L == {i \in DOMAIN l : A[i] /\ HostAsks(l, l[i], addr)}
           M == {i \in DOMAIN l : MatchesDisplay(l[i], Display(addr))}
<1>1. \A i \in DOMAIN l : l[i] \in ToSet(l) /\ l[i] \in Target
  BY DEF ToSet
<1>2. FirstMatchDisplay(l, A, addr) = LeastOf(H)
  BY DEF FirstMatchDisplay, FirstIndex, LeastOf, HitSet
<1>3. FirstMatchLazy(l, A, addr) = LeastOf(H)
  <2>1. FirstMatchLazy(l, A, addr) = LeastOf(L)
    BY DEF FirstMatchLazy, FirstIndex, LeastOf, HostAsks
  <2>2. L = H
    BY <1>1, HostAsksSpec DEF HitSet
  <2> QED BY <2>1, <2>2
<1>4. TS(l, keepFound)!FirstMatch(A, M) = LeastOf(H)
  <2>1. {t \in M : A[t]} = H
    BY DEF HitSet
  <2>2. TS(l, keepFound)!FirstMatch(A, M) = LeastOf({t \in M : A[t]})
    BY DEF TS!FirstMatch, TS!Candidates, TS!NoTarget, LeastOf
  <2> QED BY <2>1, <2>2
<1>5. ASSUME FitsGpu(l)
      PROVE  DeviceMatches(DeviceTable(l, A), addr) <=> LeastOf(H) # 0
  <2>1. DeviceMatches(DeviceTable(l, A), addr)
           <=> \E i \in DOMAIN l : A[i] /\ DeviceAsks(DeviceWords(l[i]), addr)
    BY DEF DeviceMatches, DeviceTable, DeviceAsks
  <2>2. \A i \in DOMAIN l : DeviceAsks(DeviceWords(l[i]), addr)
                              <=> MatchesDisplay(l[i], Display(addr))
    BY <1>1, <1>5, DeviceWordsSpec DEF FitsGpu
  <2>3. DeviceMatches(DeviceTable(l, A), addr) <=> H # {}
    BY <2>1, <2>2 DEF HitSet
  <2>4. H # {} => LeastOf(H) # 0
    <3> SUFFICES ASSUME H # {} PROVE LeastOf(H) # 0
      OBVIOUS
    <3>1. H \in SUBSET Nat /\ 0 \notin H
      BY DEF HitSet
    <3> HIDE DEF H
    <3>2. \E i \in H : \A j \in H : i <= j
      BY <3>1, LeastElement
    <3>3. LeastOf(H) \in H
      BY <3>2 DEF LeastOf
    <3> QED BY <3>1, <3>3
  <2>5. H = {} => LeastOf(H) = 0
    BY DEF LeastOf
  <2> QED BY <2>3, <2>4, <2>5
<1> QED BY <1>2, <1>3, <1>4, <1>5
-----------------------------------------------------------------------------
(***************************************************************************)
(* FrontEnd: the commands                                                  *)
(***************************************************************************)

\* A running search has the list of its options, which nothing turned down, and
\* derive has printed what it was called for, or has a reason not to.
CommandInv ==
    /\ call \in Calls
    /\ CommandTypeOK
    /\ outcome \in {"searching", "done"} =>
          call.name \in {"search", "gpu"} /\ list = Parse(call) /\ ~SearchRefused(call)
    /\ outcome = "derived" => shown = Derived(call) /\ ~DeriveRefused(call)
    /\ outcome = "refused" /\ call.name = "derive" => DeriveRefused(call)

\* The options of a search are lists of sequences of symbols.
LEMMA CallOptions ==
    ASSUME NEW c \in Calls, c.name \in {"search", "gpu"}
    PROVE  Options(c) /\ c.count \in {Unset} \cup Nat
<1>1. c.name # "derive"
  OBVIOUS
<1> QED BY <1>1, CallsAssumption DEF Options

\* The invariant holds when a command is typed.
LEMMA CommandInitInv == CommandInit => CommandInv
<1> SUFFICES ASSUME CommandInit PROVE CommandInv
  OBVIOUS
<1>1. list = <<>> /\ active = <<>> /\ left = 0 /\ outcome = "typed" /\ shown = Nothing
  BY DEF CommandInit
<1>2. list \in Seq(Target) /\ Len(list) = 0 /\ DOMAIN list = {} /\ active \in [DOMAIN list -> BOOLEAN]
  BY <1>1
<1>3. Cardinality(ToSet(list)) = 0
  <2>1. ToSet(list) = {}
    BY <1>2 DEF ToSet
  <2> QED BY <2>1, FS_EmptySet
<1>4. "addr" \notin DOMAIN shown
  BY <1>1 DEF Nothing
<1>5. MaxTargets \in Nat
  BY PatternAssumption
<1>6. CommandTypeOK
  BY <1>1, <1>2, <1>3, <1>4, <1>5 DEF CommandTypeOK
<1> QED BY <1>1, <1>6 DEF CommandInv, CommandInit

\* derive prints what it was called for, or nothing.
LEMMA DeriveStep ==
    ASSUME CommandInv, Derive
    PROVE  CommandInv'
<1>1. /\ outcome = "typed" /\ call.name = "derive"
      /\ UNCHANGED <<call, list, active, left>>
  BY DEF Derive
<1>2. CASE DeriveRefused(call)
  <2>1. outcome' = "refused" /\ shown' = shown
    BY <1>2 DEF Derive
  <2>2. CommandTypeOK'
    BY <1>1, <2>1 DEF CommandInv, CommandTypeOK
  <2>3. DeriveRefused(call)'
    BY <1>1, <1>2 DEF DeriveRefused, DeriveEntropy
  <2> QED BY <1>1, <2>1, <2>2, <2>3 DEF CommandInv
<1>3. CASE ~DeriveRefused(call)
  <2>1. outcome' = "derived" /\ shown' = Derived(call)
    BY <1>3 DEF Derive
  <2>2. "addr" \notin DOMAIN (shown')
    BY <2>1 DEF Derived
  <2>3. CommandTypeOK'
    BY <1>1, <2>1, <2>2 DEF CommandInv, CommandTypeOK
  <2>4. ~DeriveRefused(call)' /\ (shown = Derived(call))'
    BY <1>1, <1>3, <2>1 DEF DeriveRefused, DeriveEntropy, Derived
  <2> QED BY <1>1, <2>1, <2>3, <2>4 DEF CommandInv
<1> QED BY <1>2, <1>3

\* A search that starts has the list of its options.
LEMMA StartStep ==
    ASSUME CommandInv, StartSearch
    PROVE  CommandInv'
<1>1. /\ outcome = "typed" /\ call.name \in {"search", "gpu"} /\ call \in Calls
      /\ call' = call /\ shown' = shown
  BY DEF StartSearch, CommandInv
<1>2. CASE SearchRefused(call)
  <2>1. outcome' = "refused" /\ UNCHANGED <<list, active, left>>
    BY <1>2 DEF StartSearch
  <2>2. CommandTypeOK'
    BY <1>1, <2>1 DEF CommandInv, CommandTypeOK
  <2> QED BY <1>1, <2>1, <2>2 DEF CommandInv
<1>3. CASE ~SearchRefused(call)
  <2> DEFINE l == Parse(call)
  <2>1. /\ outcome' = "searching" /\ list' = l /\ active' = [i \in DOMAIN l |-> TRUE]
        /\ left' = IF call.count # Unset THEN call.count
                   ELSE TS(l, call.keepFound)!DefaultCount
    BY <1>3 DEF StartSearch
  <2>2. l # <<>> /\ l # Refused /\ call.count # 0
    BY <1>3 DEF SearchRefused, Refused
  <2>3. Options(call) /\ call.count \in {Unset} \cup Nat
    BY <1>1, CallOptions
  <2>4. /\ l \in Seq(Target) /\ Len(l) <= MaxTargets
        /\ Cardinality(ToSet(l)) = Len(l)
    BY <2>2, <2>3, ParseSpec
  <2>5. ~SearchRefused(call)'
    BY <1>1, <1>3 DEF SearchRefused, SaltOptions, ExtraRefused
  <2> HIDE DEF l
  <2>6. left' \in Nat /\ left' > 0
    <3>1. TS(l, call.keepFound)!DefaultCount \in {1, Len(l)}
      BY DEF TS!DefaultCount
    <3>2. Len(l) \in Nat \ {0}
      BY <2>2, <2>4
    <3> QED BY <2>1, <2>2, <2>3, <3>1, <3>2
  <2>7. CommandTypeOK'
    BY <1>1, <2>1, <2>4, <2>6 DEF CommandInv, CommandTypeOK
  <2> QED BY <1>1, <2>1, <2>5, <2>7 DEF CommandInv, l
<1> QED BY <1>2, <1>3

\* A hit retires at most one target of the list.
LEMMA HitStep ==
    ASSUME CommandInv, NEW addr \in Addresses, Hit(addr)
    PROVE  CommandInv'
<1>1. /\ outcome = "searching" /\ call' = call /\ list' = list
      /\ left' = left - 1
      /\ shown' = [entropy |-> Unset, addr |-> addr]
      /\ outcome' \in {"done", "searching"}
      /\ outcome' = "searching" => left' # 0
      /\ \E i : active' = TS(list, call.keepFound)!AfterClaim(active, i)
  BY DEF Hit
<1>2. active' \in [DOMAIN list -> BOOLEAN]
  <2>1. active \in [DOMAIN list -> BOOLEAN]
    BY DEF CommandInv, CommandTypeOK
  <2>2. PICK i : active' = TS(list, call.keepFound)!AfterClaim(active, i)
    BY <1>1
  <2>3. active' = active \/ active' = [active EXCEPT ![i] = FALSE]
    BY <2>2 DEF TS!AfterClaim
  <2> QED BY <2>1, <2>3
<1>3. left' \in Nat /\ (outcome' = "searching" => left' > 0)
  BY <1>1 DEF CommandInv, CommandTypeOK
<1>4. "addr" \in DOMAIN (shown') => shown'.addr \in Addresses
  BY <1>1
<1>5. CommandTypeOK'
  BY <1>1, <1>2, <1>3, <1>4 DEF CommandInv, CommandTypeOK
<1>6. ~SearchRefused(call)'
  BY <1>1 DEF CommandInv, SearchRefused, SaltOptions, ExtraRefused
<1> QED BY <1>1, <1>5, <1>6 DEF CommandInv

\* A step that changes nothing keeps the invariant.
LEMMA CommandStutter ==
    ASSUME CommandInv, UNCHANGED commandVars
    PROVE  CommandInv'
<1>1. CommandTypeOK'
  BY DEF CommandInv, CommandTypeOK, commandVars
<1>2. call' = call /\ outcome' = outcome /\ shown' = shown /\ list' = list
  BY DEF commandVars
<1>3. SearchRefused(call)' = SearchRefused(call)
  BY <1>2 DEF SearchRefused, SaltOptions, ExtraRefused
<1>4. DeriveRefused(call)' = DeriveRefused(call) /\ Derived(call)' = Derived(call)
  BY <1>2 DEF DeriveRefused, DeriveEntropy, Derived
<1> QED BY <1>1, <1>2, <1>3, <1>4 DEF CommandInv

\* The invariant of the commands always holds.
LEMMA CommandInvAlways == CommandSpec => []CommandInv
<1>1. CommandInit => CommandInv
  BY CommandInitInv
<1>2. CommandInv /\ [CommandNext]_commandVars => CommandInv'
  <2> SUFFICES ASSUME CommandInv, [CommandNext]_commandVars PROVE CommandInv'
    OBVIOUS
  <2>1. CASE Derive
    BY <2>1, DeriveStep
  <2>2. CASE StartSearch
    BY <2>2, StartStep
  <2>3. CASE \E addr \in Addresses : Hit(addr)
    BY <2>3, HitStep
  <2>4. CASE Idle
    BY <2>4, CommandStutter DEF Idle
  <2>5. CASE UNCHANGED commandVars
    BY <2>5, CommandStutter
  <2> QED BY <2>1, <2>2, <2>3, <2>4, <2>5 DEF CommandNext
<1> QED BY <1>1, <1>2, PTL DEF CommandSpec
-----------------------------------------------------------------------------
\* The target list of a search (TargetSet::parse, cmd_search and cmd_gpu) is
\* never too long for the device and has no target twice, one flag goes with
\* each target, and a search that has shown its last hit is over.
THEOREM CommandTypeCorrect == CommandSpec => []CommandTypeOK
<1>1. CommandInv => CommandTypeOK
  BY DEF CommandInv
<1> QED BY <1>1, CommandInvAlways, PTL

\* For every list that the options can give, every state of its flags and every
\* address, the host's two matchers (first_match_lazy and the display string),
\* the masks of the device (device_words) and first_match find the same target,
\* for every width of the characters, the address and the words.
THEOREM MatchersAlwaysAgree == CommandSpec => []MatchersAgree
<1>1. CommandInv => MatchersAgree
  <2> SUFFICES ASSUME CommandInv, outcome = "searching", NEW addr \in Addresses
               PROVE  LET matched == {i \in DOMAIN list : MatchesDisplay(list[i], Display(addr))}
                          first == FirstMatchDisplay(list, active, addr)
                      IN /\ FirstMatchLazy(list, active, addr) = first
                         /\ TS(list, call.keepFound)!FirstMatch(active, matched) = first
                         /\ call.name = "gpu" =>
                              (DeviceMatches(DeviceTable(list, active), addr)
                                  <=> first # TS(list, call.keepFound)!NoTarget)
    BY DEF MatchersAgree
  <2>1. /\ call \in Calls /\ call.name \in {"search", "gpu"}
        /\ list = Parse(call) /\ ~SearchRefused(call)
    BY DEF CommandInv
  <2>2. Options(call) /\ Parse(call) # Refused
    BY <2>1, CallOptions DEF SearchRefused
  <2>3. list \in Seq(Target) /\ \A t \in ToSet(list) : Valid(t)
    BY <2>1, <2>2, ParseSpec
  <2>4. call.name = "gpu" => FitsGpu(list)
    BY <2>1 DEF SearchRefused
  <2>5. addr \in AddressBits
    BY CallsAssumption
  <2>6. TS(list, call.keepFound)!NoTarget = 0
    BY DEF TS!NoTarget
  <2> QED BY <2>3, <2>4, <2>5, <2>6, MatchersSpec
<1> QED BY <1>1, CommandInvAlways, PTL

\* The target list of every search matches the addresses that its options ask
\* for and no other (TargetSet::parse, split_pattern, dedup): neither the
\* product of prefixes and suffixes nor dropping repetitions loses or adds one.
THEOREM ListIsOptions == CommandSpec => []ListMeansOptions
<1>1. CommandInv => ListMeansOptions
  <2> SUFFICES ASSUME CommandInv, outcome = "searching", NEW addr \in Addresses
               PROVE  Asked(call, Display(addr))
                         <=> \E t \in ToSet(list) : MatchesDisplay(t, Display(addr))
    BY DEF ListMeansOptions
  <2>1. /\ call \in Calls /\ call.name \in {"search", "gpu"}
        /\ list = Parse(call) /\ ~SearchRefused(call)
    BY DEF CommandInv
  <2>2. Options(call) /\ Parse(call) # Refused
    BY <2>1, CallOptions DEF SearchRefused
  <2>3. Display(addr) \in Seq(Alphabet)
    BY CallsAssumption, DisplaySpec
  <2> QED BY <2>1, <2>2, <2>3, AskedSpec
<1> QED BY <1>1, CommandInvAlways, PTL
-----------------------------------------------------------------------------
(***************************************************************************)
(* FrontEnd: the mnemonic codec                                            *)
(***************************************************************************)

Buffers == [1 .. BufferWidth -> Bit]

Accs(width) == [out : Seq(Group(width)), buffer : Buffers, bits : Int]

\* The two widths fit the buffer.
LEMMA CodecWidths ==
    /\ ByteWidth \in Nat \ {0} /\ WordWidth \in Nat \ {0}
    /\ BufferWidth \in Nat \ {0} /\ KeyBytes \in Nat \ {0}
    /\ ByteWidth < WordWidth /\ WordWidth <= 2 * ByteWidth
    /\ ByteWidth + WordWidth <= BufferWidth
    /\ Bytes = Group(ByteWidth) /\ Words = Group(WordWidth)
  BY MnemonicAssumption DEF Bytes, Words, Group, Bit

\* What the operators on the buffer keep of the types.
LEMMA EmptiedType == ASSUME NEW w PROVE Emptied \in Accs(w)
  BY CodecWidths DEF Emptied, Accs, Buffers, Bit

\* What loading a value does to the buffer, bit by bit.
LEMMA LoadedType ==
    ASSUME NEW w, NEW acc \in Accs(w), NEW V \in Nat, NEW v \in Group(V)
    PROVE  /\ Loaded(acc, v) \in Accs(w)
           /\ Loaded(acc, v).out = acc.out
           /\ Loaded(acc, v).bits = acc.bits + V
           /\ \A i \in 1 .. BufferWidth :
                 Loaded(acc, v).buffer[i] =
                    IF acc.buffer[i] = 1 \/ (i - acc.bits \in 1 .. V /\ v[i - acc.bits] = 1)
                    THEN 1 ELSE 0
<1> DEFINE b == [i \in 1 .. BufferWidth |->
                    IF acc.buffer[i] = 1 \/ (i - acc.bits \in DOMAIN v /\ v[i - acc.bits] = 1)
                    THEN 1 ELSE 0]
<1>1. Len(v) = V /\ DOMAIN v = 1 .. V
  BY DEF Group
<1>2. b \in Buffers
  BY DEF Buffers, Bit
<1>3. Loaded(acc, v) = [acc EXCEPT !.buffer = b, !.bits = acc.bits + Len(v)]
  BY DEF Loaded
<1>4. /\ Loaded(acc, v) \in Accs(w) /\ Loaded(acc, v).out = acc.out
      /\ Loaded(acc, v).buffer = b /\ Loaded(acc, v).bits = acc.bits + V
  <2> DEFINE one == [acc EXCEPT !.buffer = b]
             n == acc.bits + Len(v)
             two == [one EXCEPT !.bits = n]
  <2>1. Loaded(acc, v) = two
    BY <1>3
  <2>2. n \in Int /\ n = acc.bits + V
    BY <1>1 DEF Accs
  <2> HIDE DEF b, n
  <2>3. one \in Accs(w) /\ one.out = acc.out /\ one.buffer = b
    BY <1>2 DEF Accs
  <2> HIDE DEF one
  <2>4. two \in Accs(w) /\ two.out = one.out /\ two.buffer = one.buffer /\ two.bits = n
    BY <2>2, <2>3 DEF Accs
  <2> QED BY <2>1, <2>2, <2>3, <2>4
<1> QED BY <1>1, <1>4

\* What unloading the lowest bits does to it.
LEMMA UnloadedType ==
    ASSUME NEW w \in 0 .. BufferWidth, NEW acc \in Accs(w)
    PROVE  /\ Unloaded(acc, w) \in Accs(w)
           /\ Low(acc.buffer, w) \in Group(w)
           /\ Unloaded(acc, w).out = Append(acc.out, Low(acc.buffer, w))
           /\ Unloaded(acc, w).bits = acc.bits - w
           /\ \A i \in 1 .. BufferWidth :
                 Unloaded(acc, w).buffer[i] =
                    IF i + w <= BufferWidth THEN acc.buffer[i + w] ELSE 0
<1> DEFINE b == [i \in 1 .. BufferWidth |->
                    IF i + w <= BufferWidth THEN acc.buffer[i + w] ELSE 0]
<1>1. acc.buffer \in [1 .. BufferWidth -> Bit] /\ acc.out \in Seq(Group(w)) /\ acc.bits \in Int
  BY DEF Accs, Buffers
<1>2. b \in Buffers
  BY <1>1, CodecWidths DEF Buffers, Bit
<1>3. Low(acc.buffer, w) \in Group(w)
  BY <1>1, CodecWidths DEF Low, Group
<1>4. Unloaded(acc, w) = [out |-> Append(acc.out, Low(acc.buffer, w)), buffer |-> b,
                          bits |-> acc.bits - w]
  BY DEF Unloaded
<1>5. Append(acc.out, Low(acc.buffer, w)) \in Seq(Group(w)) /\ acc.bits - w \in Int
  BY <1>1, <1>3, CodecWidths
<1>6. /\ Unloaded(acc, w) \in Accs(w)
      /\ Unloaded(acc, w).out = Append(acc.out, Low(acc.buffer, w))
      /\ Unloaded(acc, w).buffer = b /\ Unloaded(acc, w).bits = acc.bits - w
  <2> HIDE DEF b
  <2> QED BY <1>2, <1>4, <1>5 DEF Accs
<1> QED BY <1>3, <1>6

\* acc holds the first `total` bits of f: groups of w of them are out, the
\* others are at the low end of the buffer, below zeros.
Regrouping(acc, f, total, w) ==
    /\ acc \in Accs(w)
    /\ acc.bits \in 0 .. BufferWidth
    /\ Len(acc.out) * w + acc.bits = total
    /\ \A l \in 1 .. Len(acc.out), k \in 1 .. w : acc.out[l][k] = f[(l - 1) * w + k]
    /\ \A k \in 1 .. acc.bits : acc.buffer[k] = f[Len(acc.out) * w + k]
    /\ \A k \in acc.bits + 1 .. BufferWidth : acc.buffer[k] = 0

\* An empty buffer has regrouped nothing.
LEMMA EmptiedSpec ==
    ASSUME NEW w \in Nat, NEW f
    PROVE  Regrouping(Emptied, f, 0, w)
<1>1. Emptied \in Accs(w)
  BY EmptiedType
<1>2. /\ Emptied.out = <<>> /\ Emptied.bits = 0
      /\ Emptied.buffer = [i \in 1 .. BufferWidth |-> 0]
  BY DEF Emptied
<1>3. Len(Emptied.out) = 0 /\ BufferWidth \in Nat
  BY <1>2, CodecWidths
<1>4. 0 * w = 0
  OBVIOUS
<1> QED BY <1>1, <1>2, <1>3, <1>4 DEF Regrouping

\* Loading the next value regroups its bits.
LEMMA LoadedSpec ==
    ASSUME NEW w \in Nat, NEW f, NEW total \in Nat, NEW acc, Regrouping(acc, f, total, w),
           NEW V \in Nat, NEW v \in Group(V), acc.bits + V <= BufferWidth,
           \A k \in 1 .. V : f[total + k] = v[k]
    PROVE  /\ Regrouping(Loaded(acc, v), f, total + V, w)
           /\ Loaded(acc, v).bits = acc.bits + V
<1> DEFINE b == acc.bits
           n == Len(acc.out) * w
           new == Loaded(acc, v)
<1>1. acc \in Accs(w) /\ b \in Nat /\ n + b = total
  BY DEF Regrouping
<1>2. n \in Nat
  <2>1. acc.out \in Seq(Group(w))
    BY <1>1 DEF Accs
  <2>2. Len(acc.out) \in Nat
    BY <2>1
  <2> QED BY <2>2
<1>3. /\ new \in Accs(w) /\ new.out = acc.out /\ new.bits = b + V
      /\ \A i \in 1 .. BufferWidth :
            new.buffer[i] = IF acc.buffer[i] = 1 \/ (i - b \in 1 .. V /\ v[i - b] = 1)
                            THEN 1 ELSE 0
  BY <1>1, LoadedType
<1>4. /\ \A l \in 1 .. Len(acc.out), k \in 1 .. w : acc.out[l][k] = f[(l - 1) * w + k]
      /\ \A k \in 1 .. b : acc.buffer[k] = f[n + k]
      /\ \A k \in b + 1 .. BufferWidth : acc.buffer[k] = 0
  BY DEF Regrouping
<1>5. /\ \A k \in 1 .. BufferWidth : acc.buffer[k] \in {0, 1}
      /\ \A k \in 1 .. V : v[k] \in {0, 1}
      /\ BufferWidth \in Nat /\ b + V <= BufferWidth
  BY <1>1, CodecWidths DEF Accs, Buffers, Bit, Group
<1> HIDE DEF b, n, new
<1>6. ASSUME NEW k \in 1 .. b + V PROVE new.buffer[k] = f[n + k]
  <2>1. CASE k <= b
    <3>1. k \in 1 .. b /\ k \in 1 .. BufferWidth /\ ~(k - b \in 1 .. V)
      BY <1>1, <1>5, <2>1
    <3> QED BY <1>3, <1>4, <1>5, <3>1
  <2>2. CASE ~(k <= b)
    <3>1. /\ k \in b + 1 .. BufferWidth /\ k \in 1 .. BufferWidth /\ k - b \in 1 .. V
          /\ n + k = total + (k - b)
      BY <1>1, <1>2, <1>5, <2>2
    <3>2. f[n + k] = v[k - b]
      BY <3>1
    <3>3. acc.buffer[k] = 0
      BY <1>4, <3>1
    <3>4. new.buffer[k] = IF v[k - b] = 1 THEN 1 ELSE 0
      BY <1>3, <3>1, <3>3
    <3>5. v[k - b] \in {0, 1}
      BY <1>5, <3>1
    <3> QED BY <3>2, <3>4, <3>5
  <2> QED BY <2>1, <2>2
<1>7. ASSUME NEW k \in b + V + 1 .. BufferWidth PROVE new.buffer[k] = 0
  <2>1. k \in b + 1 .. BufferWidth /\ k \in 1 .. BufferWidth /\ ~(k - b \in 1 .. V)
    BY <1>1, <1>5
  <2>2. acc.buffer[k] = 0
    BY <1>4, <2>1
  <2> QED BY <1>3, <2>1, <2>2
<1>8. n + (b + V) = total + V /\ b + V \in 0 .. BufferWidth
  BY <1>1, <1>2, <1>5
<1>9. Regrouping(new, f, total + V, w)
  BY <1>3, <1>4, <1>6, <1>7, <1>8 DEF Regrouping, n
<1> QED BY <1>3, <1>9 DEF new, b

\* Unloading a full group only moves bits from the buffer to the output.
LEMMA UnloadedSpec ==
    ASSUME NEW w \in Nat \ {0}, w <= BufferWidth, NEW f, NEW total \in Nat, NEW acc,
           Regrouping(acc, f, total, w), w <= acc.bits
    PROVE  /\ Regrouping(Unloaded(acc, w), f, total, w)
           /\ Unloaded(acc, w).bits = acc.bits - w
<1> DEFINE b == acc.bits
           o == acc.out
           n == Len(o) * w
           g == Low(acc.buffer, w)
           new == Unloaded(acc, w)
<1>1. /\ acc \in Accs(w) /\ b \in 0 .. BufferWidth /\ n + b = total
      /\ \A l \in 1 .. Len(o), k \in 1 .. w : o[l][k] = f[(l - 1) * w + k]
      /\ \A k \in 1 .. b : acc.buffer[k] = f[n + k]
      /\ \A k \in b + 1 .. BufferWidth : acc.buffer[k] = 0
  BY DEF Regrouping
<1>2. /\ new \in Accs(w) /\ g \in Group(w)
      /\ new.out = Append(o, g) /\ new.bits = b - w
      /\ \A i \in 1 .. BufferWidth :
            new.buffer[i] = IF i + w <= BufferWidth THEN acc.buffer[i + w] ELSE 0
  <2>1. w \in 0 .. BufferWidth
    BY CodecWidths
  <2> QED BY <1>1, <2>1, UnloadedType
<1>3. \A k \in 1 .. w : g[k] = acc.buffer[k]
  BY DEF Low
<1>4. o \in Seq(Group(w)) /\ Len(o) \in Nat /\ n \in Nat /\ BufferWidth \in Nat
  <2>1. o \in Seq(Group(w))
    BY <1>1 DEF Accs
  <2>2. Len(o) \in Nat
    BY <2>1
  <2> QED BY <2>1, <2>2, CodecWidths
<1> HIDE DEF b, o, g, new
<1>5. /\ Len(new.out) = Len(o) + 1
      /\ \A l \in 1 .. Len(o) : new.out[l] = o[l]
      /\ new.out[Len(o) + 1] = g
  BY <1>2, <1>4
<1>6. (Len(o) + 1) * w = n + w
  BY <1>4
<1>7. ASSUME NEW l \in 1 .. Len(o) + 1, NEW k \in 1 .. w
      PROVE  new.out[l][k] = f[(l - 1) * w + k]
  <2>1. CASE l \in 1 .. Len(o)
    BY <1>1, <1>5, <2>1
  <2>2. CASE l = Len(o) + 1
    <3>1. k \in 1 .. b
      BY <1>1 DEF b
    <3>2. new.out[l][k] = f[n + k]
      BY <1>1, <1>3, <1>5, <2>2, <3>1
    <3>3. l - 1 = Len(o)
      BY <1>4, <2>2
    <3> QED BY <3>2, <3>3
  <2> QED BY <1>4, <2>1, <2>2
<1> HIDE DEF n
<1>8. ASSUME NEW k \in 1 .. b - w PROVE new.buffer[k] = f[(n + w) + k]
  <2>1. k + w \in 1 .. b /\ k \in 1 .. BufferWidth /\ k + w <= BufferWidth /\ (n + w) + k = n + (k + w)
    BY <1>1, <1>4
  <2> QED BY <1>1, <1>2, <2>1
<1>9. ASSUME NEW k \in b - w + 1 .. BufferWidth, b - w >= 0 PROVE new.buffer[k] = 0
  <2>1. k \in 1 .. BufferWidth /\ (k + w <= BufferWidth => k + w \in b + 1 .. BufferWidth)
    BY <1>1, <1>4, <1>9
  <2> QED BY <1>1, <1>2, <2>1
<1>10. b - w \in 0 .. BufferWidth /\ (n + w) + (b - w) = total /\ b - w >= 0
  BY <1>1, <1>4 DEF b
<1>11. Regrouping(new, f, total, w)
  BY <1>2, <1>5, <1>6, <1>7, <1>8, <1>9, <1>10 DEF Regrouping
<1> QED BY <1>2, <1>11 DEF new, b

\* When fewer bits than a group are left, flushing puts out all of f, filled
\* up with zeros.
LEMMA FlushedSpec ==
    ASSUME NEW w \in Nat \ {0}, w <= BufferWidth, NEW total \in Nat,
           NEW f, f \in Seq(Bit), Len(f) = total,
           NEW acc, Regrouping(acc, f, total, w), acc.bits < w
    PROVE  /\ Flushed(acc, w) \in Seq(Group(w))
           /\ total <= Len(Flushed(acc, w)) * w
           /\ Len(Flushed(acc, w)) * w < total + w
           /\ \A l \in 1 .. Len(Flushed(acc, w)), k \in 1 .. w :
                 Flushed(acc, w)[l][k] = BitAt(f, (l - 1) * w + k)
<1> DEFINE b == acc.bits
           o == acc.out
           n == Len(o) * w
           g == Low(acc.buffer, w)
<1>1. /\ acc \in Accs(w) /\ b \in 0 .. BufferWidth /\ n + b = total
      /\ \A l \in 1 .. Len(o), k \in 1 .. w : o[l][k] = f[(l - 1) * w + k]
      /\ \A k \in 1 .. b : acc.buffer[k] = f[n + k]
      /\ \A k \in b + 1 .. BufferWidth : acc.buffer[k] = 0
  BY DEF Regrouping
<1>2. g \in Group(w)
  <2>1. w \in 0 .. BufferWidth
    BY CodecWidths
  <2> QED BY <1>1, <2>1, UnloadedType
<1>3. \A k \in 1 .. w : g[k] = acc.buffer[k]
  BY DEF Low
<1>4. o \in Seq(Group(w)) /\ Len(o) \in Nat /\ n \in Nat /\ BufferWidth \in Nat
  <2>1. o \in Seq(Group(w))
    BY <1>1 DEF Accs
  <2>2. Len(o) \in Nat
    BY <2>1
  <2> QED BY <2>1, <2>2, CodecWidths
<1>5. ASSUME NEW l \in 1 .. Len(o), NEW k \in 1 .. w
      PROVE  o[l][k] = BitAt(f, (l - 1) * w + k)
  <2>1. (l - 1) * w + k \in 1 .. Len(o) * w
    <3> DEFINE j == (l - 1) * w + k
    <3>1. Len(o) \in Nat /\ w \in Nat \ {0} /\ j = (l - 1) * w + k
      BY <1>4
    <3> HIDE DEF j
    <3>2. j \in 1 .. Len(o) * w
      BY <3>1, IndexOfPair
    <3> QED BY <3>2 DEF j
  <2> DEFINE j == (l - 1) * w + k
  <2> HIDE DEF j, n
  <2>2. j <= Len(f)
    BY <1>1, <1>4, <2>1 DEF j, n
  <2> QED BY <1>1, <2>2 DEF BitAt, j
<1>6. CASE b = 0
  <2>1. Flushed(acc, w) = o
    BY <1>6 DEF Flushed
  <2>2. n = total
    BY <1>1, <1>4, <1>6
  <2> HIDE DEF o
  <2> QED BY <1>4, <1>5, <2>1, <2>2
<1>7. CASE b # 0
  <2> DEFINE new == Append(o, g)
  <2>1. Flushed(acc, w) = new
    BY <1>7 DEF Flushed
  <2> HIDE DEF o, g
  <2>2. /\ new \in Seq(Group(w)) /\ Len(new) = Len(o) + 1
        /\ \A l \in 1 .. Len(o) : new[l] = o[l]
        /\ new[Len(o) + 1] = g
    BY <1>2, <1>4
  <2>3. (Len(o) + 1) * w = n + w
    BY <1>4
  <2> HIDE DEF new
  <2>4. ASSUME NEW k \in 1 .. w PROVE g[k] = BitAt(f, n + k)
    <3> HIDE DEF n
    <3>1. CASE k <= b
      <4>1. k \in 1 .. b /\ n + k <= Len(f)
        BY <1>1, <1>4, <3>1
      <4> QED BY <1>1, <1>3, <4>1 DEF BitAt
    <3>2. CASE ~(k <= b)
      <4>1. k \in b + 1 .. BufferWidth /\ ~(n + k <= Len(f))
        BY <1>1, <1>4, <3>2
      <4> QED BY <1>1, <1>3, <4>1 DEF BitAt
    <3> QED BY <3>1, <3>2
  <2>5. ASSUME NEW l \in 1 .. Len(o) + 1, NEW k \in 1 .. w
        PROVE  new[l][k] = BitAt(f, (l - 1) * w + k)
    <3>1. CASE l \in 1 .. Len(o)
      BY <1>5, <2>2, <3>1
    <3>2. CASE l = Len(o) + 1
      <4>1. l - 1 = Len(o)
        BY <1>4, <3>2
      <4> QED BY <2>2, <2>4, <3>2, <4>1
    <3>3. Len(o) \in Nat
      BY <1>4
    <3>4. l \in 1 .. Len(o) \/ l = Len(o) + 1
      BY <3>3
    <3> QED BY <3>1, <3>2, <3>4
  <2>6. total <= n + w /\ n + w < total + w
    <3> HIDE DEF n
    <3> QED BY <1>1, <1>4, <1>7 DEF b
  <2> QED BY <2>1, <2>2, <2>3, <2>5, <2>6
<1> QED BY <1>6, <1>7

\* One byte into the buffer, and a word out if it is complete.
PackStep(acc, v) ==
    LET full == Loaded(acc, v)
    IN IF full.bits >= WordWidth THEN Unloaded(full, WordWidth) ELSE full

\* to_uint11_array goes through the bytes one after the other.
LEMMA PackedEquations ==
    ASSUME NEW x \in Seq(Bytes)
    PROVE  /\ Packed(x)[0] = Emptied
           /\ \A n \in 1 .. Len(x) : Packed(x)[n] = PackStep(Packed(x)[n - 1], x[n])
<1> DEFINE N == Len(x)
           A == Accs(WordWidth)
           F == [n \in 1 .. N |-> [acc \in A |-> PackStep(acc, x[n])]]
           Is(f) == f = [n \in 0 .. N |->
                            IF n = 0 THEN Emptied
                            ELSE LET full == Loaded(f[n - 1], x[n])
                                 IN IF full.bits >= WordWidth
                                    THEN Unloaded(full, WordWidth) ELSE full]
<1>1. N \in Nat /\ Emptied \in A /\ \A n \in 1 .. N : x[n] \in Bytes
  BY EmptiedType
<1>2. F \in [1 .. N -> [A -> A]]
  <2>1. ASSUME NEW acc \in A, NEW v \in Bytes PROVE PackStep(acc, v) \in A
    <3>1. Loaded(acc, v) \in A
      BY CodecWidths, LoadedType
    <3>2. \A a \in A : Unloaded(a, WordWidth) \in A
      <4>1. WordWidth \in 0 .. BufferWidth
        BY CodecWidths
      <4> QED BY <4>1, UnloadedType
    <3> HIDE DEF A
    <3> QED BY <3>1, <3>2 DEF PackStep
  <2> HIDE DEF A, N
  <2> QED BY <1>1, <2>1
<1>3. \E f : Iterates(f, A, Emptied, N, F)
  <2>1. N \in Nat
    OBVIOUS
  <2>2. Emptied \in A
    BY <1>1
  <2> HIDE DEF F, N, A
  <2> QED BY <2>1, <2>2, <1>2, RecursionExists
<1>4. PICK f \in [0 .. N -> A] : f[0] = Emptied /\ \A n \in 1 .. N : f[n] = F[n][f[n - 1]]
  <2> HIDE DEF F, N, A
  <2> QED BY <1>3 DEF Iterates
<1>5. ASSUME NEW n \in 1 .. N PROVE f[n] = PackStep(f[n - 1], x[n])
  <2>1. n - 1 \in 0 .. N
    OBVIOUS
  <2>2. f[n - 1] \in A
    BY <2>1
  <2> HIDE DEF A
  <2> QED BY <1>4, <2>2
<1>6. Is(f)
  <2>1. \A n \in 0 .. N : f[n] = IF n = 0 THEN Emptied ELSE PackStep(f[n - 1], x[n])
    <3> HIDE DEF A, F
    <3> QED BY <1>4, <1>5
  <2>2. f = [n \in 0 .. N |-> f[n]]
    <3> HIDE DEF A
    <3> QED OBVIOUS
  <2>3. f = [n \in 0 .. N |-> IF n = 0 THEN Emptied ELSE PackStep(f[n - 1], x[n])]
    BY <2>1, <2>2, Zenon
  <2> QED BY <2>3, Zenon DEF PackStep
<1>7. Is(Packed(x))
  <2>1. Packed(x) = CHOOSE g : Is(g)
    BY DEF Packed
  <2> HIDE DEF Is
  <2> QED BY <1>6, <2>1
<1>8. Packed(x) = [n \in 0 .. N |-> IF n = 0 THEN Emptied
                                ELSE PackStep(Packed(x)[n - 1], x[n])]
  BY <1>7, Zenon DEF PackStep
<1> HIDE DEF N
<1>9. \A n \in 0 .. N : Packed(x)[n] = IF n = 0 THEN Emptied ELSE PackStep(Packed(x)[n - 1], x[n])
  BY <1>8, Zenon
<1> QED BY <1>1, <1>9 DEF N

\* After n bytes their bits are out as words, but for less than a word.
LEMMA PackedSpec ==
    ASSUME NEW x \in Seq(Bytes), NEW n \in 0 .. Len(x)
    PROVE  /\ Regrouping(Packed(x)[n], Flat(x, ByteWidth), n * ByteWidth, WordWidth)
           /\ Packed(x)[n].bits < WordWidth
<1> DEFINE N == Len(x)
           f == Flat(x, ByteWidth)
           acc(m) == Packed(x)[m]
           S == {m \in Nat : m \in 0 .. N => /\ Regrouping(acc(m), f, m * ByteWidth, WordWidth)
                                             /\ acc(m).bits < WordWidth}
<1>1. N \in Nat
  OBVIOUS
<1>2. 0 \in S
  <2>1. acc(0) = Emptied
    BY PackedEquations
  <2>2. Regrouping(Emptied, f, 0, WordWidth)
    BY CodecWidths, EmptiedSpec
  <2>3. Emptied.bits = 0 /\ 0 * ByteWidth = 0 /\ 0 < WordWidth
    BY CodecWidths DEF Emptied
  <2> HIDE DEF acc, f
  <2> QED BY <2>1, <2>2, <2>3
<1>3. ASSUME NEW m \in Nat, m \in S PROVE m + 1 \in S
  <2> SUFFICES ASSUME m + 1 \in 0 .. N
               PROVE  /\ Regrouping(acc(m + 1), f, (m + 1) * ByteWidth, WordWidth)
                      /\ acc(m + 1).bits < WordWidth
    OBVIOUS
  <2> DEFINE a == acc(m)
             v == x[m + 1]
             total == m * ByteWidth
             full == Loaded(a, v)
  <2>1. m \in 0 .. N /\ m + 1 \in 1 .. N /\ (m + 1) - 1 = m /\ v \in Bytes
    OBVIOUS
  <2>2. acc(m + 1) = PackStep(a, v)
    <3> HIDE DEF N
    <3> QED BY <2>1, PackedEquations DEF N
  <2>3. Regrouping(a, f, total, WordWidth) /\ a.bits < WordWidth
    BY <1>3, <2>1
  <2>4. total \in Nat /\ (m + 1) * ByteWidth = total + ByteWidth
    BY CodecWidths
  <2>5. \A k \in 1 .. ByteWidth : f[total + k] = v[k]
    <3>1. \A i \in 1 .. N, k \in 1 .. ByteWidth : f[(i - 1) * ByteWidth + k] = x[i][k]
      <4>1. ByteWidth \in Nat \ {0}
        BY CodecWidths
      <4>2. x \in Seq(Group(ByteWidth))
        BY CodecWidths
      <4>3. \A i \in 1 .. Len(x), k \in 1 .. ByteWidth :
               /\ (i - 1) * ByteWidth + k \in 1 .. ByteWidth * Len(x)
               /\ Flat(x, ByteWidth)[(i - 1) * ByteWidth + k] = x[i][k]
        BY <4>1, <4>2, FlatSpec, Zenon
      <4> QED BY <4>3
    <3>2. \A k \in 1 .. ByteWidth : f[((m + 1) - 1) * ByteWidth + k] = x[m + 1][k]
      <4> HIDE DEF f, N
      <4> QED BY <2>1, <3>1
    <3>3. (m + 1) - 1 = m
      OBVIOUS
    <3> HIDE DEF f
    <3> QED BY <3>2, <3>3
  <2> HIDE DEF acc, f, a, v, total
  <2>6. a.bits \in Nat /\ a.bits + ByteWidth <= BufferWidth
    <3>1. a.bits \in 0 .. BufferWidth
      BY <2>3 DEF Regrouping
    <3> QED BY <2>3, <3>1, CodecWidths
  <2>7. Regrouping(full, f, total + ByteWidth, WordWidth) /\ full.bits = a.bits + ByteWidth
    <3>1. WordWidth \in Nat /\ ByteWidth \in Nat /\ v \in Group(ByteWidth)
      BY <2>1, CodecWidths
    <3> QED BY <2>3, <2>4, <2>5, <2>6, <3>1, LoadedSpec
  <2> HIDE DEF full
  <2>8. total + ByteWidth \in Nat /\ WordWidth \in Nat \ {0} /\ WordWidth <= BufferWidth
    BY <2>4, CodecWidths
  <2>9. CASE full.bits >= WordWidth
    <3>1. acc(m + 1) = Unloaded(full, WordWidth)
      BY <2>2, <2>9 DEF PackStep, full
    <3>2. /\ Regrouping(Unloaded(full, WordWidth), f, total + ByteWidth, WordWidth)
          /\ Unloaded(full, WordWidth).bits = full.bits - WordWidth
      BY <2>7, <2>8, <2>9, UnloadedSpec
    <3>3. full.bits - WordWidth < WordWidth
      BY <2>3, <2>6, <2>7, CodecWidths
    <3> QED BY <2>4, <3>1, <3>2, <3>3
  <2>10. CASE ~(full.bits >= WordWidth)
    <3>1. acc(m + 1) = full
      BY <2>2, <2>10 DEF PackStep, full
    <3>2. full.bits < WordWidth
      BY <2>6, <2>7, <2>10, CodecWidths
    <3> QED BY <2>4, <2>7, <3>1, <3>2
  <2> QED BY <2>9, <2>10
<1>4. Nat \subseteq S
  <2> HIDE DEF S
  <2> QED BY <1>2, <1>3, SetInduction
<1>5. n \in S /\ n \in 0 .. N
  <2>1. n \in Nat /\ n \in 0 .. N
    BY <1>1
  <2> HIDE DEF S
  <2> QED BY <1>4, <2>1
<1>6. Regrouping(acc(n), f, n * ByteWidth, WordWidth) /\ acc(n).bits < WordWidth
  <2> HIDE DEF acc, f
  <2> QED BY <1>5
<1> QED BY <1>6 DEF acc, f

\* The words that a sequence of bytes is regrouped into have its bits.
LEMMA ToUint11Spec ==
    ASSUME NEW x \in Seq(Bytes)
    PROVE  /\ ToUint11(x) \in Seq(Words)
           /\ Len(x) * ByteWidth <= Len(ToUint11(x)) * WordWidth
           /\ Len(ToUint11(x)) * WordWidth < Len(x) * ByteWidth + WordWidth
           /\ \A l \in 1 .. Len(ToUint11(x)), k \in 1 .. WordWidth :
                 ToUint11(x)[l][k] = BitAt(Flat(x, ByteWidth), (l - 1) * WordWidth + k)
<1> DEFINE f == Flat(x, ByteWidth)
           total == Len(x) * ByteWidth
           acc == Packed(x)[Len(x)]
<1>1. Len(x) \in Nat /\ Len(x) \in 0 .. Len(x) /\ total \in Nat
  <2>1. Len(x) \in Nat
    OBVIOUS
  <2> QED BY <2>1, CodecWidths
<1>2. Regrouping(acc, f, total, WordWidth) /\ acc.bits < WordWidth
  BY <1>1, PackedSpec
<1>3. f \in Seq(Bit) /\ Len(f) = total
  <2>1. ByteWidth \in Nat \ {0} /\ x \in Seq(Group(ByteWidth))
    BY CodecWidths
  <2>2. f \in [1 .. ByteWidth * Len(x) -> Bit]
    BY <2>1, FlatSpec
  <2>3. ByteWidth * Len(x) = total
    BY <1>1, <2>1
  <2> HIDE DEF f, total
  <2> QED BY <1>1, <2>2, <2>3
<1>4. WordWidth \in Nat \ {0} /\ WordWidth <= BufferWidth /\ Words = Group(WordWidth)
  BY CodecWidths
<1>5. ToUint11(x) = Flushed(acc, WordWidth)
  BY DEF ToUint11
<1> HIDE DEF f, total, acc
<1>6. /\ Flushed(acc, WordWidth) \in Seq(Group(WordWidth))
      /\ total <= Len(Flushed(acc, WordWidth)) * WordWidth
      /\ Len(Flushed(acc, WordWidth)) * WordWidth < total + WordWidth
      /\ \A l \in 1 .. Len(Flushed(acc, WordWidth)), k \in 1 .. WordWidth :
            Flushed(acc, WordWidth)[l][k] = BitAt(f, (l - 1) * WordWidth + k)
  <2>1. WordWidth \in Nat \ {0}
    BY <1>4
  <2>2. WordWidth <= BufferWidth
    BY <1>4
  <2>3. total \in Nat
    BY <1>1
  <2>4. f \in Seq(Bit)
    BY <1>3
  <2>5. Len(f) = total
    BY <1>3
  <2>6. Regrouping(acc, f, total, WordWidth)
    BY <1>2
  <2>7. acc.bits < WordWidth
    BY <1>2
  <2> QED BY <2>1, <2>2, <2>3, <2>4, <2>5, <2>6, <2>7, FlushedSpec
<1> QED BY <1>4, <1>5, <1>6 DEF f, total

\* One word into the buffer, and out with the bytes that are complete.
UnpackStep(acc, v) ==
    LET once == Unloaded(Loaded(acc, v), ByteWidth)
    IN IF once.bits >= ByteWidth THEN Unloaded(once, ByteWidth) ELSE once

\* to_byte_array goes through the words one after the other.
LEMMA UnpackedEquations ==
    ASSUME NEW x \in Seq(Words)
    PROVE  /\ Unpacked(x)[0] = Emptied
           /\ \A n \in 1 .. Len(x) : Unpacked(x)[n] = UnpackStep(Unpacked(x)[n - 1], x[n])
<1> DEFINE N == Len(x)
           A == Accs(ByteWidth)
           F == [n \in 1 .. N |-> [acc \in A |-> UnpackStep(acc, x[n])]]
           Is(f) == f = [n \in 0 .. N |->
                            IF n = 0 THEN Emptied
                            ELSE LET once == Unloaded(Loaded(f[n - 1], x[n]), ByteWidth)
                                 IN IF once.bits >= ByteWidth
                                    THEN Unloaded(once, ByteWidth) ELSE once]
<1>1. N \in Nat /\ Emptied \in A /\ \A n \in 1 .. N : x[n] \in Words
  BY EmptiedType
<1>2. F \in [1 .. N -> [A -> A]]
  <2>1. ASSUME NEW acc \in A, NEW v \in Words PROVE UnpackStep(acc, v) \in A
    <3>1. Loaded(acc, v) \in A
      BY CodecWidths, LoadedType
    <3>2. \A a \in A : Unloaded(a, ByteWidth) \in A
      <4>1. ByteWidth \in 0 .. BufferWidth
        BY CodecWidths
      <4> QED BY <4>1, UnloadedType
    <3> HIDE DEF A
    <3> QED BY <3>1, <3>2 DEF UnpackStep
  <2> HIDE DEF A, N
  <2> QED BY <1>1, <2>1
<1>3. \E f : Iterates(f, A, Emptied, N, F)
  <2>1. N \in Nat
    OBVIOUS
  <2>2. Emptied \in A
    BY <1>1
  <2> HIDE DEF F, N, A
  <2> QED BY <2>1, <2>2, <1>2, RecursionExists
<1>4. PICK f \in [0 .. N -> A] : f[0] = Emptied /\ \A n \in 1 .. N : f[n] = F[n][f[n - 1]]
  <2> HIDE DEF F, N, A
  <2> QED BY <1>3 DEF Iterates
<1>5. ASSUME NEW n \in 1 .. N PROVE f[n] = UnpackStep(f[n - 1], x[n])
  <2>1. n - 1 \in 0 .. N
    OBVIOUS
  <2>2. f[n - 1] \in A
    BY <2>1
  <2> HIDE DEF A
  <2> QED BY <1>4, <2>2
<1>6. Is(f)
  <2>1. \A n \in 0 .. N : f[n] = IF n = 0 THEN Emptied ELSE UnpackStep(f[n - 1], x[n])
    <3> HIDE DEF A, F
    <3> QED BY <1>4, <1>5
  <2>2. f = [n \in 0 .. N |-> f[n]]
    <3> HIDE DEF A
    <3> QED OBVIOUS
  <2>3. f = [n \in 0 .. N |-> IF n = 0 THEN Emptied ELSE UnpackStep(f[n - 1], x[n])]
    BY <2>1, <2>2, Zenon
  <2> QED BY <2>3, Zenon DEF UnpackStep
<1>7. Is(Unpacked(x))
  <2>1. Unpacked(x) = CHOOSE g : Is(g)
    BY DEF Unpacked
  <2> HIDE DEF Is
  <2> QED BY <1>6, <2>1
<1>8. Unpacked(x) = [n \in 0 .. N |-> IF n = 0 THEN Emptied
                                ELSE UnpackStep(Unpacked(x)[n - 1], x[n])]
  BY <1>7, Zenon DEF UnpackStep
<1> HIDE DEF N
<1>9. \A n \in 0 .. N : Unpacked(x)[n] = IF n = 0 THEN Emptied ELSE UnpackStep(Unpacked(x)[n - 1], x[n])
  BY <1>8, Zenon
<1> QED BY <1>1, <1>9 DEF N

\* After n words their bits are out as bytes, but for less than a byte.
LEMMA UnpackedSpec ==
    ASSUME NEW x \in Seq(Words), NEW n \in 0 .. Len(x)
    PROVE  /\ Regrouping(Unpacked(x)[n], Flat(x, WordWidth), n * WordWidth, ByteWidth)
           /\ Unpacked(x)[n].bits < ByteWidth
<1> DEFINE N == Len(x)
           f == Flat(x, WordWidth)
           acc(m) == Unpacked(x)[m]
           S == {m \in Nat : m \in 0 .. N => /\ Regrouping(acc(m), f, m * WordWidth, ByteWidth)
                                             /\ acc(m).bits < ByteWidth}
<1>1. N \in Nat
  OBVIOUS
<1>2. 0 \in S
  <2>1. acc(0) = Emptied
    BY UnpackedEquations
  <2>2. Regrouping(Emptied, f, 0, ByteWidth)
    BY CodecWidths, EmptiedSpec
  <2>3. Emptied.bits = 0 /\ 0 * WordWidth = 0 /\ 0 < ByteWidth
    BY CodecWidths DEF Emptied
  <2> HIDE DEF acc, f
  <2> QED BY <2>1, <2>2, <2>3
<1>3. ASSUME NEW m \in Nat, m \in S PROVE m + 1 \in S
  <2> SUFFICES ASSUME m + 1 \in 0 .. N
               PROVE  /\ Regrouping(acc(m + 1), f, (m + 1) * WordWidth, ByteWidth)
                      /\ acc(m + 1).bits < ByteWidth
    OBVIOUS
  <2> DEFINE a == acc(m)
             v == x[m + 1]
             total == m * WordWidth
             full == Loaded(a, v)
             once == Unloaded(full, ByteWidth)
  <2>1. m \in 0 .. N /\ m + 1 \in 1 .. N /\ (m + 1) - 1 = m /\ v \in Words
    OBVIOUS
  <2>2. acc(m + 1) = UnpackStep(a, v)
    <3> HIDE DEF N
    <3> QED BY <2>1, UnpackedEquations DEF N
  <2>3. Regrouping(a, f, total, ByteWidth) /\ a.bits < ByteWidth
    BY <1>3, <2>1
  <2>4. total \in Nat /\ (m + 1) * WordWidth = total + WordWidth
    BY CodecWidths
  <2>5. \A k \in 1 .. WordWidth : f[total + k] = v[k]
    <3>1. \A i \in 1 .. N, k \in 1 .. WordWidth : f[(i - 1) * WordWidth + k] = x[i][k]
      <4>1. WordWidth \in Nat \ {0}
        BY CodecWidths
      <4>2. x \in Seq(Group(WordWidth))
        BY CodecWidths
      <4>3. \A i \in 1 .. Len(x), k \in 1 .. WordWidth :
               /\ (i - 1) * WordWidth + k \in 1 .. WordWidth * Len(x)
               /\ Flat(x, WordWidth)[(i - 1) * WordWidth + k] = x[i][k]
        BY <4>1, <4>2, FlatSpec, Zenon
      <4> QED BY <4>3
    <3>2. \A k \in 1 .. WordWidth : f[((m + 1) - 1) * WordWidth + k] = x[m + 1][k]
      <4> HIDE DEF f, N
      <4> QED BY <2>1, <3>1
    <3>3. (m + 1) - 1 = m
      OBVIOUS
    <3> HIDE DEF f
    <3> QED BY <3>2, <3>3
  <2> HIDE DEF acc, f, a, v, total
  <2>6. a.bits \in Nat /\ a.bits + WordWidth <= BufferWidth
    <3>1. a.bits \in 0 .. BufferWidth
      BY <2>3 DEF Regrouping
    <3> QED BY <2>3, <3>1, CodecWidths
  <2>7. Regrouping(full, f, total + WordWidth, ByteWidth) /\ full.bits = a.bits + WordWidth
    <3>1. ByteWidth \in Nat /\ WordWidth \in Nat /\ v \in Group(WordWidth)
      BY <2>1, CodecWidths
    <3> QED BY <2>3, <2>4, <2>5, <2>6, <3>1, LoadedSpec
  <2> HIDE DEF full
  <2>8. total + WordWidth \in Nat /\ ByteWidth \in Nat \ {0} /\ ByteWidth <= BufferWidth
    BY <2>4, CodecWidths
  <2>9. Regrouping(once, f, total + WordWidth, ByteWidth) /\ once.bits = full.bits - ByteWidth
    <3>1. ByteWidth <= full.bits
      BY <2>6, <2>7, CodecWidths
    <3> QED BY <2>7, <2>8, <3>1, UnloadedSpec
  <2>10. UnpackStep(a, v) = IF once.bits >= ByteWidth THEN Unloaded(once, ByteWidth) ELSE once
    BY DEF UnpackStep, full
  <2> HIDE DEF once
  <2>11. CASE once.bits >= ByteWidth
    <3>1. acc(m + 1) = Unloaded(once, ByteWidth)
      BY <2>2, <2>10, <2>11
    <3>2. /\ Regrouping(Unloaded(once, ByteWidth), f, total + WordWidth, ByteWidth)
          /\ Unloaded(once, ByteWidth).bits = once.bits - ByteWidth
      BY <2>8, <2>9, <2>11, UnloadedSpec
    <3>3. once.bits - ByteWidth < ByteWidth
      BY <2>3, <2>6, <2>7, <2>9, CodecWidths
    <3> QED BY <2>4, <3>1, <3>2, <3>3
  <2>12. CASE ~(once.bits >= ByteWidth)
    <3>1. acc(m + 1) = once
      BY <2>2, <2>10, <2>12
    <3>2. once.bits < ByteWidth
      BY <2>6, <2>7, <2>9, <2>12, CodecWidths
    <3> QED BY <2>4, <2>9, <3>1, <3>2
  <2> QED BY <2>11, <2>12
<1>4. Nat \subseteq S
  <2> HIDE DEF S
  <2> QED BY <1>2, <1>3, SetInduction
<1>5. n \in S /\ n \in 0 .. N
  <2>1. n \in Nat /\ n \in 0 .. N
    BY <1>1
  <2> HIDE DEF S
  <2> QED BY <1>4, <2>1
<1>6. Regrouping(acc(n), f, n * WordWidth, ByteWidth) /\ acc(n).bits < ByteWidth
  <2> HIDE DEF acc, f
  <2> QED BY <1>5
<1> QED BY <1>6 DEF acc, f

\* The bytes that a sequence of words is regrouped into have its bits.
LEMMA ToBytesSpec ==
    ASSUME NEW x \in Seq(Words)
    PROVE  /\ ToBytes(x) \in Seq(Bytes)
           /\ Len(x) * WordWidth <= Len(ToBytes(x)) * ByteWidth
           /\ Len(ToBytes(x)) * ByteWidth < Len(x) * WordWidth + ByteWidth
           /\ \A l \in 1 .. Len(ToBytes(x)), k \in 1 .. ByteWidth :
                 ToBytes(x)[l][k] = BitAt(Flat(x, WordWidth), (l - 1) * ByteWidth + k)
<1> DEFINE f == Flat(x, WordWidth)
           total == Len(x) * WordWidth
           acc == Unpacked(x)[Len(x)]
<1>1. Len(x) \in Nat /\ Len(x) \in 0 .. Len(x) /\ total \in Nat
  <2>1. Len(x) \in Nat
    OBVIOUS
  <2> QED BY <2>1, CodecWidths
<1>2. Regrouping(acc, f, total, ByteWidth) /\ acc.bits < ByteWidth
  BY <1>1, UnpackedSpec
<1>3. f \in Seq(Bit) /\ Len(f) = total
  <2>1. WordWidth \in Nat \ {0} /\ x \in Seq(Group(WordWidth))
    BY CodecWidths
  <2>2. f \in [1 .. WordWidth * Len(x) -> Bit]
    BY <2>1, FlatSpec
  <2>3. WordWidth * Len(x) = total
    BY <1>1, <2>1
  <2> HIDE DEF f, total
  <2> QED BY <1>1, <2>2, <2>3
<1>4. ByteWidth \in Nat \ {0} /\ ByteWidth <= BufferWidth /\ Bytes = Group(ByteWidth)
  BY CodecWidths
<1>5. ToBytes(x) = Flushed(acc, ByteWidth)
  BY DEF ToBytes
<1> HIDE DEF f, total, acc
<1>6. /\ Flushed(acc, ByteWidth) \in Seq(Group(ByteWidth))
      /\ total <= Len(Flushed(acc, ByteWidth)) * ByteWidth
      /\ Len(Flushed(acc, ByteWidth)) * ByteWidth < total + ByteWidth
      /\ \A l \in 1 .. Len(Flushed(acc, ByteWidth)), k \in 1 .. ByteWidth :
            Flushed(acc, ByteWidth)[l][k] = BitAt(f, (l - 1) * ByteWidth + k)
  <2>1. ByteWidth \in Nat \ {0}
    BY <1>4
  <2>2. ByteWidth <= BufferWidth
    BY <1>4
  <2>3. total \in Nat
    BY <1>1
  <2>4. f \in Seq(Bit)
    BY <1>3
  <2>5. Len(f) = total
    BY <1>3
  <2>6. Regrouping(acc, f, total, ByteWidth)
    BY <1>2
  <2>7. acc.bits < ByteWidth
    BY <1>2
  <2> QED BY <2>1, <2>2, <2>3, <2>4, <2>5, <2>6, <2>7, FlushedSpec
<1> QED BY <1>4, <1>5, <1>6 DEF f, total

\* The bits of a key and of its words.
KeyBits == KeyBytes * ByteWidth

\* The words of a key hold its bits and those of one byte more.
LEMMA KeyWidths ==
    /\ KeyBits \in Nat \ {0} /\ DataWords \in Nat \ {0}
    /\ DataWords * WordWidth = KeyBits + ByteWidth
    /\ (KeyBytes + 1) * ByteWidth = KeyBits + ByteWidth
<1>1. KeyBytes \in Nat \ {0} /\ ByteWidth \in Nat \ {0} /\ WordWidth \in Nat \ {0}
  BY CodecWidths
<1>2. KeyBits \in Nat \ {0} /\ (KeyBytes + 1) * ByteWidth = KeyBits + ByteWidth
  <2>1. \A m, n \in Nat \ {0} : m * n \in Nat \ {0}
    BY SMT
  <2>2. (KeyBytes + 1) * ByteWidth = KeyBytes * ByteWidth + ByteWidth
    BY <1>1
  <2> QED BY <1>1, <2>1, <2>2 DEF KeyBits
<1>3. DataWords * WordWidth = KeyBits + ByteWidth
  BY <1>2, MnemonicAssumption
<1>4. DataWords \in Nat
  <2> DEFINE x == KeyBits + WordWidth - 1
  <2>1. x \in Nat
    BY <1>1, <1>2
  <2>2. DataWords = x \div WordWidth
    BY DEF DataWords, KeyBits
  <2> HIDE DEF x
  <2> QED BY <1>1, <2>1, <2>2, DivMod
<1>5. DataWords # 0
  <2> SUFFICES ASSUME DataWords = 0 PROVE FALSE
    OBVIOUS
  <2>1. DataWords * WordWidth = 0
    BY <1>1
  <2> QED BY <1>1, <1>2, <1>3, <2>1
<1> QED BY <1>2, <1>3, <1>4, <1>5

\* The words of a key have its bits, then zeros, and are DataWords many.
LEMMA WordsOfKey ==
    ASSUME NEW key \in MnemonicKeys
    PROVE  /\ ToUint11(key) \in Seq(Words) /\ Len(ToUint11(key)) = DataWords
           /\ Flat(key, ByteWidth) \in Seq(Bit) /\ Len(Flat(key, ByteWidth)) = KeyBits
           /\ \A l \in 1 .. DataWords, k \in 1 .. WordWidth :
                 ToUint11(key)[l][k] = BitAt(Flat(key, ByteWidth), (l - 1) * WordWidth + k)
<1> DEFINE w == ToUint11(key)
           f == Flat(key, ByteWidth)
<1>1. key \in Seq(Bytes) /\ Len(key) = KeyBytes
  BY CodecWidths DEF MnemonicKeys
<1>2. /\ w \in Seq(Words)
      /\ Len(key) * ByteWidth <= Len(w) * WordWidth
      /\ Len(w) * WordWidth < Len(key) * ByteWidth + WordWidth
      /\ \A l \in 1 .. Len(w), k \in 1 .. WordWidth :
            w[l][k] = BitAt(f, (l - 1) * WordWidth + k)
  BY <1>1, ToUint11Spec
<1>3. f \in Seq(Bit) /\ Len(f) = KeyBits
  <2>1. ByteWidth \in Nat \ {0}
    BY CodecWidths
  <2>2. key \in Seq(Group(ByteWidth))
    BY <1>1, CodecWidths
  <2>3. f \in [1 .. ByteWidth * Len(key) -> Bit]
    BY <2>1, <2>2, FlatSpec
  <2>4. ByteWidth * Len(key) = KeyBits
    BY <1>1, CodecWidths DEF KeyBits
  <2>5. KeyBits \in Nat
    BY KeyWidths
  <2> HIDE DEF f
  <2> QED BY <2>3, <2>4, <2>5
<1> HIDE DEF w, f
<1>4. Len(w) = DataWords
  <2>1. WordWidth \in Nat \ {0} /\ Len(w) \in Nat /\ DataWords \in Nat /\ KeyBits \in Nat
    BY <1>2, CodecWidths, KeyWidths
  <2>2. KeyBits <= Len(w) * WordWidth /\ Len(w) * WordWidth < KeyBits + WordWidth
    BY <1>1, <1>2 DEF KeyBits
  <2>3. KeyBits <= DataWords * WordWidth /\ DataWords * WordWidth < KeyBits + WordWidth
    BY <2>1, CodecWidths, KeyWidths
  <2> QED BY <2>1, <2>2, <2>3, SameCount
<1> QED BY <1>2, <1>3, <1>4 DEF w, f

\* The bytes of DataWords words have all of their bits, and are one byte more
\* than a key.
LEMMA BytesOfWords ==
    ASSUME NEW w \in Seq(Words), Len(w) = DataWords
    PROVE  /\ ToBytes(w) \in Seq(Bytes) /\ Len(ToBytes(w)) = KeyBytes + 1
           /\ \A l \in 1 .. DataWords, k \in 1 .. WordWidth :
                 Flat(w, WordWidth)[(l - 1) * WordWidth + k] = w[l][k]
           /\ \A j \in 1 .. KeyBits + ByteWidth : \E l \in 1 .. DataWords, k \in 1 .. WordWidth :
                 j = (l - 1) * WordWidth + k
           /\ \A i \in 1 .. KeyBytes + 1, k \in 1 .. ByteWidth :
                 /\ (i - 1) * ByteWidth + k \in 1 .. KeyBits + ByteWidth
                 /\ ToBytes(w)[i][k] = Flat(w, WordWidth)[(i - 1) * ByteWidth + k]
<1> DEFINE b == ToBytes(w)
           f == Flat(w, WordWidth)
<1>1. /\ b \in Seq(Bytes)
      /\ Len(w) * WordWidth <= Len(b) * ByteWidth
      /\ Len(b) * ByteWidth < Len(w) * WordWidth + ByteWidth
      /\ \A l \in 1 .. Len(b), k \in 1 .. ByteWidth :
            b[l][k] = BitAt(f, (l - 1) * ByteWidth + k)
  BY ToBytesSpec
<1>2. /\ f \in [1 .. WordWidth * Len(w) -> Bit]
      /\ \A i \in 1 .. Len(w), k \in 1 .. WordWidth :
            /\ (i - 1) * WordWidth + k \in 1 .. WordWidth * Len(w)
            /\ f[(i - 1) * WordWidth + k] = w[i][k]
      /\ \A j \in 1 .. WordWidth * Len(w) : \E i \in 1 .. Len(w), k \in 1 .. WordWidth :
            j = (i - 1) * WordWidth + k
  <2>1. WordWidth \in Nat \ {0}
    BY CodecWidths
  <2>2. w \in Seq(Group(WordWidth))
    BY CodecWidths
  <2> QED BY <2>1, <2>2, FlatSpec, Zenon
<1>3. WordWidth * Len(w) = KeyBits + ByteWidth
  <2>1. WordWidth * DataWords = DataWords * WordWidth
    BY KeyWidths, CodecWidths
  <2> QED BY <2>1, KeyWidths
<1> HIDE DEF b, f
<1>4. Len(b) = KeyBytes + 1
  <2> DEFINE total == KeyBits + ByteWidth
  <2>1. ByteWidth \in Nat \ {0} /\ Len(b) \in Nat /\ KeyBytes + 1 \in Nat /\ total \in Nat
    BY <1>1, CodecWidths, KeyWidths
  <2>2. total <= Len(b) * ByteWidth /\ Len(b) * ByteWidth < total + ByteWidth
    BY <1>1, KeyWidths
  <2>3. total <= (KeyBytes + 1) * ByteWidth /\ (KeyBytes + 1) * ByteWidth < total + ByteWidth
    BY <2>1, KeyWidths
  <2> HIDE DEF total
  <2> QED BY <2>1, <2>2, <2>3, SameCount
<1>5. Len(f) = KeyBits + ByteWidth
  <2>1. KeyBits + ByteWidth \in Nat
    BY KeyWidths, CodecWidths
  <2> DEFINE n == KeyBits + ByteWidth
  <2>2. f \in [1 .. n -> Bit] /\ n \in Nat
    BY <1>2, <1>3, <2>1
  <2> HIDE DEF n
  <2>3. Len(f) = n
    BY <2>2
  <2> QED BY <2>3 DEF n
<1>6. ASSUME NEW i \in 1 .. KeyBytes + 1, NEW k \in 1 .. ByteWidth
      PROVE  /\ (i - 1) * ByteWidth + k \in 1 .. KeyBits + ByteWidth
             /\ b[i][k] = f[(i - 1) * ByteWidth + k]
  <2> DEFINE j == (i - 1) * ByteWidth + k
  <2>1. j \in 1 .. KeyBits + ByteWidth
    <3>1. KeyBytes + 1 \in Nat /\ ByteWidth \in Nat \ {0} /\ j = (i - 1) * ByteWidth + k
      BY CodecWidths
    <3> HIDE DEF j
    <3>2. j \in 1 .. (KeyBytes + 1) * ByteWidth
      BY <3>1, IndexOfPair
    <3> QED BY <3>2, KeyWidths
  <2>2. b[i][k] = BitAt(f, j)
    BY <1>1, <1>4
  <2> HIDE DEF j
  <2>3. b[i][k] = f[j]
    BY <1>5, <2>1, <2>2 DEF BitAt
  <2> QED BY <2>1, <2>3 DEF j
<1>7. /\ \A l \in 1 .. DataWords, k \in 1 .. WordWidth : f[(l - 1) * WordWidth + k] = w[l][k]
      /\ \A j \in 1 .. KeyBits + ByteWidth : \E l \in 1 .. DataWords, k \in 1 .. WordWidth :
            j = (l - 1) * WordWidth + k
  BY <1>2, <1>3
<1> QED BY <1>1, <1>4, <1>6, <1>7 DEF b, f

\* Two bytes, or two words, with the same bits are the same.
LEMMA SameGroup ==
    ASSUME NEW n, NEW g \in Group(n), NEW h \in Group(n), \A k \in 1 .. n : g[k] = h[k]
    PROVE  g = h
<1>1. g = [k \in 1 .. n |-> g[k]] /\ h = [k \in 1 .. n |-> h[k]]
  BY DEF Group
<1>2. [k \in 1 .. n |-> g[k]] = [k \in 1 .. n |-> h[k]]
  OBVIOUS
<1> QED BY <1>1, <1>2

\* Regrouping the words of a key gives the key back, and a byte of zeros.
LEMMA KeyRoundTrip ==
    ASSUME NEW key \in MnemonicKeys
    PROVE  /\ Len(ToBytes(ToUint11(key))) = KeyBytes + 1
           /\ SubSeq(ToBytes(ToUint11(key)), 1, KeyBytes) = key
           /\ ToBytes(ToUint11(key))[KeyBytes + 1] = ZeroByte
<1> DEFINE w == ToUint11(key)
           b == ToBytes(w)
           f == Flat(key, ByteWidth)
           F == Flat(w, WordWidth)
<1>1. /\ w \in Seq(Words) /\ Len(w) = DataWords
      /\ f \in Seq(Bit) /\ Len(f) = KeyBits
      /\ \A l \in 1 .. DataWords, k \in 1 .. WordWidth :
            w[l][k] = BitAt(f, (l - 1) * WordWidth + k)
  BY WordsOfKey
<1> HIDE DEF w
<1>2. /\ b \in Seq(Bytes) /\ Len(b) = KeyBytes + 1
      /\ \A l \in 1 .. DataWords, k \in 1 .. WordWidth :
            F[(l - 1) * WordWidth + k] = w[l][k]
      /\ \A j \in 1 .. KeyBits + ByteWidth : \E l \in 1 .. DataWords, k \in 1 .. WordWidth :
            j = (l - 1) * WordWidth + k
      /\ \A i \in 1 .. KeyBytes + 1, k \in 1 .. ByteWidth :
            /\ (i - 1) * ByteWidth + k \in 1 .. KeyBits + ByteWidth
            /\ b[i][k] = F[(i - 1) * ByteWidth + k]
  BY <1>1, BytesOfWords
<1>3. key \in [1 .. KeyBytes -> Bytes] /\ key \in Seq(Bytes) /\ Len(key) = KeyBytes
  BY CodecWidths DEF MnemonicKeys
<1>4. \A i \in 1 .. KeyBytes, k \in 1 .. ByteWidth :
         /\ (i - 1) * ByteWidth + k \in 1 .. ByteWidth * Len(key)
         /\ f[(i - 1) * ByteWidth + k] = key[i][k]
  <2>1. ByteWidth \in Nat \ {0}
    BY CodecWidths
  <2>2. key \in Seq(Group(ByteWidth))
    BY <1>3, CodecWidths
  <2>3. \A i \in 1 .. Len(key), k \in 1 .. ByteWidth :
           /\ (i - 1) * ByteWidth + k \in 1 .. ByteWidth * Len(key)
           /\ f[(i - 1) * ByteWidth + k] = key[i][k]
    BY <2>1, <2>2, FlatSpec, Zenon
  <2> QED BY <1>3, <2>3
<1> HIDE DEF b, f, F
<1>5. \A j \in 1 .. KeyBits + ByteWidth : F[j] = BitAt(f, j)
  BY <1>1, <1>2
<1>6. ASSUME NEW i \in 1 .. KeyBytes PROVE b[i] = key[i]
  <2>1. ASSUME NEW k \in 1 .. ByteWidth PROVE b[i][k] = key[i][k]
    <3> DEFINE j == (i - 1) * ByteWidth + k
    <3>1. i \in 1 .. KeyBytes + 1
      BY CodecWidths
    <3>2. j \in 1 .. KeyBits + ByteWidth /\ b[i][k] = F[j]
      BY <1>2, <3>1
    <3>3. j \in 1 .. ByteWidth * Len(key) /\ f[j] = key[i][k]
      BY <1>4
    <3>4. ByteWidth * Len(key) = KeyBits
      BY <1>3, CodecWidths DEF KeyBits
    <3> HIDE DEF j
    <3>5. F[j] = BitAt(f, j)
      BY <1>5, <3>2
    <3>6. j <= Len(f)
      BY <1>1, <3>3, <3>4
    <3> QED BY <3>2, <3>3, <3>5, <3>6 DEF BitAt
  <2>2. b[i] \in Group(ByteWidth) /\ key[i] \in Group(ByteWidth)
    <3>1. i \in 1 .. Len(b)
      BY <1>2, CodecWidths
    <3>2. b[i] \in Bytes
      BY <1>2, <3>1
    <3>3. key[i] \in Bytes
      BY <1>3
    <3> QED BY <3>2, <3>3, CodecWidths
  <2> QED BY <2>1, <2>2, SameGroup
<1>7. b[KeyBytes + 1] = ZeroByte
  <2>1. ASSUME NEW k \in 1 .. ByteWidth PROVE b[KeyBytes + 1][k] = 0
    <3> DEFINE j == ((KeyBytes + 1) - 1) * ByteWidth + k
    <3>1. KeyBytes + 1 \in 1 .. KeyBytes + 1
      BY CodecWidths
    <3>2. j \in 1 .. KeyBits + ByteWidth /\ b[KeyBytes + 1][k] = F[j]
      BY <1>2, <3>1
    <3>3. j = KeyBits + k
      BY CodecWidths DEF KeyBits
    <3> HIDE DEF j
    <3>4. F[j] = BitAt(f, j)
      BY <1>5, <3>2
    <3>5. ~(j <= Len(f))
      BY <1>1, <3>3, KeyWidths
    <3> QED BY <3>2, <3>4, <3>5 DEF BitAt
  <2>2. b[KeyBytes + 1] \in Group(ByteWidth)
    <3>1. KeyBytes + 1 \in 1 .. Len(b)
      BY <1>2, CodecWidths
    <3> QED BY <1>2, <3>1, CodecWidths
  <2>3. ZeroByte \in Group(ByteWidth) /\ \A k \in 1 .. ByteWidth : ZeroByte[k] = 0
    BY DEF ZeroByte, Group, Bit
  <2> QED BY <2>1, <2>2, <2>3, SameGroup
<1>8. SubSeq(b, 1, KeyBytes) = key
  <2>1. KeyBytes \in 0 .. Len(b)
    BY <1>2, CodecWidths
  <2> DEFINE s == SubSeq(b, 1, KeyBytes)
  <2>2. s \in Seq(Bytes) /\ Len(s) = KeyBytes /\ \A i \in 1 .. KeyBytes : s[i] = b[i]
    BY <1>2, <2>1, TakeSpec
  <2> HIDE DEF s
  <2>3. s = key
    BY <1>3, <1>6, <2>2
  <2> QED BY <2>3 DEF s
<1> QED BY <1>2, <1>7, <1>8 DEF b, w

\* Words whose last byte is zero are the words of the key that they give.
LEMMA WordsRoundTrip ==
    ASSUME NEW w \in Seq(Words), Len(w) = DataWords, ToBytes(w)[KeyBytes + 1] = ZeroByte,
           NEW key, key = SubSeq(ToBytes(w), 1, KeyBytes)
    PROVE  key \in MnemonicKeys /\ ToUint11(key) = w
<1> DEFINE b == ToBytes(w)
           f == Flat(key, ByteWidth)
           F == Flat(w, WordWidth)
           u == ToUint11(key)
<1>1. /\ b \in Seq(Bytes) /\ Len(b) = KeyBytes + 1
      /\ \A l \in 1 .. DataWords, k \in 1 .. WordWidth :
            F[(l - 1) * WordWidth + k] = w[l][k]
      /\ \A i \in 1 .. KeyBytes + 1, k \in 1 .. ByteWidth :
            /\ (i - 1) * ByteWidth + k \in 1 .. KeyBits + ByteWidth
            /\ b[i][k] = F[(i - 1) * ByteWidth + k]
  BY BytesOfWords
<1>2. b[KeyBytes + 1] = ZeroByte
  OBVIOUS
<1> HIDE DEF b
<1>3. key \in Seq(Bytes) /\ Len(key) = KeyBytes /\ \A i \in 1 .. KeyBytes : key[i] = b[i]
  <2>1. KeyBytes \in 0 .. Len(b) /\ key = SubSeq(b, 1, KeyBytes)
    BY <1>1, CodecWidths DEF b
  <2> QED BY <1>1, <2>1, TakeSpec
<1>4. key \in MnemonicKeys
  <2>1. key \in [1 .. Len(key) -> Bytes]
    BY <1>3, SequenceIsFunction
  <2> QED BY <1>3, <2>1 DEF MnemonicKeys
<1>5. /\ u \in Seq(Words) /\ Len(u) = DataWords
      /\ f \in Seq(Bit) /\ Len(f) = KeyBits
      /\ \A l \in 1 .. DataWords, k \in 1 .. WordWidth :
            u[l][k] = BitAt(f, (l - 1) * WordWidth + k)
  BY <1>4, WordsOfKey
<1>6. /\ \A i \in 1 .. KeyBytes, k \in 1 .. ByteWidth : f[(i - 1) * ByteWidth + k] = key[i][k]
      /\ \A j \in 1 .. KeyBits : \E i \in 1 .. KeyBytes, k \in 1 .. ByteWidth :
            j = (i - 1) * ByteWidth + k
  <2>1. ByteWidth \in Nat \ {0}
    BY CodecWidths
  <2>2. key \in Seq(Group(ByteWidth))
    BY <1>3, CodecWidths
  <2>3. /\ \A i \in 1 .. Len(key), k \in 1 .. ByteWidth :
              /\ (i - 1) * ByteWidth + k \in 1 .. ByteWidth * Len(key)
              /\ f[(i - 1) * ByteWidth + k] = key[i][k]
        /\ \A j \in 1 .. ByteWidth * Len(key) :
              \E i \in 1 .. Len(key), k \in 1 .. ByteWidth : j = (i - 1) * ByteWidth + k
    BY <2>1, <2>2, FlatSpec, Zenon
  <2>4. ByteWidth * Len(key) = KeyBits
    BY <1>3, CodecWidths DEF KeyBits
  <2> HIDE DEF f
  <2> QED BY <1>3, <2>3, <2>4
<1> HIDE DEF f, F, u
<1>7. ASSUME NEW j \in 1 .. KeyBits + ByteWidth PROVE F[j] = BitAt(f, j)
  <2>1. CASE j <= KeyBits
    <3>1. j \in 1 .. KeyBits
      BY <2>1, KeyWidths
    <3>2. PICK i \in 1 .. KeyBytes, k \in 1 .. ByteWidth : j = (i - 1) * ByteWidth + k
      BY <1>6, <3>1
    <3>3. f[j] = key[i][k] /\ key[i] = b[i]
      BY <1>3, <1>6, <3>2
    <3>4. i \in 1 .. KeyBytes + 1
      BY CodecWidths
    <3>5. b[i][k] = F[j]
      BY <1>1, <3>2, <3>4
    <3> QED BY <1>5, <2>1, <3>3, <3>5 DEF BitAt
  <2>2. CASE ~(j <= KeyBits)
    <3> DEFINE k == j - KeyBits
    <3>1. k \in 1 .. ByteWidth /\ j = KeyBits + k /\ KeyBytes + 1 \in 1 .. KeyBytes + 1
      BY <2>2, KeyWidths, CodecWidths
    <3> HIDE DEF k
    <3>2. ((KeyBytes + 1) - 1) * ByteWidth + k = j
      BY <3>1, CodecWidths DEF KeyBits
    <3>3. b[KeyBytes + 1][k] = F[((KeyBytes + 1) - 1) * ByteWidth + k]
      BY <1>1, <3>1
    <3>4. b[KeyBytes + 1][k] = 0
      BY <1>2, <3>1 DEF ZeroByte
    <3>5. F[j] = 0
      BY <3>2, <3>3, <3>4
    <3> QED BY <1>5, <2>2, <3>5 DEF BitAt
  <2> QED BY <2>1, <2>2
<1>8. ASSUME NEW l \in 1 .. DataWords PROVE u[l] = w[l]
  <2>1. ASSUME NEW k \in 1 .. WordWidth PROVE u[l][k] = w[l][k]
    <3> DEFINE j == (l - 1) * WordWidth + k
    <3>1. j \in 1 .. KeyBits + ByteWidth
      <4>1. DataWords \in Nat /\ WordWidth \in Nat \ {0} /\ j = (l - 1) * WordWidth + k
        BY CodecWidths, KeyWidths
      <4> HIDE DEF j
      <4>2. j \in 1 .. DataWords * WordWidth
        BY <4>1, IndexOfPair
      <4> QED BY <4>2, KeyWidths
    <3>2. u[l][k] = BitAt(f, j) /\ F[j] = w[l][k]
      BY <1>1, <1>5
    <3> HIDE DEF j
    <3> QED BY <1>7, <3>1, <3>2
  <2>2. u[l] \in Group(WordWidth) /\ w[l] \in Group(WordWidth)
    <3>1. l \in 1 .. Len(u) /\ l \in 1 .. Len(w)
      BY <1>5
    <3> QED BY <1>5, <3>1, CodecWidths
  <2> QED BY <2>1, <2>2, SameGroup
<1>9. u = w
  BY <1>5, <1>8
<1> QED BY <1>4, <1>9 DEF u

\* mnemonic_to_key and key_to_mnemonic are the inverse of each other: what is
\* accepted is the mnemonic of the key that it gives, and the mnemonic of a
\* key is accepted and gives that key.
LEMMA MnemonicSpec ==
    ASSUME NEW m \in Seq(Words \cup {NoWord})
    PROVE  /\ MnemonicToKey(m) # BadKey =>
                 /\ MnemonicToKey(m) \in MnemonicKeys
                 /\ KeyToMnemonic(MnemonicToKey(m)) = m
           /\ \A key \in MnemonicKeys : KeyToMnemonic(key) = m => MnemonicToKey(m) = key
<1>1. DataWords \in Nat \ {0} /\ KeyBytes \in Nat \ {0}
  BY KeyWidths, CodecWidths
<1>2. ASSUME MnemonicToKey(m) # BadKey
      PROVE  MnemonicToKey(m) \in MnemonicKeys /\ KeyToMnemonic(MnemonicToKey(m)) = m
  <2> DEFINE w == SubSeq(m, 1, DataWords)
             b == ToBytes(w)
             key == SubSeq(b, 1, KeyBytes)
  <2>1. /\ MnemonicToKey(m) = key
        /\ Len(m) = DataWords + 1 /\ NoWord \notin ToSet(w)
        /\ b[KeyBytes + 1] = ZeroByte
        /\ m[DataWords + 1] = ChecksumWord(key)
    BY <1>2 DEF MnemonicToKey
  <2>2. w \in Seq(Words) /\ Len(w) = DataWords
    <3>1. DataWords \in 0 .. Len(m)
      BY <1>1, <2>1
    <3>2. w \in Seq(Words \cup {NoWord}) /\ Len(w) = DataWords
      BY <3>1, TakeSpec
    <3> HIDE DEF w
    <3>3. \A i \in 1 .. Len(w) : w[i] \in ToSet(w) /\ w[i] \in Words \cup {NoWord}
      BY <3>2 DEF ToSet
    <3>4. \A i \in 1 .. Len(w) : w[i] \in Words
      BY <2>1, <3>3
    <3> QED BY <3>2, <3>4
  <2>3. Append(w, m[DataWords + 1]) = m
    BY <1>1, <2>1, BeginningAndLast
  <2> HIDE DEF w
  <2>4. key \in MnemonicKeys /\ ToUint11(key) = w
    <3>1. b[KeyBytes + 1] = ZeroByte
      BY <2>1
    <3> QED BY <2>2, <3>1, WordsRoundTrip
  <2> HIDE DEF b, key
  <2> QED BY <2>1, <2>3, <2>4 DEF KeyToMnemonic
<1>3. ASSUME NEW key \in MnemonicKeys, KeyToMnemonic(key) = m
      PROVE  MnemonicToKey(m) = key
  <2> DEFINE w == ToUint11(key)
             c == ChecksumWord(key)
             A == Words \cup {c}
  <2>1. w \in Seq(Words) /\ Len(w) = DataWords
    BY WordsOfKey
  <2>2. /\ Len(ToBytes(w)) = KeyBytes + 1
        /\ SubSeq(ToBytes(w), 1, KeyBytes) = key
        /\ ToBytes(w)[KeyBytes + 1] = ZeroByte
    BY KeyRoundTrip
  <2>3. m = Append(w, c)
    BY <1>3 DEF KeyToMnemonic
  <2> HIDE DEF w, c
  <2>4. w \in Seq(A) /\ c \in A
    BY <2>1
  <2> HIDE DEF A
  <2>5. Len(m) = DataWords + 1 /\ m[DataWords + 1] = c
    BY <2>1, <2>3, <2>4, AppendSpec
  <2>6. SubSeq(m, 1, DataWords) = w
    <3>1. SubSeq(Append(w, c), 1, Len(w)) = w
      BY <2>4, LastOfAppend
    <3> QED BY <2>1, <2>3, <3>1
  <2>7. NoWord \notin ToSet(w)
    <3>1. \A i \in DOMAIN w : w[i] \in Words
      BY <2>1
    <3> QED BY <3>1, HashAssumption DEF ToSet
  <2> QED BY <2>2, <2>5, <2>6, <2>7 DEF MnemonicToKey, c
<1> QED BY <1>2, <1>3

\* derive accepts exactly the mnemonics of keys, each for the key that it was
\* made from (mnemonic.rs and cmd_derive): for every width of the words and
\* bytes, length of the key and checksum, the mnemonic that derive prints is
\* the one typed, and no two keys share one.
THEOREM MnemonicsExact == CommandSpec => []MnemonicExact
<1>1. CommandInv => MnemonicExact
  <2> SUFFICES ASSUME CommandInv, call.name = "derive", call.mnemonic # Unset
               PROVE  LET keys == {row.key : row \in {r \in MnemonicTable :
                                                         r.words = call.mnemonic}}
                      IN /\ outcome = "derived" => keys = {shown.entropy}
                         /\ outcome = "refused" =>
                               \/ keys = {}
                               \/ call.scheme = "f1" /\ keys \subseteq KeygenFails
                               \/ call.scheme # "f1" /\ call.salt # Unset
    BY DEF MnemonicExact
  <2> DEFINE m == call.mnemonic
             keys == {row.key : row \in {r \in MnemonicTable : r.words = m}}
             entropy == MnemonicToKey(m)
  <2>1. call \in Calls /\ m \in Seq(Words \cup {NoWord})
    BY CallsAssumption DEF CommandInv
  <2>2. DeriveEntropy(call) = entropy
    BY DEF DeriveEntropy
  <2>3. \A key : key \in keys <=> key \in MnemonicKeys /\ KeyToMnemonic(key) = m
    <3> DEFINE Row(k) == [key |-> k, words |-> KeyToMnemonic(k)]
    <3>1. \A k \in MnemonicKeys : Row(k) \in MnemonicTable
      BY DEF MnemonicTable
    <3>2. \A row \in MnemonicTable : \E k \in MnemonicKeys : row = Row(k)
      BY DEF MnemonicTable
    <3>3. \A k : Row(k).key = k /\ Row(k).words = KeyToMnemonic(k)
      OBVIOUS
    <3>4. \A key : key \in keys <=> \E row \in MnemonicTable : row.words = m /\ row.key = key
      OBVIOUS
    <3> HIDE DEF Row, keys, m
    <3> QED BY <3>1, <3>2, <3>3, <3>4
  <2>4. /\ entropy # BadKey => entropy \in MnemonicKeys /\ KeyToMnemonic(entropy) = m
        /\ \A key \in MnemonicKeys : KeyToMnemonic(key) = m => entropy = key
    BY <2>1, MnemonicSpec
  <2>5. BadKey \notin MnemonicKeys
    <3>1. \A key \in MnemonicKeys : Len(key) = KeyBytes
      BY CodecWidths DEF MnemonicKeys
    <3> QED BY <3>1, CodecWidths DEF BadKey
  <2>6. outcome = "derived" => shown.entropy = entropy /\ entropy # BadKey
    BY <2>2 DEF CommandInv, Derived, DeriveRefused
  <2>7. outcome = "refused" => \/ call.scheme # "f1" /\ call.salt # Unset
                               \/ entropy = BadKey
                               \/ call.scheme = "f1" /\ entropy \in KeygenFails
    BY <2>2 DEF CommandInv, DeriveRefused
  <2> HIDE DEF m, entropy, keys
  <2>8. outcome = "derived" => keys = {shown.entropy}
    BY <2>3, <2>4, <2>6
  <2>9. entropy = BadKey => keys = {}
    BY <2>3, <2>4, <2>5
  <2>10. \A key \in keys : key = entropy
    BY <2>3, <2>4
  <2>11. outcome = "refused" => \/ keys = {}
                                \/ call.scheme = "f1" /\ keys \subseteq KeygenFails
                                \/ call.scheme # "f1" /\ call.salt # Unset
    BY <2>7, <2>9, <2>10
  <2> QED BY <2>8, <2>11 DEF keys, m
<1> QED BY <1>1, CommandInvAlways, PTL
=============================================================================
