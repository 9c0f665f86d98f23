----------------------------- MODULE DeviceChecks -----------------------------
(***************************************************************************)
(* What the host checks of the device (crates/pq-vanity/src/main.rs and    *)
(* classic.rs): the verification of the raw hits of a batch (verify_hits), *)
(* and gpu-selftest, which compares each stage of the device pipeline with *)
(* the CPU.  Both share out their work in chunks to scoped threads, each   *)
(* of which fills its part of the result.                                  *)
(*                                                                         *)
(* In a self-test the device is right but for a set of faults, each in the *)
(* answer of one stage for one entropy.  Entropies stand for the random    *)
(* items of every stage, and Matches for the pattern tables of the last    *)
(* two.                                                                    *)
(***************************************************************************)
EXTENDS Arithmetic, KeyGen, FiniteSets

CONSTANTS
    Threads,     \* the values of default_threads()
    Batches,     \* the batches of raw hits to verify
    SelfTests,   \* the sequences of entropies to test with
    RetryItems,  \* entropies of the retry stage [2000]
    TestSalts,   \* salts of the address stage [0, 7, 200]
    MaxSalt,     \* salts of the search stage [3]
    EdMatching,  \* the entropies whose ed25519 address matches
    SlackShare,  \* one disagreement in that many is tolerated [200]
    SlackFloor,  \* and so many in any case [4]
    FaultSets    \* the sets of faults of the device

Kinds == {"sampler", "pubkey", "invertible", "addr", "addrOk", "retry", "matcher", "search",
          "reference", "fast"}

RawHits == [entropy : Entropies, salt : Salts]

\* gpu-selftest --items 0 has nothing to share out.
ASSUME DeviceChecksAssumption ==
    /\ Threads \subseteq Nat \ {0}
    /\ Batches \subseteq Seq(RawHits)
    /\ SelfTests \subseteq Seq(Entropies) \ {<<>>}
    /\ {RetryItems, SlackShare} \subseteq Nat \ {0}
    /\ {MaxSalt, SlackFloor} \subseteq Nat
    /\ TestSalts \subseteq Salts /\ TestSalts # {}
    /\ EdMatching \subseteq Entropies
    /\ FaultSets \subseteq SUBSET [kind : Kinds, entropy : Entropies]

VARIABLES args,   \* what is checked, with which options
          stage,  \* what the host is doing
          input,  \* the items that the threads work on
          pos,    \* pos[c]: the item that the thread of chunk c works on next
          out     \* the result of each item

vars == <<args, stage, input, pos, out>>

Empty == [found |-> FALSE]
-----------------------------------------------------------------------------
(***************************************************************************)
(* Sharing out                                                             *)
(***************************************************************************)

\* Mutant of ChunkLen: rounded down.
ChunkLenDown(n) == n \div (IF args.threads < n THEN args.threads ELSE n)

\* n.div_ceil(workers)
ChunkLen(n) == CeilDiv(n, IF args.threads < n THEN args.threads ELSE n)

FirstOf(c, n) == (c - 1) * ChunkLen(n) + 1
LastOf(c, n) == IF c * ChunkLen(n) < n THEN c * ChunkLen(n) ELSE n

\* Where the threads start on the items.
Starts(items) ==
    IF items = <<>> THEN <<>>
    ELSE [c \in 1 .. CeilDiv(Len(items), ChunkLen(Len(items))) |-> FirstOf(c, Len(items))]

Working(c) == pos[c] <= LastOf(c, Len(input))

(***************************************************************************)
(* The work on one item                                                    *)
(***************************************************************************)

\* verify_one
VerifyOne(hit) ==
    LET pk == CompleteFromFg(SampleFg(hit.entropy))
        target == IF pk = NoKey THEN NoTarget ELSE FirstMatch(args.active, Matches[pk][hit.salt])
    IN IF /\ target # NoTarget
          /\ hit.salt \in Compliant[pk]
          /\ args.canonicalOnly => hit.salt = CanonicalPqSalt(pk)
       THEN [found |-> TRUE, entropy |-> hit.entropy, salt |-> hit.salt, pk |-> pk,
             target |-> target]
       ELSE Empty

\* The first salt of the sweep with which the first sample's key matches, as
\* the CPU scan finds it and as the kernel is to report it.
Scan(e) ==
    LET pk == PubkeyFromFg(SampleFg(e))
        salts == {s \in 0 .. MaxSalt : pk # NoKey /\ Matches[pk][SaltByte(s)] # {}}
    IN IF salts = {} THEN Empty
       ELSE [found |-> TRUE, entropy |-> e,
             salt |-> SaltByte(CHOOSE s \in salts : \A r \in salts : s <= r)]

ResultOf(item) == CASE stage = "verify" -> VerifyOne(item)
                    [] stage = "retry"  -> [att |-> FirstVisibleAccept(item, MaxAttempts)]
                    [] stage = "search" -> Scan(item)

\* One step of a scoped thread.
Work(c) == /\ stage \in {"verify", "retry", "search"} /\ Working(c)
           /\ out' = [out EXCEPT ![pos[c]] = ResultOf(input[pos[c]])]
           /\ pos' = [pos EXCEPT ![c] = @ + 1]
           /\ UNCHANGED <<args, stage, input>>

AllDone == \A c \in DOMAIN pos : ~Working(c)

\* The next stage, whose items are shared out if it has any.
Enter(next, items) == /\ stage' = next
                      /\ input' = items
                      /\ pos' = Starts(items)
                      /\ out' = [i \in DOMAIN items |-> Empty]
                      /\ UNCHANGED args

\* A stage after which the threads' results stay as they are.
Leave(next) == stage' = next /\ UNCHANGED <<args, input, pos, out>>

(***************************************************************************)
(* The stages of the self-test                                             *)
(***************************************************************************)

Faulty(kind, e) == [kind |-> kind, entropy |-> e] \in args.faults

\* What the debug kernels and the search kernels answer: what is right, or
\* something else.
Answer(kind, e, right) == IF Faulty(kind, e) THEN [wrong |-> right] ELSE right

HasPubkey(e) == PubkeyFromFg(SampleFg(e)) # NoKey
Pubkey(e) == [pk |-> PubkeyFromFg(SampleFg(e))]
Addr(e, salt) == [pk |-> PubkeyFromFg(SampleFg(e)), salt |-> salt]
EdScan(e) == [found |-> e \in EdMatching, entropy |-> e]

DbgSampleFg(e) == Answer("sampler", e, SampleFg(e))
DbgPubkey(e) == [ok |-> HasPubkey(e) # Faulty("invertible", e),
                 key |-> Answer("pubkey", e, Pubkey(e))]
DbgAddr32(e, salt) == [ok |-> HasPubkey(e) # Faulty("addrOk", e),
                       addr |-> Answer("addr", e, Addr(e, salt))]
DbgAccept(e) == Answer("retry", e, [att |-> DevAccept(e)])
DbgMatch(e) == Answer("matcher", e, [entropy |-> e])
EdDbgPubkey(e, fast) == Answer(IF fast THEN "fast" ELSE "reference", e, [entropy |-> e])

Seeds == ToSet(args.seeds)

SamplerAgrees == \A e \in Seeds : DbgSampleFg(e) = SampleFg(e)

PubkeyAgrees ==
    \A e \in Seeds : IF DbgPubkey(e).ok THEN HasPubkey(e) /\ DbgPubkey(e).key = Pubkey(e)
                                       ELSE ~HasPubkey(e)

\* Items that the device calls singular are passed over.
AddrAgrees ==
    \A salt \in TestSalts, e \in Seeds :
        DbgAddr32(e, salt).ok /\ HasPubkey(e) => DbgAddr32(e, salt).addr = Addr(e, salt)

\* mism <= max(0.5 % of the items, 4)
Tolerated(n, items) == n * SlackShare <= items \/ n <= SlackFloor

RetryAgrees == Tolerated(Cardinality({i \in DOMAIN input : DbgAccept(input[i]) # out[i]}),
                         Len(input))

\* selftest_matcher, of which PatternMatch has the two sides.
MatcherAgrees == \A e \in Seeds : DbgMatch(e) = [entropy |-> e]

\* The sorted lists of hits are compared.
SearchAgrees ==
    {Answer("search", e, Scan(e)) : e \in ToSet(input)} \ {Empty} = ToSet(out) \ {Empty}

EdPubkeyAgrees(fast) == \A e \in Seeds : EdDbgPubkey(e, fast) = [entropy |-> e]

EdSearchAgrees == \A e \in Seeds : Answer("search", e, EdScan(e)) = EdScan(e)

\* verify_hits returns when its threads have ended.
Verified == stage = "verify" /\ AllDone /\ Leave("verified")

\* A stage passes, and the next one begins, or the self-test fails.
Compare(now, agrees, next, items) ==
    /\ stage = now /\ AllDone
    /\ IF agrees THEN Enter(next, items) ELSE Leave("fail")

\* The entropies of the retry stage.
Subset == SubSeq(args.seeds, 1, IF Len(args.seeds) < RetryItems THEN Len(args.seeds)
                                                                ELSE RetryItems)

\* cmd_gpu_selftest
SelfTest ==
    \/ Compare("sampler", SamplerAgrees, "pubkey", <<>>)
    \/ Compare("pubkey", PubkeyAgrees, "addr", <<>>)
    \/ Compare("addr", AddrAgrees, "retry", Subset)
    \/ Compare("retry", RetryAgrees, "matcher", <<>>)
    \/ Compare("matcher", MatcherAgrees, "search", args.seeds)
    \/ Compare("search", SearchAgrees, "pass", <<>>)

\* classic::cmd_gpu_selftest, whose CPU scan has one thread.
EdSelfTest ==
    \/ Compare("edReference", EdPubkeyAgrees(FALSE), "edSearchPath", <<>>)
    \/ Compare("edSearchPath", EdPubkeyAgrees(TRUE), "edMatcher", <<>>)
    \/ Compare("edMatcher", MatcherAgrees, "edSearch", <<>>)
    \/ Compare("edSearch", EdSearchAgrees, "pass", <<>>)

\* A call of the device returns an error, which ends the self-test.
CallFails == /\ stage \notin {"verify", "verified", "pass", "fail", "error"}
             /\ \A c \in DOMAIN pos : pos[c] = FirstOf(c, Len(input))
             /\ Leave("error")

Init ==
    /\ \/ /\ args \in [threads : Threads, hits : Batches, canonicalOnly : BOOLEAN,
                       active : [Targets -> BOOLEAN]]
          /\ stage = "verify"
          /\ input = args.hits
       \/ /\ args \in [threads : Threads, scheme : {"f1", "ed25519"}, seeds : SelfTests,
                       faults : FaultSets]
          /\ stage = IF args.scheme = "f1" THEN "sampler" ELSE "edReference"
          /\ input = <<>>
    /\ pos = Starts(input)
    /\ out = [i \in DOMAIN input |-> Empty]

Done == stage \in {"verified", "pass", "fail", "error"} /\ UNCHANGED vars

Next == (\E c \in DOMAIN pos : Work(c)) \/ Verified \/ SelfTest \/ EdSelfTest \/ CallFails \/ Done

Spec == Init /\ [][Next]_vars
-----------------------------------------------------------------------------
\* Types: the items are shared out to no more threads than there are, each at
\* an item of its chunk or done with it.
TypeOK ==
    /\ stage \in {"verify", "verified", "sampler", "pubkey", "addr", "retry", "matcher",
                  "search", "edReference", "edSearchPath", "edMatcher", "edSearch", "pass", "fail",
                  "error"}
    /\ input \in IF "hits" \in DOMAIN args THEN Seq(RawHits) ELSE Seq(Entropies)
    /\ Len(pos) <= args.threads
    /\ \A c \in DOMAIN pos : pos[c] \in FirstOf(c, Len(input)) .. LastOf(c, Len(input)) + 1
    /\ DOMAIN out = DOMAIN input

\* The address of a raw hit as `algokey pq import` derives it: the key that the
\* whole key generation gives for its entropy, at the salt that it has.
Imports(hit, canonicalOnly) ==
    LET pk == KeygenFromSeed(hit.entropy)
    IN /\ hit.salt \in Compliant[pk]
       /\ canonicalOnly => hit.salt = CanonicalPqSalt(pk)

\* After the verification the i-th result is about the i-th raw hit: if it is
\* kept, importing its entropy gives the very key and address, which match the
\* target noted; if it is culled, its first attempt is not the key that is
\* imported, or the address imported is not one that was asked for.
ImportGivesShownAddress ==
    stage = "verified" =>
        \A i \in DOMAIN args.hits :
            LET hit == args.hits[i]
                pk == KeygenFromSeed(hit.entropy)
                asked == {t \in Matches[pk][hit.salt] : args.active[t]}
            IN IF out[i].found
               THEN /\ out[i].entropy = hit.entropy /\ out[i].salt = hit.salt /\ out[i].pk = pk
                    /\ Imports(hit, args.canonicalOnly) /\ out[i].target \in asked
               ELSE \/ SampleFg(hit.entropy).fails # {}
                    \/ ~Imports(hit, args.canonicalOnly) \/ asked = {}

\* Faults that the self-test of a scheme cannot see: the key or the address of
\* an item that has none or, in the address stage alone, of one that the device
\* calls singular; single attempts of the retry loop (see RetryFaults); stages of
\* the other scheme.
F1Unseen(fault) ==
    \/ /\ fault.kind \in {"pubkey", "addr"}
       /\ \/ ~HasPubkey(fault.entropy)
          \/ fault.kind = "addr" /\ Faulty("addrOk", fault.entropy)
    \/ fault.kind \in {"addrOk", "retry", "reference", "fast"}

EdUnseen(fault) == fault.kind \notin {"reference", "fast", "matcher", "search"}

\* The faults that the self-test is to see.
Seen == {fault \in args.faults :
            /\ fault.entropy \in Seeds
            /\ IF args.scheme = "f1" THEN ~F1Unseen(fault) ELSE ~EdUnseen(fault)}

\* Items on which the retry loop may disagree with the CPU, by a fault or by
\* its arithmetic.
RetryDoubts == {i \in DOMAIN Subset : \/ Faulty("retry", Subset[i])
                                      \/ \E fg \in ToSet(Attempts[Subset[i]]) : fg.borderline}

\* Items on which the retry loop of the device is wrong.
RetryFaults == {i \in DOMAIN Subset : Faulty("retry", Subset[i])}

\* A self-test that passes leaves only faults that its stages cannot see, none
\* of which is in what the search kernel answers, and no more wrong answers of
\* the retry loop than are tolerated; and one that fails has a reason: it has
\* seen a fault, or too many attempts are wrong or borderline.
SelfTestVerdict ==
    /\ stage = "pass" =>
          /\ Seen = {}
          /\ args.scheme = "f1" => Tolerated(Cardinality(RetryFaults), Len(Subset))
    /\ stage = "fail" => \/ Seen # {}
                         \/ /\ args.scheme = "f1"
                            /\ ~Tolerated(Cardinality(RetryDoubts), Len(Subset))
=============================================================================
