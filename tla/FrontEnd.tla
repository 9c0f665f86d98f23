------------------------------ MODULE FrontEnd ------------------------------
(***************************************************************************)
(* The commands of pq-vanity up to the point where a search runs           *)
(* (crates/pq-vanity/src/main.rs): `derive`, and the prologues of `search` *)
(* and `gpu`, of which the ed25519 ones are in classic.rs.  What they are  *)
(* given is a constant set of calls that clap lets through; a call carries *)
(* the machine it is made on (a CUDA build or not, the devices, the        *)
(* files).  A running search is reduced to what it does to the target      *)
(* list, one hit after the other: its workers, batches and counters are    *)
(* the other modules' subject.                                             *)
(***************************************************************************)
EXTENDS PatternMatch, Mnemonic

CONSTANTS
    Calls,           \* the command lines, each on its machine
    Unset,           \* an option that is not given
    Malformed,       \* --entropy-hex with a digit that is none, or one too few
    KeygenFails,     \* the entropies for which keygen_from_seed gives up
    CanonicalSalt(_),\* the lowest compliant salt of the f1 key of an entropy
    Addresses        \* the addresses whose keys a search may meet

VARIABLES call,     \* the command
          outcome,  \* what has become of it
          shown,    \* what was printed last
          list,     \* TargetSet.list
          active,   \* TargetSet.active
          left      \* hits still to be shown

\* What clap lets through.
ASSUME CallsAssumption ==
    /\ Addresses \subseteq AddressBits
    /\ \A c \in Calls :
          IF c.name = "derive"
          THEN c.mnemonic \in {Unset} \cup Seq(Words \cup {NoWord})
          ELSE /\ c.name \in {"search", "gpu"}
               /\ {c.prefix, c.suffix, c.pattern} \subseteq Seq(Seq(Symbols))
               /\ c.count \in {Unset} \cup Nat
               /\ c.keepFound \in BOOLEAN

commandVars == <<call, outcome, shown, list, active, left>>

TS(targets, keepFound) ==
    INSTANCE TargetSet WITH NTargets <- Len(targets), KeepFound <- keepFound

Nothing == [entropy |-> Unset]
-----------------------------------------------------------------------------
CommandInit ==
    /\ call \in Calls
    /\ outcome = "typed"
    /\ shown = Nothing
    /\ list = <<>> /\ active = <<>> /\ left = 0

(***************************************************************************)
(* derive                                                                  *)
(***************************************************************************)

\* --mnemonic before --entropy-hex before --entropy-byte.
DeriveEntropy(c) ==
    IF c.mnemonic # Unset THEN MnemonicToKey(c.mnemonic)
    ELSE IF c.hex # Unset
         THEN IF c.hex # Malformed /\ Len(c.hex) = KeyBytes THEN c.hex ELSE BadKey
         ELSE [i \in 1 .. KeyBytes |-> IF i = 1 THEN c.byte ELSE ZeroByte]

DeriveRefused(c) == \/ c.scheme # "f1" /\ c.salt # Unset
                    \/ DeriveEntropy(c) = BadKey
                    \/ c.scheme = "f1" /\ DeriveEntropy(c) \in KeygenFails

\* What derive prints; classic::derive has no salt.
Derived(c) ==
    LET entropy == DeriveEntropy(c)
    IN [entropy |-> entropy,
        mnemonic |-> KeyToMnemonic(entropy),
        salt |-> IF c.scheme = "f1" /\ c.salt = Unset THEN CanonicalSalt(entropy) ELSE c.salt]

\* cmd_derive
Derive == /\ outcome = "typed" /\ call.name = "derive"
          /\ IF DeriveRefused(call)
             THEN outcome' = "refused" /\ UNCHANGED shown
             ELSE outcome' = "derived" /\ shown' = Derived(call)
          /\ UNCHANGED <<call, list, active, left>>

(***************************************************************************)
(* search and gpu                                                          *)
(***************************************************************************)

\* load_extra_entropy: the content of an existing file, else the words typed.
ExtraRefused(c) ==
    /\ c.extra # Unset
    /\ IF c.extra \in DOMAIN c.on.files
       THEN c.on.files[c.extra] \in {"unreadable", "empty"}
       ELSE c.extra = ""

\* Options of f1 that the classic commands turn down.
SaltOptions(c) == \/ c.nonCanonical
                  \/ c.name = "gpu" /\ c.maxSalt # Unset

SearchRefused(c) ==
    \/ Parse(c) = Refused
    \/ c.count = 0
    \/ c.scheme = "ed25519" /\ SaltOptions(c)
    \/ c.name = "search" /\ c.threads = 0
    \/ c.name = "gpu" /\ ~(FitsGpu(Parse(c)) /\ c.on.cuda /\ c.on.devices >= 1)
    \/ ExtraRefused(c)

\* The prologues of cmd_search and cmd_gpu, for either scheme.
StartSearch ==
    /\ outcome = "typed" /\ call.name \in {"search", "gpu"}
    /\ IF SearchRefused(call)
       THEN outcome' = "refused" /\ UNCHANGED <<list, active, left>>
       ELSE /\ outcome' = "searching"
            /\ list' = Parse(call)
            /\ active' = [i \in DOMAIN Parse(call) |-> TRUE]
            /\ left' = IF call.count # Unset THEN call.count
                       ELSE TS(Parse(call), call.keepFound)!DefaultCount
    /\ UNCHANGED <<call, shown>>

\* The search meets a key and shows it.  On the device the key is one that
\* the table matches, on the host the hot path finds its target.
Hit(addr) ==
    LET i == IF call.name = "gpu" THEN FirstMatchDisplay(list, active, addr)
                                  ELSE FirstMatchLazy(list, active, addr)
    IN /\ outcome = "searching"
       /\ call.name = "gpu" => DeviceMatches(DeviceTable(list, active), addr)
       /\ i # TS(list, call.keepFound)!NoTarget
       /\ TS(list, call.keepFound)!ClaimGranted(active, i)
       /\ active' = TS(list, call.keepFound)!AfterClaim(active, i)
       /\ left' = left - 1
       /\ outcome' = IF left' = 0 \/ ~TS(list, call.keepFound)!AnyActive(active')
                     THEN "done" ELSE "searching"
       /\ shown' = [entropy |-> Unset, addr |-> addr]
       /\ UNCHANGED <<call, list>>

\* The command has ended, or its search looks at keys that it does not show.
Idle == /\ outcome # "typed"
        /\ UNCHANGED commandVars

CommandNext == Derive \/ StartSearch \/ (\E addr \in Addresses : Hit(addr)) \/ Idle

CommandSpec == CommandInit /\ [][CommandNext]_commandVars
-----------------------------------------------------------------------------
\* Types: a target list is short enough for the device and has no target twice,
\* and a search that has shown its last hit is over.
CommandTypeOK ==
    /\ outcome \in {"typed", "refused", "derived", "searching", "done"}
    /\ "addr" \in DOMAIN shown => shown.addr \in Addresses
    /\ list \in Seq(Target)
    /\ Len(list) <= MaxTargets /\ Cardinality(ToSet(list)) = Len(list)
    /\ active \in [DOMAIN list -> BOOLEAN]
    /\ left \in Nat
    /\ outcome = "searching" => left > 0

\* The four matchers agree on every address while targets retire: the hot path
\* on the leading bytes, the one that verifies on the display string, the masks
\* of the device (whether any target matches), and TargetSet's FirstMatch, by
\* which the search modules stand for all of them.
MatchersAgree ==
    outcome = "searching" =>
        \A addr \in Addresses :
            LET matched == {i \in DOMAIN list : MatchesDisplay(list[i], Display(addr))}
                first == FirstMatchDisplay(list, active, addr)
            IN /\ FirstMatchLazy(list, active, addr) = first
               /\ TS(list, call.keepFound)!FirstMatch(active, matched) = first
               /\ call.name = "gpu" =>
                    (DeviceMatches(DeviceTable(list, active), addr)
                        <=> first # TS(list, call.keepFound)!NoTarget)

\* What the options ask of an address: one of the prefixes, if any are given,
\* and one of the suffixes; or one of the pairs.
Asked(c, display) ==
    IF c.pattern # NotGiven
    THEN \E e \in ToSet(c.pattern) :
            \E i \in DOMAIN e : /\ e[i] \notin Alphabet
                                /\ IsPrefix(SubSeq(e, 1, i - 1), display)
                                /\ IsSuffix(SubSeq(e, i + 1, Len(e)), display)
    ELSE /\ c.prefix # NotGiven => \E p \in ToSet(c.prefix) : IsPrefix(p, display)
         /\ c.suffix # NotGiven => \E s \in ToSet(c.suffix) : IsSuffix(s, display)

\* The target list matches exactly the addresses that the options ask for:
\* splitting, the product of the lists and dropping repetitions lose and add
\* nothing.
ListMeansOptions ==
    outcome = "searching" =>
        \A addr \in Addresses :
            Asked(call, Display(addr)) <=>
                \E t \in ToSet(list) : MatchesDisplay(t, Display(addr))

MnemonicTable == {[key |-> key, words |-> KeyToMnemonic(key)] : key \in MnemonicKeys}

\* derive --mnemonic accepts the mnemonics of keys and nothing else, and gets
\* back the key that each was made from, so that no two keys share one and the
\* mnemonic that it prints is the one typed.
MnemonicExact ==
    (call.name = "derive" /\ call.mnemonic # Unset) =>
        LET keys == {row.key : row \in {r \in MnemonicTable : r.words = call.mnemonic}}
        IN /\ outcome = "derived" => keys = {shown.entropy}
           /\ outcome = "refused" => \/ keys = {}
                                     \/ call.scheme = "f1" /\ keys \subseteq KeygenFails
                                     \/ call.scheme # "f1" /\ call.salt # Unset
=============================================================================
