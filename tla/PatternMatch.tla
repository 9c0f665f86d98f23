---------------------------- MODULE PatternMatch ----------------------------
(***************************************************************************)
(* Patterns and how an address is matched against them: the parsing of the *)
(* pattern options and the two host matchers of                            *)
(* crates/pq-vanity/src/targets.rs, the display string of                  *)
(* crates/pq-core/src/address.rs and the bit masks that the kernels use    *)
(* (pq_match_targets of cuda/pq_vanity.cu).  All of it is done on the      *)
(* widths below; the values that the code has are in brackets.             *)
(*                                                                         *)
(* An address, a checksum and a machine word are the sequences of their    *)
(* bits, the highest first, and a character is the bits that it stands for *)
(* in base32, so that shifts and masks move and clear positions.  An entry *)
(* of an option is a sequence of characters and separators, as it is after *)
(* `trim` and `to_ascii_uppercase`; any other symbol is Other.             *)
(***************************************************************************)
EXTENDS Arithmetic, Sequences, FiniteSets, SequencesExt

CONSTANTS
    CharBits,      \* bits of a display character [5]
    ByteBits,      \* bits of a byte [8]
    AddrBytes,     \* ADDR_LEN [32]
    SumBytes,      \* CHECKSUM_LEN [4]
    HiBytes,       \* leading bytes of addr32 in the device's first word [8]
    LoBytes,       \* last bytes of addr32 in the device's second word [4]
    GpuMaxPrefix,  \* GPU_MAX_PREFIX [12]
    GpuMaxSuffix,  \* GPU_MAX_SUFFIX [13]
    MaxTargets,    \* MAX_TARGETS [1024]
    Checksum(_),   \* the checksum of an address: any function
    Dots, Ellipsis, Dash, Other

AddrBits == AddrBytes * ByteBits
SumBits == SumBytes * ByteBits

DisplayLen == CeilDiv(AddrBits + SumBits, CharBits)

\* Zero bits that fill up the last character of a display string.
PadBits == DisplayLen * CharBits - (AddrBits + SumBits)

\* ADDR_ONLY_CHARS: leading characters that addr32 alone determines.
AddrOnlyChars == AddrBits \div CharBits

Bit == {0, 1}

AddressBits == [1 .. AddrBits -> Bit]

Alphabet == [1 .. CharBits -> Bit]

Symbols == Alphabet \cup {Dots, Ellipsis, Dash, Other}

\* The device shifts by the width of a pattern, which has to fit its words.
ASSUME PatternAssumption ==
    /\ {CharBits, ByteBits, AddrBytes, HiBytes, LoBytes, MaxTargets} \subseteq Nat \ {0}
    /\ {SumBytes, GpuMaxPrefix, GpuMaxSuffix} \subseteq Nat
    /\ HiBytes <= AddrBytes /\ LoBytes <= AddrBytes
    /\ GpuMaxPrefix * CharBits <= HiBytes * ByteBits
    /\ GpuMaxSuffix * CharBits - PadBits < (LoBytes + SumBytes) * ByteBits
    /\ \A addr \in AddressBits : Checksum(addr) \in [1 .. SumBits -> Bit]
    /\ {Dots, Ellipsis, Dash, Other} \cap Alphabet = {}

\* LAST_CHARS: those whose padding bits are zero.
LastChars == {c \in Alphabet : \A k \in CharBits - PadBits + 1 .. CharBits : c[k] = 0}
-----------------------------------------------------------------------------
(***************************************************************************)
(* Options                                                                 *)
(***************************************************************************)

Target == [prefix : Seq(Alphabet), suffix : Seq(Alphabet)]

\* An option that is not given; a given one has at least one entry, as an
\* empty string splits into one empty entry.
NotGiven == <<>>

\* The result of a parse that fails.  A list that is accepted is never empty.
Refused == <<>>

\* The separator at which an entry is split: ".." wins over the ellipsis, the
\* ellipsis over the dash, and the first occurrence over later ones.
Separator(e) ==
    LET seps == <<Dots, Ellipsis, Dash>>
    IN seps[SelectInSeq(seps, LAMBDA s : s \in ToSet(e))]

\* split_pair.  A separator that is left over is not in the alphabet.
SplitPair(e) ==
    LET i == SelectInSeq(e, LAMBDA c : c = Separator(e))
    IN [prefix |-> SubSeq(e, 1, i - 1), suffix |-> SubSeq(e, i + 1, Len(e))]

\* No --prefix stands for the empty one, and so does no --suffix.
Affixes(entries) == IF entries = NotGiven THEN << <<>> >> ELSE entries

\* Mutant of Listed: the lists are walked side by side.
ListedPairwise(args) ==
    IF args.pattern # NotGiven
    THEN [i \in DOMAIN args.pattern |-> SplitPair(args.pattern[i])]
    ELSE LET ps == Affixes(args.prefix)
             ss == Affixes(args.suffix)
         IN [k \in 1 .. (IF Len(ps) > Len(ss) THEN Len(ps) ELSE Len(ss)) |->
                [prefix |-> ps[((k - 1) % Len(ps)) + 1], suffix |-> ss[((k - 1) % Len(ss)) + 1]]]

\* The entries of --pattern, or every prefix with every suffix.
Listed(args) ==
    IF args.pattern # NotGiven
    THEN [i \in DOMAIN args.pattern |-> SplitPair(args.pattern[i])]
    ELSE LET ps == Affixes(args.prefix)
             ss == Affixes(args.suffix)
         IN [k \in 1 .. Len(ps) * Len(ss) |->
                [prefix |-> ps[((k - 1) \div Len(ss)) + 1], suffix |-> ss[((k - 1) % Len(ss)) + 1]]]

\* Every given entry of the lists is non-empty, every pattern has a separator.
WellSplit(args) ==
    /\ \A opt \in {args.prefix, args.suffix, args.pattern} : <<>> \notin ToSet(opt)
    /\ \A e \in ToSet(args.pattern) : ToSet(e) \cap {Dots, Ellipsis, Dash} # {}

\* The checks of parse on one target.
Valid(t) == /\ ToSet(t.prefix) \cup ToSet(t.suffix) \subseteq Alphabet
            /\ t.prefix # <<>> \/ t.suffix # <<>>
            /\ t.suffix # <<>> => Last(t.suffix) \in LastChars
            /\ Len(t.prefix) + Len(t.suffix) <= DisplayLen

\* Mutant of Dedup: repetitions stay in the list.
DedupNot(list) == list

\* What is kept of the first n targets.
Kept(list) ==
    LET kept[n \in 0 .. Len(list)] ==
            IF n = 0 THEN <<>>
            ELSE IF list[n] \in ToSet(kept[n - 1]) THEN kept[n - 1]
                 ELSE Append(kept[n - 1], list[n])
    IN kept

\* The targets in the order of their first occurrence.
Dedup(list) == Kept(list)[Len(list)]

\* TargetSet::parse
Parse(args) ==
    IF /\ WellSplit(args)
       /\ \A t \in ToSet(Listed(args)) : Valid(t)
       /\ Len(Dedup(Listed(args))) <= MaxTargets
    THEN Dedup(Listed(args))
    ELSE Refused

\* check_gpu
FitsGpu(list) == \A t \in ToSet(list) : /\ Len(t.prefix) <= GpuMaxPrefix
                                        /\ Len(t.suffix) <= GpuMaxSuffix
-----------------------------------------------------------------------------
(***************************************************************************)
(* Display strings                                                         *)
(***************************************************************************)

\* Bits at the high end of a wider word, and at its low end.
AtHigh(bits, width) == [j \in 1 .. width |-> IF j <= Len(bits) THEN bits[j] ELSE 0]
AtLow(bits, width) ==
    [j \in 1 .. width |-> IF j > width - Len(bits) THEN bits[j - (width - Len(bits))] ELSE 0]

\* BASE32_NOPAD.encode
Encode(bits) ==
    LET len == CeilDiv(Len(bits), CharBits)
        padded == AtHigh(bits, len * CharBits)
    IN [i \in 1 .. len |-> [k \in 1 .. CharBits |-> padded[(i - 1) * CharBits + k]]]

\* to_address_string
Display(addr) == Encode(addr \o Checksum(addr))

\* matches_display
MatchesDisplay(t, display) == IsPrefix(t.prefix, display) /\ IsSuffix(t.suffix, display)

\* The first index for which Hit holds, or none (TargetSet's NoTarget).
FirstIndex(list, Hit(_)) ==
    LET hits == {i \in DOMAIN list : Hit(i)}
    IN IF hits = {} THEN 0 ELSE CHOOSE i \in hits : \A j \in hits : i <= j

\* first_match_display
FirstMatchDisplay(list, active, addr) ==
    FirstIndex(list, LAMBDA i : active[i] /\ MatchesDisplay(list[i], Display(addr)))

MaxPrefix(list) ==
    CHOOSE m \in {Len(t.prefix) : t \in ToSet(list)} :
        \A t \in ToSet(list) : Len(t.prefix) <= m

\* Mutant of HeadBytes: the last byte of the longest prefix is cut off.
HeadBytesFloor(list) ==
    ((IF MaxPrefix(list) < AddrOnlyChars THEN MaxPrefix(list) ELSE AddrOnlyChars) * CharBits)
        \div ByteBits

\* head_bytes of first_match: the leading bytes that the prefixes look at.
HeadBytes(list) ==
    CeilDiv((IF MaxPrefix(list) < AddrOnlyChars THEN MaxPrefix(list) ELSE AddrOnlyChars) * CharBits,
            ByteBits)

\* The base32 of the leading bytes of addr32.
HeadString(list, addr) == Encode(SubSeq(addr, 1, HeadBytes(list) * ByteBits))

\* first_match: the display string is only looked at for a suffix whose prefix
\* matched, and for a prefix that reaches into the checksum.
FirstMatchLazy(list, active, addr) ==
    FirstIndex(list, LAMBDA i :
        /\ active[i]
        /\ IsPrefix(list[i].prefix, IF Len(list[i].prefix) <= AddrOnlyChars
                                    THEN HeadString(list, addr) ELSE Display(addr))
        /\ list[i].suffix = <<>> \/ IsSuffix(list[i].suffix, Display(addr)))
-----------------------------------------------------------------------------
(***************************************************************************)
(* The device                                                              *)
(***************************************************************************)

HiBits == HiBytes * ByteBits
LoBits == (LoBytes + SumBytes) * ByteBits

\* The two words of an address that the kernels look at.
HiWord(addr) == SubSeq(addr, 1, HiBits)
LoWord(addr) == SubSeq(addr, AddrBits - LoBytes * ByteBits + 1, AddrBits) \o Checksum(addr)

\* Masks keep the highest or the lowest bits of a word.
KeepHigh(word, n) == [j \in DOMAIN word |-> IF j <= n THEN word[j] ELSE 0]
KeepLow(word, n) == [j \in DOMAIN word |-> IF j > Len(word) - n THEN word[j] ELSE 0]

\* The bits of a string, one character after the other.
Bits(s) == [j \in 1 .. CharBits * Len(s) |->
                s[((j - 1) \div CharBits) + 1][((j - 1) % CharBits) + 1]]

\* device_words: each mask by the number of bits that it keeps.
DeviceWords(t) ==
    LET prefix == Bits(t.prefix)
        suffix == SubSeq(Bits(t.suffix), 1, CharBits * Len(t.suffix) - PadBits)
    IN [pkeep |-> Len(prefix), pval |-> AtHigh(prefix, HiBits),
        skeep |-> Len(suffix), sval |-> AtLow(suffix, LoBits)]

\* device_table: the words of the active targets.
DeviceTable(list, active) == {DeviceWords(list[i]) : i \in {j \in DOMAIN list : active[j]}}

\* pq_match_targets, ed_match_targets
DeviceMatches(table, addr) ==
    \E w \in table : /\ KeepHigh(HiWord(addr), w.pkeep) = w.pval
                     /\ w.skeep = 0 \/ KeepLow(LoWord(addr), w.skeep) = w.sval
=============================================================================
