----------------------------- MODULE MCFrontEnd -----------------------------
(***************************************************************************)
(* An instance of FrontEnd for TLC, small enough for every number to be    *)
(* computed: characters of 2 bits and bytes of 3, so that an address of 3  *)
(* bytes and its checksum of 2 take 8 characters, of which the fifth holds *)
(* bits of both and the last one a padding bit; keys of 5 bytes of 2 bits, *)
(* which are mnemonics of 4 words of 3 bits and a checksum word.           *)
(***************************************************************************)
EXTENDS FrontEnd

\* A number of w bits, the highest or the lowest bit first, and back.
High(n, w) == [j \in 1 .. w |-> (n \div 2^(w - j)) % 2]
LowFirst(n, w) == [j \in 1 .. w |-> (n \div 2^(j - 1)) % 2]
Value(b) == b[1] + 2 * b[2]

MCChecksum(addr) ==
    LET n == FoldLeft(LAMBDA acc, b : 2 * acc + b, 0, addr)
    IN High((n * n + 11 * n + 5) % 64, 6)

MCHashHead(key) == <<LowFirst((Value(key[1]) + 3 * Value(key[2]) + Value(key[5])) % 4, 2),
                     LowFirst((Value(key[3]) + Value(key[4]) + 1) % 4, 2)>>

MCCanonicalSalt(key) == (Value(key[1]) + Value(key[3])) % 2

\* Two addresses, and those that differ from them in one bit.
A == High(173, 9)
B == High(402, 9)

MCAddresses == {A, B} \cup {[a EXCEPT ![i] = 1 - @] : a \in {A, B}, i \in 1 .. 9}

Heads(a, lens) == {SubSeq(Display(a), 1, n) : n \in lens}
Tails(a, lens) == {SubSeq(Display(a), 9 - n, 8) : n \in lens}

\* Entries cut from the two addresses, up to the longest, and wrong ones.
MCPrefixes == Heads(A, {1, 2, 3, 4, 5, 6}) \cup Heads(B, {2, 5}) \cup {<<>>, <<High(1, 2), Other>>}
MCSuffixes == Tails(A, {1, 2, 3, 4, 5}) \cup Tails(B, {1, 3, 4}) \cup {<<>>, <<High(2, 2), High(1, 2)>>}

Lists(entries) == {NotGiven} \cup {<<e>> : e \in entries}
                    \cup {<<d, e>> : d \in entries \cap (Heads(A, {2}) \cup Tails(A, {1, 2})),
                                     e \in entries \cap (Heads(B, {2}) \cup Heads(A, {2, 5})
                                                            \cup Tails(B, {1, 3}))}

Pairs == {p \o <<sep>> \o s : p \in Heads(A, {0, 3}) \cup Heads(B, {5}), sep \in {Dots, Dash},
                              s \in Tails(A, {0, 4}) \cup Tails(B, {2})}
            \cup {<<High(0, 2), High(1, 2)>>, <<High(1, 2), Dash, High(0, 2), Dots, High(2, 2)>>}
            \cup {p \o <<Ellipsis>> \o s : p \in Heads(A, {3}), s \in Tails(A, {0, 4})}
            \cup {<<High(1, 2), Dash, High(0, 2), Ellipsis, High(2, 2)>>}

\* A machine with a GPU, a CUDA build without a device and a host-only build.
Files == "seed" :> "words" @@ "blank" :> "empty" @@ "locked" :> "unreadable"

GpuBox == [cuda |-> TRUE, devices |-> 1, files |-> Files]

Default == [name |-> "search", scheme |-> "f1",
            prefix |-> NotGiven, suffix |-> NotGiven, pattern |-> NotGiven, keepFound |-> FALSE,
            threads |-> 1, count |-> Unset, maxSalt |-> Unset, nonCanonical |-> FALSE,
            extra |-> Unset, on |-> GpuBox]

\* Every combination of patterns, with the other options as they are by default.
Patterned ==
    {[Default EXCEPT !.name = n, !.keepFound = k, !.prefix = p, !.suffix = s] :
        n \in {"search", "gpu"}, k \in BOOLEAN, p \in Lists(MCPrefixes), s \in Lists(MCSuffixes)}
    \cup {[Default EXCEPT !.name = n, !.keepFound = k, !.pattern = <<d, e>>] :
        n \in {"search", "gpu"}, k \in BOOLEAN, d \in Pairs, e \in Pairs}
    \cup {[Default EXCEPT !.pattern = <<d>>] : d \in Pairs}

\* Every combination of the other options, with one pattern.
Optioned ==
    {[Default EXCEPT !.name = n, !.scheme = sch, !.prefix = <<SubSeq(Display(A), 1, 2)>>,
                     !.threads = th, !.count = c, !.maxSalt = m, !.nonCanonical = nc,
                     !.extra = x, !.on = [GpuBox EXCEPT !.cuda = g, !.devices = d]] :
        n \in {"search", "gpu"}, sch \in {"f1", "ed25519"}, th \in {0, 1}, c \in {Unset, 0, 1, 2},
        m \in {Unset, 1}, nc \in BOOLEAN,
        x \in {Unset, "", "literal", "seed", "blank", "locked"}, g \in BOOLEAN, d \in {0, 1}}

\* The key whose bytes have the values of the sequence v, and the words likewise.
Key(v) == [i \in DOMAIN v |-> LowFirst(v[i], 2)]
Phrase(v) == [i \in DOMAIN v |-> LowFirst(v[i], 3)]

MCKeygenFails == {Key(<<1, 2, 3, 0, 0>>), Key(<<2, 0, 0, 0, 0>>)}

DefaultDerive == [name |-> "derive", scheme |-> "f1", mnemonic |-> Unset, hex |-> Unset,
                  byte |-> ZeroByte, salt |-> Unset]

\* Every choice of the words of a key, with two checksum words; mnemonics with
\* an unknown word, and some of a wrong length.
Typed ==
    {w \o Phrase(<<c>>) : w \in [1 .. 4 -> Words], c \in {0, 3}}
    \cup {[Phrase(<<0, 0, 0, 0>>) \o <<c>> EXCEPT ![i] = NoWord] : c \in Words, i \in 1 .. 5}
    \cup {<<>>, Phrase(<<0>>), Phrase(<<0, 0, 0, 0>>), Phrase(<<0, 0, 0, 0, 4, 4>>)}

Derives ==
    {[DefaultDerive EXCEPT !.mnemonic = m] : m \in Typed}
    \cup {[DefaultDerive EXCEPT !.scheme = "ed25519", !.mnemonic = m, !.salt = s] :
            m \in {KeyToMnemonic(key) : key \in MCKeygenFails}
                    \cup {Phrase(<<0, 0, 0, 0>>) \o <<NoWord>>},
            s \in {Unset, 0}}
    \cup {[DefaultDerive EXCEPT !.scheme = sch, !.hex = h, !.salt = s] :
            sch \in {"f1", "ed25519"},
            h \in {Unset, Malformed, <<>>, Key(<<1, 2, 3, 0, 0>>), Key(<<1, 2, 3, 0, 0, 0>>)},
            s \in {Unset, 0, 1}}
    \cup {[DefaultDerive EXCEPT !.byte = b] : b \in Bytes}

MCCalls == Patterned \cup Optioned \cup Derives
=============================================================================
