------------------------------ MODULE Mnemonic ------------------------------
(***************************************************************************)
(* The mnemonic codec (crates/pq-core/src/mnemonic.rs): bytes regrouped    *)
(* into words, lowest bits first, and a checksum word.  A word is the bits *)
(* of its index in the word list, or NoWord for text that is not in it; a  *)
(* mnemonic is the sequence that `split_whitespace` gives.  Bytes, words   *)
(* and the buffer are the sequences of their bits, the lowest first, and   *)
(* every shift and mask is that of the code, on the widths below.          *)
(***************************************************************************)
EXTENDS Integers, Sequences, SequencesExt

CONSTANTS
    ByteWidth,     \* bits of a byte [8]
    WordWidth,     \* bits of a word [11]
    BufferWidth,   \* bits of the buffer that regroups them [32]
    KeyBytes,      \* bytes of a key [32]
    HashHead(_),   \* the first two bytes of the hash of a key: any function
    NoWord

DataWords == (KeyBytes * ByteWidth + WordWidth - 1) \div WordWidth

\* The words hold the key and exactly one byte more, in a buffer wide enough.
ASSUME MnemonicAssumption ==
    /\ {ByteWidth, WordWidth, BufferWidth, KeyBytes} \subseteq Nat \ {0}
    /\ ByteWidth < WordWidth /\ WordWidth <= 2 * ByteWidth
    /\ DataWords * WordWidth = (KeyBytes + 1) * ByteWidth
    /\ ByteWidth + WordWidth <= BufferWidth

Bytes == [1 .. ByteWidth -> {0, 1}]
Words == [1 .. WordWidth -> {0, 1}]

MnemonicKeys == [1 .. KeyBytes -> Bytes]

ZeroByte == [i \in 1 .. ByteWidth |-> 0]

ASSUME HashAssumption == /\ \A key \in MnemonicKeys : HashHead(key) \in [1 .. 2 -> Bytes]
                         /\ NoWord \notin Words

Emptied == [out |-> <<>>, buffer |-> [i \in 1 .. BufferWidth |-> 0], bits |-> 0]

\* buffer |= v << bits
Loaded(acc, v) ==
    [acc EXCEPT !.buffer = [i \in 1 .. BufferWidth |->
                                IF \/ @[i] = 1
                                   \/ i - acc.bits \in DOMAIN v /\ v[i - acc.bits] = 1
                                THEN 1 ELSE 0],
                !.bits = @ + Len(v)]

\* buffer & mask
Low(buffer, width) == [i \in 1 .. width |-> buffer[i]]

\* out.push(buffer & mask); buffer >>= width
Unloaded(acc, width) ==
    [out |-> Append(acc.out, Low(acc.buffer, width)),
     buffer |-> [i \in 1 .. BufferWidth |->
                    IF i + width <= BufferWidth THEN acc.buffer[i + width] ELSE 0],
     bits |-> acc.bits - width]

\* What is left in the buffer is one more value.
Flushed(acc, width) == IF acc.bits = 0 THEN acc.out
                       ELSE Append(acc.out, Low(acc.buffer, width))

\* A byte completes at most one word.
Packed(bytes) ==
    LET acc[n \in 0 .. Len(bytes)] ==
            IF n = 0 THEN Emptied
            ELSE LET full == Loaded(acc[n - 1], bytes[n])
                 IN IF full.bits >= WordWidth THEN Unloaded(full, WordWidth) ELSE full
    IN acc

\* to_uint11_array
ToUint11(bytes) == Flushed(Packed(bytes)[Len(bytes)], WordWidth)

\* A word completes one byte or two.
Unpacked(words) ==
    LET acc[n \in 0 .. Len(words)] ==
            IF n = 0 THEN Emptied
            ELSE LET once == Unloaded(Loaded(acc[n - 1], words[n]), ByteWidth)
                 IN IF once.bits >= ByteWidth THEN Unloaded(once, ByteWidth) ELSE once
    IN acc

\* to_byte_array
ToBytes(words) == Flushed(Unpacked(words)[Len(words)], ByteWidth)

\* checksum_word: the first word of the head of the hash.
ChecksumWord(key) == ToUint11(HashHead(key))[1]

\* key_to_mnemonic
KeyToMnemonic(key) == Append(ToUint11(key), ChecksumWord(key))

BadKey == <<>>

\* Mutant of MnemonicToKey: the byte of padding may be anything.
MnemonicToKeyLax(mnemonic) ==
    LET bytes == ToBytes(SubSeq(mnemonic, 1, DataWords))
        key == SubSeq(bytes, 1, KeyBytes)
    IN IF /\ Len(mnemonic) = DataWords + 1
          /\ NoWord \notin ToSet(SubSeq(mnemonic, 1, DataWords))
          /\ Len(bytes) = KeyBytes + 1
          /\ mnemonic[DataWords + 1] = ChecksumWord(key)
       THEN key ELSE BadKey

\* mnemonic_to_key: the key, or BadKey for a wrong number of words, an
\* unknown word, a byte of padding that is not zero or a wrong checksum.
MnemonicToKey(mnemonic) ==
    LET bytes == ToBytes(SubSeq(mnemonic, 1, DataWords))
        key == SubSeq(bytes, 1, KeyBytes)
    IN IF /\ Len(mnemonic) = DataWords + 1
          /\ NoWord \notin ToSet(SubSeq(mnemonic, 1, DataWords))
          /\ Len(bytes) = KeyBytes + 1 /\ bytes[KeyBytes + 1] = ZeroByte
          /\ mnemonic[DataWords + 1] = ChecksumWord(key)
       THEN key ELSE BadKey
=============================================================================
