------------------------------- MODULE Filter -------------------------------
(***************************************************************************)
(* Bloom filters and the filter block of a table.  The hash of a key is a  *)
(* constant of HashBits bits (32 in the code); everything after it is the  *)
(* code's: the probes of the double hashing, the bytes of a filter, the    *)
(* block that a FilterBlockBuilder makes and how it is searched.           *)
(***************************************************************************)
EXTENDS Encoding

CONSTANTS
    BloomHash,      \* internal key -> its hash
    HashBits,
    kFilterBaseLg   \* one filter for every 2^kFilterBaseLg of file offset

kFilterBase == 2^kFilterBaseLg

ASSUME HashAssumption ==
    /\ HashBits \in Nat \ {0} /\ \A n \in 0..HashBits : 2^n \in Nat \ {0}
    /\ \A key \in DOMAIN BloomHash : BloomHash[key] \in 0..(2^HashBits - 1)
ASSUME BaseAssumption == kFilterBaseLg \in Byte /\ kFilterBase \in Nat \ {0}

kBloomFilterPerKeySize == 10

\* bits_per_key * 0.69
k_ == 6

-----------------------------------------------------------------------------
(* BloomFilter *)

\* The hash rotated right by a little more than half of its bits (17 of 32).
Delta(h) ==
    LET right == HashBits \div 2 + 1
    IN  (h \div 2^right) + ((h * 2^(HashBits - right)) % 2^HashBits)

\* The bits that k probes for a key test or set.
Probes(key, k, bits) ==
    LET h == BloomHash[key]
    IN  {((h + j * Delta(h)) % 2^HashBits) % bits : j \in 0..(k - 1)}

\* 1 << b in a byte, tested or set.
Bit(b) == <<1, 2, 4, 8, 16, 32, 64, 128>>[b + 1]

HasBit(byte, b) == (byte \div Bit(b)) % 2 = 1

SetBits(bits) ==
    LET bit(b) == IF b \in bits THEN Bit(b) ELSE 0
    IN  bit(0) + bit(1) + bit(2) + bit(3) + bit(4) + bit(5) + bit(6) + bit(7)

\* At least 64 bits, in whole bytes.
FilterBytes(n) ==
    ((IF n * kBloomFilterPerKeySize < 64 THEN 64 ELSE n * kBloomFilterPerKeySize)
        + 7) \div 8

\* Wrong: one probe too few.
CreateFilter_Short(keys) ==
    LET bytes == FilterBytes(Len(keys))
        set == UNION {Probes(keys[i], k_ - 1, 8 * bytes) : i \in DOMAIN keys}
    IN  [i \in 1..bytes |-> SetBits({b \in 0..7 : 8 * (i - 1) + b \in set})]
        \o <<k_>>

\* The bits of all keys, followed by the number of probes.
CreateFilter(keys) ==
    LET bytes == FilterBytes(Len(keys))
        set == UNION {Probes(keys[i], k_, 8 * bytes) : i \in DOMAIN keys}
    IN  [i \in 1..bytes |-> SetBits({b \in 0..7 : 8 * (i - 1) + b \in set})]
        \o <<k_>>

\* The last byte says how many probes; above 30 everything matches, which is
\* also what a negative char becomes.
KeyMayMatch(key, filter) ==
    LET k == filter[Len(filter)] IN
    /\ Len(filter) >= 2
    /\ \/ k > 30
       \/ \A p \in Probes(key, k, 8 * (Len(filter) - 1)) :
              HasBit(filter[p \div 8 + 1], p % 8)

-----------------------------------------------------------------------------
(* FilterBlockBuilder *)

NewFilterBlock == [keys |-> <<>>, filter_offsets |-> <<>>, result |-> <<>>]

AddKey(f, key) == [f EXCEPT !.keys = Append(@, key)]

GenerateFilter(f) ==
    [keys |-> <<>>,
     filter_offsets |-> Append(f.filter_offsets, Len(f.result)),
     result |-> IF f.keys = <<>> THEN f.result
                ELSE f.result \o CreateFilter(f.keys)]

\* Wrong: the keys so far are forgotten.
StartBlock_Drops(f, block_offset) ==
    LET missing == block_offset \div kFilterBase - Len(f.filter_offsets)
        g == GenerateFilter([f EXCEPT !.keys = <<>>])
    IN  IF missing <= 0 THEN f
        ELSE [g EXCEPT !.filter_offsets =
                  @ \o [i \in 1..(missing - 1) |-> Len(g.result)]]

\* GenerateFilter for every base up to the offset: the first call takes the
\* keys, the others find none.
StartBlock(f, block_offset) ==
    LET missing == block_offset \div kFilterBase - Len(f.filter_offsets)
        g == GenerateFilter(f)
    IN  IF missing <= 0 THEN f
        ELSE [g EXCEPT !.filter_offsets =
                  @ \o [i \in 1..(missing - 1) |-> Len(g.result)]]

\* The filters, where each starts, where these offsets start, and the base.
FinishFilterBlock(f) ==
    LET g == IF f.keys = <<>> THEN f ELSE GenerateFilter(f)
    IN  g.result
        \o AppendAll([i \in DOMAIN g.filter_offsets |->
                         PutFixed32(g.filter_offsets[i])])
        \o PutFixed32(Len(g.result)) \o <<kFilterBaseLg>>

-----------------------------------------------------------------------------
(* FilterBlockReader *)

\* The filter of a block's offset; what cannot be read may match.
ReaderMayMatch(contents, block_offset, key) ==
    LET n == Len(contents)
        word(at) == DecodeFixed32(SubSeq(contents, at + 1, at + 4))
        array == word(n - 5)
        num == (n - 5 - array) \div 4
        index == block_offset \div 2^contents[n]
        start == word(array + index * 4)
        limit == word(array + index * 4 + 4)
    IN  \/ n < 5 \/ array > n - 5 \/ index >= num
        \/ ~(start <= limit /\ limit <= array) /\ start # limit
        \/ start <= limit /\ limit <= array
           /\ KeyMayMatch(key, SubSeq(contents, start + 1, limit))

=============================================================================
