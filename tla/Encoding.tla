------------------------------ MODULE Encoding ------------------------------
(***************************************************************************)
(* Byte strings: the integers, slices and keys of the store as the code    *)
(* lays them out, and the comparators that read them back.  A byte string  *)
(* is a sequence of numbers below 256.  A decoder returns what it read and *)
(* the rest of its input, as the code advances a Slice.                    *)
(***************************************************************************)
EXTENDS Integers, Sequences, FiniteSetsExt

Byte == 0..255

\* Slice(const char*): everything before the first zero byte.
CString(s) ==
    LET zeros == {i \in DOMAIN s : s[i] = 0}
    IN  IF zeros = {} THEN s ELSE SubSeq(s, 1, Min(zeros) - 1)

\* Slice::Advance
Advance(s, n) == SubSeq(s, n + 1, Len(s))

\* std::string::append, one string after the other.
AppendAll(strings) ==
    LET upTo[n \in 0..Len(strings)] ==
            IF n = 0 THEN <<>> ELSE upTo[n - 1] \o strings[n]
    IN  upTo[Len(strings)]

-----------------------------------------------------------------------------
(* Integers *)

\* EncodeFixed32, PutFixed32: the lowest byte first.
PutFixed32(v) ==
    <<v % 256, (v \div 256) % 256, (v \div 65536) % 256, (v \div 16777216) % 256>>

\* EncodeFixed64, PutFixed64: the lower half first.
PutFixed64(v) == PutFixed32(v) \o PutFixed32((v \div 16777216) \div 256)

DecodeFixed32(s) == s[1] + 256 * s[2] + 65536 * s[3] + 16777216 * s[4]

DecodeFixed64(s) ==
    DecodeFixed32(s) + 16777216 * (256 * DecodeFixed32(SubSeq(s, 5, 8)))

\* PutVarint32, PutVarint64: seven bits in a byte, the top bit if more follow.
PutVarint(v) ==
    LET put[n \in 0..v] ==
            IF n < 128 THEN <<n>> ELSE <<128 + (n % 128)>> \o put[n \div 128]
    IN  put[v]

\* GetVarint32, GetVarint64: up to the first byte without the top bit.
GetVarint(s) ==
    LET last == Min({i \in DOMAIN s : s[i] < 128})
        value[i \in 1..last] ==
            IF i = last THEN s[i] ELSE s[i] - 128 + 128 * value[i + 1]
    IN  [value |-> value[1], rest |-> Advance(s, last)]

\* Wrong: a C string.
PutLengthPrefixedSlice_Cut(s) == PutVarint(Len(CString(s))) \o CString(s)

PutLengthPrefixedSlice(s) == PutVarint(Len(s)) \o s

\* GetLengthPrefixedSlice, and GetVarint32 with GetFixedBytes.
GetLengthPrefixedSlice(s) ==
    LET len == GetVarint(s)
    IN  [value |-> SubSeq(len.rest, 1, len.value),
         rest |-> Advance(len.rest, len.value)]

-----------------------------------------------------------------------------
(* Keys *)

kTypeValue == 1
kTypeDeletion == 2
kTagSize == 8

\* snapshot << 8 | type, in memory order.
Tag(snapshot, type) == PutFixed64(256 * snapshot + type)

\* The tag of a lookup: UINT64_MAX << 8 | kTypeSeek.
SeekTag == <<kTypeValue>> \o [i \in 1..(kTagSize - 1) |-> 255]

\* CreateInternalKey
CreateInternalKey(user_key, tag) == user_key \o tag

\* CreateMemtableKey
CreateMemtableKey(user_key, tag, value) ==
    PutLengthPrefixedSlice(user_key \o tag) \o PutLengthPrefixedSlice(value)

\* ExtractInternalKey and LookupKey::InternalKey
ExtractInternalKey(memtable_key) == GetLengthPrefixedSlice(memtable_key).value

\* ExtractValueFromMemtable
ExtractValue(memtable_key) ==
    GetLengthPrefixedSlice(GetLengthPrefixedSlice(memtable_key).rest).value

\* ExtractUserKey, LookupKey::UserKey and GetSequence.  The number is the tag
\* without its lowest byte; as bytes, highest first, it compares like them.
UserKey(internal_key) ==
    SubSeq(internal_key, 1, Len(internal_key) - kTagSize)

Number(internal_key) ==
    [i \in 1..(kTagSize - 1) |-> internal_key[Len(internal_key) + 1 - i]]

\* Slice::Compare: memcmp over the shorter length, then the lengths.
SliceCompare(a, b) ==
    LET differ == {i \in DOMAIN a \cap DOMAIN b : a[i] # b[i]}
    IN  IF differ # {}
        THEN IF a[Min(differ)] < b[Min(differ)] THEN -1 ELSE 1
        ELSE IF Len(a) < Len(b) THEN -1 ELSE IF Len(a) > Len(b) THEN 1 ELSE 0

StartsWith(s, prefix) ==
    Len(prefix) <= Len(s) /\ \A i \in 1..Len(prefix) : s[i] = prefix[i]

\* Wrong: the older version first.
InternalKeyCompare_Ascending(a, b) ==
    LET r == SliceCompare(UserKey(a), UserKey(b))
    IN  IF r # 0 THEN r ELSE SliceCompare(Number(a), Number(b))

\* InternalKeyComparator::Compare, and MemtableKeyComparator::Compare once the
\* internal keys are taken out: equal user keys, the larger number first.
InternalKeyCompare(a, b) ==
    LET r == SliceCompare(UserKey(a), UserKey(b))
    IN  IF r # 0 THEN r ELSE SliceCompare(Number(b), Number(a))

(***************************************************************************)
(* Compare(key, last.c_str()) as TableBuilder::Add calls it.  The cut key  *)
(* loses the rest of its tag from the first zero byte on.  If eight bytes  *)
(* are left, its user key is a prefix of the real one.  Otherwise the size *)
(* of its user key wraps around to a huge number, and the user key of key  *)
(* is compared with as many bytes of last, the tag included; the bytes of  *)
(* a user key are not zero, so they differ before the end of the tag.      *)
(***************************************************************************)
CompareWithCut(key, last) ==
    LET cut == CString(last)
    IN  IF Len(cut) >= kTagSize THEN InternalKeyCompare(key, cut)
        ELSE IF StartsWith(last, UserKey(key)) THEN -1
        ELSE SliceCompare(UserKey(key), last)

-----------------------------------------------------------------------------
(* The manifest *)

\* Wrong: the keys end at their first zero byte.
EncodeFileMeta_Cut(m) ==
    PutVarint(m.file_size) \o PutVarint(m.number)
    \o PutLengthPrefixedSlice(CString(m.smallest_key))
    \o PutLengthPrefixedSlice(CString(m.largest_key))

EncodeFileMeta(m) ==
    PutVarint(m.file_size) \o PutVarint(m.number)
    \o PutLengthPrefixedSlice(m.smallest_key)
    \o PutLengthPrefixedSlice(m.largest_key)

\* DecodeFileMeta, count times: the loop of ReadManifest.
DecodeFileMetas(s, count) ==
    LET read[n \in 0..count] ==
            IF n = 0 THEN [metas |-> <<>>, rest |-> s]
            ELSE LET before == read[n - 1]
                     size == GetVarint(before.rest)
                     number == GetVarint(size.rest)
                     smallest == GetLengthPrefixedSlice(number.rest)
                     largest == GetLengthPrefixedSlice(smallest.rest)
                 IN  [metas |-> Append(before.metas,
                                       [file_size |-> size.value,
                                        number |-> number.value,
                                        smallest_key |-> smallest.value,
                                        largest_key |-> largest.value]),
                      rest |-> largest.rest]
    IN  read[count].metas

\* DumpManifest; the header is appended as a C string.
DumpManifest(metas, last_sequence) ==
    CString(PutVarint(Len(metas)) \o PutVarint(last_sequence))
    \o AppendAll([i \in DOMAIN metas |-> EncodeFileMeta(metas[i])])

\* ReadManifest
ReadManifest(s) ==
    LET count == GetVarint(s)
        last == GetVarint(count.rest)
    IN  [metas |-> DecodeFileMetas(last.rest, count.value),
         last_sequence |-> last.value]

=============================================================================
