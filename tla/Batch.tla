------------------------------- MODULE Batch --------------------------------
(***************************************************************************)
(* The bytes of a write: WriteBatch collects Put and Delete calls in one   *)
(* byte string, InsertAll takes it apart again and makes a memtable key of *)
(* every operation, Memtable::Get looks one up.  One thread at a time uses *)
(* them: DBimpl calls InsertAll and Get under rwlock_.                     *)
(***************************************************************************)
EXTENDS Encoding

CONSTANTS
    Batches,      \* WriteBatch objects
    Keys,         \* user keys, any bytes
    Values,       \* values, any bytes
    NotFound,
    MaxOps,       \* bound: operations in all batches together
    MaxSequence   \* bound: no write takes last_sequence_ past it

ASSUME ByteAssumption == Keys \cup Values \subseteq Seq(Byte)
ASSUME BatchesAssumption == IsFiniteSet(Batches)
\* The count of a batch has 32 bits, the number in a tag 56.
ASSUME BoundAssumption ==
    /\ MaxOps \in Nat /\ MaxOps \div 16777216 < 256
    /\ MaxSequence \in Nat /\ (MaxSequence \div 16777216) \div 16777216 < 256
ASSUME NotFoundAssumption == NotFound \notin Seq(Byte)

VARIABLES
    rep_,            \* the bytes of each batch
    memtable,        \* the memtable keys in the skip list
    last_sequence_,
    calls,           \* history: the operations of each batch
    written          \* history: the operations of all writes, in order

vars == <<rep_, memtable, last_sequence_, calls, written>>

kWriteBatchHeader == 12

-----------------------------------------------------------------------------
(* WriteBatch *)

\* WriteBatch::Clear
Cleared == [i \in 1..kWriteBatchHeader |-> 0]

Init ==
    /\ rep_ = [b \in Batches |-> Cleared]
    /\ memtable = {} /\ last_sequence_ = 1
    /\ calls = [b \in Batches |-> <<>>]
    /\ written = <<>>

\* WriteBatchInternal: sequence(8) | count(4), then the operations.
Sequence(r) == DecodeFixed64(SubSeq(r, 1, 8))

Count(r) == DecodeFixed32(SubSeq(r, 9, 12))

Operations(r) == Advance(r, kWriteBatchHeader)

SetCount(r, count) == SubSeq(r, 1, 8) \o PutFixed32(count) \o Operations(r)

SetSequence(r, number) == PutFixed64(number) \o Advance(r, 8)

Room(n) ==
    Cardinality(UNION {{b} \X DOMAIN calls[b] : b \in Batches}) + n <= MaxOps

Put(b, key, value) ==
    /\ Room(1)
    /\ rep_' = [rep_ EXCEPT ![b] =
           SetCount(@, Count(@) + 1) \o <<kTypeValue>>
           \o PutLengthPrefixedSlice(key) \o PutLengthPrefixedSlice(value)]
    /\ calls' = [calls EXCEPT ![b] =
           Append(@, [type |-> kTypeValue, key |-> key, value |-> value])]
    /\ UNCHANGED <<memtable, last_sequence_, written>>

Delete(b, key) ==
    /\ Room(1)
    /\ rep_' = [rep_ EXCEPT ![b] =
           SetCount(@, Count(@) + 1) \o <<kTypeDeletion>>
           \o PutLengthPrefixedSlice(key)]
    /\ calls' = [calls EXCEPT ![b] =
           Append(@, [type |-> kTypeDeletion, key |-> key, value |-> <<>>])]
    /\ UNCHANGED <<memtable, last_sequence_, written>>

Clear(b) ==
    /\ calls[b] # <<>>
    /\ rep_' = [rep_ EXCEPT ![b] = Cleared]
    /\ calls' = [calls EXCEPT ![b] = <<>>]
    /\ UNCHANGED <<memtable, last_sequence_, written>>

\* dst.Append(src); a batch may be appended to itself.
AppendBatch(dst, src) ==
    /\ calls[src] # <<>> /\ Room(Len(calls[src]))
    /\ rep_' = [rep_ EXCEPT ![dst] =
           SetCount(@, Count(rep_[src]) + Count(@)) \o Operations(rep_[src])]
    /\ calls' = [calls EXCEPT ![dst] = @ \o calls[src]]
    /\ UNCHANGED <<memtable, last_sequence_, written>>

\* The loop of InsertAll, and of Iterate, over count operations.
ReadOperations(s, count) ==
    LET read[n \in 0..count] ==
            IF n = 0 THEN [ops |-> <<>>, rest |-> s]
            ELSE LET before == read[n - 1]
                     type == Head(before.rest)
                     key == GetLengthPrefixedSlice(Tail(before.rest))
                     value == IF type = kTypeValue
                              THEN GetLengthPrefixedSlice(key.rest)
                              ELSE [value |-> <<>>, rest |-> key.rest]
                 IN  [ops |-> Append(before.ops,
                                     [type |-> type, key |-> key.value,
                                      value |-> value.value]),
                      rest |-> value.rest]
    IN  read[count].ops

Iterate(r) == ReadOperations(Operations(r), Count(r))

\* InsertAll passes a deletion the value " ", and a value as a C string.
Inserted(op) == IF op.type = kTypeValue THEN CString(op.value) ELSE <<32>>

\* InsertAll: the number grows before each key, which ends at a zero byte.
InsertAll(r) ==
    LET ops == Iterate(r)
    IN  {CreateMemtableKey(CString(ops[i].key),
                           Tag(Sequence(r) + i, ops[i].type),
                           Inserted(ops[i])) : i \in DOMAIN ops}

\* Wrong: every write takes one number.
Write_One(b) ==
    /\ calls[b] # <<>> /\ last_sequence_ + Len(calls[b]) <= MaxSequence
    /\ rep_' = [rep_ EXCEPT ![b] = SetSequence(@, last_sequence_)]
    /\ last_sequence_' = last_sequence_ + 1
    /\ memtable' = memtable \cup InsertAll(rep_'[b])
    /\ written' = written \o calls[b]
    /\ UNCHANGED calls

\* DBimpl::Write of a batch that is alone in its group, lines 149-152.
Write(b) ==
    /\ calls[b] # <<>> /\ last_sequence_ + Len(calls[b]) <= MaxSequence
    /\ rep_' = [rep_ EXCEPT ![b] = SetSequence(@, last_sequence_)]
    /\ last_sequence_' = last_sequence_ + Count(rep_'[b])
    /\ memtable' = memtable \cup InsertAll(rep_'[b])
    /\ written' = written \o calls[b]
    /\ UNCHANGED calls

-----------------------------------------------------------------------------
(* Memtable *)

MemtableKeyCompare(a, b) ==
    InternalKeyCompare(ExtractInternalKey(a), ExtractInternalKey(b))

\* Memtable::Get for the key that DBimpl::Get makes.
Get(key) ==
    LET probe == CreateMemtableKey(key, SeekTag, <<>>)
        rest == {m \in memtable : MemtableKeyCompare(m, probe) # -1}
        first == {m \in rest : \A n \in rest : MemtableKeyCompare(m, n) # 1}
    IN  IF \E m \in first : UserKey(ExtractInternalKey(m)) = key
        THEN ExtractValue(CHOOSE m \in first : TRUE) ELSE NotFound

-----------------------------------------------------------------------------

Next ==
    \/ \E b \in Batches, key \in Keys :
          \/ \E value \in Values : Put(b, key, value)
          \/ Delete(b, key)
    \/ \E b \in Batches : Clear(b) \/ Write(b)
    \/ \E dst, src \in Batches : AppendBatch(dst, src)

Spec == Init /\ [][Next]_vars

-----------------------------------------------------------------------------
(* Properties *)

\* A batch holds the Put, Delete and Append calls made on it since Clear, in
\* order and with all their bytes, whatever their lengths and zero bytes, and
\* its count is their number; numbering and inserting it changes none of them.
BatchHoldsCalls ==
    \A b \in Batches :
        Count(rep_[b]) = Len(calls[b]) /\ Iterate(rep_[b]) = calls[b]

\* A key without a zero byte is found with the value of the last operation on
\* it, when that is a Put of a value without a zero byte, and is not found when
\* nothing was written to it.  Nothing is said where InsertAll departs from what
\* a store of byte arrays promises: keys and values end at their first zero
\* byte, so a write to another key may replace this one's, and a deleted key is
\* found with the value " ".
GetsLastWrite ==
    \A key \in {k \in Keys : CString(k) = k} :
        LET on == {i \in DOMAIN written : CString(written[i].key) = key}
            last == written[Max(on)]
        IN  /\ on = {} => Get(key) = NotFound
            /\ /\ on # {}
               /\ last.key = key /\ last.type = kTypeValue
               /\ CString(last.value) = last.value
               => Get(key) = last.value

\* Every operation that was ever inserted has a number of its own, and the
\* numbers are 2 to last_sequence_: nothing in the skip list is overwritten.
NumbersExact ==
    /\ Cardinality(memtable) = last_sequence_ - 1
    /\ {Number(ExtractInternalKey(m)) : m \in memtable} =
           {Number(Tag(n, kTypeValue)) : n \in 2..last_sequence_}

\* The manifest that DumpManifest writes for tables made of the memtable reads
\* back as it was, although its header is written as a C string and the first
\* and the last internal key of a table contain zero bytes.
ManifestReadsBack ==
    LET keys == {ExtractInternalKey(m) : m \in memtable}
    IN  \A first, last \in keys, n \in 1..2 :
            (\A k \in keys : /\ InternalKeyCompare(first, k) # 1
                             /\ InternalKeyCompare(last, k) # -1)
            => LET meta == [file_size |-> 100 * last_sequence_, number |-> 1,
                            smallest_key |-> first, largest_key |-> last]
                   metas == [i \in 1..n |-> meta]
               IN  ReadManifest(DumpManifest(metas, last_sequence_)) =
                       [metas |-> metas, last_sequence |-> last_sequence_]

=============================================================================
