------------------------------- MODULE Table --------------------------------
(***************************************************************************)
(* A table file from BuildTable to the reader: TableBuilder fills blocks   *)
(* from the memtable's sorted entries and writes them, with an index and a *)
(* footer, through a buffered file; SSTable::Open and its iterator read    *)
(* them back.  Keys are the bytes of internal keys.  The file is a         *)
(* sequence of cells: an entry takes EntrySize[key] cells, a byte of the   *)
(* filter block and an index entry one each, and the footer one for its    *)
(* handles and one for its padding.  The file below is the append stream   *)
(* that WritableFile implements.                                           *)
(***************************************************************************)
EXTENDS Filter

CONSTANTS
    Keys,         \* internal keys whose user keys have no zero byte
    EntrySize,    \* key -> size of its entry in a block
    kBlockSize,
    MaxEntries,   \* bound: entries of the memtable
    MaxFaults     \* bound: writes that fail

ASSUME SizeAssumption == EntrySize \in [Keys -> Nat \ {0}]
ASSUME KeysAssumption ==
    \A k \in Keys : /\ k \in Seq(Byte) /\ Len(k) >= kTagSize
                    /\ CString(UserKey(k)) = UserKey(k)
ASSUME TableAssumption ==
    /\ Keys = DOMAIN BloomHash /\ kBlockSize \in Nat \ {0}
    /\ MaxEntries \in Nat \ {0} /\ MaxFaults \in Nat
\* An int; the offsets in the filter block have 32 bits.
ASSUME BlockAssumption == kBlockSize \div 16777216 < 128

VARIABLES
    entries,    \* the keys of the memtable, in order
    added,      \* how many of them BuildTable has added
    phase,      \* of BuildTable: "add", then "built", "removed", or an assert:
                \* "misordered", "aborted"; of the reader: "open", "unreadable",
                \* "freed"
    rep,        \* TableBuilder::Rep and the file it writes
    block,      \* the data block that the reader's iterator is in
    pos,        \* its entry: 0 before the first, Len(block) + 1 past the end
    sought,     \* the target of the last Seek, <<>> when there was none since
    got         \* the last InternalGet: its target, and if it found it

vars == <<entries, added, phase, rep, block, pos, sought, got>>

NoHandle == [offset |-> 0, size |-> 0]

NewRep ==
    [data_block |-> <<>>, index_block |-> <<>>, filter_block |-> NewFilterBlock,
     offset |-> 0, closed |-> FALSE, block_handle |-> NoHandle,
     pending_index_block |-> FALSE, last_key |-> <<>>, status |-> "ok",
     stream |-> <<>>, disk |-> <<>>, faults |-> 0]

Less(a, b) == InternalKeyCompare(a, b) = -1

Ascending(keys) ==
    \A i, j \in DOMAIN keys : i < j => Less(keys[i], keys[j])

\* A memtable with at least one entry: an empty one fails the assert of
\* SeekToFirst.
Init ==
    /\ \E n \in 1..MaxEntries : entries \in [1..n -> Keys]
    /\ Ascending(entries)
    /\ added = 0
    /\ phase = "add"
    /\ rep = NewRep
    /\ block = <<>> /\ pos = 0 /\ sought = <<>>
    /\ got = [target |-> <<>>, hit |-> FALSE]

-----------------------------------------------------------------------------
(* What is in the file *)

Cell(kind, a, b) == <<kind, a, b>>

\* Cells of a footer: its handles and its padding.
kFixedFooterSize == 2

\* BlockBuilder::Add, entry after entry.
EncodeEntry(key) == [c \in 1..EntrySize[key] |-> Cell("entry", key, c)]

Encode(keys) == AppendAll([i \in DOMAIN keys |-> EncodeEntry(keys[i])])

EncodeIndex(index) ==
    [i \in DOMAIN index |-> Cell("index", index[i][1], index[i][2])]

EncodeFilter(bytes) == [i \in DOMAIN bytes |-> Cell("filter", bytes[i], i)]

\* The outcomes of WritableFile::Append: the content joins the stream, or a
\* write fails and leaves a part of the stream on disk.
FileAppend(r, content) ==
    LET all == r.stream \o content IN
    {[r EXCEPT !.status = "ok", !.stream = all]} \cup
    {[r EXCEPT !.status = "error", !.faults = @ + 1,
               !.stream = SubSeq(all, 1, n), !.disk = SubSeq(all, 1, n)] :
        n \in {m \in Len(r.disk)..(Len(all) - 1) : r.faults < MaxFaults}}

\* The outcomes of WritableFile::Flush.
FileFlush(r) ==
    {[r EXCEPT !.status = "ok", !.disk = r.stream]} \cup
    {[r EXCEPT !.status = "error", !.faults = @ + 1,
               !.stream = SubSeq(r.stream, 1, n),
               !.disk = SubSeq(r.stream, 1, n)] :
        n \in {m \in Len(r.disk)..(Len(r.stream) - 1) : r.faults < MaxFaults}}

-----------------------------------------------------------------------------
(* TableBuilder *)

\* The handle is set, and the offset moves, when the write succeeds.
WriteBlock(r, content) ==
    {IF s.status = "ok"
     THEN [s EXCEPT !.offset = @ + Len(content),
                    !.block_handle = [offset |-> s.offset,
                                      size |-> Len(content)]]
     ELSE s : s \in FileAppend(r, content)}

\* Wrong: no index entry is left to do.
TableFlush_Forgets(r) ==
    IF r.data_block = <<>> THEN {r}
    ELSE UNION {IF s.status = "ok"
                THEN FileFlush([s EXCEPT !.filter_block = StartBlock(@, s.offset)])
                ELSE {s} : s \in WriteBlock(r, Encode(r.data_block))}

\* The data block is written and keeps its entries; its filter is started
\* whether or not the file could be flushed.
TableFlush(r) ==
    IF r.data_block = <<>> THEN {r}
    ELSE UNION {IF s.status = "ok"
                THEN FileFlush([s EXCEPT !.pending_index_block = TRUE,
                                         !.filter_block = StartBlock(@, s.offset)])
                ELSE {s} : s \in WriteBlock(r, Encode(r.data_block))}

\* The entry (last_key, block_handle) of the block written last.
AddIndexEntry(r) ==
    IF r.pending_index_block
    THEN [r EXCEPT !.index_block = Append(@, <<r.last_key, r.block_handle>>),
                   !.pending_index_block = FALSE]
    ELSE r

\* assert(r->data_block.Empty()) at the start of a block.
StartsOnEmptyBlock(r) == r.pending_index_block => r.data_block = <<>>

\* TableBuilder::Add after its asserts.
TableAdd(r, key) ==
    LET i == AddIndexEntry(r)
        s == [i EXCEPT !.data_block = Append(@, key), !.last_key = key,
                       !.filter_block = AddKey(@, key)]
    IN IF Len(Encode(s.data_block)) >= kBlockSize THEN TableFlush(s) ELSE {s}

\* Finish after its Flush: filter block, index block and footer.  The footer
\* is appended as a C string, which ends where its padding of zero bytes
\* starts (its four varints are of numbers greater than 0), while the offset
\* moves by the whole footer.  The result of the last Flush of the file is not
\* looked at.
FinishTail(r) ==
    LET contents == EncodeFilter(FinishFilterBlock(r.filter_block))
        handle == [offset |-> r.offset, size |-> Len(contents)]
        filter == {IF s.status = "ok"
                   THEN [s EXCEPT !.offset = @ + Len(contents)] ELSE s :
                      s \in FileAppend(r, contents)}
        index(s) ==
            LET t == AddIndexEntry(s) IN
            WriteBlock(t, EncodeIndex(t.index_block))
        footer(s) == FileAppend(s, <<Cell("footer", s.block_handle, handle)>>)
        last(s) == {[t EXCEPT !.status = "ok", !.offset = @ + kFixedFooterSize] :
                       t \in FileFlush(s)}
        then(S, Step(_)) ==
            UNION {IF s.status = "ok" THEN Step(s) ELSE {s} : s \in S}
    IN then(then(then(filter, index), footer), last)

TableFinish(r) ==
    UNION {IF s.status = "ok" THEN FinishTail([s EXCEPT !.closed = TRUE])
           ELSE {[s EXCEPT !.closed = TRUE]} : s \in TableFlush(r)}

-----------------------------------------------------------------------------
(* BuildTable *)

\* assert that key comes after last_key.c_str().
Ordered(key) ==
    rep.last_key = <<>> \/ CompareWithCut(key, rep.last_key) = 1

Add ==
    /\ phase = "add" /\ added < Len(entries)
    /\ Ordered(entries[added + 1]) /\ StartsOnEmptyBlock(rep)
    /\ rep' \in TableAdd(rep, entries[added + 1])
    /\ added' = added + 1
    /\ UNCHANGED <<entries, phase, block, pos, sought, got>>

\* The assert on the order fails and the process ends.
AddMisordered ==
    /\ phase = "add" /\ added < Len(entries)
    /\ ~Ordered(entries[added + 1])
    /\ phase' = "misordered"
    /\ UNCHANGED <<entries, added, rep, block, pos, sought, got>>

\* The assert on the block fails and the process ends.
AddAborts ==
    /\ phase = "add" /\ added < Len(entries)
    /\ Ordered(entries[added + 1]) /\ ~StartsOnEmptyBlock(rep)
    /\ phase' = "aborted"
    /\ UNCHANGED <<entries, added, rep, block, pos, sought, got>>

\* An error removes the file.
Finish ==
    /\ phase = "add" /\ added = Len(entries)
    /\ rep' \in TableFinish(rep)
    /\ phase' = IF rep'.status = "ok" THEN "built" ELSE "removed"
    /\ UNCHANGED <<entries, added, block, pos, sought, got>>

-----------------------------------------------------------------------------
(* SSTable::Open and the iterator *)

\* The cells that pread returns for a handle: fewer at the end of the file.
ReadBlock(handle) ==
    SubSeq(rep.disk, handle.offset + 1,
           IF handle.offset + handle.size <= Len(rep.disk)
           THEN handle.offset + handle.size ELSE Len(rep.disk))

\* Where Open reads the footer: kFixedFooterSize before FileSize.  The read
\* returns only the handles, which is all that DecodeFrom needs.
FooterAt == rep.offset - kFixedFooterSize + 1

HasFooter ==
    FooterAt \in DOMAIN rep.disk /\ rep.disk[FooterAt][1] = "footer"

IndexBlock == ReadBlock(rep.disk[FooterAt][2])

\* The bytes of the filter block.
FilterBlock ==
    LET cells == ReadBlock(rep.disk[FooterAt][3])
    IN  [i \in DOMAIN cells |-> cells[i][2]]

\* The block of the i-th index entry.
DataBlock(i) == ReadBlock(IndexBlock[i][3])

\* The keys that Next finds in a block, entry after entry.
KeysOf(cells) ==
    LET read[n \in 0..Len(cells)] ==
            IF n = 0 THEN [keys |-> <<>>, offset |-> 0]
            ELSE LET before == read[n - 1]
                     key == cells[before.offset + 1][2]
                 IN  IF before.offset < Len(cells)
                     THEN [keys |-> Append(before.keys, key),
                           offset |-> before.offset + EntrySize[key]]
                     ELSE before
    IN  read[Len(cells)].keys

IsIndex(cells) == cells # <<>> /\ \A i \in DOMAIN cells : cells[i][1] = "index"

IsFilter(cells) ==
    cells # <<>> /\ \A i \in DOMAIN cells : cells[i][1] = "filter"

IsData(cells) ==
    /\ cells # <<>> /\ \A i \in DOMAIN cells : cells[i][1] = "entry"
    /\ cells = Encode(KeysOf(cells))

\* The file can be read: footer, index, filter and every block are where the
\* handles say.  Reading anything else is reading bytes of another kind.
Readable ==
    /\ HasFooter /\ IsIndex(IndexBlock)
    /\ IsFilter(ReadBlock(rep.disk[FooterAt][3]))
    /\ \A i \in DOMAIN IndexBlock : IsData(DataBlock(i))

\* The iterator stands before the first entry of the first block.
SeekToFirst ==
    block' = KeysOf(DataBlock(1)) /\ pos' = 0

\* Open, and an iterator that is sent to the first entry.
Open ==
    /\ phase = "built" /\ Readable
    /\ phase' = "open"
    /\ SeekToFirst
    /\ UNCHANGED <<entries, added, rep, sought, got>>

OpenFails ==
    /\ phase = "built" /\ ~Readable
    /\ phase' = "unreadable"
    /\ UNCHANGED <<entries, added, rep, block, pos, sought, got>>

\* Index in keys of the first key that is not less than the target.
FirstNotLess(keys, target) ==
    Min({i \in DOMAIN keys : ~Less(keys[i], target)} \cup {Len(keys) + 1})

\* The block that the index leads to; past its end the iterator stays.
SeekBlock(target, from) ==
    LET index == [i \in DOMAIN IndexBlock |-> IndexBlock[i][2]]
        i == FirstNotLess(index, target)
    IN  IF i <= Len(index) THEN KeysOf(DataBlock(i)) ELSE from

\* Wrong: passes a key that is equal to the target.
Seek_Beyond(target) ==
    /\ phase = "open"
    /\ block' = SeekBlock(target, block)
    /\ pos' = FirstNotLess(block', target) +
              (IF target \in Range(block') THEN 1 ELSE 0)
    /\ sought' = target
    /\ UNCHANGED <<entries, added, phase, rep, got>>

Seek(target) ==
    /\ phase = "open"
    /\ block' = SeekBlock(target, block)
    /\ pos' = FirstNotLess(block', target)
    /\ sought' = target
    /\ UNCHANGED <<entries, added, phase, rep, got>>

\* One index entry leads to the only block, so its end is the end.
NextEntry ==
    /\ phase = "open" /\ pos <= Len(block)
    /\ pos' = pos + 1
    /\ sought' = <<>>
    /\ UNCHANGED <<entries, added, phase, rep, block, got>>

\* InternalGet asks the filter up to its first zero byte, then an iterator of
\* its own for exactly the target.
Finds(target) ==
    /\ KeyMayMatch(target, CString(FilterBlock))
    /\ target \in Range(SeekBlock(target, KeysOf(DataBlock(1))))

\* A value that is found is read from the iterator after it was deleted: the
\* old memory may still hold it, or the process ends (InternalGetDies).
InternalGet(target) ==
    /\ phase = "open"
    /\ got' = [target |-> target, hit |-> Finds(target)]
    /\ UNCHANGED <<entries, added, phase, rep, block, pos, sought>>

InternalGetDies(target) ==
    /\ phase = "open" /\ Finds(target)
    /\ phase' = "freed"
    /\ UNCHANGED <<entries, added, rep, block, pos, sought, got>>

-----------------------------------------------------------------------------

Next ==
    \/ Add \/ AddMisordered \/ AddAborts \/ Finish
    \/ Open \/ OpenFails
    \/ NextEntry
    \/ \E target \in Keys :
          Seek(target) \/ InternalGet(target) \/ InternalGetDies(target)

Spec == Init /\ [][Next]_vars

-----------------------------------------------------------------------------
(* Properties *)

\* The entries that the file leads to, block after block.
Stored ==
    AppendAll([i \in DOMAIN IndexBlock |-> KeysOf(DataBlock(i))])

\* A table that was built reads back as the memtable's entries, each once and in
\* order, whatever their sizes and even when the only block was written twice.
\* After a failed write whose status was overwritten or not looked at, the file
\* may not be readable; if it is, no entry is missing.
RoundTrip ==
    phase \in {"built", "open", "unreadable"} =>
        /\ rep.faults = 0 => Readable
        /\ Readable => Stored = entries

\* Seek stops at the first entry that is not less than its target.
SeekIsRight ==
    phase = "open" /\ sought # <<>> /\ rep.faults = 0 =>
        /\ \A i \in 1..(pos - 1) : Less(block[i], sought)
        /\ pos <= Len(block) => ~Less(block[pos], sought)
        /\ pos > Len(block) => \A i \in DOMAIN entries : Less(entries[i], sought)

\* What the asserts of TableBuilder::Add say: a key that comes after the last one
\* is found to come after it, and a block that was written is empty when the
\* next entry comes.  The code compares with last_key.c_str(), and Flush does
\* not clear the block, so neither holds for every memtable.
AddAssertsHold == phase \notin {"misordered", "aborted"}

\* When the assert on the block fails: exactly at the entry after the one that
\* reaches kBlockSize, because Flush does not clear the block.
FullBlockFailsAssert ==
    LET size(n) == Len(Encode(SubSeq(entries, 1, n))) IN
    rep.faults = 0 =>
        /\ phase \in {"built", "open", "freed"} =>
               size(Len(entries) - 1) < kBlockSize
        /\ phase = "aborted" =>
               size(added) >= kBlockSize /\ size(added - 1) < kBlockSize

\* When the assert on the order fails: only after a short user key (with what
\* c_str() leaves of its tag, below eight bytes) that the next one repeats or
\* extends, and always when the next one repeats it.
ShortKeyFailsAssert ==
    LET short(k) == Len(CString(k)) < kTagSize IN
    /\ phase = "misordered" =>
           /\ short(rep.last_key)
           /\ StartsWith(UserKey(entries[added + 1]), UserKey(rep.last_key))
    /\ \A i \in 2..added :
           UserKey(entries[i]) = UserKey(entries[i - 1]) => ~short(entries[i - 1])

\* InternalGet finds nothing that is not in the table, and finds what is in it
\* if no byte of the filter's bit array is zero; otherwise the cut filter may
\* deny a key of the table.
GetIsRight ==
    got.target # <<>> /\ rep.faults = 0 =>
        LET stored == got.target \in Range(entries)
            bits == SubSeq(CreateFilter(entries), 1, FilterBytes(Len(entries)))
        IN  /\ got.hit => stored
            /\ stored /\ 0 \notin Range(bits) => got.hit

\* The filter block itself denies no key of the block, for a reader that gets
\* all of it, unless the block was written twice: then the offset in the index
\* belongs to a filter without keys.
FilterKeepsKeys ==
    phase = "built" /\ rep.faults = 0 =>
        LET handle == IndexBlock[1][3] IN
        \A i \in DOMAIN entries :
            handle.offset = 0 => ReaderMayMatch(FilterBlock, handle.offset, entries[i])

=============================================================================
