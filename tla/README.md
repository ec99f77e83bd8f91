# A TLA+ model of KoishiDB

KoishiDB is a key-value store in C++: an LSM tree with one memtable, one
immutable memtable and level-0 tables only, behind a small TCP server. This
directory holds TLA+ modules translated from its code, TLC configurations that
check them on small instances, and TLAPS proofs of the central invariants.
`PROJECT.json` lists, for every definition that models code, the lines it stands
for, and every run, mutant, finding, hazard and theorem.

## The system

| Part | Code | Module |
|---|---|---|
| Write, Get, compaction, destructor | `db_impl.cc`, `write_batch.cc`, `memtable.cc` | `DBImpl` |
| Restarts, the manifest, table numbers | `db_impl.cc`, `builder.cc` | `Directory` |
| Internal keys and their two comparators | `key.cc`, `util.cc`, `memtable.h` | `KeyOrder` (numbers), `Encoding` (bytes) |
| Integers, slices, keys and FileMetas as bytes | `encode.cc`, `util.cc`, `slice.cc`, `sstable.cc` | `Encoding` |
| Write batches and memtable keys as bytes | `write_batch.cc`, `write_batch.h`, `memtable.cc` | `Batch` |
| Skip list of a memtable | `skiplist.h` | `SkipList` |
| Building and reading a table | `builder.cc`, `table_builder.cc`, `block_builder.cc`, `sstable.cc`, the iterators | `Table` |
| Bloom filters and the filter block | `bloom_filter.cc`, `filterblock_builder.cc`, `filterblock_reader.cc` | `Filter` |
| Buffered file | `writable_file.cc` | `WritableFile`, `AppendStream` |
| Thread pool of the server | `thread_pool.h` | `ThreadPool` |
| Event loop, connections, requests | `main.cc`, `concurrent_hashmap.h`, `parser.cpp` | `Server` |

A client's `Write` takes `rwlock_`, makes room (it may turn the memtable into the
immutable one and start a detached compaction thread), and inserts its batch into
the skip list. `Get` reads memtable, immutable memtable and tables under the
shared lock. The compaction thread takes `rwlock_` and calls `BuildTable`, which
writes through a `WritableFile`. The destructor writes the last memtable and the
manifest, from which the next object takes its tables and numbers. The server's
loop turns the readiness of a connection into a task of the pool, which reads a
request, calls the database, answers and closes the connection.

## Modules

**`DBImpl`** (over `KeyOrder`) is one object from its constructor, in a directory
without a manifest, to the end of its destructor. The variables carry the names of
the members. A step is what a thread does between two points where another thread
can interfere; a thread blocked on `rwlock_` has not taken its first step.
`adopt_lock` on the unlocked `cv_lock_` is modelled as it behaves: the wait
releases `cv_lock_`, and `rwlock_` stays locked. `background_compaction_schedule_`
and `Memtable::size_` are not initialised by the code, so their first value is
chosen from `UninitFlags` and `UninitSizes`. `BuildTable` ends in one of the
outcomes of `BuildOutcomes`: `ok`, `torn` (OK although the last write failed),
`open` and `write` (errors) and `assert`. `~DBimpl` changes `immutable_memtable_`,
calls `CompactMemtable` and writes the manifest without `rwlock_`, and its wait for the
compaction thread can be passed while one is pending or running. So both threads go
through `CompactMemtable` in separate steps (`CompactPush`, `CompactRead`,
`CompactKeys`, `CompactEnd`), and the compaction thread's last two lines
(`BackgroundDelete`, `BackgroundNull`) and the destructor's (`DestructorSwap`,
`DestructorEnd`, `DestructorFree`, `DumpManifest`) are steps of their own. `beside`
records that a compaction thread was there when the destructor began to change
`immutable_memtable_`; from then on `torn` is always possible, an increment of
`sstable_number_` may be lost, and two `push_back`s at a time may end the process. The
filter may drop any table from a `Get`. Values are left out: a sequence number
identifies a write.

**`SkipList`** has one loop iteration per step: `Insert`,
`FindFirstGreaterOrEqual`, the iterator and the destructor. `RandomHeight` is a
choice of any height. One call runs at a time, as `rwlock_` ensures.

**`WritableFile`** has one `::write` per step, which may be short or fail; `EINTR`
changes nothing. **`AppendStream`** is what it promises: a stream of which a
growing prefix is on disk, and a failed write loses exactly the rest.

**`Directory`** is a database directory over many objects, one after the other. Steps
are whole calls, and only what outlives an object matters: the files, the manifest
and the numbers taken from it. An object ends in its destructor, in the assert on an
empty memtable, or in a crash, also in the middle of a table or of the manifest. The
destructor may run beside a compaction thread (`DestroyBeside`): then the FileMetas of
their tables have any of the numbers and keys that the two threads can give them
(`Unsure`), and the files with these numbers count as damaged.
`BuildTable` has the outcomes it has in `DBImpl`. Files are opened without `O_TRUNC`,
so a table with a number that is in use overwrites the other's file. A manifest is
`torn` from its first write to its last; opening a torn one is undefined.

**`Encoding`** has the byte formats as operators, a decoder returning what it read and
the rest. Lengths stay below 2^32 and numbers below 2^64, so the ends of the varint loops
at five and ten bytes are not reached. `CString` is what a `Slice` made from a `char*` keeps, and the
model uses it wherever the code makes one. **`Batch`** runs `WriteBatch` and `InsertAll`
on these bytes, next to the history of the calls.

**`Filter`** has the Bloom filter and the filter block; the hash of a key is a
constant of `HashBits` bits, so that every pattern of probes can be chosen.

**`Table`** (over `Filter`) builds a table from a sorted memtable and reads it back.
Keys are bytes; the file is a sequence of cells. Four details of the code shape it.
`TableBuilder::Flush` does not clear the block it has written. The footer is appended
as a C string, so its padding of zero bytes is not written although the offset counts
it: `FileSize` is past the end of the file, and `Open` still finds the footer because
it reads `kFixedFooterSize` before `FileSize` and gets a short read. The assert on the
order of keys compares with `last_key.c_str()`, cut at a zero byte of the tag
(`CompareWithCut`). And `InternalGet` tests keys against the filter block as a C
string. A found value is read from a deleted iterator: it is still there, or the
process ends (`InternalGetDies`). `Abandon` and `BlockBuilder::Reset` have no caller
and are left out.

**`Server`** has one iteration of the loop, or one call of a task, per step. The
lambda captures `conn_fd` and `connection` by reference, so a task reads what the
loop's locals hold at each use; only `Parser::read` has copies of its own. Clients, `epoll` (edges, any order
of events) and the descriptor table (lowest free first) are external. A `::read`
returns any non-empty beginning of what has come. A client may reset its connection:
`::read` then fails, and `Parser::read` leaves the lambda without a return, or `::write`
raises `SIGPIPE`. Of the database a task has only the call, which may wait for ever:
`DBImpl` has its threads.

**`ThreadPool`** has one critical section, notification or task per step, with
spurious wakeups. `std::condition_variable` is external.

`MC*` modules give the constants values for TLC.

## Runs

| Run | Shows |
|---|---|
| `db` | Lock protocol, contents and order of the layers, results of reads, one compaction thread at most, the reasons for which asserts fail; a Write and a scheduled compaction end, unless a writer waits for room or readers never stop |
| `directory` | Complete tables survive restarts, crashes and a destructor beside a compaction thread, sequence numbers stay unique, the manifest only grows and can be opened unless it was cut |
| `batch` | A batch holds its calls, Get finds the last Put, numbers are exact, the manifest reads back |
| `thread_pool` | No task or wakeup is lost; accepted tasks run and the destructor returns |
| `skiplist` | Every level is exact during Insert, searches and walks are right, loops end |
| `writable_file` | The file implements `AppendStream`; nothing is lost without an error |
| `table_safety` | Round trip, Seek and InternalGet of a table; what filters deny |
| `server` | Answers go to the client that asked, the map matches the open descriptors, every client is served if the database returns |

Some of these properties state the exact extent of a weakness of the code, where a
plainer property would be false:

- `TablesSurvive` excepts two kinds of tables. After the first manifest `sstable_number_`
  starts at the count of tables, which is the number of the last one, although
  `db_impl.h:64` calls it a number "that have been not used"; that table is overwritten.
  And the tables that the destructor and a compaction thread built beside each other may
  share a number.
- `AbortsExplained` allows three reasons: a failed compaction, an empty memtable given to
  `CompactMemtable`, and a destructor beside a compaction thread.
- `RoundTrip`: after a write whose failure went unnoticed the file may be unreadable,
  but never lacks an entry silently.
- `GetIsRight` and `FilterKeepsKeys`: a filter with a zero byte may deny a stored key,
  and a block that was written twice belongs to an empty filter.
- `GetsLastWrite` is about keys and values without a zero byte, and about keys whose last
  operation is a Put. `InsertAll` cuts keys and values at their first zero byte, although
  `introduction.md:3` says that they "are arbitrary byte arrays", and `Memtable::Get` finds
  a deleted key with the value `" "`, although `introduction.md:6` lists Delete and the
  protocol at `main.cc:37-39` has an answer for a key that is not there. The model has
  both behaviours; the property makes no claim where they show.
- The properties of `server` hold until one of three things happens that the code does
  not prevent: an event is taken up while a task is unfinished, a closed descriptor is
  given out before it is erased, or an event is older than the close of its connection.
  Until then only a reset of the connection in hand ends the program (`TasksAreDefined`).
- `ServesEveryClient` asks that the calls of the database return, which `db_stall` shows
  they need not, and `CompactionRunsUnlessStalled` that readers stop, since
  `std::shared_mutex` does not promise that a writer gets its turn.

Each property of these runs has a mutant, an operator whose comment starts with
"Wrong:", that makes TLC find the property violated. Check that property alone to see
it: some of these operators break another property of the run sooner.

These runs end in a counterexample, in which the code departs from one of its own
comments, asserts or tests (`findings` in `PROJECT.json` quotes them):

| Run | What happens |
|---|---|
| `db_stall` | A writer that waits for the compaction holds the lock that the compaction needs |
| `db_read_flushed` | A key is not found once its entry is in a table |
| `db_close` | The destructor drops an immutable memtable that is not written yet |
| `table_asserts` | Keys in order fail an assert of `TableBuilder::Add`: a second version of a short user key; the entry after a full block would too |

### Bounds

- `db`: two clients, so that a writer meets a writer or a reader; three keys, two of them
  looked up, so that a table's range can contain a key that it lacks; two entries fill a
  memtable and `MaxSequence = 7` allows several rotations. `torn` is left out of
  `BuildOutcomes`, because `NoEntryLost`, `TablesIntact` and `AbortsExplained` do not
  promise anything with it; it happens beside the destructor all the same.
- `thread_pool`: three workers and four tasks, more tasks than workers.
- `skiplist`: four keys, three levels, every order of insertion, every height.
- `writable_file`: a buffer of 3 and 8 bytes: appends below, at and above the
  buffer, and a direct write after a spill.
- `table_safety`: up to six of seven keys (`MaxEntries = 6`), with two versions of
  a short and of a long user key and the empty user key, entry sizes 1 and 2 and a block of 4, so blocks fill
  exactly and overflow; 16-bit hashes that leave filters with and without zero bytes; at most one failing write.
- `directory`: five writes and a buffer for four tables: several lifetimes, and a
  manifest that outgrows its buffer.
- `batch`: two batches, two operations in them at a time, three sequence numbers; keys
  with a zero byte, keys that are equal up to one, and a key whose length takes two
  bytes.
- `server`: two clients, two descriptors, requests in two parts. One worker is enough:
  a second task at the same time is an overlap, after which nothing is promised; from an
  overlap on only clients that stay are followed (`Followed`).

Symmetry (of batches) is used in `batch` only, which has no temporal property.
Deadlock is not checked: clients may stop calling, the bounds end every behaviour,
and an aborted process takes no step.

### Fairness

A thread inside a call goes on when it can (weak fairness of its steps): the
operating system schedules runnable threads, and the loops do not give up. No
fairness is assumed of new calls, of waits (a condition variable promises
a return only after a notification), of spurious wakeups, of the start of a
destructor, or of the database in the server's tasks. `WritableFile` assumes that `::write` is not interrupted for ever. In
`Server` the loop and the workers are scheduled; clients may stop at any time.

## Proofs

All for every value of the constants that meets the named assumptions.

A leaf names its prover where the default choice is slow in a run over the whole module,
although it takes under a second alone. What a recursive function computes is proved by
the least counterexample (`LeastNumber` of `TableProofs` and `BatchProofs`, from the
well-foundedness of `<`), since the induction rules of the library cannot be
instantiated.

- `DBImplProofs`: `TypeOK /\ Locking` is inductive. `Locking` ties the position of
  each thread to the state of `rwlock_`. It gives `TypeCorrect`, `GroupsNeverForm`
  (no writer ever waits in the queue, so batches are never grouped) and
  `BatchesAreAtomic`.
- `DBImplProofs`, second part: `Inductive` adds how sequence numbers are handed out
  (`Sequencing`), that a running compaction writes the immutable memtable to an
  unused file (`CompactionFresh`), and that each memtable has a newest entry of each
  key. Without these, neither `NoEntryLost` nor `ReadsNewest` is preserved by the end
  of a compaction or by a read. `BoundAssumption` keeps sequence numbers below the 56
  bits of the tag. `NoEntryLost` and `TablesIntact` are about an open object and
  exclude `torn`.
- `DBImplProofs`, end: `Compacting` is inductive on top of `Inductive`. It says which
  `FileMeta` belongs to which running `CompactMemtable` (`Slots`: number 0
  marks the slot of a running one, and no two share a slot), that a `FileMeta` without
  keys belongs to a running or a failed compaction (`Keyless`), that an open object without
  an immutable memtable has no compaction thread, and how far `~DBimpl` has come. From
  it follow `OneCompactor` and `AbortsHaveReasons`. The second needs `Keyless`,
  since an assert of `GetDisk` or `DumpManifest` is explained by the table that it meets,
  and `freed` for the memtable that a compaction thread deletes under `~DBimpl`. All of
  this is proved over every order of the unlocked steps of the two threads.
- `ThreadPoolProofs`: `PoolInvariant` adds `Bookkeeping` (who has a task, when `stop`
  is set, when a worker may have left) to the safety properties.
- `SkipListProofs`: `ListInvariant` adds `LoopPosition` (a loop stands on a linked
  node before its target). `LevelsExact` treats the node being inserted as linked
  only on the levels done so far, which makes it hold between iterations.
- `DirectoryProofs`: `Inductive` is `Numbering /\ Sequencing /\ TablesSurvive`. The
  argument is about numbers: the i-th table of a manifest or of an object has a number
  of at most i, and below i if it came after the first manifest. An object starts at
  the count n of the tables it finds, so its first number is n, which none of them but
  the n-th of the first manifest can have. A crash takes back the numbers of tables
  that no manifest lists, and these may be overwritten. The two tables of a destructor
  beside a compaction thread take the next two numbers, or one of them twice, so they
  overwrite nothing but each other and the excepted table. For any writes, any size of the
  buffer and any set of outcomes of `BuildTable`.
- `WritableFileProofs`: `Calls` says what a call still holds between two steps, and
  `Ordered` that the file followed by the bytes yet to be written is in the order of
  the appends, always, and complete as long as no call has failed. From it follow
  `NothingLostSilently`, `FileInOrder` and, step by step, that `WritableFile` implements
  `AppendStream`, for any size of the buffer.
- `TableProofs`: `TableInv`. `Adding` says that after n entries the builder has exactly
  these in its block, which it never clears, and, as long as no write has failed, that
  the block was written if and only if its last entry made it reach `kBlockSize`. `Laid`
  says what is in the file once `Finish` has returned a good status: earlier copies of
  the block, the block, filter, index entry and footer, or after a failed write a
  beginning of this, perhaps with a wrong offset. Three facts make it work. The reader's
  `Next` inverts the encoding of entries (`KeysReadBack`). Only the whole file has a
  footer where the recorded size says, and then the offsets are right (`FooterIsLast`).
  And the index has one entry, the last key, so a `Seek` past it stays in the block
  (`BlockRead`). It gives `TablesReadBack` and `SeeksStopRight`, and
  `BlockAssertCharacterised`: the assert on an empty block fails exactly at the entry after
  the one that fills it. `OrderAssertCharacterised`, which says when the assert on the order
  of keys fails, also needs that `c_str()` keeps the user key and a part of the tag
  (`CutShape`). With eight bytes left, the cut key's user key is a prefix of the real
  one, so a key that comes later still compares greater; with fewer, its size wraps
  around and the comparison runs into the tag.
  For the filter, `Adding` says that as long as no write has failed the builder has kept
  all keys (`Kept`) or made one filter of all of them, with empty ones after it (`Made`);
  however often `StartBlock` and `GenerateFilter` run, the keys are never split. `Finish`
  therefore writes that filter, its offset 0 and its end, and the base (`FilterLaid`). A
  bit set is the bit tested (`BitsReadBack`), so the filter matches its keys
  (`FilterMatches`). A reader of the whole block gets to it from the last bytes
  (`ReaderMatches`), which is `FiltersKeepKeys`. One that cuts the block at its first zero
  byte gets the filter if it has none, since the offset after it begins with one
  (`CutIsFilter`); with `BlockRead` this gives `GetsAreRight`, by `GetInv`.
  For any keys without zero byte in the user key, any sizes of entries, any hash, any
  `kBlockSize` that is an `int` (`BlockAssumption`, so that the filter's offsets fit their
  32 bits), and any number of entries and failing writes. `HashAssumption` also says that
  powers of two are positive numbers, which the provers do not know.
- `BatchProofs`: `Inv`. Its first half says that the bytes of a batch are a header with
  the count, and its calls encoded one after the other. The other half says that the
  i-th of all operations written (`written`) is in the memtable with the number i + 1, that
  nothing else is there, and that `last_sequence_` agrees (`LogOf`). `Write` extends the log by the batch, so numbers are
  never used twice. What the actions do to bytes is known from lemmas on the encodings:
  each decoder returns what the encoder was given, and leaves what follows it
  (`Fixed32ReadsBack`, `VarintReadsBack`, `SliceReadsBack` and those built on them, up to whole
  batches, entries and manifests). For `Get` two more are needed: the bytes of the tag,
  compared from the top, order entries as their numbers do, and the entry that the skip
  list finds first is therefore the last of its key in `written`. It gives
  `BatchesHoldCalls`, `GetsAreLastWrites`, `NumbersStayExact` and `ManifestsReadBack`, for
  any finite set of batches and any keys and values. `BoundAssumption` keeps counts
  below the 32 bits of the header and sequence numbers below the 56 bits of the tag.
- `ServerProofs`: `ServerInductive` is `TypeOK`, always, and `Orderly` until one of the
  three unguarded orders of events has happened. `Orderly` says that one event is in hand
  at a time, with the loop or with one worker (`OneAtATime`), that the slot, the
  descriptor table and the map agree about it (`SlotCurrent`, `TablesAgree`), that an edge
  or event of an open connection finds something to read unless a task is past its read
  (`EdgesPending`, `EventsPending`), and what has been read of each client and sent to it
  (`BytesInOrder`). A client that was closed never comes back, so an event that is not
  stale is about the client that epoll saw, and a reset one stays readable until its close.
  It gives `TasksStayDefined`, `AnswersAreOwn`
  and `StorageStaysMatched`, for any number of clients, descriptors, workers and parts.

The type invariants (`TypeCorrect`, `PoolTyped`, `ListTyped`, `DirectoryTyped`,
`FileTyped`, and in `ServerStaysOrderly`, `TableStaysLaid` and `BatchesStayWellFormed`), the inductive invariants,
`FileInOrder` and `AccessWithinLevel` (the asserts of `get_n_node` and `set_n_node`) are
proved, and no run repeats them.

Only model-checked: liveness (`WritesReturnUnlessStalled`, `ServesEveryClient` and the
others), which is out of the prover's reach.

## Not modelled

- How `parse_all` splits a request into operation, key and value: a request is the
  parts it was made of.
- Reads of bytes of another kind, which a misplaced handle in a damaged table leads to,
  are one outcome, "unreadable". Opening a torn manifest is one outcome, "undefined".
- The hash function of the filters: any function will do.
- The ends of the varint loops, which a length of 2^32 bytes would reach. `KeyOrder` has
  the width of the tag.
- `DBImpl` and `Directory` are not composed: threads matter within an object, files
  between objects. Where they meet, a destructor beside a compaction thread, `DBImpl` has
  the steps and `Directory` (`DestroyBeside`) what they may leave on disk.
- Keys with a zero byte in a table: `InsertAll` has cut them before.
- The server's tasks do not run `DBImpl`: they call it from several threads as the
  clients of `DBImpl` do.

Left out for good: logging, `Status` and `Option` (values without behaviour),
`TableBuilder::Abandon` and `BlockBuilder::Reset` (no caller), and the hash table in
`memory/`, which nothing uses.
