------------------------------- MODULE DBImpl -------------------------------
(***************************************************************************)
(* One DBimpl object, from its constructor on an empty directory to the    *)
(* end of its destructor: client threads in Write and Get, the detached    *)
(* compaction threads they start, and the thread that destroys the object. *)
(*                                                                         *)
(* A step is what one thread does between two points where another thread  *)
(* can interfere.  A thread that is blocked on rwlock_ has not taken its   *)
(* first step yet.  A failed assert, an exception that leaves a destructor *)
(* and a use of a null or deleted pointer end the process: proc becomes    *)
(* "aborted".                                                              *)
(***************************************************************************)
EXTENDS KeyOrder, Sequences, FiniteSetsExt

CONSTANTS
    Clients,           \* threads that call Write and Get
    Background,        \* a thread in BackGroundCall
    Destructor,        \* the thread in ~DBimpl
    NULL,              \* nullptr, and the owner of a free lock
    Batches,           \* the WriteBatches clients write
    Lookups,           \* the keys clients read
    kMaxMemtableSize,  \* in entries
    kGroupGrowth,      \* 128 << 10 in BuildWriteBatchGroup, in entries
    kGroupLimit,       \* 1 << 20 in BuildWriteBatchGroup, in entries
    UninitSizes,       \* what the uninitialised Memtable::size_ may hold
    UninitFlags,       \* same for background_compaction_schedule_
    BuildOutcomes,     \* how BuildTable may end
    MaxSequence        \* bound: no write takes last_sequence_ past it

Op == [key : Keys, type : KeyType]

ASSUME BatchAssumption == Batches \subseteq Seq(Op)
ASSUME LookupAssumption == Lookups \subseteq Keys
ASSUME SizeAssumption == kMaxMemtableSize \in Nat /\ UninitSizes \subseteq Nat
ASSUME GroupAssumption == kGroupGrowth \in Nat /\ kGroupLimit \in Nat
ASSUME FlagAssumption == UninitFlags \subseteq BOOLEAN
ASSUME BoundAssumption == MaxSequence \in Nat \ {0} /\ MaxSequence < SeekSequence
ASSUME ThreadAssumption ==
    /\ NULL \notin Clients \cup {Background, Destructor}
    /\ Background \notin Clients \cup {Destructor}
    /\ Destructor \notin Clients

(***************************************************************************)
(* BuildTable returns OK with the table on disk, returns OK although the   *)
(* last write failed (TableBuilder::Finish ignores the status of the final *)
(* Flush), fails to open the file, fails to write it and removes it, or    *)
(* runs into an assert of TableBuilder::Add.                               *)
(***************************************************************************)
ASSUME OutcomeAssumption ==
    BuildOutcomes \subseteq {"ok", "torn", "open", "write", "assert"}

VARIABLES
    pc,          \* where each client is
    writer,      \* client -> its Writer: the batch, and done
    lookup,      \* client -> the key of its Get
    result,      \* client -> what its Get returns
    writers_,
    rwlock_,     \* exclusive owner and shared owners of the shared_mutex
    cv_lock_,    \* is the mutex of the condition variables locked
    memtable_,
    immutable_memtable_,
    background_compaction_schedule_,
    spawned,     \* compaction threads that do not have rwlock_ yet
    task,        \* Background, Destructor -> its CompactMemtable call
    last_sequence_,
    insertion,   \* InsertAll: number, operations left; and last_writer
    file_metas_,
    sstable_number_,
    disk,        \* sstable number -> entries of the file; {} if unreadable
    manifest,    \* content of the manifest file, NULL if there is none
    proc,        \* life of the object
    freed,       \* has the compaction thread deleted memtable_
    beside       \* was there a compaction thread when ~DBimpl began to compact

callVars == <<pc, writer, lookup, result>>
lockVars == <<writers_, rwlock_, cv_lock_>>
memVars  == <<memtable_, immutable_memtable_>>
bgVars   == <<background_compaction_schedule_, spawned, task>>
seqVars  == <<last_sequence_, insertion>>
fileVars == <<file_metas_, sstable_number_, disk, manifest>>
objVars  == <<proc, freed, beside>>
vars == <<callVars, lockVars, memVars, bgVars, seqVars, fileVars, objVars>>

Memtable == [entries : SUBSET Entry, size : Nat]
FileMeta == [number : Nat, span : SUBSET Entry, built : BOOLEAN]

\* What a thread in CompactMemtable does next: lines 256-258, the read of
\* immutable_memtable_ (260), BuildTable up to the keys, its rest and lines
\* 261-267; and after it in BackGroundCompaction, lines 276 and 277.
CompactSteps == {"push", "read", "build", "write", "delete", "null"}
Compaction ==
    [step : CompactSteps, name : Nat, entries : SUBSET Entry, slot : Nat]

ASSUME NullAssumption == NULL \notin Memtable \cup Compaction

WriterSteps == {"queued", "room", "waitroom", "group", "insert"}
ReaderSteps == {"memory", "disk", "return"}
Phases == {"open", "d_wait", "d_swap", "d_build", "d_free", "d_dump",
           "closed", "aborted"}

\* Types of the variables: the shared state of DBimpl and of every call.
TypeOK ==
    /\ pc \in [Clients -> WriterSteps \cup ReaderSteps \cup {"idle"}]
    /\ writer \in [Clients -> [batch : Seq(Op), done : BOOLEAN]]
    /\ lookup \in [Clients -> Keys \cup {NULL}]
    /\ result \in [Clients -> Entry \cup {NotFound}]
    /\ writers_ \in Seq(Clients)
    /\ rwlock_ \in [owner : Clients \cup {Background, Destructor, NULL},
                    readers : SUBSET Clients]
    /\ cv_lock_ \in BOOLEAN
    /\ memtable_ \in Memtable
    /\ immutable_memtable_ \in Memtable \cup {NULL}
    /\ background_compaction_schedule_ \in BOOLEAN
    /\ spawned \in Nat
    /\ task \in [{Background, Destructor} -> Compaction \cup {NULL}]
    /\ last_sequence_ \in Nat
    /\ insertion \in [number : Nat, todo : Seq(Op), last : Clients \cup {NULL}]
    /\ file_metas_ \in Seq(FileMeta)
    /\ sstable_number_ \in Nat
    /\ DOMAIN disk \subseteq Nat
    /\ \A n \in DOMAIN disk : disk[n] \subseteq Entry
    /\ manifest \in [count : Nat, last : Nat, metas : Seq(FileMeta)] \cup {NULL}
    /\ proc \in Phases
    /\ freed \in BOOLEAN /\ beside \in BOOLEAN

-----------------------------------------------------------------------------
(* The constructor, on a directory without a manifest. *)

NewMemtable == [entries : {{}}, size : UninitSizes]

Init ==
    /\ pc = [c \in Clients |-> "idle"]
    /\ writer = [c \in Clients |-> [batch |-> <<>>, done |-> FALSE]]
    /\ lookup = [c \in Clients |-> NULL]
    /\ result = [c \in Clients |-> NotFound]
    /\ writers_ = <<>>
    /\ rwlock_ = [owner |-> NULL, readers |-> {}]
    /\ cv_lock_ = FALSE
    /\ memtable_ \in NewMemtable
    /\ immutable_memtable_ = NULL
    /\ background_compaction_schedule_ \in UninitFlags
    /\ spawned = 0
    /\ task = [t \in {Background, Destructor} |-> NULL]
    /\ last_sequence_ = 1
    /\ insertion = [number |-> 1, todo |-> <<>>, last |-> NULL]
    /\ file_metas_ = <<>>
    /\ sstable_number_ = 1
    /\ disk = <<>>
    /\ manifest = NULL
    /\ proc = "open"
    /\ freed = FALSE /\ beside = FALSE

-----------------------------------------------------------------------------
(* Write *)

Goto(c, step) == pc' = [pc EXCEPT ![c] = step]

\* rwlock_ after its exclusive owner, or the set of its shared owners, changes.
Owned(t) == [owner |-> t, readers |-> rwlock_.readers]
Shared(R) == [owner |-> rwlock_.owner, readers |-> R]

\* Lines 127-143: the caller waits only behind another writer in the queue.
\* adopt_lock takes cv_lock_ for locked; the wait, or line 138, unlocks it.
WriteLock(c, b) ==
    /\ proc = "open" /\ pc[c] = "idle"
    /\ rwlock_.owner = NULL /\ rwlock_.readers = {}
    /\ last_sequence_ + Len(b) <= MaxSequence
    /\ rwlock_' = Owned(c)
    /\ writers_' = Append(writers_, c)
    /\ writer' = [writer EXCEPT ![c] = [batch |-> b, done |-> FALSE]]
    /\ Goto(c, IF Head(writers_') = c THEN "room" ELSE "queued")
    /\ cv_lock_' = FALSE
    /\ UNCHANGED <<lookup, result, memVars, bgVars, seqVars, fileVars, objVars>>

HasRoom(m) == m.size < kMaxMemtableSize

\* Wrong: a memtable with room has to wait for the compaction too.
RoomLeft_Compacted(c) ==
    /\ pc[c] = "room" /\ HasRoom(memtable_) /\ immutable_memtable_ = NULL
    /\ Goto(c, "group")
    /\ UNCHANGED <<writer, lookup, result, lockVars, memVars, bgVars, seqVars,
                   fileVars, objVars>>

\* MakeRoomForWrite returns.
RoomLeft(c) ==
    /\ pc[c] = "room" /\ HasRoom(memtable_)
    /\ Goto(c, "group")
    /\ UNCHANGED <<writer, lookup, result, lockVars, memVars, bgVars, seqVars,
                   fileVars, objVars>>

\* Wrong: the wait gives rwlock_ back as well.
WaitForCompaction_Unlocks(c) ==
    /\ pc[c] = "room" /\ ~HasRoom(memtable_) /\ immutable_memtable_ # NULL
    /\ Goto(c, "waitroom")
    /\ cv_lock_' = FALSE
    /\ rwlock_' = Owned(NULL)
    /\ UNCHANGED <<writer, lookup, result, writers_, memVars, bgVars, seqVars,
                   fileVars, objVars>>

\* The wait releases cv_lock_; rwlock_ stays locked.
WaitForCompaction(c) ==
    /\ pc[c] = "room" /\ ~HasRoom(memtable_) /\ immutable_memtable_ # NULL
    /\ Goto(c, "waitroom")
    /\ cv_lock_' = FALSE
    /\ UNCHANGED <<writer, lookup, result, writers_, rwlock_, memVars, bgVars,
                   seqVars, fileVars, objVars>>

\* Wrong: starts a thread only if one is already scheduled.
MaybeScheduleCompaction_Inverted ==
    /\ spawned' = IF background_compaction_schedule_ THEN spawned + 1
                  ELSE spawned
    /\ UNCHANGED <<background_compaction_schedule_, task>>

\* Starts a thread, but never sets the flag it tests.
MaybeScheduleCompaction ==
    /\ spawned' = IF background_compaction_schedule_ THEN spawned
                  ELSE spawned + 1
    /\ UNCHANGED <<background_compaction_schedule_, task>>

\* Wrong: a full memtable replaces one that is still being compacted.
SwitchMemtable_Replaces(c) ==
    /\ pc[c] = "room" /\ ~HasRoom(memtable_)
    /\ immutable_memtable_' = memtable_
    /\ memtable_' \in NewMemtable
    /\ MaybeScheduleCompaction
    /\ UNCHANGED <<callVars, lockVars, seqVars, fileVars, objVars>>

SwitchMemtable(c) ==
    /\ pc[c] = "room" /\ ~HasRoom(memtable_) /\ immutable_memtable_ = NULL
    /\ immutable_memtable_' = memtable_
    /\ memtable_' \in NewMemtable
    /\ MaybeScheduleCompaction
    /\ UNCHANGED <<callVars, lockVars, seqVars, fileVars, objVars>>

\* A wait returns, notified or spuriously, with cv_lock_ locked again; then
\* release() leaves it locked, and in Write line 138 unlocks it.
Wake(c) ==
    /\ pc[c] \in {"queued", "waitroom"} /\ ~cv_lock_
    /\ LET finished == pc[c] = "queued" /\ writer[c].done
       IN  /\ Goto(c, IF finished THEN "idle" ELSE "room")
           /\ rwlock_' = IF finished THEN Owned(NULL)
                         ELSE rwlock_
    /\ cv_lock_' = (pc[c] = "waitroom")
    /\ UNCHANGED <<writer, lookup, result, writers_, memVars, bgVars, seqVars,
                   fileVars, objVars>>

BatchSize(i) == Len(writer[writers_[i]].batch)

\* Size of the first n batches of the queue, and how far a group may grow.
GroupBytes(n) ==
    LET bytes[i \in 1..n] == BatchSize(i) + (IF i = 1 THEN 0 ELSE bytes[i - 1])
    IN  bytes[n]

GroupMax == IF BatchSize(1) <= kGroupGrowth THEN BatchSize(1) + kGroupGrowth
            ELSE kGroupLimit

\* How many writers BuildWriteBatchGroup takes from the front of the queue.
GroupLength ==
    Max({n \in 1..Len(writers_) : n = 1 \/ GroupBytes(n) <= GroupMax})

\* Append(result, w->batch) has its arguments swapped: it is the batch of the
\* later writer that grows, and result stays the batch of the first.
BuildWriteBatchGroup(c) ==
    /\ pc[c] = "group"
    /\ LET n == GroupLength
           first == writer[Head(writers_)].batch
       IN  /\ writer' = [w \in Clients |->
                  IF \E i \in 2..n : writers_[i] = w
                  THEN [batch |-> writer[w].batch \o first,
                        done |-> writer[w].done]
                  ELSE writer[w]]
           /\ insertion' = [number |-> last_sequence_, todo |-> first,
                            last |-> writers_[n]]
           /\ last_sequence_' = last_sequence_ + Len(first)
    /\ Goto(c, "insert")
    /\ UNCHANGED <<lookup, result, lockVars, memVars, bgVars, fileVars, objVars>>

\* One round of the loop of InsertAll, which counts before it inserts.
InsertOne(c) ==
    /\ pc[c] = "insert" /\ insertion.todo # <<>>
    /\ LET op == Head(insertion.todo)
           number == insertion.number + 1
       IN  /\ memtable_' =
                  [entries |-> memtable_.entries \cup
                       {[key |-> op.key, seq |-> PackSequence(number),
                         type |-> op.type]},
                   size |-> memtable_.size + 1]
           /\ insertion' = [number |-> number, todo |-> Tail(insertion.todo),
                            last |-> insertion.last]
    /\ UNCHANGED <<callVars, lockVars, immutable_memtable_, bgVars,
                   last_sequence_, fileVars, objVars>>

\* Lines 154-168: pop up to last_writer; the others of the group are done.
FinishWrite(c) ==
    /\ pc[c] = "insert" /\ insertion.todo = <<>>
    /\ LET n == CHOOSE i \in 1..Len(writers_) : writers_[i] = insertion.last
           popped == {writers_[i] : i \in 1..n}
       IN  /\ writers_' = SubSeq(writers_, n + 1, Len(writers_))
           /\ writer' = [w \in Clients |->
                  IF w = c THEN [batch |-> <<>>, done |-> FALSE]
                  ELSE [batch |-> writer[w].batch,
                        done |-> writer[w].done \/ w \in popped]]
    /\ rwlock_' = Owned(NULL)
    /\ insertion' = [number |-> insertion.number, todo |-> <<>>, last |-> NULL]
    /\ Goto(c, "idle")
    /\ UNCHANGED <<lookup, result, cv_lock_, memVars, bgVars, last_sequence_,
                   fileVars, objVars>>

-----------------------------------------------------------------------------
(* Get *)

\* Memtable::Get takes the entry the seek stops at, whatever its type.
MemtableGet(m, k) ==
    LET e == FindFirstGreaterOrEqual(m.entries, Probe(k))
    IN  IF e # NotFound /\ e.key = k THEN e ELSE NotFound

\* Wrong: the older memtable first.
MemoryGet_OldFirst(k) ==
    LET e == IF immutable_memtable_ = NULL THEN NotFound
             ELSE MemtableGet(immutable_memtable_, k)
    IN  IF e = NotFound THEN MemtableGet(memtable_, k) ELSE e

\* memtable_ first, then immutable_memtable_.
MemoryGet(k) ==
    LET e == MemtableGet(memtable_, k)
    IN  IF e = NotFound /\ immutable_memtable_ # NULL
        THEN MemtableGet(immutable_memtable_, k) ELSE e

\* Lines 193-196; a FileMeta whose keys were never set matches no key.
InRange(meta, k) ==
    /\ meta.span # {}
    /\ InternalKeyCompare(Smallest(meta.span), Probe(k)) = -1
    /\ InternalKeyCompare(Largest(meta.span), Probe(k)) = 1

\* SSTable::Open finds a footer.
Opens(meta) ==
    meta.built /\ meta.number \in DOMAIN disk /\ disk[meta.number] # {}

\* SSTable::InternalGet: the iterator has to stop at the very key it seeks.
InternalGet(meta, k) ==
    LET e == FindFirstGreaterOrEqual(disk[meta.number], Probe(k))
    IN  IF e # NotFound /\ InternalKeyCompare(e, Probe(k)) = 0
        THEN e ELSE NotFound

\* Wrong: Get does not wait for a writer.
GetLock_Shares(c, k) ==
    /\ proc = "open" /\ pc[c] = "idle"
    /\ rwlock_' = Shared(rwlock_.readers \cup {c})
    /\ lookup' = [lookup EXCEPT ![c] = k]
    /\ Goto(c, "memory")
    /\ UNCHANGED <<writer, result, writers_, cv_lock_, memVars, bgVars, seqVars,
                   fileVars, objVars>>

GetLock(c, k) ==
    /\ proc = "open" /\ pc[c] = "idle"
    /\ rwlock_.owner = NULL
    /\ rwlock_' = Shared(rwlock_.readers \cup {c})
    /\ lookup' = [lookup EXCEPT ![c] = k]
    /\ Goto(c, "memory")
    /\ UNCHANGED <<writer, result, writers_, cv_lock_, memVars, bgVars, seqVars,
                   fileVars, objVars>>

GetMemory(c) ==
    /\ pc[c] = "memory"
    /\ result' = [result EXCEPT ![c] = MemoryGet(lookup[c])]
    /\ Goto(c, IF result'[c] = NotFound THEN "disk" ELSE "return")
    /\ UNCHANGED <<writer, lookup, lockVars, memVars, bgVars, seqVars, fileVars,
                   objVars>>

\* Where the scan of the files stops: at a hit, unless the filter drops it, and
\* at a file that does not open, which fails the assert of line 201.
DiskStops(k, dropped) ==
    {i \in DOMAIN file_metas_ :
        /\ InRange(file_metas_[i], k)
        /\ Opens(file_metas_[i]) =>
             i \notin dropped /\ InternalGet(file_metas_[i], k) # NotFound}

\* Files are read from oldest to newest; i is where the scan stops, 0 if nowhere.
GetDisk(c) ==
    /\ pc[c] = "disk"
    /\ \E dropped \in SUBSET DOMAIN file_metas_, i \in 0..Len(file_metas_) :
         LET stops == DiskStops(lookup[c], dropped)
             opens == i # 0 /\ Opens(file_metas_[i])
         IN  /\ IF stops = {} THEN i = 0
                ELSE i \in stops /\ \A j \in stops : i <= j
             /\ result' = [result EXCEPT ![c] =
                    IF opens THEN InternalGet(file_metas_[i], lookup[c])
                    ELSE NotFound]
             /\ proc' = IF i # 0 /\ ~opens THEN "aborted" ELSE proc
    /\ Goto(c, "return")
    /\ UNCHANGED <<writer, lookup, lockVars, memVars, bgVars, seqVars, fileVars,
                   freed, beside>>

GetReturn(c) ==
    /\ pc[c] = "return"
    /\ rwlock_' = Shared(rwlock_.readers \ {c})
    /\ lookup' = [lookup EXCEPT ![c] = NULL]
    /\ result' = [result EXCEPT ![c] = NotFound]
    /\ Goto(c, "idle")
    /\ UNCHANGED <<writer, writers_, cv_lock_, memVars, bgVars, seqVars,
                   fileVars, objVars>>

-----------------------------------------------------------------------------
(* CompactMemtable, by thread t.  ~DBimpl calls it without rwlock_, so both  *)
(* threads may be in it.                                                     *)

EntriesOf(m) == IF m = NULL THEN {} ELSE m.entries

NewCompaction == [step |-> "push", name |-> 0, entries |-> {}, slot |-> 0]

At(t, steps) ==
    proc \notin {"closed", "aborted"} /\ task[t] # NULL /\ task[t].step \in steps

CompactPush(t) ==
    /\ At(t, {"push"})
    /\ task' = [task EXCEPT ![t] =
                   [step |-> "read", name |-> sstable_number_, entries |-> {},
                    slot |-> Len(file_metas_) + 1]]
    /\ file_metas_' = Append(file_metas_,
                             [number |-> 0, span |-> {}, built |-> FALSE])
    /\ UNCHANGED <<callVars, lockVars, memVars, background_compaction_schedule_,
                   spawned, seqVars, sstable_number_, disk, manifest, objVars>>

\* The second read of immutable_memtable_, after the one of line 273 or 53.  A
\* null pointer ends the process, and so does an empty memtable: it fails the
\* assert in MemtableIterator::SeekToFirst.
CompactRead(t) ==
    /\ At(t, {"read"})
    /\ task' = [task EXCEPT ![t] =
                   [step |-> "build", name |-> task[t].name,
                    entries |-> EntriesOf(immutable_memtable_),
                    slot |-> task[t].slot]]
    /\ proc' = IF EntriesOf(immutable_memtable_) = {} THEN "aborted" ELSE proc
    /\ UNCHANGED <<callVars, lockVars, memVars, background_compaction_schedule_,
                   spawned, seqVars, fileVars, freed, beside>>

\* BuildTable has opened the file and sets the keys of the FileMeta.
CompactKeys(t) ==
    /\ At(t, {"build"})
    /\ task' = [task EXCEPT ![t] =
                   [step |-> "write", name |-> task[t].name,
                    entries |-> task[t].entries, slot |-> task[t].slot]]
    /\ file_metas_' = [file_metas_ EXCEPT ![task[t].slot] =
                          [number |-> 0, span |-> task[t].entries,
                           built |-> FALSE]]
    /\ UNCHANGED <<callVars, lockVars, memVars, background_compaction_schedule_,
                   spawned, seqVars, sstable_number_, disk, manifest, objVars>>

\* Wrong: a failed build removes the table before its own.
Written_RemovesOther(job, outcome) ==
    CASE outcome \in {"ok", "torn", "assert"} ->
             [n \in DOMAIN disk \cup {job.name} |->
                 IF n # job.name THEN disk[n]
                 ELSE IF outcome = "ok" THEN job.entries ELSE {}]
      [] outcome = "write" -> [n \in DOMAIN disk \ {job.name - 1} |-> disk[n]]
      [] OTHER -> disk

\* The file BuildTable leaves: written, unreadable, removed or untouched.
Written(job, outcome) ==
    CASE outcome \in {"ok", "torn", "assert"} ->
             [n \in DOMAIN disk \cup {job.name} |->
                 IF n # job.name THEN disk[n]
                 ELSE IF outcome = "ok" THEN job.entries ELSE {}]
      [] outcome = "write" -> [n \in DOMAIN disk \ {job.name} |-> disk[n]]
      [] OTHER -> disk

\* How BuildTable may end; two threads on one file may leave it unreadable.
Outcomes == BuildOutcomes \cup {o \in {"torn"} : beside}

Ok(outcome) == outcome \in {"ok", "torn"}

\* The meta gets its number on failure too, and is not taken back.  An
\* increment of sstable_number_ is lost when both threads make one at a time.
CompactEnd(t, outcome) ==
    /\ At(t, IF outcome = "open" THEN {"build"} ELSE {"write"})
    /\ disk' = Written(task[t], outcome)
    /\ file_metas_' = [file_metas_ EXCEPT ![task[t].slot] =
           [number |-> sstable_number_, built |-> Ok(outcome), span |-> @.span]]
    /\ sstable_number_' \in
           {sstable_number_ + (IF Ok(outcome) THEN 1 ELSE 0)} \cup
           {n \in {sstable_number_} :
               \A u \in {Background, Destructor} : At(u, {"build", "write"})}
    /\ UNCHANGED manifest

\* push_back at the same time as another one, or as the loop of DumpManifest.
RaceAborts ==
    /\ At(Background, {"push"}) /\ (proc = "d_dump" \/ At(Destructor, {"push"}))
    /\ proc' = "aborted"
    /\ UNCHANGED <<callVars, lockVars, memVars, bgVars, seqVars, fileVars, freed,
                   beside>>

-----------------------------------------------------------------------------
(* BackGroundCall: a detached thread that takes rwlock_ first. *)

\* Wrong: runs only if the flag is set.
BackgroundFree_Flagged ==
    /\ proc \notin {"closed", "aborted"} /\ spawned > 0
    /\ rwlock_.owner = NULL /\ rwlock_.readers = {}
    /\ background_compaction_schedule_

BackgroundFree ==
    /\ proc \notin {"closed", "aborted"} /\ spawned > 0
    /\ rwlock_.owner = NULL /\ rwlock_.readers = {}

\* The lock, and the test of line 273.
BackgroundBegin ==
    /\ BackgroundFree /\ immutable_memtable_ # NULL
    /\ rwlock_' = Owned(Background)
    /\ spawned' = spawned - 1
    /\ task' = [task EXCEPT ![Background] = NewCompaction]
    /\ UNCHANGED <<callVars, writers_, cv_lock_, memVars,
                   background_compaction_schedule_, seqVars, fileVars, objVars>>

\* The destructor has already set immutable_memtable_ to nullptr.
BackgroundNothing ==
    /\ BackgroundFree /\ immutable_memtable_ = NULL
    /\ spawned' = spawned - 1
    /\ background_compaction_schedule_' = FALSE
    /\ UNCHANGED <<callVars, lockVars, memVars, task, seqVars, fileVars, objVars>>

\* Lines 289-290, and the end of the thread.
BackgroundReturn ==
    /\ task' = [task EXCEPT ![Background] = NULL]
    /\ background_compaction_schedule_' = FALSE
    /\ rwlock_' = Owned(NULL)

\* After a failure the immutable memtable stays.
BackgroundEnd(outcome) ==
    /\ CompactEnd(Background, outcome)
    /\ IF Ok(outcome)
       THEN /\ task' = [task EXCEPT ![Background].step = "delete"]
            /\ UNCHANGED <<background_compaction_schedule_, rwlock_>>
       ELSE BackgroundReturn
    /\ proc' = IF outcome = "assert" THEN "aborted" ELSE proc
    /\ UNCHANGED <<callVars, writers_, cv_lock_, memVars, spawned, seqVars, freed,
                   beside>>

\* While ~DBimpl runs, immutable_memtable_ may be the memtable_ it will delete.
BackgroundDelete ==
    /\ At(Background, {"delete"})
    /\ freed' = (freed \/ (/\ proc \in {"d_build", "d_free"}
                           /\ immutable_memtable_ # NULL))
    /\ task' = [task EXCEPT ![Background].step = "null"]
    /\ UNCHANGED <<callVars, lockVars, memVars, background_compaction_schedule_,
                   spawned, seqVars, fileVars, proc, beside>>

\* What ~DBimpl has assigned since line 276 is lost.
BackgroundNull ==
    /\ At(Background, {"null"})
    /\ immutable_memtable_' = NULL
    /\ BackgroundReturn
    /\ UNCHANGED <<callVars, writers_, cv_lock_, memtable_, spawned, seqVars,
                   fileVars, objVars>>

-----------------------------------------------------------------------------
(* ~DBimpl, once no call is running. *)

Compactors == spawned + (IF task[Background] # NULL THEN 1 ELSE 0)

\* Lines 44-50.  With the flag set the wait keeps rwlock_, so nobody clears it.
DestructorLock ==
    /\ proc = "open" /\ \A c \in Clients : pc[c] = "idle"
    /\ rwlock_.owner = NULL /\ rwlock_.readers = {}
    /\ IF background_compaction_schedule_
       THEN proc' = "d_wait" /\ rwlock_' = Owned(Destructor)
       ELSE proc' = "d_swap" /\ UNCHANGED rwlock_
    /\ UNCHANGED <<callVars, writers_, cv_lock_, memVars, bgVars, seqVars,
                   fileVars, freed, beside>>

\* Line 53.  From here on rwlock_ is not held.
DestructorSwap ==
    /\ proc = "d_swap"
    /\ immutable_memtable_' = memtable_
    /\ task' = [task EXCEPT ![Destructor] = NewCompaction]
    /\ beside' = (Compactors > 0)
    /\ proc' = "d_build"
    /\ UNCHANGED <<callVars, lockVars, memtable_, background_compaction_schedule_,
                   spawned, seqVars, fileVars, freed>>

\* The status of CompactMemtable is not looked at.
DestructorEnd(outcome) ==
    /\ CompactEnd(Destructor, outcome)
    /\ task' = [task EXCEPT ![Destructor] = NULL]
    /\ proc' = IF outcome = "assert" THEN "aborted" ELSE "d_free"
    /\ UNCHANGED <<callVars, lockVars, memVars, background_compaction_schedule_,
                   spawned, seqVars, freed, beside>>

\* Lines 55-56: memtable_ is deleted, even if the compaction thread has deleted
\* it or is still reading it.
DestructorFree ==
    /\ proc = "d_free"
    /\ immutable_memtable_' = NULL
    /\ LET shared == \/ freed
                     \/ /\ At(Background, {"build", "write"})
                        /\ task[Background].entries = memtable_.entries
       IN  proc' = IF shared THEN "aborted" ELSE "d_dump"
    /\ UNCHANGED <<callVars, lockVars, memtable_, bgVars, seqVars, fileVars,
                   freed, beside>>

\* DumpManifest stops at a FileMeta without keys: PrintFileMeta throws.
DumpManifest ==
    /\ proc = "d_dump"
    /\ \E n \in 0..Len(file_metas_) :
         /\ \A i \in 1..n : file_metas_[i].span # {}
         /\ n < Len(file_metas_) => file_metas_[n + 1].span = {}
         /\ manifest' = [count |-> Len(file_metas_), last |-> last_sequence_,
                         metas |-> SubSeq(file_metas_, 1, n)]
         /\ proc' = IF n = Len(file_metas_) THEN "closed" ELSE "aborted"
    /\ UNCHANGED <<callVars, lockVars, memVars, bgVars, seqVars, file_metas_,
                   sstable_number_, disk, freed, beside>>

-----------------------------------------------------------------------------

WriteStep(c) ==
    /\ proc = "open"
    /\ \/ RoomLeft(c) \/ WaitForCompaction(c) \/ SwitchMemtable(c)
       \/ BuildWriteBatchGroup(c) \/ InsertOne(c) \/ FinishWrite(c)

ReadStep(c) == proc = "open" /\ (GetMemory(c) \/ GetDisk(c) \/ GetReturn(c))

CompactStep(t) == CompactPush(t) \/ CompactRead(t) \/ CompactKeys(t)

BackgroundStep ==
    \/ BackgroundBegin \/ CompactStep(Background)
    \/ \E o \in Outcomes : BackgroundEnd(o)
    \/ BackgroundDelete \/ BackgroundNull

DestructorStep ==
    \/ DestructorLock \/ DestructorSwap \/ CompactStep(Destructor)
    \/ \E o \in Outcomes : DestructorEnd(o)
    \/ DestructorFree \/ DumpManifest

Next ==
    \/ \E c \in Clients, b \in Batches : WriteLock(c, b)
    \/ \E c \in Clients, k \in Lookups : GetLock(c, k)
    \/ \E c \in Clients : WriteStep(c) \/ ReadStep(c)
    \/ \E c \in Clients : proc = "open" /\ Wake(c)
    \/ BackgroundStep \/ BackgroundNothing
    \/ DestructorStep \/ RaceAborts

Spec == Init /\ [][Next]_vars

\* Every thread inside a call goes on when it can; a wait need not return.
FairSpec ==
    /\ Spec
    /\ \A c \in Clients : WF_vars(WriteStep(c)) /\ WF_vars(ReadStep(c))
    /\ WF_vars(BackgroundStep)

-----------------------------------------------------------------------------
(* Properties *)

\* The immutable memtable, until the compaction thread has written it and is
\* about to delete it.
ImmutableEntries ==
    IF task[Background] # NULL /\ task[Background].step \in {"delete", "null"}
    THEN {} ELSE EntriesOf(immutable_memtable_)

\* What the sstables that still open hold.
FileEntries ==
    UNION {disk[file_metas_[i].number] :
              i \in {j \in DOMAIN file_metas_ : Opens(file_metas_[j])}}

Seqs(S) == {e.seq : e \in S}

Stored ==
    memtable_.entries \cup ImmutableEntries \cup FileEntries

\* A Write keeps rwlock_ from its push_back to its pop_front, so writers_ is
\* empty or holds only the owner of rwlock_: no writer ever waits in the queue
\* (line 135), and BuildWriteBatchGroup never has a second batch to add.
QueueHoldsOnlyOwner ==
    /\ writers_ = IF rwlock_.owner \in Clients THEN <<rwlock_.owner>> ELSE <<>>
    /\ \A c \in Clients : pc[c] # "queued"

\* Write applies a batch under the exclusive lock and Get reads under the
\* shared one: no Get runs between two entries of a batch.
ReadsSeeWholeBatches ==
    rwlock_.readers # {} => insertion.todo = <<>>

\* Every sequence number handed out so far is the number of an entry that is
\* still held by the memtable, the immutable memtable or a readable sstable,
\* through rotation, compaction and compaction that fails.  Not promised: a
\* table whose last write fails unnoticed, and the time of the destructor.
NoEntryLost ==
    proc = "open" /\ "torn" \notin BuildOutcomes =>
        Seqs(Stored) = 2..insertion.number

\* Rotation and compaction keep the layers apart: each entry of the memtable is
\* newer than each of the immutable memtable, and these than those on disk.
LayersOrdered ==
    proc = "open" =>
        /\ \A e \in memtable_.entries, f \in ImmutableEntries : f.seq < e.seq
        /\ \A e \in memtable_.entries \cup ImmutableEntries, f \in FileEntries :
              f.seq < e.seq

\* A Get that finds an entry returns the newest one of its key.
ReadsNewest ==
    \A c \in Clients :
        proc = "open" /\ pc[c] = "return" /\ result[c] # NotFound =>
            \A e \in Stored : e.key = lookup[c] => e.seq <= result[c].seq

\* CompactMemtable never reuses the file of an earlier table: each table holds
\* what it was built from.
TablesIntact ==
    proc = "open" /\ "torn" \notin BuildOutcomes =>
        \A i \in DOMAIN file_metas_ :
            LET meta == file_metas_[i]
            IN  meta.built => Opens(meta) /\ disk[meta.number] = meta.span

\* A compaction failed: its FileMeta is left in file_metas_.
Failed == \E i \in DOMAIN file_metas_ :
              file_metas_[i].number # 0 /\ ~file_metas_[i].built

\* Although MaybeScheduleCompaction never sets its flag, there is never more
\* than one compaction thread, and an immutable memtable has one, unless its
\* compaction failed or the flag was not FALSE when the object was built.
ImmutableHasCompactor ==
    /\ Compactors <= 1
    /\ proc = "open" /\ immutable_memtable_ # NULL =>
           Compactors = 1 \/ Failed \/ background_compaction_schedule_

\* The process ends in the database for one of three reasons: a compaction has
\* failed, in an assert of BuildTable, or with an error and a FileMeta that a Get
\* or DumpManifest then meets; CompactMemtable was given an empty memtable, by
\* ~DBimpl of an object without writes or by a size_ that was never set; or
\* ~DBimpl was called before the last compaction thread had ended.  So an open
\* object ends for the first two reasons only, and closing one whose compactions
\* have ended well, after a write, is safe.
AbortsExplained ==
    proc = "aborted" /\ "torn" \notin BuildOutcomes =>
        \/ Failed
        \/ immutable_memtable_ # NULL /\ immutable_memtable_.entries = {}
        \/ beside

Stalled == \E c \in Clients : pc[c] = "waitroom"

\* The only thing that keeps a Write from returning is the wait for room, its
\* own or that of the writer before it, or the end of the process.
WritesReturnUnlessStalled ==
    \A c \in Clients :
        pc[c] \in WriterSteps ~> pc[c] = "idle" \/ Stalled \/ proc = "aborted"

\* A scheduled compaction is run, unless a writer already waits for it or Gets
\* that overlap keep rwlock_ shared for ever: std::shared_mutex lets a reader in
\* while the compaction thread waits.
CompactionRunsUnlessStalled ==
    <>[](rwlock_.readers = {}) =>
        ((spawned > 0 /\ proc = "open")
            ~> (spawned = 0 \/ Stalled \/ proc # "open"))

-----------------------------------------------------------------------------
(* Inductive invariants *)

\* Thread t has added a FileMeta and not finished it.
HasSlot(t) == task[t] # NULL /\ task[t].step \in {"read", "build", "write"}

\* Who holds rwlock_, and what its holder has done: the lock state follows the
\* position of each thread, and the batch being inserted is the owner's.
Locking ==
    /\ \A c \in Clients : pc[c] \in WriterSteps <=> rwlock_.owner = c
    /\ \A c \in Clients : pc[c] \in ReaderSteps <=> c \in rwlock_.readers
    /\ rwlock_.owner # NULL => rwlock_.readers = {}
    /\ rwlock_.owner = Background <=> task[Background] # NULL
    /\ QueueHoldsOnlyOwner
    /\ insertion.todo # <<>> => \E c \in Clients : pc[c] = "insert"
    /\ \A c \in Clients : pc[c] = "insert" => insertion.last = c
    /\ \A t \in {Background, Destructor} :
           HasSlot(t) => task[t].slot \in DOMAIN file_metas_
    /\ proc = "d_build" => task[Destructor] # NULL

\* Among the entries of each key there is a newest one.
HasNewest(S) ==
    \A e \in S : \E f \in S :
        f.key = e.key /\ \A g \in S : g.key = f.key => g.seq <= f.seq

\* How a sequence number is handed out, and where its entry is: numbers below
\* insertion.number have been used, those up to last_sequence_ belong to the
\* batch being inserted; the running compaction writes the immutable memtable
\* to a file that no table uses.
Sequencing ==
    /\ insertion.number >= 1
    /\ insertion.number + Len(insertion.todo) = last_sequence_
    /\ last_sequence_ <= MaxSequence
    /\ \A c \in Clients :
           pc[c] \in {"room", "waitroom", "group"} =>
               last_sequence_ + Len(writer[c].batch) <= MaxSequence

CompactionFresh ==
    /\ task[Destructor] = NULL /\ ~beside
    /\ task[Background] # NULL =>
           LET job == task[Background]
           IN  /\ immutable_memtable_ # NULL
               /\ HasSlot(Background) => job.name = sstable_number_
               /\ HasSlot(Background) =>
                      file_metas_[job.slot] =
                          [number |-> 0, built |-> FALSE,
                           span |-> IF job.step = "write" THEN job.entries ELSE {}]
               /\ job.step \in {"build", "write"} =>
                      /\ job.entries = immutable_memtable_.entries
                      /\ job.entries # {}
    /\ \A i \in DOMAIN file_metas_ :
           file_metas_[i].built => file_metas_[i].number < sstable_number_

Retention ==
    proc = "open" =>
        /\ Sequencing
        /\ CompactionFresh
        /\ \A e \in Stored : e.seq \in 2..insertion.number
        /\ HasNewest(memtable_.entries)
        /\ HasNewest(ImmutableEntries)

\* Which FileMeta belongs to whom, and which compaction thread to which memtable:
\* a FileMeta without a number is the slot of a running CompactMemtable, one
\* without keys is that too or is left by a failed one; until ~DBimpl replaces
\* the immutable memtable, a thread exists only for one; after that, there is a
\* thread only if there was one then.
Slots ==
    /\ sstable_number_ >= 1
    /\ \A t \in {Background, Destructor} :
           HasSlot(t) => file_metas_[task[t].slot].number = 0
    /\ HasSlot(Background) /\ HasSlot(Destructor) =>
           task[Background].slot # task[Destructor].slot
    /\ \A i \in DOMAIN file_metas_ :
           file_metas_[i].number = 0 =>
               \E t \in {Background, Destructor} : HasSlot(t) /\ task[t].slot = i

Keyless ==
    /\ \A i \in DOMAIN file_metas_ :
           file_metas_[i].span = {} => ~file_metas_[i].built
    /\ \A t \in {Background, Destructor} : task[t] # NULL =>
           /\ task[t].step \in {"build", "write"} => task[t].entries # {}
           /\ task[t].step = "write" => file_metas_[task[t].slot].span # {}

Compacting ==
    /\ Slots
    /\ proc \in {"open", "d_wait", "d_swap"} =>
           /\ task[Destructor] = NULL /\ ~freed
           /\ immutable_memtable_ = NULL => Compactors = 0
    /\ proc \in {"d_free", "d_dump", "closed"} => task[Destructor] = NULL
    /\ proc \in {"d_build", "d_free", "d_dump", "closed"} /\ ~beside =>
           /\ Compactors = 0
           /\ proc = "d_build" => immutable_memtable_ # NULL
    /\ freed => beside
    /\ proc # "aborted" => Keyless
    /\ ImmutableHasCompactor /\ AbortsExplained

Inductive ==
    /\ Locking /\ Retention
    /\ NoEntryLost /\ LayersOrdered /\ TablesIntact /\ ReadsNewest

-----------------------------------------------------------------------------
(* What comments, asserts and tests of the repository say, and DBimpl does   *)
(* not do.                                                                   *)

\* db_impl.cc:316, "wait until the minor compaction done": a writer that waits
\* in MakeRoomForWrite gets its room.
WaitEndsWithCompaction ==
    \A c \in Clients : pc[c] = "waitroom" ~> pc[c] = "group"

\* db_test.cc:18-19, Get returns what Put wrote: a Get finds its key if some
\* layer has an entry of it.
ReadsFindWrites ==
    \A c \in Clients :
        proc = "open" /\ pc[c] = "return" /\ result[c] = NotFound =>
            \A e \in Stored : e.key # lookup[c]

\* db_impl.cc:52, "before we delete it, we should dump it into the disk": the
\* tables of the manifest that ~DBimpl leaves hold every entry.
CloseKeepsWrites ==
    proc = "closed" => Seqs(FileEntries) = 2..last_sequence_

=============================================================================
