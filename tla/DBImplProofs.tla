---------------------------- MODULE DBImplProofs ----------------------------
(***************************************************************************)
(* Proofs about DBImpl, for any number of clients, batches and writes.     *)
(* First types, locks and compaction threads: what the operators return,   *)
(* that every step keeps the types, who holds rwlock_ when, and which      *)
(* compaction thread fills which FileMeta.  Then what is stored: how       *)
(* numbers are handed out, that no entry is lost, that the layers stay     *)
(* ordered and that reads return the newest entry.                         *)
(***************************************************************************)
EXTENDS DBImpl, SequenceTheorems, TLAPS

\* The owner of the lock is alone in the queue, so its group is itself.
LEMMA GroupOfOne ==
    ASSUME TypeOK, Locking, NEW c \in Clients, pc[c] = "group"
    PROVE  GroupLength = 1 /\ writers_ = <<c>> /\ Head(writers_) = c
PROOF
<1>1. writers_ = <<c>>
  BY Zenon DEF Locking, QueueHoldsOnlyOwner, WriterSteps
<1>2. {n \in 1..1 : n = 1 \/ GroupBytes(n) <= GroupMax} = {1}
  OBVIOUS
<1>3. Max({1}) = 1
  BY DEF Max
<1>4. Len(writers_) = 1 /\ Head(writers_) = c
  BY <1>1
<1> QED
  BY Zenon, <1>1, <1>2, <1>3, <1>4 DEF GroupLength

\* BuildWriteBatchGroup numbers the caller's own batch and no other.
LEMMA GroupEffect ==
    ASSUME TypeOK, Locking, NEW c \in Clients, BuildWriteBatchGroup(c)
    PROVE  /\ writer' = writer
           /\ insertion' = [number |-> last_sequence_, todo |-> writer[c].batch,
                            last |-> c]
           /\ last_sequence_' = last_sequence_ + Len(writer[c].batch)
PROOF
<1>1. pc[c] = "group"
  BY Zenon DEF BuildWriteBatchGroup
<1>2. GroupLength = 1 /\ writers_ = <<c>> /\ Head(writers_) = c
  BY Zenon, <1>1, GroupOfOne
<1>3. writer \in [Clients -> [batch : Seq(Op), done : BOOLEAN]]
  BY Zenon DEF TypeOK
<1> QED
  BY <1>2, <1>3 DEF BuildWriteBatchGroup

\* When a Write of a queue of one ends, the queue is empty.
LEMMA PoppedQueue ==
    ASSUME NEW c \in Clients, writers_ = <<c>>,
           NEW n, n = CHOOSE i \in 1..Len(writers_) : writers_[i] = c
    PROVE  n = 1 /\ SubSeq(writers_, n + 1, Len(writers_)) = <<>>
PROOF
<1>1. Len(writers_) = 1 /\ writers_[1] = c
  BY Zenon
<1>2. n = 1
  BY <1>1
<1> QED
  BY <1>1, <1>2

\* Write leaves the queue empty when it pops itself.
LEMMA FinishEmptiesQueue ==
    ASSUME Locking, NEW c \in Clients, FinishWrite(c)
    PROVE  writers_' = <<>>
PROOF
<1>1. writers_ = <<c>> /\ insertion.last = c
  BY Zenon DEF FinishWrite, Locking, QueueHoldsOnlyOwner, WriterSteps
<1> QED
  BY Zenon, PoppedQueue, <1>1 DEF FinishWrite

\* A writer that takes rwlock_ finds the queue empty and goes on at once.
LEMMA EmptyQueueGrows ==
    ASSUME Locking, NEW c \in Clients, NEW b, WriteLock(c, b)
    PROVE  writers_' = <<c>> /\ pc' = [pc EXCEPT ![c] = "room"]
PROOF
<1>1. writers_ = <<>>
  BY Zenon, ThreadAssumption DEF WriteLock, Locking, QueueHoldsOnlyOwner
<1>2. Append(<<>>, c) = <<c>> /\ Head(<<c>>) = c
  OBVIOUS
<1> QED
  BY Zenon, <1>1, <1>2 DEF WriteLock, Goto

\* SkipList::FindFirstGreaterOrEqual returns one of the entries, if any.
LEMMA FoundIsStored ==
    ASSUME NEW S, NEW probe, FindFirstGreaterOrEqual(S, probe) # NotFound
    PROVE  FindFirstGreaterOrEqual(S, probe) \in S
  BY Zenon DEF FindFirstGreaterOrEqual

\* What a lookup in memory returns is NotFound or an entry of the key, held by
\* the memtable or by the immutable memtable.
LEMMA MemoryGetResult ==
    ASSUME NEW k, MemoryGet(k) # NotFound
    PROVE  /\ MemoryGet(k).key = k
           /\ MemoryGet(k) \in memtable_.entries \cup EntriesOf(immutable_memtable_)
  BY Zenon, FoundIsStored DEF MemoryGet, MemtableGet, EntriesOf

\* SSTable::InternalGet returns an entry of the table, if any.
LEMMA InternalGetResult ==
    ASSUME NEW meta, NEW k, InternalGet(meta, k) # NotFound
    PROVE  InternalGet(meta, k) \in disk[meta.number]
  BY Zenon, FoundIsStored DEF InternalGet

-----------------------------------------------------------------------------
(* The type invariant *)

\* The constructor's state is well typed.
LEMMA TypeInit == Init => TypeOK
PROOF
<1> SUFFICES ASSUME Init PROVE TypeOK
  BY Zenon
<1>1. memtable_ \in Memtable
  BY Zenon, SizeAssumption DEF Init, NewMemtable, Memtable
<1>2. background_compaction_schedule_ \in BOOLEAN
  BY Zenon, FlagAssumption DEF Init
<1>3. DOMAIN disk = {}
  BY DEF Init
<1>4. insertion \in [number : Nat, todo : Seq(Op), last : Clients \cup {NULL}]
  BY DEF Init
<1>5. writer \in [Clients -> [batch : Seq(Op), done : BOOLEAN]]
  BY DEF Init
<1>6. writers_ \in Seq(Clients) /\ file_metas_ \in Seq(FileMeta)
  BY DEF Init
<1>7. rwlock_ \in [owner : Clients \cup {Background, Destructor, NULL},
                  readers : SUBSET Clients]
  BY Zenon DEF Init
<1>8. /\ pc \in [Clients -> WriterSteps \cup ReaderSteps \cup {"idle"}]
      /\ lookup \in [Clients -> Keys \cup {NULL}]
      /\ result \in [Clients -> Entry \cup {NotFound}]
      /\ task \in [{Background, Destructor} -> Compaction \cup {NULL}]
  BY Zenon DEF Init
<1> QED
  BY Zenon, <1>1, <1>2, <1>3, <1>4, <1>5, <1>6, <1>7, <1>8 DEF Init, TypeOK, Phases

\* A beginning of a sequence has elements of the same set.
LEMMA PrefixType ==
    ASSUME NEW S, NEW s \in Seq(S), NEW n \in 0..Len(s)
    PROVE  SubSeq(s, 1, n) \in Seq(S)
  BY SubSeqProperties, ElementOfSeq

\* CompactMemtable keeps the types of what it changes.
FilesTyped ==
    /\ file_metas_ \in Seq(FileMeta)
    /\ sstable_number_ \in Nat
    /\ DOMAIN disk \subseteq Nat
    /\ \A n \in DOMAIN disk : disk[n] \subseteq Entry

TaskTyped == task \in [{Background, Destructor} -> Compaction \cup {NULL}]

\* A thread between push_back and the end of CompactMemtable has a FileMeta.
LEMMA AtHasSlot ==
    ASSUME TypeOK, Locking, NEW t \in {Background, Destructor}, NEW steps,
           steps \subseteq {"read", "build", "write"}, At(t, steps)
    PROVE  /\ HasSlot(t) /\ task[t].slot \in DOMAIN file_metas_
           /\ task[t] \in Compaction
  BY Zenon DEF At, HasSlot, Locking, TypeOK

\* CompactMemtable keeps the types of files and FileMetas up to the build.
LEMMA CompactStepType ==
    ASSUME TypeOK, Locking, NEW t \in {Background, Destructor}, CompactStep(t)
    PROVE  FilesTyped' /\ TaskTyped' /\ manifest' = manifest
PROOF
<1>0. /\ sstable_number_ \in Nat /\ Len(file_metas_) + 1 \in Nat
      /\ EntriesOf(immutable_memtable_) \subseteq Entry
  BY DEF TypeOK, Memtable, EntriesOf
<1>1. CASE CompactPush(t)
  <2>1. [number |-> 0, span |-> {}, built |-> FALSE] \in FileMeta
    BY Zenon DEF FileMeta
  <2>2. file_metas_' \in Seq(FileMeta)
    BY <1>1, <2>1 DEF CompactPush, TypeOK
  <2>3. [step |-> "read", name |-> sstable_number_, entries |-> {},
         slot |-> Len(file_metas_) + 1] \in Compaction
    BY Zenon, <1>0 DEF Compaction, CompactSteps
  <2> QED
    BY Zenon, <1>1, <2>2, <2>3 DEF CompactPush, TypeOK, FilesTyped, TaskTyped
<1>2. CASE CompactRead(t)
  <2>1. task[t] \in Compaction
    BY Zenon, <1>2, AtHasSlot DEF CompactRead
  <2>2. [step |-> "build", name |-> task[t].name,
         entries |-> EntriesOf(immutable_memtable_), slot |-> task[t].slot]
          \in Compaction
    BY Zenon, <1>0, <2>1 DEF Compaction, CompactSteps
  <2> QED
    BY Zenon, <1>2, <2>2 DEF CompactRead, fileVars, TypeOK, FilesTyped, TaskTyped
<1>3. CASE CompactKeys(t)
  <2>1. task[t] \in Compaction /\ task[t].slot \in DOMAIN file_metas_
    BY Zenon, <1>3, AtHasSlot DEF CompactKeys
  <2>2. [step |-> "write", name |-> task[t].name,
         entries |-> task[t].entries, slot |-> task[t].slot] \in Compaction
    BY Zenon, <2>1 DEF Compaction, CompactSteps
  <2>3. [number |-> 0, span |-> task[t].entries, built |-> FALSE] \in FileMeta
    BY Zenon, <2>1 DEF Compaction, FileMeta
  <2>4. file_metas_' \in Seq(FileMeta)
    BY <1>3, <2>1, <2>3, ExceptSeq DEF TypeOK, CompactKeys
  <2> QED
    BY Zenon, <1>3, <2>2, <2>4 DEF CompactKeys, TypeOK, FilesTyped, TaskTyped
<1> QED
  BY Zenon, <1>1, <1>2, <1>3 DEF CompactStep

\* CompactMemtable keeps the types of files and FileMetas when it ends.
LEMMA CompactEndType ==
    ASSUME TypeOK, Locking, NEW t \in {Background, Destructor}, NEW o,
           CompactEnd(t, o)
    PROVE  FilesTyped' /\ manifest' = manifest
PROOF
<1>1. task[t] \in Compaction /\ task[t].slot \in DOMAIN file_metas_
  BY Zenon, AtHasSlot DEF CompactEnd
<1>2. DOMAIN disk' \subseteq Nat /\ \A n \in DOMAIN disk' : disk'[n] \subseteq Entry
  <2>1. CASE o \in {"ok", "torn", "assert"}
    BY Zenon, <1>1, <2>1 DEF TypeOK, CompactEnd, Written, Compaction
  <2>2. CASE o = "write"
    BY Zenon, <1>1, <2>2 DEF TypeOK, CompactEnd, Written, Compaction
  <2>3. CASE o \notin {"ok", "torn", "assert", "write"}
    BY Zenon, <1>1, <2>3 DEF TypeOK, CompactEnd, Written, Compaction
  <2> QED
    BY Zenon, <2>1, <2>2, <2>3
<1>3. file_metas_[task[t].slot] \in FileMeta
  BY <1>1 DEF TypeOK
<1>4. [number |-> sstable_number_, built |-> Ok(o),
       span |-> file_metas_[task[t].slot].span] \in FileMeta
  BY <1>3 DEF TypeOK, FileMeta, Ok
<1>5. file_metas_' \in Seq(FileMeta)
  <2>1. file_metas_' = [file_metas_ EXCEPT ![task[t].slot] =
          [number |-> sstable_number_, built |-> Ok(o),
           span |-> file_metas_[task[t].slot].span]]
    BY Zenon, <1>1 DEF CompactEnd
  <2> QED
    BY <1>1, <1>4, <2>1, ExceptSeq DEF TypeOK
<1>6. sstable_number_' \in Nat
  BY DEF TypeOK, CompactEnd
<1> QED
  BY Zenon, <1>2, <1>5, <1>6 DEF CompactEnd, FilesTyped

\* The thread goes on to the next line of BackGroundCompaction, or returns.
LEMMA StepTyped ==
    ASSUME TypeOK, task[Background] # NULL, NEW step \in CompactSteps
    PROVE  [task EXCEPT ![Background].step = step]
             \in [{Background, Destructor} -> Compaction \cup {NULL}]
PROOF
<1>1. task[Background] \in Compaction
  BY Zenon DEF TypeOK
<1>2. [task[Background] EXCEPT !.step = step] \in Compaction
  BY <1>1 DEF Compaction
<1> QED
  BY Zenon, <1>2 DEF TypeOK

\* Every step keeps the types; the lock invariant bounds the queue.
LEMMA TypeStep ==
    ASSUME TypeOK, Locking, [Next]_vars
    PROVE  TypeOK'
PROOF
<1> USE DEF TypeOK, callVars, lockVars, memVars, bgVars, seqVars, fileVars,
            objVars, Goto, Owned, Shared
<1>1. CASE UNCHANGED vars
  BY Zenon, <1>1 DEF vars
<1>2. ASSUME NEW c \in Clients, NEW b \in Batches, WriteLock(c, b)
      PROVE  TypeOK'
  <2>1. writer' \in [Clients -> [batch : Seq(Op), done : BOOLEAN]]
    BY Zenon, <1>2, BatchAssumption DEF WriteLock
  <2>2. writers_' \in Seq(Clients)
    BY <1>2 DEF WriteLock
  <2>3. rwlock_' \in [owner : Clients \cup {Background, Destructor, NULL},
                      readers : SUBSET Clients]
    BY Zenon, <1>2 DEF WriteLock
  <2> QED
    BY Zenon, <1>2, <2>1, <2>2, <2>3 DEF WriteLock, WriterSteps
<1>3. ASSUME NEW c \in Clients, RoomLeft(c)
      PROVE  TypeOK'
  BY Zenon, <1>3 DEF RoomLeft, WriterSteps
<1>4. ASSUME NEW c \in Clients, WaitForCompaction(c)
      PROVE  TypeOK'
  BY Zenon, <1>4 DEF WaitForCompaction, WriterSteps
<1>5. ASSUME NEW c \in Clients, SwitchMemtable(c)
      PROVE  TypeOK'
  <2>1. memtable_' \in Memtable
    BY Zenon, <1>5, SizeAssumption
    DEF MaybeScheduleCompaction, SwitchMemtable, NewMemtable, Memtable
  <2> QED
    BY <1>5, <2>1 DEF MaybeScheduleCompaction, SwitchMemtable
<1>6. ASSUME NEW c \in Clients, Wake(c)
      PROVE  TypeOK'
  BY Zenon, <1>6 DEF Wake, WriterSteps
<1>7. ASSUME NEW c \in Clients, BuildWriteBatchGroup(c)
      PROVE  TypeOK'
  <2>1. /\ writer' = writer
        /\ insertion' = [number |-> last_sequence_, todo |-> writer[c].batch,
                         last |-> c]
        /\ last_sequence_' = last_sequence_ + Len(writer[c].batch)
    <3> HIDE DEF TypeOK
    <3> QED
      BY Zenon, <1>7, GroupEffect
  <2>2. insertion' \in [number : Nat, todo : Seq(Op), last : Clients \cup {NULL}]
    BY Zenon, <2>1
  <2>3. last_sequence_' \in Nat
    BY <2>1
  <2> QED
    BY ZenonT(30), <1>7, <2>1, <2>2, <2>3 DEF BuildWriteBatchGroup, WriterSteps
<1>8. ASSUME NEW c \in Clients, InsertOne(c)
      PROVE  TypeOK'
  <2> DEFINE op == Head(insertion.todo)
  <2>1. op \in Op /\ Tail(insertion.todo) \in Seq(Op)
    BY <1>8 DEF InsertOne
  <2>2. PackSequence(insertion.number + 1) \in Nat
    BY ModulusAssumption DEF PackSequence
  <2>3. [key |-> op.key, seq |-> PackSequence(insertion.number + 1),
         type |-> op.type] \in Entry
    BY Zenon, <2>1, <2>2 DEF Op, Entry
  <2>4. memtable_' \in Memtable
    BY SMTT(30), <1>8, <2>3 DEF InsertOne, Memtable
  <2>5. insertion' \in [number : Nat, todo : Seq(Op), last : Clients \cup {NULL}]
    BY <1>8, <2>1 DEF InsertOne
  <2> QED
    BY Zenon, <1>8, <2>4, <2>5 DEF InsertOne
<1>9. ASSUME NEW c \in Clients, FinishWrite(c)
      PROVE  TypeOK'
  <2>2. writers_' = <<>>
    BY Zenon, <1>9, FinishEmptiesQueue
  <2>3. writer' \in [Clients -> [batch : Seq(Op), done : BOOLEAN]]
    BY Zenon, <1>9 DEF FinishWrite
  <2>4. insertion' \in [number : Nat, todo : Seq(Op), last : Clients \cup {NULL}]
    BY Zenon, <1>9 DEF FinishWrite
  <2>5. rwlock_' \in [owner : Clients \cup {Background, Destructor, NULL},
                      readers : SUBSET Clients]
    BY Zenon, <1>9 DEF FinishWrite
  <2>6. writers_' \in Seq(Clients)
    BY <2>2
  <2> QED
    BY ZenonT(30), <1>9, <2>3, <2>4, <2>5, <2>6 DEF FinishWrite
<1>10. ASSUME NEW c \in Clients, NEW k \in Lookups, GetLock(c, k)
       PROVE  TypeOK'
  BY Zenon, <1>10, LookupAssumption DEF GetLock, ReaderSteps
<1>11. ASSUME NEW c \in Clients, GetMemory(c)
       PROVE  TypeOK'
  <2>1. MemoryGet(lookup[c]) \in Entry \cup {NotFound}
    BY Zenon, MemoryGetResult DEF EntriesOf, Memtable
  <2> QED
    BY Zenon, <1>11, <2>1 DEF GetMemory, ReaderSteps
<1>12. ASSUME NEW c \in Clients, GetDisk(c)
       PROVE  TypeOK'
  <2>1. result' \in [Clients -> Entry \cup {NotFound}]
    BY SMTT(90), <1>12, InternalGetResult DEF GetDisk, Opens
  <2> QED
    BY SMTT(90), <1>12, <2>1 DEF GetDisk, ReaderSteps, Phases
<1>13. ASSUME NEW c \in Clients, GetReturn(c)
       PROVE  TypeOK'
  BY Zenon, <1>13 DEF GetReturn
<1>14. ASSUME BackgroundBegin
       PROVE  TypeOK'
  <2>1. NewCompaction \in Compaction
    BY DEF NewCompaction, Compaction, CompactSteps
  <2>2. rwlock_' \in [owner : Clients \cup {Background, Destructor, NULL},
                      readers : SUBSET Clients]
    BY Zenon, <1>14 DEF BackgroundBegin
  <2>3. spawned' \in Nat
    BY <1>14 DEF BackgroundBegin, BackgroundFree
  <2> QED
    BY ZenonT(30), <1>14, <2>1, <2>2, <2>3 DEF BackgroundBegin
<1>15. ASSUME NEW o, BackgroundEnd(o)
       PROVE  TypeOK'
  <2>1. FilesTyped' /\ manifest' = manifest
    <3> HIDE DEF TypeOK
    <3> QED
      BY Zenon, <1>15, CompactEndType DEF BackgroundEnd
  <2>2. rwlock_' \in [owner : Clients \cup {Background, Destructor, NULL},
                      readers : SUBSET Clients]
    <3>1. CASE Ok(o)
      BY Zenon, <1>15, <3>1 DEF BackgroundEnd
    <3>2. CASE ~Ok(o)
      <4>1. rwlock_' = Owned(NULL)
        BY Zenon, <1>15, <3>2 DEF BackgroundEnd, BackgroundReturn
      <4> QED
        BY Zenon, <4>1
    <3> QED
      BY Zenon, <3>1, <3>2
  <2>3. TaskTyped'
    <3>1. task[Background] # NULL
      BY Zenon, <1>15 DEF BackgroundEnd, CompactEnd, At
    <3>2. CASE Ok(o)
      <4> HIDE DEF TypeOK
      <4> QED
        BY Zenon, <1>15, <3>1, <3>2, StepTyped DEF BackgroundEnd, TaskTyped, CompactSteps
    <3>3. CASE ~Ok(o)
      BY Zenon, <1>15, <3>3 DEF BackgroundEnd, BackgroundReturn, TaskTyped
    <3> QED
      BY Zenon, <3>2, <3>3
  <2>4. background_compaction_schedule_' \in BOOLEAN
    BY Zenon, <1>15 DEF BackgroundEnd, BackgroundReturn
  <2>5. proc' \in Phases
    BY Zenon, <1>15 DEF BackgroundEnd, Phases
  <2> QED
    BY ZenonT(30), <1>15, <2>1, <2>2, <2>3, <2>4, <2>5
    DEF BackgroundEnd, FilesTyped, TaskTyped
<1>16. ASSUME BackgroundNothing
       PROVE  TypeOK'
  <2>1. spawned' \in Nat
    BY <1>16 DEF BackgroundNothing, BackgroundFree
  <2> QED
    BY ZenonT(30), <1>16, <2>1 DEF BackgroundNothing
<1>17. ASSUME DestructorLock
       PROVE  TypeOK'
  <2>1. rwlock_' \in [owner : Clients \cup {Background, Destructor, NULL},
                      readers : SUBSET Clients]
    BY SMTT(30), <1>17 DEF DestructorLock
  <2> QED
    BY Zenon, <1>17, <2>1 DEF DestructorLock, Phases
<1>18. ASSUME DestructorSwap
       PROVE  TypeOK'
  <2>1. NewCompaction \in Compaction
    BY DEF NewCompaction, Compaction, CompactSteps
  <2>2. task' \in [{Background, Destructor} -> Compaction \cup {NULL}]
    BY Zenon, <1>18, <2>1 DEF DestructorSwap
  <2>3. beside' \in BOOLEAN /\ proc' \in Phases
    <3>1. Compactors \in Nat
      BY DEF Compactors
    <3>2. beside' = (Compactors > 0) /\ proc' = "d_build"
      BY Zenon, <1>18 DEF DestructorSwap
    <3>3. (Compactors > 0) \in BOOLEAN
      BY <3>1
    <3> QED
      BY Zenon, <3>2, <3>3 DEF Phases
  <2>4. immutable_memtable_' \in Memtable \cup {NULL} /\ memtable_' \in Memtable
    BY Zenon, <1>18 DEF DestructorSwap
  <2>5. UNCHANGED <<callVars, lockVars, background_compaction_schedule_, spawned,
                    seqVars, fileVars, freed>>
    BY Zenon, <1>18 DEF DestructorSwap
  <2> QED
    BY ZenonT(30), <2>2, <2>3, <2>4, <2>5
<1>19. ASSUME NEW t \in {Background, Destructor}, CompactStep(t)
       PROVE  TypeOK'
  <2>1. FilesTyped' /\ TaskTyped' /\ manifest' = manifest
    <3> HIDE DEF TypeOK
    <3> QED
      BY Zenon, <1>19, CompactStepType
  <2>2. /\ UNCHANGED <<callVars, lockVars, memVars,
                       background_compaction_schedule_, spawned, seqVars, freed,
                       beside>>
        /\ proc' \in {proc, "aborted"}
    BY Zenon, <1>19 DEF CompactStep, CompactPush, CompactRead, CompactKeys
  <2>3. proc' \in Phases
    BY Zenon, <2>2 DEF Phases
  <2> QED
    BY ZenonT(30), <2>1, <2>2, <2>3 DEF FilesTyped, TaskTyped
<1>20. ASSUME NEW o, DestructorEnd(o)
       PROVE  TypeOK'
  <2>1. FilesTyped' /\ manifest' = manifest
    <3> HIDE DEF TypeOK
    <3> QED
      BY Zenon, <1>20, CompactEndType DEF DestructorEnd
  <2> QED
    BY Zenon, <1>20, <2>1 DEF DestructorEnd, FilesTyped, Phases
<1>21. ASSUME DumpManifest
       PROVE  TypeOK'
  <2>1. PICK n \in 0..Len(file_metas_) :
          /\ manifest' = [count |-> Len(file_metas_), last |-> last_sequence_,
                          metas |-> SubSeq(file_metas_, 1, n)]
          /\ proc' = IF n = Len(file_metas_) THEN "closed" ELSE "aborted"
    BY Zenon, <1>21 DEF DumpManifest
  <2>2. SubSeq(file_metas_, 1, n) \in Seq(FileMeta)
    BY Zenon, PrefixType
  <2>3. manifest' \in [count : Nat, last : Nat, metas : Seq(FileMeta)] \cup {NULL}
    BY <2>1, <2>2
  <2> QED
    BY ZenonT(30), <1>21, <2>1, <2>3 DEF DumpManifest, Phases
<1>22. ASSUME BackgroundDelete
       PROVE  TypeOK'
  <2>1. TaskTyped'
    <3> HIDE DEF TypeOK
    <3> QED
      BY Zenon, <1>22, StepTyped DEF BackgroundDelete, At, TaskTyped, CompactSteps
  <2> QED
    BY ZenonT(30), <1>22, <2>1 DEF BackgroundDelete, TaskTyped
<1>23. ASSUME BackgroundNull
       PROVE  TypeOK'
  BY ZenonT(30), <1>23 DEF BackgroundNull, BackgroundReturn
<1>24. ASSUME DestructorFree
       PROVE  TypeOK'
  BY ZenonT(30), <1>24 DEF DestructorFree, Phases
<1>25. ASSUME RaceAborts
       PROVE  TypeOK'
  BY ZenonT(30), <1>25 DEF RaceAborts, Phases
<1> QED
  <2> HIDE DEF TypeOK
  <2> QED
    BY ZenonT(30), <1>1, <1>2, <1>3, <1>4, <1>5, <1>6, <1>7, <1>8, <1>9, <1>10,
       <1>11, <1>12, <1>13, <1>14, <1>15, <1>16, <1>17, <1>18, <1>19, <1>20,
       <1>21, <1>22, <1>23, <1>24, <1>25
    DEF Next, WriteStep, ReadStep, BackgroundStep, DestructorStep

-----------------------------------------------------------------------------
(* The lock invariant *)

\* Nobody holds rwlock_ after the constructor.
LEMMA LockInit == Init => Locking
  BY ThreadAssumption
  DEF Init, Locking, QueueHoldsOnlyOwner, WriterSteps, ReaderSteps, HasSlot

\* Each running CompactMemtable keeps the slot of its FileMeta.
SlotsHeld ==
    \A t \in {Background, Destructor} :
        HasSlot(t) => task[t].slot \in DOMAIN file_metas_

SameTasks(t) == \A u \in {Background, Destructor} : u # t => task'[u] = task[u]

\* Up to the build, a CompactMemtable holds its FileMeta in file_metas_.
LEMMA CompactStepSlots ==
    ASSUME TypeOK, SlotsHeld, NEW t \in {Background, Destructor}, CompactStep(t)
    PROVE  SlotsHeld' /\ task[t] # NULL /\ task'[t] # NULL /\ SameTasks(t)
PROOF
<1>1. task[t] # NULL /\ SameTasks(t)
  BY Zenon DEF TypeOK, CompactStep, CompactPush, CompactRead, CompactKeys, At,
     SameTasks
<1>2. /\ Len(file_metas_) \in Nat /\ DOMAIN file_metas_ = 1..Len(file_metas_)
      /\ sstable_number_ \in Nat /\ EntriesOf(immutable_memtable_) \subseteq Entry
  BY DEF TypeOK, EntriesOf, Memtable
<1>3. CASE CompactPush(t)
  <2>1. DOMAIN file_metas_' = 1..(Len(file_metas_) + 1)
    BY <1>3 DEF CompactPush, TypeOK
  <2>2. [step |-> "read", name |-> sstable_number_, entries |-> {},
         slot |-> Len(file_metas_) + 1] \in Compaction
    BY <1>2 DEF Compaction, CompactSteps
  <2>3. task'[t].slot = Len(file_metas_) + 1 /\ task'[t] # NULL
    BY Zenon, <1>3, <2>2, NullAssumption DEF CompactPush, TypeOK
  <2> QED
    BY <1>1, <1>2, <2>1, <2>3 DEF SlotsHeld, SameTasks, HasSlot
<1>4. CASE CompactRead(t) \/ CompactKeys(t)
  <2>1. task[t] \in Compaction
    BY Zenon, <1>1 DEF TypeOK
  <2>2. HasSlot(t)
    BY Zenon, <1>4 DEF CompactRead, CompactKeys, At, HasSlot
  <2>3. DOMAIN file_metas_' = DOMAIN file_metas_
    BY Zenon, <1>4 DEF CompactRead, CompactKeys, fileVars
  <2>4. /\ [step |-> "build", name |-> task[t].name,
            entries |-> EntriesOf(immutable_memtable_), slot |-> task[t].slot]
              \in Compaction
        /\ [step |-> "write", name |-> task[t].name,
            entries |-> task[t].entries, slot |-> task[t].slot] \in Compaction
    BY Zenon, <1>2, <2>1 DEF Compaction, CompactSteps
  <2>5. task'[t].slot = task[t].slot /\ task'[t] # NULL
    <3>1. CASE CompactRead(t)
      BY Zenon, <2>4, <3>1, NullAssumption DEF CompactRead, TypeOK
    <3>2. CASE CompactKeys(t)
      BY Zenon, <2>4, <3>2, NullAssumption DEF CompactKeys, TypeOK
    <3> QED
      BY Zenon, <1>4, <3>1, <3>2
  <2> QED
    BY Zenon, <1>1, <2>2, <2>3, <2>5 DEF SlotsHeld, SameTasks, HasSlot
<1> QED
  BY Zenon, <1>3, <1>4 DEF CompactStep

\* The thread that goes on after CompactMemtable has no FileMeta any more.
LEMMA StepSlots ==
    ASSUME TypeOK, SlotsHeld, task[Background] # NULL,
           NEW step \in {"delete", "null"},
           task' = [task EXCEPT ![Background].step = step],
           DOMAIN file_metas_' = DOMAIN file_metas_
    PROVE  /\ SlotsHeld' /\ task'[Background] # NULL /\ SameTasks(Background)
           /\ task'[Background].step = step
PROOF
<1>1. task[Background] \in Compaction
  BY Zenon DEF TypeOK
<1>2. step \in CompactSteps
  BY Zenon DEF CompactSteps
<1>3. /\ task'[Background] = [task[Background] EXCEPT !.step = step]
      /\ SameTasks(Background)
  BY Zenon DEF TypeOK, SameTasks
<1>4. task'[Background] \in Compaction /\ task'[Background].step = step
  BY <1>1, <1>2, <1>3 DEF Compaction
<1>5. task'[Background] # NULL /\ ~HasSlot(Background)'
  BY Zenon, <1>4, NullAssumption DEF HasSlot
<1> QED
  BY Zenon, <1>3, <1>4, <1>5 DEF SlotsHeld, SameTasks, HasSlot

\* A CompactMemtable that ends leaves the FileMetas of others in place.
LEMMA ReturnSlots ==
    ASSUME TypeOK, SlotsHeld, NEW t \in {Background, Destructor},
           task' = [task EXCEPT ![t] = NULL],
           DOMAIN file_metas_' = DOMAIN file_metas_
    PROVE  SlotsHeld' /\ task'[t] = NULL /\ SameTasks(t)
PROOF
<1>1. task'[t] = NULL /\ SameTasks(t)
  BY Zenon DEF TypeOK, SameTasks
<1> QED
  BY Zenon, <1>1 DEF SlotsHeld, SameTasks, HasSlot

\* A thread that enters CompactMemtable has no FileMeta yet.
LEMMA EnterSlots ==
    ASSUME TypeOK, SlotsHeld, NEW t \in {Background, Destructor},
           task' = [task EXCEPT ![t] = NewCompaction],
           DOMAIN file_metas_' = DOMAIN file_metas_
    PROVE  /\ SlotsHeld' /\ task'[t] = NewCompaction /\ task'[t] # NULL
           /\ SameTasks(t) /\ ~HasSlot(t)'
PROOF
<1>1. NewCompaction \in Compaction /\ NewCompaction.step = "push"
  BY DEF NewCompaction, Compaction, CompactSteps
<1>2. task'[t] = NewCompaction /\ SameTasks(t)
  BY Zenon DEF TypeOK, SameTasks
<1>3. task'[t] # NULL /\ ~HasSlot(t)'
  BY Zenon, <1>1, <1>2, NullAssumption DEF HasSlot
<1> QED
  BY Zenon, <1>2, <1>3 DEF SlotsHeld, SameTasks, HasSlot

\* A thread that goes on inside Write or inside Get leaves the lock as it was.
LEMMA StaysLocked ==
    ASSUME TypeOK, Locking, NEW c \in Clients, NEW to,
           Goto(c, to),
           \/ pc[c] \in WriterSteps /\ to \in WriterSteps \ {"queued", "insert"}
           \/ pc[c] \in ReaderSteps /\ to \in ReaderSteps,
           pc[c] = "insert" => insertion.todo = <<>>,
           UNCHANGED <<writers_, rwlock_, insertion, task, file_metas_>>,
           proc' \in {proc, "aborted"}
    PROVE  Locking'
PROOF
<1>1. pc \in [Clients -> WriterSteps \cup ReaderSteps \cup {"idle"}]
  BY Zenon DEF TypeOK
<1> QED
  BY SMTT(30), <1>1, ThreadAssumption
  DEF Goto, Locking, QueueHoldsOnlyOwner, WriterSteps, ReaderSteps, HasSlot

\* Steps that touch neither locks nor threads keep the lock invariant.
LEMMA SameLocks ==
    ASSUME Locking, UNCHANGED <<pc, writers_, rwlock_, insertion, task, file_metas_>>,
           proc' = "d_build" => proc = "d_build"
    PROVE  Locking'
  BY Zenon DEF Locking, QueueHoldsOnlyOwner, HasSlot

\* The lock goes from or to a thread that is no client.
LEMMA CompactionLocks ==
    ASSUME Locking, SlotsHeld', UNCHANGED <<pc, writers_, insertion>>,
           rwlock_'.readers = rwlock_.readers,
           rwlock_'.owner # rwlock_.owner =>
               rwlock_.readers = {} /\ {rwlock_.owner, rwlock_'.owner} \cap Clients = {},
           rwlock_'.owner = Background <=> task'[Background] # NULL,
           proc' = "d_build" => task'[Destructor] # NULL
    PROVE  Locking'
  BY Zenon DEF SlotsHeld, Locking, QueueHoldsOnlyOwner, WriterSteps

\* Every step keeps the lock invariant.
LEMMA LockStep ==
    ASSUME TypeOK, Locking, [Next]_vars
    PROVE  Locking'
PROOF
<1> USE DEF callVars, lockVars, memVars, bgVars, seqVars, fileVars, objVars,
            Owned, Shared, HasSlot
<1>s. SlotsHeld
  BY Zenon DEF Locking, SlotsHeld
<1>b. /\ rwlock_.owner = Background <=> task[Background] # NULL
      /\ rwlock_.owner # NULL => rwlock_.readers = {}
      /\ proc = "d_build" => task[Destructor] # NULL
  BY Zenon DEF Locking
<1>0. /\ pc \in [Clients -> WriterSteps \cup ReaderSteps \cup {"idle"}]
      /\ rwlock_ \in [owner : Clients \cup {Background, Destructor, NULL},
                      readers : SUBSET Clients]
  BY Zenon DEF TypeOK
<1>1. CASE UNCHANGED vars
  BY Zenon, <1>1, SameLocks DEF vars
<1>2. ASSUME NEW c \in Clients, NEW b \in Batches, WriteLock(c, b)
      PROVE  Locking'
  <2>1. writers_' = <<c>> /\ pc' = [pc EXCEPT ![c] = "room"]
    BY Zenon, <1>2, EmptyQueueGrows
  <2>2. /\ rwlock_.owner = NULL /\ rwlock_.readers = {}
        /\ rwlock_'.owner = c /\ rwlock_'.readers = {}
        /\ UNCHANGED <<task, insertion, file_metas_, proc>>
    BY Zenon, <1>2 DEF WriteLock
  <2> QED
    BY Zenon, <1>0, <2>1, <2>2, ThreadAssumption
    DEF Locking, QueueHoldsOnlyOwner, WriterSteps, ReaderSteps
<1>3. ASSUME NEW c \in Clients, RoomLeft(c)
      PROVE  Locking'
  BY Zenon, <1>3, StaysLocked DEF RoomLeft, WriterSteps
<1>4. ASSUME NEW c \in Clients, WaitForCompaction(c)
      PROVE  Locking'
  BY Zenon, <1>4, StaysLocked DEF WaitForCompaction, WriterSteps
<1>5. ASSUME NEW c \in Clients, SwitchMemtable(c)
      PROVE  Locking'
  BY Zenon, <1>5, SameLocks DEF MaybeScheduleCompaction, SwitchMemtable
<1>6. ASSUME NEW c \in Clients, Wake(c)
      PROVE  Locking'
  <2>1. pc[c] = "waitroom"
    BY Zenon, <1>6 DEF Wake, Locking, QueueHoldsOnlyOwner
  <2> QED
    BY Zenon, <1>6, <2>1, StaysLocked DEF Wake, WriterSteps
<1>7. ASSUME NEW c \in Clients, BuildWriteBatchGroup(c)
      PROVE  Locking'
  <2>1. insertion'.last = c
    BY <1>7, GroupEffect
  <2>2. /\ pc[c] = "group" /\ pc' = [pc EXCEPT ![c] = "insert"]
        /\ UNCHANGED <<writers_, rwlock_, task, file_metas_, proc>>
    BY Zenon, <1>7 DEF BuildWriteBatchGroup, Goto
  <2> QED
    BY SMTT(30), <1>0, <2>1, <2>2, ThreadAssumption
    DEF Locking, QueueHoldsOnlyOwner, WriterSteps, ReaderSteps
<1>8. ASSUME NEW c \in Clients, InsertOne(c)
      PROVE  Locking'
  <2>1. /\ pc[c] = "insert" /\ insertion'.last = insertion.last
        /\ UNCHANGED <<pc, writers_, rwlock_, task, file_metas_, proc>>
    BY Zenon, <1>8 DEF InsertOne
  <2> QED
    BY Zenon, <2>1 DEF Locking, QueueHoldsOnlyOwner
<1>9. ASSUME NEW c \in Clients, FinishWrite(c)
      PROVE  Locking'
  <2>1. /\ pc[c] = "insert" /\ pc' = [pc EXCEPT ![c] = "idle"]
        /\ rwlock_'.owner = NULL /\ rwlock_'.readers = rwlock_.readers
        /\ UNCHANGED <<task, file_metas_, proc>> /\ insertion'.todo = <<>>
    BY Zenon, <1>9 DEF FinishWrite, Goto
  <2>2. writers_' = <<>>
    BY Zenon, <1>9, FinishEmptiesQueue
  <2> QED
    BY SMTT(30), <1>0, <2>1, <2>2, ThreadAssumption
    DEF Locking, QueueHoldsOnlyOwner, WriterSteps, ReaderSteps
<1>10. ASSUME NEW c \in Clients, NEW k \in Lookups, GetLock(c, k)
       PROVE  Locking'
  <2>1. /\ pc[c] = "idle" /\ pc' = [pc EXCEPT ![c] = "memory"]
        /\ rwlock_.owner = NULL /\ rwlock_'.owner = NULL
        /\ rwlock_'.readers = rwlock_.readers \cup {c}
        /\ UNCHANGED <<writers_, insertion, task, file_metas_, proc>>
    BY Zenon, <1>10 DEF GetLock, Goto
  <2> QED
    BY SMTT(30), <1>0, <2>1, ThreadAssumption
    DEF Locking, QueueHoldsOnlyOwner, WriterSteps, ReaderSteps
<1>11. ASSUME NEW c \in Clients, GetMemory(c)
       PROVE  Locking'
  BY Zenon, <1>11, StaysLocked DEF GetMemory, ReaderSteps
<1>12. ASSUME NEW c \in Clients, GetDisk(c)
       PROVE  Locking'
  <2>1. proc' \in {proc, "aborted"}
    BY Zenon, <1>12 DEF GetDisk
  <2> QED
    BY Zenon, <1>12, <2>1, StaysLocked DEF GetDisk, ReaderSteps
<1>13. ASSUME NEW c \in Clients, GetReturn(c)
       PROVE  Locking'
  <2>1. /\ pc[c] = "return" /\ pc' = [pc EXCEPT ![c] = "idle"]
        /\ rwlock_'.owner = rwlock_.owner
        /\ rwlock_'.readers = rwlock_.readers \ {c}
        /\ UNCHANGED <<writers_, insertion, task, file_metas_, proc>>
    BY Zenon, <1>13 DEF GetReturn, Goto
  <2> QED
    BY SMTT(30), <1>0, <2>1, ThreadAssumption
    DEF Locking, QueueHoldsOnlyOwner, WriterSteps, ReaderSteps
<1>14. ASSUME BackgroundBegin
       PROVE  Locking'
  <2>1. SlotsHeld' /\ task'[Background] # NULL /\ SameTasks(Background)
    BY Zenon, <1>14, <1>s, EnterSlots DEF BackgroundBegin
  <2>2. /\ rwlock_.owner = NULL /\ rwlock_.readers = {}
        /\ rwlock_'.owner = Background /\ rwlock_'.readers = {}
        /\ UNCHANGED <<pc, writers_, insertion, proc>>
    BY Zenon, <1>14 DEF BackgroundBegin, BackgroundFree
  <2> QED
    BY Zenon, <1>b, <2>1, <2>2, CompactionLocks, ThreadAssumption DEF SameTasks
<1>15. ASSUME NEW o, BackgroundEnd(o)
       PROVE  Locking'
  <2>1. task[Background] # NULL /\ DOMAIN file_metas_' = DOMAIN file_metas_
    BY Zenon, <1>15 DEF BackgroundEnd, CompactEnd, At
  <2>2. UNCHANGED <<pc, writers_, insertion>> /\ proc' \in {proc, "aborted"}
    BY Zenon, <1>15 DEF BackgroundEnd
  <2>3. CASE Ok(o)
    <3>1. /\ rwlock_' = rwlock_
          /\ SlotsHeld' /\ task'[Background] # NULL /\ SameTasks(Background)
      BY Zenon, <1>15, <1>s, <2>1, <2>3, StepSlots DEF BackgroundEnd
    <3> QED
      BY Zenon, <1>b, <2>1, <2>2, <3>1, CompactionLocks, ThreadAssumption DEF SameTasks
  <2>4. CASE ~Ok(o)
    <3>0. rwlock_' = Owned(NULL) /\ task' = [task EXCEPT ![Background] = NULL]
      BY Zenon, <1>15, <2>4 DEF BackgroundEnd, BackgroundReturn
    <3>1. /\ rwlock_'.owner = NULL /\ rwlock_'.readers = rwlock_.readers
          /\ SlotsHeld' /\ task'[Background] = NULL /\ SameTasks(Background)
      BY Zenon, <1>s, <2>1, <3>0, ReturnSlots
    <3> QED
      BY Zenon, <1>b, <2>1, <2>2, <3>1, CompactionLocks, ThreadAssumption DEF SameTasks
  <2> QED
    BY Zenon, <2>3, <2>4
<1>16. ASSUME BackgroundNothing
       PROVE  Locking'
  BY Zenon, <1>16, SameLocks DEF BackgroundNothing
<1>17. ASSUME DestructorLock
       PROVE  Locking'
  <2>1. SlotsHeld' /\ UNCHANGED <<pc, writers_, insertion, task>>
    BY Zenon, <1>17, <1>s DEF DestructorLock, SlotsHeld, HasSlot
  <2>2. /\ rwlock_.owner = NULL /\ rwlock_.readers = {}
        /\ rwlock_'.owner \in {NULL, Destructor} /\ rwlock_'.readers = {}
        /\ proc' # "d_build"
    BY <1>17 DEF DestructorLock
  <2> QED
    BY Zenon, <1>b, <2>1, <2>2, CompactionLocks, ThreadAssumption
<1>18. ASSUME DestructorSwap
       PROVE  Locking'
  <2>1. SlotsHeld' /\ task'[Destructor] # NULL /\ SameTasks(Destructor)
    BY Zenon, <1>18, <1>s, EnterSlots DEF DestructorSwap
  <2>2. UNCHANGED <<pc, writers_, rwlock_, insertion>>
    BY Zenon, <1>18 DEF DestructorSwap
  <2> QED
    BY Zenon, <1>b, <2>1, <2>2, CompactionLocks, ThreadAssumption DEF SameTasks
<1>19. ASSUME NEW t \in {Background, Destructor}, CompactStep(t)
       PROVE  Locking'
  <2>1. SlotsHeld' /\ task[t] # NULL /\ task'[t] # NULL /\ SameTasks(t)
    BY Zenon, <1>19, <1>s, CompactStepSlots
  <2>2. UNCHANGED <<pc, writers_, rwlock_, insertion>> /\ proc' \in {proc, "aborted"}
    BY Zenon, <1>19 DEF CompactStep, CompactPush, CompactRead, CompactKeys
  <2> QED
    BY Zenon, <1>b, <2>1, <2>2, CompactionLocks, ThreadAssumption DEF SameTasks
<1>20. ASSUME NEW o, DestructorEnd(o)
       PROVE  Locking'
  <2>1. SlotsHeld' /\ SameTasks(Destructor)
    BY Zenon, <1>20, <1>s, ReturnSlots DEF DestructorEnd, CompactEnd
  <2>2. UNCHANGED <<pc, writers_, rwlock_, insertion>> /\ proc' # "d_build"
    BY Zenon, <1>20 DEF DestructorEnd
  <2> QED
    BY Zenon, <1>b, <2>1, <2>2, CompactionLocks, ThreadAssumption DEF SameTasks
<1>21. ASSUME DumpManifest
       PROVE  Locking'
  BY Zenon, <1>21, SameLocks DEF DumpManifest
<1>22. ASSUME BackgroundDelete
       PROVE  Locking'
  <2>1. /\ task[Background] # NULL
        /\ UNCHANGED <<pc, writers_, rwlock_, insertion, proc, file_metas_>>
    BY Zenon, <1>22 DEF BackgroundDelete, At
  <2>2. SlotsHeld' /\ task'[Background] # NULL /\ SameTasks(Background)
    BY Zenon, <1>22, <1>s, <2>1, StepSlots DEF BackgroundDelete
  <2> QED
    BY Zenon, <1>b, <2>1, <2>2, CompactionLocks, ThreadAssumption DEF SameTasks
<1>23. ASSUME BackgroundNull
       PROVE  Locking'
  <2>1. /\ task[Background] # NULL
        /\ UNCHANGED <<pc, writers_, insertion, proc, file_metas_>>
        /\ rwlock_'.owner = NULL /\ rwlock_'.readers = rwlock_.readers
    BY Zenon, <1>23 DEF BackgroundNull, BackgroundReturn, At
  <2>2. SlotsHeld' /\ task'[Background] = NULL /\ SameTasks(Background)
    BY Zenon, <1>23, <1>s, <2>1, ReturnSlots DEF BackgroundNull, BackgroundReturn
  <2> QED
    BY Zenon, <1>b, <2>1, <2>2, CompactionLocks, ThreadAssumption DEF SameTasks
<1>24. ASSUME DestructorFree
       PROVE  Locking'
  BY Zenon, <1>24, SameLocks DEF DestructorFree
<1>25. ASSUME RaceAborts
       PROVE  Locking'
  BY Zenon, <1>25, SameLocks DEF RaceAborts
<1> QED
  BY ZenonT(30), <1>1, <1>2, <1>3, <1>4, <1>5, <1>6, <1>7, <1>8, <1>9, <1>10, <1>11,
     <1>12, <1>13, <1>14, <1>15, <1>16, <1>17, <1>18, <1>19, <1>20, <1>21,
     <1>22, <1>23, <1>24, <1>25
  DEF Next, WriteStep, ReadStep, BackgroundStep, DestructorStep

-----------------------------------------------------------------------------
(* Compaction threads, and the FileMetas of their tables *)

\* What each step of CompactMemtable leaves of the FileMetas: their owners, and
\* that a failure stays visible.
MetasKept == Slots' /\ (Failed => Failed')

\* push_back takes a FileMeta that no other thread has.
LEMMA PushKeeps ==
    ASSUME TypeOK, Locking, Slots, NEW t \in {Background, Destructor},
           CompactPush(t)
    PROVE  MetasKept /\ (Keyless => Keyless')
PROOF
<1> DEFINE meta == [number |-> 0, span |-> {}, built |-> FALSE]
           new == Len(file_metas_) + 1
<1>1. SlotsHeld
  BY Zenon DEF Locking, SlotsHeld
<1>2. SameTasks(t) /\ task'[t] # NULL
  BY Zenon, <1>1, CompactStepSlots DEF CompactStep
<1>3. /\ task'[t].slot = new /\ task'[t].step = "read" /\ HasSlot(t)'
  BY Zenon, <1>2 DEF CompactPush, TypeOK, HasSlot
<1>4. /\ DOMAIN file_metas_' = DOMAIN file_metas_ \cup {new}
      /\ new \notin DOMAIN file_metas_
      /\ \A i \in DOMAIN file_metas_ : file_metas_'[i] = file_metas_[i]
      /\ file_metas_'[new] = meta
  BY SMTT(30) DEF CompactPush, TypeOK
<1>5. sstable_number_' = sstable_number_
  BY Zenon DEF CompactPush
<1>6. meta.number = 0 /\ meta.span = {} /\ meta.built = FALSE
  BY Zenon
<1> HIDE DEF meta, new
<1>7. ASSUME NEW u \in {Background, Destructor}, HasSlot(u)'
      PROVE  file_metas_'[task'[u].slot].number = 0
  <2>1. CASE u = t
    BY Zenon, <1>3, <1>4, <1>6, <2>1
  <2>2. CASE u # t
    <3>1. task'[u] = task[u] /\ HasSlot(u)
      BY Zenon, <1>2, <1>7, <2>2 DEF SameTasks, HasSlot
    <3>2. /\ task[u].slot \in DOMAIN file_metas_
          /\ file_metas_[task[u].slot].number = 0
      BY Zenon, <1>1, <3>1 DEF Slots, SlotsHeld
    <3>3. file_metas_'[task[u].slot] = file_metas_[task[u].slot]
      BY Zenon, <1>4, <3>2
    <3> QED
      BY Zenon, <3>1, <3>2, <3>3
  <2> QED
    BY Zenon, <2>1, <2>2
<1>8. HasSlot(Background)' /\ HasSlot(Destructor)' =>
        task'[Background].slot # task'[Destructor].slot
  BY Zenon, <1>1, <1>2, <1>3, <1>4, ThreadAssumption
  DEF SlotsHeld, SameTasks, HasSlot
<1>9. ASSUME NEW i \in DOMAIN file_metas_', file_metas_'[i].number = 0
      PROVE  \E u \in {Background, Destructor} : HasSlot(u)' /\ task'[u].slot = i
  <2>1. CASE i = new
    BY Zenon, <1>3, <2>1
  <2>2. CASE i # new
    <3>1. PICK u \in {Background, Destructor} : HasSlot(u) /\ task[u].slot = i
      BY Zenon, <1>4, <1>9, <2>2 DEF Slots
    <3>2. u # t
      BY Zenon, <3>1 DEF CompactPush, At, HasSlot
    <3> QED
      BY Zenon, <1>2, <3>1, <3>2 DEF SameTasks, HasSlot
  <2> QED
    BY Zenon, <2>1, <2>2
<1>10. Slots'
  BY Zenon, <1>5, <1>7, <1>8, <1>9 DEF Slots
<1>11. Failed => Failed'
  BY Zenon, <1>4 DEF Failed
<1>12. ASSUME Keyless PROVE Keyless'
  <2>1. \A i \in DOMAIN file_metas_' :
          file_metas_'[i].span = {} => ~file_metas_'[i].built
    BY Zenon, <1>4, <1>6, <1>12 DEF Keyless
  <2>2. ASSUME NEW u \in {Background, Destructor}, task'[u] # NULL,
               task'[u].step \in {"build", "write"}
        PROVE  /\ u # t /\ task'[u] = task[u]
               /\ task[u].step = "write" => task[u].slot \in DOMAIN file_metas_
    BY Zenon, <1>1, <1>2, <1>3, <2>2 DEF SameTasks, SlotsHeld, HasSlot
  <2> QED
    BY Zenon, <1>4, <1>12, <2>1, <2>2 DEF Keyless
<1> QED
  BY Zenon, <1>10, <1>11, <1>12 DEF MetasKept

\* Reading immutable_memtable_ changes no FileMeta; the memtable read is empty
\* only if the process ends.
LEMMA ReadKeeps ==
    ASSUME TypeOK, Locking, Slots, Keyless, NEW t \in {Background, Destructor},
           CompactRead(t)
    PROVE  MetasKept /\ (EntriesOf(immutable_memtable_) # {} => Keyless')
PROOF
<1>1. SlotsHeld
  BY Zenon DEF Locking, SlotsHeld
<1>2. SameTasks(t) /\ task'[t] # NULL
  BY Zenon, <1>1, CompactStepSlots DEF CompactStep
<1>3. /\ task'[t].slot = task[t].slot /\ task'[t].step = "build"
      /\ task'[t].entries = EntriesOf(immutable_memtable_)
      /\ UNCHANGED <<file_metas_, sstable_number_>>
      /\ HasSlot(t)
  BY Zenon DEF CompactRead, TypeOK, HasSlot, At, fileVars
<1>4. \A u \in {Background, Destructor} :
        /\ HasSlot(u)' <=> HasSlot(u)
        /\ HasSlot(u) => task'[u].slot = task[u].slot
  BY Zenon, <1>2, <1>3 DEF SameTasks, HasSlot
<1>5. Slots'
  BY Zenon, <1>3, <1>4 DEF Slots
<1>6. Failed => Failed'
  BY Zenon, <1>3 DEF Failed
<1>7. EntriesOf(immutable_memtable_) # {} => Keyless'
  BY Zenon, <1>2, <1>3 DEF Keyless, SameTasks
<1> QED
  BY Zenon, <1>5, <1>6, <1>7 DEF MetasKept

\* BuildTable sets the keys of its own FileMeta.
LEMMA KeysKeep ==
    ASSUME TypeOK, Locking, Slots, Keyless, NEW t \in {Background, Destructor},
           CompactKeys(t)
    PROVE  MetasKept /\ Keyless'
PROOF
<1> DEFINE j == task[t].slot
           meta == [number |-> 0, span |-> task[t].entries, built |-> FALSE]
<1>1. SlotsHeld
  BY Zenon DEF Locking, SlotsHeld
<1>2. SameTasks(t) /\ task'[t] # NULL
  BY Zenon, <1>1, CompactStepSlots DEF CompactStep
<1>3. /\ task'[t].slot = j /\ task'[t].step = "write"
      /\ task'[t].entries = task[t].entries
      /\ sstable_number_' = sstable_number_ /\ HasSlot(t)
      /\ task[t] # NULL /\ task[t].step = "build"
  BY Zenon DEF CompactKeys, TypeOK, HasSlot, At
<1>4. /\ j \in DOMAIN file_metas_
      /\ DOMAIN file_metas_' = DOMAIN file_metas_
      /\ \A i \in DOMAIN file_metas_ : i # j => file_metas_'[i] = file_metas_[i]
      /\ file_metas_'[j] = meta
  BY Zenon, <1>1, <1>3 DEF SlotsHeld, CompactKeys
<1>5. meta.number = 0 /\ meta.span = task[t].entries /\ meta.built = FALSE
  BY Zenon
<1>6. task[t].entries # {}
  BY Zenon, <1>3 DEF Keyless
<1>7. file_metas_[j].number = 0
  BY Zenon, <1>3 DEF Slots
<1> HIDE DEF meta, j
<1>8. \A u \in {Background, Destructor} :
        /\ HasSlot(u)' <=> HasSlot(u)
        /\ HasSlot(u) => task'[u].slot = task[u].slot
  BY Zenon, <1>2, <1>3 DEF SameTasks, HasSlot, j
<1>9. \A i \in DOMAIN file_metas_ :
        file_metas_'[i].number = 0 <=> file_metas_[i].number = 0
  BY Zenon, <1>4, <1>5, <1>7
<1>10. Slots'
  <2>1. \A u \in {Background, Destructor} :
          HasSlot(u)' => file_metas_'[task'[u].slot].number = 0
    BY Zenon, <1>1, <1>8, <1>9 DEF Slots, SlotsHeld
  <2>2. HasSlot(Background)' /\ HasSlot(Destructor)' =>
          task'[Background].slot # task'[Destructor].slot
    BY Zenon, <1>8 DEF Slots
  <2>3. \A i \in DOMAIN file_metas_' :
          file_metas_'[i].number = 0 =>
            \E u \in {Background, Destructor} : HasSlot(u)' /\ task'[u].slot = i
    BY Zenon, <1>4, <1>8, <1>9 DEF Slots
  <2> QED
    BY Zenon, <1>3, <2>1, <2>2, <2>3 DEF Slots
<1>11. Failed => Failed'
  BY Zenon, <1>4, <1>7 DEF Failed
<1>12. \A i \in DOMAIN file_metas_' :
         file_metas_'[i].span = {} => ~file_metas_'[i].built
  BY Zenon, <1>4, <1>5 DEF Keyless
<1>13. ASSUME NEW u \in {Background, Destructor}, u # t, task'[u] # NULL,
              task'[u].step = "write"
       PROVE  file_metas_'[task'[u].slot].span # {}
  <2>1. task'[u] = task[u] /\ HasSlot(u) /\ task[u].slot \in DOMAIN file_metas_
    BY Zenon, <1>1, <1>2, <1>13 DEF SameTasks, HasSlot, SlotsHeld
  <2>2. task[u].slot # j
    BY Zenon, <1>3, <1>13, <2>1 DEF Slots, j
  <2> QED
    BY Zenon, <1>4, <1>13, <2>1, <2>2 DEF Keyless
<1>14. Keyless'
  BY Zenon, <1>2, <1>3, <1>4, <1>5, <1>6, <1>12, <1>13 DEF Keyless, SameTasks
<1> QED
  BY Zenon, <1>10, <1>11, <1>14 DEF MetasKept

\* A CompactMemtable that ends leaves the FileMetas of others alone, and its own
\* without keys only if it failed.
LEMMA EndKeeps ==
    ASSUME TypeOK, Locking, Slots, Keyless, NEW t \in {Background, Destructor},
           NEW o, CompactEnd(t, o), SameTasks(t),
           task'[t] # NULL => task'[t].step = "delete"
    PROVE  MetasKept /\ Keyless' /\ (~Ok(o) => Failed')
PROOF
<1> DEFINE j == task[t].slot
<1>1. SlotsHeld
  BY Zenon DEF Locking, SlotsHeld
<1>2. /\ HasSlot(t) /\ task[t] # NULL /\ ~HasSlot(t)'
      /\ Ok(o) => task[t].step = "write"
  BY Zenon DEF CompactEnd, At, HasSlot, Ok
<1>3. j \in DOMAIN file_metas_ /\ file_metas_[j].number = 0
  BY Zenon, <1>1, <1>2 DEF SlotsHeld, Slots
<1>4. /\ DOMAIN file_metas_' = DOMAIN file_metas_
      /\ \A i \in DOMAIN file_metas_ : i # j => file_metas_'[i] = file_metas_[i]
      /\ file_metas_'[j].number = sstable_number_
      /\ file_metas_'[j].built = Ok(o)
      /\ file_metas_'[j].span = file_metas_[j].span
  BY Zenon, <1>3 DEF CompactEnd
<1>5. sstable_number_ >= 1 /\ sstable_number_' >= 1
  BY DEF CompactEnd, Slots, TypeOK
<1>6. sstable_number_ # 0
  BY <1>5
<1>k. Ok(o) => file_metas_[j].span # {}
  BY Zenon, <1>2 DEF Keyless
<1> HIDE DEF j
<1>7. ASSUME NEW u \in {Background, Destructor}, HasSlot(u)'
      PROVE  /\ u # t /\ HasSlot(u) /\ task'[u] = task[u]
             /\ task[u].slot \in DOMAIN file_metas_ /\ task[u].slot # j
  <2>1. u # t
    BY Zenon, <1>2, <1>7
  <2>2. task'[u] = task[u] /\ HasSlot(u)
    BY Zenon, <1>7, <2>1 DEF SameTasks, HasSlot
  <2>3. task[u].slot # j
    BY Zenon, <1>2, <2>1, <2>2 DEF Slots, j
  <2> QED
    BY Zenon, <1>1, <2>1, <2>2, <2>3 DEF SlotsHeld
<1>8. ASSUME NEW u \in {Background, Destructor}, HasSlot(u)'
      PROVE  file_metas_'[task'[u].slot].number = 0
  <2>1. /\ HasSlot(u) /\ task'[u] = task[u]
        /\ task[u].slot \in DOMAIN file_metas_ /\ task[u].slot # j
    BY Zenon, <1>7, <1>8
  <2>2. file_metas_'[task[u].slot] = file_metas_[task[u].slot]
    BY Zenon, <1>4, <2>1
  <2>3. file_metas_[task[u].slot].number = 0
    BY Zenon, <2>1 DEF Slots
  <2> QED
    BY Zenon, <2>1, <2>2, <2>3
<1>9. HasSlot(Background)' /\ HasSlot(Destructor)' =>
        task'[Background].slot # task'[Destructor].slot
  BY Zenon, <1>7
<1>10. ASSUME NEW i \in DOMAIN file_metas_', file_metas_'[i].number = 0
       PROVE  \E u \in {Background, Destructor} : HasSlot(u)' /\ task'[u].slot = i
  <2>1. i # j /\ file_metas_[i].number = 0 /\ i \in DOMAIN file_metas_
    BY Zenon, <1>4, <1>6, <1>10
  <2>2. PICK u \in {Background, Destructor} : HasSlot(u) /\ task[u].slot = i
    BY Zenon, <2>1 DEF Slots
  <2> QED
    BY Zenon, <2>1, <2>2 DEF j, SameTasks, HasSlot
<1>11. Slots'
  BY Zenon, <1>5, <1>8, <1>9, <1>10 DEF Slots
<1>12. (Failed => Failed') /\ (~Ok(o) => Failed')
  BY Zenon, <1>3, <1>4, <1>6 DEF Failed
<1>13. Keyless'
  <2>1. \A i \in DOMAIN file_metas_' :
          file_metas_'[i].span = {} => ~file_metas_'[i].built
    BY Zenon, <1>k, <1>4 DEF Keyless
  <2>2. ASSUME NEW u \in {Background, Destructor}, task'[u] # NULL,
               task'[u].step \in {"build", "write"}
        PROVE  HasSlot(u)'
    BY Zenon, <2>2 DEF HasSlot
  <2> QED
    BY Zenon, <1>4, <1>7, <2>1, <2>2 DEF Keyless
<1> QED
  BY Zenon, <1>11, <1>12, <1>13 DEF MetasKept

\* Entering or leaving CompactMemtable away from its FileMeta changes no owner.
LEMMA OutsideKeeps ==
    ASSUME Slots, NEW t \in {Background, Destructor}, SameTasks(t),
           UNCHANGED <<file_metas_, sstable_number_>>, ~HasSlot(t), ~HasSlot(t)'
    PROVE  MetasKept /\ (Keyless => Keyless')
PROOF
<1>1. \A u \in {Background, Destructor} :
        /\ HasSlot(u)' <=> HasSlot(u)
        /\ HasSlot(u) => task'[u] = task[u]
  BY Zenon DEF SameTasks, HasSlot
<1>2. Slots'
  BY Zenon, <1>1 DEF Slots
<1>3. Failed => Failed'
  BY Zenon DEF Failed
<1>4. \A u \in {Background, Destructor} :
        task'[u] # NULL /\ task'[u].step \in {"build", "write"} => HasSlot(u)'
  BY Zenon DEF HasSlot
<1>5. Keyless => Keyless'
  BY Zenon, <1>1, <1>4 DEF Keyless, HasSlot
<1> QED
  BY Zenon, <1>2, <1>3, <1>5 DEF MetasKept

compactVars == <<proc, freed, beside, immutable_memtable_, spawned, task,
                 background_compaction_schedule_, file_metas_, sstable_number_>>

\* Steps that leave the compaction threads alone keep Compacting.
LEMMA SameCompactors ==
    ASSUME Compacting, UNCHANGED compactVars, proc = "open" \/ UNCHANGED memtable_
    PROVE  Compacting'
PROOF
<1> USE DEF compactVars
<1>1. Slots' /\ (proc' # "aborted" => Keyless')
  BY Zenon DEF Compacting, Slots, Keyless, HasSlot
<1>2. Failed' = Failed /\ Compactors' = Compactors
  BY Zenon DEF Failed, Compactors
<1>3. ImmutableHasCompactor'
  BY Zenon, <1>2 DEF Compacting, ImmutableHasCompactor
<1>4. AbortsExplained'
  BY Zenon, <1>2 DEF Compacting, AbortsExplained
<1> QED
  BY Zenon, <1>1, <1>2, <1>3, <1>4 DEF Compacting

\* A Get that meets a FileMeta without a readable table meets a failed one: the
\* lock keeps the running compaction away.
LEMMA UnreadableFailed ==
    ASSUME TypeOK, Locking, Slots, TablesIntact, "torn" \notin BuildOutcomes,
           proc = "open", task[Destructor] = NULL,
           NEW c \in Clients, pc[c] = "disk",
           NEW i \in DOMAIN file_metas_, ~Opens(file_metas_[i])
    PROVE  Failed
PROOF
<1>1. ~file_metas_[i].built
  BY Zenon DEF TablesIntact
<1>2. c \in rwlock_.readers
  BY Zenon DEF Locking, ReaderSteps
<1>3. task[Background] = NULL
  BY Zenon, <1>2, ThreadAssumption DEF Locking
<1>4. file_metas_[i].number # 0
  BY Zenon, <1>3 DEF Slots, HasSlot
<1> QED
  BY Zenon, <1>1, <1>4 DEF Failed

\* Every step keeps what is known of the compaction threads.
LEMMA CompactingStep ==
    ASSUME TypeOK, Locking, TablesIntact, Compacting, [Next]_vars
    PROVE  Compacting'
PROOF
<1> USE DEF callVars, lockVars, memVars, bgVars, seqVars, fileVars, objVars
<1>0. /\ spawned \in Nat /\ memtable_ # NULL
      /\ DOMAIN file_metas_ = 1..Len(file_metas_) /\ Len(file_metas_) \in Nat
  BY NullAssumption DEF TypeOK
<1>1. CASE UNCHANGED vars
  BY Zenon, <1>1, SameCompactors DEF vars, compactVars
<1>2. ASSUME NEW c \in Clients, NEW b, WriteLock(c, b)
      PROVE  Compacting'
  BY Zenon, <1>2, SameCompactors DEF WriteLock, compactVars
<1>3. ASSUME NEW c \in Clients, NEW k, GetLock(c, k)
      PROVE  Compacting'
  BY Zenon, <1>3, SameCompactors DEF GetLock, compactVars
<1>4. ASSUME NEW c \in Clients, proc = "open",
             RoomLeft(c) \/ WaitForCompaction(c) \/ Wake(c)
               \/ BuildWriteBatchGroup(c) \/ InsertOne(c) \/ FinishWrite(c)
      PROVE  Compacting'
  <2>1. UNCHANGED compactVars
    BY Zenon, <1>4 DEF RoomLeft, WaitForCompaction, Wake, BuildWriteBatchGroup,
       InsertOne, FinishWrite, compactVars
  <2> QED
    BY Zenon, <1>4, <2>1, SameCompactors
<1>5. ASSUME NEW c \in Clients, proc = "open", GetMemory(c) \/ GetReturn(c)
      PROVE  Compacting'
  BY Zenon, <1>5, SameCompactors DEF GetMemory, GetReturn, compactVars
<1>6. ASSUME NEW c \in Clients, proc = "open", SwitchMemtable(c)
      PROVE  Compacting'
  <2>1. /\ UNCHANGED <<proc, task, file_metas_, sstable_number_, freed, beside,
                       background_compaction_schedule_>>
        /\ immutable_memtable_ = NULL /\ immutable_memtable_' # NULL
        /\ spawned' = IF background_compaction_schedule_ THEN spawned
                      ELSE spawned + 1
    BY Zenon, <1>0, <1>6 DEF SwitchMemtable, MaybeScheduleCompaction
  <2>2. Slots' /\ Keyless' /\ task'[Destructor] = NULL /\ (freed' => beside')
    BY Zenon, <1>6, <2>1 DEF Compacting, Slots, Keyless, HasSlot
  <2>3. Compactors = 0
    BY Zenon, <1>6, <2>1 DEF Compacting
  <2>4. Compactors' = spawned' - spawned + Compactors
    BY <1>0, <2>1, <2>3 DEF Compactors
  <2>5. ImmutableHasCompactor'
    BY <1>0, <2>1, <2>3, <2>4 DEF ImmutableHasCompactor
  <2> QED
    BY Zenon, <1>6, <2>1, <2>2, <2>5 DEF Compacting, AbortsExplained
<1>7. ASSUME NEW c \in Clients, proc = "open", GetDisk(c)
      PROVE  Compacting'
  <2>1. /\ UNCHANGED <<immutable_memtable_, spawned, task, freed, beside, memtable_,
                       background_compaction_schedule_, file_metas_,
                       sstable_number_>>
        /\ proc' \in {"open", "aborted"}
    BY Zenon, <1>7 DEF GetDisk
  <2>2. CASE proc' = "open"
    BY Zenon, <1>7, <2>1, <2>2, SameCompactors DEF compactVars
  <2>3. CASE proc' = "aborted"
    <3>1. PICK i \in 1..Len(file_metas_) : ~Opens(file_metas_[i])
      BY <1>7, <2>3 DEF GetDisk, DiskStops
    <3>2. "torn" \notin BuildOutcomes => Failed
      <4>1. pc[c] = "disk"
        BY Zenon, <1>7 DEF GetDisk
      <4>2. Slots /\ task[Destructor] = NULL
        BY Zenon, <1>7 DEF Compacting
      <4> QED
        BY Zenon, <1>0, <1>7, <3>1, <4>1, <4>2, UnreadableFailed
    <3>3. Failed' = Failed /\ Compactors' = Compactors
      BY Zenon, <2>1 DEF Failed, Compactors
    <3>4. Slots' /\ (freed' => beside')
      BY Zenon, <2>1 DEF Compacting, Slots, HasSlot
    <3>5. AbortsExplained'
      BY Zenon, <3>2, <3>3 DEF AbortsExplained
    <3>6. ImmutableHasCompactor'
      BY Zenon, <2>3, <3>3 DEF Compacting, ImmutableHasCompactor
    <3> QED
      BY Zenon, <2>3, <3>4, <3>5, <3>6 DEF Compacting
  <2> QED
    BY Zenon, <2>1, <2>2, <2>3
<1>t. ASSUME NEW t \in {Background, Destructor}, task[t] # NULL,
             proc \notin {"closed", "aborted"}
      PROVE  /\ t = Destructor => proc = "d_build"
             /\ t = Background => Compactors = 1 /\ spawned = 0
             /\ proc \notin {"open", "d_wait", "d_swap"} =>
                   beside \/ (t = Destructor /\ immutable_memtable_ # NULL)
             /\ proc \in {"open", "d_wait", "d_swap"} => immutable_memtable_ # NULL
  <2>1. t = Destructor => proc = "d_build"
    BY Zenon, <1>t DEF Compacting, TypeOK, Phases
  <2>2. t = Background => Compactors = 1 /\ spawned = 0
    BY <1>0, <1>t DEF Compacting, ImmutableHasCompactor, Compactors
  <2>3. proc \notin {"open", "d_wait", "d_swap"} =>
          proc \in {"d_build", "d_free", "d_dump", "closed"}
    BY Zenon, <1>t DEF TypeOK, Phases
  <2>4. t = Background => Compactors # 0
    BY <2>2
  <2> QED
    BY Zenon, <1>t, <2>1, <2>2, <2>3, <2>4, ThreadAssumption DEF Compacting
<1>8. CASE BackgroundBegin
  <2>1. /\ immutable_memtable_ # NULL /\ proc # "aborted"
        /\ task' = [task EXCEPT ![Background] = NewCompaction]
        /\ UNCHANGED <<memtable_, immutable_memtable_, freed, beside, proc,
                       background_compaction_schedule_, file_metas_,
                       sstable_number_>>
        /\ spawned > 0 /\ spawned' = spawned - 1
    BY Zenon, <1>8 DEF BackgroundBegin, BackgroundFree
  <2>2. task[Background] = NULL /\ SlotsHeld
    BY Zenon, <1>8, ThreadAssumption
    DEF BackgroundBegin, BackgroundFree, Locking, SlotsHeld
  <2>3. /\ task'[Background] # NULL /\ SameTasks(Background)
        /\ ~HasSlot(Background) /\ ~HasSlot(Background)'
    BY Zenon, <2>1, <2>2, EnterSlots DEF HasSlot
  <2>4. MetasKept /\ Keyless'
    BY Zenon, <2>1, <2>3, OutsideKeeps DEF Compacting
  <2>5. Compactors' = Compactors
    BY <1>0, <2>1, <2>2, <2>3 DEF Compactors
  <2> QED
    BY Zenon, <2>1, <2>3, <2>4, <2>5, ThreadAssumption
    DEF Compacting, ImmutableHasCompactor, AbortsExplained, MetasKept, SameTasks
<1>9. ASSUME NEW o, BackgroundEnd(o)
      PROVE  Compacting'
  <2>1. /\ task[Background] # NULL /\ CompactEnd(Background, o)
        /\ proc \notin {"closed", "aborted"}
        /\ proc' = (IF o = "assert" THEN "aborted" ELSE proc)
        /\ UNCHANGED <<memtable_, immutable_memtable_, spawned, freed, beside>>
        /\ DOMAIN file_metas_' = DOMAIN file_metas_
    BY Zenon, <1>9 DEF BackgroundEnd, CompactEnd, At
  <2>2. SlotsHeld /\ Slots /\ Keyless
    BY Zenon, <2>1 DEF Locking, SlotsHeld, Compacting
  <2>3. /\ SameTasks(Background)
        /\ task'[Background] # NULL => task'[Background].step = "delete"
        /\ Ok(o) => task'[Background] # NULL
        /\ ~Ok(o) => task'[Background] = NULL
    <3>1. CASE Ok(o)
      BY Zenon, <1>9, <2>1, <2>2, <3>1, StepSlots DEF BackgroundEnd
    <3>2. CASE ~Ok(o)
      <4>1. task' = [task EXCEPT ![Background] = NULL]
        BY Zenon, <1>9, <3>2 DEF BackgroundEnd, BackgroundReturn
      <4> QED
        BY Zenon, <2>1, <2>2, <3>2, <4>1, ReturnSlots
    <3> QED
      BY Zenon, <3>1, <3>2
  <2>4. MetasKept /\ Keyless' /\ (~Ok(o) => Failed')
    BY Zenon, <2>1, <2>2, <2>3, EndKeeps
  <2>5. Compactors = 1 /\ spawned = 0
    BY Zenon, <1>t, <2>1
  <2>6. Compactors' = IF Ok(o) THEN 1 ELSE 0
    BY <2>1, <2>3, <2>5 DEF Compactors
  <2>7. Compactors' <= 1 /\ (Ok(o) => Compactors' = Compactors)
    BY <2>5, <2>6
  <2>8. ImmutableHasCompactor'
    BY Zenon, <2>4, <2>5, <2>7 DEF ImmutableHasCompactor
  <2>9. o = "assert" => ~Ok(o)
    BY Zenon DEF Ok
  <2>10. Compactors # 0
    BY <2>5
  <2>11. /\ proc \in {"d_build", "d_free", "d_dump", "closed"} => beside
         /\ proc \in {"open", "d_wait", "d_swap"} => immutable_memtable_ # NULL
    BY Zenon, <2>10 DEF Compacting
  <2>12. AbortsExplained'
    BY Zenon, <2>1, <2>4, <2>9 DEF AbortsExplained
  <2> QED
    BY Zenon, <2>1, <2>3, <2>4, <2>8, <2>11, <2>12, ThreadAssumption
    DEF Compacting, MetasKept, SameTasks
<1>10. CASE BackgroundNothing
  <2>1. /\ immutable_memtable_ = NULL /\ spawned > 0 /\ spawned' = spawned - 1
        /\ UNCHANGED <<memtable_, immutable_memtable_, task, file_metas_,
                       sstable_number_, proc, freed, beside>>
        /\ proc # "aborted"
    BY Zenon, <1>10 DEF BackgroundNothing, BackgroundFree
  <2>2. Compactors # 0
    BY <1>0, <2>1 DEF Compactors
  <2>3. proc \notin {"open", "d_wait", "d_swap"} /\ Keyless
    BY Zenon, <2>1, <2>2 DEF Compacting
  <2>4. Slots' /\ Keyless'
    BY Zenon, <2>1, <2>3 DEF Compacting, Slots, Keyless, HasSlot
  <2>5. Compactors' <= 1
    BY <1>0, <2>1 DEF Compacting, ImmutableHasCompactor, Compactors
  <2> QED
    BY Zenon, <2>1, <2>2, <2>3, <2>4, <2>5
    DEF Compacting, ImmutableHasCompactor, AbortsExplained
<1>11. CASE DestructorLock
  <2>1. /\ UNCHANGED <<memtable_, immutable_memtable_, task, file_metas_,
                       sstable_number_, spawned, freed, beside>>
        /\ proc = "open" /\ proc' \in {"d_wait", "d_swap"}
    BY Zenon, <1>11 DEF DestructorLock
  <2>2. Slots' /\ Keyless' /\ task'[Destructor] = NULL /\ Compactors' = Compactors
    BY Zenon, <2>1 DEF Compacting, Slots, Keyless, HasSlot, Compactors
  <2> QED
    BY Zenon, <2>1, <2>2 DEF Compacting, ImmutableHasCompactor, AbortsExplained
<1>12. CASE DestructorSwap
  <2>1. /\ proc = "d_swap" /\ proc' = "d_build"
        /\ task' = [task EXCEPT ![Destructor] = NewCompaction]
        /\ immutable_memtable_' # NULL
        /\ beside' = (Compactors > 0)
        /\ UNCHANGED <<memtable_, file_metas_, sstable_number_, spawned, freed>>
    BY Zenon, <1>0, <1>12 DEF DestructorSwap
  <2>2. task[Destructor] = NULL /\ SlotsHeld
    BY Zenon, <2>1 DEF Compacting, Locking, SlotsHeld
  <2>3. /\ task'[Destructor] # NULL /\ SameTasks(Destructor)
        /\ ~HasSlot(Destructor) /\ ~HasSlot(Destructor)'
    BY Zenon, <2>1, <2>2, EnterSlots DEF HasSlot
  <2>4. MetasKept /\ Keyless'
    BY Zenon, <2>1, <2>3, OutsideKeeps DEF Compacting
  <2>5. Compactors' = Compactors
    BY Zenon, <2>1, <2>3, ThreadAssumption DEF Compactors, SameTasks
  <2>6. Compactors > 0 \/ Compactors = 0
    BY <1>0 DEF Compactors
  <2>7. ~beside' => Compactors = 0
    BY Zenon, <2>1, <2>6
  <2> QED
    BY Zenon, <2>1, <2>3, <2>4, <2>5, <2>6, <2>7
    DEF Compacting, ImmutableHasCompactor, AbortsExplained, MetasKept
<1>13. ASSUME NEW o, DestructorEnd(o)
       PROVE  Compacting'
  <2>1. /\ task[Destructor] # NULL /\ CompactEnd(Destructor, o)
        /\ proc \notin {"closed", "aborted"}
        /\ proc' = (IF o = "assert" THEN "aborted" ELSE "d_free")
        /\ task' = [task EXCEPT ![Destructor] = NULL]
        /\ UNCHANGED <<memtable_, immutable_memtable_, spawned, freed, beside>>
        /\ DOMAIN file_metas_' = DOMAIN file_metas_
    BY Zenon, <1>13 DEF DestructorEnd, CompactEnd, At
  <2>2. SlotsHeld /\ Slots /\ Keyless
    BY Zenon, <2>1 DEF Locking, SlotsHeld, Compacting
  <2>3. SameTasks(Destructor) /\ task'[Destructor] = NULL
    BY Zenon, <2>1, <2>2, ReturnSlots
  <2>4. MetasKept /\ Keyless' /\ (~Ok(o) => Failed')
    BY Zenon, <2>1, <2>2, <2>3, EndKeeps
  <2>5. Compactors' = Compactors
    BY Zenon, <2>1, <2>3, ThreadAssumption DEF Compactors, SameTasks
  <2>6. o = "assert" => ~Ok(o)
    BY Zenon DEF Ok
  <2>7. proc = "d_build"
    BY Zenon, <1>t, <2>1
  <2>8. AbortsExplained' /\ ImmutableHasCompactor'
    BY Zenon, <2>1, <2>4, <2>5, <2>6
    DEF AbortsExplained, ImmutableHasCompactor, Compacting
  <2> QED
    BY Zenon, <2>1, <2>3, <2>4, <2>5, <2>7, <2>8 DEF Compacting, MetasKept
<1>14. CASE DumpManifest
  <2>1. /\ proc = "d_dump" /\ proc' \in {"closed", "aborted"}
        /\ UNCHANGED <<memtable_, immutable_memtable_, task, file_metas_,
                       sstable_number_, spawned, freed, beside>>
    BY Zenon, <1>14 DEF DumpManifest
  <2>2. proc' = "aborted" => Failed \/ beside
    <3>1. PICK n \in 0..Len(file_metas_) :
            /\ n < Len(file_metas_) => file_metas_[n + 1].span = {}
            /\ proc' = IF n = Len(file_metas_) THEN "closed" ELSE "aborted"
      BY Zenon, <1>14 DEF DumpManifest
    <3>2. n # Len(file_metas_) =>
            n < Len(file_metas_) /\ n + 1 \in 1..Len(file_metas_)
      <4>1. Len(file_metas_) \in Nat
        BY Zenon, <1>0
      <4> QED
        BY <4>1
    <3>3. proc' = "aborted" => n # Len(file_metas_)
      BY Zenon, <3>1
    <3>4. proc' = "aborted" =>
            n + 1 \in DOMAIN file_metas_ /\ file_metas_[n + 1].span = {}
      BY Zenon, <1>0, <3>1, <3>2, <3>3
    <3>5. \A i \in DOMAIN file_metas_ : file_metas_[i].number = 0 => beside
      <4>1. task[Destructor] = NULL
        BY Zenon, <2>1 DEF Compacting
      <4>2. task[Background] # NULL => beside
        BY Zenon, <1>t, <2>1, ThreadAssumption
      <4> QED
        BY Zenon, <4>1, <4>2 DEF Compacting, Slots, HasSlot
    <3> QED
      BY Zenon, <2>1, <3>4, <3>5 DEF Compacting, Keyless, Failed
  <2>3. Slots' /\ Keyless' /\ Failed' = Failed /\ Compactors' = Compactors
    BY Zenon, <2>1 DEF Compacting, Slots, Keyless, HasSlot, Failed, Compactors
  <2> QED
    BY Zenon, <2>1, <2>2, <2>3 DEF Compacting, ImmutableHasCompactor, AbortsExplained
<1>15. ASSUME NEW t \in {Background, Destructor}, CompactStep(t)
       PROVE  Compacting'
  <2>1. /\ UNCHANGED <<memtable_, immutable_memtable_, spawned, freed, beside,
                       background_compaction_schedule_>>
        /\ proc \notin {"closed", "aborted"}
        /\ proc' \in {proc, "aborted"}
        /\ proc' = "aborted" => EntriesOf(immutable_memtable_) = {}
    BY Zenon, <1>15 DEF CompactStep, CompactPush, CompactRead, CompactKeys, At
  <2>2. SlotsHeld /\ Slots /\ Keyless
    BY Zenon, <2>1 DEF Locking, SlotsHeld, Compacting
  <2>3. task[t] # NULL /\ task'[t] # NULL /\ SameTasks(t)
    BY Zenon, <1>15, <2>2, CompactStepSlots
  <2>4. MetasKept /\ (proc' # "aborted" => Keyless')
    BY Zenon, <1>15, <2>2, PushKeeps, ReadKeeps, KeysKeep DEF CompactStep, CompactRead
  <2>5. Compactors' = Compactors
    BY Zenon, <2>1, <2>3 DEF Compactors, SameTasks
  <2>6. task[Destructor] = NULL => task'[Destructor] = NULL
    BY Zenon, <2>3 DEF SameTasks
  <2>7. AbortsExplained'
    <3>1. ASSUME proc' = "aborted"
          PROVE  beside \/ immutable_memtable_ # NULL
      BY Zenon, <1>t, <2>1, <2>3
    <3> QED
      BY Zenon, <2>1, <3>1 DEF AbortsExplained, EntriesOf
  <2>8. ImmutableHasCompactor'
    BY Zenon, <2>1, <2>4, <2>5 DEF ImmutableHasCompactor, Compacting, MetasKept
  <2> QED
    BY Zenon, <2>1, <2>4, <2>5, <2>6, <2>7, <2>8 DEF Compacting, MetasKept
<1>16. CASE BackgroundDelete
  <2>1. /\ task[Background] # NULL /\ proc \notin {"closed", "aborted"}
        /\ task[Background].step = "delete"
        /\ UNCHANGED <<memtable_, immutable_memtable_, spawned, beside, proc,
                       background_compaction_schedule_, file_metas_,
                       sstable_number_>>
        /\ task' = [task EXCEPT ![Background].step = "null"]
        /\ freed' => freed \/ proc \in {"d_build", "d_free"}
    BY Zenon, <1>16 DEF BackgroundDelete, At
  <2>2. SlotsHeld /\ Slots /\ Keyless
    BY Zenon, <2>1 DEF Locking, SlotsHeld, Compacting
  <2>3. /\ task'[Background] # NULL /\ SameTasks(Background)
        /\ ~HasSlot(Background) /\ ~HasSlot(Background)'
    BY Zenon, <2>1, <2>2, StepSlots DEF HasSlot
  <2>4. MetasKept /\ Keyless'
    BY Zenon, <2>1, <2>2, <2>3, OutsideKeeps
  <2>5. Compactors' = Compactors
    BY Zenon, <2>1, <2>3 DEF Compactors
  <2>6. freed' => beside'
    BY Zenon, <1>t, <2>1, ThreadAssumption DEF Compacting
  <2>7. ImmutableHasCompactor' /\ AbortsExplained'
    BY Zenon, <2>1, <2>4, <2>5
    DEF ImmutableHasCompactor, AbortsExplained, Compacting, MetasKept
  <2> QED
    BY Zenon, <2>1, <2>3, <2>4, <2>5, <2>6, <2>7, ThreadAssumption
    DEF Compacting, MetasKept, SameTasks
<1>17. CASE BackgroundNull
  <2>1. /\ task[Background] # NULL /\ proc \notin {"closed", "aborted"}
        /\ task[Background].step = "null"
        /\ UNCHANGED <<memtable_, spawned, beside, freed, proc, file_metas_,
                       sstable_number_>>
        /\ task' = [task EXCEPT ![Background] = NULL]
        /\ immutable_memtable_' = NULL
    BY Zenon, <1>17 DEF BackgroundNull, BackgroundReturn, At
  <2>2. SlotsHeld /\ Slots /\ Keyless
    BY Zenon, <2>1 DEF Locking, SlotsHeld, Compacting
  <2>3. /\ task'[Background] = NULL /\ SameTasks(Background)
        /\ ~HasSlot(Background) /\ ~HasSlot(Background)'
    BY Zenon, <2>1, <2>2, ReturnSlots DEF HasSlot
  <2>4. MetasKept /\ Keyless'
    BY Zenon, <2>1, <2>2, <2>3, OutsideKeeps
  <2>5. Compactors = 1 /\ spawned = 0
    BY Zenon, <1>t, <2>1
  <2>6. Compactors' = 0 /\ Compactors' <= 1 /\ Compactors # 0
    BY <2>1, <2>3, <2>5 DEF Compactors
  <2>7. ImmutableHasCompactor' /\ AbortsExplained'
    BY Zenon, <2>1, <2>6 DEF ImmutableHasCompactor, AbortsExplained
  <2> QED
    BY Zenon, <2>1, <2>3, <2>4, <2>6, <2>7, ThreadAssumption
    DEF Compacting, MetasKept, SameTasks
<1>18. CASE DestructorFree
  <2>1. /\ proc = "d_free" /\ proc' \in {"d_dump", "aborted"}
        /\ UNCHANGED <<memtable_, task, file_metas_, sstable_number_, spawned,
                       freed, beside>>
        /\ proc' = "aborted" => freed \/ task[Background] # NULL
    BY Zenon, <1>18 DEF DestructorFree, At
  <2>2. Slots' /\ Keyless' /\ Failed' = Failed /\ Compactors' = Compactors
    BY Zenon, <2>1 DEF Compacting, Slots, Keyless, HasSlot, Failed, Compactors
  <2>3. proc' = "aborted" => beside
    BY Zenon, <1>t, <2>1, ThreadAssumption DEF Compacting
  <2> QED
    BY Zenon, <2>1, <2>2, <2>3 DEF Compacting, ImmutableHasCompactor, AbortsExplained
<1>19. CASE RaceAborts
  <2>1. /\ proc' = "aborted" /\ proc \notin {"closed", "aborted"}
        /\ task[Background] # NULL
        /\ proc = "d_dump" \/ task[Destructor] # NULL
        /\ UNCHANGED <<memtable_, immutable_memtable_, task, file_metas_,
                       sstable_number_, spawned, freed, beside>>
    BY Zenon, <1>19 DEF RaceAborts, At
  <2>2. beside
    BY Zenon, <1>t, <2>1, ThreadAssumption
  <2>3. Slots' /\ Compactors' = Compactors
    BY Zenon, <2>1 DEF Compacting, Slots, HasSlot, Compactors
  <2> QED
    BY Zenon, <2>1, <2>2, <2>3 DEF Compacting, ImmutableHasCompactor, AbortsExplained
<1> QED
  BY Zenon, <1>1, <1>2, <1>3, <1>4, <1>5, <1>6, <1>7, <1>8, <1>9, <1>10, <1>11, <1>12,
     <1>13, <1>14, <1>15, <1>16, <1>17, <1>18, <1>19
  DEF Next, WriteStep, ReadStep, BackgroundStep, DestructorStep

\* No compaction thread runs after the constructor.
LEMMA CompactingInit == Init => Compacting
PROOF
<1> SUFFICES ASSUME Init PROVE Compacting
  BY Zenon
<1>1. /\ proc = "open" /\ file_metas_ = <<>> /\ sstable_number_ = 1
      /\ task[Background] = NULL /\ task[Destructor] = NULL /\ spawned = 0
      /\ immutable_memtable_ = NULL /\ freed = FALSE
  BY Zenon DEF Init
<1>2. DOMAIN file_metas_ = {}
  BY <1>1
<1>3. Compactors = 0
  BY <1>1 DEF Compactors
<1> QED
  BY <1>1, <1>2, <1>3
  DEF Compacting, Slots, Keyless, HasSlot, ImmutableHasCompactor, AbortsExplained

-----------------------------------------------------------------------------
(* Theorems on types and locks *)

\* The lock invariant, for every set of clients and every build outcome.
THEOREM LockingHolds == Spec => [](TypeOK /\ Locking)
PROOF
<1>1. Init => TypeOK /\ Locking
  BY Zenon, TypeInit, LockInit
<1>2. TypeOK /\ Locking /\ [Next]_vars => (TypeOK /\ Locking)'
  BY Zenon, TypeStep, LockStep
<1> QED
  BY <1>1, <1>2, PTL DEF Spec

\* The state of DBimpl is well typed in every reachable state; Write needs for
\* it that the queue has one member when it forms a group.
THEOREM TypeCorrect == Spec => []TypeOK
  BY LockingHolds, PTL

\* Group commit never forms: writers_ holds at most the owner of rwlock_, and
\* no client ever waits at line 135 of Write.
THEOREM GroupsNeverForm == Spec => []QueueHoldsOnlyOwner
PROOF
<1>1. Locking => QueueHoldsOnlyOwner
  BY Zenon DEF Locking
<1> QED
  BY <1>1, LockingHolds, PTL

\* No Get runs while Write is between two entries of a batch.
THEOREM BatchesAreAtomic == Spec => []ReadsSeeWholeBatches
PROOF
<1>1. TypeOK /\ Locking => ReadsSeeWholeBatches
  BY ThreadAssumption DEF TypeOK, Locking, ReadsSeeWholeBatches, WriterSteps
<1> QED
  BY <1>1, LockingHolds, PTL

-----------------------------------------------------------------------------
(* What is stored *)

\* What Retention and the three properties say of the stored entries.
StoreInv ==
    /\ CompactionFresh
    /\ \A e \in Stored : e.seq \in 2..insertion.number
    /\ HasNewest(memtable_.entries)
    /\ HasNewest(ImmutableEntries)
    /\ NoEntryLost /\ LayersOrdered /\ TablesIntact

storeVars == <<memtable_, immutable_memtable_, task, file_metas_,
               sstable_number_, disk, insertion.number, beside>>

InFile(e) ==
    \E i \in DOMAIN file_metas_ :
        /\ file_metas_[i].built
        /\ file_metas_[i].number \in DOMAIN disk
        /\ e \in disk[file_metas_[i].number]

\* FileEntries, the entries in some table, element by element.
LEMMA FileEntriesAre == \A e : e \in FileEntries <=> InFile(e)
  BY Zenon DEF FileEntries, Opens, InFile

\* The same after a step.
LEMMA FileEntriesNext == \A e : e \in FileEntries' <=> InFile(e)'
  BY Zenon DEF FileEntries, Opens, InFile

\* Steps that move no entry keep what is stored.
LEMMA SameLayers ==
    ASSUME StoreInv, proc = "open", CompactionFresh', TablesIntact',
           UNCHANGED <<memtable_, insertion.number, ImmutableEntries, FileEntries>>
    PROVE  StoreInv' /\ Stored' = Stored
PROOF
<1>1. Stored' = Stored
  BY Zenon DEF Stored
<1>2. LayersOrdered' /\ NoEntryLost'
  BY Zenon, <1>1 DEF StoreInv, LayersOrdered, NoEntryLost, Seqs
<1> QED
  BY Zenon, <1>1, <1>2 DEF StoreInv, HasNewest

\* Steps that change neither memtables nor tables keep what is stored.
LEMMA SameStore ==
    ASSUME StoreInv, proc = "open", UNCHANGED storeVars
    PROVE  StoreInv' /\ Stored' = Stored
PROOF
<1> USE DEF storeVars
<1>1. FileEntries' = FileEntries /\ ImmutableEntries' = ImmutableEntries
  BY DEF FileEntries, Opens, ImmutableEntries, EntriesOf
<1>2. CompactionFresh'
  BY Zenon DEF StoreInv, CompactionFresh, HasSlot
<1>3. TablesIntact'
  BY Zenon DEF StoreInv, TablesIntact, Opens
<1> QED
  BY Zenon, <1>1, <1>2, <1>3, SameLayers

\* Only the FileMetas of finished tables count.
BuiltMetasKept ==
    /\ \A i \in DOMAIN file_metas_ :
          file_metas_[i].built =>
             i \in DOMAIN file_metas_' /\ file_metas_'[i] = file_metas_[i]
    /\ \A i \in DOMAIN file_metas_' :
          file_metas_'[i].built =>
             i \in DOMAIN file_metas_ /\ file_metas_'[i] = file_metas_[i]

\* A FileMeta that belongs to no table, new or being filled, moves no entry.
LEMMA UnbuiltStore ==
    ASSUME StoreInv, proc = "open", proc' = "open", BuiltMetasKept,
           UNCHANGED <<disk, sstable_number_>>
    PROVE  /\ FileEntries' = FileEntries /\ TablesIntact'
           /\ \A i \in DOMAIN file_metas_' :
                 file_metas_'[i].built => file_metas_'[i].number < sstable_number_'
PROOF
<1>1. \A e : InFile(e)' <=> InFile(e)
  BY Zenon DEF InFile, BuiltMetasKept
<1>2. FileEntries' = FileEntries
  BY Zenon, <1>1, FileEntriesAre, FileEntriesNext
<1>3. TablesIntact'
  BY Zenon DEF StoreInv, TablesIntact, Opens, BuiltMetasKept
<1>4. \A i \in DOMAIN file_metas_' :
        file_metas_'[i].built => file_metas_'[i].number < sstable_number_'
  BY Zenon DEF StoreInv, CompactionFresh, BuiltMetasKept
<1> QED
  BY Zenon, <1>2, <1>3, <1>4

-----------------------------------------------------------------------------
(* Sequence numbers *)

\* A number that is handed out fits the tag, so packing keeps it.
LEMMA PackKeeps ==
    ASSUME NEW n \in Nat, n <= MaxSequence
    PROVE  PackSequence(n) = n /\ n < SeekSequence
  BY ModulusAssumption, BoundAssumption DEF PackSequence, SeekSequence

\* Every step of an open object keeps how numbers are handed out.
LEMMA SequencingStep ==
    ASSUME TypeOK, Locking, proc = "open", Sequencing, [Next]_vars, proc' = "open"
    PROVE  Sequencing'
PROOF
<1> USE DEF TypeOK, callVars, lockVars, memVars, bgVars, seqVars, fileVars,
            objVars, Goto
<1>1. CASE UNCHANGED vars
  BY Zenon, <1>1 DEF vars, Sequencing
<1>2. ASSUME NEW c \in Clients, NEW b \in Batches, WriteLock(c, b)
      PROVE  Sequencing'
  BY Zenon, <1>2 DEF WriteLock, Sequencing
<1>3. ASSUME NEW c \in Clients, RoomLeft(c) \/ WaitForCompaction(c) \/ Wake(c)
      PROVE  Sequencing'
  <2>1. CASE RoomLeft(c)
    BY Zenon, <2>1 DEF RoomLeft, Sequencing
  <2>2. CASE WaitForCompaction(c)
    BY Zenon, <2>2 DEF WaitForCompaction, Sequencing
  <2>3. CASE Wake(c)
    <3>1. pc[c] = "waitroom" /\ pc' = [pc EXCEPT ![c] = "room"]
      BY Zenon, <2>3 DEF Wake, Locking, QueueHoldsOnlyOwner
    <3> QED
      BY Zenon, <2>3, <3>1 DEF Wake, Sequencing
  <2> QED
    BY Zenon, <1>3, <2>1, <2>2, <2>3
<1>4. ASSUME NEW c \in Clients, SwitchMemtable(c)
      PROVE  Sequencing'
  BY Zenon, <1>4 DEF MaybeScheduleCompaction, SwitchMemtable, Sequencing
<1>5. ASSUME NEW c \in Clients, BuildWriteBatchGroup(c)
      PROVE  Sequencing'
  <2>1. GroupLength = 1 /\ Head(writers_) = c
    BY Zenon, <1>5, GroupOfOne DEF BuildWriteBatchGroup
  <2>2. /\ insertion'.number = last_sequence_
        /\ insertion'.todo = writer[c].batch
        /\ last_sequence_' = last_sequence_ + Len(writer[c].batch)
        /\ pc' = [pc EXCEPT ![c] = "insert"]
    BY Zenon, <1>5, <2>1 DEF BuildWriteBatchGroup
  <2>3. last_sequence_' <= MaxSequence /\ last_sequence_ >= 1
    BY SMTT(30), <1>5, <2>2 DEF BuildWriteBatchGroup, Sequencing
  <2>4. \A d \in Clients : pc'[d] \notin {"room", "waitroom", "group"}
    BY SMTT(30), <1>5, <2>2 DEF BuildWriteBatchGroup, Locking, WriterSteps
  <2> QED
    BY Zenon, <2>2, <2>3, <2>4 DEF Sequencing
<1>6. ASSUME NEW c \in Clients, InsertOne(c)
      PROVE  Sequencing'
  <2>1. /\ insertion'.number = insertion.number + 1
        /\ Len(insertion'.todo) = Len(insertion.todo) - 1
    BY <1>6 DEF InsertOne
  <2> QED
    BY SMTT(30), <1>6, <2>1 DEF InsertOne, Sequencing
<1>7. ASSUME NEW c \in Clients, FinishWrite(c)
      PROVE  Sequencing'
  <2>1. /\ insertion'.number = insertion.number
        /\ insertion'.todo = insertion.todo /\ last_sequence_' = last_sequence_
    BY Zenon, <1>7 DEF FinishWrite
  <2>2. \A d \in Clients : pc'[d] \notin {"room", "waitroom", "group"}
    BY SMTT(30), <1>7 DEF FinishWrite, Locking, WriterSteps
  <2> QED
    BY Zenon, <2>1, <2>2 DEF Sequencing
<1>8. ASSUME NEW c \in Clients, NEW k, GetLock(c, k) \/ ReadStep(c)
      PROVE  Sequencing'
  BY ZenonT(30), <1>8
  DEF GetLock, ReadStep, GetMemory, GetDisk, GetReturn, Sequencing
<1>9. CASE BackgroundStep \/ BackgroundNothing \/ DestructorStep \/ RaceAborts
  <2>1. UNCHANGED <<callVars, seqVars>>
    BY Zenon, <1>9
    DEF BackgroundStep, BackgroundBegin, BackgroundEnd, BackgroundDelete,
        BackgroundNull, BackgroundNothing, CompactStep, CompactPush, CompactRead,
        CompactKeys, DestructorStep, DestructorLock, DestructorSwap,
        DestructorEnd, DestructorFree, DumpManifest, RaceAborts
  <2> QED
    BY Zenon, <2>1 DEF Sequencing
<1> QED
  BY Zenon, <1>1, <1>2, <1>3, <1>4, <1>5, <1>6, <1>7, <1>8, <1>9 DEF Next, WriteStep

-----------------------------------------------------------------------------
(* The actions that change what is stored or numbered *)

\* Rotation moves the entries of memtable_ one layer down.
LEMMA SwitchStore ==
    ASSUME TypeOK, proc = "open", StoreInv, NEW c \in Clients, SwitchMemtable(c)
    PROVE  StoreInv'
PROOF
<1>1. /\ immutable_memtable_ = NULL /\ immutable_memtable_' = memtable_
      /\ memtable_'.entries = {} /\ memtable_ # NULL
      /\ UNCHANGED <<task, file_metas_, sstable_number_, disk, insertion, proc,
                     beside>>
  BY Zenon, NullAssumption
  DEF MaybeScheduleCompaction, SwitchMemtable, NewMemtable, TypeOK, bgVars,
      fileVars, seqVars, objVars
<1>2. FileEntries' = FileEntries
  BY Zenon, <1>1 DEF FileEntries, Opens
<1>0. task[Background] = NULL
  BY Zenon, <1>1 DEF StoreInv, CompactionFresh
<1>3. ImmutableEntries = {} /\ ImmutableEntries' = memtable_.entries
  BY Zenon, <1>0, <1>1 DEF EntriesOf, ImmutableEntries
<1>4. Stored' = Stored
  BY Zenon, <1>1, <1>2, <1>3 DEF Stored
<1>5. CompactionFresh'
  BY Zenon, <1>0, <1>1 DEF StoreInv, CompactionFresh
<1>6. TablesIntact' /\ NoEntryLost'
  BY Zenon, <1>1, <1>4 DEF StoreInv, TablesIntact, NoEntryLost, Opens, Seqs
<1>7. LayersOrdered'
  BY Zenon, <1>1, <1>2, <1>3 DEF StoreInv, LayersOrdered
<1>8. HasNewest(memtable_.entries)' /\ HasNewest(ImmutableEntries)'
  BY <1>1, <1>3 DEF StoreInv, HasNewest
<1> QED
  BY Zenon, <1>1, <1>4, <1>5, <1>6, <1>7, <1>8 DEF StoreInv

\* The owner of the lock starts where the previous batch ended.
LEMMA BuildStore ==
    ASSUME TypeOK, Locking, proc = "open", Sequencing, StoreInv,
           NEW c \in Clients, BuildWriteBatchGroup(c)
    PROVE  StoreInv' /\ Stored' = Stored
PROOF
<1>1. insertion.todo = <<>>
  BY Zenon DEF Locking, BuildWriteBatchGroup, WriterSteps
<1>2. insertion.number = last_sequence_
  BY SMTT(30), <1>1 DEF Sequencing, TypeOK
<1>3. UNCHANGED storeVars
  BY Zenon, <1>2 DEF BuildWriteBatchGroup, storeVars, memVars, bgVars, fileVars,
     objVars
<1> QED
  BY Zenon, <1>3, SameStore

\* The next number goes to the new entry, which is newer than all others.
LEMMA InsertStore ==
    ASSUME TypeOK, proc = "open", Sequencing, StoreInv,
           NEW c \in Clients, InsertOne(c)
    PROVE  StoreInv'
PROOF
<1> DEFINE op == Head(insertion.todo)
           n == insertion.number + 1
           new == [key |-> op.key, seq |-> n, type |-> op.type]
<1>1. n \in Nat /\ n >= 2 /\ n <= MaxSequence
  BY SMTT(30), BoundAssumption DEF InsertOne, Sequencing, TypeOK
<1>2. /\ memtable_'.entries = memtable_.entries \cup {new}
      /\ insertion'.number = n
      /\ UNCHANGED <<immutable_memtable_, task, file_metas_, sstable_number_,
                     disk, proc, beside>>
  BY Zenon, <1>1, PackKeeps DEF InsertOne, bgVars, fileVars, objVars
<1>0. FileEntries' = FileEntries /\ ImmutableEntries' = ImmutableEntries
  BY <1>2 DEF FileEntries, Opens, ImmutableEntries, EntriesOf
<1>3. Stored' = Stored \cup {new}
  BY Zenon, <1>0, <1>2 DEF Stored
<1>4. \A e \in Stored : e.seq \in 2..insertion.number /\ e.seq < n
  BY SMTT(30) DEF StoreInv, TypeOK
<1>5. \A e \in Stored' : e.seq \in 2..insertion'.number
  BY <1>1, <1>2, <1>3, <1>4 DEF TypeOK
<1>6. NoEntryLost'
  <2>1. Seqs(Stored)' = Seqs(Stored) \cup {n}
    <3>1. new.seq = n
      BY Zenon
    <3> HIDE DEF new, n
    <3> QED
      BY Zenon, <1>3, <3>1 DEF Seqs
  <2>2. 2..n = (2..insertion.number) \cup {n}
    BY SMTT(30), <1>1 DEF TypeOK
  <2> QED
    BY Zenon, <1>2, <2>1, <2>2 DEF StoreInv, NoEntryLost
<1>7. LayersOrdered'
  <2>1. new.seq = n
    BY Zenon
  <2> HIDE DEF new, n
  <2> QED
    BY Zenon, <1>0, <1>2, <1>4, <2>1 DEF StoreInv, LayersOrdered, Stored
<1>8. CompactionFresh' /\ TablesIntact'
  BY Zenon, <1>2 DEF StoreInv, CompactionFresh, TablesIntact, Opens, HasSlot
<1>9. HasNewest(memtable_.entries)'
  <2>1. SUFFICES ASSUME NEW e \in memtable_'.entries
                 PROVE  \E f \in memtable_'.entries :
                          /\ f.key = e.key
                          /\ \A g \in memtable_'.entries :
                                g.key = f.key => g.seq <= f.seq
    BY Zenon DEF HasNewest
  <2>2. CASE e.key = new.key
    <3>1. \A g \in memtable_'.entries : g.seq <= new.seq
      BY <1>1, <1>2, <1>4 DEF Stored
    <3>2. new \in memtable_'.entries
      BY Zenon, <1>2
    <3> HIDE DEF new
    <3> QED
      BY Zenon, <2>2, <3>1, <3>2
  <2>3. CASE e.key # new.key
    BY <1>2, <2>3 DEF StoreInv, HasNewest
  <2> QED
    BY Zenon, <2>2, <2>3
<1>10. HasNewest(ImmutableEntries)'
  BY Zenon, <1>0 DEF StoreInv, HasNewest
<1> QED
  BY Zenon, <1>5, <1>6, <1>7, <1>8, <1>9, <1>10 DEF StoreInv

\* The end of a Write changes nothing that is stored.
LEMMA FinishStore ==
    ASSUME proc = "open", StoreInv, NEW c \in Clients, FinishWrite(c)
    PROVE  StoreInv'
  BY Zenon, SameStore DEF FinishWrite, storeVars, memVars, bgVars, fileVars, objVars

\* Steps that leave FileMetas and files alone keep the tables.
LEMMA SameTables ==
    ASSUME TablesIntact, proc = "open", UNCHANGED <<file_metas_, disk>>
    PROVE  TablesIntact' /\ FileEntries' = FileEntries
PROOF
<1>1. FileEntries' = FileEntries
  BY Zenon DEF FileEntries, Opens
<1>2. TablesIntact'
  BY Zenon DEF TablesIntact, Opens
<1> QED
  BY Zenon, <1>1, <1>2

\* A thread that enters CompactMemtable moves no entry.
LEMMA BeginStore ==
    ASSUME TypeOK, Locking, proc = "open", StoreInv, BackgroundBegin
    PROVE  StoreInv'
PROOF
<1>1. /\ immutable_memtable_ # NULL
      /\ task' = [task EXCEPT ![Background] = NewCompaction]
      /\ UNCHANGED <<memtable_, immutable_memtable_, file_metas_, sstable_number_,
                     disk, insertion, proc, beside>>
  BY Zenon DEF BackgroundBegin, memVars, seqVars, fileVars, objVars
<1>2. task[Background] = NULL /\ SlotsHeld
  BY Zenon, ThreadAssumption DEF BackgroundBegin, BackgroundFree, Locking, SlotsHeld
<1>3. /\ task'[Background] = NewCompaction /\ ~HasSlot(Background)'
      /\ SameTasks(Background)
  BY Zenon, <1>1, <1>2, EnterSlots
<1>4. NewCompaction.step = "push"
  BY Zenon DEF NewCompaction
<1>5. ImmutableEntries' = ImmutableEntries
  BY Zenon, <1>1, <1>2, <1>3, <1>4 DEF ImmutableEntries, EntriesOf
<1>6. CompactionFresh'
  BY Zenon, <1>1, <1>3, <1>4, ThreadAssumption DEF StoreInv, CompactionFresh, SameTasks
<1>7. TablesIntact' /\ FileEntries' = FileEntries
  BY Zenon, <1>1, SameTables DEF StoreInv
<1> QED
  BY Zenon, <1>1, <1>5, <1>6, <1>7, SameLayers

\* The meta CompactMemtable appends belongs to no table yet.
LEMMA PushStore ==
    ASSUME TypeOK, Locking, proc = "open", StoreInv, CompactPush(Background)
    PROVE  StoreInv'
PROOF
<1> DEFINE meta == [number |-> 0, span |-> {}, built |-> FALSE]
           new == Len(file_metas_) + 1
<1>1. /\ UNCHANGED <<memtable_, immutable_memtable_, sstable_number_, disk,
                     insertion, proc, beside>>
      /\ task[Background] # NULL /\ task[Background].step = "push"
  BY Zenon DEF CompactPush, memVars, seqVars, objVars, At
<1>2. /\ DOMAIN file_metas_' = DOMAIN file_metas_ \cup {new}
      /\ new \notin DOMAIN file_metas_
      /\ \A i \in DOMAIN file_metas_ : file_metas_'[i] = file_metas_[i]
      /\ file_metas_'[new] = meta
  BY SMTT(30) DEF CompactPush, TypeOK
<1>3. /\ task'[Background].step = "read" /\ task'[Background].slot = new
      /\ task'[Background].name = sstable_number_
      /\ task'[Destructor] = task[Destructor]
  BY Zenon, ThreadAssumption DEF CompactPush, TypeOK
<1>4. meta.built = FALSE
  BY Zenon
<1> HIDE DEF new
<1>5. BuiltMetasKept
  BY Zenon, <1>2, <1>4 DEF BuiltMetasKept
<1>6. /\ FileEntries' = FileEntries /\ TablesIntact'
      /\ \A i \in DOMAIN file_metas_' :
            file_metas_'[i].built => file_metas_'[i].number < sstable_number_'
  BY Zenon, <1>1, <1>5, UnbuiltStore
<1>7. ImmutableEntries' = ImmutableEntries
  BY Zenon, <1>1, <1>3 DEF ImmutableEntries, EntriesOf
<1>8. file_metas_'[task'[Background].slot] =
        [number |-> 0, built |-> FALSE, span |-> {}]
  BY Zenon, <1>2, <1>3
<1>9. CompactionFresh'
  BY Zenon, <1>1, <1>3, <1>6, <1>8 DEF StoreInv, CompactionFresh
<1> QED
  BY Zenon, <1>1, <1>6, <1>7, <1>9, SameLayers

\* The immutable memtable that is read stays until the table is written.
LEMMA ReadStore ==
    ASSUME TypeOK, Locking, proc = "open", StoreInv, CompactRead(Background),
           proc' = "open"
    PROVE  StoreInv'
PROOF
<1>1. /\ UNCHANGED <<memtable_, immutable_memtable_, sstable_number_, disk,
                     insertion, beside, file_metas_>>
      /\ task[Background] # NULL /\ task[Background].step = "read"
      /\ EntriesOf(immutable_memtable_) # {}
  BY Zenon DEF CompactRead, memVars, seqVars, fileVars, At
<1>2. /\ task'[Background].step = "build"
      /\ task'[Background].slot = task[Background].slot
      /\ task'[Background].name = task[Background].name
      /\ task'[Background].entries = EntriesOf(immutable_memtable_)
      /\ task'[Destructor] = task[Destructor]
  BY Zenon, ThreadAssumption DEF CompactRead, TypeOK
<1>3. ImmutableEntries' = ImmutableEntries
  BY Zenon, <1>1, <1>2 DEF ImmutableEntries, EntriesOf
<1>4. TablesIntact' /\ FileEntries' = FileEntries
  BY Zenon, <1>1, SameTables DEF StoreInv
<1>5. /\ immutable_memtable_ # NULL
      /\ task[Background].name = sstable_number_
      /\ file_metas_[task[Background].slot] =
            [number |-> 0, built |-> FALSE, span |-> {}]
  BY Zenon, <1>1 DEF StoreInv, CompactionFresh, HasSlot
<1>6. CompactionFresh'
  BY Zenon, <1>1, <1>2, <1>5 DEF StoreInv, CompactionFresh, EntriesOf
<1> QED
  BY Zenon, <1>1, <1>3, <1>4, <1>6, SameLayers

\* A FileMeta that gets its keys belongs to no table yet.
LEMMA KeysStore ==
    ASSUME TypeOK, Locking, proc = "open", StoreInv, CompactKeys(Background)
    PROVE  StoreInv'
PROOF
<1> DEFINE job == task[Background]
           meta == [number |-> 0, span |-> job.entries, built |-> FALSE]
<1>1. /\ UNCHANGED <<memtable_, immutable_memtable_, sstable_number_, disk,
                     insertion, proc, beside>>
      /\ job # NULL /\ job.step = "build" /\ HasSlot(Background)
      /\ job.slot \in DOMAIN file_metas_
  BY Zenon DEF CompactKeys, memVars, seqVars, objVars, At, HasSlot, Locking
<1>2. /\ DOMAIN file_metas_' = DOMAIN file_metas_
      /\ file_metas_'[job.slot] = meta
      /\ \A i \in DOMAIN file_metas_ :
            i # job.slot => file_metas_'[i] = file_metas_[i]
  BY Zenon, <1>1 DEF CompactKeys
<1>3. /\ task'[Background].step = "write" /\ task'[Background].slot = job.slot
      /\ task'[Background].name = job.name
      /\ task'[Background].entries = job.entries
      /\ task'[Destructor] = task[Destructor]
  BY Zenon, ThreadAssumption DEF CompactKeys, TypeOK
<1>4. /\ immutable_memtable_ # NULL /\ job.name = sstable_number_
      /\ file_metas_[job.slot] = [number |-> 0, built |-> FALSE, span |-> {}]
      /\ job.entries = immutable_memtable_.entries /\ job.entries # {}
  BY Zenon, <1>1 DEF StoreInv, CompactionFresh
<1>5. file_metas_[job.slot].built = FALSE /\ meta.built = FALSE
  BY <1>4
<1>6. BuiltMetasKept
  BY Zenon, <1>1, <1>2, <1>5 DEF BuiltMetasKept
<1>7. /\ FileEntries' = FileEntries /\ TablesIntact'
      /\ \A i \in DOMAIN file_metas_' :
            file_metas_'[i].built => file_metas_'[i].number < sstable_number_'
  BY Zenon, <1>1, <1>6, UnbuiltStore
<1>8. ImmutableEntries' = ImmutableEntries
  BY Zenon, <1>1, <1>3 DEF ImmutableEntries, EntriesOf
<1>9. file_metas_'[task'[Background].slot] =
        [number |-> 0, built |-> FALSE, span |-> task'[Background].entries]
  BY <1>2, <1>3
<1>10. CompactionFresh'
  BY Zenon, <1>1, <1>3, <1>4, <1>7, <1>9 DEF StoreInv, CompactionFresh
<1> QED
  BY Zenon, <1>1, <1>7, <1>8, <1>10, SameLayers

\* The memtable that is deleted, lines 276 and 277, is in a table already.
LEMMA DeleteStore ==
    ASSUME TypeOK, Locking, proc = "open", StoreInv,
           BackgroundDelete \/ BackgroundNull
    PROVE  StoreInv'
PROOF
<1>1. /\ UNCHANGED <<memtable_, sstable_number_, disk, insertion, beside, proc,
                     file_metas_>>
      /\ task[Background] # NULL /\ task[Background].step \in {"delete", "null"}
  BY Zenon DEF BackgroundDelete, BackgroundNull, memVars, seqVars, fileVars, objVars, At
<1>2. SlotsHeld
  BY Zenon DEF Locking, SlotsHeld
<1>3. /\ task'[Destructor] = task[Destructor] /\ ~HasSlot(Background)'
      /\ \/ /\ task'[Background] # NULL /\ task'[Background].step = "null"
            /\ immutable_memtable_' = immutable_memtable_
         \/ task'[Background] = NULL /\ immutable_memtable_' = NULL
  <2>1. CASE BackgroundDelete
    BY Zenon, <1>1, <1>2, <2>1, StepSlots, ThreadAssumption
    DEF BackgroundDelete, SameTasks, HasSlot, memVars
  <2>2. CASE BackgroundNull
    BY Zenon, <1>1, <1>2, <2>2, ReturnSlots, ThreadAssumption
    DEF BackgroundNull, BackgroundReturn, SameTasks, HasSlot
  <2> QED
    BY Zenon, <2>1, <2>2
<1>4. ImmutableEntries = {} /\ ImmutableEntries' = {}
  BY Zenon, <1>1, <1>3 DEF ImmutableEntries, EntriesOf
<1>5. CompactionFresh'
  BY Zenon, <1>1, <1>3 DEF StoreInv, CompactionFresh
<1>6. TablesIntact' /\ FileEntries' = FileEntries
  BY Zenon, <1>1, SameTables DEF StoreInv
<1> QED
  BY Zenon, <1>1, <1>4, <1>5, <1>6, SameLayers

\* A table that is built takes over the entries of the immutable memtable; one
\* that is not leaves every other table alone.
LEMMA EndStore ==
    ASSUME TypeOK, Locking, proc = "open", StoreInv,
           NEW o \in Outcomes, BackgroundEnd(o), proc' = "open"
    PROVE  StoreInv'
PROOF
<1> DEFINE job == task[Background]
           ok == Ok(o)
           meta == [number |-> sstable_number_, built |-> ok,
                    span |-> file_metas_[job.slot].span]
           kept == IF o = "ok" THEN job.entries ELSE {}
<1>0. o \in BuildOutcomes
  BY Zenon DEF Outcomes, StoreInv, CompactionFresh
<1>1. /\ job \in Compaction /\ job.slot \in DOMAIN file_metas_
      /\ immutable_memtable_ # NULL /\ job.name = sstable_number_
      /\ job.entries = immutable_memtable_.entries /\ job.entries # {}
      /\ ~file_metas_[job.slot].built
      /\ ok => file_metas_[job.slot].span = job.entries
      /\ job.step \in {"build", "write"}
  <2>1. /\ job # NULL /\ job.step \in {"build", "write"}
        /\ ok => job.step = "write"
    BY Zenon DEF BackgroundEnd, CompactEnd, At, Ok
  <2>2. job \in Compaction /\ HasSlot(Background)
    BY Zenon, <2>1 DEF TypeOK, HasSlot
  <2>3. job.slot \in DOMAIN file_metas_
    BY Zenon, <2>2 DEF Locking
  <2>4. /\ immutable_memtable_ # NULL /\ job.name = sstable_number_
        /\ job.entries = immutable_memtable_.entries /\ job.entries # {}
        /\ file_metas_[job.slot] =
              [number |-> 0, built |-> FALSE,
               span |-> IF job.step = "write" THEN job.entries ELSE {}]
    BY Zenon, <2>1, <2>2 DEF StoreInv, CompactionFresh
  <2>5. /\ file_metas_[job.slot].built = FALSE
        /\ file_metas_[job.slot].span =
              IF job.step = "write" THEN job.entries ELSE {}
    BY <2>4
  <2> QED
    BY Zenon, <2>1, <2>2, <2>3, <2>4, <2>5
<1>2. /\ file_metas_' = [file_metas_ EXCEPT ![job.slot] = meta]
      /\ sstable_number_' = sstable_number_ + (IF ok THEN 1 ELSE 0)
      /\ disk' = Written(job, o)
      /\ UNCHANGED <<memtable_, immutable_memtable_, insertion, proc, beside>>
  <2>1. ~At(Destructor, {"build", "write"})
    BY Zenon DEF StoreInv, CompactionFresh, At
  <2> QED
    BY Zenon, <1>1, <2>1 DEF BackgroundEnd, CompactEnd, seqVars, memVars
<1>t. /\ task'[Destructor] = NULL /\ ~HasSlot(Background)'
      /\ ok => task'[Background] # NULL /\ task'[Background].step = "delete"
      /\ ~ok => task'[Background] = NULL
  <2>1. SlotsHeld /\ task[Background] # NULL /\ task[Destructor] = NULL
    BY Zenon DEF Locking, SlotsHeld, BackgroundEnd, CompactEnd, At, StoreInv,
       CompactionFresh
  <2>2. DOMAIN file_metas_' = DOMAIN file_metas_
    BY Zenon, <1>2
  <2>3. CASE ok
    BY Zenon, <2>1, <2>2, <2>3, StepSlots, ThreadAssumption
    DEF BackgroundEnd, SameTasks, HasSlot
  <2>4. CASE ~ok
    <3>1. task' = [task EXCEPT ![Background] = NULL]
      BY Zenon, <2>4 DEF BackgroundEnd, BackgroundReturn
    <3> QED
      BY Zenon, <2>1, <2>2, <2>4, <3>1, ReturnSlots, ThreadAssumption
      DEF SameTasks, HasSlot
  <2> QED
    BY Zenon, <2>3, <2>4
<1>3. ASSUME NEW n, n < sstable_number_
      PROVE  /\ n \in DOMAIN disk' <=> n \in DOMAIN disk
             /\ n \in DOMAIN disk => disk'[n] = disk[n]
  <2>1. n # job.name
    BY <1>1, <1>3 DEF TypeOK
  <2>2. CASE o \in {"ok", "torn", "assert"}
    BY Zenon, <1>2, <2>1, <2>2 DEF Written
  <2>3. CASE o = "write"
    BY Zenon, <1>2, <2>1, <2>3 DEF Written
  <2>4. CASE o \notin {"ok", "torn", "assert", "write"}
    BY Zenon, <1>2, <2>4 DEF Written
  <2> QED
    BY Zenon, <2>2, <2>3, <2>4
<1>4. ok => sstable_number_ \in DOMAIN disk' /\ disk'[sstable_number_] = kept
  BY Zenon, <1>1, <1>2 DEF Written, Ok
<1>5. \A i \in DOMAIN file_metas_ :
        file_metas_[i].built => file_metas_[i].number < sstable_number_
  BY Zenon DEF StoreInv, CompactionFresh
<1>6. /\ DOMAIN file_metas_' = DOMAIN file_metas_
      /\ file_metas_'[job.slot] = meta
      /\ \A i \in DOMAIN file_metas_ :
            i # job.slot => file_metas_'[i] = file_metas_[i]
  BY Zenon, <1>1, <1>2
<1>7. meta.number = sstable_number_ /\ meta.built = ok
      /\ (ok => meta.span = job.entries)
  BY Zenon, <1>1
<1> HIDE DEF meta
<1>8. FileEntries' = FileEntries \cup kept
  <2>1. \A e : InFile(e)' <=> InFile(e) \/ e \in kept
    <3>1. ASSUME NEW e, InFile(e)'
          PROVE  InFile(e) \/ e \in kept
      <4>1. PICK i \in DOMAIN file_metas_ :
              /\ file_metas_'[i].built
              /\ file_metas_'[i].number \in DOMAIN disk'
              /\ e \in disk'[file_metas_'[i].number]
        BY Zenon, <1>6, <3>1 DEF InFile
      <4>2. CASE i = job.slot
        BY Zenon, <1>4, <1>6, <1>7, <4>1, <4>2
      <4>3. CASE i # job.slot
        BY Zenon, <1>3, <1>5, <1>6, <4>1, <4>3 DEF InFile
      <4> QED
        BY Zenon, <4>2, <4>3
    <3>2. ASSUME NEW e, InFile(e)
          PROVE  InFile(e)'
      <4>1. PICK i \in DOMAIN file_metas_ :
              /\ file_metas_[i].built
              /\ file_metas_[i].number \in DOMAIN disk
              /\ e \in disk[file_metas_[i].number]
        BY Zenon, <3>2 DEF InFile
      <4> QED
        BY Zenon, <1>1, <1>3, <1>5, <1>6, <4>1 DEF InFile
    <3>3. ASSUME NEW e \in kept
          PROVE  InFile(e)'
      BY ZenonT(30), <1>1, <1>4, <1>6, <1>7, <3>3 DEF InFile, Ok
    <3> QED
      BY Zenon, <3>1, <3>2, <3>3
  <2> QED
    BY Zenon, <2>1, FileEntriesAre, FileEntriesNext
<1>9. /\ memtable_'.entries = memtable_.entries
      /\ ImmutableEntries' = IF ok THEN {} ELSE job.entries
      /\ ImmutableEntries = job.entries
  BY Zenon, <1>t, <1>1, <1>2 DEF EntriesOf, ImmutableEntries
<1>10. Stored' \subseteq Stored /\ ("torn" \notin BuildOutcomes => Stored' = Stored)
  BY Zenon, <1>0, <1>8, <1>9 DEF Stored, Ok
<1>11. NoEntryLost'
  BY Zenon, <1>2, <1>10 DEF StoreInv, NoEntryLost, Seqs
<1>12. \A e \in Stored' : e.seq \in 2..insertion'.number
  BY Zenon, <1>2, <1>10 DEF StoreInv
<1>13. LayersOrdered'
  BY Zenon, <1>8, <1>9 DEF StoreInv, LayersOrdered, Ok
<1>14. CompactionFresh'
  <2>2. sstable_number_ \in Nat
    BY Zenon DEF TypeOK
  <2>3. ASSUME NEW i \in DOMAIN file_metas_', file_metas_'[i].built
        PROVE  file_metas_'[i].number < sstable_number_'
    <3>1. CASE i = job.slot
      <4>1. ok /\ file_metas_'[i].number = sstable_number_
        BY Zenon, <1>6, <1>7, <2>3, <3>1
      <4>2. sstable_number_' = sstable_number_ + 1
        BY Zenon, <1>2, <4>1
      <4> QED
        BY SMTT(90), <2>2, <4>1, <4>2
    <3>2. CASE i # job.slot
      <4>1. /\ file_metas_[i].number < sstable_number_
            /\ file_metas_'[i].number = file_metas_[i].number
        BY Zenon, <1>5, <1>6, <2>3, <3>2
      <4>2. file_metas_[i].number \in Nat
        <5>1. file_metas_[i] \in FileMeta
          BY <1>6 DEF TypeOK
        <5> QED
          BY Zenon, <5>1 DEF FileMeta
      <4> QED
        BY <1>2, <2>2, <4>1, <4>2
    <3> QED
      BY Zenon, <3>1, <3>2
  <2> QED
    BY Zenon, <1>t, <1>1, <1>2, <2>3 DEF CompactionFresh, StoreInv
<1>15. TablesIntact'
  <2>1. SUFFICES ASSUME "torn" \notin BuildOutcomes,
                        NEW i \in DOMAIN file_metas_', file_metas_'[i].built
                 PROVE  /\ Opens(file_metas_[i])'
                        /\ disk'[file_metas_'[i].number] = file_metas_'[i].span
    BY Zenon DEF TablesIntact
  <2>2. CASE i = job.slot
    BY Zenon, <1>0, <1>1, <1>4, <1>6, <1>7, <2>1, <2>2 DEF Opens, Ok
  <2>3. CASE i # job.slot
    <3>1. Opens(file_metas_[i]) /\ disk[file_metas_[i].number] = file_metas_[i].span
      BY Zenon, <1>6, <2>1, <2>3 DEF StoreInv, TablesIntact
    <3> QED
      BY Zenon, <1>3, <1>5, <1>6, <2>1, <2>3, <3>1 DEF Opens
  <2> QED
    BY Zenon, <2>2, <2>3
<1>16. /\ HasNewest(memtable_.entries)'
       /\ HasNewest(ImmutableEntries)'
  BY Zenon, <1>2, <1>9 DEF StoreInv, HasNewest
<1> QED
  BY Zenon, <1>11, <1>12, <1>13, <1>14, <1>15, <1>16 DEF StoreInv

-----------------------------------------------------------------------------
(* Reads *)

\* A lookup in a memtable returns the newest entry of its key, if there is one.
LEMMA MemtableGetNewest ==
    ASSUME NEW m \in Memtable, NEW k \in Keys, HasNewest(m.entries),
           \A e \in m.entries : e.seq < SeekSequence
    PROVE  /\ MemtableGet(m, k) = NotFound => \A e \in m.entries : e.key # k
           /\ MemtableGet(m, k) # NotFound =>
                 \A e \in m.entries : e.key = k => e.seq <= MemtableGet(m, k).seq
PROOF
<1> DEFINE rest == {e \in m.entries : MemtableKeyCompare(e, Probe(k)) # -1}
           first == {e \in rest : \A f \in rest : MemtableKeyCompare(e, f) # 1}
           found == FindFirstGreaterOrEqual(m.entries, Probe(k))
<1>0. SeekSequence \in Int
  BY ModulusAssumption DEF SeekSequence
<1>1. \A e \in m.entries : e.key \in Int /\ e.seq \in Nat /\ e # NotFound
  BY Zenon, KeysAssumption, NotFoundAssumption DEF Memtable, Entry
<1>2. k \in Int
  BY Zenon, KeysAssumption
<1>3. \A e \in m.entries : e \in rest <=> e.key >= k
  BY <1>0, <1>1, <1>2 DEF MemtableKeyCompare, Probe
<1>4. found = IF first = {} THEN NotFound ELSE CHOOSE e \in first : TRUE
  BY Zenon DEF FindFirstGreaterOrEqual
<1>5. first # {} => found \in first /\ found # NotFound
  BY Zenon, <1>1, <1>4
<1>6. ASSUME NEW e \in m.entries, e.key = k
      PROVE  first # {} /\ found.key = k /\ e.seq <= found.seq
  <2>1. PICK f \in m.entries :
          f.key = k /\ \A g \in m.entries : g.key = k => g.seq <= f.seq
    BY Zenon, <1>6 DEF HasNewest
  <2>2. f \in rest
    BY <1>1, <1>3, <2>1
  <2>3. \A g \in rest : MemtableKeyCompare(f, g) # 1
    BY <1>1, <1>3, <2>1 DEF MemtableKeyCompare
  <2>4. first # {} /\ found \in rest /\ MemtableKeyCompare(found, f) # 1
    BY Zenon, <1>5, <2>2, <2>3
  <2>5. found \in m.entries /\ found.key >= k
    BY Zenon, <1>3, <2>4
  <2> HIDE DEF found, first, rest
  <2>6. /\ found.key \in Int /\ found.seq \in Int /\ f.key \in Int /\ f.seq \in Int
        /\ found.key >= k /\ f.key = k /\ MemtableKeyCompare(found, f) # 1
    BY <1>1, <2>1, <2>4, <2>5
  <2>7. found.key = k /\ f.seq <= found.seq
    BY <1>2, <2>6 DEF MemtableKeyCompare
  <2> QED
    BY <1>1, <1>6, <2>1, <2>4, <2>5, <2>7
<1>7. MemtableGet(m, k) = IF found # NotFound /\ found.key = k THEN found
                          ELSE NotFound
  BY Zenon DEF MemtableGet
<1> HIDE DEF found, first
<1> QED
  BY Zenon, <1>5, <1>6, <1>7

\* What Get finds in the memtables is newer than all that is in tables.
LEMMA GetMemoryNewest ==
    ASSUME TypeOK, proc = "open", Sequencing, StoreInv, NEW k \in Keys,
           task[Background] = NULL, MemoryGet(k) # NotFound
    PROVE  \A e \in Stored : e.key = k => e.seq <= MemoryGet(k).seq
PROOF
<1>0. ImmutableEntries = EntriesOf(immutable_memtable_)
  BY Zenon DEF ImmutableEntries
<1>1. \A e \in Stored : e.seq \in Nat /\ e.seq < SeekSequence
  <2>1. \A e \in Stored : e.seq \in 2..insertion.number
    BY Zenon DEF StoreInv
  <2>2. insertion.number <= MaxSequence
    BY BoundAssumption DEF Sequencing, TypeOK
  <2> QED
    BY <2>1, <2>2, BoundAssumption, ModulusAssumption DEF SeekSequence, TypeOK
<1>2. MemtableGet(memtable_, k) = NotFound => \A e \in memtable_.entries : e.key # k
  BY Zenon, <1>1, MemtableGetNewest DEF Stored, StoreInv, TypeOK
<1>3. MemtableGet(memtable_, k) # NotFound =>
        /\ MemtableGet(memtable_, k) \in memtable_.entries
        /\ \A e \in memtable_.entries :
              e.key = k => e.seq <= MemtableGet(memtable_, k).seq
  BY Zenon, <1>1, MemtableGetNewest, FoundIsStored
  DEF Stored, StoreInv, TypeOK, MemtableGet
<1>4. CASE MemtableGet(memtable_, k) # NotFound
  <2>1. MemoryGet(k) = MemtableGet(memtable_, k)
    BY Zenon, <1>4 DEF MemoryGet
  <2>2. \A e \in ImmutableEntries \cup FileEntries :
          e.seq < MemoryGet(k).seq
    BY Zenon, <1>3, <1>4, <2>1 DEF StoreInv, LayersOrdered
  <2>3. MemoryGet(k).seq \in Nat
    BY Zenon, <1>1, <1>3, <1>4, <2>1 DEF Stored
  <2> QED
    BY <1>1, <1>3, <1>4, <2>1, <2>2, <2>3 DEF Stored
<1>5. CASE MemtableGet(memtable_, k) = NotFound
  <2>1. /\ immutable_memtable_ # NULL
        /\ MemoryGet(k) = MemtableGet(immutable_memtable_, k)
    BY Zenon, <1>5 DEF MemoryGet
  <2>2. immutable_memtable_ \in Memtable
        /\ ImmutableEntries = immutable_memtable_.entries
    BY Zenon, <1>0, <2>1 DEF TypeOK, EntriesOf
  <2>3. /\ MemoryGet(k) \in immutable_memtable_.entries
        /\ \A e \in immutable_memtable_.entries :
              e.key = k => e.seq <= MemoryGet(k).seq
    BY Zenon, <1>1, <2>1, <2>2, MemtableGetNewest, FoundIsStored
    DEF Stored, StoreInv, MemtableGet
  <2>4. \A e \in FileEntries : e.seq < MemoryGet(k).seq
    BY Zenon, <2>2, <2>3 DEF StoreInv, LayersOrdered
  <2>5. MemoryGet(k).seq \in Nat
    BY Zenon, <1>1, <2>2, <2>3 DEF Stored
  <2> QED
    BY <1>1, <1>2, <1>5, <2>2, <2>3, <2>4, <2>5 DEF Stored
<1> QED
  BY Zenon, <1>4, <1>5

\* InternalGet wants the very sequence number a lookup seeks with, which no
\* write gets: a Get never returns an entry from an sstable.
LEMMA DiskFindsNothing ==
    ASSUME TypeOK, proc = "open", Sequencing, StoreInv, NEW k,
           NEW i \in DOMAIN file_metas_, Opens(file_metas_[i])
    PROVE  InternalGet(file_metas_[i], k) = NotFound
PROOF
<1> DEFINE e == InternalGet(file_metas_[i], k)
<1>1. SUFFICES ASSUME e # NotFound PROVE FALSE
  BY Zenon
<1>2. e \in FileEntries
  BY Zenon, <1>1, InternalGetResult, FileEntriesAre DEF InFile, Opens
<1>3. e.seq \in 2..insertion.number /\ insertion.number <= MaxSequence
  BY <1>2, BoundAssumption DEF StoreInv, Stored, Sequencing, TypeOK
<1>4. e.seq < SeekSequence
  BY <1>3, BoundAssumption, ModulusAssumption DEF SeekSequence, TypeOK
<1>5. InternalKeyCompare(e, Probe(k)) = 0
  BY Zenon, <1>1 DEF InternalGet
<1>6. e.seq \in Int /\ SeekSequence \in Int
  BY <1>3, ModulusAssumption DEF SeekSequence
<1> HIDE DEF e
<1> QED
  BY <1>4, <1>5, <1>6 DEF InternalKeyCompare, Probe

-----------------------------------------------------------------------------
(* Every step *)

\* ~DBimpl takes no step of an object that stays open.
LEMMA ClosingStep ==
    ASSUME DestructorStep \/ RaceAborts, proc = "open", task[Destructor] = NULL
    PROVE  proc' # "open"
  BY Zenon DEF DestructorStep, RaceAborts, DestructorLock, DestructorSwap,
     DestructorEnd, DestructorFree, DumpManifest, CompactStep, CompactPush,
     CompactRead, CompactKeys, CompactEnd, At

\* Every step of an open object keeps what is known of the layers.
LEMMA StoreStep ==
    ASSUME TypeOK, Locking, proc = "open", Sequencing, StoreInv, [Next]_vars,
           proc' = "open"
    PROVE  StoreInv'
PROOF
<1> USE DEF callVars, lockVars, memVars, bgVars, seqVars, fileVars, objVars
<1>0. task[Destructor] = NULL
  BY Zenon DEF StoreInv, CompactionFresh
<1>1. CASE UNCHANGED vars
  BY Zenon, <1>1, SameStore DEF vars, storeVars
<1>2. ASSUME NEW c \in Clients, NEW b, WriteLock(c, b)
      PROVE  StoreInv'
  BY Zenon, <1>2, SameStore DEF WriteLock, storeVars
<1>3. ASSUME NEW c \in Clients, RoomLeft(c) \/ WaitForCompaction(c) \/ Wake(c)
      PROVE  StoreInv'
  BY Zenon, <1>3, SameStore DEF RoomLeft, WaitForCompaction, Wake, storeVars
<1>4. ASSUME NEW c \in Clients, NEW k, GetLock(c, k) \/ ReadStep(c)
      PROVE  StoreInv'
  BY Zenon, <1>4, SameStore DEF GetLock, ReadStep, GetMemory, GetDisk, GetReturn, storeVars
<1>5. CASE BackgroundNothing
  BY Zenon, <1>5, SameStore DEF BackgroundNothing, storeVars
<1>6. CASE DestructorStep \/ RaceAborts
  BY Zenon, <1>0, <1>6, ClosingStep
<1>7. CASE BackgroundStep
  BY Zenon, <1>7, BeginStore, PushStore, ReadStore, KeysStore, EndStore, DeleteStore
  DEF BackgroundStep, CompactStep
<1> QED
  BY Zenon, <1>1, <1>2, <1>3, <1>4, <1>5, <1>6, <1>7, SwitchStore, BuildStore,
     InsertStore, FinishStore
  DEF Next, WriteStep

\* Every step of an open object keeps that reads return the newest entry.
LEMMA ReadsStep ==
    ASSUME TypeOK, Locking, proc = "open", Sequencing, StoreInv, ReadsNewest,
           [Next]_vars, proc' = "open"
    PROVE  ReadsNewest'
PROOF
<1> USE DEF callVars, lockVars, memVars, bgVars, seqVars, fileVars, objVars
<1> SUFFICES ASSUME NEW c \in Clients, pc'[c] = "return", result'[c] # NotFound,
                    NEW e \in Stored', e.key = lookup'[c]
             PROVE  e.seq <= result'[c].seq
  BY Zenon DEF ReadsNewest
<1>0. /\ pc \in [Clients -> WriterSteps \cup ReaderSteps \cup {"idle"}]
      /\ lookup \in [Clients -> Keys \cup {NULL}]
      /\ result \in [Clients -> Entry \cup {NotFound}]
  BY Zenon DEF TypeOK
\* A reader that stays where it is keeps its result, and the store its entries.
<1>1. ASSUME UNCHANGED storeVars, pc[c] = "return", result'[c] = result[c],
             lookup'[c] = lookup[c]
      PROVE  e.seq <= result'[c].seq
  BY Zenon, <1>1, SameStore DEF ReadsNewest
\* Nobody reads while the lock is owned or being taken.
<1>2. ASSUME rwlock_.readers = {} \/ rwlock_.owner # NULL, pc[c] = "return"
      PROVE  FALSE
  BY Zenon, <1>2 DEF Locking, ReaderSteps
<1>3. CASE UNCHANGED vars
  BY Zenon, <1>1, <1>3 DEF vars, storeVars
<1>4. ASSUME NEW d \in Clients, NEW b, WriteLock(d, b)
      PROVE  FALSE
  <2>1. pc'[c] = "return" => pc[c] = "return"
    BY Zenon, <1>0, <1>4 DEF WriteLock, Goto
  <2> QED
    BY Zenon, <1>2, <1>4, <2>1 DEF WriteLock
<1>5. ASSUME NEW d \in Clients, WriteStep(d) \/ Wake(d)
      PROVE  FALSE
  <2>1. pc[d] \in WriterSteps
    BY Zenon, <1>5 DEF WriteStep, Wake, RoomLeft, WaitForCompaction, SwitchMemtable,
       BuildWriteBatchGroup, InsertOne, FinishWrite, WriterSteps
  <2>2. rwlock_.owner # NULL
    BY Zenon, <2>1, ThreadAssumption DEF Locking
  <2>3. pc[c] = "return"
    BY ZenonT(30), <1>0, <1>5
    DEF WriteStep, Wake, RoomLeft, WaitForCompaction, SwitchMemtable,
       BuildWriteBatchGroup, InsertOne, FinishWrite, Goto
  <2> QED
    BY Zenon, <1>2, <2>2, <2>3
<1>6. CASE BackgroundStep
  <2>1. CASE BackgroundBegin
    BY Zenon, <1>2, <2>1 DEF BackgroundBegin, BackgroundFree
  <2>2. CASE ~BackgroundBegin
    <3>1. task[Background] # NULL /\ pc' = pc
      BY Zenon, <1>6, <2>2 DEF BackgroundStep, BackgroundEnd, BackgroundDelete,
         BackgroundNull, CompactStep, CompactPush, CompactRead, CompactKeys,
         CompactEnd, At
    <3>2. rwlock_.owner = Background /\ Background # NULL
      BY Zenon, <3>1, ThreadAssumption DEF Locking
    <3> QED
      BY Zenon, <1>2, <3>1, <3>2
  <2> QED
    BY Zenon, <2>1, <2>2
<1>8. CASE BackgroundNothing
  BY Zenon, <1>1, <1>8 DEF BackgroundNothing, storeVars
<1>9. CASE DestructorStep \/ RaceAborts
  BY Zenon, <1>9, ClosingStep DEF StoreInv, CompactionFresh
<1>10. ASSUME NEW d \in Clients, NEW k, GetLock(d, k)
       PROVE  e.seq <= result'[c].seq
  <2>1. c # d
    BY Zenon, <1>0, <1>10 DEF GetLock, Goto
  <2> QED
    BY Zenon, <1>0, <1>1, <1>10, <2>1 DEF GetLock, Goto, storeVars
<1>11. ASSUME NEW d \in Clients, GetReturn(d)
       PROVE  e.seq <= result'[c].seq
  <2>1. c # d
    BY Zenon, <1>0, <1>11 DEF GetReturn, Goto
  <2> QED
    BY Zenon, <1>0, <1>1, <1>11, <2>1 DEF GetReturn, Goto, storeVars
<1>12. ASSUME NEW d \in Clients, GetMemory(d)
       PROVE  e.seq <= result'[c].seq
  <2>1. UNCHANGED storeVars /\ lookup' = lookup
    BY Zenon, <1>12 DEF GetMemory, storeVars
  <2>2. CASE c # d
    BY Zenon, <1>0, <1>1, <1>12, <2>1, <2>2 DEF GetMemory, Goto
  <2>3. CASE c = d
    <3>1. result'[c] = MemoryGet(lookup[c])
      BY Zenon, <1>0, <1>12, <2>3 DEF GetMemory
    <3>2. e \in Stored /\ e \in Entry
      <4>1. e \in Stored
        BY Zenon, <2>1, SameStore
      <4>2. memtable_.entries \cup ImmutableEntries \subseteq Entry
        BY Zenon DEF ImmutableEntries, EntriesOf, TypeOK, Memtable
      <4>3. FileEntries \subseteq Entry
        BY Zenon, FileEntriesAre DEF InFile, TypeOK
      <4> QED
        BY Zenon, <4>1, <4>2, <4>3 DEF Stored
    <3>3. lookup[c] \in Keys
      BY Zenon, <2>1, <3>2 DEF Entry
    <3>4. c \in rwlock_.readers
      BY Zenon, <1>12, <2>3 DEF GetMemory, Locking, ReaderSteps
    <3>5. task[Background] = NULL
      BY Zenon, <3>4, ThreadAssumption DEF Locking
    <3> QED
      BY Zenon, <2>1, <3>1, <3>2, <3>3, <3>5, GetMemoryNewest
  <2> QED
    BY Zenon, <2>2, <2>3
<1>13. ASSUME NEW d \in Clients, GetDisk(d)
       PROVE  e.seq <= result'[c].seq
  <2>1. UNCHANGED storeVars /\ lookup' = lookup
    BY Zenon, <1>13 DEF GetDisk, storeVars
  <2>2. CASE c # d
    BY Zenon, <1>0, <1>1, <1>13, <2>1, <2>2 DEF GetDisk, Goto
  <2>3. CASE c = d
    <3>1. PICK dropped \in SUBSET DOMAIN file_metas_, i \in 0..Len(file_metas_) :
            LET stops == DiskStops(lookup[c], dropped)
            IN  /\ IF stops = {} THEN i = 0
                   ELSE i \in stops /\ \A j \in stops : i <= j
                /\ result' = [result EXCEPT ![c] =
                       IF i # 0 /\ Opens(file_metas_[i])
                       THEN InternalGet(file_metas_[i], lookup[c])
                       ELSE NotFound]
      BY Zenon, <1>13, <2>3 DEF GetDisk
    <3>2. i # 0 => i \in DOMAIN file_metas_
      BY Zenon, <3>1 DEF DiskStops
    <3>3. result'[c] = NotFound
      BY Zenon, <1>0, <3>1, <3>2, DiskFindsNothing
    <3> QED
      BY Zenon, <3>3
  <2> QED
    BY Zenon, <2>2, <2>3
<1> QED
  BY Zenon, <1>3, <1>4, <1>5, <1>6, <1>8, <1>9, <1>10, <1>11, <1>12, <1>13
  DEF Next, ReadStep

-----------------------------------------------------------------------------
(* Theorems on what is stored and on compaction threads *)

\* The inductive invariant holds after the constructor.
LEMMA InductiveInit ==
    ASSUME Init PROVE Inductive
PROOF
<1>1. memtable_.entries = {} /\ ImmutableEntries = {}
  BY Zenon DEF Init, NewMemtable, EntriesOf, ImmutableEntries
<1>2. DOMAIN file_metas_ = {}
  BY DEF Init
<1>3. FileEntries = {} /\ Stored = {}
  BY Zenon, <1>1, <1>2 DEF FileEntries, Stored
<1>4. Sequencing
  <2>1. insertion.number = 1 /\ Len(insertion.todo) = 0 /\ last_sequence_ = 1
    BY Zenon DEF Init
  <2>2. \A c \in Clients : pc[c] = "idle"
    BY Zenon DEF Init
  <2> QED
    BY <2>1, <2>2, BoundAssumption DEF Sequencing
<1>5. CompactionFresh
  BY Zenon, <1>2 DEF Init, CompactionFresh
<1>6. NoEntryLost
  <2>1. insertion.number = 1 /\ 2..1 = {}
    BY DEF Init
  <2> QED
    BY Zenon, <1>3, <2>1 DEF NoEntryLost, Seqs
<1>7. LayersOrdered /\ TablesIntact /\ ReadsNewest
  BY Zenon, <1>1, <1>2, <1>3 DEF LayersOrdered, TablesIntact, ReadsNewest
<1> QED
  BY Zenon, <1>1, <1>3, <1>4, <1>5, <1>6, <1>7, LockInit
  DEF Inductive, Retention, HasNewest

\* Every step keeps the inductive invariant.
LEMMA InductiveStep ==
    ASSUME TypeOK, Inductive, [Next]_vars
    PROVE  Inductive'
PROOF
<1>1. Locking'
  BY Zenon, LockStep DEF Inductive
<1>2. CASE proc' # "open"
  BY Zenon, <1>1, <1>2 DEF Inductive, Retention, NoEntryLost, LayersOrdered,
                    TablesIntact, ReadsNewest
<1>3. CASE proc' = "open"
  <2>1. proc = "open"
    BY Zenon, <1>3 DEF Next, vars, WriteLock, GetLock, WriteStep, ReadStep, Wake,
       BackgroundStep, BackgroundBegin, BackgroundEnd, BackgroundDelete,
       BackgroundNull, BackgroundNothing, CompactStep, CompactPush, CompactRead,
       CompactKeys, DestructorStep, DestructorLock, DestructorSwap,
       DestructorEnd, DestructorFree, DumpManifest, RaceAborts, objVars
  <2>2. Sequencing /\ StoreInv /\ ReadsNewest /\ Locking
    BY Zenon, <2>1 DEF Inductive, Retention, StoreInv
  <2>3. Sequencing' /\ StoreInv' /\ ReadsNewest'
    BY Zenon, <1>3, <2>1, <2>2, SequencingStep, StoreStep, ReadsStep
  <2> QED
    BY Zenon, <1>1, <2>3 DEF Inductive, Retention, StoreInv
<1> QED
  BY Zenon, <1>2, <1>3

\* The inductive invariant holds for all clients, batches, bounds and outcomes.
THEOREM InductiveHolds == Spec => []Inductive
PROOF
<1>1. Init => TypeOK /\ Inductive
  BY Zenon, TypeInit, InductiveInit
<1>2. Inductive => Locking
  BY Zenon DEF Inductive
<1>3. TypeOK /\ Inductive /\ [Next]_vars => (TypeOK /\ Inductive)'
  BY Zenon, <1>2, TypeStep, InductiveStep
<1> QED
  BY <1>1, <1>3, PTL DEF Spec

\* Rotation, compaction and failing compaction lose no entry of an open DBimpl.
THEOREM EntriesAreKept == Spec => []NoEntryLost
PROOF
<1>1. Inductive => NoEntryLost
  BY Zenon DEF Inductive
<1> QED
  BY <1>1, InductiveHolds, PTL

\* memtable_ is newer than immutable_memtable_, and both than the sstables.
THEOREM LayersStayOrdered == Spec => []LayersOrdered
PROOF
<1>1. Inductive => LayersOrdered
  BY Zenon DEF Inductive
<1> QED
  BY <1>1, InductiveHolds, PTL

\* No compaction overwrites or removes the file of another table.
THEOREM TablesStayIntact == Spec => []TablesIntact
PROOF
<1>1. Inductive => TablesIntact
  BY Zenon DEF Inductive
<1> QED
  BY <1>1, InductiveHolds, PTL

\* A Get that returns an entry returns the newest one of its key.
THEOREM ReadsReturnNewest == Spec => []ReadsNewest
PROOF
<1>1. Inductive => ReadsNewest
  BY Zenon DEF Inductive
<1> QED
  BY <1>1, InductiveHolds, PTL

\* Threads, memtables and FileMetas stay matched, through failing compactions and
\* through a destructor that runs beside a compaction thread.
THEOREM CompactingHolds == Spec => []Compacting
PROOF
<1>1. Inductive => Locking /\ TablesIntact
  BY Zenon DEF Inductive
<1>2. TypeOK /\ Inductive /\ Compacting /\ [Next]_vars => Compacting'
  BY Zenon, <1>1, CompactingStep
<1> QED
  BY <1>2, CompactingInit, TypeCorrect, InductiveHolds, PTL DEF Spec

\* There is at most one compaction thread, although MaybeScheduleCompaction never
\* sets its flag, and an immutable memtable is not left without one.
THEOREM OneCompactor == Spec => []ImmutableHasCompactor
PROOF
<1>1. Compacting => ImmutableHasCompactor
  BY Zenon DEF Compacting
<1> QED
  BY <1>1, CompactingHolds, PTL

\* The asserts and null dereferences of the database fail for the three reasons
\* that AbortsExplained lists and for no other, in every order of the unlocked
\* lines of ~DBimpl and of the compaction thread.
THEOREM AbortsHaveReasons == Spec => []AbortsExplained
PROOF
<1>1. Compacting => AbortsExplained
  BY Zenon DEF Compacting
<1> QED
  BY <1>1, CompactingHolds, PTL

=============================================================================
