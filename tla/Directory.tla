----------------------------- MODULE Directory ------------------------------
(***************************************************************************)
(* The lifetimes of a database directory: objects are constructed in it    *)
(* one after the other, write tables, and end in the destructor, in a      *)
(* failed assert or in a crash.  Only the destructor writes the manifest,  *)
(* and the next object takes its table numbers and sequence numbers from   *)
(* it.  Files are opened without O_TRUNC: a table with a number that is in *)
(* use overwrites the file of the other.                                   *)
(*                                                                         *)
(* DBImpl has the threads of one object.  Here its steps are whole calls;  *)
(* what a compaction thread and the destructor do to the files when they   *)
(* run beside each other, which nothing in the code prevents, is one step  *)
(* (DestroyBeside).  The manifest is torn from its first write, which      *)
(* changes the number of tables, to its last one.                          *)
(***************************************************************************)
EXTENDS Integers, Sequences

CONSTANTS
    Outcomes,           \* how BuildTable may end
    kManifestReserved,  \* size of the buffer for the manifest, in FileMetas
    MaxWrites           \* bound on the writes of all objects

ASSUME DirectoryAssumption ==
    /\ Outcomes \subseteq {"ok", "torn", "open", "write"}
    /\ kManifestReserved \in Nat /\ MaxWrites \in Nat

VARIABLES
    phase,          \* "down", "open", "dump", "opened", "header", "undefined"
    memtable_, immutable_memtable_,     \* their entries
    scheduled,      \* a compaction thread is to write immutable_memtable_
    file_metas_, sstable_number_, last_sequence_,
    disk,           \* number of a file -> entries of its table, {} if unsure
    manifest,       \* whether it can be read; what the last completed one says
    written,        \* number of writes so far: their identity
    first,          \* number of tables in the first manifest, 0 before
    cut             \* a DumpManifest did not complete

object == <<memtable_, immutable_memtable_, scheduled, file_metas_,
            sstable_number_, last_sequence_>>
vars == <<phase, object, disk, manifest, written, first, cut>>

Entry == [seq : Nat, id : Nat]
FileMeta ==
    [number : Nat, span : SUBSET Entry, built : BOOLEAN, alone : BOOLEAN]
Manifest == [state : {"none", "torn", "whole"}, metas : Seq(FileMeta), last : Nat]

\* Types of the directory and of the object in it.
TypeOK ==
    /\ phase \in {"down", "open", "dump", "opened", "header", "undefined"}
    /\ memtable_ \in SUBSET Entry /\ immutable_memtable_ \in SUBSET Entry
    /\ scheduled \in BOOLEAN /\ cut \in BOOLEAN
    /\ file_metas_ \in Seq(FileMeta)
    /\ sstable_number_ \in Nat /\ last_sequence_ \in Nat
    /\ DOMAIN disk \subseteq Nat /\ disk \in [DOMAIN disk -> SUBSET Entry]
    /\ manifest \in Manifest
    /\ written \in Nat /\ first \in Nat

Init ==
    /\ phase = "down"
    /\ memtable_ = {} /\ immutable_memtable_ = {} /\ scheduled = FALSE
    /\ file_metas_ = <<>> /\ sstable_number_ = 0 /\ last_sequence_ = 0
    /\ disk = [n \in {} |-> {}]
    /\ manifest = [state |-> "none", metas |-> <<>>, last |-> 0]
    /\ written = 0 /\ first = 0 /\ cut = FALSE

-----------------------------------------------------------------------------
(* The constructor *)

\* Wrong: the last byte of the buffer is not used.
Fits_Less(metas) == Len(metas) < kManifestReserved

\* ReadManifest reads up to sizeof(buf) at each call, wherever it has got to.
Fits(metas) == Len(metas) <= kManifestReserved

Construct(metas, number, last) ==
    /\ phase' = "open"
    /\ memtable_' = {} /\ immutable_memtable_' = {} /\ scheduled' = FALSE
    /\ file_metas_' = metas
    /\ sstable_number_' = number /\ last_sequence_' = last
    /\ UNCHANGED <<disk, manifest, written, first, cut>>

OpenEmpty == phase = "down" /\ manifest.state = "none" /\ Construct(<<>>, 1, 1)

\* Wrong: the sequence numbers start anew.
OpenManifest_Sequence ==
    /\ phase = "down" /\ manifest.state = "whole" /\ Fits(manifest.metas)
    /\ Construct(manifest.metas, Len(manifest.metas), 1)

\* Wrong: the number of the last table instead of their count.
OpenManifest_Last ==
    /\ phase = "down" /\ manifest.state = "whole" /\ Fits(manifest.metas)
    /\ Construct(manifest.metas, manifest.metas[Len(manifest.metas)].number,
                 manifest.last)

\* The next number is the count of the FileMetas read.
OpenManifest ==
    /\ phase = "down" /\ manifest.state = "whole" /\ Fits(manifest.metas)
    /\ Construct(manifest.metas, Len(manifest.metas), manifest.last)

\* Counts and lengths that were never written are read, or bytes past the end
\* of the buffer are written.
OpenGoesWrong ==
    /\ phase = "down" /\ manifest.state # "none"
    /\ manifest.state = "whole" => ~Fits(manifest.metas)
    /\ phase' = "undefined"
    /\ UNCHANGED <<object, disk, manifest, written, first, cut>>

-----------------------------------------------------------------------------
(* Write, with MakeRoomForWrite, and the compaction thread *)

\* A write makes one entry, with the sequence number after the last one.
Write ==
    /\ phase = "open" /\ written < MaxWrites
    /\ written' = written + 1
    /\ last_sequence_' = last_sequence_ + 1
    /\ memtable_' = memtable_ \cup {[seq |-> last_sequence_', id |-> written']}
    /\ UNCHANGED <<phase, immutable_memtable_, scheduled, file_metas_,
                   sstable_number_, disk, manifest, first, cut>>

Rotate ==
    /\ phase = "open" /\ memtable_ # {} /\ immutable_memtable_ = {}
    /\ immutable_memtable_' = memtable_ /\ memtable_' = {}
    /\ scheduled' = TRUE
    /\ UNCHANGED <<phase, file_metas_, sstable_number_, last_sequence_, disk,
                   manifest, written, first, cut>>

\* The disk with the entries S, or damage, in file number n.
Overwrite(n, S) ==
    [m \in DOMAIN disk \cup {n} |-> IF m = n THEN S ELSE disk[m]]

\* CompactMemtable of the entries S: the FileMeta is added first and stays; a
\* failed build removes the file, unless it could not open it; a build may
\* return OK although its last write has failed.  built: the file is complete;
\* alone: no other CompactMemtable ran beside this one.
CompactMemtable(S, outcome) ==
    LET ok == outcome \in {"ok", "torn"}
    IN  /\ file_metas_' = Append(file_metas_,
               [number |-> sstable_number_, built |-> outcome = "ok", alone |-> TRUE,
                span |-> IF outcome = "open" THEN {} ELSE S])
        /\ sstable_number_' = IF ok THEN sstable_number_ + 1 ELSE sstable_number_
        /\ disk' = CASE outcome = "ok" -> Overwrite(sstable_number_, S)
                     [] outcome = "torn" -> Overwrite(sstable_number_, {})
                     [] outcome = "write" ->
                            [n \in DOMAIN disk \ {sstable_number_} |-> disk[n]]
                     [] OTHER -> disk

\* After a failure the immutable memtable stays and has no thread.
Compact(outcome) ==
    /\ phase = "open" /\ scheduled
    /\ CompactMemtable(immutable_memtable_, outcome)
    /\ scheduled' = FALSE
    /\ immutable_memtable_' = IF outcome \in {"ok", "torn"} THEN {}
                              ELSE immutable_memtable_
    /\ UNCHANGED <<phase, memtable_, last_sequence_, manifest, written, first,
                   cut>>

-----------------------------------------------------------------------------
(* The destructor *)

\* The compaction thread, if there is one, does not come to run any more: the
\* immutable memtable is dropped, written or not.
Destroy(outcome) ==
    /\ phase = "open" /\ memtable_ # {}
    /\ CompactMemtable(memtable_, outcome)
    /\ immutable_memtable_' = {} /\ memtable_' = {} /\ scheduled' = FALSE
    /\ phase' = "dump"
    /\ UNCHANGED <<last_sequence_, manifest, written, first, cut>>

\* What the FileMetas of two CompactMemtables that run at once may say: both
\* threads read and change sstable_number_ and immutable_memtable_, and a
\* FileMeta has neither number nor keys before its thread has set them.
Unsure ==
    {[number |-> n, span |-> S, built |-> S # {}, alone |-> FALSE] :
        n \in {0, sstable_number_, sstable_number_ + 1},
        S \in {{}, immutable_memtable_, memtable_}}

\* The compaction thread runs while the destructor, which does not wait for it
\* and holds no lock, compacts the memtable: one or both add a FileMeta before
\* the manifest is written, and both may write the same file.
DestroyBeside ==
    /\ phase = "open" /\ memtable_ # {} /\ scheduled
    /\ \E a, b \in Unsure :
           file_metas_' \in {Append(file_metas_, a),
                             Append(Append(file_metas_, a), b)}
    /\ sstable_number_' \in sstable_number_..(sstable_number_ + 2)
    /\ disk' = [n \in DOMAIN disk \cup {sstable_number_, sstable_number_ + 1} |->
                   IF n \in {sstable_number_, sstable_number_ + 1} THEN {}
                   ELSE disk[n]]
    /\ immutable_memtable_' = {} /\ memtable_' = {} /\ scheduled' = FALSE
    /\ phase' = "dump"
    /\ UNCHANGED <<last_sequence_, manifest, written, first, cut>>

\* An empty memtable fails an assert in BuildTable.
DestroyAborts ==
    /\ phase = "open" /\ memtable_ = {}
    /\ phase' = "down"
    /\ UNCHANGED <<object, disk, manifest, written, first, cut>>

\* ::open creates a manifest, and leaves an old one as it is.
DumpOpen ==
    /\ phase = "dump"
    /\ phase' = "opened"
    /\ IF manifest.state = "none"
       THEN /\ manifest' = [manifest EXCEPT !.state = "torn"]
            /\ first' = Len(file_metas_)
       ELSE UNCHANGED <<manifest, first>>
    /\ UNCHANGED <<object, disk, written, cut>>

\* The counts are written and flushed.
DumpHeader ==
    /\ phase = "opened"
    /\ manifest' = [manifest EXCEPT !.state = "torn"] /\ phase' = "header"
    /\ UNCHANGED <<object, disk, written, first, cut>>

\* Wrong: the tables of this object only.
DumpMetas_New ==
    /\ phase = "header"
    /\ \A i \in DOMAIN file_metas_ : file_metas_[i].span # {}
    /\ manifest' = [state |-> "whole", last |-> last_sequence_,
                    metas |-> SubSeq(file_metas_, Len(manifest.metas) + 1,
                                     Len(file_metas_))]
    /\ phase' = "down"
    /\ UNCHANGED <<object, disk, written, first, cut>>

\* Each FileMeta is written and flushed, over those of the old manifest.
DumpMetas ==
    /\ phase = "header"
    /\ \A i \in DOMAIN file_metas_ : file_metas_[i].span # {}
    /\ manifest' = [state |-> "whole", metas |-> file_metas_,
                    last |-> last_sequence_]
    /\ phase' = "down"
    /\ UNCHANGED <<object, disk, written, first, cut>>

\* PrintFileMeta throws at a FileMeta without keys, or writes fail, all or some,
\* which DumpManifest does not notice.
DumpFails ==
    /\ phase \in {"opened", "header"}
    /\ manifest' \in {manifest, [manifest EXCEPT !.state = "torn"]}
    /\ phase' = "down" /\ cut' = TRUE
    /\ UNCHANGED <<object, disk, written, first>>

-----------------------------------------------------------------------------

\* There is an object.
Opened == phase \in {"open", "dump", "opened", "header"}

\* The process is killed: the object is lost, the files stay as they are.
Crash ==
    /\ Opened
    /\ phase' = "down"
    /\ cut' = (cut \/ phase \in {"opened", "header"})
    /\ UNCHANGED <<object, disk, manifest, written, first>>

\* The same while BuildTable, on either thread, writes its file.
CrashInBuild ==
    /\ phase = "open" /\ (scheduled \/ memtable_ # {})
    /\ phase' = "down"
    /\ disk' = Overwrite(sstable_number_, {})
    /\ UNCHANGED <<object, manifest, written, first, cut>>

Next ==
    \/ OpenEmpty \/ OpenManifest \/ OpenGoesWrong
    \/ Write \/ Rotate \/ (\E o \in Outcomes : Compact(o) \/ Destroy(o))
    \/ DestroyBeside \/ DestroyAborts \/ DumpOpen \/ DumpHeader \/ DumpMetas \/ DumpFails
    \/ Crash \/ CrashInBuild

Spec == Init /\ [][Next]_vars

-----------------------------------------------------------------------------
(* Properties *)

Whole == manifest.state = "whole"

Intact(meta) ==
    meta.built /\ meta.number \in DOMAIN disk /\ disk[meta.number] = meta.span

\* The tables that the next object will find, or that the present one knows.
Listed ==
    (IF Whole THEN {manifest.metas[i] : i \in DOMAIN manifest.metas \ {first}}
     ELSE {}) \cup
    (IF Opened THEN {file_metas_[i] : i \in DOMAIN file_metas_ \ {first}} ELSE {})

\* Restarts, failed builds and crashes, even in the middle of a table, never
\* harm a table that was built and that the manifest or the object lists: the
\* number of a new table is free.  There are two exceptions: the last table of
\* the first manifest, whose number the second object uses again, and the tables
\* that a compaction thread and ~DBimpl built beside each other.  Even then all
\* the other tables stay as they are.
TablesSurvive ==
    \A meta \in Listed : meta.built /\ meta.alone => Intact(meta)

\* Of an object's own sequence numbers and those it found, no two entries that
\* can be read have the same one, whatever a crash has left in the directory.
SequencesUnique ==
    phase = "open" =>
        LET held == memtable_ \cup immutable_memtable_ \cup
                    UNION {meta.span : meta \in {m \in Listed : m.built}}
        IN  \A e, f \in held : e.seq = f.seq => e = f

\* A directory fails to open only after a DumpManifest that did not complete,
\* or with more tables than the buffer has room for; a crash at any other time
\* leaves a manifest that can be read.
OpensUnlessCut ==
    phase = "undefined" =>
        cut \/ (Whole /\ Len(manifest.metas) > kManifestReserved)

\* A manifest is replaced only by one that lists the same tables and more.
ManifestGrows ==
    [][\A i \in DOMAIN manifest.metas :
           /\ i \in DOMAIN manifest'.metas
           /\ manifest'.metas[i] = manifest.metas[i]]_vars

-----------------------------------------------------------------------------
(* The inductive invariant of the proofs *)

\* The i-th table, built alone, has a number of at most i, and a smaller one if
\* it was added after the first manifest.
Numbers(metas) ==
    \A i \in {j \in DOMAIN metas : metas[j].alone} :
        /\ metas[i].number <= i
        /\ first # 0 /\ i > first => metas[i].number < i

\* How numbers are handed out: an object starts at the count of the tables it
\* finds, and each table it adds takes at most one number.
Numbering ==
    /\ manifest.state = "none" => first = 0 /\ manifest.metas = <<>>
    /\ Whole => Numbers(manifest.metas) /\ first \in 1..Len(manifest.metas)
    /\ Opened =>
           /\ Numbers(file_metas_)
           /\ \A i \in DOMAIN manifest.metas :
                  i \in DOMAIN file_metas_ /\ file_metas_[i] = manifest.metas[i]
    /\ phase = "open" =>
           /\ manifest.state # "torn"
           /\ Len(manifest.metas) <= sstable_number_
           /\ sstable_number_ <= Len(file_metas_) + (IF first = 0 THEN 1 ELSE 0)
           /\ \A i \in DOMAIN file_metas_ :
                  i > Len(manifest.metas) /\ file_metas_[i].built =>
                      file_metas_[i].number < sstable_number_
    /\ phase \in {"dump", "opened", "header"} => Len(file_metas_) >= 1
    /\ phase = "dump" => manifest.state # "torn"
    /\ phase \in {"opened", "header"} => first \in 1..Len(file_metas_)
    /\ manifest.state = "torn" => cut \/ phase \in {"opened", "header"}

\* The entries of the tables, complete or not.
Spans(metas) == UNION {metas[i].span : i \in DOMAIN metas}

\* Each sequence number up to last has at most one entry in S.
Distinct(S, last) ==
    /\ \A e \in S : e.seq <= last
    /\ \A e, f \in S : e.seq = f.seq => e = f

Sequencing ==
    /\ Distinct(Spans(manifest.metas), manifest.last)
    /\ Opened => Distinct(memtable_ \cup immutable_memtable_ \cup
                             Spans(file_metas_), last_sequence_)

Inductive == Numbering /\ Sequencing /\ TablesSurvive

=============================================================================
