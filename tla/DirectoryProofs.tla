-------------------------- MODULE DirectoryProofs ---------------------------
(***************************************************************************)
(* Proofs about Directory, for any number of lifetimes and tables: the     *)
(* number of a new table is free, so that listed tables survive, sequence  *)
(* numbers stay unique, and the manifest only grows.                       *)
(***************************************************************************)
EXTENDS Directory, TLAPS

-----------------------------------------------------------------------------
(* Facts about the operators *)

\* What CompactMemtable's push_back does to file_metas_.
LEMMA AppendFacts ==
    ASSUME NEW S, NEW s \in Seq(S), NEW m \in S
    PROVE  /\ Append(s, m) \in Seq(S)
           /\ Len(Append(s, m)) = Len(s) + 1
           /\ DOMAIN s = 1..Len(s) /\ Len(s) \in Nat
           /\ DOMAIN Append(s, m) = 1..(Len(s) + 1)
           /\ \A i \in 1..Len(s) : Append(s, m)[i] = s[i]
           /\ Append(s, m)[Len(s) + 1] = m
  OBVIOUS

\* A FileMeta, and what CompactMemtable does with it, is well typed.
LEMMA CompactTyped ==
    ASSUME TypeOK, NEW S \in SUBSET Entry, NEW o \in Outcomes,
           CompactMemtable(S, o)
    PROVE  /\ file_metas_' \in Seq(FileMeta) /\ sstable_number_' \in Nat
           /\ DOMAIN disk' \subseteq Nat
           /\ disk' \in [DOMAIN disk' -> SUBSET Entry]
  <1> DEFINE m == [number |-> sstable_number_, built |-> o = "ok", alone |-> TRUE,
                   span |-> IF o = "open" THEN {} ELSE S]
  <1>1. m \in FileMeta
    BY DEF TypeOK, FileMeta
  <1>2. file_metas_' \in Seq(FileMeta)
    BY <1>1, AppendFacts DEF CompactMemtable, TypeOK
  <1>3. sstable_number_' \in Nat
    BY DEF CompactMemtable, TypeOK
  <1>4. /\ DOMAIN disk' \subseteq Nat
        /\ disk' \in [DOMAIN disk' -> SUBSET Entry]
    <2>1. CASE o = "ok"
      BY <2>1 DEF CompactMemtable, Overwrite, TypeOK
    <2>2. CASE o = "torn"
      BY <2>2 DEF CompactMemtable, Overwrite, TypeOK
    <2>3. CASE o = "write"
      BY <2>3 DEF CompactMemtable, TypeOK
    <2>4. CASE o \notin {"ok", "torn", "write"}
      BY <2>4 DEF CompactMemtable, TypeOK
    <2> QED
      BY <2>1, <2>2, <2>3, <2>4
  <1> QED
    BY <1>2, <1>3, <1>4

\* What the destructor and a compaction thread beside it add to file_metas_: one
\* FileMeta or two, that were not built alone, of entries in memory.
LEMMA BesideMetas ==
    ASSUME TypeOK, DestroyBeside
    PROVE  /\ file_metas_' \in Seq(FileMeta) /\ Len(file_metas_) \in Nat
           /\ DOMAIN file_metas_ = 1..Len(file_metas_)
           /\ \A i \in DOMAIN file_metas_ :
                  i \in DOMAIN file_metas_' /\ file_metas_'[i] = file_metas_[i]
           /\ Len(file_metas_') >= 1
           /\ \A i \in DOMAIN file_metas_' :
                  \/ i \in DOMAIN file_metas_
                  \/ /\ ~file_metas_'[i].alone
                     /\ file_metas_'[i].span \subseteq
                           memtable_ \cup immutable_memtable_
  <1> DEFINE New(m) == /\ m \in FileMeta /\ ~m.alone
                       /\ m.span \subseteq memtable_ \cup immutable_memtable_
  <1>1. ASSUME NEW m \in Unsure PROVE New(m)
    <2>1. PICK n \in {0, sstable_number_, sstable_number_ + 1},
               S \in {{}, immutable_memtable_, memtable_} :
              m = [number |-> n, span |-> S, built |-> S # {}, alone |-> FALSE]
      BY <1>1 DEF Unsure
    <2>2. n \in Nat
      BY <2>1 DEF TypeOK
    <2>3. /\ S \in SUBSET Entry /\ S \subseteq memtable_ \cup immutable_memtable_
          /\ (S # {}) \in BOOLEAN
      BY Zenon, <2>1 DEF TypeOK
    <2> QED
      BY Zenon, <2>1, <2>2, <2>3 DEF FileMeta
  <1>2. PICK x \in Unsure, y \in Unsure :
            file_metas_' \in {Append(file_metas_, x),
                              Append(Append(file_metas_, x), y)}
    BY Zenon DEF DestroyBeside
  <1>3. New(x) /\ New(y) /\ file_metas_ \in Seq(FileMeta)
    BY Zenon, <1>1, <1>2 DEF TypeOK
  <1> DEFINE s == Append(file_metas_, x)
             n == Len(file_metas_)
  <1>4. /\ s \in Seq(FileMeta) /\ Len(s) = n + 1 /\ n \in Nat
        /\ DOMAIN file_metas_ = 1..n /\ DOMAIN s = 1..(n + 1)
        /\ \A i \in 1..n : s[i] = file_metas_[i]
        /\ s[n + 1] = x
    BY <1>3, AppendFacts
  <1>5. CASE file_metas_' = s
    <2> HIDE DEF s, n, New
    <2>1. \A i \in 1..(n + 1) : i \in 1..n \/ i = n + 1
      BY <1>4
    <2>2. /\ Len(file_metas_') >= 1 /\ \A i \in 1..n : i \in 1..(n + 1)
      BY <1>4, <1>5
    <2> QED
      BY Zenon, <1>3, <1>4, <1>5, <2>1, <2>2 DEF n, New
  <1>6. CASE file_metas_' = Append(s, y)
    <2>1. /\ Append(s, y) \in Seq(FileMeta) /\ Len(Append(s, y)) = Len(s) + 1
          /\ DOMAIN Append(s, y) = 1..(Len(s) + 1)
          /\ \A i \in 1..Len(s) : Append(s, y)[i] = s[i]
          /\ Append(s, y)[Len(s) + 1] = y
      <3> HIDE DEF s
      <3> QED
        BY <1>3, <1>4, AppendFacts
    <2> HIDE DEF s, n, New
    <2>2. /\ file_metas_' \in Seq(FileMeta) /\ DOMAIN file_metas_' = 1..(n + 2)
          /\ Len(file_metas_') >= 1
          /\ \A i \in 1..n : file_metas_'[i] = file_metas_[i]
          /\ file_metas_'[n + 1] = x /\ file_metas_'[n + 2] = y
      BY <1>4, <1>6, <2>1
    <2>3. /\ \A i \in 1..(n + 2) : i \in 1..n \/ i = n + 1 \/ i = n + 2
          /\ \A i \in 1..n : i \in 1..(n + 2)
      BY <1>4
    <2> QED
      BY Zenon, <1>3, <1>4, <2>2, <2>3 DEF n, New
  <1> QED
    BY Zenon, <1>2, <1>5, <1>6

-----------------------------------------------------------------------------
(* Types *)

\* An empty directory is well typed.
LEMMA TypeInit == Init => TypeOK
  <1> SUFFICES ASSUME Init PROVE TypeOK
    OBVIOUS
  <1>1. <<>> \in Seq(FileMeta)
    OBVIOUS
  <1>2. manifest \in Manifest
    BY <1>1 DEF Init, Manifest
  <1>3. DOMAIN disk \subseteq Nat /\ disk \in [DOMAIN disk -> SUBSET Entry]
    BY DEF Init
  <1> QED
    BY Zenon, <1>1, <1>2, <1>3 DEF Init, TypeOK

\* Every step of the directory and of the object in it keeps TypeOK.
LEMMA TypeNext == TypeOK /\ [Next]_vars => TypeOK'
  <1> SUFFICES ASSUME TypeOK, [Next]_vars PROVE TypeOK'
    OBVIOUS
  <1>1. CASE OpenEmpty
    <2>1. <<>> \in Seq(FileMeta)
      OBVIOUS
    <2> QED
      BY Zenon, <1>1, <2>1 DEF OpenEmpty, Construct, TypeOK
  <1>2. CASE OpenManifest
    <2>1. manifest.metas \in Seq(FileMeta) /\ manifest.last \in Nat
      BY DEF TypeOK, Manifest
    <2>2. Len(manifest.metas) \in Nat
      BY <2>1
    <2> QED
      BY Zenon, <1>2, <2>1, <2>2 DEF OpenManifest, Construct, TypeOK
  <1>3. CASE OpenGoesWrong
    BY <1>3 DEF OpenGoesWrong, TypeOK, object
  <1>4. CASE Write
    <2>1. [seq |-> last_sequence_', id |-> written'] \in Entry
      BY <1>4 DEF Write, TypeOK, Entry
    <2> QED
      BY <1>4, <2>1 DEF Write, TypeOK
  <1>5. CASE Rotate
    BY <1>5 DEF Rotate, TypeOK
  <1>6. ASSUME NEW o \in Outcomes, Compact(o) PROVE TypeOK'
    <2>1. CompactMemtable(immutable_memtable_, o)
      BY <1>6 DEF Compact
    <2>2. immutable_memtable_ \in SUBSET Entry
      BY DEF TypeOK
    <2>3. /\ file_metas_' \in Seq(FileMeta) /\ sstable_number_' \in Nat
          /\ DOMAIN disk' \subseteq Nat
          /\ disk' \in [DOMAIN disk' -> SUBSET Entry]
      BY <2>1, <2>2, CompactTyped
    <2> QED
      BY Zenon, <1>6, <2>3 DEF Compact, TypeOK
  <1>7. ASSUME NEW o \in Outcomes, Destroy(o) PROVE TypeOK'
    <2>1. CompactMemtable(memtable_, o)
      BY <1>7 DEF Destroy
    <2>2. memtable_ \in SUBSET Entry
      BY DEF TypeOK
    <2>3. /\ file_metas_' \in Seq(FileMeta) /\ sstable_number_' \in Nat
          /\ DOMAIN disk' \subseteq Nat
          /\ disk' \in [DOMAIN disk' -> SUBSET Entry]
      BY <2>1, <2>2, CompactTyped
    <2> QED
      BY Zenon, <1>7, <2>3 DEF Destroy, TypeOK
  <1>8. CASE DestroyAborts
    BY <1>8 DEF DestroyAborts, TypeOK, object
  <1>9. CASE DumpOpen
    BY <1>9 DEF DumpOpen, TypeOK, object, Manifest
  <1>10. CASE DumpHeader
    BY <1>10 DEF DumpHeader, TypeOK, object, Manifest
  <1>11. CASE DumpMetas
    BY <1>11 DEF DumpMetas, TypeOK, object, Manifest
  <1>12. CASE DumpFails
    BY <1>12 DEF DumpFails, TypeOK, object, Manifest
  <1>13. CASE Crash
    BY <1>13 DEF Crash, TypeOK, object
  <1>14. CASE CrashInBuild
    BY <1>14 DEF CrashInBuild, Overwrite, TypeOK, object
  <1>15. CASE UNCHANGED vars
    BY <1>15 DEF vars, object, TypeOK
  <1>16. CASE DestroyBeside
    <2>1. sstable_number_' \in Nat
      BY <1>16 DEF DestroyBeside, TypeOK
    <2>2. DOMAIN disk' \subseteq Nat /\ disk' \in [DOMAIN disk' -> SUBSET Entry]
      <3>1. sstable_number_ + 1 \in Nat /\ sstable_number_ \in Nat
        BY DEF TypeOK
      <3> QED
        BY Zenon, <1>16, <3>1 DEF DestroyBeside, TypeOK
    <2> QED
      BY Zenon, <1>16, <2>1, <2>2, BesideMetas DEF DestroyBeside, TypeOK
  <1> QED
    BY <1>1, <1>2, <1>3, <1>4, <1>5, <1>6, <1>7, <1>8, <1>9, <1>10, <1>11,
       <1>12, <1>13, <1>14, <1>15, <1>16 DEF Next

\* The directory and the object in it keep their types.
THEOREM DirectoryTyped == Spec => []TypeOK
  BY TypeInit, TypeNext, PTL DEF Spec

-----------------------------------------------------------------------------
(* Numbers of tables *)

\* The parts of the manifest have their types.
LEMMA ManifestTyped ==
    ASSUME TypeOK
    PROVE  /\ manifest.metas \in Seq(FileMeta) /\ manifest.last \in Nat
           /\ Len(manifest.metas) \in Nat
           /\ DOMAIN manifest.metas = 1..Len(manifest.metas)
           /\ Len(file_metas_) \in Nat
           /\ DOMAIN file_metas_ = 1..Len(file_metas_)
           /\ \A i \in DOMAIN manifest.metas : manifest.metas[i] \in FileMeta
           /\ \A i \in DOMAIN file_metas_ : file_metas_[i] \in FileMeta
  <1>1. manifest.metas \in Seq(FileMeta) /\ manifest.last \in Nat
    BY DEF TypeOK, Manifest
  <1>2. file_metas_ \in Seq(FileMeta)
    BY DEF TypeOK
  <1> QED
    BY <1>1, <1>2

\* CompactMemtable appends one FileMeta and keeps the bounds on numbers.
LEMMA CompactNumbers ==
    ASSUME TypeOK, Numbering, phase = "open", NEW S \in SUBSET Entry,
           NEW o \in Outcomes, CompactMemtable(S, o), UNCHANGED <<manifest, first>>
    PROVE  /\ Numbers(file_metas_)'
           /\ Len(file_metas_') = Len(file_metas_) + 1
           /\ \A i \in DOMAIN manifest.metas :
                  i \in DOMAIN file_metas_' /\ file_metas_'[i] = manifest.metas[i]
           /\ Len(manifest.metas) <= sstable_number_'
           /\ sstable_number_' <= Len(file_metas_') + (IF first = 0 THEN 1 ELSE 0)
           /\ \A i \in DOMAIN file_metas_' :
                  i > Len(manifest.metas) /\ file_metas_'[i].built =>
                      file_metas_'[i].number < sstable_number_'
  <1> DEFINE m == [number |-> sstable_number_, built |-> o = "ok", alone |-> TRUE,
                   span |-> IF o = "open" THEN {} ELSE S]
             n == Len(file_metas_)
  <1>1. m \in FileMeta
    BY DEF TypeOK, FileMeta
  <1>2. file_metas_' = Append(file_metas_, m)
    BY DEF CompactMemtable
  <1>3. /\ Len(file_metas_') = n + 1 /\ n \in Nat
        /\ DOMAIN file_metas_ = 1..n /\ DOMAIN file_metas_' = 1..(n + 1)
        /\ \A i \in 1..n : file_metas_'[i] = file_metas_[i]
        /\ file_metas_'[n + 1] = m
    BY <1>1, <1>2, AppendFacts DEF TypeOK
  <1>4. /\ m.number = sstable_number_ /\ (m.built => o = "ok")
        /\ sstable_number_' = IF o \in {"ok", "torn"} THEN sstable_number_ + 1
                              ELSE sstable_number_
    BY Zenon DEF CompactMemtable
  <1>5. /\ Numbers(file_metas_)
        /\ \A i \in DOMAIN manifest.metas :
               i \in DOMAIN file_metas_ /\ file_metas_[i] = manifest.metas[i]
        /\ Len(manifest.metas) <= sstable_number_
        /\ sstable_number_ <= n + (IF first = 0 THEN 1 ELSE 0)
        /\ \A i \in DOMAIN file_metas_ :
               i > Len(manifest.metas) /\ file_metas_[i].built =>
                   file_metas_[i].number < sstable_number_
    BY DEF Numbering, Opened
  <1>6. sstable_number_ \in Nat /\ first \in Nat /\ Len(manifest.metas) \in Nat
    BY ManifestTyped DEF TypeOK
  <1>7. \A i \in 1..n : file_metas_[i].number \in Nat
    BY <1>3, ManifestTyped DEF FileMeta
  <1> HIDE DEF m, n
  <1>8. Numbers(file_metas_)'
    BY <1>3, <1>4, <1>5, <1>6 DEF Numbers
  <1>9. \A i \in DOMAIN file_metas_' :
            i > Len(manifest.metas) /\ file_metas_'[i].built =>
                file_metas_'[i].number < sstable_number_'
    <2> SUFFICES ASSUME NEW i \in 1..(n + 1), i > Len(manifest.metas),
                        file_metas_'[i].built
                 PROVE  file_metas_'[i].number < sstable_number_'
      BY <1>3
    <2>1. CASE i = n + 1
      BY <2>1, <1>3, <1>4, <1>6
    <2>2. CASE i \in 1..n
      <3>1. file_metas_[i].number < sstable_number_
        BY <2>2, <1>3, <1>5
      <3> QED
        BY <2>2, <3>1, <1>3, <1>4, <1>6, <1>7
    <2> QED
      BY <2>1, <2>2, <1>3
  <1>10. \A i \in DOMAIN manifest.metas :
            i \in DOMAIN file_metas_' /\ file_metas_'[i] = manifest.metas[i]
    BY <1>3, <1>5
  <1>11. /\ Len(manifest.metas) <= sstable_number_'
         /\ sstable_number_' <= Len(file_metas_') + (IF first = 0 THEN 1 ELSE 0)
    BY <1>3, <1>4, <1>5, <1>6
  <1> QED
    BY <1>3, <1>8, <1>9, <1>10, <1>11 DEF n

\* Every step keeps Numbering.
LEMMA NumberingNext ==
    ASSUME TypeOK, Numbering, [Next]_vars
    PROVE  Numbering'
  <1>1. CASE OpenEmpty
    BY <1>1 DEF OpenEmpty, Construct, Numbering, Numbers, Whole, Opened
  <1>2. CASE OpenManifest
    <2>1. /\ phase' = "open" /\ manifest.state = "whole"
          /\ file_metas_' = manifest.metas /\ sstable_number_' = Len(manifest.metas)
          /\ UNCHANGED <<manifest, first, cut>>
      BY <1>2 DEF OpenManifest, Construct
    <2>2. Numbers(manifest.metas) /\ first \in 1..Len(manifest.metas)
      BY <2>1 DEF Numbering, Whole
    <2>3. Numbers(manifest.metas)' /\ Numbers(file_metas_)'
      BY <2>1, <2>2 DEF Numbers
    <2>4. /\ Len(manifest.metas') <= sstable_number_'
          /\ sstable_number_' <= Len(file_metas_') + (IF first' = 0 THEN 1 ELSE 0)
          /\ \A i \in DOMAIN file_metas_' : ~ (i > Len(manifest.metas'))
      <3>1. /\ Len(manifest.metas) \in Nat
            /\ DOMAIN manifest.metas = 1..Len(manifest.metas)
        BY ManifestTyped
      <3>2. first' # 0 /\ manifest' = manifest
        BY <2>1, <2>2
      <3> QED
        BY <2>1, <3>1, <3>2
    <2>5. \A i \in DOMAIN manifest.metas' :
              i \in DOMAIN file_metas_' /\ file_metas_'[i] = manifest.metas'[i]
      BY <2>1
    <2> QED
      BY Zenon, <2>1, <2>2, <2>3, <2>4, <2>5 DEF Numbering, Whole, Opened
  <1>3. CASE OpenGoesWrong
    BY <1>3 DEF OpenGoesWrong, object, Numbering, Numbers, Whole, Opened
  <1>4. CASE Write
    BY <1>4 DEF Write, Numbering, Numbers, Whole, Opened
  <1>5. CASE Rotate
    BY <1>5 DEF Rotate, Numbering, Numbers, Whole, Opened
  <1>6. ASSUME NEW o \in Outcomes, Compact(o) PROVE Numbering'
    <2>1. immutable_memtable_ \in SUBSET Entry
      BY DEF TypeOK
    <2>2. /\ CompactMemtable(immutable_memtable_, o) /\ phase = "open"
          /\ phase' = "open" /\ UNCHANGED <<manifest, first, cut>>
      BY <1>6 DEF Compact
    <2> QED
      BY <2>1, <2>2, CompactNumbers DEF Numbering, Numbers, Whole, Opened
  <1>7. ASSUME NEW o \in Outcomes, Destroy(o) PROVE Numbering'
    <2>1. memtable_ \in SUBSET Entry /\ Len(file_metas_) \in Nat
      BY ManifestTyped DEF TypeOK
    <2>2. /\ CompactMemtable(memtable_, o) /\ phase = "open"
          /\ phase' = "dump" /\ UNCHANGED <<manifest, first, cut>>
      BY <1>7 DEF Destroy
    <2>3. Numbers(manifest.metas)' <=> Numbers(manifest.metas)
      BY <2>2 DEF Numbers
    <2>4. /\ Numbers(file_metas_)' /\ Len(file_metas_') >= 1
          /\ \A i \in DOMAIN manifest.metas :
                 i \in DOMAIN file_metas_' /\ file_metas_'[i] = manifest.metas[i]
      BY <2>1, <2>2, CompactNumbers
    <2> QED
      BY <2>2, <2>3, <2>4 DEF Numbering, Whole, Opened
  <1>8. CASE DestroyAborts
    BY <1>8 DEF DestroyAborts, object, Numbering, Numbers, Whole, Opened
  <1>9. CASE DumpOpen
    BY <1>9, ManifestTyped
    DEF DumpOpen, object, Numbering, Numbers, Whole, Opened, TypeOK, Manifest
  <1>10. CASE DumpHeader
    BY <1>10, ManifestTyped
    DEF DumpHeader, object, Numbering, Numbers, Whole, Opened, TypeOK, Manifest
  <1>11. CASE DumpMetas
    BY <1>11, ManifestTyped
    DEF DumpMetas, object, Numbering, Numbers, Whole, Opened
  <1>12. CASE DumpFails
    BY <1>12, ManifestTyped
    DEF DumpFails, object, Numbering, Numbers, Whole, Opened, TypeOK, Manifest
  <1>13. CASE Crash
    BY Zenon, <1>13 DEF Crash, object, Numbering, Numbers, Whole, Opened
  <1>14. CASE CrashInBuild
    BY <1>14 DEF CrashInBuild, object, Numbering, Numbers, Whole, Opened
  <1>15. CASE UNCHANGED vars
    BY <1>15 DEF vars, object, Numbering, Numbers, Whole, Opened
  <1>16. CASE DestroyBeside
    <2>1. phase = "open" /\ phase' = "dump" /\ UNCHANGED <<manifest, first, cut>>
      BY Zenon, <1>16 DEF DestroyBeside
    <2>2. Numbers(manifest.metas)' <=> Numbers(manifest.metas)
      BY Zenon, <2>1 DEF Numbers
    <2>3. Numbers(file_metas_)'
      BY Zenon, <1>16, <2>1, BesideMetas DEF Numbering, Opened, Numbers
    <2>4. \A i \in DOMAIN manifest.metas :
              i \in DOMAIN file_metas_' /\ file_metas_'[i] = manifest.metas[i]
      BY Zenon, <1>16, <2>1, BesideMetas DEF Numbering, Opened
    <2> QED
      BY Zenon, <1>16, <2>1, <2>2, <2>3, <2>4, BesideMetas DEF Numbering, Whole, Opened
  <1> QED
    BY <1>1, <1>2, <1>3, <1>4, <1>5, <1>6, <1>7, <1>8, <1>9, <1>10, <1>11,
       <1>12, <1>13, <1>14, <1>15, <1>16 DEF Next

-----------------------------------------------------------------------------
(* Tables *)

\* The number that CompactMemtable gives to a file, and the next one, is not that
\* of a complete table that the manifest or the object lists.
LEMMA NumberFree ==
    ASSUME TypeOK, Numbering, phase = "open", NEW meta \in Listed, meta.built,
           meta.alone
    PROVE  meta.number # sstable_number_ /\ meta.number # sstable_number_ + 1
  <1> DEFINE c == Len(manifest.metas)
  <1>1. /\ sstable_number_ \in Nat /\ first \in Nat /\ c \in Nat
        /\ DOMAIN manifest.metas = 1..c
        /\ DOMAIN file_metas_ \subseteq Nat
        /\ \A i \in DOMAIN manifest.metas : manifest.metas[i].number \in Nat
        /\ \A i \in DOMAIN file_metas_ : file_metas_[i].number \in Nat
    BY ManifestTyped DEF TypeOK, FileMeta
  <1>2. c <= sstable_number_
    BY DEF Numbering
  <1>3. ASSUME NEW i \in DOMAIN manifest.metas, i # first, manifest.metas[i].alone
        PROVE  /\ manifest.metas[i].number # sstable_number_
               /\ manifest.metas[i].number # sstable_number_ + 1
    <2>1. c # 0
      BY <1>1
    <2>2. manifest.state = "whole"
      <3>1. manifest.metas # <<>>
        BY <2>1
      <3> QED
        BY <3>1 DEF Numbering, TypeOK, Manifest
    <2>3. Numbers(manifest.metas) /\ first \in 1..c
      BY <2>2 DEF Numbering, Whole
    <2>4. /\ manifest.metas[i].number <= i
          /\ i > first => manifest.metas[i].number < i
      BY <2>3, <1>1, <1>3 DEF Numbers
    <2> QED
      BY <1>1, <1>2, <1>3, <2>3, <2>4
  <1>4. ASSUME NEW i \in DOMAIN file_metas_, i # first, meta = file_metas_[i]
        PROVE  /\ file_metas_[i].number # sstable_number_
               /\ file_metas_[i].number # sstable_number_ + 1
    <2>1. CASE i > c
      <3>1. file_metas_[i].number < sstable_number_
        BY <1>4, <2>1 DEF Numbering
      <3> QED
        BY <3>1, <1>1
    <2>2. CASE ~ (i > c)
      <3>1. i \in DOMAIN manifest.metas
        BY <1>1, <2>2, ManifestTyped
      <3>2. file_metas_[i] = manifest.metas[i]
        BY <3>1 DEF Numbering, Opened
      <3> QED
        BY <3>1, <3>2, <1>3, <1>4
    <2> QED
      BY <2>1, <2>2
  <1> QED
    BY <1>3, <1>4 DEF Listed

\* Steps that leave the files alone, and list no other table, keep TablesSurvive.
LEMMA FilesKept ==
    ASSUME TablesSurvive, disk' = disk, Listed' \subseteq Listed
    PROVE  TablesSurvive'
  BY DEF TablesSurvive, Intact

\* What BuildTable leaves in its own file harms no listed table.
LEMMA BuildHarmless ==
    ASSUME TypeOK, Numbering, TablesSurvive, phase = "open",
           NEW meta \in Listed, meta.built, meta.alone,
           \A n \in DOMAIN disk : n \notin {sstable_number_, sstable_number_ + 1} =>
               n \in DOMAIN disk' /\ disk'[n] = disk[n]
    PROVE  Intact(meta)'
  <1>1. meta.number \notin {sstable_number_, sstable_number_ + 1}
    BY Zenon, NumberFree
  <1>2. Intact(meta)
    BY DEF TablesSurvive
  <1> QED
    BY <1>1, <1>2 DEF Intact

\* CompactMemtable: the tables listed before stay intact, and so is the new one.
LEMMA CompactHarmless ==
    ASSUME TypeOK, Numbering, TablesSurvive, phase = "open",
           NEW S \in SUBSET Entry, NEW o \in Outcomes, CompactMemtable(S, o),
           UNCHANGED <<manifest, first>>
    PROVE  TablesSurvive'
  <1> DEFINE m == [number |-> sstable_number_, built |-> o = "ok", alone |-> TRUE,
                   span |-> IF o = "open" THEN {} ELSE S]
             n == Len(file_metas_)
  <1>1. m \in FileMeta
    BY DEF TypeOK, FileMeta
  <1>2. /\ n \in Nat
        /\ DOMAIN file_metas_ = 1..n /\ DOMAIN file_metas_' = 1..(n + 1)
        /\ \A i \in 1..n : file_metas_'[i] = file_metas_[i]
        /\ file_metas_'[n + 1] = m
    BY <1>1, AppendFacts DEF TypeOK, CompactMemtable
  <1>3. \A k \in DOMAIN disk : k # sstable_number_ =>
            k \in DOMAIN disk' /\ disk'[k] = disk[k]
    <2>1. CASE o = "ok"
      BY <2>1 DEF CompactMemtable, Overwrite
    <2>2. CASE o = "torn"
      BY <2>2 DEF CompactMemtable, Overwrite
    <2>3. CASE o = "write"
      BY <2>3 DEF CompactMemtable
    <2>4. CASE o \notin {"ok", "torn", "write"}
      BY <2>4 DEF CompactMemtable
    <2> QED
      BY <2>1, <2>2, <2>3, <2>4
  <1>4. ASSUME NEW meta, meta = m, meta.built PROVE Intact(meta)'
    <2>1. o = "ok" /\ meta.number = sstable_number_ /\ meta.span = S
      BY Zenon, <1>4
    <2>2. disk' = Overwrite(sstable_number_, S)
      BY <2>1 DEF CompactMemtable
    <2>3. sstable_number_ \in DOMAIN disk' /\ disk'[sstable_number_] = S
      BY <2>2 DEF Overwrite
    <2> QED
      BY <1>4, <2>1, <2>3 DEF Intact
  <1> HIDE DEF m, n
  <1>5. \A meta \in Listed' : meta \in Listed \/ meta = m
    <2>1. Opened
      BY DEF Opened
    <2> QED
      BY <2>1, <1>2 DEF Listed, Whole
  <1> QED
    <2> SUFFICES ASSUME NEW meta \in Listed', meta.built, meta.alone
                 PROVE  Intact(meta)'
      BY DEF TablesSurvive
    <2> QED
      BY <1>3, <1>4, <1>5, BuildHarmless

\* Every step keeps TablesSurvive.
LEMMA SurviveNext ==
    ASSUME TypeOK, Numbering, TablesSurvive, [Next]_vars
    PROVE  TablesSurvive'
  <1>1. CASE OpenEmpty
    <2>1. Listed' \subseteq Listed
      BY <1>1 DEF OpenEmpty, Construct, Listed, Whole, Opened
    <2> QED
      BY <1>1, <2>1, FilesKept DEF OpenEmpty, Construct
  <1>2. CASE OpenManifest
    <2>1. Listed' \subseteq Listed
      BY <1>2 DEF OpenManifest, Construct, Listed, Whole, Opened
    <2> QED
      BY <1>2, <2>1, FilesKept DEF OpenManifest, Construct
  <1>3. CASE OpenGoesWrong
    <2>1. Listed' \subseteq Listed
      BY <1>3 DEF OpenGoesWrong, object, Listed, Whole, Opened
    <2> QED
      BY <1>3, <2>1, FilesKept DEF OpenGoesWrong
  <1>4. CASE Write
    <2>1. Listed' \subseteq Listed
      BY <1>4 DEF Write, Listed, Whole, Opened
    <2> QED
      BY <1>4, <2>1, FilesKept DEF Write
  <1>5. CASE Rotate
    <2>1. Listed' \subseteq Listed
      BY <1>5 DEF Rotate, Listed, Whole, Opened
    <2> QED
      BY <1>5, <2>1, FilesKept DEF Rotate
  <1>6. ASSUME NEW o \in Outcomes, Compact(o) PROVE TablesSurvive'
    <2>1. immutable_memtable_ \in SUBSET Entry
      BY DEF TypeOK
    <2> QED
      BY <1>6, <2>1, CompactHarmless DEF Compact
  <1>7. ASSUME NEW o \in Outcomes, Destroy(o) PROVE TablesSurvive'
    <2>1. memtable_ \in SUBSET Entry
      BY DEF TypeOK
    <2> QED
      BY <1>7, <2>1, CompactHarmless DEF Destroy
  <1>8. CASE DestroyAborts
    <2>1. Listed' \subseteq Listed
      BY <1>8 DEF DestroyAborts, object, Listed, Whole, Opened
    <2> QED
      BY <1>8, <2>1, FilesKept DEF DestroyAborts
  <1>9. CASE DumpOpen
    <2>1. manifest.state = "none" => manifest'.state = "torn"
      BY <1>9 DEF DumpOpen, TypeOK, Manifest
    <2>2. manifest.state = "none" => first = 0
      BY DEF Numbering
    <2>3. manifest.state = "none" =>
              DOMAIN file_metas_ \ {first'} \subseteq DOMAIN file_metas_ \ {first}
      BY <2>2, ManifestTyped
    <2>4. Listed' \subseteq Listed
      BY <1>9, <2>1, <2>2, <2>3 DEF DumpOpen, object, Listed, Whole, Opened
    <2> QED
      BY <1>9, <2>4, FilesKept DEF DumpOpen
  <1>10. CASE DumpHeader
    <2>1. manifest'.state = "torn"
      BY <1>10 DEF DumpHeader, TypeOK, Manifest
    <2>2. Listed' \subseteq Listed
      BY <1>10, <2>1 DEF DumpHeader, object, Listed, Whole, Opened
    <2> QED
      BY <1>10, <2>2, FilesKept DEF DumpHeader
  <1>11. CASE DumpMetas
    <2>1. Listed' \subseteq Listed
      BY <1>11 DEF DumpMetas, object, Listed, Whole, Opened
    <2> QED
      BY <1>11, <2>1, FilesKept DEF DumpMetas
  <1>12. CASE DumpFails
    <2>1. manifest' = manifest \/ manifest'.state = "torn"
      BY <1>12 DEF DumpFails, TypeOK, Manifest
    <2>2. Listed' \subseteq Listed
      BY <1>12, <2>1 DEF DumpFails, object, Listed, Whole, Opened
    <2> QED
      BY <1>12, <2>2, FilesKept DEF DumpFails
  <1>13. CASE Crash
    <2>1. Listed' \subseteq Listed
      BY <1>13 DEF Crash, object, Listed, Whole, Opened
    <2> QED
      BY <1>13, <2>1, FilesKept DEF Crash
  <1>14. CASE CrashInBuild
    <2>1. Listed' \subseteq Listed
      BY <1>14 DEF CrashInBuild, object, Listed, Whole, Opened
    <2>2. \A k \in DOMAIN disk : k # sstable_number_ =>
              k \in DOMAIN disk' /\ disk'[k] = disk[k]
      BY <1>14 DEF CrashInBuild, Overwrite
    <2> SUFFICES ASSUME NEW meta \in Listed', meta.built, meta.alone
                 PROVE  Intact(meta)'
      BY DEF TablesSurvive
    <2> QED
      BY <1>14, <2>1, <2>2, BuildHarmless DEF CrashInBuild
  <1>15. CASE UNCHANGED vars
    <2>1. Listed' \subseteq Listed
      BY <1>15 DEF vars, object, Listed, Whole, Opened
    <2> QED
      BY <1>15, <2>1, FilesKept DEF vars
  <1>16. CASE DestroyBeside
    <2>1. \A meta \in Listed' : meta \in Listed \/ ~meta.alone
      <3>1. /\ Opened /\ Opened' /\ UNCHANGED <<manifest, first>>
        BY Zenon, <1>16 DEF DestroyBeside, Opened
      <3>2. ASSUME NEW i \in DOMAIN file_metas_' \ {first}
            PROVE  file_metas_'[i] \in Listed \/ ~file_metas_'[i].alone
        BY Zenon, <1>16, <3>1, BesideMetas DEF Listed
      <3> QED
        BY Zenon, <3>1, <3>2 DEF Listed, Whole
    <2>2. \A k \in DOMAIN disk : k \notin {sstable_number_, sstable_number_ + 1} =>
              k \in DOMAIN disk' /\ disk'[k] = disk[k]
      BY Zenon, <1>16 DEF DestroyBeside
    <2>3. phase = "open"
      BY Zenon, <1>16 DEF DestroyBeside
    <2> SUFFICES ASSUME NEW meta \in Listed', meta.built, meta.alone
                 PROVE  Intact(meta)'
      BY Zenon DEF TablesSurvive
    <2> QED
      BY Zenon, <2>1, <2>2, <2>3, BuildHarmless
  <1> QED
    BY <1>1, <1>2, <1>3, <1>4, <1>5, <1>6, <1>7, <1>8, <1>9, <1>10, <1>11,
       <1>12, <1>13, <1>14, <1>15, <1>16 DEF Next

-----------------------------------------------------------------------------
(* Sequence numbers *)

\* CompactMemtable adds no entry that was not in memory.
LEMMA CompactSpans ==
    ASSUME TypeOK, NEW S \in SUBSET Entry, NEW o \in Outcomes,
           CompactMemtable(S, o)
    PROVE  Spans(file_metas_)' \subseteq Spans(file_metas_) \cup S
  <1> DEFINE m == [number |-> sstable_number_, built |-> o = "ok", alone |-> TRUE,
                   span |-> IF o = "open" THEN {} ELSE S]
             n == Len(file_metas_)
  <1>1. m \in FileMeta /\ m.span \subseteq S
    BY DEF TypeOK, FileMeta
  <1>2. /\ n \in Nat
        /\ DOMAIN file_metas_ = 1..n /\ DOMAIN file_metas_' = 1..(n + 1)
        /\ \A i \in 1..n : file_metas_'[i] = file_metas_[i]
        /\ file_metas_'[n + 1] = m
    BY <1>1, AppendFacts DEF TypeOK, CompactMemtable
  <1>3. \A i \in 1..(n + 1) : i \in 1..n \/ i = n + 1
    BY <1>2
  <1> HIDE DEF m, n
  <1> QED
    BY <1>1, <1>2, <1>3 DEF Spans

\* A set of entries that are all in a set with distinct numbers has them too.
LEMMA DistinctSubset ==
    ASSUME NEW S, NEW T \in SUBSET S, NEW last, Distinct(S, last)
    PROVE  Distinct(T, last)
  BY DEF Distinct

\* Every step keeps Sequencing.
LEMMA SequencingNext ==
    ASSUME TypeOK, Sequencing, [Next]_vars
    PROVE  Sequencing'
  <1> DEFINE Held == memtable_ \cup immutable_memtable_ \cup Spans(file_metas_)
  <1>1. CASE OpenEmpty
    <2>1. Held' = {}
      BY <1>1 DEF OpenEmpty, Construct, Spans
    <2> QED
      BY <1>1, <2>1 DEF OpenEmpty, Construct, Sequencing, Distinct, Spans
  <1>2. CASE OpenManifest
    <2>1. Held' = Spans(manifest.metas) /\ last_sequence_' = manifest.last
      BY <1>2 DEF OpenManifest, Construct, Spans
    <2> QED
      BY <1>2, <2>1 DEF OpenManifest, Construct, Sequencing, Spans, Opened
  <1>3. CASE OpenGoesWrong
    BY <1>3 DEF OpenGoesWrong, object, Sequencing, Spans, Opened
  <1>4. CASE Write
    <2> DEFINE e == [seq |-> last_sequence_ + 1, id |-> written + 1]
    <2>1. Held' = Held \cup {e}
      BY <1>4 DEF Write, Spans
    <2>2. Distinct(Held, last_sequence_) /\ last_sequence_ \in Nat
      BY <1>4 DEF Write, Sequencing, Opened, TypeOK
    <2>3. \A f \in Held : f.seq \in Nat
      BY ManifestTyped DEF TypeOK, Entry, Spans, FileMeta
    <2>4. Distinct(Held', last_sequence_ + 1)
      <3> HIDE DEF Held
      <3> QED
        BY <2>1, <2>2, <2>3 DEF Distinct
    <2> QED
      BY <1>4, <2>4 DEF Write, Sequencing, Spans
  <1>5. CASE Rotate
    <2>1. Held' = Held
      BY <1>5 DEF Rotate, Spans
    <2> QED
      BY <1>5, <2>1 DEF Rotate, Sequencing, Spans, Opened
  <1>6. ASSUME NEW o \in Outcomes, Compact(o) PROVE Sequencing'
    <2>1. immutable_memtable_ \in SUBSET Entry
      BY DEF TypeOK
    <2>2. Held' \subseteq Held
      BY <1>6, <2>1, CompactSpans DEF Compact
    <2>3. Distinct(Held, last_sequence_)
      BY <1>6 DEF Compact, Sequencing, Opened
    <2>4. Distinct(Held', last_sequence_)
      BY <2>2, <2>3, DistinctSubset
    <2> QED
      BY <1>6, <2>4 DEF Compact, Sequencing, Spans
  <1>7. ASSUME NEW o \in Outcomes, Destroy(o) PROVE Sequencing'
    <2>1. memtable_ \in SUBSET Entry
      BY DEF TypeOK
    <2>2. Held' \subseteq Held
      BY <1>7, <2>1, CompactSpans DEF Destroy
    <2>3. Distinct(Held, last_sequence_)
      BY <1>7 DEF Destroy, Sequencing, Opened
    <2>4. Distinct(Held', last_sequence_)
      BY <2>2, <2>3, DistinctSubset
    <2> QED
      BY <1>7, <2>4 DEF Destroy, Sequencing, Spans
  <1>8. CASE DestroyAborts
    BY <1>8 DEF DestroyAborts, object, Sequencing, Spans, Opened
  <1>9. CASE DumpOpen
    <2>1. manifest'.metas = manifest.metas /\ manifest'.last = manifest.last
      BY <1>9 DEF DumpOpen, TypeOK, Manifest
    <2> QED
      BY <1>9, <2>1 DEF DumpOpen, object, Sequencing, Spans, Opened
  <1>10. CASE DumpHeader
    <2>1. manifest'.metas = manifest.metas /\ manifest'.last = manifest.last
      BY <1>10 DEF DumpHeader, TypeOK, Manifest
    <2> QED
      BY <1>10, <2>1 DEF DumpHeader, object, Sequencing, Spans, Opened
  <1>11. CASE DumpMetas
    <2>1. Distinct(Held, last_sequence_)
      BY <1>11 DEF DumpMetas, Sequencing, Opened
    <2>2. Distinct(Spans(file_metas_), last_sequence_)
      BY <2>1, DistinctSubset
    <2>3. manifest'.metas = file_metas_ /\ manifest'.last = last_sequence_
      BY <1>11 DEF DumpMetas
    <2>4. ~Opened'
      BY <1>11 DEF DumpMetas, Opened
    <2> QED
      BY <2>2, <2>3, <2>4 DEF Sequencing, Spans
  <1>12. CASE DumpFails
    <2>1. manifest'.metas = manifest.metas /\ manifest'.last = manifest.last
      BY <1>12 DEF DumpFails, TypeOK, Manifest
    <2> QED
      BY <1>12, <2>1 DEF DumpFails, object, Sequencing, Spans, Opened
  <1>13. CASE Crash
    BY <1>13 DEF Crash, object, Sequencing, Spans, Opened
  <1>14. CASE CrashInBuild
    BY <1>14 DEF CrashInBuild, object, Sequencing, Spans, Opened
  <1>15. CASE UNCHANGED vars
    BY <1>15 DEF vars, object, Sequencing, Spans, Opened
  <1>16. CASE DestroyBeside
    <2>1. Spans(file_metas_)' \subseteq Held
      BY Zenon, <1>16, BesideMetas DEF Spans
    <2>2. Held' \subseteq Held
      BY Zenon, <1>16, <2>1 DEF DestroyBeside
    <2>3. Distinct(Held, last_sequence_)
      BY Zenon, <1>16 DEF DestroyBeside, Sequencing, Opened
    <2>4. Distinct(Held', last_sequence_)
      BY Zenon, <2>2, <2>3, DistinctSubset
    <2> QED
      BY <1>16, <2>4 DEF DestroyBeside, Sequencing, Spans
  <1> QED
    BY <1>1, <1>2, <1>3, <1>4, <1>5, <1>6, <1>7, <1>8, <1>9, <1>10, <1>11,
       <1>12, <1>13, <1>14, <1>15, <1>16 DEF Next

-----------------------------------------------------------------------------
(* Theorems *)

\* The inductive invariant holds of an empty directory.
LEMMA InductiveInit == Init => Inductive
  <1> SUFFICES ASSUME Init PROVE Inductive
    OBVIOUS
  <1>1. Numbering
    BY DEF Init, Numbering, Whole, Opened
  <1>2. Sequencing
    BY DEF Init, Sequencing, Distinct, Spans, Opened
  <1>3. TablesSurvive
    BY DEF Init, TablesSurvive, Listed, Whole, Opened
  <1> QED
    BY <1>1, <1>2, <1>3 DEF Inductive

\* Every call, restart and crash keeps the inductive invariant.
LEMMA InductiveNext == TypeOK /\ Inductive /\ [Next]_vars => Inductive'
  BY NumberingNext, SequencingNext, SurviveNext DEF Inductive

\* The inductive invariant, from which the rest follows.
THEOREM DirectoryInductive == Spec => [](TypeOK /\ Inductive)
  <1>1. TypeOK /\ Inductive /\ [Next]_vars => (TypeOK /\ Inductive)'
    BY TypeNext, InductiveNext
  <1>2. Init => TypeOK /\ Inductive
    BY TypeInit, InductiveInit
  <1> QED
    BY <1>1, <1>2, PTL DEF Spec

\* Whatever crashes, failed builds and restarts do, a complete table that the
\* manifest or the object lists is never overwritten or removed, except for the
\* last one of the first manifest (sstable_number_ = file_meta_count) and those
\* that ~DBimpl and a compaction thread built beside each other.
THEOREM ListedTablesSurvive == Spec => []TablesSurvive
  BY DirectoryInductive, PTL DEF Inductive

\* Sequence numbers taken from the manifest after a restart collide with none
\* that can still be read.
THEOREM ReadableSequencesUnique == Spec => []SequencesUnique
  <1>1. TypeOK /\ Inductive => SequencesUnique
    <2> SUFFICES ASSUME TypeOK, Inductive, phase = "open"
                 PROVE  SequencesUnique
      BY DEF SequencesUnique
    <2> DEFINE Held == memtable_ \cup immutable_memtable_ \cup Spans(file_metas_)
               held == memtable_ \cup immutable_memtable_ \cup
                       UNION {meta.span : meta \in {m \in Listed : m.built}}
    <2>1. \A meta \in Listed : \E i \in DOMAIN file_metas_ : meta = file_metas_[i]
      BY DEF Inductive, Numbering, Listed, Opened
    <2>2. held \subseteq Held
      BY <2>1 DEF Spans
    <2>3. Distinct(Held, last_sequence_)
      BY DEF Inductive, Sequencing, Opened
    <2>4. Distinct(held, last_sequence_)
      BY <2>2, <2>3, DistinctSubset
    <2> QED
      BY <2>4 DEF Distinct, SequencesUnique
  <1> QED
    BY <1>1, DirectoryInductive, PTL

\* A directory can be opened unless a DumpManifest was cut off or its manifest is
\* larger than the buffer of ReadManifest: a crash elsewhere does no harm.
THEOREM DirectoryOpens == Spec => []OpensUnlessCut
  <1>1. Init => OpensUnlessCut
    BY DEF Init, OpensUnlessCut
  <1>2. TypeOK /\ Inductive /\ OpensUnlessCut /\ [Next]_vars => OpensUnlessCut'
    <2> SUFFICES ASSUME TypeOK, Inductive, OpensUnlessCut, [Next]_vars,
                        phase' = "undefined"
                 PROVE  OpensUnlessCut'
      BY DEF OpensUnlessCut
    <2>1. CASE OpenGoesWrong
      <3>1. manifest.state \in {"torn", "whole"}
        BY <2>1 DEF OpenGoesWrong, TypeOK, Manifest
      <3>2. manifest.state = "torn" => cut
        BY <2>1 DEF OpenGoesWrong, Inductive, Numbering
      <3>3. Len(manifest.metas) \in Nat /\ kManifestReserved \in Nat
        BY ManifestTyped, DirectoryAssumption
      <3> QED
        BY <2>1, <3>1, <3>2, <3>3 DEF OpenGoesWrong, OpensUnlessCut, Whole, Fits
    <2>2. CASE ~OpenGoesWrong
      <3>1. UNCHANGED vars
        BY <2>2 DEF Next, OpenEmpty, OpenManifest, Construct, Write, Rotate,
                    Compact, Destroy, DestroyBeside, DestroyAborts, DumpOpen,
                    DumpHeader, DumpMetas, DumpFails, Crash, CrashInBuild
      <3> QED
        BY <3>1 DEF vars, OpensUnlessCut, Whole
    <2> QED
      BY <2>1, <2>2
  <1> QED
    BY <1>1, <1>2, DirectoryInductive, PTL DEF Spec

\* DumpManifest never drops a table that an earlier manifest listed.
THEOREM ManifestOnlyGrows == Spec => ManifestGrows
  <1> DEFINE Grows == \A i \in DOMAIN manifest.metas :
                          /\ i \in DOMAIN manifest'.metas
                          /\ manifest'.metas[i] = manifest.metas[i]
  <1>1. TypeOK /\ Inductive /\ [Next]_vars => [Grows]_vars
    <2> SUFFICES ASSUME TypeOK, Inductive, Next PROVE Grows
      OBVIOUS
    <2>1. CASE DumpMetas
      <3>1. manifest'.metas = file_metas_ /\ Opened
        BY <2>1 DEF DumpMetas, Opened
      <3> QED
        BY <3>1 DEF Inductive, Numbering
    <2>2. CASE ~DumpMetas
      <3>1. manifest'.metas = manifest.metas
        BY <2>2 DEF Next, OpenEmpty, OpenManifest, OpenGoesWrong, Construct,
                    Write, Rotate, Compact, Destroy, DestroyBeside, DestroyAborts,
                    DumpOpen, DumpHeader, DumpFails, Crash, CrashInBuild, TypeOK, Manifest
      <3> QED
        BY <3>1
    <2> QED
      BY <2>1, <2>2
  <1> QED
    BY <1>1, DirectoryInductive, PTL DEF Spec, ManifestGrows

=============================================================================
