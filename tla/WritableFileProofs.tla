------------------------- MODULE WritableFileProofs -------------------------
(***************************************************************************)
(* Proofs about WritableFile, for any size of the buffer: it implements    *)
(* AppendStream, and so loses nothing silently and keeps bytes in order.   *)
(***************************************************************************)
EXTENDS WritableFile, SequenceTheorems, TLAPS

Bytes == 1..MaxBytes

\* What the calls hold between two steps: Append has a rest only in its Flush.
Calls ==
    /\ call = "none" => out = <<>> /\ rest = <<>>
    /\ call \in {"direct", "flush"} => rest = <<>>

\* All bytes, written and to be written.
All == file \o Pending

-----------------------------------------------------------------------------
(* Types *)

\* The bytes of one Append.
LEMMA ContentFacts ==
    ASSUME TypeOK, NEW n \in 1..MaxBytes, appended + n <= MaxBytes
    PROVE  /\ Content(n) \in Seq(Bytes) /\ Len(Content(n)) = n
           /\ \A i \in 1..n : Content(n)[i] = appended + i
  <1>1. \A i \in 1..n : appended + i \in Bytes
    BY BytesAssumption DEF TypeOK, Bytes
  <1> QED
    BY <1>1 DEF Content

\* A prefix and the rest of a sequence, and that they make it up.
LEMMA Split ==
    ASSUME NEW S, NEW s \in Seq(S), NEW k \in 0..Len(s)
    PROVE  /\ SubSeq(s, 1, k) \in Seq(S) /\ Len(SubSeq(s, 1, k)) = k
           /\ SubSeq(s, k + 1, Len(s)) \in Seq(S)
           /\ Len(SubSeq(s, k + 1, Len(s))) = Len(s) - k
           /\ SubSeq(s, 1, k) \o SubSeq(s, k + 1, Len(s)) = s
  <1>1. Len(s) \in Nat /\ \A i \in 1..Len(s) : s[i] \in S
    BY Zenon, LenProperties, ElementOfSeq
  <1>2. SubSeq(s, 1, k) \in Seq(S) /\ Len(SubSeq(s, 1, k)) = k
    BY <1>1, SubSeqProperties
  <1>3. /\ SubSeq(s, k + 1, Len(s)) \in Seq(S)
        /\ Len(SubSeq(s, k + 1, Len(s))) = Len(s) - k
    <2>1. k + 1 \in Int /\ \A i \in (k + 1)..Len(s) : s[i] \in S
      BY <1>1
    <2>2. /\ SubSeq(s, k + 1, Len(s)) \in Seq(S)
          /\ Len(SubSeq(s, k + 1, Len(s))) =
                 IF k + 1 <= Len(s) THEN Len(s) - (k + 1) + 1 ELSE 0
      BY <1>1, <2>1, SubSeqProperties
    <2> QED
      BY <1>1, <2>2
  <1>4. SubSeq(s, 1, k) \o SubSeq(s, k + 1, Len(s)) = SubSeq(s, 1, Len(s))
    <2>1. 1 \in 1..Len(s)+1 /\ k \in 1-1..Len(s) /\ Len(s) \in k..Len(s)
      BY <1>1
    <2> QED
      BY Zenon, <2>1, ConcatAdjacentSubSeq
  <1> QED
    BY Zenon, <1>2, <1>3, <1>4, SubSeqFull

\* How much of n bytes goes to the buffer.
LEMMA CopyFacts ==
    ASSUME TypeOK, NEW n \in 1..MaxBytes
    PROVE  /\ CopySize(n) \in 0..n
           /\ Len(buf) + CopySize(n) <= kWritableFileBuffer
  <1>1. Len(buf) \in Nat /\ Len(buf) <= kWritableFileBuffer
    BY DEF TypeOK
  <1> QED
    BY <1>1, BufferAssumption, BytesAssumption DEF CopySize

\* An empty file, with no call running, is well typed.
LEMMA FileInit == Init => TypeOK /\ Calls
  <1> SUFFICES ASSUME Init PROVE TypeOK /\ Calls
    BY Zenon
  <1>1. <<>> \in Seq(1..MaxBytes) /\ Len(<<>>) = 0
    BY Zenon, EmptySeq
  <1>2. 0 \in 0..MaxBytes /\ 0 <= kWritableFileBuffer
    BY BufferAssumption, BytesAssumption
  <1> QED
    BY Zenon, <1>1, <1>2 DEF Init, TypeOK, Calls

\* Every step keeps the types, and the buffer within its size.
LEMMA FileTypeStep ==
    ASSUME TypeOK, Calls, [Next]_vars
    PROVE  TypeOK' /\ Calls'
  <1> USE DEF Bytes
  <1>0. <<>> \in Seq(Bytes) /\ Len(<<>>) = 0
    BY Zenon, EmptySeq
  <1>1. ASSUME NEW n \in 1..MaxBytes, AppendFits(n) PROVE TypeOK' /\ Calls'
    <2>1. Content(n) \in Seq(Bytes) /\ Len(Content(n)) = n
      BY Zenon, <1>1, ContentFacts DEF AppendFits
    <2>2. buf' \in Seq(Bytes) /\ Len(buf') = Len(buf) + n
      BY Zenon, <1>1, <2>1, ConcatProperties DEF AppendFits, TypeOK
    <2>3. Len(buf') <= kWritableFileBuffer
      BY Zenon, <1>1, <2>2, CopyFacts DEF AppendFits
    <2>4. appended' \in 0..MaxBytes
      BY <1>1, BytesAssumption DEF AppendFits, TypeOK
    <2> QED
      BY Zenon, <1>1, <2>2, <2>3, <2>4 DEF AppendFits, TypeOK, Calls
  <1>2. ASSUME NEW n \in 1..MaxBytes, AppendSpills(n) PROVE TypeOK' /\ Calls'
    <2> DEFINE c == Content(n)
               k == CopySize(n)
    <2>1. c \in Seq(Bytes) /\ Len(c) = n
      BY Zenon, <1>2, ContentFacts DEF AppendSpills
    <2>2. k \in 0..n /\ Len(buf) + k <= kWritableFileBuffer
      BY Zenon, CopyFacts
    <2>3. /\ SubSeq(c, 1, k) \in Seq(Bytes) /\ Len(SubSeq(c, 1, k)) = k
          /\ SubSeq(c, k + 1, n) \in Seq(Bytes)
      <3> HIDE DEF c, k
      <3> QED
        BY Zenon, <2>1, <2>2, Split
    <2>4. buf' = buf \o SubSeq(c, 1, k) /\ out' = buf' /\ rest' = SubSeq(c, k + 1, n)
      BY Zenon, <1>2 DEF AppendSpills
    <2> HIDE DEF c, k
    <2>5. buf' \in Seq(Bytes) /\ Len(buf') = Len(buf) + k
      BY Zenon, <2>3, <2>4, ConcatProperties DEF TypeOK
    <2>6. appended' \in 0..MaxBytes
      BY <1>2, BytesAssumption DEF AppendSpills, TypeOK
    <2> QED
      BY Zenon, <1>2, <2>2, <2>3, <2>4, <2>5, <2>6 DEF AppendSpills, TypeOK, Calls
  <1>3. CASE SpillSmall
    BY <1>3, BufferAssumption DEF SpillSmall, TypeOK, Calls
  <1>4. CASE SpillLarge
    BY <1>0, <1>4, BufferAssumption DEF SpillLarge, TypeOK, Calls
  <1>5. CASE Flush
    BY Zenon, <1>5 DEF Flush, TypeOK, Calls
  <1>6. CASE Return
    BY <1>0, <1>6, BufferAssumption DEF Return, TypeOK, Calls
  <1>7. ASSUME NEW n \in 1..MaxBytes, Write(n) PROVE TypeOK' /\ Calls'
    <2>1. n \in 0..Len(out) /\ n \in Nat /\ Len(out) \in Nat /\ Len(out) # 0
      BY <1>7 DEF Write, TypeOK
    <2>2. SubSeq(out, 1, n) \in Seq(Bytes) /\ SubSeq(out, n + 1, Len(out)) \in Seq(Bytes)
      BY Zenon, <2>1, Split DEF TypeOK
    <2>3. file' \in Seq(Bytes) /\ out' \in Seq(Bytes)
      BY Zenon, <1>7, <2>2, ConcatProperties DEF Write, TypeOK
    <2> QED
      BY Zenon, <1>7, <2>3 DEF Write, TypeOK, Calls
  <1>8. CASE WriteFails
    BY <1>0, <1>8, BufferAssumption DEF WriteFails, TypeOK, Calls
  <1>9. CASE UNCHANGED vars
    BY Zenon, <1>9 DEF vars, TypeOK, Calls
  <1> QED
    BY Zenon, <1>1, <1>2, <1>3, <1>4, <1>5, <1>6, <1>7, <1>8, <1>9 DEF Next, CallStep

\* Append and Flush keep their types; the buffer is never overrun.
THEOREM FileTyped == Spec => [](TypeOK /\ Calls)
  BY FileInit, FileTypeStep, PTL DEF Spec

-----------------------------------------------------------------------------
(* The effect of a step on the stream *)

\* Concatenation of sequences of bytes.
LEMMA BytesConcat ==
    \A s, t, u \in Seq(Bytes) : (s \o t) \o u = s \o (t \o u)
  OBVIOUS

\* The pending bytes and the whole stream are sequences of bytes.
LEMMA StreamTyped ==
    ASSUME TypeOK
    PROVE  Pending \in Seq(Bytes) /\ All \in Seq(Bytes)
  <1>1. /\ buf \in Seq(Bytes) /\ out \in Seq(Bytes) /\ rest \in Seq(Bytes)
        /\ file \in Seq(Bytes)
    BY Zenon DEF TypeOK, Bytes
  <1>2. Pending \in Seq(Bytes)
    BY Zenon, <1>1, ConcatProperties DEF Pending
  <1> QED
    BY Zenon, <1>1, <1>2, ConcatProperties DEF All

\* Append hands over its bytes, whether they fit or spill.
LEMMA AppendEffect ==
    ASSUME TypeOK, Calls, NEW n \in 1..MaxBytes, AppendFits(n) \/ AppendSpills(n)
    PROVE  /\ All' = All \o Content(n)
           /\ UNCHANGED <<file, failed>>
           /\ appended + n <= MaxBytes /\ appended' = appended + n
  <1> DEFINE c == Content(n)
             k == CopySize(n)
  <1>1. c \in Seq(Bytes) /\ Len(c) = n /\ k \in 0..n
    BY Zenon, ContentFacts, CopyFacts DEF AppendFits, AppendSpills
  <1>2. file \in Seq(Bytes) /\ buf \in Seq(Bytes)
    BY Zenon DEF TypeOK, Bytes
  <1>3. /\ UNCHANGED <<file, failed>> /\ call = "none"
        /\ appended + n <= MaxBytes /\ appended' = appended + n
    BY Zenon DEF AppendFits, AppendSpills
  <1>4. Pending' = buf \o c
    <2>1. CASE AppendFits(n)
      BY Zenon, <2>1, <1>3 DEF AppendFits, Pending
    <2>2. CASE AppendSpills(n)
      <3> DEFINE p == SubSeq(c, 1, k)
                 q == SubSeq(c, k + 1, n)
      <3>1. Pending' = (buf \o p) \o q
        BY Zenon, <2>2 DEF AppendSpills, Pending
      <3> HIDE DEF c, k
      <3>2. p \in Seq(Bytes) /\ q \in Seq(Bytes) /\ p \o q = c
        BY Zenon, <1>1, Split
      <3> HIDE DEF p, q
      <3>3. buf \in Seq(Bytes) /\ p \in Seq(Bytes) /\ q \in Seq(Bytes)
        BY Zenon, <1>1, <1>2, <3>2
      <3>4. (buf \o p) \o q = buf \o (p \o q)
        BY ZenonT(60), <3>3, BytesConcat
      <3> QED
        BY Zenon, <3>1, <3>2, <3>4
    <2> QED
      BY Zenon, <2>1, <2>2
  <1>5. Pending = buf
    BY Zenon, <1>3 DEF Pending
  <1> HIDE DEF c, k
  <1>6. All' = All \o c
    <2>1. file \in Seq(Bytes) /\ buf \in Seq(Bytes) /\ c \in Seq(Bytes)
      BY Zenon, <1>1, <1>2
    <2>2. (file \o buf) \o c = file \o (buf \o c)
      BY ZenonT(60), <2>1, BytesConcat
    <2> QED
      BY Zenon, <1>3, <1>4, <1>5, <2>2 DEF All
  <1> QED
    BY Zenon, <1>3, <1>6 DEF c

\* The steps inside a call that write nothing move bytes between buf_,
\* write_data and WriteUnbuffered, and leave the stream as it is.
LEMMA MoveEffect ==
    ASSUME TypeOK, Calls, SpillSmall \/ SpillLarge \/ Flush \/ Return
    PROVE  UNCHANGED <<file, All, appended, failed>>
  <1>1. /\ buf \in Seq(Bytes) /\ out \in Seq(Bytes) /\ rest \in Seq(Bytes)
        /\ <<>> \in Seq(Bytes)
    BY Zenon, EmptySeq DEF TypeOK, Bytes
  <1>2. UNCHANGED <<file, appended, failed>>
    BY Zenon DEF SpillSmall, SpillLarge, Flush, Return
  <1>3. CASE SpillSmall
    <2>1. Pending = <<>> \o rest /\ Pending' = rest
      BY Zenon, <1>3 DEF SpillSmall, Pending
    <2> QED
      BY Zenon, <1>1, <1>2, <2>1, ConcatEmptySeq DEF All
  <1>4. CASE SpillLarge
    <2>1. Pending = <<>> \o rest /\ Pending' = rest \o <<>>
      BY Zenon, <1>4 DEF SpillLarge, Pending
    <2> QED
      BY Zenon, <1>1, <1>2, <2>1, ConcatEmptySeq DEF All
  <1>5. CASE Flush
    <2>1. Pending = buf /\ Pending' = buf \o <<>>
      BY Zenon, <1>5 DEF Flush, Pending, Calls
    <2> QED
      BY Zenon, <1>1, <1>2, <2>1, ConcatEmptySeq DEF All
  <1>6. CASE Return
    <2>1. Pending = <<>> \o <<>> /\ Pending' = <<>>
      BY Zenon, <1>6 DEF Return, Pending, Calls
    <2> QED
      BY Zenon, <1>1, <1>2, <2>1, ConcatEmptySeq DEF All
  <1> QED
    BY Zenon, <1>3, <1>4, <1>5, <1>6

\* ::write moves the next n bytes of the stream to the file.
LEMMA WriteEffect ==
    ASSUME TypeOK, Calls, NEW n \in 1..MaxBytes, Write(n)
    PROVE  /\ UNCHANGED <<All, appended, failed>>
           /\ Len(file) + n \in (Len(file) + 1)..Len(All)
           /\ file' = SubSeq(All, 1, Len(file) + n)
  <1> DEFINE p == SubSeq(out, 1, n)
             q == SubSeq(out, n + 1, Len(out))
  <1>1. /\ file \in Seq(Bytes) /\ out \in Seq(Bytes) /\ rest \in Seq(Bytes)
        /\ n \in 1..Len(out) /\ n \in 0..Len(out)
        /\ Len(file) \in Nat /\ Len(out) \in Nat /\ Len(rest) \in Nat
    BY DEF TypeOK, Bytes, Write
  <1>2. /\ p \in Seq(Bytes) /\ q \in Seq(Bytes) /\ p \o q = out
        /\ Len(p) = n /\ Len(q) = Len(out) - n
    BY Zenon, <1>1, Split
  <1>3. /\ file' = file \o p /\ Pending = out \o rest /\ Pending' = q \o rest
        /\ UNCHANGED <<appended, failed>>
    BY Zenon DEF Write, Pending
  <1> HIDE DEF p, q
  <1>4. q \o rest \in Seq(Bytes) /\ file' \in Seq(Bytes)
    BY Zenon, <1>1, <1>2, <1>3, ConcatProperties
  <1>5. All' = file' \o (q \o rest) /\ All = file \o ((p \o q) \o rest)
    BY Zenon, <1>2, <1>3 DEF All
  <1>6. (file \o p) \o (q \o rest) = file \o ((p \o q) \o rest)
    <2>1. (file \o p) \o (q \o rest) = file \o (p \o (q \o rest))
      <3> DEFINE r == q \o rest
      <3>1. r \in Seq(Bytes) /\ file \in Seq(Bytes) /\ p \in Seq(Bytes)
        BY Zenon, <1>1, <1>2, <1>4
      <3> HIDE DEF r
      <3>2. (file \o p) \o r = file \o (p \o r)
        BY ZenonT(60), <3>1, BytesConcat
      <3> QED
        BY Zenon, <3>2 DEF r
    <2>2. p \o (q \o rest) = (p \o q) \o rest
      <3>1. p \in Seq(Bytes) /\ q \in Seq(Bytes) /\ rest \in Seq(Bytes)
        BY Zenon, <1>1, <1>2
      <3> QED
        BY ZenonT(60), <3>1, BytesConcat
    <2> QED
      BY Zenon, <2>1, <2>2
  <1>7. All' = All
    BY ZenonT(60), <1>3, <1>5, <1>6
  <1>8. /\ Len(file') = Len(file) + n
        /\ Len(All) = Len(file') + Len(q \o rest) /\ Len(q \o rest) \in Nat
    <2>1. Len(file') = Len(file) + n
      BY Zenon, <1>1, <1>2, <1>3, ConcatProperties
    <2>2. Len(file' \o (q \o rest)) = Len(file') + Len(q \o rest)
      BY Zenon, <1>4, ConcatProperties
    <2>3. Len(q \o rest) \in Nat
      BY Zenon, <1>4, LenProperties
    <2> QED
      BY Zenon, <1>5, <1>7, <2>1, <2>2, <2>3
  <1>9. SubSeq(All, 1, Len(file')) = file'
    <2>1. CASE Len(file') = 0
      BY <2>1, <1>1, <1>8
    <2>2. CASE Len(file') # 0
      <3>1. 1 \in 1..Len(file') /\ Len(file') \in 1..Len(file')
        BY <2>2, <1>1, <1>8
      <3>2. SubSeq(file' \o (q \o rest), 1, Len(file')) = SubSeq(file', 1, Len(file'))
        BY Zenon, <1>4, <3>1, SubSeqOfConcat1
      <3> QED
        BY Zenon, <1>4, <1>5, <1>7, <3>2, SubSeqFull
    <2> QED
      BY Zenon, <2>1, <2>2
  <1> QED
    BY <1>1, <1>3, <1>7, <1>8, <1>9

\* A failing write loses what is pending, which is not nothing, and is reported.
LEMMA FailEffect ==
    ASSUME TypeOK, Calls, WriteFails
    PROVE  /\ UNCHANGED <<file, appended>> /\ failed'
           /\ All' = file /\ All # file
  <1>1. /\ file \in Seq(Bytes) /\ out \in Seq(Bytes) /\ rest \in Seq(Bytes)
        /\ out # <<>>
    BY Zenon DEF TypeOK, Bytes, WriteFails
  <1>2. UNCHANGED <<file, appended>> /\ failed' /\ Pending' = <<>>
    BY Zenon DEF WriteFails, Pending
  <1>3. Pending = out \o rest
    BY Zenon DEF WriteFails, Pending
  <1>4. out \o rest \in Seq(Bytes) /\ out \o rest # <<>>
    BY <1>1, ConcatProperties, ConcatEqualIffEmpty
  <1>5. All' = file
    BY Zenon, <1>1, <1>2, ConcatEmptySeq DEF All
  <1>6. All # file
    BY <1>1, <1>3, <1>4, ConcatEqualIffEmpty DEF All
  <1> QED
    BY Zenon, <1>2, <1>5, <1>6

-----------------------------------------------------------------------------
(* The order of bytes *)

\* Nothing is missing before the first error; bytes are in order, after it too.
Ordered ==
    /\ ~failed => /\ Len(All) = appended
                  /\ \A i \in 1..appended : All[i] = i
    /\ \A i, j \in 1..Len(All) : i < j => All[i] < All[j]
    /\ \A i \in 1..Len(All) : All[i] <= appended

\* The file is the beginning of the stream.
LEMMA FileIsPrefix ==
    ASSUME TypeOK
    PROVE  /\ Len(file) \in Nat /\ Len(All) \in Nat /\ Len(file) <= Len(All)
           /\ \A i \in 1..Len(file) : file[i] = All[i]
           /\ \A i \in 1..Len(All) : All[i] \in Nat
  <1>1. file \in Seq(Bytes) /\ Pending \in Seq(Bytes) /\ All \in Seq(Bytes)
    BY Zenon, StreamTyped DEF TypeOK, Bytes
  <1>2. /\ Len(file) \in Nat /\ Len(Pending) \in Nat /\ Len(All) \in Nat
    BY Zenon, <1>1, LenProperties
  <1>3. /\ Len(All) = Len(file) + Len(Pending)
        /\ \A i \in 1..(Len(file) + Len(Pending)) :
               All[i] = IF i <= Len(file) THEN file[i] ELSE Pending[i - Len(file)]
    BY Zenon, <1>1, ConcatProperties DEF All
  <1>4. \A i \in 1..Len(All) : All[i] \in Nat
    <2>1. \A i \in 1..Len(All) : All[i] \in Bytes
      BY Zenon, <1>1, ElementOfSeq
    <2> QED
      BY <2>1 DEF Bytes
  <1> QED
    BY <1>2, <1>3, <1>4

\* Every step keeps the bytes in order.
LEMMA OrderedStep ==
    ASSUME TypeOK, Calls, Ordered, [Next]_vars
    PROVE  Ordered'
  <1> DEFINE a == Len(All)
  <1>0. /\ All \in Seq(Bytes) /\ a \in Nat /\ appended \in Nat
        /\ \A i \in 1..a : All[i] \in Nat
    BY StreamTyped, FileIsPrefix, BytesAssumption DEF TypeOK
  <1>1. ASSUME NEW n \in 1..MaxBytes, AppendFits(n) \/ AppendSpills(n)
        PROVE  Ordered'
    <2> DEFINE c == Content(n)
    <2>1. /\ All' = All \o c /\ failed' = failed
          /\ appended + n <= MaxBytes /\ appended' = appended + n
      BY Zenon, <1>1, AppendEffect
    <2>2. /\ c \in Seq(Bytes) /\ Len(c) = n /\ n \in Nat
          /\ \A i \in 1..n : c[i] = appended + i
      BY <2>1, ContentFacts
    <2> HIDE DEF c
    <2>3. /\ Len(All') = a + n
          /\ \A i \in 1..(a + n) : All'[i] = IF i <= a THEN All[i] ELSE c[i - a]
      BY Zenon, <1>0, <2>1, <2>2, ConcatProperties
    <2>4. ASSUME NEW i \in 1..(a + n)
          PROVE  /\ i <= a => All'[i] = All[i] /\ i \in 1..a
                 /\ ~(i <= a) => All'[i] = appended + (i - a)
      <3>1. ~(i <= a) => i - a \in 1..n
        BY <1>0, <2>2
      <3> QED
        BY <1>0, <2>2, <2>3, <3>1
    <2>5. /\ \A i, j \in 1..a : i < j => All[i] < All[j]
          /\ \A i \in 1..a : All[i] <= appended
          /\ ~failed => a = appended /\ \A i \in 1..a : All[i] = i
      BY Zenon DEF Ordered
    <2> HIDE DEF a
    <2>6. \A i, j \in 1..(a + n) : i < j => All'[i] < All'[j]
      <3> SUFFICES ASSUME NEW i \in 1..(a + n), NEW j \in 1..(a + n), i < j
                   PROVE  All'[i] < All'[j]
        BY Zenon
      <3>1. CASE j <= a
        BY <3>1, <1>0, <2>2, <2>4, <2>5
      <3>2. CASE ~(j <= a) /\ i <= a
        <4>1. All'[i] = All[i] /\ All[i] <= appended /\ All[i] \in Nat
          BY Zenon, <3>2, <1>0, <2>4, <2>5
        <4>2. All'[j] = appended + (j - a)
          BY Zenon, <3>2, <2>4
        <4> QED
          BY <3>2, <1>0, <2>2, <4>1, <4>2
      <3>3. CASE ~(i <= a)
        <4>1. All'[i] = appended + (i - a) /\ All'[j] = appended + (j - a)
          BY <3>3, <1>0, <2>2, <2>4
        <4> QED
          BY <1>0, <2>2, <4>1
      <3> QED
        BY Zenon, <3>1, <3>2, <3>3
    <2>7. ASSUME NEW i \in 1..(a + n) PROVE All'[i] <= appended + n
      <3>1. CASE i <= a
        BY <3>1, <1>0, <2>2, <2>4, <2>5
      <3>2. CASE ~(i <= a)
        BY <3>2, <1>0, <2>2, <2>4
      <3> QED
        BY Zenon, <3>1, <3>2
    <2>8. ASSUME ~failed
          PROVE  a + n = appended + n /\ \A i \in 1..(a + n) : All'[i] = i
      <3> SUFFICES ASSUME NEW i \in 1..(a + n) PROVE All'[i] = i
        BY Zenon, <2>5, <2>8
      <3>1. CASE i <= a
        BY Zenon, <3>1, <2>4, <2>5, <2>8
      <3>2. CASE ~(i <= a)
        BY <3>2, <1>0, <2>2, <2>4, <2>5, <2>8
      <3> QED
        BY Zenon, <3>1, <3>2
    <2> QED
      BY Zenon, <2>1, <2>3, <2>6, <2>7, <2>8 DEF Ordered
  <1>2. CASE SpillSmall \/ SpillLarge \/ Flush \/ Return
    BY Zenon, <1>2, MoveEffect DEF Ordered
  <1>3. ASSUME NEW n \in 1..MaxBytes, Write(n) PROVE Ordered'
    BY Zenon, <1>3, WriteEffect DEF Ordered
  <1>4. CASE WriteFails
    <2>1. All' = file /\ failed' /\ appended' = appended
      BY Zenon, <1>4, FailEffect
    <2>2. /\ Len(file) \in Nat /\ Len(All) \in Nat /\ Len(file) <= Len(All)
          /\ \A i \in 1..Len(file) : file[i] = All[i]
      BY Zenon, FileIsPrefix
    <2>3. \A i \in 1..Len(file) : i \in 1..Len(All)
      BY <2>2
    <2>4. /\ \A i, j \in 1..Len(file) : i < j => file[i] < file[j]
          /\ \A i \in 1..Len(file) : file[i] <= appended
      BY Zenon, <2>2, <2>3 DEF Ordered
    <2> QED
      BY Zenon, <2>1, <2>4 DEF Ordered
  <1>5. CASE UNCHANGED vars
    BY Zenon, <1>5 DEF vars, Ordered, All, Pending
  <1> QED
    BY Zenon, <1>1, <1>2, <1>3, <1>4, <1>5 DEF Next, CallStep

\* The order of bytes holds in every reachable state.
THEOREM OrderedHolds == Spec => [](TypeOK /\ Calls /\ Ordered)
  <1>1. Init => Ordered
    <2> SUFFICES ASSUME Init PROVE Ordered
      BY Zenon
    <2>1. All = <<>> \o <<>>
      BY Zenon DEF Init, All, Pending
    <2>2. All = <<>> /\ Len(All) = 0
      BY <2>1
    <2> QED
      BY <2>2 DEF Init, Ordered
  <1>2. TypeOK /\ Calls /\ Ordered /\ [Next]_vars => (TypeOK /\ Calls /\ Ordered)'
    BY Zenon, FileTypeStep, OrderedStep
  <1> QED
    BY <1>1, <1>2, FileInit, PTL DEF Spec

\* Until a call reports an error, Append, Flush and short writes lose nothing.
THEOREM NothingIsLost == Spec => []NothingLostSilently
  <1>1. TypeOK /\ Calls /\ Ordered => NothingLostSilently
    <2> SUFFICES ASSUME TypeOK, Ordered, ~failed
                 PROVE  All = [i \in 1..appended |-> i]
      BY Zenon DEF NothingLostSilently, All
    <2>1. All \in Seq(Bytes) /\ Len(All) = appended
      BY Zenon, StreamTyped DEF Ordered
    <2>2. All = [i \in 1..appended |-> All[i]]
      BY <2>1
    <2> QED
      BY Zenon, <2>2 DEF Ordered
  <1> QED
    BY <1>1, OrderedHolds, PTL

\* A failed write is never made up for later: the file stays in order.
THEOREM FileStaysInOrder == Spec => []FileInOrder
  <1>1. TypeOK /\ Calls /\ Ordered => FileInOrder
    <2> SUFFICES ASSUME TypeOK, Ordered PROVE FileInOrder
      BY Zenon
    <2>1. DOMAIN file = 1..Len(file)
      BY DEF TypeOK
    <2> QED
      BY <2>1, FileIsPrefix DEF FileInOrder, Ordered
  <1> QED
    BY <1>1, OrderedHolds, PTL

\* WritableFile implements AppendStream.
THEOREM ImplementsAppendStream == Spec => ImplementsStream
  <1>1. Init => Stream!StreamInit
    <2> SUFFICES ASSUME Init PROVE Stream!StreamInit
      BY Zenon
    <2>1. file \o Pending = <<>>
      BY DEF Init, Pending
    <2> QED
      BY Zenon, <2>1 DEF Init, Stream!StreamInit
  <1>2. TypeOK /\ Calls /\ [Next]_vars => [Stream!StreamNext]_(Stream!abstract)
    <2> SUFFICES ASSUME TypeOK, Calls, [Next]_vars
                 PROVE  [Stream!StreamNext]_(Stream!abstract)
      BY Zenon
    <2>1. ASSUME NEW n \in 1..MaxBytes, AppendFits(n) \/ AppendSpills(n)
          PROVE  Stream!Accept(n)
      BY Zenon, <2>1, AppendEffect DEF Stream!Accept, Stream!NewBytes, All, Content
    <2>2. CASE SpillSmall \/ SpillLarge \/ Flush \/ Return
      BY Zenon, <2>2, MoveEffect DEF Stream!abstract, All
    <2>3. ASSUME NEW n \in 1..MaxBytes, Write(n) PROVE Stream!Persist
      BY Zenon, <2>3, WriteEffect DEF Stream!Persist, All
    <2>4. CASE WriteFails
      <3>1. /\ UNCHANGED <<file, appended>>
            /\ (file \o Pending)' = file /\ file \o Pending # file
        BY Zenon, <2>4, FailEffect DEF All
      <3>2. Stream!Lose
        BY Zenon, <3>1 DEF Stream!Lose
      <3> QED
        BY Zenon, <3>2 DEF Stream!StreamNext
    <2>5. CASE UNCHANGED vars
      BY Zenon, <2>5 DEF vars, Stream!abstract, Pending
    <2> QED
      BY Zenon, <2>1, <2>2, <2>3, <2>4, <2>5 DEF Next, CallStep, Stream!StreamNext
  <1> QED
    BY <1>1, <1>2, FileTyped, PTL DEF Spec, ImplementsStream, Stream!StreamSpec

=============================================================================
