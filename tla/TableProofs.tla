---------------------------- MODULE TableProofs -----------------------------
(***************************************************************************)
(* Proofs about Table, for any keys, hashes, entry sizes, block size and   *)
(* number of failed writes: a table reads back as the entries it was built *)
(* from, Seek stops where it should, a table has one block, the asserts of *)
(* TableBuilder::Add fail just where the properties say, the filter block  *)
(* denies no key of the table, and InternalGet finds what it should.  The  *)
(* argument is TableInv: what the builder has in its block and its filter  *)
(* after n entries, what is in the file after Finish, and that the footer  *)
(* leads to all of it.                                                     *)
(***************************************************************************)
EXTENDS Table, WellFoundedInduction, TLAPS

-----------------------------------------------------------------------------
(* Least numbers, sequences and AppendAll *)

\* < as a set of pairs, for the theorems on well-founded relations.
Below == {pair \in Nat \X Nat : pair[1] < pair[2]}

\* Every nonempty set of numbers has a least one. Inductions below take the least
\* counterexample.
LEMMA LeastNumber ==
    ASSUME NEW S \in SUBSET Nat, S # {}
    PROVE  \E x \in S : \A y \in S : x <= y
<1>1. IsWellFoundedOn(Below, Nat)
  BY Zenon, NatLessThanWellFounded DEF OpToRel, Below
<1>2. PICK x \in S : \A y \in S : <<y, x>> \notin Below
  BY Zenon, <1>1, WFMin
<1>3. ASSUME NEW y \in S PROVE x <= y
  <2>1. x \in Nat /\ y \in Nat
    OBVIOUS
  <2>2. <<y, x>> \in Nat \X Nat /\ <<y, x>>[1] = y /\ <<y, x>>[2] = x
    BY <2>1
  <2>3. ~(y < x)
    BY Zenon, <1>2, <2>2 DEF Below
  <2> QED BY <2>1, <2>3
<1> QED BY Zenon, <1>3

\* Min, with which FirstNotLess and CString look for a position.
LEMMA MinIsLeast ==
    ASSUME NEW S \in SUBSET Nat, S # {}
    PROVE  Min(S) \in S /\ \A y \in S : Min(S) <= y
BY Zenon, LeastNumber DEF Min

\* What the cells of a \o b are.
Joined(S, a, b) ==
    /\ a \o b \in Seq(S) /\ Len(a \o b) = Len(a) + Len(b)
    /\ Len(a) \in Nat /\ Len(b) \in Nat
    /\ \A j \in 1..Len(a) : (a \o b)[j] = a[j]
    /\ \A j \in 1..Len(b) : (a \o b)[Len(a) + j] = b[j]

\* std::string::append keeps both parts.
LEMMA JoinFacts ==
    ASSUME NEW S, NEW a \in Seq(S), NEW b \in Seq(S)
    PROVE  Joined(S, a, b)
<1>1. \A j \in 1..Len(a) : (a \o b)[j] = a[j]
  OBVIOUS
<1>2. \A j \in 1..Len(b) : (a \o b)[Len(a) + j] = b[j]
  OBVIOUS
<1> QED BY <1>1, <1>2 DEF Joined

\* A function on 1..n is a sequence: a block written cell by cell.
LEMMA RowIsSequence ==
    ASSUME NEW S, NEW n \in Nat, NEW f \in [1..n -> S]
    PROVE  f \in Seq(S) /\ Len(f) = n /\ DOMAIN f = 1..n
OBVIOUS

\* A prefix: what a failed write leaves of the stream, or the first entries.
LEMMA PrefixFacts ==
    ASSUME NEW S, NEW s \in Seq(S), NEW n \in 0..Len(s)
    PROVE  /\ SubSeq(s, 1, n) \in Seq(S) /\ Len(SubSeq(s, 1, n)) = n
           /\ DOMAIN SubSeq(s, 1, n) = 1..n
           /\ \A i \in 1..n : SubSeq(s, 1, n)[i] = s[i]
<1>1. SubSeq(s, 1, n) \in Seq(S) /\ Len(SubSeq(s, 1, n)) = n
  OBVIOUS
<1>2. \A i \in 1..n : SubSeq(s, 1, n)[i] = s[i]
  OBVIOUS
<1> QED BY <1>1, <1>2

\* The body of the recursion in AppendAll.
AppendNext(strings, f, n) == IF n = 0 THEN <<>> ELSE f[n - 1] \o strings[n]

\* The recursion of AppendAll defines a function.
LEMMA UpToExists ==
    ASSUME NEW strings, NEW n \in Nat
    PROVE  \E f : f = [i \in 0..n |-> AppendNext(strings, f, i)]
<1> DEFINE Bad == {m \in Nat : ~\E f : f = [i \in 0..m |-> AppendNext(strings, f, i)]}
<1>1. SUFFICES ASSUME Bad # {} PROVE FALSE
  BY Zenon
<1>2. PICK m \in Bad : \A y \in Bad : m <= y
  BY Zenon, <1>1, LeastNumber
<1>3. m \in Nat /\ ~\E f : f = [i \in 0..m |-> AppendNext(strings, f, i)]
  BY Zenon
<1>4. CASE m = 0
  <2> DEFINE g == [i \in 0..0 |-> <<>>]
  <2>1. \A i \in 0..0 : i = 0
    OBVIOUS
  <2>2. g = [i \in 0..0 |-> AppendNext(strings, g, i)]
    BY Zenon, <2>1 DEF AppendNext
  <2> QED BY Zenon, <2>2, <1>3, <1>4
<1>5. CASE m # 0
  <2>1. m - 1 \in Nat /\ ~(m <= m - 1)
    BY <1>3, <1>5
  <2>2. PICK f : f = [i \in 0..(m - 1) |-> AppendNext(strings, f, i)]
    BY Zenon, <2>1, <1>2
  <2> DEFINE g == [i \in 0..m |-> IF i = m THEN AppendNext(strings, f, m) ELSE f[i]]
  <2>3. ASSUME NEW i \in 0..m PROVE g[i] = AppendNext(strings, g, i)
    <3>1. i # 0 => i - 1 \in 0..m /\ i - 1 # m
      BY <1>3
    <3>2. i # 0 => g[i - 1] = f[i - 1]
      BY Zenon, <3>1
    <3>3. i # m => i \in 0..(m - 1)
      BY <1>3
    <3>4. i # m => f[i] = AppendNext(strings, f, i)
      BY Zenon, <2>2, <3>3
    <3>5. g[i] = AppendNext(strings, f, i)
      <4>1. g[i] = IF i = m THEN AppendNext(strings, f, m) ELSE f[i]
        BY Zenon
      <4> HIDE DEF g
      <4> QED BY <4>1, <3>4
    <3> HIDE DEF g
    <3>6. AppendNext(strings, g, i) = AppendNext(strings, f, i)
      BY Zenon, <3>2 DEF AppendNext
    <3> QED BY Zenon, <3>5, <3>6
  <2>4. g = [i \in 0..m |-> AppendNext(strings, g, i)]
    BY Zenon, <2>3
  <2> QED BY Zenon, <2>4, <1>3
<1> QED BY Zenon, <1>4, <1>5

\* The recursive function of AppendAll.
UpTo(strings, m) == CHOOSE f : f = [n \in 0..m |-> AppendNext(strings, f, n)]

\* One step of AppendAll.
LEMMA UpToStep ==
    ASSUME NEW strings, NEW m \in Nat, NEW n \in 0..m
    PROVE  UpTo(strings, m)[n] = AppendNext(strings, UpTo(strings, m), n)
<1>1. UpTo(strings, m) = [i \in 0..m |-> AppendNext(strings, UpTo(strings, m), i)]
  BY Zenon, UpToExists DEF UpTo
<1> DEFINE g == [i \in 0..m |-> AppendNext(strings, UpTo(strings, m), i)]
<1>2. g[n] = AppendNext(strings, UpTo(strings, m), n)
  BY Zenon
<1> QED BY Zenon, <1>1, <1>2

\* AppendAll of the first n strings depends on those only.
LEMMA UpToAgrees ==
    ASSUME NEW s, NEW t, NEW n \in Nat, NEW m \in Nat, n <= m,
           \A i \in 1..n : s[i] = t[i]
    PROVE  UpTo(s, n)[n] = UpTo(t, m)[n]
<1> DEFINE Bad == {i \in 0..n : UpTo(s, n)[i] # UpTo(t, m)[i]}
<1>1. SUFFICES ASSUME Bad # {} PROVE FALSE
  <2>1. n \in 0..n OBVIOUS
  <2> QED BY Zenon, <2>1
<1>2. PICK i \in Bad : \A j \in Bad : i <= j
  <2>1. Bad \in SUBSET Nat OBVIOUS
  <2> QED BY Zenon, <1>1, <2>1, LeastNumber
<1>3. i \in 0..n /\ UpTo(s, n)[i] # UpTo(t, m)[i]
  BY Zenon, <1>2
<1>4. i \in 0..m /\ (i # 0 => i \in 1..n /\ i - 1 \in 0..n /\ ~(i <= i - 1))
  BY <1>3
<1>5. i # 0 => UpTo(s, n)[i - 1] = UpTo(t, m)[i - 1]
  BY Zenon, <1>2, <1>4
<1>6. /\ UpTo(s, n)[i] = AppendNext(s, UpTo(s, n), i)
      /\ UpTo(t, m)[i] = AppendNext(t, UpTo(t, m), i)
  BY Zenon, <1>3, <1>4, UpToStep
<1>7. i # 0 => s[i] = t[i]
  BY Zenon, <1>4
<1> QED BY Zenon, <1>3, <1>5, <1>6, <1>7 DEF AppendNext

\* Strings of cells append to a string of cells.
LEMMA AppendAllTyped ==
    ASSUME NEW S, NEW strings \in Seq(Seq(S))
    PROVE  AppendAll(strings) \in Seq(S)
<1> DEFINE m == Len(strings)
           Bad == {i \in 0..m : UpTo(strings, m)[i] \notin Seq(S)}
<1>1. m \in Nat /\ m \in 0..m
  OBVIOUS
<1>2. AppendAll(strings) = UpTo(strings, m)[m]
  BY Zenon DEF AppendAll, UpTo, AppendNext
<1>3. \A i \in 1..m : strings[i] \in Seq(S)
  OBVIOUS
<1> HIDE DEF m
<1>4. SUFFICES ASSUME Bad # {} PROVE FALSE
  BY Zenon, <1>1, <1>2
<1>5. PICK i \in Bad : \A j \in Bad : i <= j
  <2>1. Bad \in SUBSET Nat BY <1>1
  <2> QED BY Zenon, <1>4, <2>1, LeastNumber
<1>6. i \in 0..m /\ UpTo(strings, m)[i] \notin Seq(S)
  BY Zenon, <1>5
<1>7. i # 0 => i \in 1..m /\ i - 1 \in 0..m /\ ~(i <= i - 1)
  BY <1>6, <1>1
<1>8. i # 0 => UpTo(strings, m)[i - 1] \in Seq(S) /\ strings[i] \in Seq(S)
  BY Zenon, <1>3, <1>5, <1>7
<1>9. UpTo(strings, m)[i] = AppendNext(strings, UpTo(strings, m), i)
  BY Zenon, <1>1, <1>6, UpToStep
<1>10. <<>> \in Seq(S) /\ \A a, b \in Seq(S) : a \o b \in Seq(S)
  OBVIOUS
<1> QED BY Zenon, <1>6, <1>8, <1>9, <1>10 DEF AppendNext

\* Nothing appended is the empty string.
LEMMA AppendAllEmpty == AppendAll(<<>>) = <<>>
<1>1. 0 \in 0..0 /\ 0 \in Nat /\ Len(<<>>) = 0
  OBVIOUS
<1>2. AppendAll(<<>>) = UpTo(<<>>, 0)[0]
  BY Zenon, <1>1 DEF AppendAll, UpTo, AppendNext
<1>3. UpTo(<<>>, 0)[0] = AppendNext(<<>>, UpTo(<<>>, 0), 0)
  BY Zenon, <1>1, UpToStep
<1> QED BY Zenon, <1>2, <1>3 DEF AppendNext

\* One more string goes to the end: what rep_.append does in BlockBuilder::Add.
LEMMA AppendAllAppend ==
    ASSUME NEW S, NEW strings \in Seq(Seq(S)), NEW t \in Seq(S)
    PROVE  AppendAll(Append(strings, t)) = AppendAll(strings) \o t
<1> DEFINE more == Append(strings, t)
           n == Len(strings)
           m == n + 1
<1>1. n \in Nat /\ Len(more) = m /\ more[m] = t /\ \A i \in 1..n : strings[i] = more[i]
  OBVIOUS
<1>2. m \in Nat /\ m \in 0..m /\ n <= m /\ m # 0 /\ m - 1 = n
  BY <1>1
<1>3. AppendAll(strings) = UpTo(strings, n)[n]
  BY Zenon DEF AppendAll, UpTo, AppendNext
<1>4. AppendAll(more) = UpTo(more, Len(more))[Len(more)]
  <2> HIDE DEF more
  <2> QED BY Zenon DEF AppendAll, UpTo, AppendNext
<1> HIDE DEF more, n, m
<1>5. UpTo(more, m)[m] = AppendNext(more, UpTo(more, m), m)
  BY Zenon, <1>2, UpToStep
<1>6. UpTo(strings, n)[n] = UpTo(more, m)[n]
  BY <1>1, <1>2, UpToAgrees
<1>7. AppendAll(more) = AppendAll(strings) \o t
  BY Zenon, <1>1, <1>2, <1>3, <1>4, <1>5, <1>6 DEF AppendNext
<1> QED BY Zenon, <1>7 DEF more

-----------------------------------------------------------------------------
(* The encoding of entries *)

\* Cells of entries.
EntryCells == {"entry"} \X Keys \X Nat

\* An entry takes EntrySize cells, of which the first says its key.
LEMMA EntryEncoded ==
    ASSUME NEW k \in Keys
    PROVE  /\ EncodeEntry(k) \in Seq(EntryCells)
           /\ Len(EncodeEntry(k)) = EntrySize[k]
           /\ EntrySize[k] \in Nat \ {0}
           /\ EncodeEntry(k)[1] = <<"entry", k, 1>>
<1>1. EntrySize[k] \in Nat \ {0}
  BY SizeAssumption
<1>2. \A c \in 1..EntrySize[k] : Cell("entry", k, c) \in EntryCells
  BY <1>1 DEF Cell, EntryCells
<1>3. EncodeEntry(k) \in [1..EntrySize[k] -> EntryCells]
  BY <1>2, Zenon DEF EncodeEntry
<1>4. EncodeEntry(k) \in Seq(EntryCells) /\ Len(EncodeEntry(k)) = EntrySize[k]
  BY <1>1, <1>3
<1>5. 1 \in 1..EntrySize[k]
  BY <1>1
<1>6. EncodeEntry(k)[1] = <<"entry", k, 1>>
  BY <1>5 DEF EncodeEntry, Cell
<1> QED BY <1>1, <1>4, <1>6

\* The entries of a block, each encoded.
Entries(keys) == [i \in DOMAIN keys |-> EncodeEntry(keys[i])]

\* As many encoded entries as keys.
LEMMA EntriesTyped ==
    ASSUME NEW keys \in Seq(Keys)
    PROVE  Entries(keys) \in Seq(Seq(EntryCells)) /\ Len(Entries(keys)) = Len(keys)
<1>1. \A i \in 1..Len(keys) : EncodeEntry(keys[i]) \in Seq(EntryCells)
  BY EntryEncoded
<1>2. DOMAIN keys = 1..Len(keys)
  OBVIOUS
<1>3. Entries(keys) \in [1..Len(keys) -> Seq(EntryCells)]
  BY Zenon, <1>1, <1>2 DEF Entries
<1> QED BY <1>3

\* A data block consists of cells of entries.
LEMMA EncodeTyped ==
    ASSUME NEW keys \in Seq(Keys)
    PROVE  Encode(keys) \in Seq(EntryCells)
BY Zenon, EntriesTyped, AppendAllTyped DEF Encode, Entries

\* BlockBuilder after Reset is empty.
LEMMA EncodeEmpty == Encode(<<>>) = <<>>
<1>1. Entries(<<>>) = <<>>
  <2>1. <<>> \in Seq(Keys) /\ Len(<<>>) = 0
    OBVIOUS
  <2>2. Entries(<<>>) \in Seq(Seq(EntryCells)) /\ Len(Entries(<<>>)) = 0
    BY Zenon, <2>1, EntriesTyped
  <2> QED BY <2>2
<1> QED BY Zenon, <1>1, AppendAllEmpty DEF Encode, Entries

\* BlockBuilder::Add appends the entry to what the block has.
LEMMA EncodeAppend ==
    ASSUME NEW keys \in Seq(Keys), NEW k \in Keys
    PROVE  Encode(Append(keys, k)) = Encode(keys) \o EncodeEntry(k)
<1> DEFINE more == Append(keys, k)
<1>1. more \in Seq(Keys) /\ Len(more) = Len(keys) + 1 /\ more[Len(keys) + 1] = k
      /\ \A i \in 1..Len(keys) : more[i] = keys[i]
  OBVIOUS
<1>2. Entries(more) = Append(Entries(keys), EncodeEntry(k))
  <2> DEFINE a == Entries(more)
             b == Append(Entries(keys), EncodeEntry(k))
  <2>1. a \in Seq(Seq(EntryCells)) /\ Len(a) = Len(keys) + 1
    BY Zenon, <1>1, EntriesTyped
  <2>2. /\ b \in Seq(Seq(EntryCells)) /\ Len(b) = Len(keys) + 1
        /\ b[Len(keys) + 1] = EncodeEntry(k)
        /\ \A i \in 1..Len(keys) : b[i] = Entries(keys)[i]
    <3>1. Entries(keys) \in Seq(Seq(EntryCells)) /\ Len(Entries(keys)) = Len(keys)
      BY EntriesTyped
    <3>2. EncodeEntry(k) \in Seq(EntryCells)
      BY EntryEncoded
    <3> QED BY <3>1, <3>2
  <2>3. \A i \in 1..Len(keys) : a[i] = EncodeEntry(keys[i]) /\ Entries(keys)[i] = EncodeEntry(keys[i])
    <3> HIDE DEF more
    <3> QED BY <1>1 DEF Entries
  <2>4. a[Len(keys) + 1] = EncodeEntry(k)
    <3> HIDE DEF more
    <3> QED BY <1>1 DEF Entries
  <2> HIDE DEF a, b
  <2>5. \A i \in 1..(Len(keys) + 1) : a[i] = b[i]
    <3> TAKE i \in 1..(Len(keys) + 1)
    <3>1. i = Len(keys) + 1 \/ i \in 1..Len(keys) OBVIOUS
    <3> QED BY <3>1, <2>2, <2>3, <2>4
  <2>6. a = b
    BY <2>1, <2>2, <2>5
  <2> QED BY <2>6 DEF a, b
<1>3. AppendAll(Append(Entries(keys), EncodeEntry(k))) =
      AppendAll(Entries(keys)) \o EncodeEntry(k)
  BY Zenon, EntriesTyped, EntryEncoded, AppendAllAppend
<1> QED BY Zenon, <1>2, <1>3 DEF Encode, Entries

-----------------------------------------------------------------------------
(* Prefixes of the entries, and how far they reach *)

\* The entries that are added when n are.
First(keys, n) == SubSeq(keys, 1, n)

\* Adding one entry.
LEMMA FirstStep ==
    ASSUME NEW S, NEW keys \in Seq(S), NEW n \in 0..(Len(keys) - 1)
    PROVE  /\ First(keys, n) \in Seq(S) /\ Len(First(keys, n)) = n
           /\ n + 1 \in DOMAIN keys /\ keys[n + 1] \in S
           /\ First(keys, n + 1) = Append(First(keys, n), keys[n + 1])
<1>1. n \in Nat /\ n + 1 \in 1..Len(keys) /\ Len(keys) \in Nat
  OBVIOUS
<1>2. First(keys, n) \in Seq(S) /\ Len(First(keys, n)) = n
      /\ \A i \in 1..n : First(keys, n)[i] = keys[i]
  BY <1>1 DEF First
<1>3. First(keys, n + 1) \in Seq(S) /\ Len(First(keys, n + 1)) = n + 1
      /\ \A i \in 1..(n + 1) : First(keys, n + 1)[i] = keys[i]
  BY <1>1 DEF First
<1>4. n + 1 \in DOMAIN keys /\ keys[n + 1] \in S
  BY <1>1
<1> DEFINE a == First(keys, n + 1)
           b == Append(First(keys, n), keys[n + 1])
<1>5. b \in Seq(S) /\ Len(b) = n + 1 /\ b[n + 1] = keys[n + 1]
      /\ \A i \in 1..n : b[i] = keys[i]
  BY <1>1, <1>2, <1>4
<1>6. a = b
  <2> HIDE DEF b
  <2>1. \A i \in 1..(n + 1) : a[i] = b[i]
    <3> TAKE i \in 1..(n + 1)
    <3>1. i \in 1..n \/ i = n + 1 BY <1>1
    <3> QED BY <3>1, <1>3, <1>5
  <2> QED BY <2>1, <1>3, <1>5
<1> QED BY <1>2, <1>4, <1>6

\* No entries, and all of them.
LEMMA FirstEnds ==
    ASSUME NEW S, NEW keys \in Seq(S)
    PROVE  First(keys, 0) = <<>> /\ First(keys, Len(keys)) = keys
BY DEF First

\* BlockBuilder::EstimatedSize after n entries.
Extent(keys, n) == Len(Encode(First(keys, n)))

\* Entry n + 1 begins where n entries end, and leaves those as they are.
LEMMA ExtentStep ==
    ASSUME NEW keys \in Seq(Keys), NEW n \in 0..(Len(keys) - 1)
    PROVE  /\ Extent(keys, n) \in Nat
           /\ Extent(keys, n + 1) = Extent(keys, n) + EntrySize[keys[n + 1]]
           /\ EntrySize[keys[n + 1]] \in Nat \ {0}
           /\ Encode(First(keys, n + 1)) \in Seq(EntryCells)
           /\ \A j \in 1..Extent(keys, n) :
                 Encode(First(keys, n + 1))[j] = Encode(First(keys, n))[j]
           /\ Encode(First(keys, n + 1))[Extent(keys, n) + 1] =
                 <<"entry", keys[n + 1], 1>>
<1> DEFINE k == keys[n + 1]
           a == Encode(First(keys, n))
           e == EncodeEntry(k)
<1>1. First(keys, n) \in Seq(Keys) /\ k \in Keys
      /\ First(keys, n + 1) = Append(First(keys, n), k)
  BY FirstStep
<1>2. a \in Seq(EntryCells) /\ Extent(keys, n) = Len(a)
  BY <1>1, EncodeTyped DEF Extent
<1>3. e \in Seq(EntryCells) /\ Len(e) = EntrySize[k] /\ EntrySize[k] \in Nat \ {0}
      /\ e[1] = <<"entry", k, 1>>
  BY Zenon, <1>1, EntryEncoded
<1>4. Encode(First(keys, n + 1)) = a \o e
  BY Zenon, <1>1, EncodeAppend
<1>5. Extent(keys, n + 1) = Len(a \o e)
  BY Zenon, <1>4 DEF Extent
<1> HIDE DEF k, a, e
<1>6. /\ a \o e \in Seq(EntryCells)
      /\ Len(a \o e) = Len(a) + EntrySize[k] /\ Len(a) \in Nat
      /\ \A j \in 1..Len(a) : (a \o e)[j] = a[j]
      /\ (a \o e)[Len(a) + 1] = e[1]
  <2>1. 1 \in 1..Len(e) BY <1>3
  <2>2. Joined(EntryCells, a, e)
    BY Zenon, <1>2, <1>3, JoinFacts
  <2> QED BY Zenon, <1>3, <2>1, <2>2 DEF Joined
<1> QED BY Zenon, <1>2, <1>3, <1>4, <1>5, <1>6 DEF k, a

\* Entries are not empty, and the block has those of every prefix at the same place.
LEMMA ExtentGrows ==
    ASSUME NEW keys \in Seq(Keys), NEW n \in 0..Len(keys)
    PROVE  /\ Extent(keys, n) \in Nat
           /\ n <= Extent(keys, n)
           /\ Extent(keys, n) <= Len(Encode(keys))
           /\ \A j \in 1..Extent(keys, n) : Encode(keys)[j] = Encode(First(keys, n))[j]
<1>0. Len(keys) \in Nat /\ n \in Nat
  OBVIOUS
<1>1. \A m \in 0..Len(keys) : Extent(keys, m) \in Nat /\ m <= Extent(keys, m)
  <2> DEFINE Bad == {m \in 0..Len(keys) : ~(Extent(keys, m) \in Nat /\ m <= Extent(keys, m))}
  <2>1. SUFFICES ASSUME Bad # {} PROVE FALSE
    OBVIOUS
  <2>2. PICK m \in Bad : \A j \in Bad : m <= j
    <3>1. Bad \in SUBSET Nat OBVIOUS
    <3> QED BY Zenon, <2>1, <3>1, LeastNumber
  <2>3. m \in 0..Len(keys) /\ ~(Extent(keys, m) \in Nat /\ m <= Extent(keys, m))
    OBVIOUS
  <2>4. CASE m = 0
    <3>1. Extent(keys, 0) = 0
      <4>1. Extent(keys, 0) = Len(<<>>)
        BY Zenon, EncodeEmpty, FirstEnds DEF Extent
      <4> QED BY <4>1
    <3> QED BY <2>3, <2>4, <3>1
  <2>5. CASE m # 0
    <3> DEFINE p == m - 1
    <3>1. p \in 0..(Len(keys) - 1) /\ p \in 0..Len(keys) /\ m = p + 1 /\ ~(m <= p)
      BY <2>3, <2>5
    <3>2. Extent(keys, p) \in Nat /\ p <= Extent(keys, p)
      BY <2>2, <3>1
    <3> HIDE DEF p
    <3>3. /\ Extent(keys, p + 1) = Extent(keys, p) + EntrySize[keys[p + 1]]
          /\ EntrySize[keys[p + 1]] \in Nat \ {0}
      BY <3>1, ExtentStep
    <3>4. Extent(keys, p + 1) \in Nat /\ p + 1 <= Extent(keys, p + 1)
      BY <3>1, <3>2, <3>3
    <3> QED BY <2>3, <3>1, <3>4
  <2> QED BY <2>4, <2>5
<1> DEFINE Covers(m) == /\ Extent(keys, n) <= Extent(keys, m)
                        /\ \A j \in 1..Extent(keys, n) :
                              Encode(First(keys, m))[j] = Encode(First(keys, n))[j]
<1>2. \A m \in n..Len(keys) : Covers(m)
  <2> DEFINE Bad == {m \in n..Len(keys) : ~Covers(m)}
  <2>1. SUFFICES ASSUME Bad # {} PROVE FALSE
    OBVIOUS
  <2> HIDE DEF Covers
  <2>2. PICK m \in Bad : \A j \in Bad : m <= j
    <3>1. Bad \in SUBSET Nat BY <1>0
    <3> QED BY Zenon, <2>1, <3>1, LeastNumber
  <2>3. m \in n..Len(keys) /\ ~Covers(m)
    OBVIOUS
  <2>4. CASE m = n
    <3>1. Covers(n) BY <1>1 DEF Covers
    <3> QED BY <2>3, <2>4, <3>1
  <2>5. CASE m # n
    <3> DEFINE p == m - 1
    <3>1. p \in 0..(Len(keys) - 1) /\ p \in n..Len(keys) /\ p \in 0..Len(keys) /\ m = p + 1 /\ ~(m <= p)
      BY <2>3, <2>5, <1>0
    <3>2. Covers(p)
      BY <2>2, <3>1
    <3> HIDE DEF p
    <3>3. /\ Extent(keys, p + 1) = Extent(keys, p) + EntrySize[keys[p + 1]]
          /\ EntrySize[keys[p + 1]] \in Nat \ {0}
          /\ \A j \in 1..Extent(keys, p) :
                Encode(First(keys, p + 1))[j] = Encode(First(keys, p))[j]
      BY <3>1, ExtentStep
    <3>4. Extent(keys, n) \in Nat /\ Extent(keys, p) \in Nat
      BY <1>1, <3>1
    <3>5. Extent(keys, n) <= Extent(keys, p)
          /\ \A j \in 1..Extent(keys, n) :
                Encode(First(keys, p))[j] = Encode(First(keys, n))[j]
      BY <3>2 DEF Covers
    <3>6. Extent(keys, n) <= Extent(keys, p + 1)
      BY <3>3, <3>4, <3>5
    <3>7. ASSUME NEW j \in 1..Extent(keys, n)
          PROVE  Encode(First(keys, p + 1))[j] = Encode(First(keys, n))[j]
      <4>1. j \in 1..Extent(keys, p) BY <3>4, <3>5
      <4> QED BY Zenon, <4>1, <3>3, <3>5
    <3>8. Covers(p + 1)
      BY Zenon, <3>6, <3>7 DEF Covers
    <3> QED BY <3>1, <3>8, <2>3
  <2> QED BY <2>4, <2>5
<1>3. Covers(Len(keys))
  <2> HIDE DEF Covers
  <2>1. Len(keys) \in n..Len(keys) BY <1>0
  <2> QED BY <2>1, <1>2
<1>4. First(keys, Len(keys)) = keys /\ Extent(keys, Len(keys)) = Len(Encode(keys))
  BY Zenon, FirstEnds DEF Extent
<1> QED BY Zenon, <1>1, <1>3, <1>4

-----------------------------------------------------------------------------
(* What Next reads of an encoded block *)

\* The body of the recursion in KeysOf: one call of Next.
ReadEntry(cells, f, n) ==
    IF n = 0 THEN [keys |-> <<>>, offset |-> 0]
    ELSE LET before == f[n - 1]
             key == cells[before.offset + 1][2]
         IN  IF before.offset < Len(cells)
             THEN [keys |-> Append(before.keys, key),
                   offset |-> before.offset + EntrySize[key]]
             ELSE before

\* The recursion of KeysOf defines a function.
LEMMA ReadExists ==
    ASSUME NEW cells, NEW n \in Nat
    PROVE  \E f : f = [i \in 0..n |-> ReadEntry(cells, f, i)]
<1> DEFINE Bad == {m \in Nat : ~\E f : f = [i \in 0..m |-> ReadEntry(cells, f, i)]}
<1>1. SUFFICES ASSUME Bad # {} PROVE FALSE
  OBVIOUS
<1>2. PICK m \in Bad : \A y \in Bad : m <= y
  BY Zenon, <1>1, LeastNumber
<1>3. m \in Nat /\ ~\E f : f = [i \in 0..m |-> ReadEntry(cells, f, i)]
  OBVIOUS
<1>4. CASE m = 0
  <2> DEFINE g == [i \in 0..0 |-> [keys |-> <<>>, offset |-> 0]]
  <2>1. \A i \in 0..0 : i = 0
    OBVIOUS
  <2>2. g = [i \in 0..0 |-> ReadEntry(cells, g, i)]
    BY Zenon, <2>1 DEF ReadEntry
  <2> QED BY Zenon, <2>2, <1>3, <1>4
<1>5. CASE m # 0
  <2>1. m - 1 \in Nat /\ m - 1 \notin Bad
    BY <1>2, <1>3, <1>5
  <2>2. PICK f : f = [i \in 0..(m - 1) |-> ReadEntry(cells, f, i)]
    BY <2>1
  <2> DEFINE g == [i \in 0..m |-> IF i = m THEN ReadEntry(cells, f, m) ELSE f[i]]
  <2>3. ASSUME NEW i \in 0..m PROVE g[i] = ReadEntry(cells, g, i)
    <3>1. i # 0 => g[i - 1] = f[i - 1]
      BY <1>3
    <3>2. i # m => f[i] = ReadEntry(cells, f, i)
      <4>1. SUFFICES ASSUME i # m PROVE f[i] = ReadEntry(cells, f, i)
        OBVIOUS
      <4>2. i \in 0..(m - 1) BY <4>1, <1>3
      <4> HIDE DEF g
      <4> QED BY Zenon, <2>2, <4>2
    <3>3. g[i] = ReadEntry(cells, f, i)
      <4>1. g[i] = IF i = m THEN ReadEntry(cells, f, m) ELSE f[i] BY Zenon
      <4> HIDE DEF g
      <4> QED BY <4>1, <3>2
    <3> HIDE DEF g
    <3>4. ReadEntry(cells, g, i) = ReadEntry(cells, f, i)
      BY Zenon, <3>1 DEF ReadEntry
    <3> QED BY Zenon, <3>3, <3>4
  <2>4. g = [i \in 0..m |-> ReadEntry(cells, g, i)]
    BY Zenon, <2>3
  <2> QED BY Zenon, <2>4, <1>3
<1> QED BY <1>4, <1>5

\* The recursive function of KeysOf.
Read(cells) ==
    CHOOSE f : f = [i \in 0..Len(cells) |-> ReadEntry(cells, f, i)]

\* One call of Next.
LEMMA ReadStep ==
    ASSUME NEW cells, Len(cells) \in Nat, NEW n \in 0..Len(cells)
    PROVE  Read(cells)[n] = ReadEntry(cells, Read(cells), n)
<1>1. Read(cells) = [i \in 0..Len(cells) |-> ReadEntry(cells, Read(cells), i)]
  BY Zenon, ReadExists DEF Read
<1> DEFINE g == [i \in 0..Len(cells) |-> ReadEntry(cells, Read(cells), i)]
<1>2. g[n] = ReadEntry(cells, Read(cells), n)
  BY Zenon
<1> QED BY Zenon, <1>1, <1>2

\* KeysOf is where that function ends.
LEMMA KeysOfIsRead ==
    ASSUME NEW cells
    PROVE  KeysOf(cells) = Read(cells)[Len(cells)].keys
BY Zenon DEF KeysOf, Read, ReadEntry

\* BlockIterator::Next finds the entries that BlockBuilder::Add wrote, each once
\* and in order, and then the end of the block.
LEMMA KeysReadBack ==
    ASSUME NEW keys \in Seq(Keys)
    PROVE  KeysOf(Encode(keys)) = keys
<1> DEFINE cells == Encode(keys)
           Right(n) == Read(cells)[n] = [keys |-> First(keys, n), offset |-> Extent(keys, n)]
           Done(n) == Read(cells)[n] = [keys |-> keys, offset |-> Len(cells)]
<1>1. cells \in Seq(EntryCells) /\ Len(cells) \in Nat /\ Len(keys) \in Nat
  BY EncodeTyped
<1>2. Len(keys) <= Len(cells) /\ Extent(keys, Len(keys)) = Len(cells)
  <2>1. Len(keys) \in 0..Len(keys) BY <1>1
  <2>2. Extent(keys, Len(keys)) = Len(cells)
    BY Zenon, FirstEnds DEF Extent
  <2> QED BY Zenon, <2>1, <2>2, ExtentGrows
<1> HIDE DEF cells
<1>3. \A n \in 0..Len(keys) : Right(n)
  <2> DEFINE Bad == {n \in 0..Len(keys) : ~Right(n)}
  <2>1. SUFFICES ASSUME Bad # {} PROVE FALSE
    BY Zenon
  <2> HIDE DEF Right
  <2>2. PICK n \in Bad : \A j \in Bad : n <= j
    <3>1. Bad \in SUBSET Nat OBVIOUS
    <3> QED BY Zenon, <2>1, <3>1, LeastNumber
  <2>3. n \in 0..Len(keys) /\ ~Right(n) /\ n \in 0..Len(cells)
    BY <1>1, <1>2
  <2>4. Read(cells)[n] = ReadEntry(cells, Read(cells), n)
    BY Zenon, <2>3, <1>1, ReadStep
  <2>5. CASE n = 0
    <3>1. Extent(keys, 0) = 0 /\ First(keys, 0) = <<>>
      <4>1. Extent(keys, 0) = Len(<<>>) /\ First(keys, 0) = <<>>
        BY Zenon, EncodeEmpty, FirstEnds DEF Extent
      <4>2. Len(<<>>) = 0 OBVIOUS
      <4> QED BY Zenon, <4>1, <4>2
    <3> QED BY Zenon, <2>3, <2>4, <2>5, <3>1 DEF Right, ReadEntry
  <2>6. CASE n # 0
    <3> DEFINE p == n - 1
               k == keys[p + 1]
    <3>1. p \in 0..(Len(keys) - 1) /\ p \in 0..Len(keys) /\ n = p + 1 /\ ~(n <= p)
          /\ p + 1 \in 0..Len(keys)
      BY <2>3, <2>6, <1>1
    <3> HIDE DEF p
    <3>2. Right(p)
      BY Zenon, <2>2, <3>1
    <3>3. /\ Extent(keys, p) \in Nat
          /\ Extent(keys, p + 1) = Extent(keys, p) + EntrySize[k]
          /\ EntrySize[k] \in Nat \ {0}
          /\ Encode(First(keys, p + 1))[Extent(keys, p) + 1] = <<"entry", k, 1>>
      BY Zenon, <3>1, ExtentStep
    <3>f. First(keys, p + 1) = Append(First(keys, p), k)
      BY Zenon, <3>1, FirstStep
    <3>4. /\ Extent(keys, p + 1) <= Len(cells)
          /\ \A j \in 1..Extent(keys, p + 1) : cells[j] = Encode(First(keys, p + 1))[j]
      BY Zenon, <3>1, ExtentGrows DEF cells
    <3> HIDE DEF k
    <3>5. Extent(keys, p) + 1 \in 1..Extent(keys, p + 1) /\ Extent(keys, p) < Len(cells)
      BY <3>3, <3>4, <1>1
    <3>6. cells[Extent(keys, p) + 1][2] = k
      <4>1. cells[Extent(keys, p) + 1] = <<"entry", k, 1>>
        BY Zenon, <3>3, <3>4, <3>5
      <4> QED BY <4>1
    <3>7. Read(cells)[n - 1] = [keys |-> First(keys, p), offset |-> Extent(keys, p)]
      BY Zenon, <3>2 DEF Right, p
    <3>8. n # 0 BY <2>6
    <3>9. Read(cells)[n - 1].offset = Extent(keys, p) /\ Read(cells)[n - 1].keys = First(keys, p)
      BY <3>7
    <3>10. Read(cells)[n] = [keys |-> Append(First(keys, p), k),
                             offset |-> Extent(keys, p) + EntrySize[k]]
      BY Zenon, <2>4, <3>8, <3>9, <3>5, <3>6 DEF ReadEntry
    <3> QED BY Zenon, <3>10, <3>3, <3>f, <3>1, <2>3 DEF Right
  <2> QED BY <2>5, <2>6
<1>4. \A n \in Len(keys)..Len(cells) : Done(n)
  <2> DEFINE Bad == {n \in Len(keys)..Len(cells) : ~Done(n)}
  <2>1. SUFFICES ASSUME Bad # {} PROVE FALSE
    BY Zenon
  <2>0. Done(Len(keys))
    <3>1. Len(keys) \in 0..Len(keys) BY <1>1
    <3> QED BY Zenon, <1>3, <1>2, <3>1, FirstEnds
  <2> HIDE DEF Done
  <2>2. PICK n \in Bad : \A j \in Bad : n <= j
    <3>1. Bad \in SUBSET Nat BY <1>1
    <3> QED BY Zenon, <2>1, <3>1, LeastNumber
  <2>3. n \in Len(keys)..Len(cells) /\ ~Done(n) /\ n \in 0..Len(cells)
    BY <1>1, <1>2
  <2>4. Read(cells)[n] = ReadEntry(cells, Read(cells), n)
    BY Zenon, <2>3, <1>1, ReadStep
  <2>5. n # Len(keys)
    BY Zenon, <2>0, <2>3
  <2>6. n - 1 \in Len(keys)..Len(cells) /\ ~(n <= n - 1) /\ n # 0
    BY <2>3, <2>5, <1>1
  <2>7. Done(n - 1)
    BY Zenon, <2>2, <2>6
  <2>8. Read(cells)[n - 1].offset = Len(cells)
    BY <2>7 DEF Done
  <2>9. ~(Len(cells) < Len(cells))
    BY <1>1
  <2>10. Read(cells)[n] = Read(cells)[n - 1]
    BY Zenon, <2>4, <2>6, <2>8, <2>9 DEF ReadEntry
  <2> QED BY Zenon, <2>3, <2>7, <2>10 DEF Done
<1>5. Read(cells)[Len(cells)].keys = keys
  <2>1. Len(cells) \in Len(keys)..Len(cells)
    BY <1>1, <1>2
  <2>2. Done(Len(cells))
    BY Zenon, <2>1, <1>4
  <2> QED BY <2>2
<1> QED BY Zenon, <1>5, KeysOfIsRead DEF cells

-----------------------------------------------------------------------------
(* The order of byte strings *)

\* Bytes are ordered.
LEMMA BytesOrdered ==
    \A x, y \in Byte :
        /\ x < y => y # x /\ ~(y < x)
        /\ x # y => (x < y /\ ~(y < x)) \/ (y < x /\ ~(x < y))
BY DEF Byte

\* The first n bytes are the same.
Agree(a, b, n) == \A i \in 1..n : a[i] = b[i]

\* The first byte in which two strings differ.
DifferAt(a, b, p) ==
    p \in DOMAIN a /\ p \in DOMAIN b /\ a[p] # b[p] /\ Agree(a, b, p - 1)

\* Slice::Compare decides at the first byte that differs.
LEMMA CompareAtDifference ==
    ASSUME NEW a \in Seq(Byte), NEW b \in Seq(Byte), NEW p, DifferAt(a, b, p)
    PROVE  SliceCompare(a, b) = IF a[p] < b[p] THEN -1 ELSE 1
<1> DEFINE differ == {i \in DOMAIN a \cap DOMAIN b : a[i] # b[i]}
<1>1. p \in differ /\ p \in Nat
  BY DEF DifferAt
<1>2. differ \in SUBSET Nat
  OBVIOUS
<1>3. Min(differ) \in differ /\ \A y \in differ : Min(differ) <= y
  <2> HIDE DEF differ
  <2> QED BY <1>1, <1>2, MinIsLeast
<1>4. Min(differ) = p
  <2> DEFINE m == Min(differ)
  <2>1. m \in Nat /\ m <= p /\ a[m] # b[m] /\ m >= 1
    <3>1. m \in differ /\ m <= p BY Zenon, <1>1, <1>3
    <3> HIDE DEF m
    <3> QED BY <3>1
  <2> HIDE DEF m
  <2>2. ~(m \in 1..(p - 1))
    BY Zenon, <2>1 DEF DifferAt, Agree
  <2>3. m = p BY <2>1, <2>2, <1>1
  <2> QED BY <2>3 DEF m
<1>5. differ # {} BY Zenon, <1>1
<1> QED BY Zenon, <1>4, <1>5 DEF SliceCompare

\* Slice::Compare decides by length if one is a prefix of the other.
LEMMA CompareAgreeing ==
    ASSUME NEW a \in Seq(Byte), NEW b \in Seq(Byte),
           \A i \in DOMAIN a \cap DOMAIN b : a[i] = b[i]
    PROVE  SliceCompare(a, b) =
             IF Len(a) < Len(b) THEN -1 ELSE IF Len(a) > Len(b) THEN 1 ELSE 0
<1>1. {i \in DOMAIN a \cap DOMAIN b : a[i] # b[i]} = {}
  OBVIOUS
<1> QED BY Zenon, <1>1 DEF SliceCompare

\* One of the two is the case.
LEMMA DifferOrAgree ==
    ASSUME NEW a \in Seq(Byte), NEW b \in Seq(Byte)
    PROVE  \/ \E p : DifferAt(a, b, p)
           \/ \A i \in DOMAIN a \cap DOMAIN b : a[i] = b[i]
<1> DEFINE differ == {i \in DOMAIN a \cap DOMAIN b : a[i] # b[i]}
<1>1. SUFFICES ASSUME differ # {} PROVE \E p : DifferAt(a, b, p)
  OBVIOUS
<1>2. differ \in SUBSET Nat
  OBVIOUS
<1>3. PICK p \in differ : \A y \in differ : p <= y
  <2> HIDE DEF differ
  <2> QED BY <1>1, <1>2, LeastNumber
<1>4. p \in DOMAIN a /\ p \in DOMAIN b /\ a[p] # b[p] /\ p \in Nat
  OBVIOUS
<1>5. ASSUME NEW i \in 1..(p - 1) PROVE a[i] = b[i]
  <2>1. i \in DOMAIN a /\ i \in DOMAIN b /\ ~(p <= i)
    BY <1>4
  <2>2. i \notin differ BY <1>3, <2>1
  <2> QED BY <2>1, <2>2
<1>6. DifferAt(a, b, p)
  BY Zenon, <1>4, <1>5 DEF DifferAt, Agree
<1> QED BY <1>6

\* Slice::Compare with its arguments swapped.
LEMMA CompareSwapped ==
    ASSUME NEW a \in Seq(Byte), NEW b \in Seq(Byte)
    PROVE  /\ SliceCompare(a, b) = -1 => SliceCompare(b, a) = 1
           /\ SliceCompare(a, b) = 0 => SliceCompare(b, a) = 0
           /\ SliceCompare(a, b) \in {-1, 0, 1}
<1>1. CASE \E p : DifferAt(a, b, p)
  <2>1. PICK p : DifferAt(a, b, p)
    BY <1>1
  <2>2. DifferAt(b, a, p)
    BY Zenon, <2>1 DEF DifferAt, Agree
  <2>3. a[p] \in Byte /\ b[p] \in Byte /\ a[p] # b[p]
    BY <2>1 DEF DifferAt
  <2>4. SliceCompare(a, b) = (IF a[p] < b[p] THEN -1 ELSE 1)
    BY Zenon, <2>1, CompareAtDifference
  <2>5. SliceCompare(b, a) = (IF b[p] < a[p] THEN -1 ELSE 1)
    BY Zenon, <2>2, CompareAtDifference
  <2>6. (a[p] < b[p] /\ ~(b[p] < a[p])) \/ (b[p] < a[p] /\ ~(a[p] < b[p]))
    BY Zenon, <2>3, BytesOrdered
  <2>7. \/ SliceCompare(a, b) = -1 /\ SliceCompare(b, a) = 1
        \/ SliceCompare(a, b) = 1 /\ SliceCompare(b, a) = -1
    BY Zenon, <2>4, <2>5, <2>6
  <2> QED BY <2>7
<1>2. CASE \A i \in DOMAIN a \cap DOMAIN b : a[i] = b[i]
  <2>1. SliceCompare(a, b) =
          (IF Len(a) < Len(b) THEN -1 ELSE IF Len(a) > Len(b) THEN 1 ELSE 0)
    BY Zenon, <1>2, CompareAgreeing
  <2>2. \A i \in DOMAIN b \cap DOMAIN a : b[i] = a[i]
    BY <1>2
  <2>3. SliceCompare(b, a) =
          (IF Len(b) < Len(a) THEN -1 ELSE IF Len(b) > Len(a) THEN 1 ELSE 0)
    BY Zenon, <2>2, CompareAgreeing
  <2>4. Len(a) \in Nat /\ Len(b) \in Nat
    OBVIOUS
  <2> QED BY <2>1, <2>3, <2>4
<1> QED BY Zenon, <1>1, <1>2, DifferOrAgree

\* An internal key: a user key without zero byte, and eight bytes of tag.
LEMMA KeyShape ==
    ASSUME NEW k \in Keys
    PROVE  /\ k \in Seq(Byte) /\ Len(k) \in Nat /\ Len(k) >= 8
           /\ UserKey(k) \in Seq(Byte) /\ Len(UserKey(k)) = Len(k) - 8
           /\ DOMAIN UserKey(k) = 1..(Len(k) - 8)
           /\ \A i \in 1..(Len(k) - 8) : UserKey(k)[i] = k[i] /\ k[i] # 0
           /\ Number(k) \in Seq(Byte)
<1> DEFINE u == UserKey(k)
<1>1. k \in Seq(Byte) /\ Len(k) \in Nat /\ Len(k) >= 8 /\ CString(u) = u
  BY KeysAssumption DEF kTagSize
<1>2. /\ u \in Seq(Byte) /\ Len(u) = Len(k) - 8 /\ DOMAIN u = 1..(Len(k) - 8)
      /\ \A i \in 1..(Len(k) - 8) : u[i] = k[i]
  <2> DEFINE n == Len(k) - 8
  <2>1. n \in 0..Len(k)
    BY <1>1
  <2>2. u = SubSeq(k, 1, n)
    BY Zenon DEF UserKey, kTagSize
  <2> HIDE DEF n, u
  <2>3. /\ u \in Seq(Byte) /\ Len(u) = n /\ DOMAIN u = 1..n
        /\ \A i \in 1..n : u[i] = k[i]
    BY <2>1, <2>2, <1>1, PrefixFacts
  <2> QED BY Zenon, <2>3 DEF n
<1> HIDE DEF u
<1>3. \A i \in DOMAIN u : u[i] # 0
  <2> DEFINE zeros == {i \in DOMAIN u : u[i] = 0}
  <2>1. SUFFICES ASSUME zeros # {} PROVE FALSE
    OBVIOUS
  <2>2. CString(u) = SubSeq(u, 1, Min(zeros) - 1)
    BY Zenon, <2>1 DEF CString
  <2>3. Min(zeros) \in zeros
    <3>1. zeros \in SUBSET Nat BY <1>2
    <3> HIDE DEF zeros
    <3> QED BY <2>1, <3>1, MinIsLeast
  <2> DEFINE z == Min(zeros)
  <2>4. z \in 1..Len(u)
    BY <2>3, <1>2
  <2> HIDE DEF z
  <2>5. Len(SubSeq(u, 1, z - 1)) = z - 1
    BY <1>2, <2>4
  <2>6. Len(u) = z - 1
    BY Zenon, <2>5, <2>2, <1>1 DEF z
  <2> QED BY <2>6, <2>4
<1>4. Number(k) \in Seq(Byte)
  <2>1. \A i \in 1..7 : Len(k) + 1 - i \in 1..Len(k)
    BY <1>1
  <2>2. \A i \in 1..7 : k[Len(k) + 1 - i] \in Byte
    BY <1>1, <2>1
  <2>3. 8 - 1 = 7
    OBVIOUS
  <2>4. Number(k) \in [1..7 -> Byte]
    BY Zenon, <2>2, <2>3 DEF Number, kTagSize
  <2>5. 7 \in Nat
    OBVIOUS
  <2> QED BY Zenon, <2>4, <2>5, RowIsSequence
<1> QED BY <1>1, <1>2, <1>3, <1>4 DEF u

-----------------------------------------------------------------------------
(* The assert of TableBuilder::Add, which compares with last_key.c_str() *)

\* u comes before v, or is v, or v extends it.
Precedes(u, v) ==
    \/ \E p : DifferAt(u, v, p) /\ u[p] < v[p]
    \/ Len(u) <= Len(v) /\ Agree(u, v, Len(u))

\* InternalKeyCompare looks at user keys first.
LEMMA LessPrecedes ==
    ASSUME NEW a \in Keys, NEW b \in Keys, Less(a, b)
    PROVE  Precedes(UserKey(a), UserKey(b))
<1> DEFINE u == UserKey(a)
           v == UserKey(b)
<1>1. u \in Seq(Byte) /\ v \in Seq(Byte) /\ Number(a) \in Seq(Byte) /\ Number(b) \in Seq(Byte)
  BY Zenon, KeyShape
<1>2. SliceCompare(u, v) = -1 \/ SliceCompare(u, v) = 0
  <2>1. InternalKeyCompare(a, b) = -1
    BY Zenon DEF Less
  <2> QED BY <2>1 DEF InternalKeyCompare
<1> HIDE DEF u, v
<1>3. CASE \E p : DifferAt(u, v, p)
  <2>1. PICK p : DifferAt(u, v, p)
    BY <1>3
  <2>2. SliceCompare(u, v) = (IF u[p] < v[p] THEN -1 ELSE 1)
    BY Zenon, <1>1, <2>1, CompareAtDifference
  <2>3. u[p] < v[p]
    BY <1>2, <2>2
  <2> QED BY Zenon, <2>1, <2>3 DEF Precedes, u, v
<1>4. CASE \A i \in DOMAIN u \cap DOMAIN v : u[i] = v[i]
  <2>1. SliceCompare(u, v) =
          (IF Len(u) < Len(v) THEN -1 ELSE IF Len(u) > Len(v) THEN 1 ELSE 0)
    BY Zenon, <1>1, <1>4, CompareAgreeing
  <2>2. Len(u) \in Nat /\ Len(v) \in Nat /\ DOMAIN u = 1..Len(u) /\ DOMAIN v = 1..Len(v)
    BY <1>1
  <2>3. Len(u) <= Len(v)
    BY <1>2, <2>1, <2>2
  <2>4. Agree(u, v, Len(u))
    <3>1. \A i \in 1..Len(u) : i \in 1..Len(v)
      BY <2>2, <2>3
    <3> QED BY Zenon, <3>1, <1>4, <2>2 DEF Agree
  <2> QED BY Zenon, <2>3, <2>4 DEF Precedes, u, v
<1> QED BY Zenon, <1>1, <1>3, <1>4, DifferOrAgree

\* c_str() keeps the user key and perhaps a part of the tag.
LEMMA CutShape ==
    ASSUME NEW k \in Keys
    PROVE  LET cut == CString(k) IN
           /\ cut \in Seq(Byte) /\ Len(cut) \in Nat
           /\ Len(cut) <= Len(k) /\ Len(k) - 8 <= Len(cut)
           /\ Agree(cut, k, Len(cut))
           /\ Len(cut) = Len(k) => cut = k
<1> DEFINE zeros == {i \in DOMAIN k : k[i] = 0}
           z == Min(zeros)
<1>1. /\ k \in Seq(Byte) /\ Len(k) \in Nat /\ Len(k) >= 8 /\ DOMAIN k = 1..Len(k)
      /\ \A i \in 1..(Len(k) - 8) : k[i] # 0
  BY KeyShape
<1>2. CASE zeros = {}
  <2>1. CString(k) = k
    BY Zenon, <1>2 DEF CString
  <2>2. Len(k) <= Len(k) /\ Len(k) - 8 <= Len(k)
    BY <1>1
  <2>3. Agree(k, k, Len(k))
    BY Zenon DEF Agree
  <2> QED BY Zenon, <2>1, <2>2, <2>3, <1>1
<1>3. CASE zeros # {}
  <2>1. CString(k) = SubSeq(k, 1, z - 1)
    BY Zenon, <1>3 DEF CString
  <2>2. z \in zeros
    <3>1. zeros \in SUBSET Nat BY <1>1
    <3> HIDE DEF zeros
    <3> QED BY <1>3, <3>1, MinIsLeast
  <2>3. z \in 1..Len(k) /\ k[z] = 0
    BY <2>2, <1>1
  <2> HIDE DEF z
  <2>4. ~(z <= Len(k) - 8)
    <3>1. z <= Len(k) - 8 => z \in 1..(Len(k) - 8)
      BY <1>1, <2>3
    <3> QED BY Zenon, <3>1, <2>3, <1>1
  <2>5. /\ SubSeq(k, 1, z - 1) \in Seq(Byte) /\ Len(SubSeq(k, 1, z - 1)) = z - 1
        /\ \A i \in 1..(z - 1) : SubSeq(k, 1, z - 1)[i] = k[i]
    BY <1>1, <2>3
  <2>6. z - 1 \in Nat /\ z - 1 <= Len(k) /\ Len(k) - 8 <= z - 1 /\ z - 1 # Len(k)
    BY <1>1, <2>3, <2>4
  <2> QED BY Zenon, <2>1, <2>5, <2>6 DEF Agree
<1> QED BY Zenon, <1>2, <1>3

\* When eight bytes or more are left by c_str(), the assert holds for every key that
\* follows in the order.
LEMMA LongKeysStayOrdered ==
    ASSUME NEW a \in Keys, NEW b \in Keys, Less(a, b), Len(CString(a)) >= 8
    PROVE  CompareWithCut(b, a) = 1
<1> DEFINE u == UserKey(a)
           v == UserKey(b)
           cut == CString(a)
           c == UserKey(cut)
<1>1. CompareWithCut(b, a) = InternalKeyCompare(b, cut)
  BY Zenon DEF CompareWithCut, kTagSize
<1>2. /\ u \in Seq(Byte) /\ v \in Seq(Byte) /\ Number(a) \in Seq(Byte) /\ Number(b) \in Seq(Byte)
      /\ a \in Seq(Byte) /\ Len(a) \in Nat /\ Len(u) = Len(a) - 8
      /\ \A i \in 1..(Len(a) - 8) : u[i] = a[i]
  BY Zenon, KeyShape
<1>3. CASE cut = a
  <2>1. InternalKeyCompare(a, b) = -1
    BY Zenon DEF Less
  <2>2. CASE SliceCompare(u, v) = 0
    <3>1. SliceCompare(Number(b), Number(a)) = -1
      BY Zenon, <2>1, <2>2 DEF InternalKeyCompare
    <3>2. SliceCompare(v, u) = 0 /\ SliceCompare(Number(a), Number(b)) = 1
      BY Zenon, <3>1, <2>2, <1>2, CompareSwapped
    <3> QED BY Zenon, <3>2, <1>1, <1>3 DEF InternalKeyCompare
  <2>3. CASE SliceCompare(u, v) # 0
    <3>1. SliceCompare(u, v) = -1
      BY Zenon, <2>1, <2>3 DEF InternalKeyCompare
    <3>2. SliceCompare(v, u) = 1
      BY Zenon, <3>1, <1>2, CompareSwapped
    <3>3. 1 # 0 OBVIOUS
    <3> QED BY Zenon, <3>2, <3>3, <1>1, <1>3 DEF InternalKeyCompare
  <2> QED BY Zenon, <2>2, <2>3
<1>4. CASE cut # a
  <2>1. /\ cut \in Seq(Byte) /\ Len(cut) \in Nat /\ Len(cut) <= Len(a)
        /\ Len(cut) # Len(a) /\ Agree(cut, a, Len(cut))
    BY Zenon, <1>4, CutShape
  <2> HIDE DEF cut
  <2>2. /\ c \in Seq(Byte) /\ Len(c) = Len(cut) - 8 /\ DOMAIN c = 1..(Len(cut) - 8)
        /\ \A i \in 1..(Len(cut) - 8) : c[i] = cut[i]
    <3>1. Len(cut) >= 8 BY Zenon DEF cut
    <3> DEFINE n == Len(cut) - 8
    <3>2. n \in 0..Len(cut) BY <2>1, <3>1
    <3>3. c = SubSeq(cut, 1, n) BY Zenon DEF UserKey, kTagSize
    <3> HIDE DEF n, c
    <3>4. /\ c \in Seq(Byte) /\ Len(c) = n /\ DOMAIN c = 1..n
          /\ \A i \in 1..n : c[i] = cut[i]
      BY <3>2, <3>3, <2>1, PrefixFacts
    <3> QED BY Zenon, <3>4 DEF n, c
  <2>3. Len(c) \in Nat /\ Len(c) < Len(u)
    BY <2>1, <2>2, <1>2
  <2>4. \A i \in 1..Len(c) : c[i] = u[i]
    <3> TAKE i \in 1..Len(c)
    <3>1. i \in 1..(Len(cut) - 8) /\ i \in 1..Len(cut) /\ i \in 1..(Len(a) - 8)
      BY <2>1, <2>2, <2>3, <1>2
    <3> QED BY Zenon, <3>1, <2>1, <2>2, <1>2 DEF Agree
  <2>5. Precedes(u, v)
    BY Zenon, LessPrecedes
  <2> HIDE DEF u, v, c
  <2>6. /\ Len(u) \in Nat /\ Len(v) \in Nat /\ DOMAIN u = 1..Len(u)
        /\ DOMAIN v = 1..Len(v) /\ DOMAIN c = 1..Len(c)
    BY <1>2, <2>2
  <2>7. SliceCompare(v, c) = 1
    <3>1. CASE \E p : DifferAt(u, v, p) /\ u[p] < v[p] /\ p \in DOMAIN c
      <4>1. PICK p : DifferAt(u, v, p) /\ u[p] < v[p] /\ p \in DOMAIN c
        BY <3>1
      <4>2. /\ p \in 1..Len(u) /\ p \in 1..Len(v) /\ p \in 1..Len(c)
            /\ \A i \in 1..(p - 1) : u[i] = v[i]
        BY Zenon, <4>1, <2>6 DEF DifferAt, Agree
      <4>3. c[p] = u[p]
        BY Zenon, <4>2, <2>4
      <4>4. u[p] \in Byte /\ v[p] \in Byte
        <5>1. u \in Seq(Byte) /\ v \in Seq(Byte) BY Zenon, <1>2
        <5> QED BY <4>2, <5>1
      <4>5. v[p] # c[p] /\ ~(v[p] < c[p])
        BY Zenon, <4>1, <4>3, <4>4, BytesOrdered
      <4>6. \A i \in 1..(p - 1) : v[i] = c[i]
        <5> TAKE i \in 1..(p - 1)
        <5>1. i \in 1..Len(c) BY <4>2, <2>3
        <5> QED BY Zenon, <5>1, <4>2, <2>4
      <4>7. DifferAt(v, c, p)
        BY Zenon, <4>2, <4>5, <4>6, <2>6 DEF DifferAt, Agree
      <4>8. SliceCompare(v, c) = (IF v[p] < c[p] THEN -1 ELSE 1)
        BY Zenon, <4>7, <1>2, <2>2, CompareAtDifference
      <4> QED BY Zenon, <4>5, <4>8
    <3>2. CASE ~\E p : DifferAt(u, v, p) /\ u[p] < v[p] /\ p \in DOMAIN c
      <4>1. Len(c) < Len(v) /\ \A i \in 1..Len(c) : v[i] = u[i]
        <5>1. CASE \E p : DifferAt(u, v, p) /\ u[p] < v[p]
          <6>1. PICK p : DifferAt(u, v, p) /\ u[p] < v[p]
            BY <5>1
          <6>2. /\ p \in 1..Len(u) /\ p \in 1..Len(v) /\ ~(p \in 1..Len(c))
                /\ \A i \in 1..(p - 1) : u[i] = v[i]
            BY Zenon, <6>1, <3>2, <2>6 DEF DifferAt, Agree
          <6>3. Len(c) < Len(v) /\ \A i \in 1..Len(c) : i \in 1..(p - 1)
            BY <6>2, <2>3, <2>6
          <6> QED BY Zenon, <6>2, <6>3
        <5>2. CASE Len(u) <= Len(v) /\ Agree(u, v, Len(u))
          <6>1. Len(c) < Len(v) /\ \A i \in 1..Len(c) : i \in 1..Len(u)
            BY <5>2, <2>3, <2>6
          <6> QED BY Zenon, <5>2, <6>1 DEF Agree
        <5> QED BY Zenon, <5>1, <5>2, <2>5 DEF Precedes
      <4>2. \A i \in DOMAIN v \cap DOMAIN c : v[i] = c[i]
        BY Zenon, <4>1, <2>4, <2>6
      <4>3. SliceCompare(v, c) =
              (IF Len(v) < Len(c) THEN -1 ELSE IF Len(v) > Len(c) THEN 1 ELSE 0)
        BY Zenon, <4>2, <1>2, <2>2, CompareAgreeing
      <4> QED BY <4>1, <4>3, <2>3, <2>6
    <3> QED BY Zenon, <3>1, <3>2
  <2>8. 1 # 0 OBVIOUS
  <2> QED BY Zenon, <2>7, <2>8, <1>1 DEF InternalKeyCompare, v, c
<1> QED BY Zenon, <1>3, <1>4

\* So when the assert fails for a key that follows, the last key was short and the
\* new user key begins with it.
LEMMA MisorderedIsShort ==
    ASSUME NEW a \in Keys, NEW b \in Keys, Less(a, b), CompareWithCut(b, a) # 1
    PROVE  Len(CString(a)) < 8 /\ StartsWith(UserKey(b), UserKey(a))
<1> DEFINE u == UserKey(a)
           v == UserKey(b)
<1>1. Len(CString(a)) < 8 /\ ~(Len(CString(a)) >= 8)
  <2>1. ~(Len(CString(a)) >= 8)
    BY Zenon, LongKeysStayOrdered
  <2>2. Len(CString(a)) \in Nat
    BY Zenon, CutShape
  <2> QED BY <2>1, <2>2
<1>2. /\ u \in Seq(Byte) /\ v \in Seq(Byte) /\ a \in Seq(Byte) /\ Len(a) \in Nat
      /\ Len(u) = Len(a) - 8 /\ \A i \in 1..(Len(a) - 8) : u[i] = a[i]
  BY Zenon, KeyShape
<1>3. Precedes(u, v)
  BY Zenon, LessPrecedes
<1>4. CompareWithCut(b, a) = IF StartsWith(a, v) THEN -1 ELSE SliceCompare(v, a)
  BY Zenon, <1>1 DEF CompareWithCut, kTagSize
<1> HIDE DEF u, v
<1>5. ASSUME NEW p, DifferAt(u, v, p), u[p] < v[p] PROVE FALSE
  <2>1. /\ p \in 1..Len(u) /\ p \in 1..Len(v) /\ p \in 1..Len(a)
        /\ DOMAIN v = 1..Len(v) /\ DOMAIN a = 1..Len(a)
        /\ \A i \in 1..(p - 1) : u[i] = v[i]
    <3>1. p \in DOMAIN u /\ p \in DOMAIN v /\ \A i \in 1..(p - 1) : u[i] = v[i]
      BY Zenon, <1>5 DEF DifferAt, Agree
    <3> QED BY <3>1, <1>2
  <2>2. a[p] = u[p] /\ \A i \in 1..(p - 1) : a[i] = v[i]
    <3>1. p \in 1..(Len(a) - 8) /\ \A i \in 1..(p - 1) : i \in 1..(Len(a) - 8)
      BY <2>1, <1>2
    <3> QED BY Zenon, <3>1, <2>1, <1>2
  <2>3. u[p] \in Byte /\ v[p] \in Byte
    <3>1. u \in Seq(Byte) /\ v \in Seq(Byte) BY Zenon, <1>2
    <3> QED BY <2>1, <3>1
  <2>4. v[p] # a[p] /\ ~(v[p] < a[p])
    BY Zenon, <1>5, <2>2, <2>3, BytesOrdered
  <2>5. DifferAt(v, a, p)
    BY Zenon, <2>1, <2>2, <2>4 DEF DifferAt, Agree
  <2>6. SliceCompare(v, a) = 1
    BY Zenon, <2>4, <2>5, <1>2, CompareAtDifference
  <2>7. ~StartsWith(a, v)
    BY Zenon, <2>1, <2>4 DEF StartsWith
  <2> QED BY Zenon, <2>6, <2>7, <1>4
<1>6. Len(u) <= Len(v) /\ Agree(u, v, Len(u))
  BY Zenon, <1>3, <1>5 DEF Precedes
<1>7. StartsWith(v, u)
  BY Zenon, <1>6 DEF StartsWith, Agree
<1> QED BY Zenon, <1>1, <1>7 DEF u, v

\* After a short key the assert fails for another version of it.
LEMMA RepeatedIsMisordered ==
    ASSUME NEW a \in Keys, NEW b \in Keys, UserKey(b) = UserKey(a), Len(CString(a)) < 8
    PROVE  CompareWithCut(b, a) # 1
<1>1. StartsWith(a, UserKey(a))
  <2>1. a \in Seq(Byte) /\ Len(a) \in Nat /\ Len(a) >= 8 /\ UserKey(a) \in Seq(Byte)
        /\ Len(UserKey(a)) = Len(a) - 8 /\ \A i \in 1..(Len(a) - 8) : UserKey(a)[i] = a[i]
    BY Zenon, KeyShape
  <2>2. Len(UserKey(a)) <= Len(a)
    BY <2>1
  <2> QED BY Zenon, <2>1, <2>2 DEF StartsWith
<1>2. ~(Len(CString(a)) >= 8)
  <2>1. Len(CString(a)) \in Nat
    BY Zenon, CutShape
  <2> QED BY <2>1
<1>3. CompareWithCut(b, a) = -1
  BY Zenon, <1>1, <1>2 DEF CompareWithCut, kTagSize
<1> QED BY <1>3

-----------------------------------------------------------------------------
(* The file: WritableFile as the builder sees it *)

\* BlockHandle.
Handles == [offset : Nat, size : Nat]

\* Cells of the other blocks.
FilterCells == {"filter"} \X Nat \X Nat
IndexCells == {"index"} \X Keys \X Handles
FooterCells == {"footer"} \X Handles \X Handles
Cells == EntryCells \cup FilterCells \cup IndexCells \cup FooterCells

\* FilterBlockBuilder.
FilterBlocks == [keys : Seq(Keys), filter_offsets : Seq(Nat), result : Seq(Nat)]

\* States of the builder and its file, whose cells are in S.
Reps(S) ==
    [data_block : Seq(Keys), index_block : Seq(Keys \X Handles),
     filter_block : FilterBlocks, offset : Nat, closed : BOOLEAN,
     block_handle : Handles, pending_index_block : BOOLEAN,
     last_key : Keys \cup {<<>>}, status : {"ok", "error"},
     stream : Seq(S), disk : Seq(S), faults : Nat]

\* What writing to the file does not touch.
SameBlocks(s, r) ==
    /\ s.data_block = r.data_block /\ s.index_block = r.index_block
    /\ s.closed = r.closed /\ s.last_key = r.last_key

\* What WritableFile does not know of.
SamePlace(s, r) ==
    /\ s.filter_block = r.filter_block
    /\ s.offset = r.offset /\ s.block_handle = r.block_handle
    /\ s.pending_index_block = r.pending_index_block

\* A write that failed: a part of what was to be written is on disk.
Fails(s, r, all) ==
    /\ s.status = "error" /\ s.faults = r.faults + 1
    /\ \E n \in 0..Len(all) : n < Len(all) /\ Len(r.disk) <= n /\ s.disk = SubSeq(all, 1, n)

\* WritableFile::Append.
LEMMA AppendFacts ==
    ASSUME NEW S, NEW r \in Reps(S), NEW content \in Seq(S), NEW s \in FileAppend(r, content)
    PROVE  /\ s \in Reps(S) /\ SameBlocks(s, r) /\ SamePlace(s, r)
           /\ \/ /\ s.status = "ok" /\ s.faults = r.faults
                 /\ s.stream = r.stream \o content /\ s.disk = r.disk
              \/ Fails(s, r, r.stream \o content)
<1> DEFINE all == r.stream \o content
<1>1. r.stream \in Seq(S) /\ r.disk \in Seq(S) /\ r.faults \in Nat
  BY DEF Reps
<1>2. all \in Seq(S) /\ Len(all) \in Nat /\ Len(r.disk) \in Nat
  BY <1>1
<1>3. \/ s = [r EXCEPT !.status = "ok", !.stream = all]
      \/ \E n \in Len(r.disk)..(Len(all) - 1) :
            s = [r EXCEPT !.status = "error", !.faults = @ + 1,
                          !.stream = SubSeq(all, 1, n), !.disk = SubSeq(all, 1, n)]
  BY Zenon DEF FileAppend
<1> HIDE DEF all
<1>4. CASE s = [r EXCEPT !.status = "ok", !.stream = all]
  <2>1. s \in Reps(S) /\ SameBlocks(s, r) /\ SamePlace(s, r)
    BY Zenon, <1>2, <1>4 DEF Reps, SameBlocks, SamePlace
  <2>2. s.status = "ok" /\ s.faults = r.faults /\ s.stream = all /\ s.disk = r.disk
    BY <1>4 DEF Reps
  <2> QED BY Zenon, <2>1, <2>2 DEF all
<1>5. ASSUME NEW n \in Len(r.disk)..(Len(all) - 1),
             s = [r EXCEPT !.status = "error", !.faults = @ + 1,
                           !.stream = SubSeq(all, 1, n), !.disk = SubSeq(all, 1, n)]
      PROVE  s \in Reps(S) /\ SameBlocks(s, r) /\ SamePlace(s, r) /\ Fails(s, r, all)
  <2>1. n \in 0..Len(all) /\ n < Len(all) /\ Len(r.disk) <= n /\ r.faults + 1 \in Nat
    BY <1>1, <1>2
  <2>2. SubSeq(all, 1, n) \in Seq(S)
    BY Zenon, <2>1, <1>2, PrefixFacts
  <2> DEFINE part == SubSeq(all, 1, n)
  <2> HIDE DEF part
  <2>3. s = [r EXCEPT !.status = "error", !.faults = @ + 1, !.stream = part, !.disk = part]
    BY Zenon, <1>5 DEF part
  <2>4. s \in Reps(S) /\ SameBlocks(s, r) /\ SamePlace(s, r)
    BY Zenon, <2>1, <2>2, <2>3 DEF Reps, SameBlocks, SamePlace, part
  <2>5. s.status = "error" /\ s.faults = r.faults + 1 /\ s.disk = part
    BY Zenon, <2>3 DEF Reps
  <2> QED BY Zenon, <2>1, <2>4, <2>5 DEF Fails, part
<1> QED BY Zenon, <1>3, <1>4, <1>5 DEF all

\* WritableFile::Flush.
LEMMA FlushFacts ==
    ASSUME NEW S, NEW r \in Reps(S), NEW s \in FileFlush(r)
    PROVE  /\ s \in Reps(S) /\ SameBlocks(s, r) /\ SamePlace(s, r)
           /\ \/ /\ s.status = "ok" /\ s.faults = r.faults
                 /\ s.stream = r.stream /\ s.disk = r.stream
              \/ Fails(s, r, r.stream)
<1> DEFINE all == r.stream
<1>1. r.stream \in Seq(S) /\ r.disk \in Seq(S) /\ r.faults \in Nat
  BY DEF Reps
<1>2. all \in Seq(S) /\ Len(all) \in Nat /\ Len(r.disk) \in Nat
  BY <1>1
<1>3. \/ s = [r EXCEPT !.status = "ok", !.disk = all]
      \/ \E n \in Len(r.disk)..(Len(all) - 1) :
            s = [r EXCEPT !.status = "error", !.faults = @ + 1,
                          !.stream = SubSeq(all, 1, n), !.disk = SubSeq(all, 1, n)]
  BY Zenon DEF FileFlush
<1> HIDE DEF all
<1>4. CASE s = [r EXCEPT !.status = "ok", !.disk = all]
  <2>1. s \in Reps(S) /\ SameBlocks(s, r) /\ SamePlace(s, r)
    BY Zenon, <1>2, <1>4 DEF Reps, SameBlocks, SamePlace
  <2>2. s.status = "ok" /\ s.faults = r.faults /\ s.stream = r.stream /\ s.disk = all
    BY <1>4 DEF Reps
  <2> QED BY Zenon, <2>1, <2>2 DEF all
<1>5. ASSUME NEW n \in Len(r.disk)..(Len(all) - 1),
             s = [r EXCEPT !.status = "error", !.faults = @ + 1,
                           !.stream = SubSeq(all, 1, n), !.disk = SubSeq(all, 1, n)]
      PROVE  s \in Reps(S) /\ SameBlocks(s, r) /\ SamePlace(s, r) /\ Fails(s, r, all)
  <2>1. n \in 0..Len(all) /\ n < Len(all) /\ Len(r.disk) <= n /\ r.faults + 1 \in Nat
    BY <1>1, <1>2
  <2>2. SubSeq(all, 1, n) \in Seq(S)
    BY Zenon, <2>1, <1>2, PrefixFacts
  <2> DEFINE part == SubSeq(all, 1, n)
  <2> HIDE DEF part
  <2>3. s = [r EXCEPT !.status = "error", !.faults = @ + 1, !.stream = part, !.disk = part]
    BY Zenon, <1>5 DEF part
  <2>4. s \in Reps(S) /\ SameBlocks(s, r) /\ SamePlace(s, r)
    BY Zenon, <2>1, <2>2, <2>3 DEF Reps, SameBlocks, SamePlace, part
  <2>5. s.status = "error" /\ s.faults = r.faults + 1 /\ s.disk = part
    BY Zenon, <2>3 DEF Reps
  <2> QED BY Zenon, <2>1, <2>4, <2>5 DEF Fails, part
<1> QED BY Zenon, <1>3, <1>4, <1>5 DEF all

\* A block that WriteBlock wrote, and its handle.
Placed(s, r, content) ==
    /\ s.status = "ok" /\ s.faults = r.faults
    /\ s.stream = r.stream \o content /\ s.disk = r.disk
    /\ s.offset = r.offset + Len(content)
    /\ s.block_handle = [offset |-> r.offset, size |-> Len(content)]

\* TableBuilder::WriteBlock moves the offset when the write succeeds.
LEMMA WriteBlockFacts ==
    ASSUME NEW S, NEW r \in Reps(S), NEW content \in Seq(S), NEW s \in WriteBlock(r, content)
    PROVE  /\ s \in Reps(S) /\ SameBlocks(s, r)
           /\ s.filter_block = r.filter_block
           /\ s.pending_index_block = r.pending_index_block
           /\ Placed(s, r, content) \/ (s.status = "error" /\ s.faults = r.faults + 1)
<1>1. PICK t \in FileAppend(r, content) :
        s = IF t.status = "ok"
            THEN [t EXCEPT !.offset = @ + Len(content),
                           !.block_handle = [offset |-> t.offset, size |-> Len(content)]]
            ELSE t
  BY Zenon DEF WriteBlock
<1>2. /\ t \in Reps(S) /\ SameBlocks(t, r) /\ SamePlace(t, r)
      /\ \/ /\ t.status = "ok" /\ t.faults = r.faults
            /\ t.stream = r.stream \o content /\ t.disk = r.disk
         \/ t.status = "error" /\ t.faults = r.faults + 1
  BY AppendFacts DEF Fails
<1>3. CASE t.status = "ok"
  <2>1. s = [t EXCEPT !.offset = @ + Len(content),
                      !.block_handle = [offset |-> t.offset, size |-> Len(content)]]
    BY Zenon, <1>1, <1>3
  <2>2. Len(content) \in Nat /\ t.offset \in Nat /\ t.offset + Len(content) \in Nat
    <3>1. Len(content) \in Nat
      OBVIOUS
    <3>2. t.offset \in Nat
      BY Zenon, <1>2 DEF Reps
    <3> QED BY <3>1, <3>2
  <2>3. [offset |-> t.offset, size |-> Len(content)] \in Handles
    BY Zenon, <2>2 DEF Handles
  <2>4. s \in Reps(S)
    BY Zenon, <1>2, <2>1, <2>2, <2>3 DEF Reps
  <2>5. /\ s.data_block = t.data_block /\ s.index_block = t.index_block
        /\ s.closed = t.closed /\ s.last_key = t.last_key /\ s.filter_block = t.filter_block
        /\ s.pending_index_block = t.pending_index_block
        /\ s.status = t.status /\ s.faults = t.faults /\ s.stream = t.stream /\ s.disk = t.disk
        /\ s.offset = t.offset + Len(content)
        /\ s.block_handle = [offset |-> t.offset, size |-> Len(content)]
    BY Zenon, <1>2, <2>1 DEF Reps
  <2>6. "ok" # "error" OBVIOUS
  <2> QED BY Zenon, <1>2, <1>3, <2>4, <2>5, <2>6 DEF SameBlocks, SamePlace, Placed
<1>4. CASE t.status # "ok"
  <2>1. s = t BY Zenon, <1>1, <1>4
  <2> QED BY Zenon, <1>2, <1>4, <2>1 DEF SamePlace
<1> QED BY Zenon, <1>3, <1>4

-----------------------------------------------------------------------------
(* The filter block, whose bytes are only counted *)

\* A byte of a filter is a number.
LEMMA SetBitsTyped ==
    ASSUME NEW bits
    PROVE  SetBits(bits) \in Nat
<1> DEFINE bit(b) == IF b \in bits THEN Bit(b) ELSE 0
<1>1. \A b \in 0..7 : Bit(b) \in Nat
  BY DEF Bit
<1>2. \A b \in 0..7 : bit(b) \in Nat
  BY Zenon, <1>1
<1>3. SetBits(bits) =
        bit(0) + bit(1) + bit(2) + bit(3) + bit(4) + bit(5) + bit(6) + bit(7)
  BY Zenon DEF SetBits
<1> HIDE DEF bit
<1> QED BY <1>2, <1>3

\* A filter has at least one byte.
LEMMA FilterBytesTyped ==
    ASSUME NEW n \in Nat
    PROVE  FilterBytes(n) \in Nat \ {0}
BY DEF FilterBytes, kBloomFilterPerKeySize

\* BloomFilter::CreateFilter returns bytes.
LEMMA CreateFilterTyped ==
    ASSUME NEW keys \in Seq(Keys)
    PROVE  CreateFilter(keys) \in Seq(Nat)
<1> DEFINE bytes == FilterBytes(Len(keys))
           set == UNION {Probes(keys[i], k_, 8 * bytes) : i \in DOMAIN keys}
           row == [i \in 1..bytes |-> SetBits({b \in 0..7 : 8 * (i - 1) + b \in set})]
<1>1. bytes \in Nat
  <2>1. Len(keys) \in Nat
    OBVIOUS
  <2> QED BY Zenon, <2>1, FilterBytesTyped
<1>2. CreateFilter(keys) = row \o <<k_>>
  BY Zenon DEF CreateFilter
<1> HIDE DEF bytes, set
<1>3. row \in [1..bytes -> Nat]
  BY Zenon, SetBitsTyped
<1>4. row \in Seq(Nat)
  BY Zenon, <1>1, <1>3, RowIsSequence
<1> HIDE DEF row
<1>5. <<k_>> \in Seq(Nat)
  BY DEF k_
<1> QED BY <1>2, <1>4, <1>5

\* FilterBlockBuilder::GenerateFilter appends bytes and an offset.
LEMMA GenerateFilterTyped ==
    ASSUME NEW f \in FilterBlocks
    PROVE  GenerateFilter(f) \in FilterBlocks
<1>1. f.keys \in Seq(Keys) /\ f.filter_offsets \in Seq(Nat) /\ f.result \in Seq(Nat)
  BY Zenon DEF FilterBlocks
<1>2. CreateFilter(f.keys) \in Seq(Nat)
  BY Zenon, <1>1, CreateFilterTyped
<1>3. f.result \o CreateFilter(f.keys) \in Seq(Nat)
  BY <1>1, <1>2
<1>4. Append(f.filter_offsets, Len(f.result)) \in Seq(Nat) /\ <<>> \in Seq(Keys)
  BY <1>1
<1> QED BY Zenon, <1>1, <1>3, <1>4 DEF GenerateFilter, FilterBlocks

\* FilterBlockBuilder::StartBlock appends bytes and offsets.
LEMMA StartBlockTyped ==
    ASSUME NEW f \in FilterBlocks, NEW offset \in Nat
    PROVE  StartBlock(f, offset) \in FilterBlocks
<1> DEFINE missing == offset \div kFilterBase - Len(f.filter_offsets)
           g == GenerateFilter(f)
           row == [i \in 1..(missing - 1) |-> Len(g.result)]
<1>1. g \in FilterBlocks
  BY Zenon, GenerateFilterTyped
<1>2. g.keys \in Seq(Keys) /\ g.filter_offsets \in Seq(Nat) /\ g.result \in Seq(Nat)
  BY Zenon, <1>1 DEF FilterBlocks
<1>3. missing \in Int
  <2>1. f.filter_offsets \in Seq(Nat)
    BY Zenon DEF FilterBlocks
  <2>2. offset \div kFilterBase \in Int
    BY BaseAssumption
  <2> QED BY <2>1, <2>2
<1>4. StartBlock(f, offset) =
        IF missing <= 0 THEN f
        ELSE [g EXCEPT !.filter_offsets = @ \o row]
  BY Zenon DEF StartBlock
<1> HIDE DEF missing, g
<1>5. ASSUME ~(missing <= 0) PROVE [g EXCEPT !.filter_offsets = @ \o row] \in FilterBlocks
  <2>1. missing - 1 \in Nat
    BY <1>3, <1>5
  <2>2. Len(g.result) \in Nat
    BY <1>2
  <2>3. row \in Seq(Nat)
    <3>1. row \in [1..(missing - 1) -> Nat]
      BY Zenon, <2>2
    <3> HIDE DEF row
    <3> QED BY Zenon, <2>1, <3>1, RowIsSequence
  <2> HIDE DEF row
  <2>4. g.filter_offsets \o row \in Seq(Nat)
    BY <1>2, <2>3
  <2> QED BY Zenon, <1>1, <2>4 DEF FilterBlocks
<1> QED BY Zenon, <1>4, <1>5

\* PutFixed32 returns bytes.
LEMMA Fixed32Typed ==
    ASSUME NEW v \in Nat
    PROVE  PutFixed32(v) \in Seq(Nat)
<1>1. /\ v % 256 \in Nat /\ (v \div 256) % 256 \in Nat
      /\ (v \div 65536) % 256 \in Nat /\ (v \div 16777216) % 256 \in Nat
  OBVIOUS
<1> QED BY <1>1 DEF PutFixed32

\* FilterBlockBuilder::Finish returns at least the byte of kFilterBaseLg.
LEMMA FinishFilterTyped ==
    ASSUME NEW f \in FilterBlocks
    PROVE  /\ FinishFilterBlock(f) \in Seq(Nat)
           /\ Len(FinishFilterBlock(f)) \in Nat \ {0}
<1> DEFINE g == IF f.keys = <<>> THEN f ELSE GenerateFilter(f)
           words == [i \in DOMAIN g.filter_offsets |-> PutFixed32(g.filter_offsets[i])]
<1>1. g \in FilterBlocks
  BY Zenon, GenerateFilterTyped
<1>2. FinishFilterBlock(f) =
        g.result \o AppendAll(words) \o PutFixed32(Len(g.result)) \o <<kFilterBaseLg>>
  BY Zenon DEF FinishFilterBlock
<1> HIDE DEF g
<1>3. g.filter_offsets \in Seq(Nat) /\ g.result \in Seq(Nat)
  BY Zenon, <1>1 DEF FilterBlocks
<1>4. words \in Seq(Seq(Nat))
  <2> DEFINE n == Len(g.filter_offsets)
  <2>1. n \in Nat /\ DOMAIN g.filter_offsets = 1..n /\ \A i \in 1..n : g.filter_offsets[i] \in Nat
    BY <1>3
  <2> HIDE DEF n
  <2>2. words \in [1..n -> Seq(Nat)]
    BY Zenon, <2>1, Fixed32Typed
  <2> HIDE DEF words
  <2> QED BY Zenon, <2>1, <2>2, RowIsSequence
<1> HIDE DEF words
<1>5. AppendAll(words) \in Seq(Nat)
  BY Zenon, <1>4, AppendAllTyped
<1>6. PutFixed32(Len(g.result)) \in Seq(Nat)
  <2>1. Len(g.result) \in Nat BY <1>3
  <2> QED BY Zenon, <2>1, Fixed32Typed
<1> DEFINE front == g.result \o AppendAll(words) \o PutFixed32(Len(g.result))
<1>7. front \in Seq(Nat)
  BY <1>3, <1>5, <1>6
<1>8. kFilterBaseLg \in Nat
  BY BaseAssumption DEF Byte
<1>9. FinishFilterBlock(f) = Append(front, kFilterBaseLg)
  <2>1. FinishFilterBlock(f) = front \o <<kFilterBaseLg>>
    BY Zenon, <1>2
  <2> HIDE DEF front
  <2> QED BY <2>1, <1>7, <1>8
<1> HIDE DEF front
<1> QED BY <1>7, <1>8, <1>9

-----------------------------------------------------------------------------
(* The keys of a filter *)

\* A bit that SetBits sets is the bit that HasBit tests.
LEMMA BitsReadBack ==
    ASSUME NEW S, NEW b \in 0..7
    PROVE  HasBit(SetBits(S), b) <=> b \in S
<1> DEFINE x(c) == IF c \in S THEN 1 ELSE 0
<1>1. \A c \in 0..7 : x(c) \in {0, 1} /\ (x(c) = 1 <=> c \in S)
  OBVIOUS
<1>2. SetBits(S) = x(0) + 2 * x(1) + 4 * x(2) + 8 * x(3) + 16 * x(4) + 32 * x(5)
                     + 64 * x(6) + 128 * x(7)
  BY DEF SetBits, Bit
<1> HIDE DEF x
<1>3. x(0) \in {0, 1} /\ x(1) \in {0, 1} /\ x(2) \in {0, 1} /\ x(3) \in {0, 1}
      /\ x(4) \in {0, 1} /\ x(5) \in {0, 1} /\ x(6) \in {0, 1} /\ x(7) \in {0, 1}
  BY <1>1
<1>4. ASSUME NEW p \in {1, 2, 4, 8, 16, 32, 64, 128}, Bit(b) = p, (SetBits(S) \div p) % 2 = x(b)
      PROVE  HasBit(SetBits(S), b) <=> b \in S
  BY <1>1, <1>4 DEF HasBit
<1>5. CASE b = 0
  <2>1. Bit(b) = 1 /\ (SetBits(S) \div 1) % 2 = x(0)
    BY <1>2, <1>3, <1>5 DEF Bit
  <2> QED BY <1>4, <1>5, <2>1
<1>6. CASE b = 1
  <2>1. Bit(b) = 2 /\ (SetBits(S) \div 2) % 2 = x(1)
    BY <1>2, <1>3, <1>6 DEF Bit
  <2> QED BY <1>4, <1>6, <2>1
<1>7. CASE b = 2
  <2>1. Bit(b) = 4 /\ (SetBits(S) \div 4) % 2 = x(2)
    BY <1>2, <1>3, <1>7 DEF Bit
  <2> QED BY <1>4, <1>7, <2>1
<1>8. CASE b = 3
  <2>1. Bit(b) = 8 /\ (SetBits(S) \div 8) % 2 = x(3)
    BY <1>2, <1>3, <1>8 DEF Bit
  <2> QED BY <1>4, <1>8, <2>1
<1>9. CASE b = 4
  <2>1. Bit(b) = 16 /\ (SetBits(S) \div 16) % 2 = x(4)
    BY <1>2, <1>3, <1>9 DEF Bit
  <2> QED BY <1>4, <1>9, <2>1
<1>10. CASE b = 5
  <2>1. Bit(b) = 32 /\ (SetBits(S) \div 32) % 2 = x(5)
    BY <1>2, <1>3, <1>10 DEF Bit
  <2> QED BY <1>4, <1>10, <2>1
<1>11. CASE b = 6
  <2>1. Bit(b) = 64 /\ (SetBits(S) \div 64) % 2 = x(6)
    BY <1>2, <1>3, <1>11 DEF Bit
  <2> QED BY <1>4, <1>11, <2>1
<1>12. CASE b = 7
  <2>1. Bit(b) = 128 /\ (SetBits(S) \div 128) % 2 = x(7)
    BY <1>2, <1>3, <1>12 DEF Bit
  <2> QED BY <1>4, <1>12, <2>1
<1>13. b \in {0, 1, 2, 3, 4, 5, 6, 7}
  OBVIOUS
<1> QED BY Zenon, <1>5, <1>6, <1>7, <1>8, <1>9, <1>10, <1>11, <1>12, <1>13

\* Every probe is a bit of the filter.
LEMMA ProbesTyped ==
    ASSUME NEW key \in Keys, NEW k, NEW bits \in Nat \ {0}, NEW p \in Probes(key, k, bits),
           k \in Nat
    PROVE  p \in 0..(bits - 1)
<1> DEFINE h == BloomHash[key]
           right == HashBits \div 2 + 1
           m == 2^HashBits
           left == 2^(HashBits - right)
<1>1. HashBits \in Nat \ {0} /\ right \in 0..HashBits /\ HashBits - right \in 0..HashBits
      /\ HashBits \in 0..HashBits
  <2>1. HashBits \in Nat \ {0}
    BY Zenon, HashAssumption
  <2> QED BY <2>1
<1>2. m \in Nat \ {0} /\ 2^right \in Nat \ {0} /\ left \in Nat \ {0}
  <2>1. \A n \in 0..HashBits : 2^n \in Nat \ {0}
    BY Zenon, HashAssumption
  <2> HIDE DEF right
  <2> QED BY Zenon, <1>1, <2>1
<1>3. h \in Nat
  <2>1. h \in 0..(m - 1)
    BY Zenon, HashAssumption, TableAssumption
  <2> HIDE DEF h, m
  <2> QED BY <1>2, <2>1
<1>4. Delta(h) = (h \div 2^right) + ((h * left) % m)
  BY Zenon DEF Delta
<1>5. PICK j \in 0..(k - 1) : p = ((h + j * Delta(h)) % m) % bits
  BY Zenon DEF Probes
<1> DEFINE d == 2^right
<1>6. Delta(h) = (h \div d) + ((h * left) % m) /\ d \in Nat \ {0}
  BY Zenon, <1>2, <1>4
<1> HIDE DEF h, m, left, right, d
<1>7. h \div d \in Int
  BY <1>3, <1>6
<1>8. h * left \in Int
  BY <1>2, <1>3
<1>9. (h * left) % m \in Int
  BY <1>2, <1>8
<1>10. Delta(h) \in Int
  BY <1>6, <1>7, <1>9
<1> DEFINE e == Delta(h)
<1> HIDE DEF e
<1>11. j * e \in Int
  BY <1>10 DEF e
<1>12. h + j * e \in Int
  BY <1>3, <1>11
<1> DEFINE s == h + j * e
<1> HIDE DEF s
<1>13. s % m \in Int
  BY <1>2, <1>12 DEF s
<1>14. (s % m) % bits \in 0..(bits - 1)
  BY <1>13
<1> QED BY Zenon, <1>5, <1>14 DEF s, e

\* The parts of a filter: its bits, and the number of probes.
LEMMA CreateFilterIs ==
    ASSUME NEW keys \in Seq(Keys)
    PROVE  LET filter == CreateFilter(keys)
               bytes == FilterBytes(Len(keys))
               set == UNION {Probes(keys[i], k_, 8 * bytes) : i \in DOMAIN keys}
           IN  /\ bytes \in Nat \ {0} /\ filter \in Seq(Nat) /\ Len(filter) = bytes + 1
               /\ filter[bytes + 1] = 6
               /\ \A i \in 1..bytes :
                     filter[i] = SetBits({b \in 0..7 : 8 * (i - 1) + b \in set})
<1> DEFINE filter == CreateFilter(keys)
           bytes == FilterBytes(Len(keys))
           set == UNION {Probes(keys[i], k_, 8 * bytes) : i \in DOMAIN keys}
           row == [i \in 1..bytes |-> SetBits({b \in 0..7 : 8 * (i - 1) + b \in set})]
<1>1. bytes \in Nat \ {0}
  <2>1. Len(keys) \in Nat
    OBVIOUS
  <2> QED BY Zenon, <2>1, FilterBytesTyped
<1>2. filter = row \o <<k_>>
  BY Zenon DEF CreateFilter
<1> HIDE DEF bytes, set, filter
<1>3. row \in [1..bytes -> Nat] /\ bytes \in Nat
  BY Zenon, <1>1, SetBitsTyped
<1>4. row \in Seq(Nat) /\ Len(row) = bytes
  BY Zenon, <1>3, RowIsSequence
<1>5. \A i \in 1..bytes : row[i] = SetBits({b \in 0..7 : 8 * (i - 1) + b \in set})
  BY Zenon
<1> HIDE DEF row
<1>6. <<k_>> \in Seq(Nat) /\ Len(<<k_>>) = 1 /\ <<k_>>[1] = 6 /\ 1 \in 1..1
  BY DEF k_
<1>7. Joined(Nat, row, <<k_>>)
  BY Zenon, <1>4, <1>6, JoinFacts
<1>8. /\ filter \in Seq(Nat) /\ Len(filter) = bytes + 1 /\ filter[bytes + 1] = 6
      /\ \A i \in 1..bytes : filter[i] = row[i]
  BY Zenon, <1>2, <1>4, <1>6, <1>7 DEF Joined
<1>9. \A i \in 1..bytes : filter[i] = SetBits({b \in 0..7 : 8 * (i - 1) + b \in set})
  BY Zenon, <1>5, <1>8
<1> QED BY Zenon, <1>1, <1>8, <1>9 DEF filter, set, bytes

\* BloomFilter::KeyMayMatch denies no key that CreateFilter was given.
LEMMA FilterMatches ==
    ASSUME NEW keys \in Seq(Keys), NEW n \in DOMAIN keys
    PROVE  KeyMayMatch(keys[n], CreateFilter(keys))
<1> DEFINE filter == CreateFilter(keys)
           bytes == FilterBytes(Len(keys))
           set == UNION {Probes(keys[i], k_, 8 * bytes) : i \in DOMAIN keys}
<1>1. /\ bytes \in Nat \ {0} /\ Len(filter) = bytes + 1 /\ filter[bytes + 1] = 6
      /\ \A i \in 1..bytes : filter[i] = SetBits({b \in 0..7 : 8 * (i - 1) + b \in set})
  BY Zenon, CreateFilterIs
<1>2. Probes(keys[n], k_, 8 * bytes) \subseteq set
  BY Zenon
<1> HIDE DEF filter, set, bytes
<1>3. /\ Len(filter) >= 2 /\ 8 * bytes \in Nat \ {0} /\ filter[Len(filter)] = 6
      /\ 8 * (Len(filter) - 1) = 8 * bytes
  BY <1>1
<1>4. ASSUME NEW p \in Probes(keys[n], k_, 8 * bytes)
      PROVE  HasBit(filter[p \div 8 + 1], p % 8)
  <2>1. keys[n] \in Keys /\ k_ \in Nat
    BY DEF k_
  <2>2. p \in 0..(8 * bytes - 1)
    BY Zenon, <1>3, <2>1, ProbesTyped
  <2> DEFINE i == p \div 8 + 1
             b == p % 8
  <2>3. i \in 1..bytes /\ b \in 0..7 /\ 8 * (i - 1) + b = p
    BY <1>1, <2>2
  <2>4. p \in set
    BY Zenon, <1>2
  <2> HIDE DEF i, b
  <2> DEFINE S == {c \in 0..7 : 8 * (i - 1) + c \in set}
  <2>5. b \in S /\ filter[i] = SetBits(S)
    BY Zenon, <1>1, <2>3, <2>4
  <2> HIDE DEF S
  <2>6. HasBit(filter[i], b)
    BY Zenon, <2>3, <2>5, BitsReadBack
  <2> QED BY Zenon, <2>6 DEF i, b
<1>5. k_ = 6
  BY DEF k_
<1>6. \A p \in Probes(keys[n], filter[Len(filter)], 8 * (Len(filter) - 1)) :
         HasBit(filter[p \div 8 + 1], p % 8)
  BY Zenon, <1>3, <1>4, <1>5
<1> QED BY Zenon, <1>3, <1>6 DEF KeyMayMatch, filter

\* s is the first n words of four bytes, one after the other.
WordsAre(words, s, n) ==
    /\ s \in Seq(Nat) /\ Len(s) = 4 * n
    /\ \A i \in 1..n, j \in 1..4 : s[4 * (i - 1) + j] = words[i][j]

\* The offsets in a filter block, each of four bytes.
LEMMA WordsAppend ==
    ASSUME NEW words \in Seq(Seq(Nat)), \A i \in DOMAIN words : Len(words[i]) = 4
    PROVE  WordsAre(words, AppendAll(words), Len(words))
<1> DEFINE m == Len(words)
           f == UpTo(words, m)
           Bad == {i \in 0..m : ~WordsAre(words, f[i], i)}
<1>1. m \in Nat /\ m \in 0..m /\ DOMAIN words = 1..m /\ \A i \in 1..m : words[i] \in Seq(Nat)
  OBVIOUS
<1>2. AppendAll(words) = f[m]
  BY Zenon DEF AppendAll, UpTo, AppendNext
<1>3. \A i \in 0..m : f[i] = AppendNext(words, f, i)
  BY Zenon, <1>1, UpToStep
<1> HIDE DEF m, f
<1>4. SUFFICES ASSUME Bad # {} PROVE FALSE
  BY Zenon, <1>1, <1>2 DEF m
<1>5. PICK n \in Bad : \A j \in Bad : n <= j
  <2>1. Bad \in SUBSET Nat BY <1>1
  <2> QED BY Zenon, <1>4, <2>1, LeastNumber
<1>6. n \in 0..m /\ ~WordsAre(words, f[n], n)
  BY Zenon, <1>5
<1>7. CASE n = 0
  <2>1. f[n] = <<>>
    BY Zenon, <1>3, <1>6, <1>7 DEF AppendNext
  <2>2. <<>> \in Seq(Nat) /\ Len(<<>>) = 4 * 0 /\ \A i \in 1..0 : FALSE
    OBVIOUS
  <2> QED BY Zenon, <1>6, <1>7, <2>1, <2>2 DEF WordsAre
<1>8. CASE n # 0
  <2> DEFINE a == f[n - 1]
             b == words[n]
  <2>1. n \in 1..m /\ n - 1 \in 0..m /\ ~(n <= n - 1)
    BY <1>1, <1>6, <1>8
  <2>2. WordsAre(words, a, n - 1)
    BY Zenon, <1>5, <2>1
  <2>3. f[n] = a \o b /\ b \in Seq(Nat) /\ Len(b) = 4
    BY Zenon, <1>1, <1>3, <1>6, <1>8, <2>1 DEF AppendNext
  <2>4. a \in Seq(Nat) /\ Len(a) = 4 * (n - 1)
    BY Zenon, <2>2 DEF WordsAre
  <2> HIDE DEF a, b
  <2>5. Joined(Nat, a, b)
    BY Zenon, <2>3, <2>4, JoinFacts
  <2>6. f[n] \in Seq(Nat) /\ Len(f[n]) = 4 * (n - 1) + 4
    BY Zenon, <2>3, <2>4, <2>5 DEF Joined
  <2>7. Len(f[n]) = 4 * n
    BY <2>1, <2>6
  <2>8. ASSUME NEW i \in 1..n, NEW j \in 1..4
        PROVE  f[n][4 * (i - 1) + j] = words[i][j]
    <3>1. CASE i = n
      <4>1. f[n][4 * (n - 1) + j] = b[j]
        BY Zenon, <2>3, <2>4, <2>5 DEF Joined
      <4> QED BY Zenon, <3>1, <4>1 DEF b
    <3>2. CASE i # n
      <4>1. i \in 1..(n - 1) /\ 4 * (i - 1) + j \in 1..(4 * (n - 1))
        BY <2>1, <3>2
      <4>2. f[n][4 * (i - 1) + j] = a[4 * (i - 1) + j]
        BY Zenon, <2>3, <2>4, <2>5, <4>1 DEF Joined
      <4>3. a[4 * (i - 1) + j] = words[i][j]
        BY Zenon, <2>2, <4>1 DEF WordsAre
      <4> QED BY Zenon, <4>2, <4>3
    <3> QED BY Zenon, <3>1, <3>2
  <2>9. WordsAre(words, f[n], n)
    BY Zenon, <2>6, <2>7, <2>8 DEF WordsAre
  <2> QED BY Zenon, <1>6, <2>9
<1> QED BY Zenon, <1>7, <1>8

-----------------------------------------------------------------------------
(* FilterBlockBuilder *)

\* A FilterBlockBuilder that has all keys, and no filter yet.
Kept(f, keys) == f.keys = keys /\ f.filter_offsets = <<>> /\ f.result = <<>>

\* The offsets of filters of which the first has all keys, the others none.
OffsetsAre(offsets, keys) ==
    /\ offsets # <<>> /\ offsets[1] = 0
    /\ \A i \in DOMAIN offsets : i = 1 \/ offsets[i] = Len(CreateFilter(keys))

\* A FilterBlockBuilder that has made these filters.
Made(f, keys) ==
    /\ f.keys = <<>> /\ f.result = CreateFilter(keys) /\ OffsetsAre(f.filter_offsets, keys)

\* Filters without keys are added at the end.
LEMMA OffsetsGrow ==
    ASSUME NEW keys, NEW offsets \in Seq(Nat), OffsetsAre(offsets, keys), NEW row \in Seq(Nat),
           \A i \in DOMAIN row : row[i] = Len(CreateFilter(keys))
    PROVE  OffsetsAre(offsets \o row, keys)
<1> DEFINE all == offsets \o row
           l == Len(CreateFilter(keys))
           m == Len(offsets)
           n == Len(row)
<1>1. /\ m \in Nat /\ n \in Nat /\ DOMAIN offsets = 1..m /\ DOMAIN row = 1..n
      /\ all \in Seq(Nat) /\ Len(all) = m + n /\ DOMAIN all = 1..(m + n)
      /\ \A j \in 1..m : all[j] = offsets[j]
      /\ \A j \in 1..n : all[m + j] = row[j]
  <2>1. Joined(Nat, offsets, row)
    BY Zenon, JoinFacts
  <2>2. \A s \in Seq(Nat) : DOMAIN s = 1..Len(s)
    OBVIOUS
  <2> QED BY Zenon, <2>1, <2>2 DEF Joined
<1>2. m # 0
  <2>1. offsets # <<>>
    BY Zenon DEF OffsetsAre
  <2> QED BY <2>1
<1>3. /\ offsets[1] = 0
      /\ \A i \in 1..m : i = 1 \/ offsets[i] = l
      /\ \A i \in 1..n : row[i] = l
  BY Zenon, <1>1 DEF OffsetsAre
<1> HIDE DEF all, l, m, n
<1>4. all # <<>> /\ 1 \in 1..m
  BY <1>1, <1>2
<1>5. ASSUME NEW i \in 1..(m + n) PROVE i = 1 \/ all[i] = l
  <2>1. CASE i \in 1..m
    BY Zenon, <1>1, <1>3, <2>1
  <2>2. CASE i \notin 1..m
    <3> DEFINE j == i - m
    <3>1. j \in 1..n /\ i = m + j
      BY <1>1, <2>2
    <3> HIDE DEF j
    <3> QED BY Zenon, <1>1, <1>3, <3>1
  <2> QED BY Zenon, <2>1, <2>2
<1> QED BY Zenon, <1>1, <1>3, <1>4, <1>5 DEF OffsetsAre, all, l

\* FilterBlockBuilder::GenerateFilter: the first call makes the filter of all keys, the
\* others filters of none.
LEMMA GenerateMakes ==
    ASSUME NEW keys \in Seq(Keys), keys # <<>>, NEW f \in FilterBlocks,
           Kept(f, keys) \/ Made(f, keys)
    PROVE  Made(GenerateFilter(f), keys)
<1> DEFINE g == GenerateFilter(f)
           filter == CreateFilter(keys)
<1>1. /\ g.keys = <<>> /\ g.filter_offsets = Append(f.filter_offsets, Len(f.result))
      /\ g.result = IF f.keys = <<>> THEN f.result ELSE f.result \o CreateFilter(f.keys)
  BY Zenon DEF GenerateFilter
<1>2. filter \in Seq(Nat) /\ f.filter_offsets \in Seq(Nat)
  BY Zenon, CreateFilterTyped DEF FilterBlocks
<1> HIDE DEF g
<1>3. CASE Kept(f, keys)
  <2>1. /\ g.filter_offsets = Append(<<>>, Len(<<>>))
        /\ g.result = <<>> \o filter
    BY Zenon, <1>1, <1>3 DEF Kept
  <2> HIDE DEF filter
  <2>2. g.result = filter
    BY <1>2, <2>1
  <2>3. /\ g.filter_offsets # <<>> /\ g.filter_offsets[1] = 0
        /\ \A i \in DOMAIN g.filter_offsets : i = 1
    BY <2>1
  <2> QED BY Zenon, <1>1, <2>2, <2>3 DEF Made, OffsetsAre, filter, g
<1>4. CASE Made(f, keys)
  <2> DEFINE l == Len(filter)
             offsets == f.filter_offsets
  <2>1. /\ g.filter_offsets = Append(offsets, l) /\ g.result = filter
        /\ OffsetsAre(offsets, keys)
    BY Zenon, <1>1, <1>4 DEF Made
  <2>2. l \in Nat
    <3> HIDE DEF filter
    <3> QED BY <1>2
  <2> HIDE DEF l, offsets
  <2>3. /\ Append(offsets, l) = offsets \o <<l>> /\ <<l>> \in Seq(Nat)
        /\ \A i \in DOMAIN <<l>> : <<l>>[i] = l
    <3>1. offsets \in Seq(Nat) BY Zenon, <1>2 DEF offsets
    <3> QED BY <2>2, <3>1
  <2>4. OffsetsAre(offsets \o <<l>>, keys)
    <3>1. offsets \in Seq(Nat) BY Zenon, <1>2 DEF offsets
    <3> QED BY Zenon, <2>1, <2>3, <3>1, OffsetsGrow DEF l
  <2> QED BY Zenon, <1>1, <2>1, <2>3, <2>4 DEF Made, g
<1> QED BY Zenon, <1>3, <1>4

\* FilterBlockBuilder::StartBlock makes the filter of all keys, or leaves it to Finish.
LEMMA StartMakes ==
    ASSUME NEW keys \in Seq(Keys), keys # <<>>, NEW f \in FilterBlocks, NEW offset \in Nat,
           Kept(f, keys) \/ Made(f, keys)
    PROVE  Kept(StartBlock(f, offset), keys) \/ Made(StartBlock(f, offset), keys)
<1> DEFINE missing == offset \div kFilterBase - Len(f.filter_offsets)
           g == GenerateFilter(f)
           row == [i \in 1..(missing - 1) |-> Len(g.result)]
           h == [g EXCEPT !.filter_offsets = @ \o row]
<1>1. g \in FilterBlocks /\ Made(g, keys)
  BY Zenon, GenerateFilterTyped, GenerateMakes
<1>2. g.filter_offsets \in Seq(Nat) /\ g.result \in Seq(Nat)
  BY Zenon, <1>1 DEF FilterBlocks
<1>3. missing \in Int
  <2>1. f.filter_offsets \in Seq(Nat)
    BY Zenon DEF FilterBlocks
  <2>2. offset \div kFilterBase \in Int
    BY BaseAssumption
  <2> QED BY <2>1, <2>2
<1>4. StartBlock(f, offset) = IF missing <= 0 THEN f ELSE h
  BY Zenon DEF StartBlock
<1> HIDE DEF missing, g
<1>5. ASSUME ~(missing <= 0) PROVE Made(h, keys)
  <2>1. missing - 1 \in Nat /\ Len(g.result) \in Nat
    BY <1>2, <1>3, <1>5
  <2>2. row \in [1..(missing - 1) -> Nat] /\ \A i \in 1..(missing - 1) : row[i] = Len(g.result)
    BY Zenon, <2>1
  <2>3. /\ h.keys = g.keys /\ h.result = g.result
        /\ h.filter_offsets = g.filter_offsets \o row
    BY Zenon, <1>1 DEF FilterBlocks
  <2> HIDE DEF row, h
  <2>4. row \in Seq(Nat) /\ DOMAIN row = 1..(missing - 1)
    BY Zenon, <2>1, <2>2, RowIsSequence
  <2>5. OffsetsAre(g.filter_offsets \o row, keys)
    BY Zenon, <1>1, <1>2, <2>2, <2>4, OffsetsGrow DEF Made
  <2> QED BY Zenon, <1>1, <2>3, <2>5 DEF Made
<1> QED BY Zenon, <1>4, <1>5

\* A number of 32 bits.
Fits32(v) == v \in Nat /\ v \div 16777216 < 256

\* DecodeFixed32 reads what PutFixed32 wrote, for a number of 32 bits.
LEMMA WordReadsBack ==
    ASSUME NEW v, Fits32(v), NEW s, \A j \in 1..4 : s[j] = PutFixed32(v)[j]
    PROVE  DecodeFixed32(s) = v
<1> DEFINE v1 == v \div 256
           v2 == v \div 65536
           v3 == v \div 16777216
           d1 == v % 256
           d2 == v1 % 256
           d3 == v2 % 256
           d4 == v3 % 256
<1>1. v \in Nat /\ v3 < 256
  BY SMT DEF Fits32
<1>2. s[1] = d1 /\ s[2] = d2 /\ s[3] = d3 /\ s[4] = d4
  BY SMT, <1>1 DEF PutFixed32
<1>3. /\ v = 256 * v1 + d1 /\ v1 = 256 * v2 + d2 /\ v2 = 256 * v3 + d3 /\ v3 = d4
      /\ v1 \in Nat /\ v2 \in Nat /\ v3 \in Nat
      /\ d1 \in Nat /\ d2 \in Nat /\ d3 \in Nat /\ d4 \in Nat
  BY SMT, <1>1
<1> HIDE DEF v1, v2, v3, d1, d2, d3, d4
<1>4. d1 + 256 * d2 + 65536 * d3 + 16777216 * d4 = v
  BY SMT, <1>3
<1> QED BY SMT, <1>2, <1>4 DEF DecodeFixed32

\* PutFixed32 writes four bytes, all zero for 0.
LEMMA WordBytes ==
    ASSUME NEW v \in Nat
    PROVE  /\ PutFixed32(v) \in Seq(Nat) /\ Len(PutFixed32(v)) = 4
           /\ PutFixed32(0)[1] = 0
<1>1. PutFixed32(v) \in Seq(Nat)
  BY Zenon, Fixed32Typed
<1>2. Len(PutFixed32(v)) = 4 /\ PutFixed32(0)[1] = 0
  BY SMT DEF PutFixed32
<1> QED BY Zenon, <1>1, <1>2

\* The bytes of a filter block with q filters, of which the first has all keys: the
\* filter, its offset 0, the offset of its end, and the base.
Blocked(c, keys, q) ==
    LET filter == CreateFilter(keys)
        l == Len(filter)
    IN  /\ q \in Nat \ {0} /\ c \in Seq(Nat) /\ Len(c) = l + 4 * q + 5
        /\ \A i \in 1..l : c[i] = filter[i]
        /\ \A j \in 1..4 : /\ c[l + j] = PutFixed32(0)[j]
                           /\ c[l + 4 + j] = PutFixed32(l)[j]
                           /\ c[l + 4 * q + j] = PutFixed32(l)[j]
        /\ c[l + 4 * q + 5] = kFilterBaseLg

\* Some number of filters makes it so.
FilterLaid(c, keys) == \E q : Blocked(c, keys, q)

\* FilterBlockBuilder::Finish writes such a block.
LEMMA FinishLays ==
    ASSUME NEW keys \in Seq(Keys), keys # <<>>, NEW f \in FilterBlocks,
           Kept(f, keys) \/ Made(f, keys)
    PROVE  FilterLaid(FinishFilterBlock(f), keys)
<1> DEFINE g == IF f.keys = <<>> THEN f ELSE GenerateFilter(f)
           offsets == g.filter_offsets
           words == [i \in DOMAIN offsets |-> PutFixed32(offsets[i])]
           filter == CreateFilter(keys)
           l == Len(filter)
           q == Len(offsets)
<1>1. g \in FilterBlocks
  BY Zenon, GenerateFilterTyped
<1>2. Made(g, keys)
  BY Zenon, GenerateMakes DEF Kept
<1>3. FinishFilterBlock(f) =
        ((g.result \o AppendAll(words)) \o PutFixed32(Len(g.result))) \o <<kFilterBaseLg>>
  BY Zenon DEF FinishFilterBlock
<1> HIDE DEF g
<1>4. g.result = filter /\ OffsetsAre(offsets, keys) /\ offsets \in Seq(Nat)
  BY Zenon, <1>1, <1>2 DEF Made, FilterBlocks
<1>5. filter \in Seq(Nat)
  BY Zenon, CreateFilterTyped
<1> HIDE DEF filter, offsets
<1>6. /\ q \in Nat /\ DOMAIN offsets = 1..q /\ l \in Nat /\ q # 0
      /\ \A i \in 1..q : offsets[i] \in Nat
  <2>1. offsets # <<>> BY Zenon, <1>4 DEF OffsetsAre
  <2> QED BY <1>4, <1>5, <2>1
<1>7. offsets[1] = 0 /\ \A i \in 1..q : i = 1 \/ offsets[i] = l
  BY Zenon, <1>4, <1>6 DEF OffsetsAre, filter
<1> HIDE DEF q, l
<1>8. /\ words \in Seq(Seq(Nat)) /\ Len(words) = q /\ DOMAIN words = 1..q
      /\ \A i \in 1..q : words[i] = PutFixed32(offsets[i])
      /\ \A i \in 1..q : Len(words[i]) = 4
  <2>1. \A i \in 1..q : /\ words[i] = PutFixed32(offsets[i])
                        /\ PutFixed32(offsets[i]) \in Seq(Nat)
                        /\ Len(PutFixed32(offsets[i])) = 4
    BY Zenon, <1>6, WordBytes
  <2>2. words \in [1..q -> Seq(Nat)]
    BY Zenon, <1>6, <2>1
  <2> HIDE DEF words
  <2> QED BY Zenon, <1>6, <2>1, <2>2, RowIsSequence
<1> HIDE DEF words
<1>9. WordsAre(words, AppendAll(words), q)
  BY Zenon, <1>8, WordsAppend
<1> DEFINE w == AppendAll(words)
           e == PutFixed32(l)
           a == filter \o w
           b == a \o e
           c == b \o <<kFilterBaseLg>>
<1>10. /\ w \in Seq(Nat) /\ Len(w) = 4 * q
       /\ \A i \in 1..q, j \in 1..4 : w[4 * (i - 1) + j] = words[i][j]
  BY Zenon, <1>9 DEF WordsAre
<1>11. e \in Seq(Nat) /\ Len(e) = 4
  BY Zenon, <1>6, WordBytes
<1>12. <<kFilterBaseLg>> \in Seq(Nat) /\ Len(<<kFilterBaseLg>>) = 1
       /\ <<kFilterBaseLg>>[1] = kFilterBaseLg
  <2>1. kFilterBaseLg \in Nat
    BY BaseAssumption DEF Byte
  <2> QED BY <2>1
<1>13. FinishFilterBlock(f) = c
  BY Zenon, <1>3, <1>4 DEF l
<1> HIDE DEF w, e
<1>14. /\ a \in Seq(Nat) /\ Len(a) = l + 4 * q
       /\ \A i \in 1..l : a[i] = filter[i]
       /\ \A i \in 1..(4 * q) : a[l + i] = w[i]
  <2>1. Joined(Nat, filter, w)
    BY Zenon, <1>5, <1>10, JoinFacts
  <2> QED BY Zenon, <1>10, <2>1 DEF Joined, l
<1> HIDE DEF a
<1>15. /\ b \in Seq(Nat) /\ Len(b) = Len(a) + 4
       /\ \A i \in 1..Len(a) : b[i] = a[i]
       /\ \A i \in 1..4 : b[Len(a) + i] = e[i]
  <2>1. Joined(Nat, a, e)
    BY Zenon, <1>11, <1>14, JoinFacts
  <2> QED BY Zenon, <1>11, <2>1 DEF Joined
<1> HIDE DEF b
<1>16. /\ c \in Seq(Nat) /\ Len(c) = Len(b) + 1
       /\ \A i \in 1..Len(b) : c[i] = b[i]
       /\ \A i \in 1..1 : c[Len(b) + i] = <<kFilterBaseLg>>[i]
  <2>1. Joined(Nat, b, <<kFilterBaseLg>>)
    BY Zenon, <1>12, <1>15, JoinFacts
  <2> QED BY Zenon, <1>12, <2>1 DEF Joined
<1> HIDE DEF c
<1>17. /\ Len(b) = l + 4 * q + 4 /\ Len(c) = l + 4 * q + 5 /\ Len(b) + 1 = l + 4 * q + 5
       /\ l \in Nat /\ q \in Nat \ {0}
  <2>1. Len(a) = l + 4 * q /\ Len(b) = Len(a) + 4 /\ Len(c) = Len(b) + 1
    BY Zenon, <1>14, <1>15, <1>16
  <2> QED BY <1>6, <2>1
<1>18. c[l + 4 * q + 5] = kFilterBaseLg
  <2>1. 1 \in 1..1 OBVIOUS
  <2> QED BY Zenon, <1>12, <1>16, <1>17, <2>1
<1>19. \A i \in 1..Len(a) : c[i] = a[i]
  <2> TAKE i \in 1..Len(a)
  <2>1. Len(a) = l + 4 * q BY Zenon, <1>14
  <2>2. i \in 1..Len(b) BY <1>17, <2>1
  <2> QED BY Zenon, <1>15, <1>16, <2>2
<1>20. \A i \in 1..l : c[i] = filter[i]
  <2> TAKE i \in 1..l
  <2>1. i \in 1..Len(a) BY <1>6, <1>14
  <2> QED BY Zenon, <1>14, <1>19, <2>1
<1>21. \A i \in 1..q, j \in 1..4 : c[l + 4 * (i - 1) + j] = words[i][j]
  <2> TAKE i \in 1..q, j \in 1..4
  <2>1. /\ 4 * (i - 1) + j \in 1..(4 * q) /\ l + (4 * (i - 1) + j) = l + 4 * (i - 1) + j
        /\ l + (4 * (i - 1) + j) \in 1..Len(a)
    <3>1. Len(a) = l + 4 * q BY Zenon, <1>14
    <3> QED BY <1>17, <3>1
  <2> QED BY Zenon, <1>10, <1>14, <1>19, <2>1
<1>22. \A j \in 1..4 : c[l + 4 * q + j] = PutFixed32(l)[j]
  <2> TAKE j \in 1..4
  <2>1. l + 4 * q + j \in 1..Len(b) BY <1>17
  <2>2. c[l + 4 * q + j] = b[l + 4 * q + j] BY Zenon, <1>16, <2>1
  <2>3. b[Len(a) + j] = e[j] /\ Len(a) = l + 4 * q BY Zenon, <1>14, <1>15
  <2> QED BY Zenon, <2>2, <2>3 DEF e
<1>23. \A j \in 1..4 : c[l + j] = PutFixed32(0)[j]
  <2> TAKE j \in 1..4
  <2>1. 1 \in 1..q /\ l + 4 * (1 - 1) + j = l + j BY <1>17
  <2>2. c[l + 4 * (1 - 1) + j] = words[1][j] BY Zenon, <1>21, <2>1
  <2>3. words[1] = PutFixed32(0) BY Zenon, <1>7, <1>8, <2>1
  <2> QED BY Zenon, <2>1, <2>2, <2>3
<1>24. \A j \in 1..4 : c[l + 4 + j] = PutFixed32(l)[j]
  <2> TAKE j \in 1..4
  <2>1. CASE q = 1
    <3>1. l + 4 * q + j = l + 4 + j BY <1>17, <2>1
    <3> QED BY Zenon, <1>22, <3>1
  <2>2. CASE q # 1
    <3>1. 2 \in 1..q /\ 2 # 1 /\ l + 4 * (2 - 1) + j = l + 4 + j BY <1>17, <2>2
    <3>2. c[l + 4 * (2 - 1) + j] = words[2][j] BY Zenon, <1>21, <3>1
    <3>3. words[2] = PutFixed32(l) BY Zenon, <1>7, <1>8, <3>1
    <3> QED BY Zenon, <3>1, <3>2, <3>3
  <2> QED BY Zenon, <2>1, <2>2
<1>25. q \in Nat \ {0} /\ c \in Seq(Nat) /\ Len(c) = l + 4 * q + 5
  BY Zenon, <1>6, <1>16, <1>17
<1>26. Blocked(c, keys, q)
  BY Zenon, <1>18, <1>20, <1>22, <1>23, <1>24, <1>25 DEF Blocked, filter, l
<1> QED BY Zenon, <1>13, <1>26 DEF FilterLaid

-----------------------------------------------------------------------------
(* FilterBlockReader *)

\* A word somewhere in the block.
LEMMA WordAt ==
    ASSUME NEW c \in Seq(Nat), NEW at \in Nat, at + 4 <= Len(c), NEW v, Fits32(v),
           \A j \in 1..4 : c[at + j] = PutFixed32(v)[j]
    PROVE  DecodeFixed32(SubSeq(c, at + 1, at + 4)) = v
<1> DEFINE s == SubSeq(c, at + 1, at + 4)
<1>1. \A j \in 1..4 : s[j] = c[at + j]
  OBVIOUS
<1> HIDE DEF s
<1>2. \A j \in 1..4 : s[j] = PutFixed32(v)[j]
  BY Zenon, <1>1
<1>3. DecodeFixed32(s) = v
  BY SMT, <1>2, WordReadsBack
<1> QED BY Zenon, <1>3 DEF s

\* The first bytes of the block are the filter.
LEMMA BlockStarts ==
    ASSUME NEW keys \in Seq(Keys), NEW c, NEW q, Blocked(c, keys, q)
    PROVE  /\ Len(CreateFilter(keys)) \in Nat \ {0}
           /\ SubSeq(c, 1, Len(CreateFilter(keys))) = CreateFilter(keys)
<1> DEFINE filter == CreateFilter(keys)
           l == Len(filter)
           s == SubSeq(c, 1, l)
<1>1. filter \in Seq(Nat) /\ l \in Nat \ {0}
  <2>1. filter \in Seq(Nat) /\ l = FilterBytes(Len(keys)) + 1 /\ FilterBytes(Len(keys)) \in Nat \ {0}
    BY Zenon, CreateFilterIs
  <2> HIDE DEF filter
  <2> QED BY <2>1
<1>2. /\ q \in Nat \ {0} /\ c \in Seq(Nat) /\ Len(c) = l + 4 * q + 5
      /\ \A i \in 1..l : c[i] = filter[i]
  BY Zenon DEF Blocked
<1> HIDE DEF filter
<1>3. l \in 0..Len(c)
  BY <1>1, <1>2
<1>4. s \in Seq(Nat) /\ Len(s) = l /\ \A i \in 1..l : s[i] = c[i]
  BY Zenon, <1>2, <1>3, PrefixFacts
<1> HIDE DEF s
<1>5. \A i \in 1..l : s[i] = filter[i]
  BY Zenon, <1>2, <1>4
<1>6. s = filter
  BY <1>1, <1>4, <1>5
<1> QED BY Zenon, <1>1, <1>6 DEF s, filter

\* FilterBlockReader::KeyMayMatch finds the filter with all keys at offset 0.
LEMMA ReaderMatches ==
    ASSUME NEW keys \in Seq(Keys), NEW c, FilterLaid(c, keys), Fits32(Len(CreateFilter(keys))),
           NEW n \in DOMAIN keys
    PROVE  ReaderMayMatch(c, 0, keys[n])
<1>1. PICK q : Blocked(c, keys, q)
  BY Zenon DEF FilterLaid
<1> DEFINE filter == CreateFilter(keys)
           l == Len(filter)
           size == Len(c)
           word(at) == DecodeFixed32(SubSeq(c, at + 1, at + 4))
<1>2. /\ q \in Nat \ {0} /\ c \in Seq(Nat) /\ size = l + 4 * q + 5
      /\ \A j \in 1..4 : c[l + j] = PutFixed32(0)[j]
      /\ \A j \in 1..4 : c[l + 4 + j] = PutFixed32(l)[j]
      /\ \A j \in 1..4 : c[l + 4 * q + j] = PutFixed32(l)[j]
      /\ c[size] = kFilterBaseLg
  BY Zenon, <1>1 DEF Blocked
<1>3. l \in Nat \ {0} /\ SubSeq(c, 1, l) = filter /\ Fits32(l)
  BY Zenon, <1>1, BlockStarts
<1>4. KeyMayMatch(keys[n], filter)
  BY Zenon, FilterMatches
<1> HIDE DEF filter, l, size
<1>5. /\ l + 4 * q \in Nat /\ l + 4 * q + 4 <= size /\ l + 4 <= size /\ l + 4 \in Nat
      /\ l + 4 + 4 <= size /\ size - 5 = l + 4 * q /\ (size - 5 - l) \div 4 = q
      /\ ~(0 >= q) /\ 0 + 1 = 1 /\ 0 <= l /\ l <= l /\ l + 0 * 4 = l /\ l + 0 * 4 + 4 = l + 4
  BY <1>2, <1>3
<1>6. Fits32(0)
  BY SMT DEF Fits32
<1>7. word(size - 5) = l
  <2>1. word(l + 4 * q) = l
    BY Zenon, <1>2, <1>3, <1>5, WordAt DEF size
  <2> QED BY Zenon, <1>5, <2>1
<1>8. word(l + 0 * 4) = 0
  <2>1. word(l) = 0
    BY Zenon, <1>2, <1>3, <1>5, <1>6, WordAt DEF size
  <2> QED BY Zenon, <1>5, <2>1
<1>9. word(l + 0 * 4 + 4) = l
  <2>1. word(l + 4) = l
    BY Zenon, <1>2, <1>3, <1>5, WordAt DEF size
  <2> QED BY Zenon, <1>5, <2>1
<1>10. 0 \div 2^c[size] = 0
  <2> DEFINE b == 2^kFilterBaseLg
  <2>1. b \in Nat \ {0} BY Zenon, BaseAssumption DEF kFilterBase
  <2> HIDE DEF b
  <2>2. 0 \div b = 0 BY <2>1
  <2> QED BY Zenon, <1>2, <2>2 DEF b
<1> HIDE DEF word
<1> DEFINE array == word(size - 5)
           index == 0 \div 2^c[size]
           start == word(array + index * 4)
           limit == word(array + index * 4 + 4)
<1>11. start = 0 /\ limit = l /\ array = l
  BY Zenon, <1>7, <1>8, <1>9, <1>10
<1>12. start <= limit /\ limit <= array /\ KeyMayMatch(keys[n], SubSeq(c, start + 1, limit))
  <2> HIDE DEF start, limit, array
  <2> QED BY Zenon, <1>3, <1>4, <1>5, <1>11
<1> QED BY Zenon, <1>12 DEF ReaderMayMatch, size, word

\* The cut at the first zero byte leaves the filter if none of its bytes is zero: the
\* offset after it begins with one.
LEMMA CutIsFilter ==
    ASSUME NEW keys \in Seq(Keys), NEW c, FilterLaid(c, keys),
           \A i \in 1..FilterBytes(Len(keys)) : CreateFilter(keys)[i] # 0
    PROVE  CString(c) = CreateFilter(keys)
<1>1. PICK q : Blocked(c, keys, q)
  BY Zenon DEF FilterLaid
<1> DEFINE filter == CreateFilter(keys)
           l == Len(filter)
           m == FilterBytes(Len(keys))
           zeros == {i \in DOMAIN c : c[i] = 0}
<1>2. /\ q \in Nat \ {0} /\ c \in Seq(Nat) /\ Len(c) = l + 4 * q + 5
      /\ \A i \in 1..l : c[i] = filter[i]
      /\ \A j \in 1..4 : c[l + j] = PutFixed32(0)[j]
  BY Zenon, <1>1 DEF Blocked
<1>3. SubSeq(c, 1, l) = filter
  BY Zenon, <1>1, BlockStarts
<1>4. m \in Nat \ {0} /\ l = m + 1 /\ filter[m + 1] = 6
  BY Zenon, CreateFilterIs
<1>5. \A i \in 1..m : filter[i] # 0
  OBVIOUS
<1> HIDE DEF filter, l, m
<1>6. \A i \in 1..l : c[i] # 0
  <2> TAKE i \in 1..l
  <2>1. i \in 1..m \/ i = m + 1 BY <1>4
  <2>2. 6 # 0 OBVIOUS
  <2> QED BY Zenon, <1>2, <1>4, <1>5, <2>1, <2>2
<1>7. c[l + 1] = 0
  <2>1. 1 \in 1..4 /\ 0 \in Nat OBVIOUS
  <2> QED BY Zenon, <1>2, <2>1, WordBytes
<1>8. l + 1 \in zeros
  <2>1. l + 1 \in DOMAIN c BY <1>2, <1>4
  <2> QED BY Zenon, <1>7, <2>1
<1>9. zeros \in SUBSET Nat /\ \A i \in zeros : i \in Nat /\ ~(i <= l)
  <2>1. DOMAIN c = 1..Len(c) BY <1>2
  <2>2. \A i \in DOMAIN c : i \in Nat /\ (i <= l => i \in 1..l) BY <1>2, <1>4, <2>1
  <2> QED BY Zenon, <1>6, <2>2
<1>10. CString(c) = SubSeq(c, 1, Min(zeros) - 1)
  BY Zenon, <1>8 DEF CString
<1> HIDE DEF zeros
<1>11. Min(zeros) \in zeros /\ Min(zeros) <= l + 1
  BY Zenon, <1>8, <1>9, MinIsLeast
<1>12. Min(zeros) - 1 = l
  <2> DEFINE z == Min(zeros)
  <2>1. z \in Nat /\ ~(z <= l) /\ z <= l + 1 BY Zenon, <1>9, <1>11
  <2> HIDE DEF z
  <2>2. z - 1 = l BY <1>4, <2>1
  <2> QED BY Zenon, <2>2 DEF z
<1> QED BY Zenon, <1>3, <1>10, <1>12 DEF filter

\* A filter for a block below kBlockSize has an offset of 32 bits after it.
LEMMA FilterFits ==
    ASSUME NEW keys \in Seq(Keys), Len(keys) # 0, Extent(keys, Len(keys) - 1) < kBlockSize
    PROVE  Fits32(Len(CreateFilter(keys)))
<1> DEFINE n == Len(keys)
           e == Extent(keys, n - 1)
           m == FilterBytes(n)
<1>1. n \in Nat \ {0} /\ n - 1 \in 0..n
  OBVIOUS
<1>2. e \in Nat /\ n - 1 <= e
  BY Zenon, <1>1, ExtentGrows
<1>3. Len(CreateFilter(keys)) = m + 1
  BY Zenon, CreateFilterIs
<1>4. m = ((IF n * 10 < 64 THEN 64 ELSE n * 10) + 7) \div 8
  BY Zenon DEF FilterBytes, kBloomFilterPerKeySize
<1>5. e < kBlockSize
  OBVIOUS
<1> HIDE DEF n, e, m
<1>6. n <= kBlockSize /\ kBlockSize \in Nat /\ kBlockSize \div 16777216 < 128
  BY SMT, <1>1, <1>2, <1>5, TableAssumption, BlockAssumption
<1>7. kBlockSize < 2147483648
  BY SMT, <1>6
<1>8. m \in Nat /\ m <= 2684354569
  BY SMT, <1>1, <1>4, <1>6, <1>7
<1>9. Fits32(m + 1)
  BY SMT, <1>8 DEF Fits32
<1> QED BY SMT, <1>3, <1>9

-----------------------------------------------------------------------------
(* TableBuilder::Add *)

\* A data block that TableBuilder::Flush wrote to disk.
Written(s, r, data) ==
    /\ s.status = "ok" /\ s.faults = r.faults
    /\ s.stream = r.stream \o data /\ s.disk = s.stream
    /\ s.offset = r.offset + Len(data)
    /\ s.block_handle = [offset |-> r.offset, size |-> Len(data)]
    /\ s.pending_index_block /\ s.filter_block = StartBlock(r.filter_block, s.offset)

\* TableBuilder::Flush writes the block, or a write failed; the block keeps its
\* entries either way.
LEMMA TableFlushFacts ==
    ASSUME NEW r \in Reps(EntryCells), r.data_block # <<>>, NEW s \in TableFlush(r)
    PROVE  /\ s \in Reps(EntryCells) /\ SameBlocks(s, r)
           /\ (Written(s, r, Encode(r.data_block)) \/ (s.status = "error" /\ s.faults = r.faults + 1))
<1> DEFINE data == Encode(r.data_block)
           started(w) == [w EXCEPT !.pending_index_block = TRUE,
                                   !.filter_block = StartBlock(@, w.offset)]
<1>1. data \in Seq(EntryCells)
  <2>1. r.data_block \in Seq(Keys)
    BY Zenon DEF Reps
  <2> QED BY Zenon, <2>1, EncodeTyped
<1>2. PICK w \in WriteBlock(r, data) :
        s \in IF w.status = "ok" THEN FileFlush(started(w)) ELSE {w}
  BY Zenon DEF TableFlush
<1> HIDE DEF data
<1>3. /\ w \in Reps(EntryCells) /\ SameBlocks(w, r) /\ w.filter_block = r.filter_block
      /\ Placed(w, r, data) \/ (w.status = "error" /\ w.faults = r.faults + 1)
  BY <1>1, WriteBlockFacts
<1>4. "ok" # "error"
  OBVIOUS
<1>5. CASE w.status = "ok"
  <2> DEFINE v == started(w)
  <2>1. StartBlock(w.filter_block, w.offset) \in FilterBlocks
    <3>1. w.filter_block \in FilterBlocks /\ w.offset \in Nat
      BY Zenon, <1>3 DEF Reps
    <3> QED BY Zenon, <3>1, StartBlockTyped
  <2>2. v \in Reps(EntryCells)
    BY Zenon, <1>3, <2>1 DEF Reps
  <2>3. /\ SameBlocks(v, w) /\ v.pending_index_block /\ v.stream = w.stream
        /\ v.faults = w.faults /\ v.offset = w.offset /\ v.block_handle = w.block_handle
        /\ v.filter_block = StartBlock(r.filter_block, w.offset)
    BY Zenon, <1>3 DEF Reps, SameBlocks
  <2>4. s \in FileFlush(v)
    BY Zenon, <1>2, <1>5
  <2> HIDE DEF v
  <2>5. /\ s \in Reps(EntryCells) /\ SameBlocks(s, v) /\ SamePlace(s, v)
        /\ \/ /\ s.status = "ok" /\ s.faults = v.faults
              /\ s.stream = v.stream /\ s.disk = v.stream
           \/ s.status = "error" /\ s.faults = v.faults + 1
    BY <2>2, <2>4, FlushFacts DEF Fails
  <2>6. SameBlocks(s, r)
    BY Zenon, <1>3, <2>3, <2>5 DEF SameBlocks
  <2>7. Written(s, r, data) \/ (s.status = "error" /\ s.faults = r.faults + 1)
    BY Zenon, <1>3, <1>4, <1>5, <2>3, <2>5 DEF Written, Placed, SamePlace
  <2> QED BY Zenon, <2>5, <2>6, <2>7 DEF data
<1>6. CASE w.status # "ok"
  <2>1. s = w
    BY Zenon, <1>2, <1>6
  <2> QED BY Zenon, <1>3, <1>6, <2>1 DEF Placed
<1> QED BY Zenon, <1>5, <1>6

\* The builder after n entries: it has all of them in its one block, which it never
\* clears, and no index entry. Without a failed write, the block was written exactly
\* if it has reached kBlockSize, with its last entry, and only then may the filter of
\* its keys have been made.
Adding(keys, r, n) ==
    /\ r \in Reps(EntryCells)
    /\ r.data_block = First(keys, n) /\ r.index_block = <<>>
    /\ r.last_key = IF n = 0 THEN <<>> ELSE keys[n]
    /\ r.pending_index_block => n # 0
    /\ r.faults = 0 =>
          /\ r.offset = Len(r.stream)
          /\ r.pending_index_block <=> n # 0 /\ kBlockSize <= Extent(keys, n)
          /\ n # 0 => Extent(keys, n - 1) < kBlockSize
          /\ \/ Kept(r.filter_block, First(keys, n))
             \/ r.pending_index_block /\ Made(r.filter_block, First(keys, n))

\* The block is empty before the first entry only.
LEMMA FirstEmpty ==
    ASSUME NEW S, NEW keys \in Seq(S), NEW n \in 0..Len(keys)
    PROVE  First(keys, n) = <<>> <=> n = 0
<1>1. First(keys, n) \in Seq(S) /\ Len(First(keys, n)) = n
  BY PrefixFacts DEF First
<1> QED BY <1>1

\* TableBuilder::Add, with the Flush at its end.
LEMMA AddKeeps ==
    ASSUME NEW keys \in Seq(Keys), NEW n \in 0..(Len(keys) - 1), NEW r, Adding(keys, r, n),
           StartsOnEmptyBlock(r), NEW s \in TableAdd(r, keys[n + 1])
    PROVE  Adding(keys, s, n + 1)
<1> DEFINE m == n + 1
           key == keys[m]
           i == [r EXCEPT !.data_block = Append(@, key), !.last_key = key,
                          !.filter_block = AddKey(@, key)]
<1>1. n \in Nat /\ m \in Nat /\ n \in 0..Len(keys) /\ m \in 0..Len(keys) /\ m # 0 /\ m - 1 = n
  OBVIOUS
<1>2. r \in Reps(EntryCells) /\ r.filter_block \in FilterBlocks
  BY Zenon DEF Adding, Reps
<1>3. ~r.pending_index_block
  <2>1. First(keys, n) = <<>> <=> n = 0
    BY Zenon, <1>1, FirstEmpty
  <2> QED BY Zenon, <2>1 DEF Adding, StartsOnEmptyBlock
<1>4. key \in Keys /\ First(keys, m) = Append(First(keys, n), key)
      /\ First(keys, m) \in Seq(Keys)
  <2>1. /\ First(keys, n) \in Seq(Keys) /\ key \in Keys
        /\ First(keys, m) = Append(First(keys, n), key)
    BY Zenon, FirstStep
  <2>2. Append(First(keys, n), key) \in Seq(Keys)
    <3> DEFINE f == First(keys, n)
    <3> HIDE DEF f, key
    <3>1. f \in Seq(Keys) /\ key \in Keys BY Zenon, <2>1 DEF f
    <3>2. Append(f, key) \in Seq(Keys) BY <3>1
    <3> QED BY Zenon, <3>2 DEF f
  <2> QED BY Zenon, <2>1, <2>2
<1>5. s \in IF Len(Encode(i.data_block)) >= kBlockSize THEN TableFlush(i) ELSE {i}
  <2>1. AddIndexEntry(r) = r
    BY Zenon, <1>3 DEF AddIndexEntry
  <2> QED BY Zenon, <2>1 DEF TableAdd
<1> HIDE DEF m, key
<1>6. AddKey(r.filter_block, key) \in FilterBlocks
  <2>1. r.filter_block.keys \in Seq(Keys)
    BY Zenon, <1>2 DEF FilterBlocks
  <2>2. Append(r.filter_block.keys, key) \in Seq(Keys)
    BY <1>4, <2>1
  <2> QED BY Zenon, <1>2, <2>2 DEF AddKey, FilterBlocks
<1>7. r.data_block = First(keys, n)
  BY Zenon DEF Adding
<1>8. /\ i \in Reps(EntryCells) /\ i.data_block = First(keys, m) /\ i.last_key = key
      /\ i.index_block = r.index_block /\ i.offset = r.offset /\ i.stream = r.stream
      /\ i.faults = r.faults /\ i.pending_index_block = r.pending_index_block
      /\ i.filter_block = AddKey(r.filter_block, key)
  <2>1. r.last_key \in Keys \cup {<<>>}
    BY Zenon, <1>2 DEF Reps
  <2> QED BY Zenon, <1>2, <1>4, <1>6, <1>7 DEF Reps
<1> HIDE DEF i
<1>9. Len(Encode(i.data_block)) = Extent(keys, m)
  BY Zenon, <1>8 DEF Extent
<1>10. /\ Extent(keys, n) \in Nat /\ Extent(keys, m) \in Nat /\ kBlockSize \in Nat
       /\ kBlockSize # 0
  BY Zenon, <1>1, ExtentGrows, TableAssumption
<1>11. r.faults = 0 => Extent(keys, n) < kBlockSize
  <2>1. CASE n = 0
    <3>1. Extent(keys, 0) = Len(<<>>)
      BY Zenon, EncodeEmpty, FirstEnds DEF Extent
    <3>2. Len(<<>>) = 0
      OBVIOUS
    <3> QED BY <2>1, <3>1, <3>2, <1>10
  <2>2. CASE n # 0
    <3>1. r.faults = 0 => ~(kBlockSize <= Extent(keys, n))
      BY Zenon, <2>2, <1>3 DEF Adding
    <3> QED BY <3>1, <1>10
  <2> QED BY Zenon, <2>1, <2>2
<1>12. /\ i.index_block = <<>> /\ i.faults \in Nat
       /\ i.faults = 0 => i.offset = Len(i.stream)
       /\ i.faults = 0 => Kept(i.filter_block, First(keys, m))
  <2>1. /\ i.index_block = <<>> /\ i.faults \in Nat
        /\ i.faults = 0 => i.offset = Len(i.stream) /\ Kept(r.filter_block, First(keys, n))
    BY Zenon, <1>3, <1>8 DEF Adding, Reps
  <2>2. Kept(r.filter_block, First(keys, n)) => Kept(i.filter_block, First(keys, m))
    BY Zenon, <1>2, <1>4, <1>8 DEF Kept, AddKey, FilterBlocks
  <2> QED BY Zenon, <2>1, <2>2
<1>13. CASE ~(Len(Encode(i.data_block)) >= kBlockSize)
  <2>1. s = i /\ ~(kBlockSize <= Extent(keys, m))
    <3>1. s = i BY Zenon, <1>5, <1>13
    <3> QED BY <3>1, <1>9, <1>10, <1>13
  <2> QED BY Zenon, <2>1, <1>1, <1>3, <1>8, <1>11, <1>12 DEF Adding, m, key
<1>14. CASE Len(Encode(i.data_block)) >= kBlockSize
  <2>1. kBlockSize <= Extent(keys, m)
    BY <1>9, <1>10, <1>14
  <2>2. i.data_block # <<>>
    BY Zenon, <1>1, <1>8, FirstEmpty
  <2>3. /\ s \in Reps(EntryCells) /\ SameBlocks(s, i)
        /\ (Written(s, i, Encode(i.data_block)) \/ (s.status = "error" /\ s.faults = i.faults + 1))
    BY Zenon, <1>5, <1>8, <1>14, <2>2, TableFlushFacts
  <2>4. s.faults = 0 => Written(s, i, Encode(i.data_block))
    <3>1. i.faults + 1 # 0 BY <1>12
    <3> QED BY Zenon, <2>3, <3>1
  <2>5. s.faults = 0 => s.pending_index_block /\ i.faults = 0 /\ s.offset = Len(s.stream)
    <3>1. SUFFICES ASSUME s.faults = 0
                   PROVE  s.pending_index_block /\ i.faults = 0 /\ s.offset = Len(s.stream)
      BY Zenon
    <3> DEFINE d == Encode(i.data_block)
    <3>2. /\ s.stream = i.stream \o d /\ s.offset = i.offset + Len(d)
          /\ s.pending_index_block /\ i.faults = 0 /\ i.offset = Len(i.stream)
      BY Zenon, <3>1, <2>4, <1>12 DEF Written
    <3>3. i.stream \in Seq(EntryCells) /\ d \in Seq(EntryCells)
      BY Zenon, <1>8, <1>4, EncodeTyped DEF Reps
    <3> HIDE DEF d
    <3>4. Len(i.stream \o d) = Len(i.stream) + Len(d)
      BY <3>3
    <3> QED BY Zenon, <3>2, <3>4
  <2>6. s.faults = 0 => \/ Kept(s.filter_block, First(keys, m))
                        \/ Made(s.filter_block, First(keys, m))
    <3>1. i.filter_block \in FilterBlocks /\ s.offset \in Nat
      BY Zenon, <1>8, <2>3 DEF Reps
    <3>2. First(keys, m) # <<>>
      BY Zenon, <1>1, FirstEmpty
    <3>3. s.faults = 0 => /\ Kept(i.filter_block, First(keys, m))
                          /\ s.filter_block = StartBlock(i.filter_block, s.offset)
      BY Zenon, <1>12, <2>4, <2>5 DEF Written
    <3> QED BY Zenon, <1>4, <3>1, <3>2, <3>3, StartMakes
  <2> QED BY Zenon, <2>1, <2>3, <2>5, <2>6, <1>1, <1>8, <1>11, <1>12
       DEF Adding, SameBlocks, m, key
<1> QED BY Zenon, <1>13, <1>14

-----------------------------------------------------------------------------
(* The end of TableBuilder::Finish *)

\* A file without its end.
CutShort(disk, all) ==
    \E n \in 0..Len(all) : n < Len(all) /\ disk = SubSeq(all, 1, n)

\* The cells of a filter block.
LEMMA FilterEncoded ==
    ASSUME NEW bytes \in Seq(Nat)
    PROVE  /\ EncodeFilter(bytes) \in Seq(FilterCells)
           /\ Len(EncodeFilter(bytes)) = Len(bytes)
           /\ \A i \in 1..Len(bytes) : EncodeFilter(bytes)[i][2] = bytes[i]
<1>1. Len(bytes) \in Nat /\ DOMAIN bytes = 1..Len(bytes)
  OBVIOUS
<1>2. \A i \in 1..Len(bytes) : /\ Cell("filter", bytes[i], i) \in FilterCells
                               /\ Cell("filter", bytes[i], i)[2] = bytes[i]
  BY DEF Cell, FilterCells
<1>3. EncodeFilter(bytes) \in [1..Len(bytes) -> FilterCells]
  BY Zenon, <1>1, <1>2 DEF EncodeFilter
<1>4. \A i \in 1..Len(bytes) : EncodeFilter(bytes)[i][2] = bytes[i]
  BY Zenon, <1>1, <1>2 DEF EncodeFilter
<1> QED BY Zenon, <1>1, <1>3, <1>4, RowIsSequence

\* An index block of one entry.
LEMMA IndexEncoded ==
    ASSUME NEW key, NEW handle
    PROVE  EncodeIndex(Append(<<>>, <<key, handle>>)) = <<Cell("index", key, handle)>>
<1> DEFINE index == Append(<<>>, <<key, handle>>)
<1>1. DOMAIN index = 1..1 /\ index[1] = <<key, handle>>
  OBVIOUS
<1> HIDE DEF index
<1>2. index[1][1] = key /\ index[1][2] = handle
  BY <1>1
<1>3. EncodeIndex(index) = [i \in 1..1 |-> Cell("index", index[i][1], index[i][2])]
  BY Zenon, <1>1 DEF EncodeIndex
<1>4. EncodeIndex(index) = <<Cell("index", key, handle)>>
  BY <1>2, <1>3
<1> QED BY Zenon, <1>4 DEF index

\* The writes of Finish after the data block: filter, index entry, index, footer. If
\* Finish returns a good status, everything is on disk, or only its last Flush failed
\* and was not looked at.
LEMMA TailFacts ==
    ASSUME NEW r \in Reps(Cells), r.index_block = <<>>, r.pending_index_block,
           r.last_key \in Keys, NEW t \in FinishTail(r), t.status = "ok"
    PROVE  LET bytes == FinishFilterBlock(r.filter_block)
               index == [offset |-> r.offset + Len(bytes), size |-> 1]
               filter == [offset |-> r.offset, size |-> Len(bytes)]
               all == ((r.stream \o EncodeFilter(bytes))
                          \o <<Cell("index", r.last_key, r.block_handle)>>)
                          \o <<Cell("footer", index, filter)>>
           IN  /\ t.offset = r.offset + Len(bytes) + 3
               /\ \/ t.disk = all /\ t.faults = r.faults
                  \/ CutShort(t.disk, all) /\ t.faults = r.faults + 1
<1> DEFINE bytes == FinishFilterBlock(r.filter_block)
           contents == EncodeFilter(bytes)
           index == <<Cell("index", r.last_key, r.block_handle)>>
           at == [offset |-> r.offset + Len(bytes), size |-> 1]
           handle == [offset |-> r.offset, size |-> Len(bytes)]
           footer == <<Cell("footer", at, handle)>>
<1>1. bytes \in Seq(Nat) /\ Len(bytes) \in Nat \ {0} /\ r.offset \in Nat
  <2>1. r.filter_block \in FilterBlocks /\ r.offset \in Nat
    BY Zenon DEF Reps
  <2> QED BY Zenon, <2>1, FinishFilterTyped
<1>2. contents \in Seq(Cells) /\ Len(contents) = Len(bytes)
  <2>1. contents \in Seq(FilterCells) /\ Len(contents) = Len(bytes)
    BY Zenon, <1>1, FilterEncoded
  <2> HIDE DEF contents
  <2> QED BY <2>1 DEF Cells
<1> DEFINE filtered == {IF s.status = "ok" THEN [s EXCEPT !.offset = @ + Len(contents)] ELSE s :
                          s \in FileAppend(r, contents)}
           indexed(s) == WriteBlock(AddIndexEntry(s), EncodeIndex(AddIndexEntry(s).index_block))
           ended(s) == FileAppend(s, <<Cell("footer", s.block_handle,
                                            [offset |-> r.offset, size |-> Len(contents)])>>)
<1>3. PICK s1, s2, s3, f :
        /\ s1 \in filtered /\ s2 \in indexed(s1)
        /\ s3 \in ended(s2) /\ f \in FileFlush(s3)
        /\ s1.status = "ok" /\ s2.status = "ok" /\ s3.status = "ok"
        /\ t = [f EXCEPT !.status = "ok", !.offset = @ + kFixedFooterSize]
  <2> DEFINE last(s) == {[u EXCEPT !.status = "ok", !.offset = @ + kFixedFooterSize] :
                          u \in FileFlush(s)}
             then1 == UNION {IF s.status = "ok" THEN indexed(s) ELSE {s} : s \in filtered}
             then2 == UNION {IF s.status = "ok" THEN ended(s) ELSE {s} : s \in then1}
             then3 == UNION {IF s.status = "ok" THEN last(s) ELSE {s} : s \in then2}
  <2>1. t \in then3
    BY Zenon DEF FinishTail
  <2> HIDE DEF filtered, indexed, ended, last
  <2>2. PICK s3 \in then2 : s3.status = "ok" /\ t \in last(s3)
    <3>1. PICK s3 \in then2 : t \in IF s3.status = "ok" THEN last(s3) ELSE {s3}
      <4> HIDE DEF then2
      <4> QED BY Zenon, <2>1
    <3> HIDE DEF then2
    <3> QED BY Zenon, <3>1
  <2>3. PICK s2 \in then1 : s2.status = "ok" /\ s3 \in ended(s2)
    <3> HIDE DEF then1
    <3> QED BY Zenon, <2>2
  <2>4. PICK s1 \in filtered : s1.status = "ok" /\ s2 \in indexed(s1)
    BY Zenon, <2>3
  <2>5. PICK f \in FileFlush(s3) : t = [f EXCEPT !.status = "ok", !.offset = @ + kFixedFooterSize]
    BY Zenon, <2>2 DEF last
  <2> QED BY Zenon, <2>2, <2>3, <2>4, <2>5
<1> HIDE DEF bytes, contents
<1>4. /\ s1 \in Reps(Cells) /\ s1.index_block = <<>> /\ s1.pending_index_block
      /\ s1.last_key = r.last_key /\ s1.block_handle = r.block_handle
      /\ s1.faults = r.faults /\ s1.stream = r.stream \o contents
      /\ s1.offset = r.offset + Len(bytes)
  <2>1. PICK s \in FileAppend(r, contents) :
          s1 = IF s.status = "ok" THEN [s EXCEPT !.offset = @ + Len(contents)] ELSE s
    BY Zenon, <1>3
  <2>2. s.status = "ok" /\ s1 = [s EXCEPT !.offset = @ + Len(contents)]
    BY Zenon, <1>3, <2>1
  <2>3. /\ s \in Reps(Cells) /\ SameBlocks(s, r) /\ SamePlace(s, r)
        /\ s.faults = r.faults /\ s.stream = r.stream \o contents
    <3>1. "ok" # "error" OBVIOUS
    <3>2. /\ s \in Reps(Cells) /\ SameBlocks(s, r) /\ SamePlace(s, r)
          /\ \/ /\ s.status = "ok" /\ s.faults = r.faults
                /\ s.stream = r.stream \o contents /\ s.disk = r.disk
             \/ s.status = "error"
      BY <1>2, AppendFacts DEF Fails
    <3> QED BY Zenon, <3>1, <3>2, <2>2
  <2>4. s.offset = r.offset /\ s.offset + Len(contents) \in Nat
    <3>1. s.offset = r.offset BY Zenon, <2>3 DEF SamePlace
    <3> QED BY <3>1, <1>1, <1>2
  <2>5. s1 \in Reps(Cells)
    BY Zenon, <2>2, <2>3, <2>4 DEF Reps
  <2> QED BY Zenon, <1>2, <2>2, <2>3, <2>4, <2>5 DEF Reps, SameBlocks, SamePlace
<1> DEFINE i == AddIndexEntry(s1)
<1>5. /\ i \in Reps(Cells) /\ i.index_block = Append(<<>>, <<r.last_key, r.block_handle>>)
      /\ i.faults = r.faults /\ i.stream = r.stream \o contents
      /\ i.offset = r.offset + Len(bytes)
  <2>1. i = [s1 EXCEPT !.index_block = Append(@, <<s1.last_key, s1.block_handle>>),
                       !.pending_index_block = FALSE]
    BY Zenon, <1>4 DEF AddIndexEntry
  <2>2. Append(<<>>, <<r.last_key, r.block_handle>>) \in Seq(Keys \X Handles)
    <3> DEFINE pair == <<r.last_key, r.block_handle>>
    <3>1. pair \in Keys \X Handles
      BY Zenon DEF Reps
    <3> HIDE DEF pair
    <3>2. Append(<<>>, pair) \in Seq(Keys \X Handles)
      BY <3>1
    <3> QED BY Zenon, <3>2 DEF pair
  <2> HIDE DEF i
  <2> QED BY Zenon, <1>4, <2>1, <2>2 DEF Reps
<1>6. EncodeIndex(i.index_block) = index
  <2> HIDE DEF i
  <2>1. EncodeIndex(Append(<<>>, <<r.last_key, r.block_handle>>)) = index
    BY Zenon, IndexEncoded
  <2> QED BY Zenon, <1>5, <2>1
<1>7. index \in Seq(Cells) /\ Len(index) = 1
  <2>1. r.block_handle \in Handles
    BY Zenon DEF Reps
  <2>2. Cell("index", r.last_key, r.block_handle) \in Cells
    BY <2>1 DEF Cell, Cells, IndexCells
  <2> QED BY <2>2
<1>8. s2 \in WriteBlock(i, index)
  BY Zenon, <1>3, <1>6
<1> HIDE DEF i, index
<1>9. /\ s2 \in Reps(Cells) /\ s2.faults = r.faults
      /\ s2.stream = (r.stream \o contents) \o index
      /\ s2.offset = r.offset + Len(bytes) + 1 /\ s2.block_handle = at
  <2>1. "ok" # "error" OBVIOUS
  <2>2. /\ s2 \in Reps(Cells)
        /\ Placed(s2, i, index) \/ (s2.status = "error" /\ s2.faults = i.faults + 1)
    <3>1. i \in Reps(Cells) /\ index \in Seq(Cells) BY Zenon, <1>5, <1>7
    <3> QED BY Zenon, <3>1, <1>8, WriteBlockFacts
  <2> QED BY Zenon, <1>3, <1>5, <1>7, <2>1, <2>2 DEF Placed
<1>10. footer \in Seq(Cells) /\ Len(footer) = 1
  <2>1. at \in Handles /\ handle \in Handles
    BY <1>1 DEF Handles
  <2> HIDE DEF at, handle
  <2>2. Cell("footer", at, handle) \in Cells
    BY <2>1 DEF Cell, Cells, FooterCells
  <2> QED BY <2>2
<1>11. s3 \in FileAppend(s2, footer)
  BY Zenon, <1>2, <1>3, <1>9
<1> DEFINE all == ((r.stream \o contents) \o index) \o footer
<1> HIDE DEF footer, at
<1>12. s3 \in Reps(Cells) /\ s3.faults = r.faults /\ s3.stream = all
       /\ s3.offset = r.offset + Len(bytes) + 1
  <2>1. "ok" # "error" OBVIOUS
  <2>2. /\ s3 \in Reps(Cells) /\ s3.offset = s2.offset
        /\ \/ s3.status = "ok" /\ s3.faults = s2.faults /\ s3.stream = s2.stream \o footer
           \/ s3.status = "error"
    <3>1. s2 \in Reps(Cells) BY Zenon, <1>9
    <3> QED BY <3>1, <1>10, <1>11, AppendFacts DEF Fails, SamePlace
  <2> QED BY Zenon, <1>3, <1>9, <2>1, <2>2
<1> HIDE DEF all
<1>13. /\ f \in Reps(Cells) /\ f.offset = s3.offset
       /\ \/ f.faults = s3.faults /\ f.disk = s3.stream
          \/ f.faults = s3.faults + 1 /\ CutShort(f.disk, s3.stream)
  <2>1. /\ f \in Reps(Cells) /\ SamePlace(f, s3)
        /\ \/ f.faults = s3.faults /\ f.disk = s3.stream
           \/ Fails(f, s3, s3.stream)
    BY <1>3, <1>12, FlushFacts
  <2> QED BY Zenon, <2>1 DEF SamePlace, Fails, CutShort
<1>14. t.disk = f.disk /\ t.faults = f.faults /\ t.offset = f.offset + 2
  BY Zenon, <1>3, <1>13 DEF Reps, kFixedFooterSize
<1>15. t.offset = r.offset + Len(bytes) + 3
  <2>1. t.offset = (r.offset + Len(bytes) + 1) + 2
    BY Zenon, <1>12, <1>13, <1>14
  <2> QED BY <1>1, <2>1
<1>16. \/ t.disk = all /\ t.faults = r.faults
       \/ CutShort(t.disk, all) /\ t.faults = r.faults + 1
  BY Zenon, <1>12, <1>13, <1>14
<1> QED BY Zenon, <1>15, <1>16 DEF all, footer, at, handle, index, contents, bytes

-----------------------------------------------------------------------------
(* What a finished table has in its file *)

\* The entry of the index, for a data block at an offset.
IndexCell(keys, at) ==
    Cell("index", keys[Len(keys)], [offset |-> at, size |-> Len(Encode(keys))])

\* The footer, for a data block at an offset and a filter block of n bytes.
FooterCell(keys, at, n) ==
    LET size == Len(Encode(keys)) IN
    Cell("footer", [offset |-> at + size + n, size |-> 1], [offset |-> at + size, size |-> n])

\* The file: copies of the block that were written before, then the block, the filter
\* block, the index and the footer.
File(keys, before, at, bytes) ==
    (((before \o Encode(keys)) \o EncodeFilter(bytes)) \o <<IndexCell(keys, at)>>)
        \o <<FooterCell(keys, at, Len(bytes))>>

\* The file that a good status of Finish stands for: the above, or what a failed
\* write left of it. Offsets may be wrong, and keys missing in the filter, only after a
\* failed write.
LaidAs(keys, r, before, at, bytes) ==
    /\ before \in Seq(EntryCells) /\ at \in Nat
    /\ bytes \in Seq(Nat) /\ Len(bytes) \in Nat \ {0}
    /\ r.offset = at + Len(Encode(keys)) + Len(bytes) + 3
    /\ \/ r.disk = File(keys, before, at, bytes)
       \/ r.faults # 0 /\ CutShort(r.disk, File(keys, before, at, bytes))
    /\ r.faults = 0 => at = Len(before) /\ FilterLaid(bytes, keys)

\* Some copies, offset and filter bytes make it so.
Laid(keys, r) == \E before, at, bytes : LaidAs(keys, r, before, at, bytes)

\* TableBuilder::Finish, when it returns a good status.
LEMMA FinishFacts ==
    ASSUME NEW keys \in Seq(Keys), Len(keys) # 0, NEW r, Adding(keys, r, Len(keys)),
           NEW t \in TableFinish(r), t.status = "ok"
    PROVE  /\ Laid(keys, t)
           /\ t.faults = 0 => Extent(keys, Len(keys) - 1) < kBlockSize
<1> DEFINE n == Len(keys)
           data == Encode(keys)
<1>1. n \in Nat /\ n \in 1..n /\ n \in 0..n
  OBVIOUS
<1>2. /\ r \in Reps(EntryCells) /\ r.data_block = keys /\ r.index_block = <<>>
      /\ r.last_key = keys[n] /\ r.faults \in Nat /\ r.offset \in Nat
      /\ r.stream \in Seq(EntryCells)
      /\ r.faults = 0 => /\ r.offset = Len(r.stream) /\ Extent(keys, n - 1) < kBlockSize
                         /\ Kept(r.filter_block, keys) \/ Made(r.filter_block, keys)
  <2>1. First(keys, n) = keys
    BY Zenon, FirstEnds
  <2> QED BY Zenon, <2>1 DEF Adding, Reps
<1>3. keys # <<>> /\ keys[n] \in Keys /\ data \in Seq(EntryCells) /\ Len(data) \in Nat
  <2>1. keys # <<>> /\ keys[n] \in Keys
    BY <1>1
  <2>2. data \in Seq(EntryCells)
    BY Zenon, EncodeTyped
  <2> HIDE DEF data
  <2> QED BY <2>1, <2>2
<1> DEFINE closed(s) == [s EXCEPT !.closed = TRUE]
<1>4. PICK s \in TableFlush(r) : s.status = "ok" /\ t \in FinishTail(closed(s))
  <2>1. PICK s \in TableFlush(r) :
          t \in IF s.status = "ok" THEN FinishTail(closed(s)) ELSE {closed(s)}
    BY Zenon DEF TableFinish
  <2>2. s \in Reps(EntryCells)
    BY Zenon, <1>2, <1>3, <2>1, TableFlushFacts
  <2>3. closed(s).status = s.status
    BY Zenon, <2>2 DEF Reps
  <2> QED BY Zenon, <2>1, <2>3
<1>5. s \in Reps(EntryCells) /\ SameBlocks(s, r) /\ Written(s, r, data)
  <2>1. "ok" # "error" OBVIOUS
  <2> QED BY Zenon, <1>2, <1>3, <1>4, <2>1, TableFlushFacts
<1> HIDE DEF data
<1> DEFINE c == closed(s)
<1>6. c \in Reps(Cells)
  <2>1. s.stream \in Seq(Cells) /\ s.disk \in Seq(Cells)
    <3>1. s.stream \in Seq(EntryCells) /\ s.disk \in Seq(EntryCells)
      BY Zenon, <1>5 DEF Reps
    <3> QED BY <3>1 DEF Cells
  <2> QED BY Zenon, <1>5, <2>1 DEF Reps
<1>7. /\ c.index_block = <<>> /\ c.pending_index_block /\ c.last_key = keys[n]
      /\ c.faults = r.faults /\ c.stream = r.stream \o data
      /\ c.offset = r.offset + Len(data)
      /\ c.block_handle = [offset |-> r.offset, size |-> Len(data)]
      /\ c.filter_block \in FilterBlocks
      /\ c.filter_block = StartBlock(r.filter_block, s.offset)
  BY Zenon, <1>2, <1>5 DEF Reps, SameBlocks, Written
<1> HIDE DEF c
<1> DEFINE bytes == FinishFilterBlock(c.filter_block)
<1>8. bytes \in Seq(Nat) /\ Len(bytes) \in Nat \ {0}
  BY Zenon, <1>7, FinishFilterTyped
<1>9. /\ t.offset = r.offset + Len(data) + Len(bytes) + 3
      /\ \/ t.disk = File(keys, r.stream, r.offset, bytes) /\ t.faults = r.faults
         \/ CutShort(t.disk, File(keys, r.stream, r.offset, bytes)) /\ t.faults = r.faults + 1
  <2>1. t \in FinishTail(c)
    BY Zenon, <1>4 DEF c
  <2>2. r.last_key \in Keys /\ c.last_key \in Keys
    BY Zenon, <1>2, <1>3, <1>7
  <2> DEFINE index == [offset |-> c.offset + Len(bytes), size |-> 1]
             filter == [offset |-> c.offset, size |-> Len(bytes)]
             all == ((c.stream \o EncodeFilter(bytes))
                          \o <<Cell("index", c.last_key, c.block_handle)>>)
                          \o <<Cell("footer", index, filter)>>
  <2>3. /\ t.offset = c.offset + Len(bytes) + 3
        /\ \/ t.disk = all /\ t.faults = c.faults
           \/ CutShort(t.disk, all) /\ t.faults = c.faults + 1
    BY Zenon, <1>6, <1>7, <2>1, <2>2, TailFacts
  <2> HIDE DEF bytes
  <2>4. all = File(keys, r.stream, r.offset, bytes)
    BY Zenon, <1>7 DEF File, IndexCell, FooterCell, data
  <2> HIDE DEF all
  <2> QED BY Zenon, <2>3, <2>4, <1>7
<1> HIDE DEF bytes
<1>10. t.faults = 0 => r.faults = 0
  <2>1. r.faults + 1 # 0 BY <1>2
  <2> QED BY Zenon, <2>1, <1>9
<1>11. r.faults + 1 # 0
  BY <1>2
<1>12. r.faults = 0 => FilterLaid(bytes, keys)
  <2>1. r.filter_block \in FilterBlocks /\ s.offset \in Nat
    BY Zenon, <1>2, <1>5 DEF Reps
  <2>2. r.faults = 0 => Kept(c.filter_block, keys) \/ Made(c.filter_block, keys)
    BY Zenon, <1>2, <1>3, <1>7, <2>1, StartMakes
  <2> QED BY Zenon, <1>3, <1>7, <2>2, FinishLays DEF bytes
<1>13. LaidAs(keys, t, r.stream, r.offset, bytes)
  BY Zenon, <1>2, <1>8, <1>9, <1>10, <1>11, <1>12 DEF LaidAs, data
<1> QED BY Zenon, <1>2, <1>10, <1>13 DEF Laid

\* Where the parts of the file begin.
Layout(keys, before, at, bytes) ==
    LET all == File(keys, before, at, bytes)
        l == Len(before)
        d == Len(Encode(keys))
        m == Len(bytes)
    IN  /\ all \in Seq(Cells) /\ Len(all) = l + d + m + 2
        /\ \A i \in 1..(l + d) : all[i] \in EntryCells
        /\ \A i \in 1..d : all[l + i] = Encode(keys)[i]
        /\ \A i \in 1..m : all[l + d + i] \in FilterCells /\ all[l + d + i][2] = bytes[i]
        /\ all[l + d + m + 1] = IndexCell(keys, at)
        /\ all[l + d + m + 2] = FooterCell(keys, at, m)

\* The parts follow one another.
LEMMA FileFacts ==
    ASSUME NEW keys \in Seq(Keys), Len(keys) # 0, NEW before \in Seq(EntryCells),
           NEW at \in Nat, NEW bytes \in Seq(Nat)
    PROVE  Layout(keys, before, at, bytes)
<1> DEFINE data == Encode(keys)
           filter == EncodeFilter(bytes)
           l == Len(before)
           d == Len(data)
           m == Len(bytes)
           a == before \o data
           b == a \o filter
           c == b \o <<IndexCell(keys, at)>>
           all == c \o <<FooterCell(keys, at, m)>>
<1>1. data \in Seq(EntryCells)
  BY Zenon, EncodeTyped
<1>2. /\ filter \in Seq(FilterCells) /\ Len(filter) = m /\ m \in Nat
      /\ \A i \in 1..m : filter[i][2] = bytes[i]
  <2>1. m \in Nat OBVIOUS
  <2> QED BY Zenon, <2>1, FilterEncoded
<1>3. IndexCell(keys, at) \in Cells /\ FooterCell(keys, at, m) \in Cells
  <2>1. Len(keys) \in 1..Len(keys) OBVIOUS
  <2>2. keys[Len(keys)] \in Keys BY <2>1
  <2>3. d \in Nat BY <1>1
  <2> HIDE DEF d
  <2>4. at + d + m \in Nat /\ at + d \in Nat BY <1>2, <2>3
  <2>5. [offset |-> at, size |-> d] \in Handles /\ [offset |-> at + d, size |-> m] \in Handles
        /\ [offset |-> at + d + m, size |-> 1] \in Handles
    <3>1. 1 \in Nat OBVIOUS
    <3> QED BY Zenon, <1>2, <2>3, <2>4, <3>1 DEF Handles
  <2>6. IndexCell(keys, at) \in IndexCells
    BY Zenon, <2>2, <2>5 DEF IndexCell, IndexCells, Cell, d
  <2>7. FooterCell(keys, at, m) \in FooterCells
    BY Zenon, <2>5 DEF FooterCell, FooterCells, Cell, d
  <2> QED BY Zenon, <2>6, <2>7 DEF Cells
<1>4. /\ before \in Seq(Cells) /\ data \in Seq(Cells) /\ filter \in Seq(Cells)
      /\ <<IndexCell(keys, at)>> \in Seq(Cells) /\ <<FooterCell(keys, at, m)>> \in Seq(Cells)
  <2> HIDE DEF data, filter, m
  <2>1. before \in Seq(Cells) /\ data \in Seq(Cells)
    BY <1>1 DEF Cells
  <2>2. filter \in Seq(Cells)
    BY <1>2 DEF Cells
  <2> QED BY <1>3, <2>1, <2>2
<1>5. /\ Len(<<IndexCell(keys, at)>>) = 1 /\ <<IndexCell(keys, at)>>[1] = IndexCell(keys, at)
      /\ Len(<<FooterCell(keys, at, m)>>) = 1 /\ <<FooterCell(keys, at, m)>>[1] = FooterCell(keys, at, m)
  OBVIOUS
<1> HIDE DEF data, filter
<1>6. /\ a \in Seq(Cells) /\ Len(a) = l + d /\ l \in Nat /\ d \in Nat
      /\ \A i \in 1..l : a[i] = before[i]
      /\ \A i \in 1..d : a[l + i] = data[i]
  <2>1. Joined(Cells, before, data)
    BY Zenon, <1>4, JoinFacts
  <2> QED BY Zenon, <2>1 DEF Joined
<1> HIDE DEF a
<1>7. /\ b \in Seq(Cells) /\ Len(b) = Len(a) + m
      /\ \A i \in 1..Len(a) : b[i] = a[i]
      /\ \A i \in 1..m : b[Len(a) + i] = filter[i]
  <2>1. Joined(Cells, a, filter)
    BY Zenon, <1>4, <1>6, JoinFacts
  <2> QED BY Zenon, <2>1, <1>2 DEF Joined
<1> HIDE DEF b
<1>8. /\ c \in Seq(Cells) /\ Len(c) = Len(b) + 1
      /\ \A i \in 1..Len(b) : c[i] = b[i]
      /\ \A i \in 1..1 : c[Len(b) + i] = <<IndexCell(keys, at)>>[i]
  <2>1. Joined(Cells, b, <<IndexCell(keys, at)>>)
    BY Zenon, <1>4, <1>7, JoinFacts
  <2> QED BY Zenon, <2>1, <1>5 DEF Joined
<1> HIDE DEF c
<1>9. /\ all \in Seq(Cells) /\ Len(all) = Len(c) + 1
      /\ \A i \in 1..Len(c) : all[i] = c[i]
      /\ \A i \in 1..1 : all[Len(c) + i] = <<FooterCell(keys, at, m)>>[i]
  <2>1. Joined(Cells, c, <<FooterCell(keys, at, m)>>)
    BY Zenon, <1>4, <1>8, JoinFacts
  <2> QED BY Zenon, <2>1, <1>5 DEF Joined
<1> HIDE DEF l, d, m, all
<1>10. Len(a) = l + d /\ Len(b) = l + d + m /\ Len(c) = l + d + m + 1 /\ Len(all) = l + d + m + 2
  <2>1. /\ Len(a) = l + d /\ Len(b) = Len(a) + m /\ Len(c) = Len(b) + 1
        /\ Len(all) = Len(c) + 1 /\ l \in Nat /\ d \in Nat /\ m \in Nat
    BY Zenon, <1>2, <1>6, <1>7, <1>8, <1>9 DEF m
  <2> QED BY <2>1
<1>11. 1 \in 1..1 OBVIOUS
<1>12. all[l + d + m + 1] = IndexCell(keys, at)
  <2>1. l + d + m + 1 \in 1..Len(c) BY <1>2, <1>6, <1>10
  <2> QED BY Zenon, <2>1, <1>5, <1>8, <1>9, <1>10, <1>11
<1>13. all[l + d + m + 2] = FooterCell(keys, at, m)
  <2>1. all[Len(c) + 1] = FooterCell(keys, at, m)
    BY Zenon, <1>5, <1>9, <1>11
  <2>2. Len(c) + 1 = l + d + m + 2
    BY <1>2, <1>6, <1>10
  <2> QED BY Zenon, <2>1, <2>2
<1>14. \A i \in 1..(l + d + m) : all[i] = b[i]
  <2> TAKE i \in 1..(l + d + m)
  <2>1. i \in 1..Len(b) /\ i \in 1..Len(c) BY <1>2, <1>6, <1>10
  <2> QED BY Zenon, <2>1, <1>8, <1>9
<1>15. \A i \in 1..(l + d) : all[i] = a[i]
  <2> TAKE i \in 1..(l + d)
  <2>1. i \in 1..Len(a) /\ i \in 1..(l + d + m) BY <1>2, <1>6, <1>10
  <2> QED BY Zenon, <2>1, <1>7, <1>14
<1>16. \A i \in 1..m : all[l + d + i] \in FilterCells /\ all[l + d + i][2] = bytes[i]
  <2> TAKE i \in 1..m
  <2>1. l + d + i \in 1..(l + d + m) BY <1>2, <1>6
  <2>2. all[l + d + i] = filter[i]
    BY Zenon, <2>1, <1>7, <1>10, <1>14
  <2>3. filter[i] \in FilterCells BY <1>2
  <2> QED BY Zenon, <1>2, <2>2, <2>3
<1>17. \A i \in 1..d : all[l + i] = data[i]
  <2> TAKE i \in 1..d
  <2>1. l + i \in 1..(l + d) BY <1>6
  <2> QED BY Zenon, <2>1, <1>6, <1>15
<1>18. \A i \in 1..(l + d) : all[i] \in EntryCells
  <2> TAKE i \in 1..(l + d)
  <2>1. CASE i \in 1..l
    <3>1. before[i] \in EntryCells BY <2>1 DEF l
    <3> QED BY Zenon, <2>1, <3>1, <1>6, <1>15
  <2>2. CASE i \notin 1..l
    <3> DEFINE j == i - l
    <3>1. j \in 1..d /\ i = l + j BY <2>2, <1>6
    <3> HIDE DEF j
    <3>2. data[j] \in EntryCells BY <1>1, <3>1 DEF d
    <3> QED BY Zenon, <3>1, <3>2, <1>17
  <2> QED BY Zenon, <2>1, <2>2
<1>19. all = File(keys, before, at, bytes)
  BY Zenon DEF all, c, b, a, data, filter, m, File
<1> QED BY Zenon, <1>9, <1>10, <1>12, <1>13, <1>16, <1>17, <1>18, <1>19
     DEF Layout, l, d, m, data

-----------------------------------------------------------------------------
(* SSTable::Open and its iterator on that file *)

\* A span of a file, as RandomAccessFile::Read returns it.
LEMMA SpanFacts ==
    ASSUME NEW S, NEW s \in Seq(S), NEW offset \in Nat, NEW size \in Nat,
           offset + size <= Len(s)
    PROVE  LET span == SubSeq(s, offset + 1, offset + size) IN
           /\ span \in Seq(S) /\ Len(span) = size
           /\ \A i \in 1..size : span[i] = s[offset + i]
<1> DEFINE span == SubSeq(s, offset + 1, offset + size)
<1>1. span \in Seq(S) /\ Len(span) = size
  OBVIOUS
<1>2. \A i \in 1..size : span[i] = s[offset + i]
  OBVIOUS
<1> QED BY <1>1, <1>2

\* Only the whole file has a footer where its recorded size says, and then the
\* offsets are right.
LEMMA FooterIsLast ==
    ASSUME entries \in Seq(Keys), Len(entries) # 0, NEW before, NEW at, NEW bytes,
           LaidAs(entries, rep, before, at, bytes)
    PROVE  /\ rep.faults = 0 => HasFooter
           /\ HasFooter => rep.disk = File(entries, before, at, bytes) /\ at = Len(before)
<1> DEFINE all == File(entries, before, at, bytes)
           l == Len(before)
           d == Len(Encode(entries))
           m == Len(bytes)
           x == FooterAt
<1>1. /\ before \in Seq(EntryCells) /\ at \in Nat /\ bytes \in Seq(Nat) /\ m \in Nat
      /\ rep.offset = at + d + m + 3 /\ l \in Nat /\ d \in Nat
  <2>1. Encode(entries) \in Seq(EntryCells)
    BY Zenon, EncodeTyped
  <2>2. d \in Nat
    <3> DEFINE e == Encode(entries)
    <3> HIDE DEF e
    <3>1. e \in Seq(EntryCells) BY Zenon, <2>1 DEF e
    <3>2. Len(e) \in Nat BY <3>1
    <3> QED BY Zenon, <3>2 DEF e
  <2>3. /\ before \in Seq(EntryCells) /\ at \in Nat /\ bytes \in Seq(Nat) /\ m \in Nat
        /\ rep.offset = at + d + m + 3
    BY Zenon DEF LaidAs
  <2>4. l \in Nat BY <2>3
  <2> QED BY Zenon, <2>2, <2>3, <2>4
<1>2. /\ all \in Seq(Cells) /\ Len(all) = l + d + m + 2
      /\ \A i \in 1..(l + d) : all[i] \in EntryCells
      /\ \A i \in 1..m : all[l + d + i] \in FilterCells
      /\ all[l + d + m + 1] = IndexCell(entries, at)
      /\ all[l + d + m + 2] = FooterCell(entries, at, m)
  <2>1. Layout(entries, before, at, bytes)
    BY Zenon, <1>1, FileFacts
  <2> QED BY Zenon, <2>1 DEF Layout
<1>3. \/ rep.disk = all
      \/ rep.faults # 0 /\ CutShort(rep.disk, all)
  BY Zenon DEF LaidAs
<1>4. rep.faults = 0 => at = l
  BY Zenon DEF LaidAs
<1>5. HasFooter <=> x \in DOMAIN rep.disk /\ rep.disk[x][1] = "footer"
  BY Zenon DEF HasFooter
<1> HIDE DEF all, l, d, m
<1>6. x = at + d + m + 2
  BY <1>1 DEF FooterAt, kFixedFooterSize
<1> HIDE DEF x
<1>7. FooterCell(entries, at, m)[1] = "footer" /\ IndexCell(entries, at)[1] = "index"
  BY DEF FooterCell, IndexCell, Cell
<1>8. \A i \in 1..Len(all) : all[i][1] = "footer" => i = Len(all)
  <2> TAKE i \in 1..Len(all)
  <2>1. CASE i \in 1..(l + d)
    <3>1. all[i] \in EntryCells BY Zenon, <2>1, <1>2
    <3>2. all[i][1] = "entry" BY <3>1 DEF EntryCells
    <3>3. "entry" # "footer" OBVIOUS
    <3> QED BY Zenon, <3>2, <3>3
  <2>2. CASE i \notin 1..(l + d) /\ i <= l + d + m
    <3> DEFINE j == i - (l + d)
    <3>1. j \in 1..m /\ i = l + d + j BY <2>2, <1>1, <1>2
    <3> HIDE DEF j
    <3>2. all[i] \in FilterCells BY Zenon, <3>1, <1>2
    <3>3. all[i][1] = "filter" BY <3>2 DEF FilterCells
    <3>4. "filter" # "footer" OBVIOUS
    <3> QED BY Zenon, <3>3, <3>4
  <2>3. CASE i \notin 1..(l + d) /\ ~(i <= l + d + m)
    <3>1. i = l + d + m + 1 \/ i = Len(all) BY <2>3, <1>1, <1>2
    <3>2. "index" # "footer" OBVIOUS
    <3> QED BY Zenon, <3>1, <3>2, <1>2, <1>7
  <2> QED BY Zenon, <2>1, <2>2, <2>3
<1>9. rep.faults = 0 => HasFooter
  <2>1. SUFFICES ASSUME rep.faults = 0 PROVE HasFooter
    BY Zenon
  <2>2. rep.disk = all /\ at = l
    BY Zenon, <1>3, <1>4, <2>1
  <2>3. x = l + d + m + 2 /\ x \in 1..Len(all)
    BY <2>2, <1>1, <1>2, <1>6
  <2>4. x \in DOMAIN all
    BY <2>3, <1>2
  <2> QED BY Zenon, <2>2, <2>3, <2>4, <1>2, <1>5, <1>7
<1>10. ASSUME HasFooter PROVE rep.disk = all /\ at = l
  <2>1. ~CutShort(rep.disk, all)
    <3>1. SUFFICES ASSUME NEW n \in 0..Len(all), n < Len(all),
                          rep.disk = SubSeq(all, 1, n)
                   PROVE  FALSE
      BY Zenon DEF CutShort
    <3>2. /\ DOMAIN SubSeq(all, 1, n) = 1..n
          /\ \A i \in 1..n : SubSeq(all, 1, n)[i] = all[i]
      BY Zenon, <1>2, PrefixFacts
    <3>3. x \in 1..n /\ all[x][1] = "footer"
      BY Zenon, <1>5, <1>10, <3>1, <3>2
    <3>4. x \in 1..Len(all) /\ x # Len(all)
      BY <3>1, <3>3
    <3> QED BY Zenon, <1>8, <3>3, <3>4
  <2>2. rep.disk = all
    BY Zenon, <1>3, <2>1
  <2>3. DOMAIN all = 1..Len(all)
    BY <1>2
  <2>4. x = Len(all)
    BY Zenon, <1>5, <1>8, <1>10, <2>2, <2>3
  <2>5. at = l
    BY <2>4, <1>1, <1>2, <1>6
  <2> QED BY Zenon, <2>2, <2>5
<1> QED BY Zenon, <1>9, <1>10 DEF all, l

\* What the footer leads to: one index entry, for all entries, and their filter.
Reads ==
    /\ DOMAIN IndexBlock = 1..1 /\ IndexBlock # <<>>
    /\ IndexBlock[1][1] = "index" /\ IndexBlock[1][2] = entries[Len(entries)]
    /\ DataBlock(1) = Encode(entries)
    /\ IsFilter(ReadBlock(rep.disk[FooterAt][3]))
    /\ rep.faults = 0 => FilterLaid(FilterBlock, entries)

\* From the footer SSTable::Open gets to the index, the filter and the data block.
LEMMA FooterReads ==
    ASSUME entries \in Seq(Keys), Len(entries) # 0, Laid(entries, rep), HasFooter
    PROVE  Reads
<1>1. PICK before, at, bytes : LaidAs(entries, rep, before, at, bytes)
  BY Zenon DEF Laid
<1> DEFINE all == File(entries, before, at, bytes)
           l == Len(before)
           data == Encode(entries)
           d == Len(data)
           m == Len(bytes)
<1>2. rep.disk = all /\ at = l
  BY Zenon, <1>1, FooterIsLast
<1>3. /\ before \in Seq(EntryCells) /\ at \in Nat /\ bytes \in Seq(Nat) /\ m \in Nat \ {0}
      /\ rep.offset = at + d + m + 3 /\ (rep.faults = 0 => FilterLaid(bytes, entries))
  BY Zenon, <1>1 DEF LaidAs
<1>4. data \in Seq(EntryCells)
  BY Zenon, EncodeTyped
<1>5. /\ all \in Seq(Cells) /\ Len(all) = l + d + m + 2
      /\ \A i \in 1..d : all[l + i] = data[i]
      /\ \A i \in 1..m : all[l + d + i] \in FilterCells /\ all[l + d + i][2] = bytes[i]
      /\ all[l + d + m + 1] = IndexCell(entries, at)
      /\ all[l + d + m + 2] = FooterCell(entries, at, m)
  <2>1. Layout(entries, before, at, bytes)
    BY Zenon, <1>3, FileFacts
  <2> QED BY Zenon, <2>1 DEF Layout
<1>6. /\ FooterCell(entries, at, m)[2] = [offset |-> at + d + m, size |-> 1]
      /\ FooterCell(entries, at, m)[3] = [offset |-> at + d, size |-> m]
  BY DEF FooterCell, Cell
<1>7. /\ IndexCell(entries, at)[1] = "index" /\ IndexCell(entries, at)[2] = entries[Len(entries)]
      /\ IndexCell(entries, at)[3] = [offset |-> at, size |-> d]
  BY DEF IndexCell, Cell
<1> HIDE DEF all, data
<1>8. l \in Nat /\ d \in Nat
  BY <1>3, <1>4
<1> HIDE DEF l, d, m
<1>9. FooterAt = l + d + m + 2
  BY <1>2, <1>3, <1>8 DEF FooterAt, kFixedFooterSize
<1>10. ASSUME NEW offset \in Nat, NEW size \in Nat, offset + size <= Len(all)
       PROVE  /\ ReadBlock([offset |-> offset, size |-> size]) \in Seq(Cells)
              /\ Len(ReadBlock([offset |-> offset, size |-> size])) = size
              /\ \A i \in 1..size :
                    ReadBlock([offset |-> offset, size |-> size])[i] = all[offset + i]
  <2> DEFINE h == [offset |-> offset, size |-> size]
  <2>1. h.offset = offset /\ h.size = size
    OBVIOUS
  <2> HIDE DEF h
  <2>2. ReadBlock(h) = SubSeq(all, offset + 1, offset + size)
    BY Zenon, <2>1, <1>2, <1>10 DEF ReadBlock
  <2>3. all \in Seq(Cells)
    BY Zenon, <1>5
  <2>4. /\ SubSeq(all, offset + 1, offset + size) \in Seq(Cells)
        /\ Len(SubSeq(all, offset + 1, offset + size)) = size
        /\ \A i \in 1..size : SubSeq(all, offset + 1, offset + size)[i] = all[offset + i]
    BY Zenon, <2>3, <1>10, SpanFacts
  <2> QED BY Zenon, <2>2, <2>4 DEF h
<1>11. /\ IndexBlock \in Seq(Cells) /\ Len(IndexBlock) = 1
       /\ IndexBlock[1] = IndexCell(entries, at)
  <2>1. IndexBlock = ReadBlock([offset |-> l + d + m, size |-> 1])
    BY Zenon, <1>2, <1>5, <1>6, <1>9 DEF IndexBlock
  <2>2. l + d + m \in Nat /\ 1 \in Nat /\ l + d + m + 1 <= Len(all) /\ 1 \in 1..1
    BY <1>3, <1>5, <1>8
  <2> QED BY Zenon, <1>5, <1>10, <2>1, <2>2
<1>12. DOMAIN IndexBlock = 1..1 /\ IndexBlock # <<>>
  <2> DEFINE i == IndexBlock
  <2>1. i \in Seq(Cells) /\ Len(i) = 1
    BY Zenon, <1>11
  <2> HIDE DEF i
  <2>2. \A s \in Seq(Cells) : DOMAIN s = 1..Len(s)
    OBVIOUS
  <2>3. Len(<<>>) = 0 /\ 1 # 0
    OBVIOUS
  <2> QED BY Zenon, <2>1, <2>2, <2>3 DEF i
<1>13. DataBlock(1) = data
  <2> DEFINE b == ReadBlock([offset |-> l, size |-> d])
  <2>1. DataBlock(1) = b
    BY Zenon, <1>2, <1>7, <1>11 DEF DataBlock
  <2>2. l + d <= Len(all)
    BY <1>3, <1>5, <1>8
  <2>3. b \in Seq(Cells) /\ Len(b) = d /\ \A i \in 1..d : b[i] = all[l + i]
    BY Zenon, <1>8, <1>10, <2>2
  <2> HIDE DEF b
  <2>4. \A i \in 1..d : b[i] = data[i]
    BY Zenon, <1>5, <2>3
  <2>5. data \in Seq(Cells)
    BY <1>4 DEF Cells
  <2>6. b = data
    BY <2>3, <2>4, <2>5 DEF d
  <2> QED BY Zenon, <2>1, <2>6
<1>14. IsFilter(ReadBlock(rep.disk[FooterAt][3])) /\ FilterBlock = bytes
  <2> DEFINE b == ReadBlock([offset |-> l + d, size |-> m])
  <2>1. ReadBlock(rep.disk[FooterAt][3]) = b
    BY Zenon, <1>2, <1>5, <1>6, <1>9
  <2>2. l + d \in Nat /\ m \in Nat /\ l + d + m <= Len(all)
    BY <1>3, <1>5, <1>8
  <2>3. b \in Seq(Cells) /\ Len(b) = m /\ \A i \in 1..m : b[i] = all[l + d + i]
    BY Zenon, <1>10, <2>2
  <2> HIDE DEF b
  <2>4. b # <<>> /\ DOMAIN b = 1..m
    BY <1>3, <2>3
  <2>5. \A c \in FilterCells : c[1] = "filter"
    BY DEF FilterCells
  <2>6. IsFilter(b)
    BY Zenon, <1>5, <2>3, <2>4, <2>5 DEF IsFilter
  <2>7. FilterBlock = [i \in 1..m |-> bytes[i]]
    <3>1. FilterBlock = [i \in DOMAIN b |-> b[i][2]]
      BY Zenon, <2>1 DEF FilterBlock
    <3> QED BY Zenon, <1>5, <2>3, <2>4, <3>1
  <2>8. [i \in 1..m |-> bytes[i]] = bytes
    BY <1>3 DEF m
  <2> QED BY Zenon, <2>1, <2>6, <2>7, <2>8
<1> QED BY Zenon, <1>3, <1>7, <1>11, <1>12, <1>13, <1>14 DEF Reads, data

\* A file with a footer has all entries, and one without failed writes has a footer.
LEMMA LaidReadsBack ==
    ASSUME entries \in Seq(Keys), Len(entries) # 0, Laid(entries, rep)
    PROVE  /\ rep.faults = 0 => Readable
           /\ HasFooter => Readable /\ Stored = entries
<1>1. SUFFICES ASSUME HasFooter PROVE Readable /\ Stored = entries
  <2>1. rep.faults = 0 => HasFooter
    BY Zenon, FooterIsLast DEF Laid
  <2> QED BY Zenon, <2>1
<1>2. Reads
  BY Zenon, <1>1, FooterReads
<1> DEFINE index == IndexBlock
           data == DataBlock(1)
<1>3. data = Encode(entries) /\ KeysOf(data) = entries
  BY Zenon, <1>2, KeysReadBack DEF Reads
<1>4. \A i \in 1..1 : i = 1
  OBVIOUS
<1>5. DOMAIN index = 1..1 /\ index # <<>> /\ index[1][1] = "index"
  BY Zenon, <1>2 DEF Reads
<1> HIDE DEF index
<1>6. IsIndex(index)
  BY Zenon, <1>4, <1>5 DEF IsIndex
<1>7. IsData(data)
  <2>1. data \in Seq(EntryCells)
    BY Zenon, <1>3, EncodeTyped
  <2>2. Len(entries) \in 0..Len(entries) /\ Len(entries) \in Nat
    OBVIOUS
  <2>3. Len(entries) <= Extent(entries, Len(entries)) /\ Extent(entries, Len(entries)) = Len(data)
    BY Zenon, <1>3, <2>2, ExtentGrows, FirstEnds DEF Extent
  <2> HIDE DEF data
  <2>4. Len(entries) <= Len(data)
    BY Zenon, <2>3
  <2>5. data # <<>>
    BY <2>1, <2>2, <2>4
  <2>6. \A i \in DOMAIN data : data[i][1] = "entry"
    BY <2>1 DEF EntryCells
  <2> QED BY Zenon, <1>3, <2>5, <2>6 DEF IsData
<1>8. Readable
  BY Zenon, <1>1, <1>2, <1>4, <1>5, <1>6, <1>7 DEF Readable, Reads, index
<1>9. Stored = entries
  <2> DEFINE row == [i \in DOMAIN index |-> KeysOf(DataBlock(i))]
  <2>1. row = [i \in 1..1 |-> entries]
    BY Zenon, <1>3, <1>4, <1>5
  <2> HIDE DEF row
  <2>2. row = Append(<<>>, entries) /\ <<>> \in Seq(Seq(Keys))
    BY <2>1
  <2>3. AppendAll(row) = <<>> \o entries
    BY Zenon, <2>2, AppendAllAppend, AppendAllEmpty
  <2>4. <<>> \o entries = entries
    OBVIOUS
  <2> QED BY Zenon, <2>3, <2>4 DEF Stored, row, index
<1> QED BY Zenon, <1>8, <1>9

-----------------------------------------------------------------------------
(* The invariant *)

\* The assert of Add held for the entries so far.
Chained(keys, n) == \A i \in 2..n : CompareWithCut(keys[i], keys[i - 1]) = 1

\* Up to the end of Finish the builder has the entries so far in its block; after a
\* good Finish the file is laid out as above; an iterator on it is in a block of all
\* entries, where Seek left it.
TableInv ==
    /\ entries \in Seq(Keys) /\ Len(entries) # 0 /\ Ascending(entries)
    /\ added \in 0..Len(entries)
    /\ Chained(entries, added)
    /\ phase \in {"add", "misordered", "aborted"} => Adding(entries, rep, added)
    /\ phase = "misordered" => added < Len(entries) /\ ~Ordered(entries[added + 1])
    /\ phase = "aborted" => rep.pending_index_block
    /\ phase \in {"built", "open", "unreadable", "freed"} =>
          /\ Laid(entries, rep)
          /\ rep.faults = 0 => Extent(entries, Len(entries) - 1) < kBlockSize
    /\ phase = "open" => /\ HasFooter /\ block = entries
                         /\ sought # <<>> => pos = FirstNotLess(entries, sought)
    /\ phase \in {"add", "built"} => sought = <<>>

\* A new TableBuilder.
LEMMA InitTable == Init => TableInv
<1> SUFFICES ASSUME Init PROVE TableInv
  OBVIOUS
<1>1. PICK n \in 1..MaxEntries : entries \in [1..n -> Keys]
  BY Zenon DEF Init
<1>2. n \in Nat /\ n # 0
  BY TableAssumption
<1>3. entries \in Seq(Keys) /\ Len(entries) = n
  BY Zenon, <1>1, <1>2, RowIsSequence
<1>4. added \in 0..Len(entries)
  <2>1. 0 \in 0..n BY <1>2
  <2> QED BY Zenon, <1>3, <2>1 DEF Init
<1>5. Chained(entries, added)
  <2>1. \A i \in 2..0 : FALSE OBVIOUS
  <2> QED BY Zenon, <2>1 DEF Init, Chained
<1>6. Adding(entries, NewRep, 0)
  <2>1. <<>> \in Seq(EntryCells) /\ <<>> \in Seq(Keys) /\ <<>> \in Seq(Nat)
        /\ <<>> \in Seq(Keys \X Handles) /\ 0 \in Nat /\ Len(<<>>) = 0
    OBVIOUS
  <2>2. NewFilterBlock \in FilterBlocks
    BY Zenon, <2>1 DEF NewFilterBlock, FilterBlocks
  <2>3. NoHandle \in Handles
    BY Zenon, <2>1 DEF NoHandle, Handles
  <2>4. NewRep \in Reps(EntryCells)
    BY Zenon, <2>1, <2>2, <2>3 DEF NewRep, Reps
  <2>5. First(entries, 0) = <<>>
    BY Zenon, <1>3, FirstEnds
  <2>6. /\ NewRep.data_block = <<>> /\ NewRep.index_block = <<>> /\ NewRep.last_key = <<>>
        /\ ~NewRep.pending_index_block /\ NewRep.offset = 0 /\ NewRep.stream = <<>>
        /\ NewRep.filter_block = NewFilterBlock
    BY Zenon DEF NewRep
  <2>7. Kept(NewFilterBlock, <<>>)
    BY Zenon DEF Kept, NewFilterBlock
  <2> QED BY Zenon, <2>1, <2>4, <2>5, <2>6, <2>7 DEF Adding
<1>7. phase = "add" /\ added = 0 /\ rep = NewRep /\ sought = <<>> /\ Ascending(entries)
  BY Zenon DEF Init
<1>8. /\ "add" # "misordered" /\ "add" # "aborted" /\ "add" # "open"
      /\ "add" \notin {"built", "open", "unreadable", "freed"}
  OBVIOUS
<1> QED BY Zenon, <1>2, <1>3, <1>4, <1>5, <1>6, <1>7, <1>8 DEF TableInv

\* The iterator finds the block of all entries, from the start and after a Seek: the
\* index has one entry, and past its end the iterator stays.
LEMMA BlockRead ==
    ASSUME entries \in Seq(Keys), Len(entries) # 0, Laid(entries, rep), HasFooter
    PROVE  /\ KeysOf(DataBlock(1)) = entries
           /\ \A target : SeekBlock(target, entries) = entries
<1>1. Reads
  BY Zenon, FooterReads
<1>2. KeysOf(DataBlock(1)) = entries
  BY Zenon, <1>1, KeysReadBack DEF Reads
<1> DEFINE index == [i \in DOMAIN IndexBlock |-> IndexBlock[i][2]]
<1>3. Len(index) = 1 /\ DOMAIN index = 1..1
  <2>1. DOMAIN index = 1..1
    BY Zenon, <1>1 DEF Reads
  <2> DEFINE S == {index[i] : i \in 1..1}
  <2>2. index \in [1..1 -> S]
    BY Zenon, <1>1 DEF Reads
  <2>3. 1 \in Nat OBVIOUS
  <2> HIDE DEF index, S
  <2> QED BY Zenon, <2>1, <2>2, <2>3, RowIsSequence
<1>4. ASSUME NEW target PROVE SeekBlock(target, entries) = entries
  <2> DEFINE i == FirstNotLess(index, target)
             found == {j \in DOMAIN index : ~Less(index[j], target)} \cup {Len(index) + 1}
  <2>1. SeekBlock(target, entries) = IF i <= Len(index) THEN KeysOf(DataBlock(i)) ELSE entries
    BY Zenon DEF SeekBlock
  <2> HIDE DEF index
  <2>2. i = Min(found)
    BY Zenon DEF FirstNotLess
  <2>3. found \in SUBSET Nat /\ found # {} /\ \A j \in found : j \in 1..1 \/ j = 2
    BY <1>3
  <2> HIDE DEF found, i
  <2>4. i \in found
    BY Zenon, <2>2, <2>3, MinIsLeast
  <2>5. i \in 1..1 \/ i = 2
    BY Zenon, <2>3, <2>4
  <2>6. i <= 1 => i = 1
    BY <2>5
  <2> QED BY Zenon, <1>2, <1>3, <2>1, <2>6
<1> QED BY Zenon, <1>2, <1>4

\* Every step of the builder and the reader keeps the invariant.
LEMMA NextTable ==
    ASSUME TableInv, [Next]_vars
    PROVE  TableInv'
<1> DEFINE Building == {"add", "misordered", "aborted"}
           Done == {"built", "open", "unreadable", "freed"}
<1>1. entries \in Seq(Keys) /\ Len(entries) # 0 /\ Ascending(entries) /\ Len(entries) \in Nat
  <2>1. entries \in Seq(Keys) /\ Len(entries) # 0 /\ Ascending(entries)
    BY Zenon DEF TableInv
  <2> QED BY <2>1
<1>2. added \in 0..Len(entries) /\ Chained(entries, added)
  BY Zenon DEF TableInv
<1>3. /\ "add" \notin Done /\ "misordered" \notin Done /\ "aborted" \notin Done
      /\ "built" \notin Building /\ "open" \notin Building /\ "unreadable" \notin Building
      /\ "freed" \notin Building /\ "removed" \notin Building /\ "removed" \notin Done
      /\ "add" \in Building /\ "built" \in Done /\ "open" \in Done
      /\ "misordered" # "aborted" /\ "aborted" # "misordered" /\ "built" # "open"
      /\ "unreadable" # "open" /\ "freed" # "open"
      /\ "misordered" \notin {"add", "built"} /\ "aborted" \notin {"add", "built"}
      /\ "open" \notin {"add", "built"} /\ "unreadable" \notin {"add", "built"}
      /\ "freed" \notin {"add", "built"} /\ "removed" \notin {"add", "built"}
  OBVIOUS
<1>4. CASE Add
  <2>1. /\ phase = "add" /\ added < Len(entries) /\ Ordered(entries[added + 1])
        /\ StartsOnEmptyBlock(rep) /\ rep' \in TableAdd(rep, entries[added + 1])
        /\ added' = added + 1 /\ entries' = entries /\ phase' = phase /\ sought' = sought
    BY Zenon, <1>4 DEF Add
  <2>2. added \in 0..(Len(entries) - 1) /\ added + 1 \in 0..Len(entries)
    BY <1>1, <1>2, <2>1
  <2>3. Adding(entries, rep, added)
    BY Zenon, <1>3, <2>1 DEF TableInv
  <2>4. Adding(entries, rep', added + 1)
    BY Zenon, <1>1, <2>1, <2>2, <2>3, AddKeeps
  <2>5. Chained(entries, added + 1)
    <3> SUFFICES ASSUME NEW i \in 2..(added + 1)
                 PROVE  CompareWithCut(entries[i], entries[i - 1]) = 1
      BY Zenon DEF Chained
    <3>1. CASE i = added + 1
      <4>1. added \in 1..Len(entries) /\ i - 1 = added
        BY <3>1, <1>1, <2>2
      <4>2. entries[added] \in Keys
        BY <1>1, <4>1
      <4>3. entries[added] # <<>>
        <5>1. entries[added] \in Seq(Byte) /\ Len(entries[added]) >= 8
          BY Zenon, <4>2, KeyShape
        <5> QED BY <5>1
      <4>4. added # 0
        BY <4>1
      <4>5. rep.last_key = entries[added]
        BY Zenon, <2>3, <4>4 DEF Adding
      <4> QED BY Zenon, <3>1, <4>1, <4>3, <4>5, <2>1 DEF Ordered
    <3>2. CASE i # added + 1
      <4>1. i \in 2..added
        BY <3>2, <1>2
      <4> QED BY Zenon, <4>1, <1>2 DEF Chained
    <3> QED BY Zenon, <3>1, <3>2
  <2>6. sought = <<>>
    BY Zenon, <2>1 DEF TableInv
  <2> QED BY Zenon, <1>1, <1>3, <2>1, <2>2, <2>4, <2>5, <2>6 DEF TableInv
<1>5. CASE AddMisordered
  <2>1. /\ phase = "add" /\ added < Len(entries) /\ ~Ordered(entries[added + 1])
        /\ phase' = "misordered" /\ entries' = entries /\ added' = added /\ rep' = rep
    BY Zenon, <1>5 DEF AddMisordered
  <2>2. Adding(entries, rep, added)
    BY Zenon, <1>3, <2>1 DEF TableInv
  <2>3. ~Ordered(entries[added + 1])'
    BY Zenon, <2>1 DEF Ordered
  <2> QED BY Zenon, <1>1, <1>2, <1>3, <2>1, <2>2, <2>3 DEF TableInv
<1>6. CASE AddAborts
  <2>1. /\ phase = "add" /\ ~StartsOnEmptyBlock(rep)
        /\ phase' = "aborted" /\ entries' = entries /\ added' = added /\ rep' = rep
    BY Zenon, <1>6 DEF AddAborts
  <2>2. Adding(entries, rep, added) /\ rep.pending_index_block
    BY Zenon, <1>3, <2>1 DEF TableInv, StartsOnEmptyBlock
  <2> QED BY Zenon, <1>1, <1>2, <1>3, <2>1, <2>2 DEF TableInv
<1>7. CASE Finish
  <2>1. /\ phase = "add" /\ added = Len(entries) /\ rep' \in TableFinish(rep)
        /\ phase' = (IF rep'.status = "ok" THEN "built" ELSE "removed")
        /\ entries' = entries /\ added' = added /\ sought' = sought
    BY Zenon, <1>7 DEF Finish
  <2>2. Adding(entries, rep, Len(entries)) /\ sought = <<>>
    BY Zenon, <1>3, <2>1 DEF TableInv
  <2>3. rep'.status = "ok" =>
          /\ Laid(entries, rep')
          /\ rep'.faults = 0 => Extent(entries, Len(entries) - 1) < kBlockSize
    BY Zenon, <1>1, <2>1, <2>2, FinishFacts
  <2>4. (phase' = "built" /\ rep'.status = "ok") \/ phase' = "removed"
    BY Zenon, <2>1
  <2> QED BY Zenon, <1>1, <1>2, <1>3, <2>1, <2>2, <2>3, <2>4 DEF TableInv
<1>8. ASSUME phase \in Done, entries' = entries, added' = added, rep' = rep
      PROVE  /\ Laid(entries', rep')
             /\ rep'.faults = 0 => Extent(entries', Len(entries') - 1) < kBlockSize
  BY Zenon, <1>8 DEF TableInv
<1>9. CASE Open
  <2>1. /\ phase = "built" /\ Readable /\ phase' = "open" /\ block' = KeysOf(DataBlock(1))
        /\ entries' = entries /\ added' = added /\ rep' = rep /\ sought' = sought
    BY Zenon, <1>9 DEF Open, SeekToFirst
  <2>2. HasFooter /\ sought = <<>>
    BY Zenon, <2>1 DEF Readable, TableInv
  <2>3. Laid(entries, rep)
    BY Zenon, <1>3, <2>1 DEF TableInv
  <2>4. block' = entries
    BY Zenon, <1>1, <2>1, <2>2, <2>3, BlockRead
  <2>5. HasFooter'
    BY Zenon, <2>1, <2>2 DEF HasFooter, FooterAt
  <2> QED BY Zenon, <1>1, <1>2, <1>3, <1>8, <2>1, <2>2, <2>4, <2>5 DEF TableInv
<1>10. CASE OpenFails
  <2>1. /\ phase = "built" /\ phase' = "unreadable"
        /\ entries' = entries /\ added' = added /\ rep' = rep
    BY Zenon, <1>10 DEF OpenFails
  <2> QED BY Zenon, <1>1, <1>2, <1>3, <1>8, <2>1 DEF TableInv
<1>11. CASE NextEntry
  <2>1. /\ phase = "open" /\ phase' = phase /\ sought' = <<>> /\ block' = block
        /\ entries' = entries /\ added' = added /\ rep' = rep
    BY Zenon, <1>11 DEF NextEntry
  <2>2. HasFooter' /\ block = entries
    BY Zenon, <2>1 DEF TableInv, HasFooter, FooterAt
  <2> QED BY Zenon, <1>1, <1>2, <1>3, <1>8, <2>1, <2>2 DEF TableInv
<1>12. ASSUME NEW target \in Keys, Seek(target) PROVE TableInv'
  <2>1. /\ phase = "open" /\ phase' = phase /\ sought' = target
        /\ block' = SeekBlock(target, block) /\ pos' = FirstNotLess(block', target)
        /\ entries' = entries /\ added' = added /\ rep' = rep
    BY Zenon, <1>12 DEF Seek
  <2>2. HasFooter /\ HasFooter' /\ block = entries /\ Laid(entries, rep)
    BY Zenon, <1>3, <2>1 DEF TableInv, HasFooter, FooterAt
  <2>3. block' = entries
    BY Zenon, <1>1, <2>1, <2>2, BlockRead
  <2> QED BY Zenon, <1>1, <1>2, <1>3, <1>8, <2>1, <2>2, <2>3 DEF TableInv
<1>13. ASSUME NEW target \in Keys, InternalGet(target) PROVE TableInv'
  <2>1. /\ phase = "open" /\ phase' = phase /\ sought' = sought /\ block' = block
        /\ pos' = pos /\ entries' = entries /\ added' = added /\ rep' = rep
    BY Zenon, <1>13 DEF InternalGet
  <2>2. /\ HasFooter' /\ block = entries
        /\ sought # <<>> => pos = FirstNotLess(entries, sought)
    BY Zenon, <2>1 DEF TableInv, HasFooter, FooterAt
  <2> QED BY Zenon, <1>1, <1>2, <1>3, <1>8, <2>1, <2>2 DEF TableInv
<1>14. ASSUME NEW target \in Keys, InternalGetDies(target) PROVE TableInv'
  <2>1. /\ phase = "open" /\ phase' = "freed"
        /\ entries' = entries /\ added' = added /\ rep' = rep
    BY Zenon, <1>14 DEF InternalGetDies
  <2> QED BY Zenon, <1>1, <1>2, <1>3, <1>8, <2>1 DEF TableInv
<1>15. CASE UNCHANGED vars
  <2>1. /\ phase' = phase /\ sought' = sought /\ block' = block
        /\ pos' = pos /\ entries' = entries /\ added' = added /\ rep' = rep
    BY Zenon, <1>15 DEF vars
  <2>2. (HasFooter' <=> HasFooter) /\ (Ordered(entries[added + 1])' <=> Ordered(entries[added + 1]))
    BY Zenon, <2>1 DEF HasFooter, FooterAt, Ordered
  <2> QED BY Zenon, <2>1, <2>2 DEF TableInv
<1> QED BY Zenon, <1>4, <1>5, <1>6, <1>7, <1>9, <1>10, <1>11, <1>12, <1>13, <1>14, <1>15 DEF Next

-----------------------------------------------------------------------------
(* Theorems *)

\* The loop of BlockIterator::Seek stops at the first entry not less than its target.
LEMMA FirstNotLessFacts ==
    ASSUME NEW keys \in Seq(Keys), NEW target
    PROVE  LET p == FirstNotLess(keys, target) IN
           /\ p \in 1..(Len(keys) + 1)
           /\ \A i \in 1..(p - 1) : i \in DOMAIN keys /\ Less(keys[i], target)
           /\ p <= Len(keys) => ~Less(keys[p], target)
<1> DEFINE p == FirstNotLess(keys, target)
           found == {i \in DOMAIN keys : ~Less(keys[i], target)} \cup {Len(keys) + 1}
<1>1. Len(keys) \in Nat /\ DOMAIN keys = 1..Len(keys)
  OBVIOUS
<1>2. found \in SUBSET Nat /\ found # {} /\ \A i \in found : i \in 1..(Len(keys) + 1)
  BY <1>1
<1>3. p = Min(found)
  BY Zenon DEF FirstNotLess
<1>4. p \in found /\ \A i \in found : p <= i
  <2> HIDE DEF found, p
  <2> QED BY Zenon, <1>2, <1>3, MinIsLeast
<1>5. \A i \in DOMAIN keys : i \notin found => Less(keys[i], target)
  BY Zenon
<1>6. p \in DOMAIN keys => ~Less(keys[p], target)
  <2> HIDE DEF p
  <2>1. p \in DOMAIN keys => p # Len(keys) + 1
    BY <1>1
  <2> QED BY Zenon, <1>4, <2>1
<1> HIDE DEF found, p
<1>7. p \in 1..(Len(keys) + 1)
  BY Zenon, <1>2, <1>4
<1>8. \A i \in 1..(p - 1) : i \in DOMAIN keys /\ i \notin found
  BY <1>1, <1>4, <1>7
<1>9. p <= Len(keys) => p \in DOMAIN keys
  BY <1>1, <1>7
<1>10. /\ p \in 1..(Len(keys) + 1)
       /\ \A i \in 1..(p - 1) : i \in DOMAIN keys /\ Less(keys[i], target)
       /\ p <= Len(keys) => ~Less(keys[p], target)
  BY Zenon, <1>5, <1>6, <1>7, <1>8, <1>9
<1> QED BY Zenon, <1>10 DEF p

\* The builder and the file stay as TableInv says, whatever writes fail.
THEOREM TableStaysLaid == Spec => []TableInv
<1>1. Init => TableInv
  BY InitTable
<1>2. TableInv /\ [Next]_vars => TableInv'
  BY NextTable
<1> QED BY <1>1, <1>2, PTL DEF Spec

\* BuildTable, then SSTable::Open and its iterator: every table that was built
\* without a failed write reads back as the memtable, and one that reads back at all
\* after a failed write has every entry. For entries of any size and number.
THEOREM TablesReadBack == Spec => []RoundTrip
<1>1. TableInv => RoundTrip
  <2> SUFFICES ASSUME TableInv, phase \in {"built", "open", "unreadable"}
               PROVE  (rep.faults = 0 => Readable) /\ (Readable => Stored = entries)
    BY Zenon DEF RoundTrip
  <2>1. entries \in Seq(Keys) /\ Len(entries) # 0 /\ Laid(entries, rep)
    BY Zenon DEF TableInv
  <2>2. Readable => HasFooter
    BY Zenon DEF Readable
  <2> QED BY Zenon, <2>1, <2>2, LaidReadsBack
<1> QED BY <1>1, TableStaysLaid, PTL

\* SSTableIterator::Seek stops at the first entry not less than its target, through
\* an index whose one entry is the last key.
THEOREM SeeksStopRight == Spec => []SeekIsRight
<1>1. TableInv => SeekIsRight
  <2> SUFFICES ASSUME TableInv, phase = "open", sought # <<>>
               PROVE  /\ \A i \in 1..(pos - 1) : Less(block[i], sought)
                      /\ pos <= Len(block) => ~Less(block[pos], sought)
                      /\ pos > Len(block) => \A i \in DOMAIN entries : Less(entries[i], sought)
    BY Zenon DEF SeekIsRight
  <2>1. entries \in Seq(Keys) /\ block = entries /\ pos = FirstNotLess(entries, sought)
    BY Zenon DEF TableInv
  <2>2. /\ pos \in 1..(Len(entries) + 1)
        /\ \A i \in 1..(pos - 1) : i \in DOMAIN entries /\ Less(entries[i], sought)
        /\ pos <= Len(entries) => ~Less(entries[pos], sought)
    BY Zenon, <2>1, FirstNotLessFacts
  <2>3. pos > Len(entries) => \A i \in DOMAIN entries : i \in 1..(pos - 1)
    BY <2>1, <2>2
  <2> QED BY Zenon, <2>1, <2>2, <2>3
<1> QED BY <1>1, TableStaysLaid, PTL

\* When the assert of Add on an empty block fails: a table that is built was below
\* kBlockSize before its last entry, and the assert fails exactly at the entry after
\* the block is full.
THEOREM BlockAssertCharacterised == Spec => []FullBlockFailsAssert
<1>1. TableInv => FullBlockFailsAssert
  <2> SUFFICES ASSUME TableInv, rep.faults = 0
               PROVE  /\ phase \in {"built", "open", "freed"} =>
                             Extent(entries, Len(entries) - 1) < kBlockSize
                      /\ phase = "aborted" =>
                             /\ Extent(entries, added) >= kBlockSize
                             /\ Extent(entries, added - 1) < kBlockSize
    BY Zenon DEF FullBlockFailsAssert, Extent, First
  <2>1. phase \in {"built", "open", "freed"} =>
            Extent(entries, Len(entries) - 1) < kBlockSize
    BY Zenon DEF TableInv
  <2>2. ASSUME phase = "aborted"
        PROVE  /\ Extent(entries, added) >= kBlockSize
               /\ Extent(entries, added - 1) < kBlockSize
    <3>1. Adding(entries, rep, added) /\ rep.pending_index_block
      BY Zenon, <2>2 DEF TableInv
    <3>2. /\ kBlockSize <= Extent(entries, added)
          /\ Extent(entries, added - 1) < kBlockSize
      BY Zenon, <3>1 DEF Adding
    <3>3. Extent(entries, added) \in Nat
      <4>1. entries \in Seq(Keys) /\ added \in 0..Len(entries)
        BY Zenon DEF TableInv
      <4> QED BY Zenon, <4>1, ExtentGrows
    <3>4. kBlockSize \in Nat
      BY TableAssumption
    <3>5. Extent(entries, added) >= kBlockSize
      BY <3>2, <3>3, <3>4
    <3> QED BY Zenon, <3>2, <3>5
  <2> QED BY Zenon, <2>1, <2>2
<1> QED BY <1>1, TableStaysLaid, PTL

\* When the assert of Add on the order fails: only after a short key that the next
\* user key extends, and always at a second version of it.
THEOREM OrderAssertCharacterised == Spec => []ShortKeyFailsAssert
<1>1. TableInv => ShortKeyFailsAssert
  <2> SUFFICES ASSUME TableInv
               PROVE  /\ phase = "misordered" =>
                             /\ Len(CString(rep.last_key)) < 8
                             /\ StartsWith(UserKey(entries[added + 1]), UserKey(rep.last_key))
                      /\ \A i \in 2..added :
                             UserKey(entries[i]) = UserKey(entries[i - 1]) =>
                                 ~(Len(CString(entries[i - 1])) < 8)
    BY Zenon DEF ShortKeyFailsAssert, kTagSize
  <2>1. /\ entries \in Seq(Keys) /\ Ascending(entries) /\ added \in 0..Len(entries)
        /\ Chained(entries, added)
    BY Zenon DEF TableInv
  <2>2. ASSUME phase = "misordered"
        PROVE  /\ Len(CString(rep.last_key)) < 8
               /\ StartsWith(UserKey(entries[added + 1]), UserKey(rep.last_key))
    <3>1. /\ Adding(entries, rep, added) /\ added < Len(entries)
          /\ rep.last_key # <<>> /\ CompareWithCut(entries[added + 1], rep.last_key) # 1
      BY Zenon, <2>2 DEF TableInv, Ordered
    <3>2. added # 0 /\ rep.last_key = entries[added]
      BY Zenon, <3>1 DEF Adding
    <3>3. /\ added \in DOMAIN entries /\ added + 1 \in DOMAIN entries /\ added < added + 1
          /\ entries[added] \in Keys /\ entries[added + 1] \in Keys
      BY <2>1, <3>1, <3>2
    <3>4. Less(entries[added], entries[added + 1])
      BY Zenon, <2>1, <3>3 DEF Ascending
    <3> QED BY Zenon, <3>1, <3>2, <3>3, <3>4, MisorderedIsShort
  <2>3. ASSUME NEW i \in 2..added, UserKey(entries[i]) = UserKey(entries[i - 1])
        PROVE  ~(Len(CString(entries[i - 1])) < 8)
    <3>1. entries[i] \in Keys /\ entries[i - 1] \in Keys
      BY <2>1
    <3>2. CompareWithCut(entries[i], entries[i - 1]) = 1
      BY Zenon, <2>1 DEF Chained
    <3> QED BY Zenon, <2>3, <3>1, <3>2, RepeatedIsMisordered
  <2> QED BY Zenon, <2>2, <2>3
<1> QED BY <1>1, TableStaysLaid, PTL

\* SSTable::InternalGet on a table without failed writes: the filter, cut at its first
\* zero byte, and the iterator together find the keys of the table only, and all of
\* them if the cut leaves the filter whole.
LEMMA GetFacts ==
    ASSUME TableInv, phase = "open", rep.faults = 0, NEW target,
           NEW bits, bits = SubSeq(CreateFilter(entries), 1, FilterBytes(Len(entries)))
    PROVE  /\ Finds(target) => target \in Range(entries)
           /\ target \in Range(entries) /\ 0 \notin Range(bits) => Finds(target)
<1> DEFINE filter == CreateFilter(entries)
           m == FilterBytes(Len(entries))
<1>1. entries \in Seq(Keys) /\ Len(entries) # 0 /\ Laid(entries, rep) /\ HasFooter
  BY Zenon DEF TableInv
<1>2. Finds(target) <=> KeyMayMatch(target, CString(FilterBlock)) /\ target \in Range(entries)
  <2>1. SeekBlock(target, KeysOf(DataBlock(1))) = entries
    BY Zenon, <1>1, BlockRead
  <2> QED BY Zenon, <2>1 DEF Finds
<1>3. ASSUME target \in Range(entries), 0 \notin Range(bits)
      PROVE  KeyMayMatch(target, CString(FilterBlock))
  <2>1. PICK n \in DOMAIN entries : target = entries[n]
    BY Zenon, <1>3 DEF Range
  <2>2. filter \in Seq(Nat) /\ m \in Nat \ {0} /\ Len(filter) = m + 1
    BY Zenon, <1>1, CreateFilterIs
  <2>3. \A i \in 1..m : filter[i] # 0
    <3> HIDE DEF filter, m
    <3>1. m \in 0..Len(filter)
      BY <2>2
    <3>2. bits = SubSeq(filter, 1, m)
      BY Zenon DEF filter, m
    <3>3. DOMAIN bits = 1..m /\ \A i \in 1..m : bits[i] = filter[i]
      <4> DEFINE cut == SubSeq(filter, 1, m)
      <4>1. DOMAIN cut = 1..m /\ \A i \in 1..m : cut[i] = filter[i]
        BY <2>2, <3>1, PrefixFacts
      <4>2. bits = cut
        BY Zenon, <3>2
      <4> HIDE DEF cut
      <4> QED BY Zenon, <4>1, <4>2
    <3> QED BY Zenon, <1>3, <3>3 DEF Range
  <2>4. FilterLaid(FilterBlock, entries)
    BY Zenon, <1>1, FooterReads DEF Reads
  <2>5. CString(FilterBlock) = filter
    BY Zenon, <1>1, <2>3, <2>4, CutIsFilter
  <2>6. KeyMayMatch(entries[n], filter)
    BY Zenon, <1>1, FilterMatches
  <2> QED BY Zenon, <2>1, <2>5, <2>6
<1> QED BY Zenon, <1>2, <1>3

\* Gets are on an open table, and what they found stays right: the table they were
\* made on does not change.
GetInv ==
    /\ got.target # <<>> => phase \in {"open", "freed"}
    /\ GetIsRight

\* Every step keeps it.
LEMMA NextGet ==
    ASSUME TableInv, GetInv, [Next]_vars
    PROVE  GetInv'
<1> DEFINE Reading == {"open", "freed"}
<1>1. /\ "add" \notin Reading /\ "built" \notin Reading /\ "open" \in Reading
      /\ "freed" \in Reading
  OBVIOUS
<1>2. ASSUME got' = got, phase \notin Reading PROVE GetInv'
  <2>1. got'.target = <<>>
    BY Zenon, <1>2 DEF GetInv
  <2> QED BY Zenon, <2>1 DEF GetInv, GetIsRight
<1>3. ASSUME got' = got, rep' = rep, entries' = entries, phase' \in Reading PROVE GetInv'
  BY Zenon, <1>3 DEF GetInv, GetIsRight
<1>4. CASE Add \/ AddMisordered \/ AddAborts \/ Finish
  <2>1. phase = "add" /\ got' = got
    BY Zenon, <1>4 DEF Add, AddMisordered, AddAborts, Finish
  <2> QED BY Zenon, <1>1, <1>2, <2>1
<1>5. CASE Open \/ OpenFails
  <2>1. phase = "built" /\ got' = got
    BY Zenon, <1>5 DEF Open, OpenFails
  <2> QED BY Zenon, <1>1, <1>2, <2>1
<1>6. CASE NextEntry
  <2>1. phase' = "open" /\ got' = got /\ rep' = rep /\ entries' = entries
    BY Zenon, <1>6 DEF NextEntry
  <2> QED BY Zenon, <1>1, <1>3, <2>1
<1>7. ASSUME NEW target \in Keys, Seek(target) \/ InternalGetDies(target) PROVE GetInv'
  <2>1. phase' \in Reading /\ got' = got /\ rep' = rep /\ entries' = entries
    BY Zenon, <1>1, <1>7 DEF Seek, InternalGetDies
  <2> QED BY Zenon, <1>3, <2>1
<1>8. ASSUME NEW target \in Keys, InternalGet(target) PROVE GetInv'
  <2>1. /\ phase = "open" /\ phase' = "open" /\ rep' = rep /\ entries' = entries
        /\ got'.target = target /\ got'.hit = Finds(target)
    BY Zenon, <1>8 DEF InternalGet
  <2> DEFINE bits == SubSeq(CreateFilter(entries), 1, FilterBytes(Len(entries)))
  <2>2. rep.faults = 0 =>
          /\ Finds(target) => target \in Range(entries)
          /\ target \in Range(entries) /\ 0 \notin Range(bits) => Finds(target)
    BY Zenon, <2>1, GetFacts
  <2>3. GetIsRight'
    BY Zenon, <2>1, <2>2 DEF GetIsRight
  <2> QED BY Zenon, <1>1, <2>1, <2>3 DEF GetInv
<1>9. CASE UNCHANGED vars
  <2>1. got' = got /\ rep' = rep /\ entries' = entries /\ phase' = phase
    BY Zenon, <1>9 DEF vars
  <2> QED BY Zenon, <1>2, <1>3, <2>1
<1> QED BY Zenon, <1>4, <1>5, <1>6, <1>7, <1>8, <1>9 DEF Next

\* SSTable::InternalGet finds nothing that is not in the table, and every key of it
\* if no byte of the filter's bit array is zero, at which the filter would be cut.
THEOREM GetsAreRight == Spec => []GetIsRight
<1>1. Init => GetInv
  <2> SUFFICES ASSUME Init PROVE GetInv
    OBVIOUS
  <2>1. got.target = <<>>
    BY Zenon DEF Init
  <2> QED BY Zenon, <2>1 DEF GetInv, GetIsRight
<1>2. TableInv /\ GetInv /\ [Next]_vars => GetInv'
  BY NextGet
<1>3. GetInv => GetIsRight
  BY DEF GetInv
<1> QED BY <1>1, <1>2, <1>3, TableStaysLaid, PTL DEF Spec

\* The filter block that FilterBlockBuilder wrote denies no key of the block to a
\* FilterBlockReader that gets all of it, for a block at offset 0.
THEOREM FiltersKeepKeys == Spec => []FilterKeepsKeys
<1>1. TableInv => FilterKeepsKeys
  <2> SUFFICES ASSUME TableInv, phase = "built", rep.faults = 0, NEW i \in DOMAIN entries
               PROVE  ReaderMayMatch(FilterBlock, 0, entries[i])
    BY Zenon DEF FilterKeepsKeys
  <2>1. /\ entries \in Seq(Keys) /\ Len(entries) # 0 /\ Laid(entries, rep)
        /\ Extent(entries, Len(entries) - 1) < kBlockSize
    BY Zenon DEF TableInv
  <2>2. HasFooter
    BY Zenon, <2>1, LaidReadsBack DEF Readable
  <2>3. FilterLaid(FilterBlock, entries)
    BY Zenon, <2>1, <2>2, FooterReads DEF Reads
  <2>4. Fits32(Len(CreateFilter(entries)))
    BY Zenon, <2>1, FilterFits
  <2> QED BY Zenon, <2>1, <2>3, <2>4, ReaderMatches
<1> QED BY <1>1, TableStaysLaid, PTL

=============================================================================
