---------------------------- MODULE BatchProofs -----------------------------
(***************************************************************************)
(* Proofs about Batch, for any keys, values and batches: a batch holds the *)
(* calls made on it, Get finds the last write, every operation has its own *)
(* number and a manifest reads back.  They begin with the encodings, which *)
(* are shown to be read back byte by byte, and with the order of the bytes *)
(* of a number; the argument about the memtable is LogOf, the sequence of  *)
(* all operations that were written.                                       *)
(***************************************************************************)
EXTENDS Batch, FiniteSetTheorems, WellFoundedInduction, TLAPS

-----------------------------------------------------------------------------
(* Least numbers, byte strings and fixed integers *)

\* < as a set of pairs, for the theorems on well-founded relations.
Below == {pair \in Nat \X Nat : pair[1] < pair[2]}

\* Every nonempty set of numbers has a least one.  Inductions below take the
\* least counterexample.
LEMMA LeastNumber ==
    ASSUME NEW S \in SUBSET Nat, S # {}
    PROVE  \E x \in S : \A y \in S : x <= y
<1>1. IsWellFoundedOn(Below, Nat)
  BY Zenon, NatLessThanWellFounded DEF OpToRel, Below
<1>2. PICK x \in S : \A y \in S : <<y, x>> \notin Below
  BY Zenon, <1>1, WFMin
<1>3. ASSUME NEW y \in S PROVE x <= y
  <2>1. x \in Nat /\ y \in Nat
    BY Zenon
  <2>2. <<y, x>> \in Nat \X Nat /\ <<y, x>>[1] = y /\ <<y, x>>[2] = x
    BY Zenon, <2>1
  <2>3. ~(y < x)
    BY Zenon, <1>2, <2>2 DEF Below
  <2> QED BY <2>1, <2>3
<1> QED BY Zenon, <1>3

\* Min, with which GetVarint, CString and SliceCompare find a position.
LEMMA MinIsLeast ==
    ASSUME NEW S \in SUBSET Nat, S # {}
    PROVE  Min(S) \in S /\ \A y \in S : Min(S) <= y
BY Zenon, LeastNumber DEF Min

\* What the elements of a \o b are.
Joined(S, a, b) ==
    /\ a \o b \in Seq(S) /\ Len(a \o b) = Len(a) + Len(b)
    /\ Len(a) \in Nat /\ Len(b) \in Nat
    /\ \A j \in 1..Len(a) : (a \o b)[j] = a[j]
    /\ \A j \in 1..Len(b) : (a \o b)[Len(a) + j] = b[j]

\* std::string::append keeps both parts.
LEMMA JoinFacts ==
    ASSUME NEW S, NEW a \in Seq(S), NEW b \in Seq(S)
    PROVE  Joined(S, a, b)
<1>1. \A j \in 1..Len(a) : (a \o b)[j] = a[j]
  OBVIOUS
<1>2. \A j \in 1..Len(b) : (a \o b)[Len(a) + j] = b[j]
  OBVIOUS
<1> QED BY <1>1, <1>2 DEF Joined

\* A function on 1..n is a sequence.
LEMMA RowIsSequence ==
    ASSUME NEW S, NEW n \in Nat, NEW f \in [1..n -> S]
    PROVE  f \in Seq(S) /\ Len(f) = n /\ DOMAIN f = 1..n
OBVIOUS

\* What a prefix of a sequence is.
LEMMA PrefixFacts ==
    ASSUME NEW S, NEW s \in Seq(S), NEW n \in 0..Len(s)
    PROVE  /\ SubSeq(s, 1, n) \in Seq(S) /\ Len(SubSeq(s, 1, n)) = n
           /\ DOMAIN SubSeq(s, 1, n) = 1..n
           /\ \A i \in 1..n : SubSeq(s, 1, n)[i] = s[i]
<1>1. SubSeq(s, 1, n) \in Seq(S) /\ Len(SubSeq(s, 1, n)) = n
  OBVIOUS
<1>2. \A i \in 1..n : SubSeq(s, 1, n)[i] = s[i]
  OBVIOUS
<1> QED BY <1>1, <1>2

\* What Slice::Advance leaves.
Span(s, n) ==
    /\ Advance(s, n) \in Seq(Byte) /\ Len(Advance(s, n)) = Len(s) - n
    /\ \A i \in 1..(Len(s) - n) : Advance(s, n)[i] = s[n + i]

\* Slice::Advance drops the first n bytes and keeps the others.
LEMMA AdvanceFacts ==
    ASSUME NEW s \in Seq(Byte), NEW n \in 0..Len(s)
    PROVE  Span(s, n)
<1>1. SubSeq(s, n + 1, Len(s)) \in Seq(Byte) /\ Len(SubSeq(s, n + 1, Len(s))) = Len(s) - n
  OBVIOUS
<1>2. \A i \in 1..(Len(s) - n) : SubSeq(s, n + 1, Len(s))[i] = s[n + i]
  OBVIOUS
<1> QED BY Zenon, <1>1, <1>2 DEF Span, Advance

\* Sequences with the same elements are the same.
LEMMA SameSequence ==
    ASSUME NEW S, NEW s \in Seq(S), NEW t \in Seq(S), Len(s) = Len(t),
           \A i \in 1..Len(s) : s[i] = t[i]
    PROVE  s = t
OBVIOUS

\* The front and the back of two joined strings.
Parted(a, b) ==
    /\ a \o b \in Seq(Byte)
    /\ SubSeq(a \o b, 1, Len(a)) = a
    /\ Advance(a \o b, Len(a)) = b

\* Two strings that were appended come apart where the first one ends.
LEMMA JoinParts ==
    ASSUME NEW a \in Seq(Byte), NEW b \in Seq(Byte)
    PROVE  Parted(a, b)
<1> DEFINE s == a \o b
           front == SubSeq(s, 1, Len(a))
           back == Advance(s, Len(a))
<1>1. Joined(Byte, a, b)
  BY Zenon, JoinFacts
<1>2. /\ s \in Seq(Byte) /\ Len(s) = Len(a) + Len(b)
      /\ Len(a) \in Nat /\ Len(b) \in Nat
      /\ \A j \in 1..Len(a) : s[j] = a[j]
      /\ \A j \in 1..Len(b) : s[Len(a) + j] = b[j]
  BY Zenon, <1>1 DEF Joined
<1> HIDE DEF s
<1>3. Len(a) \in 0..Len(s) /\ Len(s) - Len(a) = Len(b)
  BY <1>2
<1>4. /\ front \in Seq(Byte) /\ Len(front) = Len(a)
      /\ \A i \in 1..Len(a) : front[i] = s[i]
  BY Zenon, <1>2, <1>3, PrefixFacts
<1>5. /\ back \in Seq(Byte) /\ Len(back) = Len(b)
      /\ \A k \in 1..Len(b) : back[k] = s[Len(a) + k]
  <2>1. Span(s, Len(a))
    BY Zenon, <1>2, <1>3, AdvanceFacts
  <2> QED BY Zenon, <1>3, <2>1 DEF Span
<1> HIDE DEF front, back
<1>6. front = a
  BY Zenon, <1>2, <1>4, SameSequence
<1>7. back = b
  BY Zenon, <1>2, <1>5, SameSequence
<1> QED BY Zenon, <1>2, <1>6, <1>7 DEF s, front, back, Parted

\* Appending three strings, in either order.
Assoc(a, b, c) == (a \o b) \o c = a \o (b \o c)

\* std::string::append is associative.
LEMMA JoinAssociates ==
    ASSUME NEW a \in Seq(Byte), NEW b \in Seq(Byte), NEW c \in Seq(Byte)
    PROVE  Assoc(a, b, c)
BY DEF Assoc

\* Appending the empty string, or to it.
LEMMA JoinEmpty ==
    ASSUME NEW a \in Seq(Byte)
    PROVE  <<>> \o a = a /\ a \o <<>> = a
OBVIOUS

\* The bytes of a number, lowest first.
Digit(v, i) ==
    CASE i = 1 -> v % 256
      [] i = 2 -> (v \div 256) % 256
      [] i = 3 -> (v \div 65536) % 256
      [] i = 4 -> (v \div 16777216) % 256

\* A number of 32 bits.
Fits32(v) == v \in Nat /\ v \div 16777216 < 256

\* The four bytes of PutFixed32.
Fixed32(v) ==
    /\ PutFixed32(v) \in Seq(Byte) /\ Len(PutFixed32(v)) = 4
    /\ \A i \in 1..4 : PutFixed32(v)[i] = Digit(v, i)

\* A digit to base 256 is a byte.
LEMMA DigitIsByte ==
    ASSUME NEW v \in Nat, NEW i \in 1..4
    PROVE  Digit(v, i) \in Byte
BY SMT DEF Digit, Byte

\* PutFixed32 writes four bytes.
LEMMA Fixed32Bytes ==
    ASSUME NEW v \in Nat
    PROVE  Fixed32(v)
<1>1. PutFixed32(v) = <<Digit(v, 1), Digit(v, 2), Digit(v, 3), Digit(v, 4)>>
  BY SMT DEF PutFixed32, Digit
<1>2. \A i \in 1..4 : Digit(v, i) \in Byte
  BY Zenon, DigitIsByte
<1>4. \A i \in 1..4 : i = 1 \/ i = 2 \/ i = 3 \/ i = 4
  OBVIOUS
<1>5. 1 \in 1..4 /\ 2 \in 1..4 /\ 3 \in 1..4 /\ 4 \in 1..4
  OBVIOUS
<1> DEFINE d1 == Digit(v, 1)
           d2 == Digit(v, 2)
           d3 == Digit(v, 3)
           d4 == Digit(v, 4)
<1>7. d1 \in Byte /\ d2 \in Byte /\ d3 \in Byte /\ d4 \in Byte
  BY Zenon, <1>2, <1>5
<1> HIDE DEF d1, d2, d3, d4
<1>8. /\ <<d1, d2, d3, d4>> \in Seq(Byte) /\ Len(<<d1, d2, d3, d4>>) = 4
      /\ <<d1, d2, d3, d4>>[1] = d1 /\ <<d1, d2, d3, d4>>[2] = d2
      /\ <<d1, d2, d3, d4>>[3] = d3 /\ <<d1, d2, d3, d4>>[4] = d4
  BY <1>7
<1>6. /\ PutFixed32(v) \in Seq(Byte) /\ Len(PutFixed32(v)) = 4
      /\ PutFixed32(v)[1] = Digit(v, 1) /\ PutFixed32(v)[2] = Digit(v, 2)
      /\ PutFixed32(v)[3] = Digit(v, 3) /\ PutFixed32(v)[4] = Digit(v, 4)
  BY Zenon, <1>1, <1>8 DEF d1, d2, d3, d4
<1> QED BY Zenon, <1>4, <1>6 DEF Fixed32

\* The number that four bytes stand for.
Sum32(a, b, c, d) == a + 256 * b + 65536 * c + 16777216 * d

\* The upper 32 bits of a number.
Upper(v) == (v \div 16777216) \div 256

\* u times 2 to the 32.
Raised(u) == 16777216 * (256 * u)

\* A number is the sum of its lowest four digits and its upper half, whose
\* remainders are of any width.
LEMMA Digits32 ==
    ASSUME NEW v \in Nat
    PROVE  /\ v = Sum32(Digit(v, 1), Digit(v, 2), Digit(v, 3), Digit(v, 4)) + Raised(Upper(v))
           /\ Fits32(v) => Sum32(Digit(v, 1), Digit(v, 2), Digit(v, 3), Digit(v, 4)) = v
           /\ Upper(v) \in Nat
<1> DEFINE v1 == v \div 256
           v2 == v \div 65536
           v3 == v \div 16777216
           v4 == v3 \div 256
           d1 == v % 256
           d2 == v1 % 256
           d3 == v2 % 256
           d4 == v3 % 256
<1>1. /\ v = 256 * v1 + d1 /\ v1 = 256 * v2 + d2 /\ v2 = 256 * v3 + d3
      /\ v3 = 256 * v4 + d4
      /\ v1 \in Nat /\ v2 \in Nat /\ v3 \in Nat /\ v4 \in Nat
      /\ d1 \in Nat /\ d2 \in Nat /\ d3 \in Nat /\ d4 \in Nat
      /\ v3 < 256 => v4 = 0
  BY SMT
<1>2. /\ Digit(v, 1) = d1 /\ Digit(v, 2) = d2 /\ Digit(v, 3) = d3 /\ Digit(v, 4) = d4
      /\ Fits32(v) => v3 < 256
      /\ Upper(v) = v4
  BY SMT DEF Digit, Upper, Fits32
<1> HIDE DEF v1, v2, v3, v4, d1, d2, d3, d4
<1>3. /\ v = d1 + 256 * d2 + 65536 * d3 + 16777216 * d4 + 16777216 * (256 * v4)
      /\ v4 = 0 => d1 + 256 * d2 + 65536 * d3 + 16777216 * d4 = v
  BY SMT, <1>1
<1> QED BY SMT, <1>1, <1>2, <1>3 DEF Sum32, Raised

\* What DecodeFixed32 computes.
LEMMA DecodeIsSum ==
    ASSUME NEW s
    PROVE  DecodeFixed32(s) = Sum32(s[1], s[2], s[3], s[4])
BY SMT DEF DecodeFixed32, Sum32

\* DecodeFixed32 reads what PutFixed32 wrote, for a number of 32 bits.
LEMMA Fixed32ReadsBack ==
    ASSUME NEW v, Fits32(v), NEW s, \A i \in 1..4 : s[i] = PutFixed32(v)[i]
    PROVE  DecodeFixed32(s) = v
<1>1. v \in Nat
  BY SMT DEF Fits32
<1>2. 1 \in 1..4 /\ 2 \in 1..4 /\ 3 \in 1..4 /\ 4 \in 1..4
  OBVIOUS
<1>3. Fixed32(v)
  BY Zenon, <1>1, Fixed32Bytes
<1>4. /\ s[1] = Digit(v, 1) /\ s[2] = Digit(v, 2)
      /\ s[3] = Digit(v, 3) /\ s[4] = Digit(v, 4)
  BY Zenon, <1>2, <1>3 DEF Fixed32
<1> QED BY Zenon, <1>1, <1>4, DecodeIsSum, Digits32

\* A number of 64 bits.
Fits64(v) == v \in Nat /\ Fits32(Upper(v))

\* PutFixed64 writes eight bytes, the lower half first.
LEMMA Fixed64Bytes ==
    ASSUME NEW v \in Nat
    PROVE  /\ PutFixed64(v) = PutFixed32(v) \o PutFixed32(Upper(v))
           /\ PutFixed64(v) \in Seq(Byte) /\ Len(PutFixed64(v)) = 8
           /\ \A i \in 1..4 : /\ PutFixed64(v)[i] = Digit(v, i)
                              /\ PutFixed64(v)[4 + i] = Digit(Upper(v), i)
<1>1. Upper(v) \in Nat
  BY Zenon, Digits32
<1>2. Fixed32(v) /\ Fixed32(Upper(v))
  BY Zenon, <1>1, Fixed32Bytes
<1> DEFINE low == PutFixed32(v)
           high == PutFixed32(Upper(v))
<1>3. PutFixed64(v) = low \o high
  BY SMT DEF PutFixed64, Upper
<1>4. /\ low \in Seq(Byte) /\ Len(low) = 4 /\ high \in Seq(Byte) /\ Len(high) = 4
      /\ \A i \in 1..4 : low[i] = Digit(v, i) /\ high[i] = Digit(Upper(v), i)
  BY Zenon, <1>2 DEF Fixed32
<1> HIDE DEF low, high
<1>5. Joined(Byte, low, high)
  BY Zenon, <1>4, JoinFacts
<1>6. /\ low \o high \in Seq(Byte) /\ Len(low \o high) = 4 + 4
      /\ \A i \in 1..4 : (low \o high)[i] = low[i]
      /\ \A i \in 1..4 : (low \o high)[4 + i] = high[i]
  BY Zenon, <1>4, <1>5 DEF Joined
<1>7. 4 + 4 = 8
  OBVIOUS
<1>8. \A i \in 1..4 : /\ (low \o high)[i] = Digit(v, i)
                      /\ (low \o high)[4 + i] = Digit(Upper(v), i)
  BY Zenon, <1>4, <1>6
<1> QED BY Zenon, <1>3, <1>6, <1>7, <1>8 DEF low, high

\* DecodeFixed64 reads what PutFixed64 wrote, for a number of 64 bits.
LEMMA Fixed64ReadsBack ==
    ASSUME NEW v, Fits64(v)
    PROVE  DecodeFixed64(PutFixed64(v)) = v
<1> DEFINE s == PutFixed64(v)
           t == SubSeq(s, 5, 8)
<1>1. v \in Nat /\ Upper(v) \in Nat /\ Fits32(Upper(v))
  BY Zenon, Digits32 DEF Fits64
<1>2. /\ s \in Seq(Byte) /\ Len(s) = 8
      /\ \A i \in 1..4 : s[i] = Digit(v, i) /\ s[4 + i] = Digit(Upper(v), i)
  BY Zenon, <1>1, Fixed64Bytes
<1> HIDE DEF s
<1>3. t[1] = s[5] /\ t[2] = s[6] /\ t[3] = s[7] /\ t[4] = s[8]
  BY <1>2
<1> HIDE DEF t
<1>4. 1 \in 1..4 /\ 2 \in 1..4 /\ 3 \in 1..4 /\ 4 \in 1..4
      /\ 4 + 1 = 5 /\ 4 + 2 = 6 /\ 4 + 3 = 7 /\ 4 + 4 = 8
  OBVIOUS
<1> DEFINE u == Upper(v)
<1>5. /\ s[1] = Digit(v, 1) /\ s[2] = Digit(v, 2) /\ s[3] = Digit(v, 3) /\ s[4] = Digit(v, 4)
      /\ t[1] = Digit(u, 1) /\ t[2] = Digit(u, 2) /\ t[3] = Digit(u, 3) /\ t[4] = Digit(u, 4)
  BY Zenon, <1>2, <1>3, <1>4
<1> DEFINE low == Sum32(Digit(v, 1), Digit(v, 2), Digit(v, 3), Digit(v, 4))
<1>6. DecodeFixed32(s) = low /\ DecodeFixed32(t) = u
  BY Zenon, <1>1, <1>5, DecodeIsSum, Digits32
<1>7. v = low + Raised(u)
  BY SMT, <1>1, Digits32
<1> HIDE DEF low, u
<1>8. DecodeFixed64(s) = low + Raised(u)
  BY SMT, <1>6 DEF DecodeFixed64, t, Raised
<1> QED BY SMT, <1>7, <1>8 DEF s

-----------------------------------------------------------------------------
(* Varints *)

\* The body of the recursion in PutVarint.
PutNext(f, n) == IF n < 128 THEN <<n>> ELSE <<128 + (n % 128)>> \o f[n \div 128]

\* Shifting right by seven bits makes a large number smaller.
LEMMA Shift7 ==
    ASSUME NEW n \in Nat
    PROVE  /\ n \div 128 \in Nat /\ n % 128 \in 0..127
           /\ n = 128 * (n \div 128) + (n % 128)
           /\ ~(n < 128) => n \div 128 < n /\ n \div 128 >= 1
BY SMT

\* The recursion of PutVarint defines a function.
LEMMA PutExists ==
    ASSUME NEW n \in Nat
    PROVE  \E f : f = [i \in 0..n |-> PutNext(f, i)]
<1> DEFINE Bad == {m \in Nat : ~\E f : f = [i \in 0..m |-> PutNext(f, i)]}
<1>1. SUFFICES ASSUME Bad # {} PROVE FALSE
  BY Zenon
<1>2. PICK m \in Bad : \A y \in Bad : m <= y
  BY Zenon, <1>1, LeastNumber
<1>3. m \in Nat /\ ~\E f : f = [i \in 0..m |-> PutNext(f, i)]
  BY Zenon
<1>4. CASE m = 0
  <2> DEFINE g == [i \in 0..0 |-> <<i>>]
  <2>1. \A i \in 0..0 : i < 128
    OBVIOUS
  <2>2. g = [i \in 0..0 |-> PutNext(g, i)]
    BY Zenon, <2>1 DEF PutNext
  <2> QED BY Zenon, <2>2, <1>3, <1>4
<1>5. CASE m # 0
  <2>1. m - 1 \in Nat /\ ~(m <= m - 1)
    BY <1>3, <1>5
  <2>2. PICK f : f = [i \in 0..(m - 1) |-> PutNext(f, i)]
    BY Zenon, <2>1, <1>2
  <2> DEFINE g == [i \in 0..m |-> IF i = m THEN PutNext(f, m) ELSE f[i]]
  <2>3. ASSUME NEW i \in 0..m PROVE g[i] = PutNext(g, i)
    <3>1. ~(i < 128) => i \div 128 \in 0..m /\ i \div 128 # m
      <4>1. i \in Nat /\ i <= m
        BY <1>3
      <4> QED BY <1>3, <4>1, Shift7
    <3>2. ~(i < 128) => g[i \div 128] = f[i \div 128]
      BY Zenon, <3>1
    <3>3. i # m => i \in 0..(m - 1)
      BY <1>3
    <3>4. i # m => f[i] = PutNext(f, i)
      BY Zenon, <2>2, <3>3
    <3>5. g[i] = PutNext(f, i)
      <4>1. g[i] = IF i = m THEN PutNext(f, m) ELSE f[i]
        BY Zenon
      <4> HIDE DEF g
      <4> QED BY <4>1, <3>4
    <3> HIDE DEF g
    <3>6. PutNext(g, i) = PutNext(f, i)
      BY Zenon, <3>2 DEF PutNext
    <3> QED BY Zenon, <3>5, <3>6
  <2>4. g = [i \in 0..m |-> PutNext(g, i)]
    BY Zenon, <2>3
  <2> QED BY Zenon, <2>4, <1>3
<1> QED BY Zenon, <1>4, <1>5

\* The recursive function of PutVarint.
PutUpTo(m) == CHOOSE f : f = [n \in 0..m |-> PutNext(f, n)]

\* One step of PutVarint.
LEMMA PutStep ==
    ASSUME NEW m \in Nat, NEW n \in 0..m
    PROVE  PutUpTo(m)[n] = PutNext(PutUpTo(m), n)
<1>1. PutUpTo(m) = [i \in 0..m |-> PutNext(PutUpTo(m), i)]
  BY Zenon, PutExists DEF PutUpTo
<1> DEFINE g == [i \in 0..m |-> PutNext(PutUpTo(m), i)]
<1>2. g[n] = PutNext(PutUpTo(m), n)
  BY Zenon
<1> QED BY Zenon, <1>1, <1>2

\* The bytes of n do not depend on where the recursion began.
LEMMA PutAgrees ==
    ASSUME NEW n \in Nat, NEW m \in Nat, n <= m
    PROVE  PutUpTo(n)[n] = PutUpTo(m)[n]
<1> DEFINE Bad == {i \in 0..n : PutUpTo(n)[i] # PutUpTo(m)[i]}
<1>1. SUFFICES ASSUME Bad # {} PROVE FALSE
  <2>1. n \in 0..n OBVIOUS
  <2> QED BY Zenon, <2>1
<1>2. PICK i \in Bad : \A j \in Bad : i <= j
  <2>1. Bad \in SUBSET Nat OBVIOUS
  <2> QED BY Zenon, <1>1, <2>1, LeastNumber
<1>3. i \in 0..n /\ PutUpTo(n)[i] # PutUpTo(m)[i]
  BY Zenon, <1>2
<1>4. i \in 0..m /\ i \in Nat
  BY <1>3
<1>5. ~(i < 128) => i \div 128 \in 0..n /\ ~(i <= i \div 128)
  BY <1>3, <1>4, Shift7
<1>6. ~(i < 128) => PutUpTo(n)[i \div 128] = PutUpTo(m)[i \div 128]
  BY Zenon, <1>2, <1>5
<1>7. /\ PutUpTo(n)[i] = PutNext(PutUpTo(n), i)
      /\ PutUpTo(m)[i] = PutNext(PutUpTo(m), i)
  BY Zenon, <1>3, <1>4, PutStep
<1> QED BY Zenon, <1>3, <1>6, <1>7 DEF PutNext

\* PutVarint writes the lowest seven bits, then the rest.
LEMMA PutVarintStep ==
    ASSUME NEW v \in Nat
    PROVE  PutVarint(v) = IF v < 128 THEN <<v>>
                          ELSE <<128 + (v % 128)>> \o PutVarint(v \div 128)
<1>1. v \in 0..v /\ (~(v < 128) => v \div 128 \in Nat /\ v \div 128 <= v)
  BY Shift7
<1>2. \A n \in Nat : PutVarint(n) = PutUpTo(n)[n]
  BY Zenon DEF PutVarint, PutUpTo, PutNext
<1>3. PutUpTo(v)[v] = PutNext(PutUpTo(v), v)
  BY Zenon, <1>1, PutStep
<1>4. ~(v < 128) => PutUpTo(v \div 128)[v \div 128] = PutUpTo(v)[v \div 128]
  BY Zenon, <1>1, PutAgrees
<1> QED BY Zenon, <1>1, <1>2, <1>3, <1>4 DEF PutNext

\* What holds of a varint: it has an end, and no zero byte unless it is zero.
Varint(v) ==
    /\ PutVarint(v) \in Seq(Byte) /\ Len(PutVarint(v)) >= 1
    /\ \E i \in DOMAIN PutVarint(v) : PutVarint(v)[i] < 128
    /\ v >= 1 => \A i \in DOMAIN PutVarint(v) : PutVarint(v)[i] # 0

\* A string of one byte.
LEMMA OneByte ==
    ASSUME NEW b \in Byte
    PROVE  /\ <<b>> \in Seq(Byte) /\ Len(<<b>>) = 1
           /\ DOMAIN <<b>> = 1..1 /\ <<b>>[1] = b
BY DEF Byte

\* A byte in front of a string.
LEMMA PushFacts ==
    ASSUME NEW b \in Byte, NEW t \in Seq(Byte)
    PROVE  /\ <<b>> \o t \in Seq(Byte) /\ Len(<<b>> \o t) = Len(t) + 1
           /\ DOMAIN (<<b>> \o t) = 1..(Len(t) + 1)
           /\ (<<b>> \o t)[1] = b
           /\ \A i \in 1..Len(t) : (<<b>> \o t)[i + 1] = t[i]
<1> DEFINE s == <<b>> \o t
<1>1. s \in Seq(Byte) /\ Len(s) = Len(t) + 1 /\ s[1] = b
  OBVIOUS
<1>2. \A i \in 1..Len(t) : s[i + 1] = t[i]
  OBVIOUS
<1>3. DOMAIN s = 1..(Len(t) + 1)
  <2> HIDE DEF s
  <2> QED BY <1>1
<1> QED BY Zenon, <1>1, <1>2, <1>3

\* PutVarint writes a varint.
LEMMA VarintTyped ==
    ASSUME NEW v \in Nat
    PROVE  Varint(v)
<1> DEFINE Bad == {n \in Nat : ~Varint(n)}
<1>1. SUFFICES ASSUME Bad # {} PROVE FALSE
  BY Zenon
<1>2. PICK n \in Bad : \A y \in Bad : n <= y
  BY Zenon, <1>1, LeastNumber
<1>3. n \in Nat /\ ~Varint(n)
  BY Zenon
<1>4. CASE n < 128
  <2>1. PutVarint(n) = <<n>>
    BY Zenon, <1>3, <1>4, PutVarintStep
  <2>2. n \in Byte /\ (n >= 1 => n # 0)
    BY <1>3, <1>4 DEF Byte
  <2>3. 1 >= 1 /\ 1 \in 1..1 /\ \A i \in 1..1 : i = 1
    OBVIOUS
  <2> DEFINE s == PutVarint(n)
  <2>5. s \in Seq(Byte) /\ Len(s) = 1 /\ DOMAIN s = 1..1 /\ s[1] = n
    BY Zenon, <2>1, <2>2, OneByte
  <2> HIDE DEF s
  <2>6. Len(s) >= 1 /\ s[1] < 128 /\ (n >= 1 => \A i \in 1..1 : s[i] # 0)
    BY Zenon, <1>4, <2>2, <2>3, <2>5
  <2>4. Varint(n)
    BY Zenon, <2>3, <2>5, <2>6 DEF Varint, s
  <2> QED BY Zenon, <2>4, <1>3
<1>5. CASE ~(n < 128)
  <2> DEFINE m == n \div 128
             b == 128 + (n % 128)
             t == PutVarint(m)
  <2>1. m \in Nat /\ ~(n <= m) /\ m >= 1 /\ b \in Byte /\ b # 0
    <3>1. /\ n \div 128 \in Nat /\ n % 128 \in 0..127
          /\ n \div 128 < n /\ n \div 128 >= 1
      BY Zenon, <1>3, <1>5, Shift7
    <3> QED BY <1>3, <3>1 DEF Byte
  <2>2. PutVarint(n) = <<b>> \o t
    BY Zenon, <1>3, <1>5, PutVarintStep
  <2>3. Varint(m)
    BY Zenon, <2>1, <1>2
  <2> HIDE DEF b, m
  <2>4. /\ t \in Seq(Byte) /\ Len(t) >= 1 /\ \E i \in DOMAIN t : t[i] < 128
        /\ \A i \in DOMAIN t : t[i] # 0
    BY Zenon, <2>3, <2>1 DEF Varint
  <2> HIDE DEF t
  <2> DEFINE s == <<b>> \o t
  <2>5. /\ s \in Seq(Byte) /\ Len(s) = Len(t) + 1 /\ DOMAIN s = 1..(Len(t) + 1)
        /\ s[1] = b /\ \A i \in 1..Len(t) : s[i + 1] = t[i]
    BY Zenon, <2>1, <2>4, PushFacts
  <2> HIDE DEF s
  <2>6. Len(t) \in Nat /\ DOMAIN t = 1..Len(t)
    BY <2>4
  <2>7. Len(s) >= 1
    BY <2>5, <2>6
  <2>8. \E i \in DOMAIN s : s[i] < 128
    <3>1. PICK i \in 1..Len(t) : t[i] < 128
      BY Zenon, <2>4, <2>6
    <3>2. i + 1 \in 1..(Len(t) + 1)
      BY <2>6
    <3> QED BY Zenon, <3>1, <3>2, <2>5
  <2>9. ASSUME NEW i \in DOMAIN s PROVE s[i] # 0
    <3>1. i = 1 \/ (i - 1 \in 1..Len(t) /\ (i - 1) + 1 = i)
      BY <2>5, <2>6
    <3>2. i - 1 \in 1..Len(t) => s[(i - 1) + 1] = t[i - 1]
      BY Zenon, <2>5
    <3> QED BY Zenon, <3>1, <3>2, <2>1, <2>4, <2>5, <2>6
  <2>10. Varint(n)
    BY Zenon, <2>2, <2>5, <2>7, <2>8, <2>9 DEF Varint, s
  <2> QED BY Zenon, <2>10, <1>3
<1> QED BY Zenon, <1>4, <1>5

\* The body of the recursion in GetVarint.
ValueNext(s, last, f, i) == IF i = last THEN s[i] ELSE s[i] - 128 + 128 * f[i + 1]

\* The recursion of GetVarint, from the last byte down, defines a function.
LEMMA ValueExists ==
    ASSUME NEW s, NEW last \in Nat, NEW n \in Nat
    PROVE  \E f : f = [i \in (last - n)..last |-> ValueNext(s, last, f, i)]
<1> DEFINE Fun(f, m) == f = [i \in (last - m)..last |-> ValueNext(s, last, f, i)]
           Bad == {m \in Nat : ~\E f : Fun(f, m)}
<1>1. SUFFICES ASSUME Bad # {} PROVE FALSE
  BY Zenon
<1>2. PICK m \in Bad : \A y \in Bad : m <= y
  BY Zenon, <1>1, LeastNumber
<1>3. m \in Nat /\ ~\E f : Fun(f, m)
  BY Zenon
<1>4. CASE m = 0
  <2> DEFINE g == [i \in (last - m)..last |-> s[i]]
  <2>1. \A i \in (last - m)..last : i = last
    BY <1>4
  <2>2. Fun(g, m)
    BY Zenon, <2>1 DEF ValueNext
  <2> QED BY Zenon, <2>2, <1>3
<1>5. CASE m # 0
  <2>1. m - 1 \in Nat /\ ~(m <= m - 1)
    BY <1>3, <1>5
  <2>2. PICK f : Fun(f, m - 1)
    BY Zenon, <2>1, <1>2
  <2> DEFINE p == last - m
             g == [i \in p..last |-> IF i = p THEN ValueNext(s, last, f, p) ELSE f[i]]
  <2>3. ASSUME NEW i \in p..last PROVE g[i] = ValueNext(s, last, g, i)
    <3>1. i # last => i + 1 \in p..last /\ i + 1 # p
      BY <1>3
    <3>2. i # last => g[i + 1] = f[i + 1]
      BY Zenon, <3>1
    <3>3. i # p => i \in (last - (m - 1))..last
      BY <1>3
    <3>4. i # p => f[i] = ValueNext(s, last, f, i)
      BY Zenon, <2>2, <3>3
    <3>5. g[i] = ValueNext(s, last, f, i)
      <4>1. g[i] = IF i = p THEN ValueNext(s, last, f, p) ELSE f[i]
        BY Zenon
      <4> HIDE DEF g, p
      <4> QED BY <4>1, <3>4
    <3> HIDE DEF g
    <3>6. ValueNext(s, last, g, i) = ValueNext(s, last, f, i)
      BY Zenon, <3>2 DEF ValueNext
    <3> QED BY Zenon, <3>5, <3>6
  <2>4. Fun(g, m)
    BY Zenon, <2>3
  <2> QED BY Zenon, <2>4, <1>3
<1> QED BY Zenon, <1>4, <1>5

\* The recursive function of GetVarint.
Value(s, last) == CHOOSE f : f = [i \in 1..last |-> ValueNext(s, last, f, i)]

\* One step of GetVarint.
LEMMA ValueStep ==
    ASSUME NEW s, NEW last \in Nat, NEW i \in 1..last
    PROVE  Value(s, last)[i] = ValueNext(s, last, Value(s, last), i)
<1>1. last - 1 \in Nat /\ (last - (last - 1))..last = 1..last
  OBVIOUS
<1>2. \E f : f = [j \in 1..last |-> ValueNext(s, last, f, j)]
  <2>1. \E f : f = [j \in (last - (last - 1))..last |-> ValueNext(s, last, f, j)]
    BY Zenon, <1>1, ValueExists
  <2> QED BY Zenon, <1>1, <2>1
<1>3. Value(s, last) = [j \in 1..last |-> ValueNext(s, last, Value(s, last), j)]
  BY Zenon, <1>2 DEF Value
<1> DEFINE g == [j \in 1..last |-> ValueNext(s, last, Value(s, last), j)]
<1>4. g[i] = ValueNext(s, last, Value(s, last), i)
  BY Zenon
<1> QED BY Zenon, <1>3, <1>4

\* What GetVarint returns, for the position of the last byte.
Ends(s, last) ==
    /\ last \in 1..Len(s) /\ s[last] < 128
    /\ \A i \in 1..(last - 1) : ~(s[i] < 128)

\* GetVarint reads up to the first byte without the top bit.
LEMMA GetVarintIs ==
    ASSUME NEW s \in Seq(Byte), NEW last, Ends(s, last)
    PROVE  GetVarint(s) = [value |-> Value(s, last)[1], rest |-> Advance(s, last)]
<1> DEFINE ends == {i \in DOMAIN s : s[i] < 128}
<1>1. last \in ends /\ last \in Nat /\ DOMAIN s = 1..Len(s)
  BY DEF Ends
<1>2. ends \in SUBSET Nat
  BY <1>1
<1>3. Min(ends) \in ends /\ \A y \in ends : Min(ends) <= y
  <2> HIDE DEF ends
  <2> QED BY Zenon, <1>1, <1>2, MinIsLeast
<1>4. Min(ends) = last
  <2> DEFINE m == Min(ends)
  <2>1. m \in 1..Len(s) /\ m <= last /\ s[m] < 128
    BY Zenon, <1>1, <1>3
  <2> HIDE DEF m
  <2>2. m \notin 1..(last - 1)
    BY Zenon, <2>1 DEF Ends
  <2>3. m = last
    BY <2>1, <2>2, <1>1
  <2> QED BY Zenon, <2>3 DEF m
<1>5. GetVarint(s) = [value |-> Value(s, Min(ends))[1], rest |-> Advance(s, Min(ends))]
  BY Zenon DEF GetVarint, Value, ValueNext
<1> QED BY Zenon, <1>4, <1>5

\* GetVarint reads value from s and leaves rest.
Got(s, value, rest) == GetVarint(s) = [value |-> value, rest |-> rest]

\* A varint of one byte.
LEMMA GetShort ==
    ASSUME NEW b \in Byte, b < 128, NEW t \in Seq(Byte)
    PROVE  Got(<<b>> \o t, b, t)
<1> DEFINE s == <<b>> \o t
<1>1. /\ s \in Seq(Byte) /\ Len(s) = Len(t) + 1 /\ s[1] = b /\ Len(t) \in Nat
  BY PushFacts
<1>2. Advance(s, 1) = t
  <2>1. Parted(<<b>>, t)
    BY Zenon, OneByte, JoinParts
  <2> QED BY Zenon, <2>1, OneByte DEF Parted
<1> HIDE DEF s
<1>3. Ends(s, 1)
  <2>1. 1 \in 1..Len(s) /\ 1..(1 - 1) = {}
    BY <1>1
  <2> QED BY Zenon, <1>1, <2>1 DEF Ends
<1>4. Value(s, 1)[1] = b
  <2>1. 1 \in Nat /\ 1 \in 1..1
    OBVIOUS
  <2>2. Value(s, 1)[1] = ValueNext(s, 1, Value(s, 1), 1)
    BY Zenon, <2>1, ValueStep
  <2> QED BY Zenon, <1>1, <2>2 DEF ValueNext
<1> QED BY Zenon, <1>1, <1>2, <1>3, <1>4, GetVarintIs DEF Got, s

\* s is t with one byte in front.
Shifted(s, t, last) == \A i \in 1..last : s[i + 1] = t[i]

\* The value of the later bytes does not depend on the first one.
LEMMA ValueShifts ==
    ASSUME NEW s, NEW t, NEW last \in Nat, Shifted(s, t, last), NEW j \in 1..last
    PROVE  Value(s, last + 1)[j + 1] = Value(t, last)[j]
<1> DEFINE Bad == {k \in 0..(last - 1) :
                      Value(s, last + 1)[(last - k) + 1] # Value(t, last)[last - k]}
<1>1. SUFFICES ASSUME Bad # {} PROVE FALSE
  <2>1. last - j \in 0..(last - 1) /\ last - (last - j) = j
    OBVIOUS
  <2> QED BY Zenon, <2>1
<1>2. PICK k \in Bad : \A y \in Bad : k <= y
  <2>1. Bad \in SUBSET Nat
    OBVIOUS
  <2> HIDE DEF Bad
  <2> QED BY Zenon, <1>1, <2>1, LeastNumber
<1> DEFINE i == last - k
<1>3. k \in 0..(last - 1) /\ Value(s, last + 1)[i + 1] # Value(t, last)[i]
  BY Zenon, <1>2
<1>4. /\ i \in 1..last /\ i + 1 \in 1..(last + 1) /\ last + 1 \in Nat
      /\ (i + 1 = last + 1 <=> i = last)
      /\ i # last => k - 1 \in 0..(last - 1) /\ ~(k <= k - 1) /\ last - (k - 1) = i + 1
  BY <1>3
<1>5. i # last => Value(s, last + 1)[(i + 1) + 1] = Value(t, last)[i + 1]
  <2>1. i # last => k - 1 \notin Bad
    BY Zenon, <1>2, <1>4
  <2> QED BY Zenon, <2>1, <1>4
<1> HIDE DEF i, Bad
<1>6. Value(s, last + 1)[i + 1] = ValueNext(s, last + 1, Value(s, last + 1), i + 1)
  BY Zenon, <1>4, ValueStep
<1>7. Value(t, last)[i] = ValueNext(t, last, Value(t, last), i)
  BY Zenon, <1>4, ValueStep
<1>8. s[i + 1] = t[i]
  BY Zenon, <1>4 DEF Shifted
<1>9. ValueNext(s, last + 1, Value(s, last + 1), i + 1) = ValueNext(t, last, Value(t, last), i)
  BY Zenon, <1>4, <1>5, <1>8 DEF ValueNext
<1> QED BY Zenon, <1>3, <1>6, <1>7, <1>9

\* A varint of more bytes: seven bits, then the value of the others.
LEMMA GetLong ==
    ASSUME NEW b \in Byte, ~(b < 128), NEW t \in Seq(Byte), NEW v, NEW r,
           \E i \in DOMAIN t : t[i] < 128, Got(t, v, r)
    PROVE  Got(<<b>> \o t, b - 128 + 128 * v, r)
<1> DEFINE s == <<b>> \o t
           ends == {i \in DOMAIN t : t[i] < 128}
<1>1. Len(t) \in Nat /\ DOMAIN t = 1..Len(t)
  OBVIOUS
<1>2. PICK last \in ends : \A y \in ends : last <= y
  <2>1. ends \in SUBSET Nat /\ ends # {}
    OBVIOUS
  <2> HIDE DEF ends
  <2> QED BY Zenon, <2>1, LeastNumber
<1>3. last \in 1..Len(t) /\ t[last] < 128 /\ last \in Nat
  BY <1>1
<1>4. ASSUME NEW i \in 1..(last - 1) PROVE ~(t[i] < 128)
  <2>1. i \in DOMAIN t /\ ~(last <= i)
    BY <1>1, <1>3
  <2> QED BY Zenon, <2>1, <1>2
<1> HIDE DEF ends
<1>5. Ends(t, last)
  BY Zenon, <1>3, <1>4 DEF Ends
<1>6. /\ s \in Seq(Byte) /\ Len(s) = Len(t) + 1 /\ s[1] = b
      /\ \A i \in 1..Len(t) : s[i + 1] = t[i]
  BY Zenon, PushFacts
<1> HIDE DEF s
<1>7. Ends(s, last + 1)
  <2>1. last + 1 \in 1..Len(s) /\ (last + 1) - 1 = last
    BY <1>1, <1>3, <1>6
  <2>2. s[last + 1] < 128
    BY Zenon, <1>3, <1>6
  <2>3. ASSUME NEW i \in 1..last PROVE ~(s[i] < 128)
    <3>1. i = 1 \/ (i - 1 \in 1..(last - 1) /\ i - 1 \in 1..Len(t) /\ (i - 1) + 1 = i)
      BY <1>3, <1>1
    <3>2. i - 1 \in 1..Len(t) => s[(i - 1) + 1] = t[i - 1]
      BY Zenon, <1>6
    <3> QED BY Zenon, <3>1, <3>2, <1>4, <1>6
  <2> QED BY Zenon, <2>1, <2>2, <2>3 DEF Ends
<1>8. /\ GetVarint(s) = [value |-> Value(s, last + 1)[1], rest |-> Advance(s, last + 1)]
      /\ GetVarint(t) = [value |-> Value(t, last)[1], rest |-> Advance(t, last)]
  BY Zenon, <1>5, <1>6, <1>7, GetVarintIs
<1>9. Value(t, last)[1] = v /\ Advance(t, last) = r
  <2>1. GetVarint(t).value = v /\ GetVarint(t).rest = r
    BY DEF Got
  <2>2. GetVarint(t).value = Value(t, last)[1] /\ GetVarint(t).rest = Advance(t, last)
    BY <1>8
  <2> QED BY Zenon, <2>1, <2>2
<1>10. Value(s, last + 1)[1] = b - 128 + 128 * v
  <2>1. /\ 1 \in 1..(last + 1) /\ last + 1 \in Nat /\ 1 # last + 1 /\ 1 \in 1..last
        /\ \A i \in 1..last : i \in 1..Len(t)
    BY <1>1, <1>3
  <2>2. Value(s, last + 1)[1] = ValueNext(s, last + 1, Value(s, last + 1), 1)
    BY Zenon, <2>1, ValueStep
  <2>3. Shifted(s, t, last)
    BY Zenon, <2>1, <1>6 DEF Shifted
  <2>4. \A j \in 1..last : Value(s, last + 1)[j + 1] = Value(t, last)[j]
    BY ZenonT(40), <2>3, <1>3, ValueShifts
  <2>5. Value(s, last + 1)[1 + 1] = Value(t, last)[1]
    BY Zenon, <2>1, <2>4
  <2> QED BY Zenon, <2>1, <2>2, <2>5, <1>6, <1>9 DEF ValueNext
<1>11. Advance(s, last + 1) = Advance(t, last)
  <2>1. /\ last \in 0..Len(t) /\ last + 1 \in 0..Len(s)
        /\ Len(s) - (last + 1) = Len(t) - last
        /\ \A i \in 1..(Len(t) - last) : last + i \in 1..Len(t) /\ (last + 1) + i = (last + i) + 1
    BY <1>1, <1>3, <1>6
  <2>2. Span(s, last + 1) /\ Span(t, last)
    BY Zenon, <2>1, <1>6, AdvanceFacts
  <2> DEFINE x == Advance(s, last + 1)
             y == Advance(t, last)
  <2>3. /\ x \in Seq(Byte) /\ y \in Seq(Byte) /\ Len(x) = Len(t) - last
        /\ Len(y) = Len(t) - last
        /\ \A i \in 1..(Len(t) - last) : x[i] = s[(last + 1) + i] /\ y[i] = t[last + i]
    BY Zenon, <2>1, <2>2 DEF Span
  <2> HIDE DEF x, y
  <2>4. ASSUME NEW i \in 1..(Len(t) - last) PROVE x[i] = y[i]
    <3>1. x[i] = s[(last + 1) + i] /\ y[i] = t[last + i]
      BY Zenon, <2>3
    <3>2. last + i \in 1..Len(t) /\ (last + 1) + i = (last + i) + 1
      BY Zenon, <2>1
    <3>3. s[(last + i) + 1] = t[last + i]
      BY Zenon, <3>2, <1>6
    <3> QED BY Zenon, <3>1, <3>2, <3>3
  <2>5. x = y
    BY Zenon, <2>3, <2>4, SameSequence
  <2> QED BY Zenon, <2>5 DEF x, y
<1> QED BY Zenon, <1>8, <1>9, <1>10, <1>11 DEF Got, s

\* GetVarint reads what PutVarint wrote, for any number, and leaves the rest.
LEMMA VarintReadsBack ==
    ASSUME NEW v \in Nat, NEW rest \in Seq(Byte)
    PROVE  Got(PutVarint(v) \o rest, v, rest)
<1> DEFINE Bad == {n \in Nat : ~Got(PutVarint(n) \o rest, n, rest)}
<1>1. SUFFICES ASSUME Bad # {} PROVE FALSE
  BY Zenon
<1>2. PICK n \in Bad : \A y \in Bad : n <= y
  BY Zenon, <1>1, LeastNumber
<1>3. n \in Nat /\ ~Got(PutVarint(n) \o rest, n, rest)
  BY Zenon
<1>4. CASE n < 128
  <2>1. n \in Byte
    BY <1>3, <1>4 DEF Byte
  <2>2. PutVarint(n) = <<n>>
    BY Zenon, <1>3, <1>4, PutVarintStep
  <2> QED BY Zenon, <1>3, <1>4, <2>1, <2>2, GetShort
<1>5. CASE ~(n < 128)
  <2> DEFINE m == n \div 128
             b == 128 + (n % 128)
             t == PutVarint(m)
             u == t \o rest
  <2>1. m \in Nat /\ ~(n <= m) /\ b \in Byte /\ ~(b < 128) /\ b - 128 + 128 * m = n
    <3>1. /\ n \div 128 \in Nat /\ n % 128 \in 0..127
          /\ n \div 128 < n /\ n = 128 * (n \div 128) + (n % 128)
      BY <1>3, <1>5, Shift7
    <3> QED BY <1>3, <3>1 DEF Byte
  <2>2. PutVarint(n) = <<b>> \o t
    BY Zenon, <1>3, <1>5, PutVarintStep
  <2>3. Got(u, m, rest)
    BY Zenon, <2>1, <1>2
  <2> HIDE DEF m, b
  <2>4. Varint(m)
    BY Zenon, <2>1, VarintTyped
  <2>5. t \in Seq(Byte) /\ \E i \in DOMAIN t : t[i] < 128
    BY Zenon, <2>4 DEF Varint
  <2> HIDE DEF t
  <2>6. u \in Seq(Byte) /\ \E i \in DOMAIN u : u[i] < 128
    <3>1. PICK i \in DOMAIN t : t[i] < 128
      BY Zenon, <2>5
    <3>2. u \in Seq(Byte) /\ i \in DOMAIN u /\ u[i] = t[i]
      BY <2>5
    <3> QED BY Zenon, <3>1, <3>2
  <2>7. <<b>> \in Seq(Byte)
    BY Zenon, <2>1, OneByte
  <2>8. <<b>> \o t \o rest = <<b>> \o u
    BY Zenon, <2>5, <2>7, JoinAssociates DEF Assoc
  <2> HIDE DEF u
  <2>9. Got(<<b>> \o u, b - 128 + 128 * m, rest)
    BY Zenon, <2>1, <2>3, <2>6, GetLong
  <2> QED BY Zenon, <1>3, <2>1, <2>2, <2>8, <2>9
<1> QED BY Zenon, <1>4, <1>5

-----------------------------------------------------------------------------
(* Slices, and one operation of a batch *)

\* The fields of what GetVarint returns.
LEMMA GotParts ==
    ASSUME NEW s, NEW v, NEW r, Got(s, v, r)
    PROVE  GetVarint(s).value = v /\ GetVarint(s).rest = r
BY DEF Got

\* GetLengthPrefixedSlice reads a from s and leaves r.
GotSlice(s, a, r) ==
    GetLengthPrefixedSlice(s).value = a /\ GetLengthPrefixedSlice(s).rest = r

\* What GetLengthPrefixedSlice computes.
LEMMA SliceIs ==
    ASSUME NEW s
    PROVE  GotSlice(s, SubSeq(GetVarint(s).rest, 1, GetVarint(s).value),
                       Advance(GetVarint(s).rest, GetVarint(s).value))
BY ZenonT(40) DEF GotSlice, GetLengthPrefixedSlice

\* PutLengthPrefixedSlice writes bytes.
LEMMA SliceTyped ==
    ASSUME NEW a \in Seq(Byte)
    PROVE  /\ PutLengthPrefixedSlice(a) \in Seq(Byte)
           /\ PutVarint(Len(a)) \in Seq(Byte) /\ Len(a) \in Nat
<1>1. Len(a) \in Nat
  OBVIOUS
<1>2. PutVarint(Len(a)) \in Seq(Byte)
  BY Zenon, <1>1, VarintTyped DEF Varint
<1>3. \A x, y \in Seq(Byte) : x \o y \in Seq(Byte)
  OBVIOUS
<1> QED BY Zenon, <1>1, <1>2, <1>3 DEF PutLengthPrefixedSlice

\* GetLengthPrefixedSlice reads what PutLengthPrefixedSlice wrote, whatever the
\* length and the bytes of the slice, and leaves the rest.
LEMMA SliceReadsBack ==
    ASSUME NEW a \in Seq(Byte), NEW r \in Seq(Byte)
    PROVE  GotSlice(PutLengthPrefixedSlice(a) \o r, a, r)
<1> DEFINE s == PutLengthPrefixedSlice(a) \o r
           t == a \o r
<1>1. PutVarint(Len(a)) \in Seq(Byte) /\ Len(a) \in Nat
  BY Zenon, SliceTyped
<1>2. Parted(a, r)
  BY Zenon, JoinParts
<1>3. t \in Seq(Byte) /\ SubSeq(t, 1, Len(a)) = a /\ Advance(t, Len(a)) = r
  BY Zenon, <1>2 DEF Parted
<1>4. s = PutVarint(Len(a)) \o t
  BY Zenon, <1>1, JoinAssociates DEF Assoc, PutLengthPrefixedSlice
<1> HIDE DEF t
<1>5. Got(s, Len(a), t)
  BY Zenon, <1>1, <1>3, <1>4, VarintReadsBack
<1> HIDE DEF s
<1>6. GetVarint(s).value = Len(a) /\ GetVarint(s).rest = t
  BY Zenon, <1>5, GotParts
<1>7. GotSlice(s, SubSeq(t, 1, Len(a)), Advance(t, Len(a)))
  BY Zenon, <1>6, SliceIs
<1> QED BY Zenon, <1>3, <1>7 DEF s

\* An operation as Put and Delete make it: a deletion has no value.
Op(op) ==
    /\ op.type \in {kTypeValue, kTypeDeletion}
    /\ op.key \in Seq(Byte) /\ op.value \in Seq(Byte)
    /\ op.type = kTypeDeletion => op.value = <<>>
    /\ op = [type |-> op.type, key |-> op.key, value |-> op.value]

\* A value is written for a Put only.
ValuePart(op) == IF op.type = kTypeValue THEN PutLengthPrefixedSlice(op.value) ELSE <<>>

\* The bytes that WriteBatch::Put and Delete append.
EncodeOp(op) == <<op.type>> \o (PutLengthPrefixedSlice(op.key) \o ValuePart(op))

\* The key that the loop of InsertAll reads from s,
KeyRead(s) == GetLengthPrefixedSlice(Tail(s))

\* the value, which it reads only for kTypeValue,
ValueRead(s) ==
    IF Head(s) = kTypeValue THEN GetLengthPrefixedSlice(KeyRead(s).rest)
    ELSE [value |-> <<>>, rest |-> KeyRead(s).rest]

\* and the operation.
OpRead(s) == [type |-> Head(s), key |-> KeyRead(s).value, value |-> ValueRead(s).value]

\* An operation is written as bytes.
LEMMA OpTyped ==
    ASSUME NEW op, Op(op)
    PROVE  /\ EncodeOp(op) \in Seq(Byte) /\ ValuePart(op) \in Seq(Byte)
           /\ PutLengthPrefixedSlice(op.key) \in Seq(Byte) /\ op.type \in Byte
           /\ op.key \in Seq(Byte) /\ op.value \in Seq(Byte)
<1>1. kTypeValue \in Byte /\ kTypeDeletion \in Byte
  BY DEF kTypeValue, kTypeDeletion, Byte
<1>2. op.type \in Byte /\ op.key \in Seq(Byte) /\ op.value \in Seq(Byte)
  BY Zenon, <1>1 DEF Op
<1>3. <<>> \in Seq(Byte) /\ \A x, y \in Seq(Byte) : x \o y \in Seq(Byte)
  OBVIOUS
<1>4. PutLengthPrefixedSlice(op.key) \in Seq(Byte) /\ PutLengthPrefixedSlice(op.value) \in Seq(Byte)
  BY Zenon, <1>2, SliceTyped
<1>5. ValuePart(op) \in Seq(Byte)
  BY Zenon, <1>3, <1>4 DEF ValuePart
<1>6. <<op.type>> \in Seq(Byte)
  BY Zenon, <1>2, OneByte
<1> QED BY Zenon, <1>2, <1>3, <1>4, <1>5, <1>6 DEF EncodeOp

\* Head and Tail take a byte off that was put in front.
LEMMA PushedReads ==
    ASSUME NEW b \in Byte, NEW t \in Seq(Byte)
    PROVE  Head(<<b>> \o t) = b /\ Tail(<<b>> \o t) = t
OBVIOUS

\* The loop of InsertAll reads the operation that Put or Delete wrote and stops
\* where the next one begins.
LEMMA OpReadsBack ==
    ASSUME NEW op, Op(op), NEW r \in Seq(Byte)
    PROVE  /\ OpRead(EncodeOp(op) \o r) = op
           /\ ValueRead(EncodeOp(op) \o r).rest = r
<1> DEFINE s == EncodeOp(op) \o r
           key == PutLengthPrefixedSlice(op.key)
           val == ValuePart(op)
           t == key \o (val \o r)
<1>1. /\ key \in Seq(Byte) /\ val \in Seq(Byte) /\ op.type \in Byte
      /\ op.key \in Seq(Byte) /\ op.value \in Seq(Byte) /\ <<op.type>> \in Seq(Byte)
  BY Zenon, OpTyped, OneByte
<1> HIDE DEF key, val
<1>2. \A x, y \in Seq(Byte) : x \o y \in Seq(Byte)
  OBVIOUS
<1>3. s = <<op.type>> \o t
  <2>1. EncodeOp(op) = <<op.type>> \o (key \o val)
    BY Zenon DEF EncodeOp, key, val
  <2>4. key \o val \in Seq(Byte)
    BY Zenon, <1>1, <1>2
  <2>2. Assoc(<<op.type>>, key \o val, r)
    BY Zenon, <2>4, <1>1, JoinAssociates
  <2>3. Assoc(key, val, r)
    BY Zenon, <1>1, JoinAssociates
  <2> QED BY Zenon, <2>1, <2>2, <2>3 DEF Assoc
<1>4. t \in Seq(Byte) /\ val \o r \in Seq(Byte)
  BY Zenon, <1>1, <1>2
<1>5. GotSlice(t, op.key, val \o r)
  BY Zenon, <1>1, <1>4, SliceReadsBack DEF key
<1> HIDE DEF t
<1>6. Head(s) = op.type /\ Tail(s) = t
  BY Zenon, <1>1, <1>3, <1>4, PushedReads
<1> HIDE DEF s
<1>7. KeyRead(s).value = op.key /\ KeyRead(s).rest = val \o r
  BY Zenon, <1>5, <1>6 DEF KeyRead, GotSlice
<1>8. ValueRead(s).value = op.value /\ ValueRead(s).rest = r
  <2>1. CASE op.type = kTypeValue
    <3>1. val = PutLengthPrefixedSlice(op.value)
      BY Zenon, <2>1 DEF val, ValuePart
    <3>2. GotSlice(val \o r, op.value, r)
      BY Zenon, <1>1, <3>1, SliceReadsBack
    <3>3. ValueRead(s) = GetLengthPrefixedSlice(val \o r)
      BY Zenon, <2>1, <1>6, <1>7 DEF ValueRead
    <3> QED BY Zenon, <3>2, <3>3 DEF GotSlice
  <2>2. CASE op.type # kTypeValue
    <3>1. val = <<>> /\ op.value = <<>>
      BY Zenon, <2>2 DEF val, ValuePart, Op
    <3>2. val \o r = r
      BY Zenon, <3>1, JoinEmpty
    <3>3. ValueRead(s) = [value |-> <<>>, rest |-> r]
      BY Zenon, <2>2, <1>6, <1>7, <3>2 DEF ValueRead
    <3> QED BY <3>1, <3>3
  <2> QED BY Zenon, <2>1, <2>2
<1>9. OpRead(s) = op
  BY Zenon, <1>6, <1>7, <1>8 DEF OpRead, Op
<1> QED BY Zenon, <1>8, <1>9 DEF s

-----------------------------------------------------------------------------
(* ReadOperations: the loop of Iterate and InsertAll *)

\* The body of the recursion in ReadOperations.
ReadNext(s, f, n) ==
    IF n = 0 THEN [ops |-> <<>>, rest |-> s]
    ELSE [ops |-> Append(f[n - 1].ops, OpRead(f[n - 1].rest)),
          rest |-> ValueRead(f[n - 1].rest).rest]

\* The recursion of ReadOperations defines a function.
LEMMA ReadExists ==
    ASSUME NEW s, NEW n \in Nat
    PROVE  \E f : f = [i \in 0..n |-> ReadNext(s, f, i)]
<1> DEFINE Fun(f, m) == f = [i \in 0..m |-> ReadNext(s, f, i)]
           Bad == {m \in Nat : ~\E f : Fun(f, m)}
<1>1. SUFFICES ASSUME Bad # {} PROVE FALSE
  BY Zenon
<1>2. PICK m \in Bad : \A y \in Bad : m <= y
  BY Zenon, <1>1, LeastNumber
<1>3. m \in Nat /\ ~\E f : Fun(f, m)
  BY Zenon
<1>4. CASE m = 0
  <2> DEFINE g == [i \in 0..0 |-> [ops |-> <<>>, rest |-> s]]
  <2>1. \A i \in 0..0 : i = 0
    OBVIOUS
  <2>2. g = [i \in 0..0 |-> ReadNext(s, g, i)]
    BY Zenon, <2>1 DEF ReadNext
  <2> QED BY Zenon, <2>2, <1>3, <1>4
<1>5. CASE m # 0
  <2>1. m - 1 \in Nat /\ ~(m <= m - 1)
    BY <1>3, <1>5
  <2>2. PICK f : Fun(f, m - 1)
    BY Zenon, <2>1, <1>2
  <2> DEFINE g == [i \in 0..m |-> IF i = m THEN ReadNext(s, f, m) ELSE f[i]]
  <2>3. ASSUME NEW i \in 0..m PROVE g[i] = ReadNext(s, g, i)
    <3>1. i # 0 => i - 1 \in 0..m /\ i - 1 # m
      BY <1>3
    <3>2. i # 0 => g[i - 1] = f[i - 1]
      BY Zenon, <3>1
    <3>3. i # m => i \in 0..(m - 1)
      BY <1>3
    <3>4. i # m => f[i] = ReadNext(s, f, i)
      BY Zenon, <2>2, <3>3
    <3>5. g[i] = ReadNext(s, f, i)
      <4>1. g[i] = IF i = m THEN ReadNext(s, f, m) ELSE f[i]
        BY Zenon
      <4> HIDE DEF g
      <4> QED BY <4>1, <3>4
    <3> HIDE DEF g
    <3>6. ReadNext(s, g, i) = ReadNext(s, f, i)
      BY Zenon, <3>2 DEF ReadNext
    <3> QED BY Zenon, <3>5, <3>6
  <2>4. Fun(g, m)
    BY Zenon, <2>3
  <2> QED BY Zenon, <2>4, <1>3
<1> QED BY Zenon, <1>4, <1>5

\* The recursive function of ReadOperations.
Read(s, m) == CHOOSE f : f = [n \in 0..m |-> ReadNext(s, f, n)]

\* One round of the loop.
LEMMA ReadStep ==
    ASSUME NEW s, NEW m \in Nat, NEW n \in 0..m
    PROVE  Read(s, m)[n] = ReadNext(s, Read(s, m), n)
<1>1. Read(s, m) = [i \in 0..m |-> ReadNext(s, Read(s, m), i)]
  BY Zenon, ReadExists DEF Read
<1> DEFINE g == [i \in 0..m |-> ReadNext(s, Read(s, m), i)]
<1>2. g[n] = ReadNext(s, Read(s, m), n)
  BY Zenon
<1> QED BY Zenon, <1>1, <1>2

\* ReadOperations is where that function ends.
LEMMA ReadIs ==
    ASSUME NEW s, NEW m
    PROVE  ReadOperations(s, m) = Read(s, m)[m].ops
BY Zenon DEF ReadOperations, Read, ReadNext, OpRead, KeyRead, ValueRead

\* The bytes s are those of the operations ops, one after the other: cut holds
\* what is left of s after each.
Cut(cut, s, ops) ==
    /\ cut \in [0..Len(ops) -> Seq(Byte)] /\ cut[0] = s /\ cut[Len(ops)] = <<>>
    /\ \A i \in 1..Len(ops) : cut[i - 1] = EncodeOp(ops[i]) \o cut[i]

\* A sequence of operations.
AreOps(ops) ==
    Len(ops) \in Nat /\ ops = [i \in 1..Len(ops) |-> ops[i]] /\ \A i \in 1..Len(ops) : Op(ops[i])

\* The bytes s hold the operations ops and nothing else.
Holds(s, ops) == AreOps(ops) /\ \E cut : Cut(cut, s, ops)

\* What Read has after i operations.
ReadSoFar(f, cut, ops, i) ==
    f[i].rest = cut[i] /\ f[i].ops = [j \in 1..i |-> ops[j]]

\* Iterate reads the operations that the bytes hold, in their order.
LEMMA OperationsRead ==
    ASSUME NEW s, NEW ops, Holds(s, ops)
    PROVE  ReadOperations(s, Len(ops)) = ops
<1> DEFINE n == Len(ops)
           f == Read(s, n)
<1>1. PICK cut : Cut(cut, s, ops)
  BY Zenon DEF Holds
<1>2. n \in Nat /\ ops = [i \in 1..n |-> ops[i]] /\ \A i \in 1..n : Op(ops[i])
  BY Zenon DEF Holds, AreOps
<1>3. /\ cut \in [0..n -> Seq(Byte)] /\ cut[0] = s
      /\ \A i \in 1..n : cut[i - 1] = EncodeOp(ops[i]) \o cut[i]
  BY Zenon, <1>1 DEF Cut
<1>4. n \in 0..n
  BY <1>2
<1> HIDE DEF n
<1>5. ASSUME NEW i \in 0..n PROVE ReadSoFar(f, cut, ops, i)
  <2> DEFINE Bad == {k \in 0..n : ~ReadSoFar(f, cut, ops, k)}
  <2>1. SUFFICES ASSUME Bad # {} PROVE FALSE
    BY Zenon
  <2>2. PICK k \in Bad : \A y \in Bad : k <= y
    <3>1. Bad \in SUBSET Nat
      BY <1>2
    <3> HIDE DEF Bad
    <3> QED BY Zenon, <2>1, <3>1, LeastNumber
  <2>3. k \in 0..n /\ ~ReadSoFar(f, cut, ops, k)
    BY Zenon, <2>2
  <2>4. k # 0 => k - 1 \in 0..n /\ k \in 1..n /\ ~(k <= k - 1)
    BY <2>3, <1>2
  <2>5. k # 0 => ReadSoFar(f, cut, ops, k - 1)
    BY Zenon, <2>2, <2>4
  <2>6. f[k] = ReadNext(s, f, k)
    BY Zenon, <1>2, <2>3, ReadStep
  <2> HIDE DEF f, Bad
  <2>7. CASE k = 0
    <3>1. f[0] = [ops |-> <<>>, rest |-> s]
      BY Zenon, <2>6, <2>7 DEF ReadNext
    <3>2. <<>> = [j \in 1..0 |-> ops[j]]
      OBVIOUS
    <3>3. f[0].ops = <<>> /\ f[0].rest = s
      BY <3>1
    <3> QED BY Zenon, <3>2, <3>3, <2>3, <2>7, <1>3 DEF ReadSoFar
  <2>8. CASE k # 0
    <3>1. /\ f[k - 1].rest = EncodeOp(ops[k]) \o cut[k] /\ cut[k] \in Seq(Byte)
          /\ f[k - 1].ops = [j \in 1..(k - 1) |-> ops[j]] /\ Op(ops[k])
      BY Zenon, <2>3, <2>4, <2>5, <2>8, <1>2, <1>3 DEF ReadSoFar
    <3>2. /\ OpRead(f[k - 1].rest) = ops[k] /\ ValueRead(f[k - 1].rest).rest = cut[k]
      BY ZenonT(40), <3>1, OpReadsBack
    <3>3. f[k] = [ops |-> Append(f[k - 1].ops, ops[k]), rest |-> cut[k]]
      BY Zenon, <2>6, <2>8, <3>2 DEF ReadNext
    <3>4. f[k].ops = Append(f[k - 1].ops, ops[k]) /\ f[k].rest = cut[k]
      BY <3>3
    <3>5. Append([j \in 1..(k - 1) |-> ops[j]], ops[k]) = [j \in 1..k |-> ops[j]]
      BY <2>3, <2>8, <1>2
    <3> QED BY Zenon, <3>1, <3>4, <3>5, <2>3 DEF ReadSoFar
  <2> QED BY Zenon, <2>7, <2>8
<1> QED BY Zenon, <1>2, <1>4, <1>5, ReadIs DEF ReadSoFar, n

-----------------------------------------------------------------------------
(* Operations one after the other *)

\* No bytes hold no operations.
LEMMA HoldsNone == Holds(<<>>, <<>>)
<1>1. Len(<<>>) = 0 /\ 0 \in Nat /\ 1..0 = {} /\ 0 \in 0..0 /\ <<>> \in Seq(Byte)
  OBVIOUS
<1>2. <<>> = [i \in 1..0 |-> <<>>[i]]
  OBVIOUS
<1>3. AreOps(<<>>)
  BY Zenon, <1>1, <1>2 DEF AreOps
<1> DEFINE cut == [i \in 0..0 |-> <<>>]
<1>4. Cut(cut, <<>>, <<>>)
  BY Zenon, <1>1 DEF Cut
<1> QED BY Zenon, <1>3, <1>4 DEF Holds

\* The bytes of one operation.
LEMMA HoldsOne ==
    ASSUME NEW op, Op(op)
    PROVE  Holds(EncodeOp(op), <<op>>)
<1> DEFINE s == EncodeOp(op)
           cut == [i \in 0..1 |-> IF i = 0 THEN s ELSE <<>>]
           ops == <<op>>
<1>1. /\ Len(ops) = 1 /\ ops[1] = op /\ ops = [i \in 1..1 |-> ops[i]]
  OBVIOUS
<1>2. /\ 1 \in Nat /\ 0 \in 0..1 /\ 1 \in 0..1 /\ 1 # 0 /\ 1 - 1 = 0
      /\ \A i \in 1..1 : i = 1
  OBVIOUS
<1>3. s \in Seq(Byte)
  BY Zenon, OpTyped
<1>4. <<>> \in Seq(Byte)
  OBVIOUS
<1> HIDE DEF s, ops
<1>5. AreOps(ops)
  BY Zenon, <1>1, <1>2 DEF AreOps
<1>6. cut \in [0..1 -> Seq(Byte)] /\ cut[0] = s /\ cut[1] = <<>>
  BY Zenon, <1>2, <1>3, <1>4
<1> HIDE DEF cut
<1>7. s \o <<>> = s
  BY Zenon, <1>3, JoinEmpty
<1>8. \A i \in 1..1 : cut[i - 1] = EncodeOp(ops[i]) \o cut[i]
  BY Zenon, <1>1, <1>2, <1>6, <1>7 DEF s
<1>9. Cut(cut, s, ops)
  BY Zenon, <1>1, <1>6, <1>8 DEF Cut
<1> QED BY Zenon, <1>5, <1>9 DEF Holds, s, ops

\* Two rows of operations, one after the other.
Concatenated(a, b) ==
    /\ Len(a \o b) = Len(a) + Len(b)
    /\ a \o b = [i \in 1..(Len(a) + Len(b)) |-> IF i <= Len(a) THEN a[i] ELSE b[i - Len(a)]]

\* The elements of two rows of operations.
LEMMA ConcatenatedIs ==
    ASSUME NEW a, NEW b, AreOps(a), AreOps(b)
    PROVE  Concatenated(a, b)
<1> DEFINE S == {a[i] : i \in 1..Len(a)} \cup {b[i] : i \in 1..Len(b)}
<1>1. Len(a) \in Nat /\ Len(b) \in Nat
  BY Zenon DEF AreOps
<1>2. a = [i \in 1..Len(a) |-> a[i]] /\ b = [i \in 1..Len(b) |-> b[i]]
  BY Zenon DEF AreOps
<1>3. a \in [1..Len(a) -> S] /\ b \in [1..Len(b) -> S]
  BY Zenon, <1>2
<1> HIDE DEF S
<1>4. a \in Seq(S) /\ b \in Seq(S)
  BY Zenon, <1>1, <1>3, RowIsSequence
<1> DEFINE n == Len(a)
           c == a \o b
           row == [i \in 1..(n + Len(b)) |-> IF i <= n THEN a[i] ELSE b[i - n]]
<1>5. Joined(S, a, b)
  BY Zenon, <1>4, JoinFacts
<1>6. /\ c \in Seq(S) /\ Len(c) = n + Len(b)
      /\ \A i \in 1..n : c[i] = a[i]
      /\ \A i \in 1..Len(b) : c[n + i] = b[i]
  BY Zenon, <1>5 DEF Joined
<1> HIDE DEF n, c
<1>7. c = [i \in 1..(n + Len(b)) |-> c[i]]
  BY <1>6
<1>8. ASSUME NEW i \in 1..(n + Len(b)) PROVE c[i] = IF i <= n THEN a[i] ELSE b[i - n]
  <2>1. /\ i <= n => i \in 1..n
        /\ ~(i <= n) => i - n \in 1..Len(b) /\ n + (i - n) = i
    BY <1>1 DEF n
  <2> QED BY Zenon, <2>1, <1>6
<1>9. c = row
  BY Zenon, <1>7, <1>8
<1> QED BY Zenon, <1>6, <1>9 DEF Concatenated, n, c

\* Bytes that hold operations, one after the other, hold them all: what
\* WriteBatch::Append relies on.
LEMMA HoldsBoth ==
    ASSUME NEW s \in Seq(Byte), NEW t \in Seq(Byte), NEW a, NEW b,
           Holds(s, a), Holds(t, b)
    PROVE  Holds(s \o t, a \o b)
<1> DEFINE n == Len(a)
           m == Len(b)
           ops == a \o b
<1>1. PICK x : Cut(x, s, a)
  BY Zenon DEF Holds
<1>2. PICK y : Cut(y, t, b)
  BY Zenon DEF Holds
<1>3. /\ n \in Nat /\ m \in Nat
      /\ \A i \in 1..n : Op(a[i])
      /\ \A i \in 1..m : Op(b[i])
  BY Zenon DEF Holds, AreOps
<1>4. /\ Len(ops) = n + m
      /\ ops = [i \in 1..(n + m) |-> IF i <= n THEN a[i] ELSE b[i - n]]
  BY Zenon, ConcatenatedIs DEF Holds, Concatenated
<1>5. /\ x \in [0..n -> Seq(Byte)] /\ x[0] = s /\ x[n] = <<>>
      /\ \A i \in 1..n : x[i - 1] = EncodeOp(a[i]) \o x[i]
  BY Zenon, <1>1 DEF Cut
<1>6. /\ y \in [0..m -> Seq(Byte)] /\ y[0] = t /\ y[m] = <<>>
      /\ \A i \in 1..m : y[i - 1] = EncodeOp(b[i]) \o y[i]
  BY Zenon, <1>2 DEF Cut
<1> HIDE DEF n, m, ops
<1> DEFINE k == n + m
           cut == [i \in 0..k |-> IF i <= n THEN x[i] \o t ELSE y[i - n]]
<1>7. \A p, q \in Seq(Byte) : p \o q \in Seq(Byte)
  OBVIOUS
<1>8. k \in Nat /\ n <= k /\ 0 \in 0..k /\ 0 <= n /\ k \in 0..k /\ n \in 0..n /\ n \in 0..k
      /\ n <= n
  BY <1>3
<1>9. \A i \in 0..k : /\ i <= n => i \in 0..n
                      /\ ~(i <= n) => i - n \in 1..m /\ i - n \in 0..m
  BY <1>3
<1>10. cut \in [0..k -> Seq(Byte)]
  BY Zenon, <1>5, <1>6, <1>7, <1>9
<1>11. \A i \in 0..k : cut[i] = IF i <= n THEN x[i] \o t ELSE y[i - n]
  BY Zenon
<1>12. \A i \in 1..k : ops[i] = IF i <= n THEN a[i] ELSE b[i - n]
  BY Zenon, <1>4
<1> HIDE DEF cut, k
<1>13. cut[0] = s \o t
  BY Zenon, <1>5, <1>8, <1>11
<1>14. cut[n] = y[0]
  <2>1. cut[n] = <<>> \o t
    BY Zenon, <1>5, <1>8, <1>11
  <2> QED BY Zenon, <2>1, <1>6, JoinEmpty
<1>15. cut[k] = <<>>
  <2>1. k <= n => k = n /\ m = 0
    BY <1>3 DEF k
  <2>2. k - n = m
    BY <1>3 DEF k
  <2> QED BY Zenon, <2>1, <2>2, <1>6, <1>8, <1>11, <1>14
<1>16. ASSUME NEW i \in 1..k PROVE cut[i - 1] = EncodeOp(ops[i]) \o cut[i]
  <2>1. /\ i \in 0..k /\ i - 1 \in 0..k
        /\ i <= n => i - 1 <= n /\ i \in 1..n /\ i \in 0..n
        /\ ~(i <= n) => /\ i - n \in 1..m /\ (i - 1) - n = (i - n) - 1
                        /\ i - 1 <= n => i - 1 = n /\ (i - n) - 1 = 0
    BY <1>3 DEF k
  <2>2. CASE i <= n
    <3>1. /\ ops[i] = a[i] /\ cut[i] = x[i] \o t /\ cut[i - 1] = x[i - 1] \o t
          /\ x[i - 1] = EncodeOp(a[i]) \o x[i] /\ x[i] \in Seq(Byte)
      BY Zenon, <2>1, <2>2, <1>5, <1>11, <1>12
    <3>2. EncodeOp(a[i]) \in Seq(Byte)
      BY Zenon, <2>1, <2>2, <1>3, OpTyped
    <3>3. Assoc(EncodeOp(a[i]), x[i], t)
      BY Zenon, <3>1, <3>2, JoinAssociates
    <3> QED BY Zenon, <3>1, <3>3 DEF Assoc
  <2>3. CASE ~(i <= n)
    <3>1. ops[i] = b[i - n] /\ cut[i] = y[i - n]
      BY Zenon, <2>1, <2>3, <1>11, <1>12
    <3>2. cut[i - 1] = y[(i - n) - 1]
      BY Zenon, <2>1, <2>3, <1>11, <1>14
    <3>3. y[(i - n) - 1] = EncodeOp(b[i - n]) \o y[i - n]
      BY Zenon, <2>1, <2>3, <1>6
    <3> QED BY Zenon, <3>1, <3>2, <3>3
  <2> QED BY Zenon, <2>2, <2>3
<1>17. Cut(cut, s \o t, ops)
  BY Zenon, <1>4, <1>10, <1>13, <1>15, <1>16 DEF Cut, k
<1>18. AreOps(ops)
  <2>1. \A i \in 1..k : /\ i <= n => i \in 1..n
                        /\ ~(i <= n) => i - n \in 1..m
    BY <1>3 DEF k
  <2>2. \A i \in 1..k : Op(ops[i])
    BY Zenon, <2>1, <1>3, <1>12
  <2>3. ops = [i \in 1..k |-> ops[i]]
    BY Zenon, <1>4, <1>12 DEF k
  <2> QED BY Zenon, <2>2, <2>3, <1>4, <1>8 DEF AreOps, k
<1> QED BY Zenon, <1>17, <1>18 DEF Holds, ops

-----------------------------------------------------------------------------
(* The header of a batch *)

\* The bytes of a batch: its number, its count and its operations.
RepOf(h, count, s) == (h \o PutFixed32(count)) \o s

\* The eight bytes of a sequence number.
IsHead(h) == h \in Seq(Byte) /\ Len(h) = 8

\* What WriteBatchInternal finds in the bytes of a batch.
RepParts(r, h, count, s) ==
    /\ r \in Seq(Byte)
    /\ SubSeq(r, 1, 8) = h
    /\ Advance(r, 8) = PutFixed32(count) \o s
    /\ Operations(r) = s
    /\ Fits32(count) => Count(r) = count

\* Sequence, Count and the operations are at their offsets.
LEMMA RepReads ==
    ASSUME NEW h, IsHead(h), NEW count \in Nat, NEW s \in Seq(Byte)
    PROVE  RepParts(RepOf(h, count, s), h, count, s)
<1> DEFINE c == PutFixed32(count)
           r == RepOf(h, count, s)
           a == h \o c
           t == c \o s
<1>1. h \in Seq(Byte) /\ Len(h) = 8
  BY Zenon DEF IsHead
<1>2. Fixed32(count)
  BY Zenon, Fixed32Bytes
<1>3. c \in Seq(Byte) /\ Len(c) = 4
  BY Zenon, <1>2 DEF Fixed32
<1>4. r = a \o s
  BY Zenon DEF RepOf
<1> HIDE DEF c
<1>5. Joined(Byte, h, c) /\ Joined(Byte, c, s) /\ Joined(Byte, h, t)
  <2>1. Joined(Byte, h, c) /\ Joined(Byte, c, s)
    BY Zenon, <1>1, <1>3, JoinFacts
  <2>2. t \in Seq(Byte)
    BY Zenon, <2>1 DEF Joined
  <2> HIDE DEF t
  <2> QED BY Zenon, <1>1, <2>1, <2>2, JoinFacts
<1>6. a \in Seq(Byte) /\ Len(a) = 12
  <2>1. a \in Seq(Byte) /\ Len(a) = 8 + 4
    BY Zenon, <1>1, <1>3, <1>5 DEF Joined
  <2> HIDE DEF a
  <2> QED BY <2>1
<1>7. r = h \o t
  BY Zenon, <1>1, <1>3, <1>4, JoinAssociates DEF Assoc
<1>8. t \in Seq(Byte) /\ \A i \in 1..4 : t[i] = c[i]
  BY Zenon, <1>3, <1>5 DEF Joined
<1>9. \A i \in 1..Len(t) : r[8 + i] = t[i]
  BY Zenon, <1>1, <1>5, <1>7 DEF Joined
<1>10. Len(t) \in Nat /\ Len(t) >= 4
  <2>1. Len(t) = 4 + Len(s) /\ Len(s) \in Nat
    BY Zenon, <1>3, <1>5 DEF Joined
  <2> HIDE DEF t
  <2> QED BY <2>1
<1> HIDE DEF a, t
<1>11. Parted(a, s) /\ Parted(h, t)
  BY Zenon, <1>1, <1>6, <1>8, JoinParts
<1>12. r \in Seq(Byte) /\ Advance(r, 12) = s /\ SubSeq(r, 1, 8) = h /\ Advance(r, 8) = t
  BY Zenon, <1>1, <1>4, <1>6, <1>7, <1>11 DEF Parted
<1>13. Len(r) = 8 + Len(t)
  <2>1. Len(h \o t) = Len(h) + Len(t)
    BY Zenon, <1>5 DEF Joined, t
  <2> QED BY Zenon, <1>1, <1>7, <2>1
<1> HIDE DEF r
<1> DEFINE q == SubSeq(r, 9, 12)
<1>14. \A i \in 1..4 : q[i] = r[8 + i]
  BY <1>10, <1>12, <1>13
<1>15. \A i \in 1..4 : i \in 1..Len(t)
  BY <1>10
<1> HIDE DEF q
<1>16. \A i \in 1..4 : q[i] = c[i]
  BY Zenon, <1>8, <1>9, <1>14, <1>15
<1>17. Fits32(count) => Count(r) = count
  BY Zenon, <1>16, Fixed32ReadsBack DEF Count, q, c
<1> QED BY Zenon, <1>12, <1>17 DEF RepParts, Operations, kWriteBatchHeader, r, t, c

\* SetCount writes the count and nothing else.
LEMMA RepCounted ==
    ASSUME NEW h, IsHead(h), NEW count \in Nat, NEW s \in Seq(Byte), NEW n \in Nat
    PROVE  SetCount(RepOf(h, count, s), n) = RepOf(h, n, s)
<1> DEFINE r == RepOf(h, count, s)
<1>1. RepParts(r, h, count, s)
  BY Zenon, RepReads
<1> HIDE DEF r
<1>2. SetCount(r, n) = RepOf(h, n, s)
  BY Zenon, <1>1 DEF SetCount, RepParts, RepOf
<1> QED BY Zenon, <1>2 DEF r

\* Appending to a batch appends to its operations.
LEMMA RepExtended ==
    ASSUME NEW h, IsHead(h), NEW n \in Nat, NEW s \in Seq(Byte), NEW e \in Seq(Byte)
    PROVE  RepOf(h, n, s) \o e = RepOf(h, n, s \o e)
<1> DEFINE a == h \o PutFixed32(n)
<1>1. PutFixed32(n) \in Seq(Byte) /\ h \in Seq(Byte)
  BY Zenon, Fixed32Bytes DEF Fixed32, IsHead
<1>2. \A x, y \in Seq(Byte) : x \o y \in Seq(Byte)
  OBVIOUS
<1>3. a \in Seq(Byte)
  BY Zenon, <1>1, <1>2
<1> HIDE DEF a
<1>4. Assoc(a, s, e)
  BY Zenon, <1>3, JoinAssociates
<1> QED BY Zenon, <1>4 DEF Assoc, RepOf, a

\* SetSequence writes the number and nothing else.
LEMMA RepNumbered ==
    ASSUME NEW h, IsHead(h), NEW count \in Nat, NEW s \in Seq(Byte), NEW number \in Nat
    PROVE  /\ SetSequence(RepOf(h, count, s), number) = RepOf(PutFixed64(number), count, s)
           /\ IsHead(PutFixed64(number))
<1> DEFINE r == RepOf(h, count, s)
           p == PutFixed64(number)
<1>1. RepParts(r, h, count, s)
  BY Zenon, RepReads
<1>2. PutFixed32(count) \in Seq(Byte)
  BY Zenon, Fixed32Bytes DEF Fixed32
<1>3. p \in Seq(Byte) /\ Len(p) = 8
  BY Zenon, Fixed64Bytes
<1> HIDE DEF p, r
<1>4. SetSequence(r, number) = p \o (PutFixed32(count) \o s)
  BY Zenon, <1>1 DEF SetSequence, RepParts, p
<1>5. Assoc(p, PutFixed32(count), s)
  BY Zenon, <1>2, <1>3, JoinAssociates
<1>6. SetSequence(r, number) = RepOf(p, count, s)
  BY Zenon, <1>4, <1>5 DEF Assoc, RepOf
<1> QED BY Zenon, <1>3, <1>6 DEF IsHead, p, r

\* r has the head h, the count of ops and the bytes s, which hold ops.
Written(r, h, s, ops) ==
    /\ IsHead(h) /\ s \in Seq(Byte)
    /\ r = RepOf(h, Len(ops), s) /\ Holds(s, ops)

\* r are the bytes of a batch with the operations ops.
Batched(r, ops) == Fits32(Len(ops)) /\ \E h, s : Written(r, h, s, ops)

\* Count and Iterate return what the batch holds.
LEMMA BatchedReads ==
    ASSUME NEW r, NEW ops, Batched(r, ops)
    PROVE  Count(r) = Len(ops) /\ Iterate(r) = ops /\ Holds(Operations(r), ops)
<1>1. PICK h, s : Written(r, h, s, ops)
  BY Zenon DEF Batched
<1>2. /\ IsHead(h) /\ s \in Seq(Byte) /\ Len(ops) \in Nat /\ Fits32(Len(ops))
      /\ r = RepOf(h, Len(ops), s) /\ Holds(s, ops)
  BY Zenon, <1>1 DEF Written, Batched, Holds, AreOps
<1>3. RepParts(r, h, Len(ops), s)
  BY Zenon, <1>2, RepReads
<1>4. Operations(r) = s /\ Count(r) = Len(ops)
  BY Zenon, <1>2, <1>3 DEF RepParts
<1>5. ReadOperations(s, Len(ops)) = ops
  BY Zenon, <1>2, OperationsRead
<1> QED BY Zenon, <1>2, <1>4, <1>5 DEF Iterate

\* WriteBatch::Clear makes an empty batch.
LEMMA BatchedCleared == Batched(Cleared, <<>>)
<1> DEFINE h == [i \in 1..8 |-> 0]
<1>1. h \in Seq(Byte) /\ Len(h) = 8
  BY DEF Byte
<1>2. PutFixed32(0) = <<0, 0, 0, 0>>
  BY SMT DEF PutFixed32
<1>3. (h \o <<0, 0, 0, 0>>) \o <<>> = [i \in 1..12 |-> 0]
  OBVIOUS
<1>4. Len(<<>>) = 0 /\ <<>> \in Seq(Byte)
  OBVIOUS
<1>5. Cleared = RepOf(h, 0, <<>>)
  BY Zenon, <1>2, <1>3 DEF Cleared, RepOf, kWriteBatchHeader
<1>6. Fits32(0)
  BY SMT DEF Fits32
<1> HIDE DEF h
<1>7. Written(Cleared, h, <<>>, <<>>)
  BY Zenon, <1>1, <1>4, <1>5, HoldsNone DEF Written, IsHead
<1> QED BY Zenon, <1>4, <1>6, <1>7 DEF Batched

-----------------------------------------------------------------------------
(* What the operations of WriteBatch do to its bytes *)

\* Put, Delete and Append: the count grows with the operations.
LEMMA BatchedGrows ==
    ASSUME NEW r, NEW a, Batched(r, a), NEW e \in Seq(Byte), NEW b, Holds(e, b),
           Fits32(Len(a) + Len(b))
    PROVE  Batched(SetCount(r, Len(a) + Len(b)) \o e, a \o b)
<1> DEFINE n == Len(a) + Len(b)
           ops == a \o b
<1>1. PICK h, s : Written(r, h, s, a)
  BY Zenon DEF Batched
<1>2. /\ IsHead(h) /\ s \in Seq(Byte) /\ Len(a) \in Nat /\ Len(b) \in Nat
      /\ r = RepOf(h, Len(a), s) /\ Holds(s, a) /\ AreOps(a) /\ AreOps(b)
  BY Zenon, <1>1 DEF Written, Holds, AreOps
<1>3. n \in Nat
  BY <1>2
<1>4. Len(ops) = n
  BY Zenon, <1>2, ConcatenatedIs DEF Concatenated
<1> HIDE DEF n
<1>5. SetCount(r, n) = RepOf(h, n, s) /\ RepOf(h, n, s) \o e = RepOf(h, n, s \o e)
  BY ZenonT(40), <1>2, <1>3, RepCounted, RepExtended
<1>6. Holds(s \o e, ops)
  BY Zenon, <1>2, HoldsBoth
<1>7. s \o e \in Seq(Byte)
  BY <1>2
<1> HIDE DEF ops
<1>8. Written(SetCount(r, n) \o e, h, s \o e, ops)
  BY Zenon, <1>2, <1>4, <1>5, <1>6, <1>7 DEF Written
<1>9. Fits32(Len(ops))
  BY Zenon, <1>4 DEF n
<1> QED BY Zenon, <1>8, <1>9 DEF Batched, n, ops

\* SetSequence leaves the operations alone, and Sequence reads its number.
LEMMA BatchedNumbered ==
    ASSUME NEW r, NEW a, Batched(r, a), NEW number, Fits64(number)
    PROVE  /\ Batched(SetSequence(r, number), a)
           /\ Sequence(SetSequence(r, number)) = number
<1> DEFINE p == PutFixed64(number)
           q == SetSequence(r, number)
<1>1. PICK h, s : Written(r, h, s, a)
  BY Zenon DEF Batched
<1>2. /\ IsHead(h) /\ s \in Seq(Byte) /\ Len(a) \in Nat
      /\ r = RepOf(h, Len(a), s) /\ Holds(s, a)
  BY Zenon, <1>1 DEF Written, Holds, AreOps
<1>3. number \in Nat
  BY Zenon DEF Fits64
<1>4. q = RepOf(p, Len(a), s) /\ IsHead(p)
  BY Zenon, <1>2, <1>3, RepNumbered
<1> HIDE DEF p, q
<1>5. Batched(q, a)
  BY Zenon, <1>2, <1>4 DEF Batched, Written
<1>6. SubSeq(q, 1, 8) = p
  BY Zenon, <1>2, <1>4, RepReads DEF RepParts
<1>7. DecodeFixed64(p) = number
  BY Zenon, Fixed64ReadsBack DEF p
<1>8. Sequence(q) = number
  BY Zenon, <1>6, <1>7 DEF Sequence
<1> QED BY Zenon, <1>5, <1>8 DEF q

\* Every batch holds its calls, for the bytes rep and the calls cs.
BatchesOf(rep, cs) ==
    /\ rep = [b \in Batches |-> rep[b]] /\ cs = [b \in Batches |-> cs[b]]
    /\ \A b \in Batches : Batched(rep[b], cs[b])

\* The part of the invariant about the batches.
BatchInv == BatchesOf(rep_, calls)

\* The bound on the operations keeps the count of each batch below 32 bits.
LEMMA RoomBounds ==
    ASSUME BatchInv, NEW n \in Nat, Room(n), NEW b \in Batches
    PROVE  Len(calls[b]) \in Nat /\ Fits32(Len(calls[b]) + n)
<1> DEFINE part == [c \in Batches |-> {c} \X DOMAIN calls[c]]
           parts == {{c} \X DOMAIN calls[c] : c \in Batches}
           all == UNION parts
<1>1. ASSUME NEW c \in Batches
      PROVE  Len(calls[c]) \in Nat /\ DOMAIN calls[c] = 1..Len(calls[c])
  <2>1. AreOps(calls[c])
    BY Zenon DEF BatchInv, BatchesOf, Batched, Written, Holds
  <2> QED BY Zenon, <2>1 DEF AreOps
<1>2. ASSUME NEW c \in Batches
      PROVE  /\ IsFiniteSet({c} \X DOMAIN calls[c])
             /\ Cardinality({c} \X DOMAIN calls[c]) = Len(calls[c])
  <2>1. /\ IsFiniteSet(DOMAIN calls[c])
        /\ Cardinality(DOMAIN calls[c]) = Len(calls[c])
    <3> DEFINE L == Len(calls[c])
    <3>1. L \in Nat /\ L \in Int /\ 1 \in Int
      BY <1>1
    <3> HIDE DEF L
    <3>2. IsFiniteSet(1..L) /\ Cardinality(1..L) = IF 1 > L THEN 0 ELSE L - 1 + 1
      BY Zenon, <3>1, FS_Interval
    <3>3. Cardinality(1..L) = L
      BY <3>1, <3>2
    <3> QED BY Zenon, <3>2, <3>3, <1>1 DEF L
  <2>2. IsFiniteSet({c}) /\ Cardinality({c}) = 1
    BY Zenon, FS_Singleton
  <2>3. /\ IsFiniteSet({c} \X DOMAIN calls[c])
        /\ Cardinality({c} \X DOMAIN calls[c]) = 1 * Len(calls[c])
    BY ZenonT(40), <2>1, <2>2, FS_Product
  <2>4. 1 * Len(calls[c]) = Len(calls[c])
    BY <1>1
  <2> QED BY Zenon, <2>3, <2>4
<1>3. IsFiniteSet(all)
  <2>1. part \in Surjection(Batches, parts)
    BY ZenonT(40) DEF Surjection
  <2>2. IsFiniteSet(parts)
    BY Zenon, <2>1, BatchesAssumption, FS_Surjection
  <2>3. \A T \in parts : IsFiniteSet(T)
    BY Zenon, <1>2
  <2> HIDE DEF parts
  <2> QED BY Zenon, <2>2, <2>3, FS_UNION
<1>4. {b} \X DOMAIN calls[b] \in SUBSET all
  BY Zenon
<1>5. Cardinality(all) + n <= MaxOps
  BY Zenon DEF Room
<1> HIDE DEF all
<1>6. Cardinality(all) \in Nat
  BY Zenon, <1>3, FS_CardinalityType
<1> DEFINE mine == {b} \X DOMAIN calls[b]
           L == Len(calls[b])
           k == L + n
<1>7. Cardinality(mine) = L /\ L \in Nat
  BY Zenon, <1>1, <1>2
<1> HIDE DEF mine, L
<1>8. Cardinality(mine) <= Cardinality(all)
  BY Zenon, <1>3, <1>4, FS_Subset DEF mine
<1>9. k \in Nat /\ k <= MaxOps /\ MaxOps \in Nat
  BY SMT, <1>5, <1>6, <1>7, <1>8, BoundAssumption
<1> HIDE DEF k
<1>10. Fits32(k)
  BY SMT, <1>9, BoundAssumption DEF Fits32
<1> QED BY Zenon, <1>7, <1>10 DEF k, L

-----------------------------------------------------------------------------
(* The number in a tag *)

\* A number of 56 bits.
Fits56(n) == n \in Nat /\ (n \div 16777216) \div 16777216 < 256

\* A number without its lowest 24 bits.
Middle(n) == n \div 16777216

\* A number of 56 bits, and its upper half.
LEMMA Fits56Facts ==
    ASSUME NEW n, Fits56(n)
    PROVE  n \in Nat /\ Fits64(n) /\ Fits32(Middle(n)) /\ Middle(n) \in Nat
<1>1. n \in Nat /\ Fits32(Middle(n)) /\ Middle(n) \in Nat
  BY SMT DEF Fits56, Fits32, Middle
<1>2. Fits64(n)
  BY SMT DEF Fits56, Fits32, Fits64, Upper
<1> QED BY Zenon, <1>1, <1>2

\* The digits of v are those of n, one place up.
TagDigits(v, n) ==
    /\ v \in Nat /\ Upper(v) = Middle(n)
    /\ Digit(v, 2) = Digit(n, 1) /\ Digit(v, 3) = Digit(n, 2) /\ Digit(v, 4) = Digit(n, 3)

\* n << 8 | type moves the bytes of n up by one.
LEMMA TagIsShifted ==
    ASSUME NEW n \in Nat, NEW t \in {1, 2}
    PROVE  TagDigits(256 * n + t, n)
<1> DEFINE v == 256 * n + t
<1>1. v \in Nat /\ v \div 256 = n
  BY SMT
<1>2. v \div 65536 = n \div 256
  BY SMT
<1>3. v \div 16777216 = n \div 65536
  BY SMT
<1>4. (v \div 16777216) \div 256 = n \div 16777216
  BY SMT
<1> HIDE DEF v
<1>5. Digit(v, 2) = Digit(n, 1) /\ Digit(v, 3) = Digit(n, 2) /\ Digit(v, 4) = Digit(n, 3)
  BY SMT, <1>1, <1>2, <1>3 DEF Digit
<1>6. Upper(v) = Middle(n)
  BY SMT, <1>4 DEF Upper, Middle
<1>7. TagDigits(v, n)
  BY Zenon, <1>1, <1>5, <1>6 DEF TagDigits
<1> QED BY SMT, <1>7 DEF v

\* The seven bytes of a number, highest first.
NumberBytes(n) ==
    [i \in 1..7 |-> IF i <= 4 THEN Digit(Middle(n), 5 - i) ELSE Digit(n, 8 - i)]

\* The number of a tag has seven bytes.
LEMMA NumberBytesAre ==
    ASSUME NEW n, Fits56(n)
    PROVE  /\ NumberBytes(n) \in Seq(Byte) /\ Len(NumberBytes(n)) = 7
           /\ DOMAIN NumberBytes(n) = 1..7
<1>1. n \in Nat /\ Middle(n) \in Nat
  BY Zenon, Fits56Facts
<1>2. \A i \in 1..7 : /\ i <= 4 => 5 - i \in 1..4
                      /\ ~(i <= 4) => 8 - i \in 1..4
  OBVIOUS
<1>3. NumberBytes(n) \in [1..7 -> Byte]
  BY Zenon, <1>1, <1>2, DigitIsByte DEF NumberBytes
<1>4. 7 \in Nat
  BY Zenon
<1> QED BY Zenon, <1>3, <1>4, RowIsSequence

\* A tag holds the bytes of its number above the type.
LEMMA TagBytes ==
    ASSUME NEW n, Fits56(n), NEW t \in {kTypeValue, kTypeDeletion}
    PROVE  /\ Tag(n, t) \in Seq(Byte) /\ Len(Tag(n, t)) = 8
           /\ \A i \in 1..7 : Tag(n, t)[9 - i] = NumberBytes(n)[i]
<1> DEFINE v == 256 * n + t
           s == PutFixed64(v)
<1>1. n \in Nat /\ Middle(n) \in Nat
  BY Zenon, Fits56Facts
<1>2. t \in {1, 2}
  BY Zenon DEF kTypeValue, kTypeDeletion
<1>3. /\ v \in Nat /\ Upper(v) = Middle(n)
      /\ Digit(v, 2) = Digit(n, 1) /\ Digit(v, 3) = Digit(n, 2) /\ Digit(v, 4) = Digit(n, 3)
  <2>1. TagDigits(v, n)
    BY Zenon, <1>1, <1>2, TagIsShifted
  <2> HIDE DEF v
  <2> QED BY Zenon, <2>1 DEF TagDigits
<1>4. Tag(n, t) = s
  BY Zenon DEF Tag
<1> HIDE DEF v
<1>5. /\ s \in Seq(Byte) /\ Len(s) = 8
      /\ \A i \in 1..4 : s[i] = Digit(v, i) /\ s[4 + i] = Digit(Upper(v), i)
  BY Zenon, <1>3, Fixed64Bytes
<1> HIDE DEF s
<1>6. ASSUME NEW i \in 1..7 PROVE s[9 - i] = NumberBytes(n)[i]
  <2>1. NumberBytes(n)[i] = IF i <= 4 THEN Digit(Middle(n), 5 - i) ELSE Digit(n, 8 - i)
    BY Zenon DEF NumberBytes
  <2>2. CASE i <= 4
    <3>1. 5 - i \in 1..4 /\ 9 - i = 4 + (5 - i)
      BY <2>2
    <3> QED BY Zenon, <2>1, <2>2, <3>1, <1>3, <1>5
  <2>3. CASE ~(i <= 4)
    <3>1. /\ 9 - i \in 1..4
          /\ \/ 9 - i = 2 /\ 8 - i = 1
             \/ 9 - i = 3 /\ 8 - i = 2
             \/ 9 - i = 4 /\ 8 - i = 3
      BY <2>3
    <3>2. s[9 - i] = Digit(v, 9 - i)
      BY Zenon, <3>1, <1>5
    <3> QED BY Zenon, <2>1, <2>3, <3>1, <3>2, <1>3
  <2> QED BY Zenon, <2>2, <2>3
<1> QED BY Zenon, <1>4, <1>5, <1>6

\* The number that seven bytes stand for.
NumberSum(a) ==
    a[7] + 256 * a[6] + 65536 * a[5] + 16777216 * Sum32(a[4], a[3], a[2], a[1])

\* The bytes of a number stand for it: no bit of it is lost in the tag.
LEMMA NumberIsSum ==
    ASSUME NEW n, Fits56(n)
    PROVE  NumberSum(NumberBytes(n)) = n
<1> DEFINE m == Middle(n)
           a == NumberBytes(n)
           d1 == Digit(n, 1)
           d2 == Digit(n, 2)
           d3 == Digit(n, 3)
           hi == Sum32(Digit(m, 1), Digit(m, 2), Digit(m, 3), Digit(m, 4))
<1>1. n \in Nat /\ Fits32(m) /\ m \in Nat
  BY Zenon, Fits56Facts
<1>2. hi = m
  BY Zenon, <1>1, Digits32
<1>3. /\ 1 \in 1..7 /\ 2 \in 1..7 /\ 3 \in 1..7 /\ 4 \in 1..7 /\ 5 \in 1..7
      /\ 6 \in 1..7 /\ 7 \in 1..7
      /\ 5 - 1 = 4 /\ 5 - 2 = 3 /\ 5 - 3 = 2 /\ 5 - 4 = 1 /\ 8 - 5 = 3 /\ 8 - 6 = 2 /\ 8 - 7 = 1
      /\ 1 <= 4 /\ 2 <= 4 /\ 3 <= 4 /\ 4 <= 4 /\ ~(5 <= 4) /\ ~(6 <= 4) /\ ~(7 <= 4)
  OBVIOUS
<1>4. \A i \in 1..7 : a[i] = IF i <= 4 THEN Digit(m, 5 - i) ELSE Digit(n, 8 - i)
  BY Zenon DEF NumberBytes
<1>5. /\ a[1] = Digit(m, 4) /\ a[2] = Digit(m, 3) /\ a[3] = Digit(m, 2) /\ a[4] = Digit(m, 1)
      /\ a[5] = d3 /\ a[6] = d2 /\ a[7] = d1
  <2> HIDE DEF a, m
  <2> QED BY Zenon, <1>3, <1>4
<1>6. /\ n = d1 + 256 * d2 + 65536 * d3 + 16777216 * m
      /\ d1 \in Nat /\ d2 \in Nat /\ d3 \in Nat
  <2> DEFINE n1 == n \div 256
             n2 == n \div 65536
             n3 == n \div 16777216
             e1 == n % 256
             e2 == n1 % 256
             e3 == n2 % 256
  <2>1. /\ n = 256 * n1 + e1 /\ n1 = 256 * n2 + e2 /\ n2 = 256 * n3 + e3
        /\ n1 \in Nat /\ n2 \in Nat /\ n3 \in Nat /\ e1 \in Nat /\ e2 \in Nat /\ e3 \in Nat
    BY SMT, <1>1
  <2>2. d1 = e1 /\ d2 = e2 /\ d3 = e3 /\ m = n3
    BY SMT DEF Digit, Middle
  <2> HIDE DEF d1, d2, d3, m, n1, n2, n3, e1, e2, e3
  <2> QED BY SMT, <2>1, <2>2
<1> HIDE DEF a, m, d1, d2, d3
<1>7. Sum32(a[4], a[3], a[2], a[1]) = m
  BY Zenon, <1>2, <1>5
<1>8. NumberSum(a) = d1 + 256 * d2 + 65536 * d3 + 16777216 * m
  BY SMT, <1>5, <1>7 DEF NumberSum
<1> QED BY SMT, <1>6, <1>8 DEF a

-----------------------------------------------------------------------------
(* Slice::Compare *)

\* < on bytes is a strict order.
LEMMA BytesOrdered ==
    \A x, y \in Byte :
        /\ x < y => y # x /\ ~(y < x)
        /\ x # y => (x < y /\ ~(y < x)) \/ (y < x /\ ~(x < y))
BY DEF Byte

\* The first n bytes are the same.
Agree(a, b, n) == \A i \in 1..n : a[i] = b[i]

\* a and b differ first at p.
DifferAt(a, b, p) ==
    p \in DOMAIN a /\ p \in DOMAIN b /\ a[p] # b[p] /\ Agree(a, b, p - 1)

\* memcmp decides at the first difference.
LEMMA CompareAtDifference ==
    ASSUME NEW a \in Seq(Byte), NEW b \in Seq(Byte), NEW p, DifferAt(a, b, p)
    PROVE  SliceCompare(a, b) = IF a[p] < b[p] THEN -1 ELSE 1
<1> DEFINE differ == {i \in DOMAIN a \cap DOMAIN b : a[i] # b[i]}
<1>1. p \in differ /\ p \in Nat
  BY DEF DifferAt
<1>2. differ \in SUBSET Nat
  OBVIOUS
<1>3. Min(differ) \in differ /\ \A y \in differ : Min(differ) <= y
  <2> HIDE DEF differ
  <2> QED BY Zenon, <1>1, <1>2, MinIsLeast
<1>4. Min(differ) = p
  <2> DEFINE m == Min(differ)
  <2>1. m \in Nat /\ m <= p /\ a[m] # b[m] /\ m >= 1
    <3>1. m \in differ /\ m <= p BY Zenon, <1>1, <1>3
    <3> HIDE DEF m
    <3> QED BY <3>1
  <2> HIDE DEF m
  <2>2. ~(m \in 1..(p - 1))
    BY Zenon, <2>1 DEF DifferAt, Agree
  <2>3. m = p BY <2>1, <2>2, <1>1
  <2> QED BY Zenon, <2>3 DEF m
<1>5. differ # {} BY Zenon, <1>1
<1> QED BY Zenon, <1>4, <1>5 DEF SliceCompare

\* Without a difference the lengths decide.
LEMMA CompareAgreeing ==
    ASSUME NEW a \in Seq(Byte), NEW b \in Seq(Byte),
           \A i \in DOMAIN a \cap DOMAIN b : a[i] = b[i]
    PROVE  SliceCompare(a, b) =
             IF Len(a) < Len(b) THEN -1 ELSE IF Len(a) > Len(b) THEN 1 ELSE 0
<1>1. {i \in DOMAIN a \cap DOMAIN b : a[i] # b[i]} = {}
  BY Zenon
<1> QED BY Zenon, <1>1 DEF SliceCompare

\* Two strings differ first somewhere, or agree on the shorter length.
LEMMA DifferOrAgree ==
    ASSUME NEW a \in Seq(Byte), NEW b \in Seq(Byte)
    PROVE  \/ \E p : DifferAt(a, b, p)
           \/ \A i \in DOMAIN a \cap DOMAIN b : a[i] = b[i]
<1> DEFINE differ == {i \in DOMAIN a \cap DOMAIN b : a[i] # b[i]}
<1>1. SUFFICES ASSUME differ # {} PROVE \E p : DifferAt(a, b, p)
  BY Zenon
<1>2. differ \in SUBSET Nat
  OBVIOUS
<1>3. PICK p \in differ : \A y \in differ : p <= y
  <2> HIDE DEF differ
  <2> QED BY Zenon, <1>1, <1>2, LeastNumber
<1>4. p \in DOMAIN a /\ p \in DOMAIN b /\ a[p] # b[p] /\ p \in Nat
  OBVIOUS
<1>5. ASSUME NEW i \in 1..(p - 1) PROVE a[i] = b[i]
  <2>1. i \in DOMAIN a /\ i \in DOMAIN b /\ ~(p <= i)
    BY <1>4
  <2>2. i \notin differ BY <1>3, <2>1
  <2> QED BY Zenon, <2>1, <2>2
<1>6. DifferAt(a, b, p)
  BY Zenon, <1>4, <1>5 DEF DifferAt, Agree
<1> QED BY Zenon, <1>6

\* Slice::Compare with its arguments exchanged.
LEMMA CompareSwapped ==
    ASSUME NEW a \in Seq(Byte), NEW b \in Seq(Byte)
    PROVE  /\ SliceCompare(a, b) = -1 => SliceCompare(b, a) = 1
           /\ SliceCompare(a, b) = 1 => SliceCompare(b, a) = -1
           /\ SliceCompare(a, b) = 0 => SliceCompare(b, a) = 0
           /\ SliceCompare(a, b) \in {-1, 0, 1}
<1>1. CASE \E p : DifferAt(a, b, p)
  <2>1. PICK p : DifferAt(a, b, p)
    BY Zenon, <1>1
  <2>2. DifferAt(b, a, p)
    BY Zenon, <2>1 DEF DifferAt, Agree
  <2>3. a[p] \in Byte /\ b[p] \in Byte /\ a[p] # b[p]
    BY <2>1 DEF DifferAt
  <2>4. SliceCompare(a, b) = (IF a[p] < b[p] THEN -1 ELSE 1)
    BY Zenon, <2>1, CompareAtDifference
  <2>5. SliceCompare(b, a) = (IF b[p] < a[p] THEN -1 ELSE 1)
    BY Zenon, <2>2, CompareAtDifference
  <2>6. (a[p] < b[p] /\ ~(b[p] < a[p])) \/ (b[p] < a[p] /\ ~(a[p] < b[p]))
    BY Zenon, <2>3, BytesOrdered
  <2>7. \/ SliceCompare(a, b) = -1 /\ SliceCompare(b, a) = 1
        \/ SliceCompare(a, b) = 1 /\ SliceCompare(b, a) = -1
    BY Zenon, <2>4, <2>5, <2>6
  <2> QED BY <2>7
<1>2. CASE \A i \in DOMAIN a \cap DOMAIN b : a[i] = b[i]
  <2>1. SliceCompare(a, b) =
          (IF Len(a) < Len(b) THEN -1 ELSE IF Len(a) > Len(b) THEN 1 ELSE 0)
    BY Zenon, <1>2, CompareAgreeing
  <2>2. \A i \in DOMAIN b \cap DOMAIN a : b[i] = a[i]
    BY Zenon, <1>2
  <2>3. SliceCompare(b, a) =
          (IF Len(b) < Len(a) THEN -1 ELSE IF Len(b) > Len(a) THEN 1 ELSE 0)
    BY Zenon, <2>2, CompareAgreeing
  <2>4. Len(a) \in Nat /\ Len(b) \in Nat
    OBVIOUS
  <2> QED BY <2>1, <2>3, <2>4
<1> QED BY Zenon, <1>1, <1>2, DifferOrAgree

\* An element of a sequence is of its kind.
LEMMA ElementTyped ==
    ASSUME NEW S, NEW s \in Seq(S), NEW i \in DOMAIN s
    PROVE  s[i] \in S
OBVIOUS

\* The number of seven bytes, highest first.
Sum7(a1, a2, a3, a4, a5, a6, a7) ==
    a7 + 256 * a6 + 65536 * a5 + 16777216 * Sum32(a4, a3, a2, a1)

\* a is below b at the first of seven bytes in which they differ.
Lower7(a1, a2, a3, a4, a5, a6, a7, b1, b2, b3, b4, b5, b6, b7) ==
    \/ a1 < b1
    \/ a1 = b1 /\ a2 < b2
    \/ a1 = b1 /\ a2 = b2 /\ a3 < b3
    \/ a1 = b1 /\ a2 = b2 /\ a3 = b3 /\ a4 < b4
    \/ a1 = b1 /\ a2 = b2 /\ a3 = b3 /\ a4 = b4 /\ a5 < b5
    \/ a1 = b1 /\ a2 = b2 /\ a3 = b3 /\ a4 = b4 /\ a5 = b5 /\ a6 < b6
    \/ a1 = b1 /\ a2 = b2 /\ a3 = b3 /\ a4 = b4 /\ a5 = b5 /\ a6 = b6 /\ a7 < b7

\* Seven bytes, highest first, compare like the numbers they stand for.
LEMMA SumOrdered ==
    ASSUME NEW a1 \in Byte, NEW a2 \in Byte, NEW a3 \in Byte, NEW a4 \in Byte,
           NEW a5 \in Byte, NEW a6 \in Byte, NEW a7 \in Byte,
           NEW b1 \in Byte, NEW b2 \in Byte, NEW b3 \in Byte, NEW b4 \in Byte,
           NEW b5 \in Byte, NEW b6 \in Byte, NEW b7 \in Byte,
           Sum7(a1, a2, a3, a4, a5, a6, a7) < Sum7(b1, b2, b3, b4, b5, b6, b7)
    PROVE  Lower7(a1, a2, a3, a4, a5, a6, a7, b1, b2, b3, b4, b5, b6, b7)
BY SMT DEF Byte, Sum32, Sum7, Lower7

\* Slice::Compare returns 0 for equal strings only.
LEMMA CompareEqual ==
    ASSUME NEW a \in Seq(Byte), NEW b \in Seq(Byte)
    PROVE  SliceCompare(a, b) = 0 <=> a = b
<1>1. CASE \E p : DifferAt(a, b, p)
  <2>1. PICK p : DifferAt(a, b, p)
    BY Zenon, <1>1
  <2>2. SliceCompare(a, b) = (IF a[p] < b[p] THEN -1 ELSE 1)
    BY Zenon, <2>1, CompareAtDifference
  <2>3. a[p] # b[p]
    BY Zenon, <2>1 DEF DifferAt
  <2>4. -1 # 0 /\ 1 # 0
    OBVIOUS
  <2> QED BY Zenon, <2>2, <2>3, <2>4
<1>2. CASE \A i \in DOMAIN a \cap DOMAIN b : a[i] = b[i]
  <2>1. SliceCompare(a, b) =
          (IF Len(a) < Len(b) THEN -1 ELSE IF Len(a) > Len(b) THEN 1 ELSE 0)
    BY Zenon, <1>2, CompareAgreeing
  <2>2. Len(a) \in Nat /\ Len(b) \in Nat /\ DOMAIN a = 1..Len(a) /\ DOMAIN b = 1..Len(b)
    OBVIOUS
  <2>3. SliceCompare(a, b) = 0 <=> Len(a) = Len(b)
    <3>1. \A x, y \in Nat : (IF x < y THEN -1 ELSE IF x > y THEN 1 ELSE 0) = 0 <=> x = y
      OBVIOUS
    <3> QED BY Zenon, <2>1, <2>2, <3>1
  <2>4. ASSUME Len(a) = Len(b) PROVE a = b
    <3>1. \A i \in 1..Len(a) : a[i] = b[i]
      BY Zenon, <1>2, <2>2, <2>4
    <3> QED BY Zenon, <2>4, <3>1, SameSequence
  <2> QED BY Zenon, <2>3, <2>4
<1> QED BY Zenon, <1>1, <1>2, DifferOrAgree

-----------------------------------------------------------------------------
(* The order of numbers, and keys taken apart *)

\* memcmp on the numbers of two tags orders them as numbers.
LEMMA NumbersOrdered ==
    ASSUME NEW n, NEW k, Fits56(n), Fits56(k), n < k
    PROVE  SliceCompare(NumberBytes(n), NumberBytes(k)) = -1
<1> DEFINE a == NumberBytes(n)
           b == NumberBytes(k)
<1>1. /\ a \in Seq(Byte) /\ Len(a) = 7 /\ DOMAIN a = 1..7
      /\ b \in Seq(Byte) /\ Len(b) = 7 /\ DOMAIN b = 1..7
  BY Zenon, NumberBytesAre
<1>2. NumberSum(a) < NumberSum(b)
  BY Zenon, NumberIsSum
<1> HIDE DEF a, b
<1>3. /\ a[1] \in Byte /\ a[2] \in Byte /\ a[3] \in Byte /\ a[4] \in Byte
      /\ a[5] \in Byte /\ a[6] \in Byte /\ a[7] \in Byte
      /\ b[1] \in Byte /\ b[2] \in Byte /\ b[3] \in Byte /\ b[4] \in Byte
      /\ b[5] \in Byte /\ b[6] \in Byte /\ b[7] \in Byte
  <2>1. \A i \in 1..7 : a[i] \in Byte /\ b[i] \in Byte
    BY Zenon, <1>1, ElementTyped
  <2>2. /\ 1 \in 1..7 /\ 2 \in 1..7 /\ 3 \in 1..7 /\ 4 \in 1..7 /\ 5 \in 1..7
        /\ 6 \in 1..7 /\ 7 \in 1..7
    OBVIOUS
  <2> QED BY Zenon, <2>1, <2>2
<1>4. Lower7(a[1], a[2], a[3], a[4], a[5], a[6], a[7], b[1], b[2], b[3], b[4], b[5], b[6], b[7])
  <2>1. Sum7(a[1], a[2], a[3], a[4], a[5], a[6], a[7])
          < Sum7(b[1], b[2], b[3], b[4], b[5], b[6], b[7])
    BY SMT, <1>2 DEF NumberSum, Sum7
  <2> QED BY Zenon, <1>3, <2>1, SumOrdered
<1>5. \E p \in 1..7 : a[p] < b[p] /\ \A i \in 1..(p - 1) : a[i] = b[i]
  <2>1. CASE a[1] < b[1]
    BY <2>1
  <2>2. CASE a[1] = b[1] /\ a[2] < b[2]
    BY <2>2
  <2>3. CASE a[1] = b[1] /\ a[2] = b[2] /\ a[3] < b[3]
    BY <2>3
  <2>4. CASE a[1] = b[1] /\ a[2] = b[2] /\ a[3] = b[3] /\ a[4] < b[4]
    BY <2>4
  <2>5. CASE a[1] = b[1] /\ a[2] = b[2] /\ a[3] = b[3] /\ a[4] = b[4] /\ a[5] < b[5]
    BY <2>5
  <2>6. CASE a[1] = b[1] /\ a[2] = b[2] /\ a[3] = b[3] /\ a[4] = b[4] /\ a[5] = b[5] /\ a[6] < b[6]
    BY <2>6
  <2>7. CASE a[1] = b[1] /\ a[2] = b[2] /\ a[3] = b[3] /\ a[4] = b[4] /\ a[5] = b[5] /\ a[6] = b[6]
             /\ a[7] < b[7]
    BY <2>7
  <2> QED BY Zenon, <1>4, <2>1, <2>2, <2>3, <2>4, <2>5, <2>6, <2>7 DEF Lower7
<1>6. PICK p \in 1..7 : a[p] < b[p] /\ \A i \in 1..(p - 1) : a[i] = b[i]
  BY Zenon, <1>5
<1>7. a[p] # b[p]
  <2>1. a[p] \in Byte /\ b[p] \in Byte
    BY Zenon, <1>1, ElementTyped
  <2> QED BY <2>1, <1>6 DEF Byte
<1>8. DifferAt(a, b, p)
  BY Zenon, <1>1, <1>6, <1>7 DEF DifferAt, Agree
<1>9. SliceCompare(a, b) = -1
  BY Zenon, <1>1, <1>6, <1>8, CompareAtDifference
<1> QED BY Zenon, <1>9 DEF a, b

\* No number is above that of the lookup tag.
LEMMA SeekIsHighest ==
    ASSUME NEW n, Fits56(n)
    PROVE  SliceCompare([i \in 1..7 |-> 255], NumberBytes(n)) # -1
<1> DEFINE a == [i \in 1..7 |-> 255]
           b == NumberBytes(n)
<1>1. b \in Seq(Byte) /\ Len(b) = 7 /\ DOMAIN b = 1..7
  BY Zenon, NumberBytesAre
<1>2. a \in Seq(Byte) /\ Len(a) = 7
  BY DEF Byte
<1>5. \A i \in DOMAIN a : a[i] = 255
  BY Zenon
<1> HIDE DEF a, b
<1>3. CASE \E p : DifferAt(a, b, p)
  <2>1. PICK p : DifferAt(a, b, p)
    BY Zenon, <1>3
  <2>2. SliceCompare(a, b) = IF a[p] < b[p] THEN -1 ELSE 1
    BY Zenon, <1>1, <1>2, <2>1, CompareAtDifference
  <2>3. p \in DOMAIN a /\ p \in DOMAIN b
    BY Zenon, <2>1 DEF DifferAt
  <2>4. ~(a[p] < b[p])
    <3>1. b[p] \in Byte
      BY Zenon, <1>1, <2>3, ElementTyped
    <3>2. a[p] = 255
      BY <1>5, <2>3
    <3> QED BY <3>1, <3>2 DEF Byte
  <2> QED BY <2>2, <2>4 DEF a, b
<1>4. CASE \A i \in DOMAIN a \cap DOMAIN b : a[i] = b[i]
  <2>1. SliceCompare(a, b) =
          IF Len(a) < Len(b) THEN -1 ELSE IF Len(a) > Len(b) THEN 1 ELSE 0
    BY Zenon, <1>1, <1>2, <1>4, CompareAgreeing
  <2>2. SliceCompare(a, b) = 0
    BY <1>1, <1>2, <2>1
  <2> QED BY <2>2 DEF a, b
<1> QED BY Zenon, <1>1, <1>2, <1>3, <1>4, DifferOrAgree

\* A C string consists of bytes.
LEMMA CStringFacts ==
    ASSUME NEW s \in Seq(Byte)
    PROVE  CString(s) \in Seq(Byte)
<1> DEFINE zeros == {i \in DOMAIN s : s[i] = 0}
<1>1. CASE zeros = {}
  BY Zenon, <1>1 DEF CString
<1>2. CASE zeros # {}
  <2>1. CString(s) = SubSeq(s, 1, Min(zeros) - 1)
    BY Zenon, <1>2 DEF CString
  <2>2. zeros \in SUBSET Nat
    OBVIOUS
  <2>3. Min(zeros) \in zeros
    <3> HIDE DEF zeros
    <3> QED BY Zenon, <1>2, <2>2, MinIsLeast
  <2>4. Min(zeros) \in 1..Len(s)
    BY <2>3
  <2> DEFINE z == Min(zeros)
  <2>5. z - 1 \in 0..Len(s)
    <3>1. z \in 1..Len(s) BY Zenon, <2>4
    <3> HIDE DEF z
    <3> QED BY <3>1
  <2>6. CString(s) = SubSeq(s, 1, z - 1)
    BY Zenon, <2>1
  <2> HIDE DEF z, zeros
  <2>7. SubSeq(s, 1, z - 1) \in Seq(Byte)
    BY <2>5
  <2> QED BY Zenon, <2>6, <2>7
<1> QED BY Zenon, <1>1, <1>2

\* The eight bytes of a tag.
IsTag(tag) == tag \in Seq(Byte) /\ Len(tag) = 8

\* What is taken out of an internal key.
KeyParts(k, u, number) == k \in Seq(Byte) /\ UserKey(k) = u /\ Number(k) = number

\* An internal key comes apart in the user key and the tag.
LEMMA KeyReads ==
    ASSUME NEW u \in Seq(Byte), NEW tag, IsTag(tag)
    PROVE  KeyParts(u \o tag, u, [i \in 1..7 |-> tag[9 - i]])
<1> DEFINE k == u \o tag
           L == Len(u)
<1>1. tag \in Seq(Byte) /\ Len(tag) = 8
  BY Zenon DEF IsTag
<1>2. Joined(Byte, u, tag) /\ Parted(u, tag)
  BY Zenon, <1>1, JoinFacts, JoinParts
<1>3. /\ k \in Seq(Byte) /\ Len(k) = L + 8 /\ L \in Nat
      /\ \A j \in 1..8 : k[L + j] = tag[j]
  BY Zenon, <1>1, <1>2 DEF Joined
<1>4. SubSeq(k, 1, L) = u
  BY Zenon, <1>2 DEF Parted
<1> HIDE DEF k, L
<1>5. Len(k) - 8 = L /\ 8 - 1 = 7
  BY <1>3
<1>6. UserKey(k) = u
  BY Zenon, <1>4, <1>5 DEF UserKey, kTagSize
<1>7. ASSUME NEW i \in 1..7 PROVE k[Len(k) + 1 - i] = tag[9 - i]
  <2>1. 9 - i \in 1..8 /\ Len(k) + 1 - i = L + (9 - i)
    BY <1>3
  <2> QED BY Zenon, <2>1, <1>3
<1>8. Number(k) = [i \in 1..7 |-> k[Len(k) + 1 - i]]
  BY Zenon, <1>5 DEF Number, kTagSize
<1>9. Number(k) = [i \in 1..7 |-> tag[9 - i]]
  BY Zenon, <1>7, <1>8
<1> QED BY Zenon, <1>3, <1>6, <1>9 DEF KeyParts, k

\* What is taken out of a memtable key.
Extracts(m, k, value) == ExtractInternalKey(m) = k /\ ExtractValue(m) = value

\* A memtable key comes apart in the internal key and the value.
LEMMA MemtableKeyReads ==
    ASSUME NEW u \in Seq(Byte), NEW tag, IsTag(tag), NEW value \in Seq(Byte)
    PROVE  Extracts(CreateMemtableKey(u, tag, value), u \o tag, value)
<1> DEFINE k == u \o tag
           v == PutLengthPrefixedSlice(value)
           m == CreateMemtableKey(u, tag, value)
<1>1. k \in Seq(Byte)
  BY DEF IsTag
<1>2. v \in Seq(Byte)
  BY Zenon, SliceTyped
<1>3. v \o <<>> = v /\ <<>> \in Seq(Byte)
  <2>1. <<>> \in Seq(Byte)
    OBVIOUS
  <2> QED BY Zenon, <1>2, <2>1, JoinEmpty
<1>4. m = PutLengthPrefixedSlice(k) \o v
  BY Zenon DEF CreateMemtableKey
<1> HIDE DEF k, m
<1>5. GotSlice(m, k, v)
  BY Zenon, <1>1, <1>2, <1>4, SliceReadsBack
<1>6. GotSlice(v, value, <<>>)
  BY Zenon, <1>3, SliceReadsBack
<1> HIDE DEF v
<1>7. ExtractInternalKey(m) = k /\ ExtractValue(m) = value
  BY Zenon, <1>5, <1>6 DEF GotSlice, ExtractInternalKey, ExtractValue
<1> QED BY Zenon, <1>7 DEF Extracts, k, m

-----------------------------------------------------------------------------
(* Memtable keys *)

\* The user key that InsertAll makes of an operation.
KeyOf(op) == CString(op.key)

\* The memtable key that InsertAll makes of it, with the number n.
Entry(op, n) == CreateMemtableKey(KeyOf(op), Tag(n, op.type), Inserted(op))

\* The memtable key m has this user key, number and value.
EntryIs(m, key, number, value) ==
    /\ ExtractInternalKey(m) \in Seq(Byte) /\ UserKey(ExtractInternalKey(m)) = key
    /\ Number(ExtractInternalKey(m)) = number /\ ExtractValue(m) = value

\* InsertAll makes keys and values of bytes.
LEMMA KeyOfTyped ==
    ASSUME NEW op, Op(op)
    PROVE  /\ KeyOf(op) \in Seq(Byte) /\ Inserted(op) \in Seq(Byte)
           /\ op.type \in {kTypeValue, kTypeDeletion}
<1>1. /\ op.key \in Seq(Byte) /\ op.value \in Seq(Byte)
      /\ op.type \in {kTypeValue, kTypeDeletion}
  BY Zenon DEF Op
<1>2. <<32>> \in Seq(Byte)
  BY DEF Byte
<1> QED BY Zenon, <1>1, <1>2, CStringFacts DEF KeyOf, Inserted

\* A memtable key has what InsertAll put in it.
LEMMA EntryReads ==
    ASSUME NEW op, Op(op), NEW n, Fits56(n)
    PROVE  EntryIs(Entry(op, n), KeyOf(op), NumberBytes(n), Inserted(op))
<1> DEFINE u == KeyOf(op)
           tag == Tag(n, op.type)
           m == Entry(op, n)
<1>1. u \in Seq(Byte) /\ Inserted(op) \in Seq(Byte) /\ op.type \in {kTypeValue, kTypeDeletion}
  BY Zenon, KeyOfTyped
<1>2. /\ tag \in Seq(Byte) /\ Len(tag) = 8
      /\ \A i \in 1..7 : tag[9 - i] = NumberBytes(n)[i]
  BY Zenon, <1>1, TagBytes
<1>3. NumberBytes(n) = [i \in 1..7 |-> NumberBytes(n)[i]]
  BY Zenon DEF NumberBytes
<1> HIDE DEF u, tag
<1>4. [i \in 1..7 |-> tag[9 - i]] = NumberBytes(n)
  BY Zenon, <1>2, <1>3
<1>5. IsTag(tag)
  BY Zenon, <1>2 DEF IsTag
<1>6. Extracts(m, u \o tag, Inserted(op))
  BY Zenon, <1>1, <1>5, MemtableKeyReads DEF Entry, u, tag
<1>7. KeyParts(u \o tag, u, NumberBytes(n))
  BY Zenon, <1>1, <1>4, <1>5, KeyReads
<1> HIDE DEF m
<1> QED BY Zenon, <1>6, <1>7 DEF Extracts, KeyParts, EntryIs, u, m

\* The number of the lookup tag.
Seek == [i \in 1..7 |-> 255]

\* The memtable key that DBimpl::Get makes.
LEMMA ProbeReads ==
    ASSUME NEW key \in Seq(Byte)
    PROVE  EntryIs(CreateMemtableKey(key, SeekTag, <<>>), key, Seek, <<>>)
<1> DEFINE m == CreateMemtableKey(key, SeekTag, <<>>)
           ones == [i \in 1..7 |-> 255]
<1>1. SeekTag = <<1>> \o ones
  <2>1. 8 - 1 = 7
    OBVIOUS
  <2> QED BY Zenon, <2>1 DEF SeekTag, kTagSize, kTypeValue
<1>2. ones \in Seq(Byte) /\ Len(ones) = 7 /\ \A i \in 1..7 : ones[i] = 255
  BY DEF Byte
<1>3. 1 \in Byte
  BY DEF Byte
<1>4. ones = Seek
  BY Zenon DEF Seek
<1> HIDE DEF ones
<1>5. /\ SeekTag \in Seq(Byte) /\ Len(SeekTag) = Len(ones) + 1
      /\ \A i \in 1..Len(ones) : SeekTag[i + 1] = ones[i]
  <2>1. ones \in Seq(Byte)
    BY Zenon, <1>2
  <2> QED BY ZenonT(40), <1>1, <1>3, <2>1, PushFacts
<1>6. IsTag(SeekTag)
  <2>1. Len(SeekTag) = 8
    BY <1>2, <1>5
  <2> QED BY Zenon, <1>5, <2>1 DEF IsTag
<1>7. ASSUME NEW i \in 1..7 PROVE SeekTag[9 - i] = Seek[i]
  <2>1. 8 - i \in 1..7 /\ (8 - i) + 1 = 9 - i
    OBVIOUS
  <2>2. SeekTag[(8 - i) + 1] = ones[8 - i]
    BY Zenon, <1>2, <1>5, <2>1
  <2>3. ones[8 - i] = 255 /\ ones[i] = 255
    BY <1>2, <2>1
  <2> QED BY Zenon, <2>1, <2>2, <2>3, <1>4
<1>8. Seek = [i \in 1..7 |-> Seek[i]]
  BY Zenon DEF Seek
<1>9. [i \in 1..7 |-> SeekTag[9 - i]] = Seek
  BY Zenon, <1>7, <1>8
<1>10. <<>> \in Seq(Byte)
  OBVIOUS
<1>11. Extracts(m, key \o SeekTag, <<>>)
  BY Zenon, <1>6, <1>10, MemtableKeyReads
<1>12. KeyParts(key \o SeekTag, key, Seek)
  BY Zenon, <1>6, <1>9, KeyReads
<1> HIDE DEF m
<1> QED BY Zenon, <1>11, <1>12 DEF Extracts, KeyParts, EntryIs, m

\* MemtableKeyCompare in terms of the keys and the numbers.
Compared(m, n, k, l, x, y) ==
    MemtableKeyCompare(m, n) =
        IF SliceCompare(k, l) # 0 THEN SliceCompare(k, l) ELSE SliceCompare(y, x)

\* MemtableKeyCompare compares the user keys, then the numbers the other way.
LEMMA EntryCompare ==
    ASSUME NEW m, NEW k, NEW x, NEW v, EntryIs(m, k, x, v),
           NEW n, NEW l, NEW y, NEW w, EntryIs(n, l, y, w)
    PROVE  Compared(m, n, k, l, x, y)
BY Zenon DEF Compared, EntryIs, MemtableKeyCompare, InternalKeyCompare

-----------------------------------------------------------------------------
(* Memtable::Get on the operations that were written *)

\* Every nonempty set of numbers up to n has a greatest one,
LEMMA GreatestNumber ==
    ASSUME NEW n \in Nat, NEW S \in SUBSET (1..n), S # {}
    PROVE  \E x \in S : \A y \in S : y <= x
<1> DEFINE T == {d \in Nat : \E x \in S : d = n - x}
<1>1. T \in SUBSET Nat
  BY Zenon
<1>2. T # {}
  <2>1. PICK x \in S : TRUE
    BY Zenon
  <2>2. n - x \in Nat
    OBVIOUS
  <2> QED BY Zenon, <2>2
<1>3. PICK d \in T : \A e \in T : d <= e
  <2> HIDE DEF T
  <2> QED BY Zenon, <1>1, <1>2, LeastNumber
<1>4. PICK x \in S : d = n - x
  BY Zenon, <1>3
<1>5. ASSUME NEW y \in S PROVE y <= x
  <2>1. n - y \in Nat
    OBVIOUS
  <2>2. d <= n - y
    BY Zenon, <1>3, <2>1
  <2> QED BY <1>4, <2>2
<1> QED BY Zenon, <1>5

\* which is its Max.
LEMMA MaxIsGreatest ==
    ASSUME NEW n \in Nat, NEW S \in SUBSET (1..n), S # {}
    PROVE  Max(S) \in S /\ \A y \in S : y <= Max(S)
<1>1. PICK x \in S : \A y \in S : y <= x
  BY Zenon, GreatestNumber
<1>2. \A y \in S : x >= y
  BY Zenon, <1>1
<1>3. Max(S) \in S /\ \A y \in S : Max(S) >= y
  BY Zenon, <1>2 DEF Max
<1> DEFINE m == Max(S)
<1>4. m \in 1..n
  BY Zenon, <1>3
<1> HIDE DEF m
<1>5. \A y \in S : y <= m
  BY Zenon, <1>3, <1>4 DEF m
<1> QED BY Zenon, <1>3, <1>5 DEF m

\* A number below one of 56 bits has 56 bits.
LEMMA Fits56Below ==
    ASSUME NEW n, Fits56(n), NEW k \in Nat, k <= n
    PROVE  Fits56(k)
BY SMT DEF Fits56

\* Operation i is the last one on its key.
IsLast(log, i) == \A j \in 1..Len(log) : KeyOf(log[j]) = KeyOf(log[i]) => j <= i

\* The user keys of the operations.
LogKeys(log) == {KeyOf(log[i]) : i \in 1..Len(log)}

\* What InsertAll has inserted: the first operation has the number 2.
Entries(log) == {Entry(log[i], i + 1) : i \in 1..Len(log)}

\* log is every operation that was ever written: the memtable mt holds its
\* entries and last is the last number.
LogOf(log, mt, last) ==
    /\ AreOps(log) /\ Fits56(last) /\ last = Len(log) + 1
    /\ mt = Entries(log)

\* What holds of one operation of the log.
LEMMA LogFacts ==
    ASSUME NEW log, NEW mt, NEW last, LogOf(log, mt, last), NEW i \in 1..Len(log)
    PROVE  /\ Op(log[i]) /\ Fits56(i + 1) /\ KeyOf(log[i]) \in Seq(Byte)
           /\ EntryIs(Entry(log[i], i + 1), KeyOf(log[i]), NumberBytes(i + 1), Inserted(log[i]))
<1>1. Op(log[i]) /\ Len(log) \in Nat /\ last = Len(log) + 1 /\ Fits56(last)
  BY Zenon DEF LogOf, AreOps
<1>2. i + 1 \in Nat /\ i + 1 <= last
  BY <1>1
<1>3. Fits56(i + 1)
  BY Zenon, <1>1, <1>2, Fits56Below
<1> QED BY Zenon, <1>1, <1>3, EntryReads, KeyOfTyped

\* What Get does with the entries of a log, for a key that was written.
Precedes(m, n) == MemtableKeyCompare(m, n) = -1 /\ MemtableKeyCompare(n, m) = 1

\* Of the entries of one key the last written comes first in the skip list, and
\* after no entry that a lookup would see.
LEMMA NewestIsFirst ==
    ASSUME NEW log, NEW mt, NEW last, LogOf(log, mt, last), NEW i \in 1..Len(log),
           IsLast(log, i), NEW j \in 1..Len(log), j # i,
           MemtableKeyCompare(Entry(log[j], j + 1),
                              CreateMemtableKey(KeyOf(log[i]), SeekTag, <<>>)) # -1
    PROVE  Precedes(Entry(log[i], i + 1), Entry(log[j], j + 1))
<1> DEFINE k == KeyOf(log[i])
           l == KeyOf(log[j])
           x == NumberBytes(i + 1)
           y == NumberBytes(j + 1)
           e == Entry(log[i], i + 1)
           d == Entry(log[j], j + 1)
           probe == CreateMemtableKey(k, SeekTag, <<>>)
<1>1. /\ Fits56(i + 1) /\ k \in Seq(Byte) /\ EntryIs(e, k, x, Inserted(log[i]))
      /\ Fits56(j + 1) /\ l \in Seq(Byte) /\ EntryIs(d, l, y, Inserted(log[j]))
  BY Zenon, LogFacts
<1>2. EntryIs(probe, k, Seek, <<>>)
  BY Zenon, <1>1, ProbeReads
<1>3. MemtableKeyCompare(d, probe) # -1
  BY Zenon
<1>4. l = k => j <= i
  BY Zenon DEF IsLast
<1>5. Len(log) \in Nat
  BY Zenon DEF LogOf, AreOps
<1>6. x \in Seq(Byte) /\ y \in Seq(Byte)
  BY Zenon, <1>1, NumberBytesAre
<1> HIDE DEF k, l, x, y, e, d, probe
<1>7. Compared(e, d, k, l, x, y) /\ Compared(d, e, l, k, y, x) /\ Compared(d, probe, l, k, y, Seek)
  BY Zenon, <1>1, <1>2, EntryCompare
<1>8. CASE l = k
  <2>1. j + 1 < i + 1
    BY <1>4, <1>5, <1>8
  <2>2. SliceCompare(y, x) = -1
    BY Zenon, <1>1, <2>1, NumbersOrdered DEF x, y
  <2>3. SliceCompare(x, y) = 1
    BY Zenon, <1>6, <2>2, CompareSwapped
  <2>4. SliceCompare(k, l) = 0 /\ SliceCompare(l, k) = 0
    BY Zenon, <1>1, <1>8, CompareEqual
  <2> QED BY Zenon, <1>7, <2>2, <2>3, <2>4 DEF Compared, Precedes, e, d
<1>9. CASE l # k
  <2>1. SliceCompare(l, k) # 0
    BY Zenon, <1>1, <1>9, CompareEqual
  <2>2. SliceCompare(l, k) # -1
    BY Zenon, <1>3, <1>7, <2>1 DEF Compared
  <2>3. SliceCompare(l, k) \in {-1, 0, 1}
    BY Zenon, <1>1, CompareSwapped
  <2>4. SliceCompare(l, k) = 1
    BY Zenon, <2>1, <2>2, <2>3
  <2>5. SliceCompare(k, l) = -1
    BY Zenon, <1>1, <2>4, CompareSwapped
  <2>6. -1 # 0 /\ 1 # 0
    OBVIOUS
  <2> QED BY Zenon, <1>7, <2>4, <2>5, <2>6 DEF Compared, Precedes, e, d
<1> QED BY Zenon, <1>8, <1>9

\* A lookup sees every entry of its key.
LEMMA NewestIsSeen ==
    ASSUME NEW log, NEW mt, NEW last, LogOf(log, mt, last), NEW i \in 1..Len(log)
    PROVE  MemtableKeyCompare(Entry(log[i], i + 1),
                              CreateMemtableKey(KeyOf(log[i]), SeekTag, <<>>)) # -1
<1> DEFINE k == KeyOf(log[i])
           x == NumberBytes(i + 1)
           e == Entry(log[i], i + 1)
           probe == CreateMemtableKey(k, SeekTag, <<>>)
<1>1. Fits56(i + 1) /\ k \in Seq(Byte) /\ EntryIs(e, k, x, Inserted(log[i]))
  BY Zenon, LogFacts
<1>2. EntryIs(probe, k, Seek, <<>>)
  BY Zenon, <1>1, ProbeReads
<1>3. SliceCompare(Seek, x) # -1
  BY Zenon, <1>1, SeekIsHighest DEF Seek
<1> HIDE DEF k, x, e, probe
<1>4. SliceCompare(k, k) = 0
  BY Zenon, <1>1, CompareEqual
<1>5. Compared(e, probe, k, k, x, Seek)
  BY Zenon, <1>1, <1>2, EntryCompare
<1> QED BY Zenon, <1>3, <1>4, <1>5 DEF Compared, e, probe, k

\* Get finds the last operation on a key, and nothing if there was none.
LEMMA GetReads ==
    ASSUME NEW log, LogOf(log, memtable, last_sequence_), NEW key \in Seq(Byte)
    PROVE  /\ key \notin LogKeys(log) => Get(key) = NotFound
           /\ \A i \in 1..Len(log) :
                 KeyOf(log[i]) = key /\ IsLast(log, i) => Get(key) = Inserted(log[i])
<1> DEFINE n == Len(log)
           probe == CreateMemtableKey(key, SeekTag, <<>>)
           rest == {m \in memtable : MemtableKeyCompare(m, probe) # -1}
           first == {m \in rest : \A o \in rest : MemtableKeyCompare(m, o) # 1}
<1>1. n \in Nat /\ memtable = Entries(log)
  BY Zenon DEF LogOf, AreOps
<1>2. Get(key) = IF \E m \in first : UserKey(ExtractInternalKey(m)) = key
                 THEN ExtractValue(CHOOSE m \in first : TRUE) ELSE NotFound
  BY Zenon DEF Get
<1>3. ASSUME NEW i \in 1..n, KeyOf(log[i]) = key, IsLast(log, i)
      PROVE  Get(key) = Inserted(log[i])
  <2> DEFINE e == Entry(log[i], i + 1)
  <2>2. i \in 1..n /\ KeyOf(log[i]) = key /\ IsLast(log, i)
    BY Zenon, <1>3
  <2>3. e \in rest
    BY Zenon, <2>2, <1>1, NewestIsSeen DEF Entries
  <2>4. ASSUME NEW o \in rest, o # e PROVE Precedes(e, o)
    <3>1. PICK j \in 1..n : o = Entry(log[j], j + 1)
      BY Zenon, <1>1 DEF Entries
    <3>2. j # i
      BY Zenon, <2>4, <3>1
    <3> QED BY Zenon, <3>1, <3>2, <2>2, <2>4, NewestIsFirst
  <2>5. MemtableKeyCompare(e, e) # 1
    <3>1. Fits56(i + 1) /\ EntryIs(e, key, NumberBytes(i + 1), Inserted(log[i]))
      BY Zenon, <2>2, LogFacts
    <3>2. NumberBytes(i + 1) \in Seq(Byte)
      BY Zenon, <3>1, NumberBytesAre
    <3> DEFINE x == NumberBytes(i + 1)
    <3> HIDE DEF x, e
    <3>3. Compared(e, e, key, key, x, x)
      BY Zenon, <3>1, EntryCompare DEF x
    <3>4. SliceCompare(key, key) = 0 /\ SliceCompare(x, x) = 0
      BY Zenon, <3>2, CompareEqual DEF x
    <3>5. 0 # 1
      OBVIOUS
    <3> QED BY Zenon, <3>3, <3>4, <3>5 DEF Compared
  <2> HIDE DEF e, rest
  <2>6. -1 # 1
    OBVIOUS
  <2>7. e \in first
    BY Zenon, <2>3, <2>4, <2>5, <2>6 DEF Precedes
  <2>8. \A m \in first : m = e
    BY Zenon, <2>3, <2>4 DEF Precedes
  <2> HIDE DEF first
  <2>9. (CHOOSE m \in first : TRUE) = e
    BY Zenon, <2>7, <2>8
  <2>10. /\ UserKey(ExtractInternalKey(e)) = key /\ ExtractValue(e) = Inserted(log[i])
    BY Zenon, <2>2, LogFacts DEF EntryIs, e
  <2> QED BY Zenon, <1>2, <2>7, <2>9, <2>10
<1>4. ASSUME key \notin LogKeys(log) PROVE Get(key) = NotFound
  <2>1. ASSUME NEW m \in first PROVE UserKey(ExtractInternalKey(m)) # key
    <3>1. PICK j \in 1..n : m = Entry(log[j], j + 1)
      BY Zenon, <1>1 DEF Entries
    <3>2. UserKey(ExtractInternalKey(m)) = KeyOf(log[j])
      BY Zenon, <3>1, LogFacts DEF EntryIs
    <3> QED BY Zenon, <3>1, <3>2, <1>1, <1>4 DEF LogKeys
  <2> QED BY Zenon, <1>2, <2>1
<1> QED BY Zenon, <1>3, <1>4

-----------------------------------------------------------------------------
(* The numbers that were given *)

\* The number of a tag.
LEMMA TagNumber ==
    ASSUME NEW n, Fits56(n), NEW t \in {kTypeValue, kTypeDeletion}
    PROVE  Number(Tag(n, t)) = NumberBytes(n)
<1> DEFINE tag == Tag(n, t)
<1>1. /\ tag \in Seq(Byte) /\ Len(tag) = 8
      /\ \A i \in 1..7 : tag[9 - i] = NumberBytes(n)[i]
  BY Zenon, TagBytes
<1>2. NumberBytes(n) = [i \in 1..7 |-> NumberBytes(n)[i]]
  BY Zenon DEF NumberBytes
<1> HIDE DEF tag
<1>3. [i \in 1..7 |-> tag[9 - i]] = NumberBytes(n)
  BY Zenon, <1>1, <1>2
<1>4. <<>> \in Seq(Byte) /\ IsTag(tag)
  <2>1. <<>> \in Seq(Byte)
    OBVIOUS
  <2> QED BY Zenon, <1>1, <2>1 DEF IsTag
<1>5. <<>> \o tag = tag
  BY Zenon, <1>1, JoinEmpty
<1>6. KeyParts(<<>> \o tag, <<>>, NumberBytes(n))
  BY Zenon, <1>3, <1>4, KeyReads
<1> QED BY Zenon, <1>5, <1>6 DEF KeyParts, tag

\* The entries of the log have the numbers 2 to last, one each.
LEMMA NumbersRead ==
    ASSUME NEW log, LogOf(log, memtable, last_sequence_)
    PROVE  NumbersExact
<1> DEFINE n == Len(log)
           f == [i \in 1..n |-> Entry(log[i], i + 1)]
<1>1. /\ n \in Nat /\ memtable = Entries(log) /\ last_sequence_ = n + 1
  BY Zenon DEF LogOf, AreOps
<1>2. ASSUME NEW i \in 1..n
      PROVE  Number(ExtractInternalKey(Entry(log[i], i + 1))) = NumberBytes(i + 1) /\ Fits56(i + 1)
  BY Zenon, LogFacts DEF EntryIs
<1>3. ASSUME NEW i \in 1..n, NEW j \in 1..n, f[i] = f[j] PROVE i = j
  <2>1. NumberBytes(i + 1) = NumberBytes(j + 1)
    BY Zenon, <1>2, <1>3
  <2>2. NumberSum(NumberBytes(i + 1)) = i + 1 /\ NumberSum(NumberBytes(j + 1)) = j + 1
    BY Zenon, <1>2, NumberIsSum
  <2>3. i + 1 = j + 1
    BY Zenon, <2>1, <2>2
  <2> QED BY <1>1, <2>3
<1>4. f \in [1..n -> memtable] /\ \A m \in memtable : \E i \in 1..n : f[i] = m
  BY Zenon, <1>1 DEF Entries
<1>5. Cardinality(memtable) = n
  <2> HIDE DEF f, n
  <2>1. f \in Injection(1..n, memtable)
    BY Zenon, <1>3, <1>4 DEF Injection, IsInjective
  <2>2. f \in Surjection(1..n, memtable)
    BY Zenon, <1>4 DEF Surjection
  <2>3. ExistsBijection(1..n, memtable)
    BY Zenon, <2>1, <2>2 DEF ExistsBijection, Bijection
  <2> QED BY Zenon, <1>1, <2>3, FS_CountingElements
<1>6. last_sequence_ - 1 = n
  BY <1>1
<1>7. kTypeValue \in {kTypeValue, kTypeDeletion}
  BY Zenon
<1>8. {Number(ExtractInternalKey(m)) : m \in memtable} =
        {Number(Tag(k, kTypeValue)) : k \in 2..last_sequence_}
  <2>1. ASSUME NEW m \in memtable
        PROVE  \E k \in 2..last_sequence_ :
                  Number(ExtractInternalKey(m)) = Number(Tag(k, kTypeValue))
    <3>1. PICK i \in 1..n : m = Entry(log[i], i + 1)
      BY Zenon, <1>1 DEF Entries
    <3>2. i + 1 \in 2..last_sequence_
      BY <1>1
    <3> QED BY Zenon, <3>1, <3>2, <1>2, <1>7, TagNumber
  <2>2. ASSUME NEW k \in 2..last_sequence_
        PROVE  \E m \in memtable :
                  Number(ExtractInternalKey(m)) = Number(Tag(k, kTypeValue))
    <3>1. k - 1 \in 1..n /\ (k - 1) + 1 = k
      BY <1>1
    <3>2. Entry(log[k - 1], (k - 1) + 1) \in memtable
      BY Zenon, <1>1, <3>1 DEF Entries
    <3>3. Number(ExtractInternalKey(Entry(log[k - 1], (k - 1) + 1))) = NumberBytes(k) /\ Fits56(k)
      BY Zenon, <1>2, <3>1
    <3> QED BY Zenon, <3>2, <3>3, <1>7, TagNumber
  <2> QED BY Zenon, <2>1, <2>2
<1> QED BY Zenon, <1>5, <1>6, <1>8 DEF NumbersExact

-----------------------------------------------------------------------------
(* A batch that is written after others *)

\* The rows of operations log and a, one after the other.
JoinedLog(new, log, a) ==
    /\ AreOps(new) /\ Len(new) = Len(log) + Len(a)
    /\ \A i \in 1..Len(log) : new[i] = log[i]
    /\ \A i \in 1..Len(a) : new[Len(log) + i] = a[i]

\* The log grows by the operations of a batch.
LEMMA LogJoins ==
    ASSUME NEW log, NEW a, AreOps(log), AreOps(a)
    PROVE  JoinedLog(log \o a, log, a)
<1> DEFINE n == Len(log)
           m == Len(a)
           new == log \o a
<1>1. /\ n \in Nat /\ m \in Nat
      /\ \A i \in 1..n : Op(log[i])
      /\ \A i \in 1..m : Op(a[i])
  BY Zenon DEF AreOps
<1>2. /\ Len(new) = n + m
      /\ new = [i \in 1..(n + m) |-> IF i <= n THEN log[i] ELSE a[i - n]]
  BY Zenon, ConcatenatedIs DEF Concatenated
<1> HIDE DEF n, m, new
<1>3. \A i \in 1..(n + m) : new[i] = IF i <= n THEN log[i] ELSE a[i - n]
  BY Zenon, <1>2
<1>4. /\ n + m \in Nat
      /\ \A i \in 1..(n + m) : (i <= n => i \in 1..n) /\ (~(i <= n) => i - n \in 1..m)
      /\ \A i \in 1..n : i \in 1..(n + m) /\ i <= n
      /\ \A i \in 1..m : n + i \in 1..(n + m) /\ ~(n + i <= n) /\ (n + i) - n = i
  BY <1>1
<1>5. new = [i \in 1..(n + m) |-> new[i]]
  BY Zenon, <1>2, <1>3
<1>6. \A i \in 1..(n + m) : Op(new[i])
  BY Zenon, <1>1, <1>3, <1>4
<1>7. AreOps(new)
  BY Zenon, <1>2, <1>4, <1>5, <1>6 DEF AreOps
<1>8. \A i \in 1..n : new[i] = log[i]
  BY Zenon, <1>3, <1>4
<1>9. \A i \in 1..m : new[n + i] = a[i]
  BY Zenon, <1>3, <1>4
<1> QED BY Zenon, <1>2, <1>7, <1>8, <1>9 DEF JoinedLog, n, m, new

\* The memtable after that.
EntriesJoined(new, log, a, last) ==
    Entries(new) = Entries(log) \cup {Entry(a[i], last + i) : i \in 1..Len(a)}

\* InsertAll numbers the operations of a batch from where the log ends.
LEMMA EntriesJoin ==
    ASSUME NEW new, NEW log, NEW a, JoinedLog(new, log, a), Len(log) \in Nat, Len(a) \in Nat,
           NEW last, last = Len(log) + 1
    PROVE  EntriesJoined(new, log, a, last)
<1> DEFINE n == Len(log)
           m == Len(a)
           more == {Entry(a[i], last + i) : i \in 1..m}
<1>1. /\ Len(new) = n + m /\ n \in Nat /\ m \in Nat /\ last = n + 1
      /\ \A i \in 1..n : new[i] = log[i]
      /\ \A i \in 1..m : new[n + i] = a[i]
  BY Zenon DEF JoinedLog
<1>2. /\ \A i \in 1..n : i \in 1..(n + m)
      /\ \A i \in 1..m : n + i \in 1..(n + m) /\ (n + i) + 1 = last + i
      /\ \A i \in 1..(n + m) : i \in 1..n \/ (i - n \in 1..m /\ n + (i - n) = i)
  <2> HIDE DEF n, m
  <2> QED BY <1>1
<1>3. ASSUME NEW x \in Entries(new) PROVE x \in Entries(log) \cup more
  <2>1. PICK i \in 1..(n + m) : x = Entry(new[i], i + 1)
    BY Zenon, <1>1 DEF Entries
  <2>2. CASE i \in 1..n
    BY Zenon, <2>1, <2>2, <1>1 DEF Entries
  <2>3. CASE i - n \in 1..m /\ n + (i - n) = i
    <3>1. new[i] = a[i - n] /\ i + 1 = last + (i - n)
      BY Zenon, <2>3, <1>1, <1>2
    <3> QED BY Zenon, <2>1, <2>3, <3>1
  <2> QED BY Zenon, <2>2, <2>3, <1>2
<1>4. ASSUME NEW x \in Entries(log) \cup more PROVE x \in Entries(new)
  <2>1. CASE x \in Entries(log)
    BY Zenon, <2>1, <1>1, <1>2 DEF Entries
  <2>2. CASE x \in more
    BY Zenon, <2>2, <1>1, <1>2 DEF Entries
  <2> QED BY Zenon, <2>1, <2>2
<1> QED BY Zenon, <1>3, <1>4 DEF EntriesJoined

-----------------------------------------------------------------------------
(* Put, Delete, Clear and Append *)

\* What the operations and the bytes of a batch are.
LEMMA BatchOps ==
    ASSUME NEW r, NEW ops, Batched(r, ops)
    PROVE  /\ AreOps(ops) /\ Len(ops) \in Nat /\ Fits32(Len(ops))
           /\ Operations(r) \in Seq(Byte)
<1>1. PICK h, s : Written(r, h, s, ops)
  BY Zenon DEF Batched
<1>2. /\ IsHead(h) /\ s \in Seq(Byte) /\ Len(ops) \in Nat /\ Fits32(Len(ops))
      /\ r = RepOf(h, Len(ops), s) /\ AreOps(ops)
  BY Zenon, <1>1 DEF Written, Batched, Holds, AreOps
<1>3. Operations(r) = s
  BY Zenon, <1>2, RepReads DEF RepParts
<1> QED BY Zenon, <1>2, <1>3

\* One batch is changed, the others are left alone.
LEMMA OneBatchChanged ==
    ASSUME BatchInv, NEW b \in Batches, NEW r, NEW ops, Batched(r, ops)
    PROVE  BatchesOf([rep_ EXCEPT ![b] = r], [calls EXCEPT ![b] = ops])
<1> DEFINE R == [rep_ EXCEPT ![b] = r]
           C == [calls EXCEPT ![b] = ops]
<1>1. DOMAIN rep_ = Batches /\ DOMAIN calls = Batches
  BY Zenon DEF BatchInv, BatchesOf
<1>2. /\ R = [c \in Batches |-> IF c = b THEN r ELSE rep_[c]]
      /\ C = [c \in Batches |-> IF c = b THEN ops ELSE calls[c]]
  BY Zenon, <1>1
<1> HIDE DEF R, C
<1>3. \A c \in Batches : /\ R[c] = (IF c = b THEN r ELSE rep_[c])
                          /\ C[c] = (IF c = b THEN ops ELSE calls[c])
  BY Zenon, <1>2
<1>4. R = [c \in Batches |-> R[c]] /\ C = [c \in Batches |-> C[c]]
  BY Zenon, <1>2
<1>5. \A c \in Batches : Batched(R[c], C[c])
  BY Zenon, <1>3 DEF BatchInv, BatchesOf
<1>6. BatchesOf(R, C)
  BY Zenon, <1>4, <1>5 DEF BatchesOf
<1> QED BY Zenon, <1>6 DEF R, C

\* One more operation, as Put and Delete write it.
LEMMA OpAppended ==
    ASSUME NEW r, NEW ops, Batched(r, ops), NEW op, Op(op), Fits32(Len(ops) + 1)
    PROVE  Batched(SetCount(r, Count(r) + 1) \o EncodeOp(op), Append(ops, op))
<1>1. AreOps(ops) /\ Len(ops) \in Nat /\ Count(r) = Len(ops)
  BY Zenon, BatchOps, BatchedReads
<1>2. EncodeOp(op) \in Seq(Byte) /\ Holds(EncodeOp(op), <<op>>) /\ AreOps(<<op>>)
  BY Zenon, OpTyped, HoldsOne DEF Holds
<1>3. Len(<<op>>) = 1 /\ <<op>>[1] = op
  BY Zenon
<1>4. Batched(SetCount(r, Len(ops) + 1) \o EncodeOp(op), ops \o <<op>>)
  BY Zenon, <1>2, <1>3, BatchedGrows
<1>5. Append(ops, op) = ops \o <<op>>
  <2> DEFINE n == Len(ops)
  <2>1. ops \o <<op>> = [i \in 1..(n + 1) |-> IF i <= n THEN ops[i] ELSE <<op>>[i - n]]
    BY Zenon, <1>1, <1>2, <1>3, ConcatenatedIs DEF Concatenated
  <2>2. Append(ops, op) = [i \in 1..(n + 1) |-> IF i = n + 1 THEN op ELSE ops[i]]
    <3>1. ops = [i \in 1..n |-> ops[i]] /\ n \in Nat
      BY Zenon, <1>1 DEF AreOps
    <3> HIDE DEF n
    <3>2. Append([i \in 1..n |-> ops[i]], op) =
            [i \in 1..(n + 1) |-> IF i = n + 1 THEN op ELSE ops[i]]
      BY <3>1
    <3> QED BY Zenon, <3>1, <3>2
  <2> HIDE DEF n
  <2>3. n \in Nat
    BY Zenon, <1>1 DEF n
  <2>4. \A i \in 1..(n + 1) : (i <= n => i # n + 1) /\ (~(i <= n) => i = n + 1 /\ i - n = 1)
    BY <2>3
  <2>5. \A i \in 1..(n + 1) :
           (IF i = n + 1 THEN op ELSE ops[i]) = (IF i <= n THEN ops[i] ELSE <<op>>[i - n])
    BY Zenon, <1>3, <2>4
  <2> QED BY Zenon, <2>1, <2>2, <2>5
<1> QED BY Zenon, <1>1, <1>4, <1>5

\* SetCount leaves bytes.
LEMMA SetCountTyped ==
    ASSUME NEW r, NEW ops, Batched(r, ops), NEW n \in Nat
    PROVE  SetCount(r, n) \in Seq(Byte)
<1>1. PICK h, s : Written(r, h, s, ops)
  BY Zenon DEF Batched
<1>2. /\ IsHead(h) /\ s \in Seq(Byte) /\ Len(ops) \in Nat
      /\ r = RepOf(h, Len(ops), s)
  BY Zenon, <1>1 DEF Written, Holds, AreOps
<1>3. SetCount(r, n) = RepOf(h, n, s)
  BY Zenon, <1>2, RepCounted
<1>4. PutFixed32(n) \in Seq(Byte) /\ h \in Seq(Byte)
  BY Zenon, <1>2, Fixed32Bytes DEF IsHead, Fixed32
<1>5. \A x, y \in Seq(Byte) : x \o y \in Seq(Byte)
  OBVIOUS
<1> QED BY Zenon, <1>2, <1>3, <1>4, <1>5 DEF RepOf

\* Appending four strings, in either order.
Grouped(w, x, y, z) == ((w \o x) \o y) \o z = w \o (x \o (y \o z))

\* Four strings appended from left to right are appended from right to left.
LEMMA JoinGroups ==
    ASSUME NEW w \in Seq(Byte), NEW x \in Seq(Byte), NEW y \in Seq(Byte), NEW z \in Seq(Byte)
    PROVE  Grouped(w, x, y, z)
<1>1. w \o x \in Seq(Byte) /\ y \o z \in Seq(Byte)
  OBVIOUS
<1>2. Assoc(w \o x, y, z) /\ Assoc(w, x, y \o z)
  BY Zenon, <1>1, JoinAssociates
<1> QED BY Zenon, <1>2 DEF Assoc, Grouped

\* WriteBatch::Put keeps the batches.
LEMMA PutKeepsBatches ==
    ASSUME BatchInv, NEW b \in Batches, NEW key \in Keys, NEW value \in Values, Put(b, key, value)
    PROVE  BatchInv'
<1> DEFINE op == [type |-> kTypeValue, key |-> key, value |-> value]
           r == SetCount(rep_[b], Count(rep_[b]) + 1)
           k == PutLengthPrefixedSlice(key)
           v == PutLengthPrefixedSlice(value)
<1>1. key \in Seq(Byte) /\ value \in Seq(Byte)
  BY Zenon, ByteAssumption
<1>2. op.type = kTypeValue /\ op.key = key /\ op.value = value /\ kTypeValue # kTypeDeletion
  BY DEF kTypeValue, kTypeDeletion
<1>3. Op(op)
  BY Zenon, <1>1, <1>2 DEF Op
<1>4. Batched(rep_[b], calls[b])
  BY Zenon DEF BatchInv, BatchesOf
<1>5. 1 \in Nat
  BY Zenon
<1>6. Fits32(Len(calls[b]) + 1)
  BY Zenon, <1>5, RoomBounds DEF Put
<1>7. EncodeOp(op) = <<kTypeValue>> \o (k \o v)
  BY Zenon, <1>2 DEF EncodeOp, ValuePart
<1>8. k \in Seq(Byte) /\ v \in Seq(Byte) /\ <<kTypeValue>> \in Seq(Byte)
  BY Zenon, <1>1, <1>2, <1>3, OpTyped, OneByte, SliceTyped
<1>9. r \in Seq(Byte)
  <2>1. Count(rep_[b]) + 1 \in Nat
    <3>1. Count(rep_[b]) = Len(calls[b]) /\ Len(calls[b]) \in Nat
      BY Zenon, <1>4, BatchOps, BatchedReads
    <3> QED BY <3>1
  <2> QED BY Zenon, <1>4, <2>1, SetCountTyped
<1>11. rep_' = [rep_ EXCEPT ![b] = r \o <<kTypeValue>> \o k \o v]
  BY Zenon DEF Put
<1>12. calls' = [calls EXCEPT ![b] = Append(calls[b], op)]
  BY Zenon DEF Put
<1> HIDE DEF k, v, op
<1>13. Batched(r \o EncodeOp(op), Append(calls[b], op))
  BY Zenon, <1>3, <1>4, <1>6, OpAppended
<1> HIDE DEF r
<1>10. Grouped(r, <<kTypeValue>>, k, v)
  BY Zenon, <1>8, <1>9, JoinGroups
<1>14. r \o <<kTypeValue>> \o k \o v = r \o EncodeOp(op)
  BY Zenon, <1>7, <1>10 DEF Grouped
<1>15. BatchesOf(rep_', calls')
  BY Zenon, <1>11, <1>12, <1>13, <1>14, OneBatchChanged
<1> QED BY Zenon, <1>15 DEF BatchInv, BatchesOf

\* WriteBatch::Delete keeps the batches.
LEMMA DeleteKeepsBatches ==
    ASSUME BatchInv, NEW b \in Batches, NEW key \in Keys, Delete(b, key)
    PROVE  BatchInv'
<1> DEFINE op == [type |-> kTypeDeletion, key |-> key, value |-> <<>>]
           r == SetCount(rep_[b], Count(rep_[b]) + 1)
           k == PutLengthPrefixedSlice(key)
<1>1. key \in Seq(Byte) /\ <<>> \in Seq(Byte)
  <2>1. key \in Seq(Byte)
    BY Zenon, ByteAssumption
  <2> QED BY <2>1
<1>2. op.type = kTypeDeletion /\ op.key = key /\ op.value = <<>> /\ kTypeValue # kTypeDeletion
  BY DEF kTypeValue, kTypeDeletion
<1>3. Op(op)
  BY Zenon, <1>1, <1>2 DEF Op
<1>4. Batched(rep_[b], calls[b])
  BY Zenon DEF BatchInv, BatchesOf
<1>5. 1 \in Nat
  BY Zenon
<1>6. Fits32(Len(calls[b]) + 1)
  BY Zenon, <1>5, RoomBounds DEF Delete
<1>7. EncodeOp(op) = <<kTypeDeletion>> \o (k \o <<>>)
  BY Zenon, <1>2 DEF EncodeOp, ValuePart
<1>8. k \in Seq(Byte) /\ <<kTypeDeletion>> \in Seq(Byte)
  BY Zenon, <1>1, <1>2, <1>3, OpTyped, OneByte, SliceTyped
<1>9. r \in Seq(Byte)
  <2>1. Count(rep_[b]) + 1 \in Nat
    <3>1. Count(rep_[b]) = Len(calls[b]) /\ Len(calls[b]) \in Nat
      BY Zenon, <1>4, BatchOps, BatchedReads
    <3> QED BY <3>1
  <2> QED BY Zenon, <1>4, <2>1, SetCountTyped
<1>11. rep_' = [rep_ EXCEPT ![b] = r \o <<kTypeDeletion>> \o k]
  BY Zenon DEF Delete
<1>12. calls' = [calls EXCEPT ![b] = Append(calls[b], op)]
  BY Zenon DEF Delete
<1> HIDE DEF k, op
<1>13. Batched(r \o EncodeOp(op), Append(calls[b], op))
  BY Zenon, <1>3, <1>4, <1>6, OpAppended
<1> HIDE DEF r
<1>14. k \o <<>> = k
  BY <1>8
<1>10. Assoc(r, <<kTypeDeletion>>, k)
  BY Zenon, <1>8, <1>9, JoinAssociates
<1>15. r \o <<kTypeDeletion>> \o k = r \o EncodeOp(op)
  BY Zenon, <1>7, <1>10, <1>14 DEF Assoc
<1>16. BatchesOf(rep_', calls')
  BY Zenon, <1>11, <1>12, <1>13, <1>15, OneBatchChanged
<1> QED BY Zenon, <1>16 DEF BatchInv, BatchesOf

\* WriteBatch::Clear keeps the batches.
LEMMA ClearKeepsBatches ==
    ASSUME BatchInv, NEW b \in Batches, Clear(b)
    PROVE  BatchInv'
<1>1. BatchesOf(rep_', calls')
  BY Zenon, BatchedCleared, OneBatchChanged DEF Clear
<1> QED BY Zenon, <1>1 DEF BatchInv, BatchesOf

\* WriteBatch::Append keeps the batches, also when a batch is appended to itself.
LEMMA AppendKeepsBatches ==
    ASSUME BatchInv, NEW dst \in Batches, NEW src \in Batches, AppendBatch(dst, src)
    PROVE  BatchInv'
<1> DEFINE a == calls[dst]
           c == calls[src]
           e == Operations(rep_[src])
<1>1. Batched(rep_[dst], a) /\ Batched(rep_[src], c)
  BY Zenon DEF BatchInv, BatchesOf
<1>2. /\ Len(a) \in Nat /\ Len(c) \in Nat /\ Count(rep_[dst]) = Len(a) /\ Count(rep_[src]) = Len(c)
      /\ e \in Seq(Byte) /\ Holds(e, c)
  BY Zenon, <1>1, BatchOps, BatchedReads
<1>3. Fits32(Len(a) + Len(c))
  BY Zenon, <1>2, RoomBounds DEF AppendBatch
<1>4. Len(c) + Len(a) = Len(a) + Len(c)
  <2>1. \A x, y \in Nat : x + y = y + x
    OBVIOUS
  <2> QED BY Zenon, <1>2, <2>1
<1>5. Batched(SetCount(rep_[dst], Len(a) + Len(c)) \o e, a \o c)
  BY Zenon, <1>1, <1>2, <1>3, BatchedGrows
<1>6. Batched(SetCount(rep_[dst], Count(rep_[src]) + Count(rep_[dst])) \o e, a \o c)
  BY Zenon, <1>2, <1>4, <1>5
<1>7. /\ rep_' = [rep_ EXCEPT ![dst] =
                    SetCount(rep_[dst], Count(rep_[src]) + Count(rep_[dst])) \o e]
      /\ calls' = [calls EXCEPT ![dst] = a \o c]
  BY Zenon DEF AppendBatch
<1>8. BatchesOf(rep_', calls')
  BY Zenon, <1>6, <1>7, OneBatchChanged
<1> QED BY Zenon, <1>8 DEF BatchInv, BatchesOf

-----------------------------------------------------------------------------
(* Write, and the invariant *)

\* The inductive invariant: every batch holds its calls, and the memtable and
\* last_sequence_ are those of the operations written.
Inv == BatchInv /\ LogOf(written, memtable, last_sequence_)

\* SetSequence in DBimpl::Write keeps the batches.
LEMMA WriteKeepsBatches ==
    ASSUME Inv, NEW b \in Batches, Write(b)
    PROVE  /\ BatchInv'
           /\ Batched(rep_'[b], calls[b]) /\ Sequence(rep_'[b]) = last_sequence_
<1> DEFINE r == SetSequence(rep_[b], last_sequence_)
<1>1. Fits64(last_sequence_)
  BY Zenon, Fits56Facts DEF Inv, LogOf
<1>2. Batched(rep_[b], calls[b]) /\ DOMAIN rep_ = Batches /\ calls = [c \in Batches |-> calls[c]]
  BY Zenon DEF Inv, BatchInv, BatchesOf
<1>3. Batched(r, calls[b]) /\ Sequence(r) = last_sequence_
  BY Zenon, <1>1, <1>2, BatchedNumbered
<1>4. rep_' = [rep_ EXCEPT ![b] = r] /\ calls' = calls
  BY Zenon DEF Write
<1>5. rep_'[b] = r
  BY Zenon, <1>2, <1>4
<1>6. [calls EXCEPT ![b] = calls[b]] = calls
  BY Zenon, <1>2
<1>7. BatchesOf([rep_ EXCEPT ![b] = r], [calls EXCEPT ![b] = calls[b]])
  BY Zenon, <1>3, OneBatchChanged DEF Inv
<1>8. BatchesOf(rep_', calls')
  BY Zenon, <1>4, <1>6, <1>7
<1>9. BatchInv'
  BY Zenon, <1>8 DEF BatchInv, BatchesOf
<1> QED BY Zenon, <1>3, <1>5, <1>9

\* No number passes MaxSequence, so that it fits the tag.
LEMMA BoundedFits56 ==
    ASSUME NEW n \in Nat, n <= MaxSequence
    PROVE  Fits56(n)
BY SMT, BoundAssumption DEF Fits56

\* DBimpl::Write appends the operations of the batch to those written.
LEMMA WriteLogs ==
    ASSUME Inv, NEW b \in Batches, Write(b)
    PROVE  LogOf(written', memtable', last_sequence_')
<1> DEFINE log == written
           a == calls[b]
           n == Len(log)
           m == Len(a)
           r == rep_'[b]
           new == log \o a
<1>2. Batched(r, a) /\ Sequence(r) = last_sequence_
  BY Zenon, WriteKeepsBatches
<1>3. AreOps(a) /\ m \in Nat /\ Count(r) = m /\ Iterate(r) = a
  BY Zenon, <1>2, BatchOps, BatchedReads
<1>4. /\ AreOps(log) /\ n \in Nat /\ last_sequence_ = n + 1
      /\ memtable = Entries(log)
  BY Zenon DEF Inv, LogOf, AreOps
<1>5. JoinedLog(new, log, a)
  BY Zenon, <1>3, <1>4, LogJoins
<1> HIDE DEF new
<1>6. AreOps(new) /\ Len(new) = n + m
  BY Zenon, <1>5 DEF JoinedLog
<1>13. EntriesJoined(new, log, a, last_sequence_)
  BY Zenon, <1>3, <1>4, <1>5, EntriesJoin
<1>7. last_sequence_' = last_sequence_ + m /\ last_sequence_ + m <= MaxSequence
  BY Zenon, <1>3 DEF Write
<1>8. last_sequence_' = (n + m) + 1 /\ Fits56(last_sequence_')
  <2>2. last_sequence_ \in Nat
    <3> HIDE DEF n
    <3> QED BY <1>4
  <2>3. last_sequence_ + m = (n + m) + 1 /\ last_sequence_ + m \in Nat
    <3> HIDE DEF n, m
    <3> QED BY <1>3, <1>4, <2>2
  <2> QED BY Zenon, <1>7, <2>3, BoundedFits56
<1>9. memtable' = Entries(new)
  <2>1. memtable' = memtable \cup InsertAll(r)
    BY Zenon DEF Write
  <2>2. InsertAll(r) = {CreateMemtableKey(CString(a[i].key), Tag(last_sequence_ + i, a[i].type),
                                          Inserted(a[i]))
                          : i \in DOMAIN a}
    BY Zenon, <1>2, <1>3 DEF InsertAll
  <2>3. DOMAIN a = 1..m
    BY Zenon, <1>3 DEF AreOps
  <2>4. InsertAll(r) = {Entry(a[i], last_sequence_ + i) : i \in 1..m}
    BY Zenon, <2>2, <2>3 DEF Entry, KeyOf
  <2>5. Entries(new) = Entries(log) \cup {Entry(a[i], last_sequence_ + i) : i \in 1..m}
    BY Zenon, <1>13 DEF EntriesJoined
  <2> QED BY Zenon, <2>1, <2>4, <2>5, <1>4
<1>10. written' = new
  BY Zenon DEF Write, new
<1> QED BY Zenon, <1>6, <1>8, <1>9, <1>10 DEF LogOf

\* Init: no operations, in the batches and in the memtable.
LEMMA InitKeepsInv ==
    ASSUME Init
    PROVE  Inv
<1>1. BatchInv
  <2>1. \A b \in Batches : rep_[b] = Cleared /\ calls[b] = <<>>
    BY Zenon DEF Init
  <2>2. rep_ = [b \in Batches |-> rep_[b]] /\ calls = [b \in Batches |-> calls[b]]
    BY Zenon DEF Init
  <2> QED BY Zenon, <2>1, <2>2, BatchedCleared DEF BatchInv, BatchesOf
<1>2. LogOf(<<>>, memtable, last_sequence_)
  <2>1. Len(<<>>) = 0 /\ 1 = 0 + 1 /\ 0 \in Nat /\ 1..0 = {} /\ <<>> = [i \in {} |-> <<>>[i]]
    OBVIOUS
  <2>2. AreOps(<<>>)
    BY Zenon, <2>1 DEF AreOps
  <2>3. Fits56(1)
    BY SMT DEF Fits56
  <2>4. Entries(<<>>) = {}
    BY Zenon, <2>1 DEF Entries
  <2> QED BY Zenon, <2>1, <2>2, <2>3, <2>4 DEF LogOf, Init
<1> QED BY Zenon, <1>1, <1>2 DEF Inv, Init

\* Every action keeps the invariant.
LEMMA NextKeepsInv ==
    ASSUME Inv, [Next]_vars
    PROVE  Inv'
<1> DEFINE Others == UNCHANGED <<memtable, last_sequence_, written>>
<1>1. ASSUME BatchInv', Others PROVE Inv'
  BY Zenon, <1>1 DEF Inv, LogOf
<1>2. BatchInv
  BY Zenon DEF Inv
<1>3. ASSUME NEW b \in Batches, NEW key \in Keys, NEW value \in Values, Put(b, key, value)
      PROVE  Inv'
  BY Zenon, <1>1, <1>2, <1>3, PutKeepsBatches DEF Put
<1>4. ASSUME NEW b \in Batches, NEW key \in Keys, Delete(b, key)
      PROVE  Inv'
  BY Zenon, <1>1, <1>2, <1>4, DeleteKeepsBatches DEF Delete
<1>5. ASSUME NEW b \in Batches, Clear(b)
      PROVE  Inv'
  BY Zenon, <1>1, <1>2, <1>5, ClearKeepsBatches DEF Clear
<1>6. ASSUME NEW b \in Batches, Write(b)
      PROVE  Inv'
  <2>1. LogOf(written', memtable', last_sequence_') /\ BatchInv'
    BY Zenon, <1>6, WriteKeepsBatches, WriteLogs
  <2> QED BY Zenon, <2>1 DEF Inv, LogOf
<1>7. ASSUME NEW dst \in Batches, NEW src \in Batches, AppendBatch(dst, src)
      PROVE  Inv'
  BY Zenon, <1>1, <1>2, <1>7, AppendKeepsBatches DEF AppendBatch
<1>8. CASE UNCHANGED vars
  BY Zenon, <1>8 DEF Inv, BatchInv, LogOf, vars
<1> QED BY Zenon, <1>3, <1>4, <1>5, <1>6, <1>7, <1>8 DEF Next

\* The invariant holds in every state of WriteBatch and Memtable.
THEOREM BatchesStayWellFormed == Spec => []Inv
<1>1. Init => Inv
  BY Zenon, InitKeepsInv
<1>2. Inv /\ [Next]_vars => Inv'
  BY Zenon, NextKeepsInv
<1> QED BY PTL, <1>1, <1>2 DEF Spec

-----------------------------------------------------------------------------
(* AppendAll and the loop of ReadManifest *)

\* The body of the recursion in AppendAll.
AppendNext(strings, f, n) == IF n = 0 THEN <<>> ELSE f[n - 1] \o strings[n]

\* The recursion of AppendAll defines a function.
LEMMA UpToExists ==
    ASSUME NEW strings, NEW n \in Nat
    PROVE  \E f : f = [i \in 0..n |-> AppendNext(strings, f, i)]
<1> DEFINE Bad == {m \in Nat : ~\E f : f = [i \in 0..m |-> AppendNext(strings, f, i)]}
<1>1. SUFFICES ASSUME Bad # {} PROVE FALSE
  BY Zenon
<1>2. PICK m \in Bad : \A y \in Bad : m <= y
  BY Zenon, <1>1, LeastNumber
<1>3. m \in Nat /\ ~\E f : f = [i \in 0..m |-> AppendNext(strings, f, i)]
  BY Zenon
<1>4. CASE m = 0
  <2> DEFINE g == [i \in 0..0 |-> <<>>]
  <2>1. \A i \in 0..0 : i = 0
    OBVIOUS
  <2>2. g = [i \in 0..0 |-> AppendNext(strings, g, i)]
    BY Zenon, <2>1 DEF AppendNext
  <2> QED BY Zenon, <2>2, <1>3, <1>4
<1>5. CASE m # 0
  <2>1. m - 1 \in Nat /\ ~(m <= m - 1)
    BY <1>3, <1>5
  <2>2. PICK f : f = [i \in 0..(m - 1) |-> AppendNext(strings, f, i)]
    BY Zenon, <2>1, <1>2
  <2> DEFINE g == [i \in 0..m |-> IF i = m THEN AppendNext(strings, f, m) ELSE f[i]]
  <2>3. ASSUME NEW i \in 0..m PROVE g[i] = AppendNext(strings, g, i)
    <3>1. i # 0 => i - 1 \in 0..m /\ i - 1 # m
      BY <1>3
    <3>2. i # 0 => g[i - 1] = f[i - 1]
      BY Zenon, <3>1
    <3>3. i # m => i \in 0..(m - 1)
      BY <1>3
    <3>4. i # m => f[i] = AppendNext(strings, f, i)
      BY Zenon, <2>2, <3>3
    <3>5. g[i] = AppendNext(strings, f, i)
      <4>1. g[i] = IF i = m THEN AppendNext(strings, f, m) ELSE f[i]
        BY Zenon
      <4> HIDE DEF g
      <4> QED BY <4>1, <3>4
    <3> HIDE DEF g
    <3>6. AppendNext(strings, g, i) = AppendNext(strings, f, i)
      BY Zenon, <3>2 DEF AppendNext
    <3> QED BY Zenon, <3>5, <3>6
  <2>4. g = [i \in 0..m |-> AppendNext(strings, g, i)]
    BY Zenon, <2>3
  <2> QED BY Zenon, <2>4, <1>3
<1> QED BY Zenon, <1>4, <1>5

\* The recursive function of AppendAll.
UpTo(strings, m) == CHOOSE f : f = [n \in 0..m |-> AppendNext(strings, f, n)]

\* One step of AppendAll.
LEMMA UpToStep ==
    ASSUME NEW strings, NEW m \in Nat, NEW n \in 0..m
    PROVE  UpTo(strings, m)[n] = AppendNext(strings, UpTo(strings, m), n)
<1>1. UpTo(strings, m) = [i \in 0..m |-> AppendNext(strings, UpTo(strings, m), i)]
  BY Zenon, UpToExists DEF UpTo
<1> DEFINE g == [i \in 0..m |-> AppendNext(strings, UpTo(strings, m), i)]
<1>2. g[n] = AppendNext(strings, UpTo(strings, m), n)
  BY Zenon
<1> QED BY Zenon, <1>1, <1>2

\* What follows each of the strings E, up to the end of s.
Rests(cut, s, E, n) ==
    /\ cut \in [0..n -> Seq(Byte)] /\ cut[0] = s /\ cut[n] = <<>>
    /\ \A i \in 1..n : cut[i - 1] = E[i] \o cut[i]

\* Appended strings come apart again: after each one the others follow.
LEMMA AppendedRests ==
    ASSUME NEW E, NEW n \in Nat, \A i \in 1..n : E[i] \in Seq(Byte),
           NEW k \in 0..n
    PROVE  UpTo(E, n)[k] \in Seq(Byte) /\ \E cut : Rests(cut, UpTo(E, n)[k], E, k)
<1> DEFINE f == UpTo(E, n)
           Good(m) == f[m] \in Seq(Byte) /\ \E cut : Rests(cut, f[m], E, m)
           Bad == {m \in 0..n : ~Good(m)}
<1>1. SUFFICES ASSUME Bad # {} PROVE FALSE
  BY Zenon
<1>2. PICK m \in Bad : \A y \in Bad : m <= y
  <2>1. Bad \in SUBSET Nat
    OBVIOUS
  <2> HIDE DEF Bad
  <2> QED BY Zenon, <1>1, <2>1, LeastNumber
<1>3. m \in 0..n /\ ~Good(m)
  BY Zenon, <1>2
<1>4. m # 0 => m - 1 \in 0..n /\ m \in 1..n /\ ~(m <= m - 1)
  BY <1>3
<1>5. m # 0 => Good(m - 1)
  BY Zenon, <1>2, <1>4
<1>6. f[m] = AppendNext(E, f, m)
  BY Zenon, <1>3, UpToStep
<1> HIDE DEF f, Bad
<1>7. CASE m = 0
  <2>1. f[0] = <<>> /\ <<>> \in Seq(Byte)
    <3>1. f[0] = <<>>
      BY Zenon, <1>6, <1>7 DEF AppendNext
    <3> QED BY <3>1
  <2> DEFINE c == [i \in 0..0 |-> <<>>]
  <2>2. c \in [0..0 -> Seq(Byte)] /\ c[0] = <<>> /\ 1..0 = {}
    OBVIOUS
  <2> HIDE DEF c
  <2>3. Rests(c, f[0], E, 0)
    BY Zenon, <2>1, <2>2 DEF Rests
  <2> QED BY Zenon, <2>1, <2>3, <1>3, <1>7
<1>8. CASE m # 0
  <2> DEFINE p == m - 1
             e == E[m]
  <2>1. PICK cut : Rests(cut, f[p], E, p)
    BY Zenon, <1>5, <1>8
  <2>2. /\ f[p] \in Seq(Byte) /\ e \in Seq(Byte) /\ f[m] = f[p] \o e
    BY Zenon, <1>4, <1>5, <1>6, <1>8 DEF AppendNext
  <2>3. /\ cut \in [0..p -> Seq(Byte)] /\ cut[0] = f[p] /\ cut[p] = <<>>
        /\ \A i \in 1..p : cut[i - 1] = E[i] \o cut[i]
    BY Zenon, <2>1 DEF Rests
  <2> DEFINE c == [i \in 0..m |-> IF i = m THEN <<>> ELSE cut[i] \o e]
  <2>4. f[m] \in Seq(Byte) /\ <<>> \in Seq(Byte) /\ \A x, y \in Seq(Byte) : x \o y \in Seq(Byte)
    <3>1. \A x, y \in Seq(Byte) : x \o y \in Seq(Byte)
      OBVIOUS
    <3>2. <<>> \in Seq(Byte)
      OBVIOUS
    <3> QED BY Zenon, <2>2, <3>1, <3>2
  <2>5. /\ m \in 0..m /\ 0 \in 0..m /\ 0 # m
        /\ \A i \in 0..m : i # m => i \in 0..p
        /\ \A i \in 1..m : i - 1 \in 0..m /\ i - 1 # m /\ i \in 0..m /\ i \in 1..n
        /\ \A i \in 1..m : i # m => i \in 1..p
    BY <1>3, <1>8
  <2> HIDE DEF p, e
  <2>6. \A i \in 0..m : c[i] = IF i = m THEN <<>> ELSE cut[i] \o e
    BY Zenon
  <2>7. c \in [0..m -> Seq(Byte)]
    <3>1. \A i \in 0..m : (IF i = m THEN <<>> ELSE cut[i] \o e) \in Seq(Byte)
      BY Zenon, <2>2, <2>3, <2>4, <2>5
    <3> QED BY Zenon, <3>1
  <2> HIDE DEF c
  <2>8. c[0] = f[m] /\ c[m] = <<>>
    BY Zenon, <2>2, <2>3, <2>5, <2>6
  <2>9. ASSUME NEW i \in 1..m PROVE c[i - 1] = E[i] \o c[i]
    <3>1. c[i - 1] = cut[i - 1] \o e
      BY Zenon, <2>5, <2>6
    <3>2. CASE i = m
      <4>1. c[i] = <<>> /\ cut[i - 1] = <<>> /\ E[i] = e
        BY Zenon, <3>2, <2>8, <2>3 DEF p, e
      <4>2. <<>> \o e = e \o <<>>
        BY <2>2
      <4> QED BY Zenon, <3>1, <4>1, <4>2
    <3>3. CASE i # m
      <4>1. cut[i - 1] = E[i] \o cut[i] /\ c[i] = cut[i] \o e
        BY Zenon, <3>3, <2>3, <2>5, <2>6
      <4>2. cut[i] \in Seq(Byte) /\ E[i] \in Seq(Byte)
        BY Zenon, <2>3, <2>5, <3>3
      <4>3. Assoc(E[i], cut[i], e)
        BY Zenon, <4>2, <2>2, JoinAssociates
      <4> QED BY Zenon, <3>1, <4>1, <4>3 DEF Assoc
    <3> QED BY Zenon, <3>2, <3>3
  <2>10. Rests(c, f[m], E, m)
    BY Zenon, <2>7, <2>8, <2>9 DEF Rests
  <2> QED BY Zenon, <2>4, <2>10, <1>3
<1> QED BY Zenon, <1>7, <1>8

\* What ReadManifest reads of one table, and what follows it.
SizeRead(s) == GetVarint(s)

\* the number of its file,
NumberRead(s) == GetVarint(SizeRead(s).rest)

\* its smallest key,
SmallestRead(s) == GetLengthPrefixedSlice(NumberRead(s).rest)

\* its largest key,
LargestRead(s) == GetLengthPrefixedSlice(SmallestRead(s).rest)

\* and all of them.
MetaRead(s) ==
    [file_size |-> SizeRead(s).value, number |-> NumberRead(s).value,
     smallest_key |-> SmallestRead(s).value, largest_key |-> LargestRead(s).value]

\* The body of the recursion in DecodeFileMetas.
MetaNext(s, f, n) ==
    IF n = 0 THEN [metas |-> <<>>, rest |-> s]
    ELSE [metas |-> Append(f[n - 1].metas, MetaRead(f[n - 1].rest)),
          rest |-> LargestRead(f[n - 1].rest).rest]

\* The recursion of DecodeFileMetas defines a function.
LEMMA MetasExist ==
    ASSUME NEW s, NEW n \in Nat
    PROVE  \E f : f = [i \in 0..n |-> MetaNext(s, f, i)]
<1> DEFINE Fun(f, m) == f = [i \in 0..m |-> MetaNext(s, f, i)]
           Bad == {m \in Nat : ~\E f : Fun(f, m)}
<1>1. SUFFICES ASSUME Bad # {} PROVE FALSE
  BY Zenon
<1>2. PICK m \in Bad : \A y \in Bad : m <= y
  BY Zenon, <1>1, LeastNumber
<1>3. m \in Nat /\ ~\E f : Fun(f, m)
  BY Zenon
<1>4. CASE m = 0
  <2> DEFINE g == [i \in 0..0 |-> [metas |-> <<>>, rest |-> s]]
  <2>1. \A i \in 0..0 : i = 0
    OBVIOUS
  <2>2. g = [i \in 0..0 |-> MetaNext(s, g, i)]
    BY Zenon, <2>1 DEF MetaNext
  <2> QED BY Zenon, <2>2, <1>3, <1>4
<1>5. CASE m # 0
  <2>1. m - 1 \in Nat /\ ~(m <= m - 1)
    BY <1>3, <1>5
  <2>2. PICK f : Fun(f, m - 1)
    BY Zenon, <2>1, <1>2
  <2> DEFINE g == [i \in 0..m |-> IF i = m THEN MetaNext(s, f, m) ELSE f[i]]
  <2>3. ASSUME NEW i \in 0..m PROVE g[i] = MetaNext(s, g, i)
    <3>1. i # 0 => i - 1 \in 0..m /\ i - 1 # m
      BY <1>3
    <3>2. i # 0 => g[i - 1] = f[i - 1]
      BY Zenon, <3>1
    <3>3. i # m => i \in 0..(m - 1)
      BY <1>3
    <3>4. i # m => f[i] = MetaNext(s, f, i)
      BY Zenon, <2>2, <3>3
    <3>5. g[i] = MetaNext(s, f, i)
      <4>1. g[i] = IF i = m THEN MetaNext(s, f, m) ELSE f[i]
        BY Zenon
      <4> HIDE DEF g
      <4> QED BY <4>1, <3>4
    <3> HIDE DEF g
    <3>6. MetaNext(s, g, i) = MetaNext(s, f, i)
      BY Zenon, <3>2 DEF MetaNext
    <3> QED BY Zenon, <3>5, <3>6
  <2>4. Fun(g, m)
    BY Zenon, <2>3
  <2> QED BY Zenon, <2>4, <1>3
<1> QED BY Zenon, <1>4, <1>5

\* The recursive function of DecodeFileMetas.
Metas(s, m) == CHOOSE f : f = [n \in 0..m |-> MetaNext(s, f, n)]

\* One round of the loop in ReadManifest.
LEMMA MetaStep ==
    ASSUME NEW s, NEW m \in Nat, NEW n \in 0..m
    PROVE  Metas(s, m)[n] = MetaNext(s, Metas(s, m), n)
<1>1. Metas(s, m) = [i \in 0..m |-> MetaNext(s, Metas(s, m), i)]
  BY Zenon, MetasExist DEF Metas
<1> DEFINE g == [i \in 0..m |-> MetaNext(s, Metas(s, m), i)]
<1>2. g[n] = MetaNext(s, Metas(s, m), n)
  BY Zenon
<1> QED BY Zenon, <1>1, <1>2

\* DecodeFileMetas is where that function ends.
LEMMA MetasAre ==
    ASSUME NEW s, NEW m
    PROVE  DecodeFileMetas(s, m) = Metas(s, m)[m].metas
BY Zenon DEF DecodeFileMetas, Metas, MetaNext, MetaRead, SizeRead, NumberRead,
             SmallestRead, LargestRead

-----------------------------------------------------------------------------
(* The manifest *)

\* A FileMeta: two numbers and two keys of any bytes.
Meta(m) ==
    /\ m.file_size \in Nat /\ m.number \in Nat
    /\ m.smallest_key \in Seq(Byte) /\ m.largest_key \in Seq(Byte)
    /\ m = [file_size |-> m.file_size, number |-> m.number,
            smallest_key |-> m.smallest_key, largest_key |-> m.largest_key]

\* ReadManifest reads m from s and leaves r.
MetaBack(s, m, r) == MetaRead(s) = m /\ LargestRead(s).rest = r

\* DecodeFileMeta reads what EncodeFileMeta wrote and stops where the next begins.
LEMMA MetaReadsBack ==
    ASSUME NEW m, Meta(m), NEW r \in Seq(Byte)
    PROVE  /\ EncodeFileMeta(m) \in Seq(Byte)
           /\ MetaBack(EncodeFileMeta(m) \o r, m, r)
<1> DEFINE a == PutVarint(m.file_size)
           b == PutVarint(m.number)
           c == PutLengthPrefixedSlice(m.smallest_key)
           d == PutLengthPrefixedSlice(m.largest_key)
           x == d \o r
           y == c \o x
           z == b \o y
           s == EncodeFileMeta(m) \o r
<1>1. /\ m.file_size \in Nat /\ m.number \in Nat
      /\ m.smallest_key \in Seq(Byte) /\ m.largest_key \in Seq(Byte)
  BY Zenon DEF Meta
<1>2. /\ a \in Seq(Byte) /\ b \in Seq(Byte) /\ c \in Seq(Byte) /\ d \in Seq(Byte)
  BY Zenon, <1>1, VarintTyped, SliceTyped DEF Varint
<1>3. \A p, q \in Seq(Byte) : p \o q \in Seq(Byte)
  OBVIOUS
<1>4. x \in Seq(Byte) /\ y \in Seq(Byte) /\ z \in Seq(Byte)
  BY Zenon, <1>2, <1>3
<1>5. GotSlice(x, m.largest_key, r) /\ GotSlice(y, m.smallest_key, x)
  BY Zenon, <1>1, <1>4, SliceReadsBack
<1>6. Got(z, m.number, y) /\ Got(a \o z, m.file_size, z)
  BY Zenon, <1>1, <1>4, VarintReadsBack
<1>7. EncodeFileMeta(m) = ((a \o b) \o c) \o d
  BY Zenon DEF EncodeFileMeta
<1> HIDE DEF a, b, c, d
<1>8. ((a \o b) \o c) \o d \in Seq(Byte)
  BY Zenon, <1>2, <1>3
<1>9. s = a \o z
  <2>1. Grouped(a, b, c, d) /\ c \o d \in Seq(Byte) /\ b \o (c \o d) \in Seq(Byte)
    BY Zenon, <1>2, <1>3, JoinGroups
  <2>2. Assoc(a, b \o (c \o d), r) /\ Assoc(b, c \o d, r) /\ Assoc(c, d, r)
    BY Zenon, <2>1, <1>2, JoinAssociates
  <2>3. s = (a \o (b \o (c \o d))) \o r
    BY Zenon, <1>7, <2>1 DEF Grouped
  <2> QED BY Zenon, <2>2, <2>3 DEF Assoc
<1> HIDE DEF s, x, y, z
<1>10. SizeRead(s).value = m.file_size /\ SizeRead(s).rest = z
  BY Zenon, <1>6, <1>9, GotParts DEF SizeRead
<1>11. NumberRead(s).value = m.number /\ NumberRead(s).rest = y
  BY Zenon, <1>6, <1>10, GotParts DEF NumberRead
<1>12. SmallestRead(s).value = m.smallest_key /\ SmallestRead(s).rest = x
  BY Zenon, <1>5, <1>11 DEF SmallestRead, GotSlice
<1>13. LargestRead(s).value = m.largest_key /\ LargestRead(s).rest = r
  BY Zenon, <1>5, <1>12 DEF LargestRead, GotSlice
<1>14. MetaRead(s) = m
  BY Zenon, <1>10, <1>11, <1>12, <1>13 DEF MetaRead, Meta
<1> QED BY Zenon, <1>7, <1>8, <1>13, <1>14 DEF s, MetaBack

\* What Metas has after i tables.
MetasSoFar(f, cut, metas, i) ==
    f[i].rest = cut[i] /\ f[i].metas = [j \in 1..i |-> metas[j]]

\* The loop of ReadManifest reads every table that was written.
LEMMA MetasRead ==
    ASSUME NEW metas, NEW n \in Nat, metas = [i \in 1..n |-> metas[i]],
           \A i \in 1..n : Meta(metas[i]),
           NEW E, \A i \in 1..n : E[i] = EncodeFileMeta(metas[i]),
           NEW s, NEW cut, Rests(cut, s, E, n)
    PROVE  DecodeFileMetas(s, n) = metas
<1> DEFINE f == Metas(s, n)
<1>3. /\ cut \in [0..n -> Seq(Byte)] /\ cut[0] = s
      /\ \A i \in 1..n : cut[i - 1] = EncodeFileMeta(metas[i]) \o cut[i]
  BY Zenon DEF Rests
<1>4. n \in 0..n
  OBVIOUS
<1>5. ASSUME NEW i \in 0..n PROVE MetasSoFar(f, cut, metas, i)
  <2> DEFINE Bad == {k \in 0..n : ~MetasSoFar(f, cut, metas, k)}
  <2>1. SUFFICES ASSUME Bad # {} PROVE FALSE
    BY Zenon
  <2>2. PICK k \in Bad : \A y \in Bad : k <= y
    <3>1. Bad \in SUBSET Nat
      OBVIOUS
    <3> HIDE DEF Bad
    <3> QED BY Zenon, <2>1, <3>1, LeastNumber
  <2>3. k \in 0..n /\ ~MetasSoFar(f, cut, metas, k)
    BY Zenon, <2>2
  <2>4. k # 0 => k - 1 \in 0..n /\ k \in 1..n /\ ~(k <= k - 1)
    BY <2>3
  <2>5. k # 0 => MetasSoFar(f, cut, metas, k - 1)
    BY Zenon, <2>2, <2>4
  <2>6. f[k] = MetaNext(s, f, k)
    BY Zenon, <2>3, MetaStep
  <2> HIDE DEF f, Bad
  <2>7. CASE k = 0
    <3>1. f[0] = [metas |-> <<>>, rest |-> s]
      BY Zenon, <2>6, <2>7 DEF MetaNext
    <3>2. <<>> = [j \in 1..0 |-> metas[j]]
      OBVIOUS
    <3>3. f[0].metas = <<>> /\ f[0].rest = s
      BY <3>1
    <3> QED BY Zenon, <3>2, <3>3, <2>3, <2>7, <1>3 DEF MetasSoFar
  <2>8. CASE k # 0
    <3>1. /\ f[k - 1].rest = EncodeFileMeta(metas[k]) \o cut[k] /\ cut[k] \in Seq(Byte)
          /\ f[k - 1].metas = [j \in 1..(k - 1) |-> metas[j]] /\ Meta(metas[k])
      BY Zenon, <2>3, <2>4, <2>5, <2>8, <1>3 DEF MetasSoFar
    <3>2. /\ MetaRead(f[k - 1].rest) = metas[k] /\ LargestRead(f[k - 1].rest).rest = cut[k]
      <4>1. MetaBack(EncodeFileMeta(metas[k]) \o cut[k], metas[k], cut[k])
        BY Zenon, <3>1, MetaReadsBack
      <4> QED BY Zenon, <3>1, <4>1 DEF MetaBack
    <3>3. f[k] = [metas |-> Append(f[k - 1].metas, metas[k]), rest |-> cut[k]]
      BY Zenon, <2>6, <2>8, <3>2 DEF MetaNext
    <3>4. f[k].metas = Append(f[k - 1].metas, metas[k]) /\ f[k].rest = cut[k]
      BY <3>3
    <3>5. Append([j \in 1..(k - 1) |-> metas[j]], metas[k]) = [j \in 1..k |-> metas[j]]
      BY <2>3, <2>8
    <3> QED BY Zenon, <3>1, <3>4, <3>5, <2>3 DEF MetasSoFar
  <2> QED BY Zenon, <2>7, <2>8
<1> QED BY Zenon, <1>4, <1>5, MetasAre DEF MetasSoFar

\* Neither the number of tables nor last_sequence_ has a zero byte in its varint
\* when it is not zero, so that the C string of the header is the whole header.
LEMMA HeaderHasNoZero ==
    ASSUME NEW n \in Nat, n >= 1, NEW last \in Nat, last >= 1
    PROVE  /\ CString(PutVarint(n) \o PutVarint(last)) = PutVarint(n) \o PutVarint(last)
           /\ PutVarint(n) \in Seq(Byte) /\ PutVarint(last) \in Seq(Byte)
<1> DEFINE a == PutVarint(n)
           b == PutVarint(last)
           s == a \o b
<1>1. /\ a \in Seq(Byte) /\ b \in Seq(Byte)
      /\ \A i \in DOMAIN a : a[i] # 0
      /\ \A i \in DOMAIN b : b[i] # 0
  BY Zenon, VarintTyped DEF Varint
<1> HIDE DEF a, b
<1>2. \A i \in DOMAIN s : s[i] # 0
  <2>1. Len(a) \in Nat /\ Len(b) \in Nat /\ DOMAIN a = 1..Len(a) /\ DOMAIN b = 1..Len(b)
    BY <1>1
  <2>2. /\ DOMAIN s = 1..(Len(a) + Len(b))
        /\ \A i \in 1..(Len(a) + Len(b)) : s[i] = IF i <= Len(a) THEN a[i] ELSE b[i - Len(a)]
    BY <1>1
  <2>3. \A p, q \in Nat : \A i \in 1..(p + q) :
          (i <= p => i \in 1..p) /\ (~(i <= p) => i - p \in 1..q)
    OBVIOUS
  <2> QED BY Zenon, <1>1, <2>1, <2>2, <2>3
<1> HIDE DEF s
<1>3. {i \in DOMAIN s : s[i] = 0} = {}
  BY Zenon, <1>2
<1>4. CString(s) = s
  BY Zenon, <1>3 DEF CString
<1> QED BY Zenon, <1>1, <1>4 DEF s, a, b

\* ReadManifest reads what DumpManifest wrote, for any tables, if there is one and
\* last_sequence is not zero.
LEMMA ManifestIsRead ==
    ASSUME NEW metas, NEW n \in Nat, n >= 1, Len(metas) = n,
           metas = [i \in 1..n |-> metas[i]], \A i \in 1..n : Meta(metas[i]),
           NEW last \in Nat, last >= 1
    PROVE  ReadManifest(DumpManifest(metas, last)) = [metas |-> metas, last_sequence |-> last]
<1> DEFINE E == [i \in DOMAIN metas |-> EncodeFileMeta(metas[i])]
           a == PutVarint(n)
           b == PutVarint(last)
           e == AppendAll(E)
           s == DumpManifest(metas, last)
           t == b \o e
<1>1. E = [i \in 1..n |-> EncodeFileMeta(metas[i])]
  BY Zenon
<1>2. \A i \in 1..n : E[i] = EncodeFileMeta(metas[i])
  BY Zenon, <1>1
<1>3. Len(E) = n
  <2> DEFINE F == [i \in 1..n |-> EncodeFileMeta(metas[i])]
  <2>1. Len(F) = n
    OBVIOUS
  <2> QED BY Zenon, <1>1, <2>1
<1>4. \A i \in 1..n : E[i] \in Seq(Byte)
  <2>1. <<>> \in Seq(Byte)
    OBVIOUS
  <2> QED BY Zenon, <1>2, <2>1, MetaReadsBack
<1>5. s = CString(a \o b) \o e
  BY Zenon DEF DumpManifest
<1> HIDE DEF E
<1>6. e = UpTo(E, n)[n]
  BY Zenon, <1>3 DEF AppendAll, UpTo, AppendNext
<1>7. n \in 0..n
  OBVIOUS
<1>8. e \in Seq(Byte) /\ \E cut : Rests(cut, e, E, n)
  BY Zenon, <1>4, <1>6, <1>7, AppendedRests
<1>9. PICK cut : Rests(cut, e, E, n)
  BY Zenon, <1>8
<1> HIDE DEF e
<1>10. DecodeFileMetas(e, n) = metas
  BY Zenon, <1>2, <1>9, MetasRead
<1>11. CString(a \o b) = a \o b /\ a \in Seq(Byte) /\ b \in Seq(Byte)
  BY Zenon, HeaderHasNoZero
<1>12. Assoc(a, b, e) /\ t \in Seq(Byte)
  <2>1. t \in Seq(Byte)
    <3> HIDE DEF b
    <3> QED BY <1>8, <1>11
  <2> QED BY Zenon, <1>8, <1>11, <2>1, JoinAssociates
<1>13. s = a \o t
  BY Zenon, <1>5, <1>11, <1>12 DEF Assoc
<1>14. Got(a \o t, n, t) /\ Got(t, last, e)
  BY Zenon, <1>8, <1>12, VarintReadsBack
<1> HIDE DEF a, b, s, t
<1>15. GetVarint(s).value = n /\ GetVarint(s).rest = t
  BY Zenon, <1>13, <1>14, GotParts
<1>16. GetVarint(t).value = last /\ GetVarint(t).rest = e
  BY Zenon, <1>14, GotParts
<1>17. ReadManifest(s) = [metas |-> metas, last_sequence |-> last]
  BY Zenon, <1>10, <1>15, <1>16 DEF ReadManifest
<1> QED BY Zenon, <1>17 DEF s

-----------------------------------------------------------------------------
(* Theorems *)

\* For any keys and values, Count and Iterate of a batch return the Put, Delete and
\* Append calls made on it since Clear: no length and no zero byte breaks the
\* encoding of WriteBatch.
THEOREM BatchesHoldCalls == Spec => []BatchHoldsCalls
<1>1. Inv => BatchHoldsCalls
  BY Zenon, BatchedReads DEF Inv, BatchInv, BatchesOf, BatchHoldsCalls
<1> QED BY PTL, <1>1, BatchesStayWellFormed

\* For any keys and values, Memtable::Get returns the value of the last Put on a key,
\* through the bytes of the batch, of the tag and of the memtable key, wherever the
\* operation and its key have no zero byte.
THEOREM GetsAreLastWrites == Spec => []GetsLastWrite
<1>1. ASSUME Inv, NEW key \in Keys, CString(key) = key
      PROVE  LET on == {i \in DOMAIN written : CString(written[i].key) = key}
                 last == written[Max(on)]
             IN  /\ on = {} => Get(key) = NotFound
                 /\ /\ on # {}
                    /\ last.key = key /\ last.type = kTypeValue
                    /\ CString(last.value) = last.value
                    => Get(key) = last.value
  <2> DEFINE n == Len(written)
             on == {i \in DOMAIN written : CString(written[i].key) = key}
             p == Max(on)
  <2>1. LogOf(written, memtable, last_sequence_) /\ key \in Seq(Byte)
    BY Zenon, <1>1, ByteAssumption DEF Inv
  <2>2. n \in Nat /\ DOMAIN written = 1..n
    BY Zenon, <2>1 DEF LogOf, AreOps
  <2>3. on = {i \in 1..n : KeyOf(written[i]) = key}
    BY Zenon, <2>2 DEF KeyOf
  <2>4. ASSUME on = {} PROVE Get(key) = NotFound
    <3>1. key \notin LogKeys(written)
      BY Zenon, <2>3, <2>4 DEF LogKeys
    <3> QED BY Zenon, <2>1, <3>1, GetReads
  <2>5. ASSUME on # {} PROVE Get(key) = Inserted(written[p])
    <3>1. on \in SUBSET (1..n)
      BY Zenon, <2>3
    <3> HIDE DEF on, n
    <3>2. p \in on /\ \A j \in on : j <= p
      BY Zenon, <2>2, <2>5, <3>1, MaxIsGreatest
    <3> HIDE DEF p
    <3>3. p \in 1..n /\ KeyOf(written[p]) = key /\ IsLast(written, p)
      BY Zenon, <2>3, <3>2 DEF IsLast, n
    <3> QED BY Zenon, <2>1, <3>3, GetReads DEF n
  <2>6. written[p].type = kTypeValue => Inserted(written[p]) = CString(written[p].value)
    BY Zenon DEF Inserted
  <2> QED BY Zenon, <2>4, <2>5, <2>6
<1>2. Inv => GetsLastWrite
  BY Zenon, <1>1 DEF GetsLastWrite
<1> QED BY PTL, <1>2, BatchesStayWellFormed

\* For any keys and values, InsertAll gives every operation a number of its own,
\* 2 to last_sequence_, and no two entries of the skip list are equal.
THEOREM NumbersStayExact == Spec => []NumbersExact
<1>1. Inv => NumbersExact
  BY Zenon, NumbersRead DEF Inv
<1> QED BY PTL, <1>1, BatchesStayWellFormed

\* For any keys and values, ReadManifest reads what DumpManifest wrote of the
\* memtable, though the keys have zero bytes and the header is a C string.
THEOREM ManifestsReadBack == Spec => []ManifestReadsBack
<1>1. ASSUME Inv PROVE ManifestReadsBack
  <2> DEFINE keys == {ExtractInternalKey(m) : m \in memtable}
             meta(first, last) == [file_size |-> 100 * last_sequence_, number |-> 1,
                                   smallest_key |-> first, largest_key |-> last]
             metas(n, first, last) == [i \in 1..n |-> meta(first, last)]
  <2> DEFINE log == written
  <2>1. LogOf(log, memtable, last_sequence_)
    BY Zenon, <1>1 DEF Inv
  <2>2. memtable = Entries(log) /\ last_sequence_ = Len(log) + 1 /\ Len(log) \in Nat
    BY Zenon, <2>1 DEF LogOf, AreOps
  <2>3. last_sequence_ \in Nat /\ last_sequence_ >= 1 /\ 100 * last_sequence_ \in Nat /\ 1 \in Nat
    BY <2>2
  <2>4. \A k \in keys : k \in Seq(Byte)
    <3>1. ASSUME NEW i \in 1..Len(log) PROVE ExtractInternalKey(Entry(log[i], i + 1)) \in Seq(Byte)
      BY Zenon, <2>1, LogFacts, EntryReads DEF EntryIs
    <3> QED BY Zenon, <2>2, <3>1 DEF Entries
  <2>5. ASSUME NEW first \in keys, NEW last \in keys PROVE Meta(meta(first, last))
    <3> DEFINE m == meta(first, last)
    <3>1. /\ m.file_size = 100 * last_sequence_ /\ m.number = 1
          /\ m.smallest_key = first /\ m.largest_key = last
      BY Zenon
    <3> HIDE DEF keys
    <3> QED BY Zenon, <2>3, <2>4, <3>1 DEF Meta
  <2>6. ASSUME NEW first \in keys, NEW last \in keys, NEW n \in 1..2
        PROVE  ReadManifest(DumpManifest(metas(n, first, last), last_sequence_)) =
                 [metas |-> metas(n, first, last), last_sequence |-> last_sequence_]
    <3> DEFINE M == metas(n, first, last)
               m == meta(first, last)
    <3>1. n \in Nat /\ n >= 1
      OBVIOUS
    <3>2. Meta(m)
      BY Zenon, <2>5
    <3> HIDE DEF m, keys
    <3>3. M = [i \in 1..n |-> m]
      BY Zenon DEF m
    <3> HIDE DEF M
    <3>4. Len(M) = n
      BY <3>1, <3>3
    <3>5. M = [i \in 1..n |-> M[i]] /\ \A i \in 1..n : Meta(M[i])
      BY Zenon, <3>2, <3>3
    <3>6. ReadManifest(DumpManifest(M, last_sequence_)) =
            [metas |-> M, last_sequence |-> last_sequence_]
      BY Zenon, <2>3, <3>1, <3>4, <3>5, ManifestIsRead
    <3> QED BY Zenon, <3>6 DEF M
  <2> QED BY Zenon, <2>6 DEF ManifestReadsBack
<1> QED BY PTL, <1>1, BatchesStayWellFormed

=============================================================================
