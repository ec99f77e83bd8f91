--------------------------- MODULE SkipListProofs ---------------------------
(* Proofs about SkipList, for any set of keys and any maximal level. *)
EXTENDS SkipList, TLAPS

\* Nodes are integers and the dummy node is below the keys.
LEMMA NodeFacts ==
    /\ head_ \in Nodes /\ head_ \notin Keys /\ 0 \in Levels
    /\ Keys \subseteq Nodes /\ Nil \notin Nodes
    /\ \A n \in Nodes : n \in Int /\ head_ <= n /\ (n # head_ => n \in Keys)
    /\ \A l \in Levels : l \in Int /\ 0 <= l /\ l < kMaxLevel
<1>1. head_ \in Int /\ \A k \in Keys : k \in Int /\ head_ < k
  BY KeysAssumption DEF head_
<1>2. 0 \in Levels /\ \A l \in Levels : l \in Int /\ 0 <= l /\ l < kMaxLevel
  BY LevelAssumption DEF Levels
<1>3. \A n \in Nodes : n \in Int /\ head_ <= n /\ (n # head_ => n \in Keys)
  BY <1>1 DEF Nodes
<1>4. head_ \in Nodes /\ head_ \notin Keys /\ Keys \subseteq Nodes
  BY <1>1 DEF Nodes
<1>5. Nil \notin Nodes
  BY <1>3, NilAssumption
<1> QED BY <1>2, <1>3, <1>4, <1>5

\* Links lead to keys.
LEMMA LinkType ==
    TypeOK => \A n \in Nodes, l \in Levels : next[n][l] \in Keys \cup {Nil}
  BY DEF TypeOK

\* The empty list satisfies the invariant.
LEMMA ListInit == Init => ListInvariant
<1> SUFFICES ASSUME Init PROVE ListInvariant
  OBVIOUS
<1> USE KeysAssumption, LevelAssumption, NilAssumption
<1>1. TypeOK
  BY DEF Init, TypeOK, Nodes, Levels, head_
<1>2. Inserted = {} /\ level[head_] = kMaxLevel
  <2>1. \A k \in Keys : level[k] = 0
    BY NodeFacts DEF Init
  <2>2. level[head_] = kMaxLevel
    BY NodeFacts DEF Init
  <2>3. \A k \in Keys : ~(level[k] > 0)
    <3> SUFFICES ASSUME NEW k \in Keys PROVE ~(level[k] > 0)
      BY Zenon
    <3>1. level[k] = 0
      BY <2>1
    <3> QED BY <3>1
  <2>4. Inserted = {}
    BY <2>3, Zenon DEF Inserted
  <2> QED BY <2>2, <2>4
<1>3. LevelsExact
  <2>1. \A k \in Keys : level[k] = 0
    BY NodeFacts DEF Init
  <2>2. \A n \in Nodes, l \in Levels : next[n][l] = Nil
    BY DEF Init
  <2>3. \A l \in Levels : LinkedOn(l) = {head_} /\ NextOn(l)[head_] = Nil
    BY <1>2, <2>1, <2>2, NodeFacts DEF LinkedOn, NextOn, Linked, Init
  <2> QED BY <2>3, NodeFacts DEF LevelsExact, Exact
<1>4. LoopPosition /\ FindsFirst /\ WalkSeesAll
  BY <1>2 DEF Init, LoopPosition, FindsFirst, WalkSeesAll
<1> QED BY <1>1, <1>3, <1>4 DEF ListInvariant

\* Every step keeps the types.
LEMMA ListTypeStep == ListInvariant /\ [Next]_vars => TypeOK'
<1> SUFFICES ASSUME TypeOK, LoopPosition, [Next]_vars PROVE TypeOK'
  BY DEF ListInvariant
<1> USE KeysAssumption, LevelAssumption, NilAssumption
<1>1. ASSUME NEW k \in Keys, NEW height \in RandomHeight,
             InsertBegin(k, height)
      PROVE  TypeOK'
  BY <1>1 DEF RandomHeight, InsertBegin, TypeOK, Nodes, Levels
<1>2. ASSUME NEW k \in Keys, FindBegin(k) PROVE TypeOK'
  BY <1>2 DEF FindBegin, TypeOK, Nodes, Levels
<1>3. ASSUME NEW walk \in {"scan", "destroy"}, WalkBegin(walk) PROVE TypeOK'
  BY <1>3 DEF WalkBegin, TypeOK, Nodes, Levels
<1>4. CASE InsertAdvance \/ FindAdvance
  <2>1. ptr' \in Keys
    BY <1>4, LinkType DEF InsertAdvance, FindAdvance, NextIsLess, LoopPosition,
       TypeOK
  <2> QED BY Zenon, <1>4, <2>1, NodeFacts DEF InsertAdvance, FindAdvance, TypeOK
<1>5. CASE InsertLink
  <2>1. ptr \in Nodes /\ target \in Keys /\ cur_level \in Levels
    BY <1>5 DEF InsertLink, LoopPosition, TypeOK
  <2>2. next' \in [Nodes -> [Levels -> Keys \cup {Nil}]]
    <3>1. target \in Nodes /\ next[ptr][cur_level] \in Keys \cup {Nil}
      BY <2>1, LinkType, NodeFacts
    <3> QED BY Zenon, <1>5, <2>1, <3>1 DEF InsertLink, TypeOK
  <2>3. cur_level' \in Levels /\ call' \in {"none", "insert"}
    BY <1>5, <2>1 DEF InsertLink, Levels
  <2> QED BY SMTT(30), <1>5, <2>2, <2>3 DEF InsertLink, TypeOK
<1>6. CASE FindReturn \/ FindDescend
  <2>1. ptr \in Nodes /\ cur_level \in Levels
    BY <1>6 DEF FindReturn, FindDescend, LoopPosition, TypeOK
  <2>2. result' \in Keys \cup {Nil}
    BY <1>6, <2>1, LinkType DEF FindReturn, FindDescend, TypeOK
  <2>3. cur_level' \in Levels
    BY <1>6, <2>1 DEF FindReturn, FindDescend, Levels
  <2> QED BY Zenon, <1>6, <2>2, <2>3 DEF FindReturn, FindDescend, TypeOK
<1>7. CASE WalkNext \/ WalkEnd
  <2>1. CASE WalkNext
    <3>1. ptr \in Keys /\ next[ptr][0] \in Keys \cup {Nil}
      BY Zenon, <2>1, LinkType, NodeFacts DEF WalkNext, LoopPosition, Inserted
    <3> QED BY <2>1, <3>1, NodeFacts DEF WalkNext, TypeOK
  <2>2. CASE WalkEnd
    BY <2>2 DEF WalkEnd, TypeOK
  <2> QED BY <1>7, <2>1, <2>2
<1>8. CASE UNCHANGED vars
  BY <1>8 DEF vars, TypeOK
<1> QED BY <1>1, <1>2, <1>3, <1>4, <1>5, <1>6, <1>7, <1>8 DEF Next, LoopStep

\* Linking the new node on one level makes it linked there, and changes the
\* links of that level only.
LEMMA LinkEffect ==
    ASSUME ListInvariant, InsertLink
    PROVE  /\ \A n \in Nodes, l \in Levels :
                 /\ Linked(n, l)' <=> Linked(n, l)
                                      \/ (n = target /\ l = cur_level)
                 /\ next'[n][l] =
                       IF l # cur_level THEN next[n][l]
                       ELSE IF n = ptr THEN target
                       ELSE IF n = target THEN next[ptr][l]
                       ELSE next[n][l]
           /\ ptr # target /\ ~Linked(target, cur_level)
<1> USE KeysAssumption, LevelAssumption, NilAssumption
<1>1. /\ TypeOK /\ ptr \in Nodes /\ target \in Keys /\ target \in Nodes
      /\ cur_level \in Levels /\ ptr < target /\ call = "insert"
      /\ cur_level < level[target]
  BY DEF ListInvariant, LoopPosition, InsertLink, TypeOK, Nodes
<1>2. ptr # target /\ ~Linked(target, cur_level)
  BY <1>1 DEF Linked, Nodes, head_, Levels
<1>3. ASSUME NEW n \in Nodes, NEW l \in Levels
      PROVE  Linked(n, l)' <=> Linked(n, l) \/ (n = target /\ l = cur_level)
  <2>1. level' = level /\ target' = target /\ level[n] \in Int
    BY <1>1 DEF InsertLink, TypeOK
  <2>2. CASE cur_level = 0
    BY <1>1, <2>1, <2>2 DEF InsertLink, Linked, Levels
  <2>3. CASE cur_level # 0
    BY <1>1, <2>1, <2>3 DEF InsertLink, Linked, Levels
  <2> QED BY <2>2, <2>3
<1>4. ASSUME NEW n \in Nodes, NEW l \in Levels
      PROVE  next'[n][l] =
                IF l # cur_level THEN next[n][l]
                ELSE IF n = ptr THEN target
                ELSE IF n = target THEN next[ptr][l]
                ELSE next[n][l]
  BY <1>1, <1>2 DEF InsertLink, TypeOK
<1> QED BY <1>2, <1>3, <1>4

\* Splicing t in behind p, where the next node is above t, keeps a level exact.
LEMMA SpliceExact ==
    ASSUME NEW S \in SUBSET Nodes, NEW f \in [Nodes -> Keys \cup {Nil}],
           NEW p \in S, NEW t \in Keys, t \notin S, p < t,
           f[p] # Nil => ~(f[p] < t), Exact(S, f),
           NEW g, g = [f EXCEPT ![p] = t, ![t] = f[p]]
    PROVE  Exact(S \cup {t}, g)
<1>1. /\ \A n \in Nodes : n \in Int /\ (f[n] # Nil => f[n] \in Int)
      /\ p \in Nodes /\ t \in Nodes /\ t \in Int /\ p # t
      /\ Nil \notin Int
  BY NodeFacts, NilAssumption
<1>2. g[p] = t /\ g[t] = f[p] /\ \A n \in Nodes \ {p, t} : g[n] = f[n]
  BY <1>1
<1>3. f[p] # Nil => f[p] > t /\ f[p] \in S
  BY <1>1 DEF Exact
<1>4. ASSUME NEW n \in S, n # p, n < t PROVE f[n] # Nil /\ f[n] <= t
  <2>1. CASE n < p
    BY <1>1, <1>4, <2>1 DEF Exact
  <2>2. CASE p < n
    BY <1>1, <1>3, <1>4, <2>2 DEF Exact
  <2> QED BY <1>1, <1>4, <2>1, <2>2
<1>5. ASSUME NEW n \in S \cup {t}, g[n] # Nil
      PROVE  n < g[n] /\ g[n] \in S \cup {t}
  BY <1>1, <1>2, <1>3, <1>5 DEF Exact
<1>6. ASSUME NEW n \in S \cup {t}, NEW k \in S \cup {t}, n < k
      PROVE  g[n] # Nil /\ g[n] <= k
  <2>1. CASE n = p
    BY <1>1, <1>2, <1>3, <1>6, <2>1 DEF Exact
  <2>2. CASE n = t
    BY <1>1, <1>2, <1>6, <2>2 DEF Exact
  <2>3. CASE n # p /\ n # t
    BY <1>1, <1>2, <1>4, <1>6, <2>3 DEF Exact
  <2> QED BY <2>1, <2>2, <2>3
<1> QED BY Zenon, <1>5, <1>6 DEF Exact

\* Every step keeps the levels exact.
LEMMA LevelsStep == ListInvariant /\ [Next]_vars => LevelsExact'
<1> SUFFICES ASSUME ListInvariant, [Next]_vars PROVE LevelsExact'
  OBVIOUS
<1>0. TypeOK /\ LevelsExact /\ LoopPosition
  BY DEF ListInvariant
<1>1. ASSUME UNCHANGED next,
             \A n \in Nodes, l \in Levels : Linked(n, l)' <=> Linked(n, l)
      PROVE  LevelsExact'
  <2>1. \A l \in Levels : LinkedOn(l)' = LinkedOn(l) /\ NextOn(l)' = NextOn(l)
    BY <1>1 DEF LinkedOn, NextOn
  <2> QED BY <1>0, <2>1 DEF LevelsExact, Exact
<1>2. ASSUME NEW k \in Keys, NEW height \in RandomHeight,
             InsertBegin(k, height)
      PROVE  LevelsExact'
  <2>1. \A l \in Levels :
           /\ LinkedOn(l)' = LinkedOn(l)
           /\ \A n \in LinkedOn(l) : NextOn(l)'[n] = NextOn(l)[n]
    <3>1. level[k] = 0 /\ k \in Nodes /\ call # "insert" /\ height \in Int
      BY <1>2, NodeFacts DEF RandomHeight, InsertBegin, Free
    <3>2. \A n \in Nodes, l \in Levels : Linked(n, l)' <=> Linked(n, l)
      BY <1>0, <1>2, <3>1, NodeFacts DEF InsertBegin, Linked, TypeOK
    <3>3. \A n \in Nodes, l \in Levels : Linked(n, l) =>
             next'[n][l] = next[n][l]
      BY <1>0, <1>2, <3>1, NodeFacts DEF InsertBegin, Linked, TypeOK
    <3> QED BY <3>2, <3>3 DEF LinkedOn, NextOn
  <2> QED BY <1>0, <2>1 DEF LevelsExact, Exact
<1>3. CASE InsertLink
  <2> SUFFICES ASSUME NEW l \in Levels
               PROVE  Exact(LinkedOn(l)', NextOn(l)')
    BY DEF LevelsExact, Exact
  <2>1. /\ ptr \in Nodes /\ target \in Keys /\ cur_level \in Levels
        /\ ptr < target /\ Linked(ptr, cur_level)
        /\ next[ptr][cur_level] # Nil => ~(next[ptr][cur_level] < target)
    BY <1>0, <1>3 DEF InsertLink, LoopPosition, NextIsLess, TypeOK
  <2>2. CASE l # cur_level
    <3>1. LinkedOn(l)' = LinkedOn(l) /\ NextOn(l)' = NextOn(l)
      BY <1>3, <2>2, LinkEffect DEF LinkedOn, NextOn
    <3> QED BY <1>0, <3>1 DEF LevelsExact
  <2>3. CASE l = cur_level
    <3> DEFINE S == LinkedOn(l)
               f == NextOn(l)
               g == NextOn(l)'
    <3>1. /\ S \in SUBSET Nodes /\ f \in [Nodes -> Keys \cup {Nil}]
          /\ ptr \in S /\ target \notin S /\ f[ptr] = next[ptr][l]
      BY <1>0, <1>3, <2>1, <2>3, LinkType, LinkEffect DEF LinkedOn, NextOn
    <3>2. LinkedOn(l)' = S \cup {target}
      BY <1>3, <2>1, <2>3, LinkEffect, NodeFacts DEF LinkedOn
    <3>3. g = [f EXCEPT ![ptr] = target, ![target] = f[ptr]]
      BY ZenonT(30), <1>3, <2>1, <2>3, LinkEffect, NodeFacts DEF NextOn
    <3>4. Exact(S, f)
      BY <1>0 DEF LevelsExact
    <3> HIDE DEF S, f, g
    <3>5. Exact(S \cup {target}, g)
      BY Zenon, <2>1, <2>3, <3>1, <3>3, <3>4, SpliceExact
    <3> QED BY <3>2, <3>5 DEF g
  <2> QED BY <2>2, <2>3
<1>4. ASSUME NEW k \in Keys, FindBegin(k) PROVE LevelsExact'
  BY <1>1, <1>4 DEF FindBegin, Free, Linked
<1>5. ASSUME NEW walk \in {"scan", "destroy"}, WalkBegin(walk)
      PROVE  LevelsExact'
  BY <1>1, <1>5 DEF WalkBegin, Free, Linked
<1>6. CASE InsertAdvance
  BY <1>1, <1>6 DEF InsertAdvance, Linked
<1>7. CASE FindAdvance \/ FindReturn \/ FindDescend
  BY <1>1, <1>7 DEF FindAdvance, FindReturn, FindDescend, Linked
<1>8. CASE WalkNext \/ WalkEnd
  BY <1>1, <1>8 DEF WalkNext, WalkEnd, Linked
<1>9. CASE UNCHANGED vars
  BY <1>1, <1>9 DEF vars, Linked
<1> QED BY <1>2, <1>3, <1>4, <1>5, <1>6, <1>7, <1>8, <1>9 DEF Next, LoopStep

\* The next node on a level, from a linked node.
LEMMA NextFacts ==
    ASSUME ListInvariant, NEW n \in Nodes, NEW l \in Levels, Linked(n, l)
    PROVE  /\ next[n][l] # Nil =>
                  next[n][l] \in Keys /\ n < next[n][l] /\ Linked(next[n][l], l)
           /\ \A k \in Keys : Linked(k, l) /\ n < k =>
                  next[n][l] # Nil /\ next[n][l] <= k
<1>1. n \in LinkedOn(l) /\ NextOn(l)[n] = next[n][l]
  BY DEF LinkedOn, NextOn
<1>2. Exact(LinkedOn(l), NextOn(l))
  BY DEF ListInvariant, LevelsExact
<1>3. \A k \in Keys : Linked(k, l) <=> k \in LinkedOn(l)
  BY NodeFacts DEF LinkedOn
<1>4. next[n][l] \in Keys \cup {Nil}
  BY LinkType DEF ListInvariant
<1> QED BY <1>1, <1>2, <1>3, <1>4 DEF Exact

\* Outside of Insert the keys linked on the bottom level are the inserted ones.
LEMMA BottomLevel ==
    ASSUME ListInvariant, call # "insert"
    PROVE  /\ \A k \in Keys : Linked(k, 0) <=> k \in Inserted
           /\ Linked(head_, 0)
  BY NodeFacts, LevelAssumption
  DEF ListInvariant, LoopPosition, Linked, Inserted, TypeOK

\* Every step leaves the loops on a linked node before their target.
LEMMA PositionStep == ListInvariant /\ [Next]_vars => LoopPosition'
<1> SUFFICES ASSUME ListInvariant, [Next]_vars PROVE LoopPosition'
  OBVIOUS
<1>0. TypeOK /\ LoopPosition
  BY DEF ListInvariant
<1>1. ASSUME NEW k \in Keys, NEW height \in RandomHeight,
             InsertBegin(k, height)
      PROVE  LoopPosition'
  <2>1. level'[head_] = kMaxLevel /\ level'[k] = height /\ head_ < k
        /\ head_ \in Nodes /\ height \in Int /\ height <= kMaxLevel
    BY <1>0, <1>1, NodeFacts, KeysAssumption, LevelAssumption
       DEF RandomHeight, InsertBegin, TypeOK, LoopPosition, head_
  <2>2. Linked(head_, cur_level)'
    BY <1>1, <2>1, NodeFacts, LevelAssumption DEF InsertBegin, Linked
  <2> QED BY <1>1, <2>1, <2>2 DEF InsertBegin, LoopPosition
<1>2. ASSUME NEW k \in Keys, FindBegin(k) PROVE LoopPosition'
  <2>1. head_ < k /\ head_ \in Nodes /\ level'[head_] = kMaxLevel
    BY <1>0, <1>2, NodeFacts, KeysAssumption DEF FindBegin, LoopPosition, head_
  <2>2. Linked(head_, cur_level)'
    BY <1>2, <2>1, LevelAssumption DEF FindBegin, Linked
  <2> QED BY <1>2, <2>1, <2>2 DEF FindBegin, LoopPosition
<1>3. ASSUME NEW walk \in {"scan", "destroy"}, WalkBegin(walk)
      PROVE  LoopPosition'
  <2>1. next[head_][0] # Nil => next[head_][0] \in Inserted
    BY <1>3, NextFacts, BottomLevel, NodeFacts DEF WalkBegin, Free
  <2> QED BY <1>0, <1>3, <2>1 DEF WalkBegin, LoopPosition, Inserted
<1>4. CASE InsertAdvance \/ FindAdvance
  <2>1. /\ ptr' \in Keys /\ ptr' < target /\ Linked(ptr', cur_level)
        /\ target \in Keys
    BY <1>0, <1>4, NextFacts
       DEF InsertAdvance, FindAdvance, NextIsLess, LoopPosition, TypeOK
  <2> QED BY <1>0, <1>4, <2>1, NodeFacts
          DEF InsertAdvance, FindAdvance, LoopPosition, Linked
<1>5. CASE InsertLink
  <2>1. /\ ptr \in Nodes /\ target \in Keys /\ cur_level \in Levels
        /\ ptr < target /\ Linked(ptr, cur_level)
        /\ cur_level < level[target] /\ call = "insert" /\ ptr # target
    BY <1>0, <1>5, LinkEffect DEF InsertLink, LoopPosition, TypeOK
  <2>2. CASE cur_level = 0
    BY <1>0, <1>5, <2>1, <2>2 DEF InsertLink, LoopPosition
  <2>3. CASE cur_level # 0
    <3>1. level[ptr] \in Int /\ level[target] \in Int /\ cur_level \in Int
      BY <1>0, <2>1, NodeFacts DEF TypeOK
    <3>2. Linked(ptr, cur_level)' /\ cur_level' < level[target]
      BY <1>5, <2>1, <2>3, <3>1 DEF InsertLink, Linked
    <3> QED BY <1>0, <1>5, <2>1, <2>3, <3>2 DEF InsertLink, LoopPosition
  <2> QED BY <2>2, <2>3
<1>6. CASE FindReturn
  BY <1>0, <1>6 DEF FindReturn, LoopPosition
<1>7. CASE FindDescend
  <2>1. /\ ptr \in Nodes /\ level[ptr] \in Int /\ cur_level \in Int
        /\ cur_level < level[ptr] /\ call = "find"
    BY <1>0, <1>7, NodeFacts DEF FindDescend, LoopPosition, Linked, TypeOK
  <2>2. Linked(ptr, cur_level)'
    BY <1>7, <2>1 DEF FindDescend, Linked
  <2> QED BY <1>0, <1>7, <2>2 DEF FindDescend, LoopPosition
<1>8. CASE WalkNext
  <2>1. next[ptr][0] # Nil => next[ptr][0] \in Inserted
    <3>1. ptr \in Inserted /\ ptr \in Keys /\ call # "insert"
      BY <1>0, <1>8 DEF WalkNext, LoopPosition, Inserted
    <3> QED BY <3>1, NextFacts, BottomLevel, NodeFacts
  <2> QED BY <1>0, <1>8, <2>1 DEF WalkNext, LoopPosition, Inserted
<1>9. CASE WalkEnd
  BY <1>0, <1>9 DEF WalkEnd, LoopPosition
<1>10. CASE UNCHANGED vars
  BY <1>0, <1>10 DEF vars, LoopPosition, Linked, Inserted
<1> QED BY <1>1, <1>2, <1>3, <1>4, <1>5, <1>6, <1>7, <1>8, <1>9, <1>10
        DEF Next, LoopStep

\* Every step keeps what a search returned right.
LEMMA FindsStep == ListInvariant /\ [Next]_vars => FindsFirst'
<1> SUFFICES ASSUME ListInvariant, [Next]_vars, call' = "found"
             PROVE  FindsFirst'
  BY DEF FindsFirst
<1>0. TypeOK /\ LoopPosition /\ FindsFirst
  BY DEF ListInvariant
<1>1. CASE FindReturn
  <2> DEFINE m == next[ptr][cur_level]
  <2>1. /\ ptr \in Nodes /\ target \in Keys /\ cur_level \in Levels
        /\ ptr < target /\ Linked(ptr, cur_level) /\ call = "find"
        /\ m # Nil => ~(m < target)
        /\ m = target \/ cur_level = 0
        /\ result' = m /\ target' = target /\ Inserted' = Inserted
    BY <1>0, <1>1 DEF FindReturn, NextIsLess, LoopPosition, TypeOK, Inserted
  <2>2. /\ m # Nil => m \in Keys /\ Linked(m, cur_level)
        /\ \A k \in Keys : Linked(k, cur_level) /\ ptr < k =>
               m # Nil /\ m <= k
    BY <2>1, NextFacts
  <2>3. m # Nil => m \in Inserted /\ m >= target
    BY <1>0, <2>1, <2>2, NodeFacts DEF Linked, Inserted, TypeOK
  <2>4. \A k \in Inserted : k >= target => m # Nil /\ m <= k
    <3>1. CASE m = target
      BY <2>1, <3>1, NodeFacts DEF Inserted
    <3>2. CASE cur_level = 0
      BY <2>1, <2>2, <3>2, BottomLevel, NodeFacts DEF Inserted
    <3> QED BY <2>1, <3>1, <3>2
  <2> HIDE DEF m
  <2>5. \A k \in Inserted : k \in Int /\ target \in Int /\ (m # Nil => m \in Int)
    BY <2>1, <2>2, NodeFacts DEF Inserted
  <2> QED BY <2>1, <2>3, <2>4, <2>5 DEF FindsFirst
<1>2. CASE UNCHANGED vars
  BY <1>0, <1>2 DEF vars, FindsFirst, Inserted
<1> QED BY <1>1, <1>2 DEF Next, LoopStep, InsertBegin, FindBegin, WalkBegin,
        InsertAdvance, InsertLink, FindAdvance, FindDescend, WalkNext, WalkEnd

\* Every step of a walk passes the next key.
LEMMA WalkStep == ListInvariant /\ [Next]_vars => WalkSeesAll'
<1> SUFFICES ASSUME ListInvariant, [Next]_vars PROVE WalkSeesAll'
  OBVIOUS
<1>0. TypeOK /\ LoopPosition /\ WalkSeesAll
  BY DEF ListInvariant
<1>1. ASSUME NEW walk \in {"scan", "destroy"}, WalkBegin(walk)
      PROVE  WalkSeesAll'
  <2> DEFINE m == next[head_][0]
  <2>1. /\ ptr' = m /\ seen' = {} /\ Inserted' = Inserted
        /\ call' \in {"scan", "destroy"}
    BY <1>1 DEF WalkBegin, Inserted
  <2>2. \A k \in Inserted : head_ < k /\ k \in Int
    BY NodeFacts DEF Inserted
  <2>3. /\ \A k \in Inserted : m # Nil /\ m <= k
        /\ m # Nil => m \in Int
    BY <1>1, <2>2, NextFacts, BottomLevel, NodeFacts
       DEF WalkBegin, Free, Inserted
  <2> HIDE DEF m
  <2>4. seen' = IF m = Nil THEN Inserted ELSE {k \in Inserted : k < m}
    BY <2>1, <2>2, <2>3
  <2> QED BY <2>1, <2>4 DEF WalkSeesAll
<1>2. CASE WalkNext
  <2> DEFINE m == next[ptr][0]
  <2>1. /\ ptr' = m /\ seen' = seen \cup {ptr} /\ Inserted' = Inserted
        /\ call' \in {"scan", "destroy"} /\ call # "insert"
        /\ ptr \in Inserted /\ ptr \in Keys
        /\ seen = {k \in Inserted : k < ptr}
    BY <1>0, <1>2 DEF WalkNext, WalkSeesAll, LoopPosition, Inserted
  <2>2. \A k \in Inserted : k \in Int
    BY NodeFacts DEF Inserted
  <2>3. /\ \A k \in Inserted : ptr < k => m # Nil /\ m <= k
        /\ m # Nil => m \in Int /\ ptr < m
    BY <2>1, NextFacts, BottomLevel, NodeFacts DEF Inserted
  <2> HIDE DEF m
  <2>4. seen' = IF m = Nil THEN Inserted ELSE {k \in Inserted : k < m}
    BY <2>1, <2>2, <2>3
  <2> QED BY <2>1, <2>4 DEF WalkSeesAll
<1>3. CASE WalkEnd
  BY <1>0, <1>3 DEF WalkEnd, WalkSeesAll, Inserted
<1>4. CASE UNCHANGED vars
  BY <1>0, <1>4 DEF vars, WalkSeesAll, Inserted
<1>5. ASSUME call' \in {"none", "insert", "find", "found"} PROVE WalkSeesAll'
  BY <1>5 DEF WalkSeesAll
<1> QED BY <1>1, <1>2, <1>3, <1>4, <1>5 DEF Next, LoopStep, InsertBegin,
        FindBegin, InsertAdvance, InsertLink, FindAdvance, FindReturn,
        FindDescend

\* The invariant of the list holds in every reachable state.
THEOREM ListInvariantHolds == Spec => []ListInvariant
<1>1. ListInvariant /\ [Next]_vars => ListInvariant'
  BY ListTypeStep, LevelsStep, PositionStep, FindsStep, WalkStep
  DEF ListInvariant
<1> QED BY <1>1, ListInit, PTL DEF Spec

\* Links, levels and loop variables keep their types.
THEOREM ListTyped == Spec => []TypeOK
<1>1. ListInvariant => TypeOK
  BY DEF ListInvariant
<1> QED BY <1>1, ListInvariantHolds, PTL

\* Insert keeps every level sorted and complete.
THEOREM LevelsStayExact == Spec => []LevelsExact
<1>1. ListInvariant => LevelsExact
  BY DEF ListInvariant
<1> QED BY <1>1, ListInvariantHolds, PTL

\* FindFirstGreaterOrEqual is right whatever heights RandomHeight chose.
THEOREM FindIsRight == Spec => []FindsFirst
<1>1. ListInvariant => FindsFirst
  BY DEF ListInvariant
<1> QED BY <1>1, ListInvariantHolds, PTL

\* The iterator, from which BuildTable writes a table, visits every key, and
\* the destructor frees every node.
THEOREM WalksAreComplete == Spec => []WalkSeesAll
<1>1. ListInvariant => WalkSeesAll
  BY DEF ListInvariant
<1> QED BY <1>1, ListInvariantHolds, PTL

\* The asserts of get_n_node and set_n_node never fail.
THEOREM AccessesAreLegal == Spec => []AccessWithinLevel
<1>1. ListInvariant => AccessWithinLevel
  BY NodeFacts DEF ListInvariant, LoopPosition, AccessWithinLevel, Linked,
     Inserted
<1> QED BY <1>1, ListInvariantHolds, PTL
=============================================================================
