------------------------------ MODULE SkipList ------------------------------
(***************************************************************************)
(* The skip list of a memtable, link by link.  A key is its rank in the    *)
(* order of the comparator.  A step is one iteration of the loop of        *)
(* Insert, of FindFirstGreaterOrEqual, of the Iterator or of the           *)
(* destructor.  The callers exclude one another from a list that changes   *)
(* (DBimpl::rwlock_), so one call runs at a time.                          *)
(***************************************************************************)
EXTENDS Integers

CONSTANTS
    Keys,         \* ranks of the keys
    kMaxLevel,    \* kSkipListNodeMaxLevel
    Nil           \* nullptr

ASSUME KeysAssumption == Keys \subseteq Nat
ASSUME LevelAssumption == kMaxLevel \in Nat \ {0}
ASSUME NilAssumption == Nil \notin Int

VARIABLES
    level,      \* node -> its level, 0 while there is no such node
    next,       \* node -> level -> the next node
    call,       \* the call that runs
    target,     \* its argument
    ptr,
    cur_level,
    result,     \* what the last search found
    seen        \* the nodes that the iterator or the destructor has passed

vars == <<level, next, call, target, ptr, cur_level, result, seen>>

\* The dummy node; it stands before every key.
head_ == -1

Nodes == Keys \cup {head_}
Levels == 0..(kMaxLevel - 1)
RandomHeight == 1..kMaxLevel
Inserted == {k \in Keys : level[k] > 0}

\* Types of the nodes and of the locals of the loops.
TypeOK ==
    /\ level \in [Nodes -> 0..kMaxLevel]
    /\ next \in [Nodes -> [Levels -> Keys \cup {Nil}]]
    /\ call \in {"none", "insert", "find", "found", "scan", "scanned",
                 "destroy", "destroyed"}
    /\ target \in Keys \cup {Nil}
    /\ ptr \in Nodes \cup {Nil}
    /\ cur_level \in Levels
    /\ result \in Keys \cup {Nil}
    /\ seen \subseteq Keys

Init ==
    /\ level = [n \in Nodes |-> IF n = head_ THEN kMaxLevel ELSE 0]
    /\ next = [n \in Nodes |-> [l \in Levels |-> Nil]]
    /\ call = "none"
    /\ target = Nil
    /\ ptr = head_
    /\ cur_level = 0
    /\ result = Nil
    /\ seen = {}

\* No call is running: a search or an iteration that has returned is over.
Free == call \in {"none", "found", "scanned"}

\* Compare(next_ptr->Key(), memtable_key) < 0 for the next node of ptr.
NextIsLess ==
    /\ next[ptr][cur_level] # Nil
    /\ next[ptr][cur_level] < target

-----------------------------------------------------------------------------
(* Insert *)

\* The keys inserted are unique: each has a sequence number of its own.
InsertBegin(k, height) ==
    /\ Free
    /\ level[k] = 0
    /\ level' = [level EXCEPT ![k] = height]
    /\ next' = [next EXCEPT ![k] = [l \in Levels |-> Nil]]
    /\ call' = "insert"
    /\ target' = k
    /\ ptr' = head_
    /\ cur_level' = height - 1
    /\ seen' = {}
    /\ UNCHANGED result

InsertAdvance ==
    /\ call = "insert"
    /\ NextIsLess
    /\ ptr' = next[ptr][cur_level]
    /\ UNCHANGED <<level, next, call, target, cur_level, result, seen>>

\* Wrong: the new node takes the place of the rest of the list.
InsertLink_Cuts ==
    /\ call = "insert"
    /\ ~NextIsLess
    /\ next' = [next EXCEPT ![ptr][cur_level] = target]
    /\ IF cur_level = 0
       THEN call' = "none" /\ UNCHANGED cur_level
       ELSE cur_level' = cur_level - 1 /\ UNCHANGED call
    /\ UNCHANGED <<level, target, ptr, result, seen>>

InsertLink ==
    /\ call = "insert"
    /\ ~NextIsLess
    /\ next' = [next EXCEPT ![ptr][cur_level] = target,
                            ![target][cur_level] = next[ptr][cur_level]]
    /\ IF cur_level = 0
       THEN call' = "none" /\ UNCHANGED cur_level
       ELSE cur_level' = cur_level - 1 /\ UNCHANGED call
    /\ UNCHANGED <<level, target, ptr, result, seen>>

-----------------------------------------------------------------------------
(* FindFirstGreaterOrEqual *)

FindBegin(k) ==
    /\ Free
    /\ call' = "find"
    /\ target' = k
    /\ ptr' = head_
    /\ cur_level' = kMaxLevel - 1
    /\ seen' = {}
    /\ UNCHANGED <<level, next, result>>

FindAdvance ==
    /\ call = "find"
    /\ NextIsLess
    /\ ptr' = next[ptr][cur_level]
    /\ UNCHANGED <<level, next, call, target, cur_level, result, seen>>

\* Wrong: the first node that is not less, on whatever level.
FindReturn_AnyLevel ==
    /\ call = "find"
    /\ ~NextIsLess
    /\ next[ptr][cur_level] # Nil \/ cur_level = 0
    /\ result' = next[ptr][cur_level]
    /\ call' = "found"
    /\ UNCHANGED <<level, next, target, ptr, cur_level, seen>>

\* The key itself, on any level, or what the bottom level leads to.
FindReturn ==
    /\ call = "find"
    /\ ~NextIsLess
    /\ next[ptr][cur_level] = target \/ cur_level = 0
    /\ result' = next[ptr][cur_level]
    /\ call' = "found"
    /\ UNCHANGED <<level, next, target, ptr, cur_level, seen>>

\* Wrong: looks at the same level again.
FindDescend_Stays ==
    /\ call = "find"
    /\ ~NextIsLess
    /\ next[ptr][cur_level] # target /\ cur_level # 0
    /\ UNCHANGED vars

FindDescend ==
    /\ call = "find"
    /\ ~NextIsLess
    /\ next[ptr][cur_level] # target /\ cur_level # 0
    /\ cur_level' = cur_level - 1
    /\ UNCHANGED <<level, next, call, target, ptr, result, seen>>

-----------------------------------------------------------------------------
(* The Iterator, from its construction on, and the destructor: both walk   *)
(* along the bottom level.                                                 *)

\* Wrong: the walk starts behind the first node.
WalkBegin_Second(walk) ==
    /\ Free
    /\ call' = walk
    /\ ptr' = IF next[head_][0] = Nil THEN Nil ELSE next[next[head_][0]][0]
    /\ seen' = {}
    /\ UNCHANGED <<level, next, target, cur_level, result>>

WalkBegin(walk) ==
    /\ Free
    /\ call' = walk
    /\ ptr' = next[head_][0]
    /\ seen' = {}
    /\ UNCHANGED <<level, next, target, cur_level, result>>

WalkNext ==
    /\ call \in {"scan", "destroy"}
    /\ ptr # Nil
    /\ seen' = seen \cup {ptr}
    /\ ptr' = next[ptr][0]
    /\ UNCHANGED <<level, next, call, target, cur_level, result>>

WalkEnd ==
    /\ call \in {"scan", "destroy"}
    /\ ptr = Nil
    /\ call' = IF call = "scan" THEN "scanned" ELSE "destroyed"
    /\ UNCHANGED <<level, next, target, ptr, cur_level, result, seen>>

-----------------------------------------------------------------------------

LoopStep ==
    \/ InsertAdvance \/ InsertLink
    \/ FindAdvance \/ FindReturn \/ FindDescend
    \/ WalkNext \/ WalkEnd

Next ==
    \/ \E k \in Keys, height \in RandomHeight : InsertBegin(k, height)
    \/ \E k \in Keys : FindBegin(k)
    \/ \E walk \in {"scan", "destroy"} : WalkBegin(walk)
    \/ LoopStep

Spec == Init /\ [][Next]_vars

\* A call that has begun keeps running.
FairSpec == Spec /\ WF_vars(LoopStep)

-----------------------------------------------------------------------------
(* Properties *)

\* n is linked on level l: Insert links a new node from its top level down.
Linked(n, l) ==
    /\ l < level[n]
    /\ call = "insert" /\ n = target => l > cur_level

LinkedOn(l) == {n \in Nodes : Linked(n, l)}
NextOn(l) == [n \in Nodes |-> next[n][l]]

\* Following f from each node of S leads to the closest node of S above it.
Exact(S, f) ==
    \A n \in S :
        /\ f[n] # Nil => n < f[n] /\ f[n] \in S
        /\ \A k \in S : n < k => f[n] # Nil /\ f[n] <= k

\* On every level each node leads to the closest linked node above it, also
\* while Insert is under way: the levels are sorted, no node is skipped, and a
\* node reached on a level has that level.
LevelsExact == \A l \in Levels : Exact(LinkedOn(l), NextOn(l))

\* The asserts of get_n_node and set_n_node: a node is only asked for a level
\* that it has.
AccessWithinLevel ==
    /\ call \in {"insert", "find"} => ptr # Nil /\ cur_level < level[ptr]
    /\ call = "insert" => cur_level < level[target]
    /\ call \in {"scan", "destroy"} /\ ptr # Nil => 0 < level[ptr]

\* FindFirstGreaterOrEqual returns the first inserted key that is not less than
\* its argument, or false when there is none.
FindsFirst ==
    call = "found" =>
        IF result = Nil THEN \A k \in Inserted : k < target
        ELSE /\ result \in Inserted /\ result >= target
             /\ \A k \in Inserted : k >= target => k >= result

\* The iterator has passed exactly the keys below the one it stands on, so an
\* iteration visits every key in order; the destructor frees every node.
WalkSeesAll ==
    /\ call \in {"scan", "destroy"} =>
          seen = IF ptr = Nil THEN Inserted
                 ELSE {k \in Inserted : k < ptr}
    /\ call \in {"scanned", "destroyed"} => seen = Inserted

\* What the loops keep: they stand on a linked node before the target.
LoopPosition ==
    /\ level[head_] = kMaxLevel
    /\ call = "insert" => target \in Keys
    /\ call \in {"insert", "find"} =>
          /\ target \in Keys /\ ptr \in Nodes /\ ptr < target
          /\ Linked(ptr, cur_level)
    /\ call = "insert" => cur_level < level[target]
    /\ call \in {"scan", "destroy"} => ptr = Nil \/ ptr \in Inserted
    /\ call = "found" => target \in Keys

\* The inductive invariant of the list.
ListInvariant ==
    TypeOK /\ LevelsExact /\ LoopPosition /\ FindsFirst /\ WalkSeesAll

\* The loops end: no call runs for ever.
LoopsEnd == []<>(Free \/ call = "destroyed")

=============================================================================
