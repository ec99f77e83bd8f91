-------------------------- MODULE ThreadPoolProofs --------------------------
(* Proofs about ThreadPool, for any number of workers and tasks. *)
EXTENDS ThreadPool, TLAPS

\* What Append does to the queue as a set, and that it keeps its elements
\* distinct.
LEMMA AppendQueued ==
    ASSUME NEW q \in Seq(Jobs), NEW j \in Jobs, NEW r, r = Append(q, j)
    PROVE  /\ {r[i] : i \in DOMAIN r} = {q[i] : i \in DOMAIN q} \cup {j}
           /\ j \notin {q[i] : i \in DOMAIN q}
                 /\ (\A i, k \in DOMAIN q : q[i] = q[k] => i = k)
              => \A i, k \in DOMAIN r : r[i] = r[k] => i = k
           /\ r # <<>>
<1>1. /\ DOMAIN q = 1..Len(q) /\ Len(q) \in Nat
      /\ DOMAIN r = 1..(Len(q) + 1) /\ r[Len(q) + 1] = j
      /\ \A i \in 1..Len(q) : r[i] = q[i]
  OBVIOUS
<1>2. {r[i] : i \in DOMAIN r} = {q[i] : i \in DOMAIN q} \cup {j}
  <2>1. \A i \in DOMAIN r : r[i] \in {q[k] : k \in DOMAIN q} \cup {j}
    BY <1>1
  <2>2. \A i \in DOMAIN q : q[i] \in {r[k] : k \in DOMAIN r}
    BY <1>1
  <2>3. j \in {r[k] : k \in DOMAIN r}
    BY <1>1
  <2> QED BY ZenonT(30), <2>1, <2>2, <2>3
<1>3. ASSUME j \notin {q[i] : i \in DOMAIN q},
             \A i, k \in DOMAIN q : q[i] = q[k] => i = k,
             NEW i \in DOMAIN r, NEW k \in DOMAIN r, r[i] = r[k]
      PROVE  i = k
  BY <1>1, <1>3
<1>4. r # <<>>
  BY <1>1
<1> QED BY SMTT(30), <1>2, <1>3, <1>4

\* What taking the head does: the rest holds the other elements, distinct.
LEMMA TailQueued ==
    ASSUME NEW q \in Seq(Jobs), q # <<>>, NEW r \in Seq(Jobs), r = Tail(q),
           \A i, k \in DOMAIN q : q[i] = q[k] => i = k
    PROVE  /\ Head(q) \in Jobs /\ r \in Seq(Jobs)
           /\ {q[i] : i \in DOMAIN q} = {r[i] : i \in DOMAIN r} \cup {Head(q)}
           /\ Head(q) \notin {r[i] : i \in DOMAIN r}
           /\ \A i, k \in DOMAIN r : r[i] = r[k] => i = k
<1>1. /\ DOMAIN q = 1..Len(q) /\ Len(q) \in Nat /\ Len(q) > 0
      /\ DOMAIN r = 1..(Len(q) - 1) /\ Head(q) = q[1]
      /\ \A i \in 1..(Len(q) - 1) : r[i] = q[i + 1]
      /\ Head(q) \in Jobs /\ r \in Seq(Jobs)
  OBVIOUS
<1>2. \A i \in DOMAIN r : r[i] \in {q[k] : k \in DOMAIN q} /\ r[i] # q[1]
  BY <1>1
<1>3. \A i \in DOMAIN q : q[i] \in {r[k] : k \in DOMAIN r} \cup {q[1]}
  <2> SUFFICES ASSUME NEW i \in DOMAIN q, i # 1
               PROVE  q[i] \in {r[k] : k \in DOMAIN r}
    OBVIOUS
  <2>1. i - 1 \in DOMAIN r /\ r[i - 1] = q[i]
    BY <1>1
  <2> QED BY <2>1
<1>4. q[1] \in {q[k] : k \in DOMAIN q}
  BY <1>1
<1>5. \A i, k \in DOMAIN r : r[i] = r[k] => i = k
  BY <1>1
<1> QED BY <1>1, <1>2, <1>3, <1>4, <1>5

\* The invariant holds when the constructor returns.
LEMMA PoolInit == Init => PoolInvariant
<1> SUFFICES ASSUME Init PROVE PoolInvariant
  OBVIOUS
<1>1. TypeOK
  <2>1. tasks \in Seq(Jobs) /\ running \in [Workers -> Jobs \cup {None}]
    BY DEF Init
  <2> QED BY Zenon, <2>1 DEF Init, TypeOK
<1>2. Queued = {} /\ Running = {} /\ Accepted = {} /\ finished = {}
  BY DEF Init, Queued, Running, Accepted
<1>3. EachJobOnce
  BY <1>2 DEF Init, EachJobOnce
<1>4. NoLostWakeup /\ Bookkeeping
  BY DEF Init, NoLostWakeup, Bookkeeping
<1> QED BY <1>1, <1>3, <1>4 DEF PoolInvariant

\* Every step keeps the types.
LEMMA PoolTypeStep == TypeOK /\ EachJobOnce /\ Bookkeeping /\ [Next]_vars
                         => TypeOK'
<1> SUFFICES ASSUME TypeOK, EachJobOnce, Bookkeeping, [Next]_vars PROVE TypeOK'
  OBVIOUS
<1>1. ASSUME NEW j \in Jobs, Enqueue(j) PROVE TypeOK'
  BY <1>1 DEF Enqueue, TypeOK
<1>2. ASSUME NEW j \in Jobs, EnqueueThrows(j) PROVE TypeOK'
  BY <1>2 DEF EnqueueThrows, TypeOK
<1>3. ASSUME NEW j \in Jobs, NotifyOne(j) PROVE TypeOK'
  BY <1>3 DEF NotifyOne, Waiting, TypeOK
<1>4. ASSUME NEW w \in Workers, Wait(w) \/ Exit(w) \/ WakeSpuriously(w)
      PROVE  TypeOK'
  BY <1>4 DEF Wait, Exit, WakeSpuriously, TypeOK
<1>5. ASSUME NEW w \in Workers, Take(w) PROVE TypeOK'
  BY <1>5, TailQueued DEF Take, TypeOK, EachJobOnce
<1>6. ASSUME NEW w \in Workers, Run(w) PROVE TypeOK'
  BY <1>6 DEF Run, TypeOK, Bookkeeping
<1>7. CASE Stop \/ NotifyAll \/ Join
  BY Zenon, <1>7 DEF Stop, NotifyAll, Join, TypeOK
<1>8. CASE UNCHANGED vars
  BY <1>8 DEF vars, TypeOK
<1> QED BY <1>1, <1>2, <1>3, <1>4, <1>5, <1>6, <1>7, <1>8 DEF Next, WorkerStep

\* Every step keeps stop, the workers' states and their tasks in agreement.
LEMMA BookkeepingStep == PoolInvariant /\ [Next]_vars => Bookkeeping'
<1> SUFFICES ASSUME TypeOK, Bookkeeping, [Next]_vars PROVE Bookkeeping'
  BY DEF PoolInvariant
<1>1. ASSUME NEW j \in Jobs, Enqueue(j) PROVE Bookkeeping'
  BY <1>1 DEF Enqueue, TypeOK, Bookkeeping
<1>2. ASSUME NEW j \in Jobs, EnqueueThrows(j) PROVE Bookkeeping'
  BY <1>2 DEF EnqueueThrows, Bookkeeping
<1>3. ASSUME NEW j \in Jobs, NotifyOne(j) PROVE Bookkeeping'
  BY <1>3 DEF NotifyOne, Waiting, TypeOK, Bookkeeping
<1>4. ASSUME NEW w \in Workers, Wait(w) \/ Exit(w) \/ WakeSpuriously(w)
      PROVE  Bookkeeping'
  BY <1>4 DEF Wait, Exit, WakeSpuriously, TypeOK, Bookkeeping
<1>5. ASSUME NEW w \in Workers, Take(w) PROVE Bookkeeping'
  <2>1. Head(tasks) # None
    BY <1>5, NoneAssumption DEF Take, TypeOK
  <2> QED BY <1>5, <2>1 DEF Take, TypeOK, Bookkeeping
<1>6. ASSUME NEW w \in Workers, Run(w) PROVE Bookkeeping'
  BY <1>6 DEF Run, TypeOK, Bookkeeping
<1>7. CASE Stop \/ NotifyAll \/ Join
  BY <1>7 DEF Stop, NotifyAll, Join, Waiting, TypeOK, Bookkeeping
<1>8. CASE UNCHANGED vars
  BY <1>8 DEF vars, Bookkeeping
<1> QED BY <1>1, <1>2, <1>3, <1>4, <1>5, <1>6, <1>7, <1>8 DEF Next, WorkerStep

\* Every step keeps the promise of a wakeup.
LEMMA WakeupStep == PoolInvariant /\ [Next]_vars => NoLostWakeup'
<1> SUFFICES ASSUME TypeOK, NoLostWakeup, Bookkeeping, [Next]_vars
             PROVE  NoLostWakeup'
  BY DEF PoolInvariant
<1>1. ASSUME NEW j \in Jobs, Enqueue(j) PROVE NoLostWakeup'
  BY <1>1 DEF Enqueue, TypeOK, NoLostWakeup, Waiting
<1>2. ASSUME NEW j \in Jobs, EnqueueThrows(j) PROVE NoLostWakeup'
  BY <1>2 DEF EnqueueThrows, TypeOK, NoLostWakeup, Waiting
<1>3. ASSUME NEW j \in Jobs, NotifyOne(j) PROVE NoLostWakeup'
  <2>1. CASE Waiting = {}
    <3>1. tasks # <<>> => \E w \in Workers : worker[w] \in {"ready", "task"}
      BY <2>1, WorkersAssumption DEF TypeOK, Bookkeeping, Waiting
    <3> QED BY <1>3, <2>1, <3>1 DEF NotifyOne, NoLostWakeup, Waiting
  <2>2. CASE Waiting # {}
    <3>1. PICK w \in Waiting : worker' = [worker EXCEPT ![w] = "ready"]
      BY <1>3, <2>2 DEF NotifyOne
    <3>2. worker'[w] = "ready" /\ Waiting' \subseteq Waiting /\ w \in Workers
      BY <3>1 DEF Waiting, TypeOK
    <3> QED BY <1>3, <3>2 DEF NotifyOne, NoLostWakeup
  <2> QED BY <2>1, <2>2
<1>4. ASSUME NEW w \in Workers, Wait(w) \/ Exit(w) \/ WakeSpuriously(w)
      PROVE  NoLostWakeup'
  BY <1>4 DEF Wait, Exit, WakeSpuriously, TypeOK, NoLostWakeup, Waiting
<1>5. ASSUME NEW w \in Workers, Take(w) \/ Run(w) PROVE NoLostWakeup'
  <2>1. worker'[w] \in {"ready", "task"} /\ Waiting' \subseteq Waiting
    BY <1>5 DEF Take, Run, TypeOK, Waiting
  <2> QED BY <1>5, <2>1 DEF Take, Run, NoLostWakeup
<1>6. CASE Stop
  BY <1>6 DEF Stop, NoLostWakeup
<1>7. CASE NotifyAll
  <2>1. Waiting' = {}
    BY <1>7 DEF NotifyAll, Waiting
  <2>2. tasks # <<>> => \A w \in Workers : worker'[w] \in {"ready", "task"}
    BY <1>7 DEF NotifyAll, Waiting, TypeOK, Bookkeeping
  <2> QED BY <1>7, <2>1, <2>2, WorkersAssumption DEF NotifyAll, NoLostWakeup
<1>8. CASE Join
  BY <1>8 DEF Join, NoLostWakeup, Waiting
<1>9. CASE UNCHANGED vars
  BY <1>9 DEF vars, NoLostWakeup, Waiting
<1> QED BY <1>1, <1>2, <1>3, <1>4, <1>5, <1>6, <1>7, <1>8, <1>9
        DEF Next, WorkerStep

\* Every step keeps each accepted task in one place.
LEMMA OnceStep == PoolInvariant /\ [Next]_vars => EachJobOnce'
<1> SUFFICES ASSUME TypeOK, EachJobOnce, Bookkeeping, [Next]_vars
             PROVE  EachJobOnce'
  BY DEF PoolInvariant
<1>0. ASSUME UNCHANGED <<tasks, running, finished>>, Accepted' = Accepted
      PROVE  EachJobOnce'
  BY <1>0 DEF EachJobOnce, Queued, Running
<1>1. ASSUME NEW j \in Jobs, Enqueue(j) PROVE EachJobOnce'
  <2>1. j \notin Accepted /\ Accepted' = Accepted \cup {j}
    BY <1>1 DEF Enqueue, Accepted, TypeOK
  <2>2. Running' = Running /\ finished' = finished
    BY <1>1 DEF Enqueue, Running
  <2>3. /\ Queued' = Queued \cup {j}
        /\ (\A i, k \in DOMAIN tasks : tasks[i] = tasks[k] => i = k)'
    <3>1. tasks \in Seq(Jobs) /\ tasks' = Append(tasks, j)
      BY <1>1 DEF Enqueue, TypeOK
    <3>2. j \notin {tasks[i] : i \in DOMAIN tasks}
      BY <2>1 DEF EachJobOnce, Queued
    <3>3. \A i, k \in DOMAIN tasks : tasks[i] = tasks[k] => i = k
      BY DEF EachJobOnce
    <3> QED BY <3>1, <3>2, <3>3, AppendQueued DEF Queued
  <2>4. (\A v, w \in Workers :
           running[v] = running[w] /\ running[v] # None => v = w)'
    BY <1>1 DEF Enqueue, EachJobOnce
  <2> QED BY <2>1, <2>2, <2>3, <2>4 DEF EachJobOnce
<1>2. ASSUME NEW j \in Jobs, EnqueueThrows(j) \/ NotifyOne(j)
      PROVE  EachJobOnce'
  <2>1. Accepted' = Accepted
    BY <1>2 DEF EnqueueThrows, NotifyOne, Accepted, TypeOK
  <2> QED BY <1>0, <1>2, <2>1 DEF EnqueueThrows, NotifyOne
<1>3. ASSUME NEW w \in Workers, Wait(w) \/ Exit(w) \/ WakeSpuriously(w)
      PROVE  EachJobOnce'
  BY <1>0, <1>3 DEF Wait, Exit, WakeSpuriously, Accepted
<1>4. ASSUME NEW w \in Workers, Take(w) PROVE EachJobOnce'
  <2> DEFINE h == Head(tasks)
  <2>1. /\ h \in Jobs /\ Queued = Queued' \cup {h} /\ h \notin Queued'
        /\ (\A i, k \in DOMAIN tasks : tasks[i] = tasks[k] => i = k)'
    <3>1. tasks \in Seq(Jobs) /\ tasks # <<>> /\ tasks' = Tail(tasks)
      BY <1>4 DEF Take, TypeOK
    <3>2. \A i, k \in DOMAIN tasks : tasks[i] = tasks[k] => i = k
      BY DEF EachJobOnce
    <3> DEFINE q == tasks
               r == tasks'
    <3>3. q \in Seq(Jobs) /\ q # <<>> /\ r = Tail(q) /\ r \in Seq(Jobs)
          /\ \A i, k \in DOMAIN q : q[i] = q[k] => i = k
      BY <3>1, <3>2
    <3> HIDE DEF q, r
    <3>4. /\ Head(q) \in Jobs /\ Head(q) \notin {r[i] : i \in DOMAIN r}
          /\ {q[i] : i \in DOMAIN q} = {r[i] : i \in DOMAIN r} \cup {Head(q)}
          /\ \A i, k \in DOMAIN r : r[i] = r[k] => i = k
      BY ZenonT(30), <3>3, TailQueued
    <3> QED BY <3>4 DEF Queued, q, r
  <2>2. running[w] = None /\ running' = [running EXCEPT ![w] = h]
    BY <1>4 DEF Take, Bookkeeping
  <2> HIDE DEF h
  <2>3. h # None /\ h \notin Running /\ h \notin finished
    BY <2>1, NoneAssumption DEF EachJobOnce
  <2>4. Running' = Running \cup {h}
    BY <2>2, <2>3 DEF Running, TypeOK
  <2>5. (\A u, v \in Workers :
           running[u] = running[v] /\ running[u] # None => u = v)'
    BY <2>2, <2>3 DEF Running, EachJobOnce, TypeOK
  <2>6. Accepted' = Accepted /\ finished' = finished
    BY <1>4 DEF Take, Accepted
  <2> QED BY <2>1, <2>3, <2>4, <2>5, <2>6 DEF EachJobOnce
<1>5. ASSUME NEW w \in Workers, Run(w) PROVE EachJobOnce'
  <2>1. running[w] \in Running /\ running' = [running EXCEPT ![w] = None]
    BY <1>5 DEF Run, Running, Bookkeeping
  <2>2. Running' = Running \ {running[w]}
    BY <2>1 DEF Running, EachJobOnce, TypeOK
  <2>3. Queued' = Queued /\ Accepted' = Accepted /\ UNCHANGED tasks
        /\ finished' = finished \cup {running[w]}
    BY <1>5 DEF Run, Queued, Accepted
  <2>4. (\A u, v \in Workers :
           running[u] = running[v] /\ running[u] # None => u = v)'
    BY <2>1 DEF EachJobOnce, TypeOK
  <2> QED BY <2>1, <2>2, <2>3, <2>4 DEF EachJobOnce
<1>6. CASE Stop \/ NotifyAll \/ Join
  BY <1>0, <1>6 DEF Stop, NotifyAll, Join, Accepted
<1>7. CASE UNCHANGED vars
  BY <1>0, <1>7 DEF vars, Accepted
<1> QED BY <1>1, <1>2, <1>3, <1>4, <1>5, <1>6, <1>7 DEF Next, WorkerStep

\* The invariant of the pool holds in every reachable state.
THEOREM PoolInvariantHolds == Spec => []PoolInvariant
<1>1. PoolInvariant /\ [Next]_vars => PoolInvariant'
  BY PoolTypeStep, BookkeepingStep, WakeupStep, OnceStep DEF PoolInvariant
<1> QED BY <1>1, PoolInit, PTL DEF Spec

\* Workers, tasks and destructor keep their types.
THEOREM PoolTyped == Spec => []TypeOK
<1>1. PoolInvariant => TypeOK
  BY DEF PoolInvariant
<1> QED BY <1>1, PoolInvariantHolds, PTL

\* enqueue and the worker loop neither lose a task nor run one twice.
THEOREM TasksAreKept == Spec => []EachJobOnce
<1>1. PoolInvariant => EachJobOnce
  BY DEF PoolInvariant
<1> QED BY <1>1, PoolInvariantHolds, PTL

\* Notifying outside the mutex loses no wakeup.
THEOREM WakeupsAreKept == Spec => []NoLostWakeup
<1>1. PoolInvariant => NoLostWakeup
  BY DEF PoolInvariant
<1> QED BY <1>1, PoolInvariantHolds, PTL

\* ~ThreadPool returns only after every accepted task has run.
THEOREM PoolDrains == Spec => []DrainedAtExit
<1>1. ASSUME PoolInvariant, destructor = "returned" PROVE Accepted = finished
  <2>1. \A w \in Workers : worker[w] = "exited"
    BY <1>1 DEF PoolInvariant, Bookkeeping
  <2>2. tasks = <<>> /\ Running = {}
    BY <1>1, <2>1, WorkersAssumption DEF PoolInvariant, Bookkeeping, Running
  <2>3. Queued = {}
    BY <2>2 DEF Queued
  <2> QED BY <1>1, <2>2, <2>3 DEF PoolInvariant, EachJobOnce
<1>2. PoolInvariant => DrainedAtExit
  BY <1>1 DEF DrainedAtExit
<1> QED BY <1>2, PoolInvariantHolds, PTL
=============================================================================
