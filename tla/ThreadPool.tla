----------------------------- MODULE ThreadPool -----------------------------
(***************************************************************************)
(* The pool of the server: workers that wait on a condition variable for   *)
(* tasks, threads that enqueue them, and the destructor that stops and     *)
(* joins the workers.  A step is one critical section of queue_mutex, one  *)
(* notification (sent after the mutex is released) or one task.            *)
(***************************************************************************)
EXTENDS Integers, Sequences, FiniteSets

CONSTANTS
    Workers,   \* the threads of the pool
    Jobs,      \* tasks, each enqueued by a thread of its own
    None       \* no task

ASSUME WorkersAssumption == Workers # {}
ASSUME NoneAssumption == None \notin Jobs

VARIABLES
    tasks,
    stop,
    worker,    \* worker -> where it is
    running,   \* worker -> the task it has moved out of the queue
    caller,    \* job -> how far the enqueue that submits it has come
    finished,  \* jobs whose task has returned
    destructor \* how far ~ThreadPool has come

vars == <<tasks, stop, worker, running, caller, finished, destructor>>

\* Types of the state of the pool and of the threads around it.
TypeOK ==
    /\ tasks \in Seq(Jobs)
    /\ stop \in BOOLEAN
    /\ worker \in [Workers -> {"ready", "waiting", "task", "exited"}]
    /\ running \in [Workers -> Jobs \cup {None}]
    /\ caller \in [Jobs -> {"before", "notify", "returned", "threw"}]
    /\ finished \subseteq Jobs
    /\ destructor \in {"before", "notify", "join", "returned"}

Init ==
    /\ tasks = <<>>
    /\ stop = FALSE
    /\ worker = [w \in Workers |-> "ready"]
    /\ running = [w \in Workers |-> None]
    /\ caller = [j \in Jobs |-> "before"]
    /\ finished = {}
    /\ destructor = "before"

-----------------------------------------------------------------------------
(* enqueue *)

\* Wrong: the new task takes the place of those that wait.
Enqueue_Replaces(j) ==
    /\ caller[j] = "before" /\ ~stop
    /\ tasks' = <<j>>
    /\ caller' = [caller EXCEPT ![j] = "notify"]
    /\ UNCHANGED <<stop, worker, running, finished, destructor>>

Enqueue(j) ==
    /\ caller[j] = "before" /\ ~stop
    /\ tasks' = Append(tasks, j)
    /\ caller' = [caller EXCEPT ![j] = "notify"]
    /\ UNCHANGED <<stop, worker, running, finished, destructor>>

\* enqueue on a stopped pool throws; the pool is still there until the
\* destructor returns.
EnqueueThrows(j) ==
    /\ caller[j] = "before" /\ stop /\ destructor # "returned"
    /\ caller' = [caller EXCEPT ![j] = "threw"]
    /\ UNCHANGED <<tasks, stop, worker, running, finished, destructor>>

\* Workers in the wait; a notification moves one of them, or all, to "ready".
Waiting == {w \in Workers : worker[w] = "waiting"}

\* Wrong: no notification.
NotifyOne_Silent(j) ==
    /\ caller[j] = "notify"
    /\ caller' = [caller EXCEPT ![j] = "returned"]
    /\ UNCHANGED <<tasks, stop, worker, running, finished, destructor>>

NotifyOne(j) ==
    /\ caller[j] = "notify"
    /\ caller' = [caller EXCEPT ![j] = "returned"]
    /\ IF Waiting = {} THEN UNCHANGED worker
       ELSE \E w \in Waiting : worker' = [worker EXCEPT ![w] = "ready"]
    /\ UNCHANGED <<tasks, stop, running, finished, destructor>>

-----------------------------------------------------------------------------
(* A worker: the critical section, and the call of the task. *)

\* The predicate of the wait is false.
Wait(w) ==
    /\ worker[w] = "ready" /\ ~stop /\ tasks = <<>>
    /\ worker' = [worker EXCEPT ![w] = "waiting"]
    /\ UNCHANGED <<tasks, stop, running, caller, finished, destructor>>

\* Wrong: a stopped pool leaves its queue.
Exit_Early(w) ==
    /\ worker[w] = "ready" /\ stop
    /\ worker' = [worker EXCEPT ![w] = "exited"]
    /\ UNCHANGED <<tasks, stop, running, caller, finished, destructor>>

Exit(w) ==
    /\ worker[w] = "ready" /\ stop /\ tasks = <<>>
    /\ worker' = [worker EXCEPT ![w] = "exited"]
    /\ UNCHANGED <<tasks, stop, running, caller, finished, destructor>>

\* Wrong: front without pop.
Take_Peeks(w) ==
    /\ worker[w] = "ready" /\ tasks # <<>>
    /\ worker' = [worker EXCEPT ![w] = "task"]
    /\ running' = [running EXCEPT ![w] = Head(tasks)]
    /\ UNCHANGED <<tasks, stop, caller, finished, destructor>>

Take(w) ==
    /\ worker[w] = "ready" /\ tasks # <<>>
    /\ worker' = [worker EXCEPT ![w] = "task"]
    /\ running' = [running EXCEPT ![w] = Head(tasks)]
    /\ tasks' = Tail(tasks)
    /\ UNCHANGED <<stop, caller, finished, destructor>>

\* packaged_task keeps what the task throws, so the worker always goes on.
Run(w) ==
    /\ worker[w] = "task"
    /\ finished' = finished \cup {running[w]}
    /\ worker' = [worker EXCEPT ![w] = "ready"]
    /\ running' = [running EXCEPT ![w] = None]
    /\ UNCHANGED <<tasks, stop, caller, destructor>>

\* A wait may return without a notification.
WakeSpuriously(w) ==
    /\ worker[w] = "waiting"
    /\ worker' = [worker EXCEPT ![w] = "ready"]
    /\ UNCHANGED <<tasks, stop, running, caller, finished, destructor>>

-----------------------------------------------------------------------------
(* ~ThreadPool *)

Stop ==
    /\ destructor = "before"
    /\ stop' = TRUE
    /\ destructor' = "notify"
    /\ UNCHANGED <<tasks, worker, running, caller, finished>>

\* Wrong: notify_one where all have to leave.
NotifyAll_One ==
    /\ destructor = "notify"
    /\ IF Waiting = {} THEN UNCHANGED worker
       ELSE \E w \in Waiting : worker' = [worker EXCEPT ![w] = "ready"]
    /\ destructor' = "join"
    /\ UNCHANGED <<tasks, stop, running, caller, finished>>

NotifyAll ==
    /\ destructor = "notify"
    /\ worker' = [w \in Workers |->
                     IF w \in Waiting THEN "ready" ELSE worker[w]]
    /\ destructor' = "join"
    /\ UNCHANGED <<tasks, stop, running, caller, finished>>

Join ==
    /\ destructor = "join"
    /\ \A w \in Workers : worker[w] = "exited"
    /\ destructor' = "returned"
    /\ UNCHANGED <<tasks, stop, worker, running, caller, finished>>

-----------------------------------------------------------------------------

WorkerStep(w) == Wait(w) \/ Exit(w) \/ Take(w) \/ Run(w)

Next ==
    \/ \E j \in Jobs : Enqueue(j) \/ EnqueueThrows(j) \/ NotifyOne(j)
    \/ \E w \in Workers : WorkerStep(w) \/ WakeSpuriously(w)
    \/ Stop \/ NotifyAll \/ Join

Spec == Init /\ [][Next]_vars

\* Every thread that can go on does: callers that owe a notification, workers,
\* and the destructor once it has begun.
FairSpec ==
    /\ Spec
    /\ \A j \in Jobs : WF_vars(NotifyOne(j))
    /\ \A w \in Workers : WF_vars(WorkerStep(w))
    /\ WF_vars(NotifyAll) /\ WF_vars(Join)

-----------------------------------------------------------------------------
(* Properties *)

Queued == {tasks[i] : i \in DOMAIN tasks}
Running == {running[w] : w \in Workers} \ {None}
Accepted == {j \in Jobs : caller[j] \in {"notify", "returned"}}

\* Each task that enqueue accepted is in exactly one place: once in the queue,
\* with one worker, or finished.  No task is dropped and none runs twice.
EachJobOnce ==
    /\ Accepted = Queued \cup Running \cup finished
    /\ Queued \cap Running = {} /\ (Queued \cup Running) \cap finished = {}
    /\ \A i, k \in DOMAIN tasks : tasks[i] = tasks[k] => i = k
    /\ \A v, w \in Workers :
          running[v] = running[w] /\ running[v] # None => v = w

\* No wakeup is lost although the notifications come after the mutex is
\* released: while a task is in the queue some worker is awake or will be
\* notified, and once the pool is stopped a waiting worker will be.
NoLostWakeup ==
    /\ tasks # <<>> =>
          \/ \E w \in Workers : worker[w] \in {"ready", "task"}
          \/ \E j \in Jobs : caller[j] = "notify"
          \/ destructor = "notify"
    /\ stop /\ Waiting # {} => destructor = "notify"

\* When the destructor returns every accepted task has run.
DrainedAtExit ==
    destructor = "returned" => Accepted = finished

\* What makes the properties above inductive: a worker in a task has one and
\* the others have none, stop is set exactly from the destructor's first step
\* on, and a worker has left only a stopped pool with an empty queue.
Bookkeeping ==
    /\ \A w \in Workers : worker[w] = "task" <=> running[w] # None
    /\ stop <=> destructor # "before"
    /\ \A w \in Workers : worker[w] = "exited" => stop /\ tasks = <<>>
    /\ destructor = "returned" => \A w \in Workers : worker[w] = "exited"

\* The inductive invariant of the pool.
PoolInvariant == TypeOK /\ EachJobOnce /\ NoLostWakeup /\ Bookkeeping

\* An accepted task runs: the worker loop comes back to the queue until it is
\* empty.
AcceptedJobsRun ==
    \A j \in Jobs : j \in Accepted ~> j \in finished

\* Joining ends: a destructor that has begun returns.
DestructorReturns == stop ~> destructor = "returned"

=============================================================================
