------------------------------- MODULE Server -------------------------------
(***************************************************************************)
(* The server: an event loop that accepts connections and turns readiness  *)
(* events into tasks, and the workers that run the tasks: read a request,  *)
(* call the database, answer, close.                                       *)
(*                                                                         *)
(* A task captures the loop's locals conn_fd and connection by reference,  *)
(* so it has no data of its own: every use reads what the loop's frame     *)
(* holds by then (the unoptimised build that CMakeLists.txt asks for keeps *)
(* one slot for each local).  Use of a null or freed connection, and the   *)
(* end of the lambda without a return, are undefined and end the model; so *)
(* does the SIGPIPE of a write, which nothing in the program catches.      *)
(*                                                                         *)
(* The bytes of client c's request are the parts <<c, 1>>, <<c, 2>>, ...   *)
(* A connection object is named by the client whose accept created it.     *)
(***************************************************************************)
EXTENDS Integers, Sequences, FiniteSets

CONSTANTS
    Clients,
    Fds,        \* descriptors that accept can return
    Workers,    \* threads of the pool
    Parts,      \* parts in which a request may arrive
    None,       \* no client
    Null,       \* a null connection
    Listen      \* the event of listen_fd

ASSUME ServerAssumption ==
    /\ Fds \subseteq Nat /\ IsFiniteSet(Fds) /\ Parts \in Nat \ {0}
    /\ {None, Null} \cap Clients = {} /\ None # Null /\ Listen \notin Fds

VARIABLES
    conn,       \* client -> "none", "backlog", "accepted" or "closed"
    sent,       \* client -> parts that it has sent
    unread,     \* client -> parts in its socket
    left,       \* clients that have shut down their end
    reset,      \* clients whose connection was reset
    answers,    \* client -> requests whose answers it was sent
    fdt,        \* descriptor -> client behind it
    ready,      \* descriptors with an edge that epoll has not reported
    batch,      \* events that the loop has yet to handle
    pc,         \* of the loop: "top", "get", "enqueue"
    slot,       \* its locals conn_fd and connection
    storage,    \* connection_storage: descriptor -> connection, None if absent
    obj,        \* connection -> its members read and req
    queued,     \* tasks in the pool's queue
    job,        \* worker -> its task
    undefined,  \* the program has ended or left what the language defines
    causes      \* orders of events that the code does not guard against

network == <<conn, sent, unread, left, reset>>
loop == <<batch, pc, slot>>
vars == <<network, answers, fdt, ready, loop, storage, obj, queued, job,
          undefined, causes>>

Idle == [pc |-> "idle", fd |-> 0, conn |-> None, req |-> <<>>]

Init ==
    /\ conn = [c \in Clients |-> "none"] /\ sent = [c \in Clients |-> 0]
    /\ unread = [c \in Clients |-> <<>>] /\ left = {} /\ reset = {}
    /\ answers = [c \in Clients |-> <<>>]
    /\ fdt = [f \in Fds |-> None] /\ ready = {}
    /\ batch = <<>> /\ pc = "top" /\ slot = [fd |-> 0, conn |-> Null]
    /\ storage = [f \in Fds |-> None]
    /\ obj = [c \in Clients |-> [read |-> <<>>, req |-> <<>>]]
    /\ queued = 0 /\ job = [w \in Workers |-> Idle]
    /\ undefined = FALSE /\ causes = {}

-----------------------------------------------------------------------------
(* Clients *)

\* An edge on c's socket, once c has been accepted.
Edge(c) == ready' = ready \cup {f \in Fds : fdt[f] = c}

Connect(c) ==
    /\ conn[c] = "none"
    /\ conn' = [conn EXCEPT ![c] = "backlog"]
    /\ UNCHANGED <<sent, unread, left, reset, answers, fdt, ready, loop, storage,
                   obj, queued, job, undefined, causes>>

Send(c) ==
    /\ conn[c] \in {"backlog", "accepted"} /\ c \notin left \cup reset
    /\ sent[c] < Parts
    /\ sent' = [sent EXCEPT ![c] = @ + 1]
    /\ unread' = [unread EXCEPT ![c] = Append(@, <<c, sent'[c]>>)]
    /\ Edge(c)
    /\ UNCHANGED <<conn, left, reset, answers, fdt, loop, storage, obj, queued,
                   job, undefined, causes>>

\* The client closes its end: the server reads the rest and then 0 bytes.
Leave(c) ==
    /\ conn[c] \in {"backlog", "accepted"} /\ c \notin left \cup reset
    /\ left' = left \cup {c}
    /\ Edge(c)
    /\ UNCHANGED <<conn, sent, unread, reset, answers, fdt, loop, storage, obj,
                   queued, job, undefined, causes>>

\* The connection is reset: what has arrived can still be read, and then
\* ::read fails, or returns 0 where the client had closed its end before.
Reset(c) ==
    /\ conn[c] \in {"backlog", "accepted"} /\ c \notin reset
    /\ reset' = reset \cup {c}
    /\ Edge(c)
    /\ UNCHANGED <<conn, sent, unread, left, answers, fdt, loop, storage, obj,
                   queued, job, undefined, causes>>

\* What epoll reports as EPOLLIN.
Readable(c) == unread[c] # <<>> \/ c \in left \cup reset

-----------------------------------------------------------------------------
(* The event loop *)

Backlog == {c \in Clients : conn[c] = "backlog"}

Unfinished == queued > 0 \/ \E w \in Workers : job[w].pc # "idle"

\* The orders in which epoll may report a set of events.
Orders(S) ==
    {s \in [1..Cardinality(S) -> S] : \A e \in S : \E i \in DOMAIN s : s[i] = e}

\* epoll_wait reports every ready descriptor; listen_fd is level-triggered.
Wait ==
    /\ pc = "top" /\ batch = <<>>
    /\ LET events == {[fd |-> f, client |-> fdt[f]] : f \in ready} \cup
                     {[fd |-> Listen, client |-> None] : c \in Backlog}
       IN events # {} /\ batch' \in Orders(events)
    /\ ready' = {}
    /\ UNCHANGED <<network, answers, fdt, pc, slot, storage, obj, queued, job,
                   undefined, causes>>

\* Descriptors are given out lowest first.
LowestFree(f) ==
    fdt[f] = None /\ \A g \in Fds : fdt[g] = None => f <= g

\* Wrong: the edge of data that has come before create_event is lost.
Accept_Deaf(f, c) ==
    /\ pc = "top" /\ batch # <<>> /\ Head(batch).fd = Listen
    /\ LowestFree(f) /\ c \in Backlog
    /\ conn' = [conn EXCEPT ![c] = "accepted"]
    /\ fdt' = [fdt EXCEPT ![f] = c]
    /\ storage' = [storage EXCEPT ![f] = c]
    /\ batch' = Tail(batch)
    /\ UNCHANGED <<sent, unread, left, reset, answers, ready, pc, slot, obj,
                   queued, job, undefined, causes>>

\* accept, create_event, and a new connection in the place of any old one.
Accept(f, c) ==
    /\ pc = "top" /\ batch # <<>> /\ Head(batch).fd = Listen
    /\ LowestFree(f) /\ c \in Backlog
    /\ conn' = [conn EXCEPT ![c] = "accepted"]
    /\ fdt' = [fdt EXCEPT ![f] = c]
    /\ ready' = ready \cup {g \in {f} : Readable(c)}
    /\ storage' = [storage EXCEPT ![f] = c]
    /\ batch' = Tail(batch)
    /\ causes' = causes \cup
          {x \in {"reuse"} : slot.fd = f /\ \E w \in Workers : job[w].pc = "erase"}
    /\ UNCHANGED <<sent, unread, left, reset, answers, pc, slot, obj, queued,
                   job, undefined>>

\* accept returns -1, say for want of a descriptor, and the client waits on.
AcceptFails ==
    /\ pc = "top" /\ batch # <<>> /\ Head(batch).fd = Listen
    /\ batch' = Tail(batch)
    /\ UNCHANGED <<network, answers, fdt, ready, pc, slot, storage, obj,
                   queued, job, undefined, causes>>

\* conn_fd of the next event; tasks of earlier events refer to the same slot.
BeginEvent ==
    /\ pc = "top" /\ batch # <<>> /\ Head(batch).fd # Listen
    /\ LET e == Head(batch) IN
       /\ slot' = [slot EXCEPT !.fd = e.fd]
       /\ causes' = causes \cup {x \in {"overlap"} : Unfinished}
                           \cup {x \in {"stale"} : fdt[e.fd] # e.client}
    /\ pc' = "get"
    /\ UNCHANGED <<network, answers, fdt, ready, batch, storage, obj, queued,
                   job, undefined>>

\* connection_storage.get inserts a null connection for an absent descriptor.
Get ==
    /\ pc = "get"
    /\ LET there == IF storage[slot.fd] = None THEN Null ELSE storage[slot.fd]
       IN /\ storage' = [storage EXCEPT ![slot.fd] = there]
          /\ slot' = [slot EXCEPT !.conn = there]
    /\ pc' = "enqueue"
    /\ UNCHANGED <<network, answers, fdt, ready, batch, obj, queued, job,
                   undefined, causes>>

\* The future is dropped and the locals go out of scope.
Enqueue ==
    /\ pc = "enqueue"
    /\ queued' = queued + 1
    /\ pc' = "top" /\ batch' = Tail(batch)
    /\ UNCHANGED <<network, answers, fdt, ready, slot, storage, obj, job,
                   undefined, causes>>

-----------------------------------------------------------------------------
(* A task *)

\* A connection lives as long as a shared_ptr to it: in the map, in the scope
\* of the loop's iteration, or as the parameter of Parser::read.
Alive(o) ==
    /\ o # Null
    /\ \/ \E f \in Fds : storage[f] = o
       \/ pc = "enqueue" /\ slot.conn = o
       \/ \E w \in Workers : job[w].pc = "read" /\ job[w].conn = o

GoesWrong ==
    /\ undefined' = TRUE
    /\ UNCHANGED <<network, answers, fdt, ready, loop, storage, obj, queued,
                   job, causes>>

\* Parser::read is called with copies of both locals and makes a new request.
Start(w) ==
    /\ job[w].pc = "idle" /\ queued > 0
    /\ Alive(slot.conn)
    /\ queued' = queued - 1
    /\ job' = [job EXCEPT ![w] =
                  [pc |-> "read", fd |-> slot.fd, conn |-> slot.conn, req |-> <<>>]]
    /\ obj' = [obj EXCEPT ![slot.conn].req = <<>>]
    /\ UNCHANGED <<network, answers, fdt, ready, loop, storage, undefined,
                   causes>>

StartGoesWrong(w) ==
    job[w].pc = "idle" /\ queued > 0 /\ ~Alive(slot.conn) /\ GoesWrong

\* ::read returns bytes or the end of the stream.
CanRead(f) ==
    fdt[f] # None /\ (unread[fdt[f]] # <<>> \/ fdt[f] \in left)

\* ::read returns -1: the descriptor is closed, its socket has nothing yet, or
\* it was reset and has no more.
ReadFails(f) ==
    fdt[f] # None =>
        unread[fdt[f]] = <<>> /\ (fdt[f] \in reset \/ fdt[f] \notin left)

\* The n parts that fit the buffer, at least one of a socket that is not empty,
\* join those of the connection; parse_all makes a request of all of them,
\* complete or not.
Read(w, n) ==
    /\ job[w].pc = "read" /\ CanRead(job[w].fd)
    /\ LET c == fdt[job[w].fd]
           all == obj[job[w].conn].read \o SubSeq(unread[c], 1, n)
       IN /\ n <= Len(unread[c]) /\ (n = 0 => unread[c] = <<>>)
          /\ obj' = [obj EXCEPT ![job[w].conn] = [read |-> all, req |-> all]]
          /\ unread' = [unread EXCEPT ![c] = SubSeq(@, n + 1, Len(@))]
    /\ job' = [job EXCEPT ![w].pc = "execute"]
    /\ UNCHANGED <<conn, sent, left, reset, answers, fdt, ready, loop, storage,
                   queued, undefined, causes>>

\* Parser::read returns false and the lambda ends without a return.
ReadGoesWrong(w) ==
    job[w].pc = "read" /\ ReadFails(job[w].fd) /\ GoesWrong

\* The request of the connection that the slot holds by now goes to the
\* database; without bytes there is no operation and no answer.
Execute(w) ==
    /\ job[w].pc = "execute" /\ Alive(slot.conn)
    /\ LET r == obj[slot.conn].req IN
       job' = [job EXCEPT ![w].req = r,
                          ![w].pc = IF r = <<>> THEN "close" ELSE "answer"]
    /\ UNCHANGED <<network, answers, fdt, ready, loop, storage, obj, queued,
                   undefined, causes>>

ExecuteGoesWrong(w) ==
    job[w].pc = "execute" /\ ~Alive(slot.conn) /\ GoesWrong

\* Wrong: a case of the switch without its break.
Answer_Twice(w) ==
    /\ job[w].pc = "answer"
    /\ LET c == fdt[slot.fd] IN
       answers' = IF c \in {None} \cup reset THEN answers
                  ELSE [answers EXCEPT ![c] = @ \o <<job[w].req, job[w].req>>]
    /\ job' = [job EXCEPT ![w].pc = "close"]
    /\ UNCHANGED <<network, fdt, ready, loop, storage, obj, queued, undefined,
                   causes>>

\* The call of the database returns, which it need not, and ::write answers;
\* its result is not looked at.
Answer(w) ==
    /\ job[w].pc = "answer"
    /\ LET c == fdt[slot.fd] IN
       answers' = IF c \in {None} \cup reset THEN answers
                  ELSE [answers EXCEPT ![c] = Append(@, job[w].req)]
    /\ job' = [job EXCEPT ![w].pc = "close"]
    /\ UNCHANGED <<network, fdt, ready, loop, storage, obj, queued, undefined,
                   causes>>

\* SIGPIPE: ::write to a connection that was reset ends the process.
AnswerGoesWrong(w) ==
    job[w].pc = "answer" /\ fdt[slot.fd] \in reset /\ GoesWrong

\* Wrong: the connection is dropped from the map and left open.
Close_Forgets(w) ==
    /\ job[w].pc = "close"
    /\ job' = [job EXCEPT ![w].pc = "erase"]
    /\ UNCHANGED <<network, answers, fdt, ready, loop, storage, obj, queued,
                   undefined, causes>>

\* close takes the descriptor from epoll too, though not from the batch.
Close(w) ==
    /\ job[w].pc = "close"
    /\ conn' = [c \in Clients |-> IF fdt[slot.fd] = c THEN "closed" ELSE conn[c]]
    /\ fdt' = [fdt EXCEPT ![slot.fd] = None]
    /\ ready' = ready \ {slot.fd}
    /\ job' = [job EXCEPT ![w].pc = "erase"]
    /\ UNCHANGED <<sent, unread, left, reset, answers, loop, storage, obj,
                   queued, undefined, causes>>

\* Wrong: the connection stays in the map.
Erase_Keeps(w) ==
    /\ job[w].pc = "erase"
    /\ job' = [job EXCEPT ![w] = Idle]
    /\ UNCHANGED <<network, answers, fdt, ready, loop, storage, obj, queued,
                   undefined, causes>>

Erase(w) ==
    /\ job[w].pc = "erase"
    /\ storage' = [storage EXCEPT ![slot.fd] = None]
    /\ job' = [job EXCEPT ![w] = Idle]
    /\ UNCHANGED <<network, answers, fdt, ready, loop, obj, queued, undefined,
                   causes>>

-----------------------------------------------------------------------------

LoopStep ==
    \/ Wait \/ AcceptFails \/ BeginEvent \/ Get \/ Enqueue
    \/ \E f \in Fds, c \in Clients : Accept(f, c)

TaskStep(w) ==
    \/ Start(w) \/ Execute(w) \/ Close(w) \/ Erase(w)
    \/ \E n \in 0..Parts : Read(w, n)
    \/ StartGoesWrong(w) \/ ReadGoesWrong(w) \/ ExecuteGoesWrong(w)

DatabaseStep(w) == Answer(w) \/ AnswerGoesWrong(w)

ClientStep == \E c \in Clients : Connect(c) \/ Send(c) \/ Leave(c) \/ Reset(c)

Next ==
    /\ ~undefined
    /\ LoopStep \/ ClientStep \/ \E w \in Workers : TaskStep(w) \/ DatabaseStep(w)

Spec == Init /\ [][Next]_vars

\* The loop and the workers are scheduled; clients may stop, and a call of the
\* database may wait for ever.
FairSpec ==
    /\ Spec
    /\ WF_vars(~undefined /\ LoopStep)
    /\ \A w \in Workers : WF_vars(~undefined /\ TaskStep(w))

-----------------------------------------------------------------------------
(* Properties *)

(***************************************************************************)
(* The properties hold as long as none of three things has happened: the   *)
(* loop took up an event while a task was unfinished (overlap), accept     *)
(* returned a descriptor that a task had closed and not yet erased         *)
(* (reuse), or the loop took up an event of a connection that was closed   *)
(* after epoll had reported it (stale).  The code prevents none of them;   *)
(* with a connection that is reset they are all that can go wrong.         *)
(***************************************************************************)
Undisturbed == causes = {}

\* A task is about to read from, or write to, a connection that was reset.
ResetInHand ==
    \E w \in Workers : job[w].pc \in {"read", "answer"} /\ fdt[slot.fd] \in reset

\* No task meets a null or freed connection, a closed descriptor or an empty
\* socket: only the connection in hand, reset by its client, ends the program.
TasksAreDefined == Undisturbed /\ undefined => ResetInHand

\* The first n parts of c's request.
Request(c, n) == [p \in 1..n |-> <<c, p>>]

\* A client gets at most one answer, to a request of its own bytes, from the
\* first one on.
OwnAnswers ==
    Undisturbed => \A c \in Clients :
        /\ Len(answers[c]) <= 1
        /\ \A i \in DOMAIN answers[c] :
              answers[c][i] = Request(c, Len(answers[c][i]))

\* Between tasks the map has a connection for each open descriptor, the one
\* that its accept made, and no other.
StorageMatches ==
    Undisturbed /\ ~Unfinished /\ pc = "top" => storage = fdt

\* If the calls of the database return, a client that was accepted and has sent
\* something, left or reset its connection is served: the connection is closed
\* in the end, unless a reset ends the program.
ServesEveryClient ==
    (\A w \in Workers : []<>(job[w].pc # "answer")) =>
        \A c \in Clients :
            conn[c] = "accepted" /\ (sent[c] > 0 \/ c \in left \cup reset)
                ~> conn[c] = "closed" \/ ~Undisturbed \/ undefined

-----------------------------------------------------------------------------
(* The invariant behind the first three properties *)

Part == Clients \X (1..Parts)

Event == [fd : Fds \cup {Listen}, client : Clients \cup {None}]

Connection == [read : Seq(Part), req : Seq(Part)]

Job ==
    [pc : {"idle", "read", "execute", "answer", "close", "erase"},
     fd : Fds \cup {0}, conn : Clients \cup {None}, req : Seq(Part)]

TypeOK ==
    /\ conn \in [Clients -> {"none", "backlog", "accepted", "closed"}]
    /\ sent \in [Clients -> 0..Parts] /\ unread \in [Clients -> Seq(Part)]
    /\ left \subseteq Clients /\ reset \subseteq Clients
    /\ answers \in [Clients -> Seq(Seq(Part))]
    /\ fdt \in [Fds -> Clients \cup {None}] /\ ready \subseteq Fds
    /\ batch \in Seq(Event)
    /\ pc \in {"top", "get", "enqueue"} /\ (pc # "top" => batch # <<>>)
    /\ slot \in [fd : Fds \cup {0}, conn : Clients \cup {Null}]
    /\ storage \in [Fds -> Clients \cup {None, Null}]
    /\ obj \in [Clients -> Connection]
    /\ queued \in Nat /\ job \in [Workers -> Job]
    /\ \A w \in Workers : job[w].pc = "read" =>
          job[w].fd \in Fds /\ job[w].conn \in Clients
    /\ pc # "top" \/ Unfinished => slot.fd \in Fds
    /\ undefined \in BOOLEAN /\ causes \subseteq {"overlap", "reuse", "stale"}

Busy(phases) == \E w \in Workers : job[w].pc \in phases

\* A task has read from c and not yet closed its descriptor.
Served(c) == Busy({"execute", "answer", "close"}) /\ fdt[slot.fd] = c

\* c's socket has something to report, or a task has read from it.
Pending(c) == Readable(c) \/ Served(c)

\* One event is in hand at a time, with the loop or with one worker.
OneAtATime ==
    /\ pc # "top" => ~Unfinished
    /\ queued <= 1
    /\ \A w \in Workers : job[w].pc # "idle" =>
          queued = 0 /\ \A v \in Workers : job[v].pc # "idle" => v = w

\* Each client has at most one descriptor, and the map has its connection there.
TablesAgree ==
    /\ \A f \in Fds : fdt[f] # None =>
          /\ conn[fdt[f]] = "accepted"
          /\ \A g \in Fds : fdt[g] = fdt[f] => g = f
    /\ Busy({"erase"}) => fdt[slot.fd] = None
    /\ \A f \in Fds : storage[f] = fdt[f] \/ (f = slot.fd /\ Busy({"erase"}))

\* An edge, or an event of a connection that is still open, finds something to
\* read.
EdgesPending == \A f \in ready : fdt[f] # None /\ Pending(fdt[f])

EventPending(e) ==
    /\ e.client \in Clients /\ conn[e.client] \in {"accepted", "closed"}
    /\ fdt[e.fd] = e.client => Pending(e.client)

EventsPending ==
    \A i \in DOMAIN batch : batch[i].fd # Listen => EventPending(batch[i])

\* The slot still describes the event in hand.
SlotCurrent ==
    /\ pc # "top" \/ queued > 0 \/ Busy({"read"}) =>
          fdt[slot.fd] # None /\ Readable(fdt[slot.fd])
    /\ pc = "enqueue" \/ queued > 0 \/ Busy({"read", "execute"}) =>
          slot.conn = fdt[slot.fd]
    /\ Busy({"execute", "answer", "close"}) => fdt[slot.fd] # None
    /\ \A w \in Workers : job[w].pc = "read" =>
          job[w].fd = slot.fd /\ job[w].conn = slot.conn

\* What was read of a client, and what it was sent.
BytesInOrder ==
    /\ \A c \in Clients : conn[c] # "closed" /\ ~Served(c) =>
          unread[c] = Request(c, sent[c]) /\ obj[c].read = <<>>
    /\ \A c \in Clients :
          conn[c] # "closed" /\ ~(Busy({"close"}) /\ fdt[slot.fd] = c) =>
              answers[c] = <<>>
    /\ \A w \in Workers : job[w].pc \in {"execute", "answer"} =>
          LET c == fdt[slot.fd]
              r == IF job[w].pc = "execute" THEN obj[c].req ELSE job[w].req
          IN r = Request(c, Len(r))

Orderly ==
    /\ OneAtATime /\ TablesAgree /\ EdgesPending /\ EventsPending
    /\ SlotCurrent /\ BytesInOrder /\ OwnAnswers

ServerInductive == TypeOK /\ (Undisturbed => Orderly) /\ TasksAreDefined

=============================================================================
