---------------------------- MODULE ServerProofs ----------------------------
(***************************************************************************)
(* Proofs about Server, for any number of clients, descriptors, workers    *)
(* and parts: while none of the three orders of events that the code does  *)
(* not guard against has happened, each task serves the connection that it *)
(* was made for, and nothing but a reset connection ends the program.      *)
(***************************************************************************)
EXTENDS Server, SequenceTheorems, FiniteSetTheorems, TLAPS

-----------------------------------------------------------------------------
(* Sequences *)

\* What is left of the events when the loop is done with the first.
LEMMA TailOfBatch ==
    ASSUME NEW s \in Seq(Event), s # <<>>
    PROVE  /\ Tail(s) \in Seq(Event) /\ Head(s) \in Event
           /\ 1 \in DOMAIN s /\ Head(s) = s[1]
           /\ \A i \in DOMAIN Tail(s) : i + 1 \in DOMAIN s /\ Tail(s)[i] = s[i + 1]
  OBVIOUS

\* An order in which epoll may report finitely many events is a sequence.
LEMMA OrdersAreSequences ==
    ASSUME NEW S, IsFiniteSet(S), NEW s \in Orders(S)
    PROVE  s \in Seq(S) /\ \A i \in DOMAIN s : s[i] \in S
PROOF
<1>1. Cardinality(S) \in Nat
  BY Zenon, FS_CardinalityType
<1>2. s \in [1..Cardinality(S) -> S]
  BY Zenon DEF Orders
<1> QED
  BY <1>1, <1>2, IsASeq

\* What epoll_wait has to report.
Events == {[fd |-> f, client |-> fdt[f]] : f \in ready}
             \cup {[fd |-> Listen, client |-> None] : c \in Backlog}

\* The events epoll_wait can report are finitely many, of known descriptors.
LEMMA EventsFinite ==
    ASSUME TypeOK
    PROVE  IsFiniteSet(Events) /\ Events \subseteq Event
PROOF
<1> DEFINE E1 == {[fd |-> f, client |-> fdt[f]] : f \in ready}
           E2 == {[fd |-> Listen, client |-> None] : c \in Backlog}
           g == [f \in ready |-> [fd |-> f, client |-> fdt[f]]]
<1>1. IsFiniteSet(ready)
  BY Zenon, ServerAssumption, FS_Subset DEF TypeOK
<1>2. g \in Surjection(ready, E1)
  BY Zenon DEF Surjection
<1>3. IsFiniteSet(E1)
  BY Zenon, <1>1, <1>2, FS_Surjection
<1>4. IsFiniteSet({[fd |-> Listen, client |-> None]})
  BY Zenon, FS_Singleton
<1>5. E2 \subseteq {[fd |-> Listen, client |-> None]}
  BY Zenon
<1>6. IsFiniteSet(E2)
  BY Zenon, <1>4, <1>5, FS_Subset
<1>7. IsFiniteSet(Events)
  BY Zenon, <1>3, <1>6, FS_Union DEF Events
<1>8. Events \subseteq Event
  BY DEF Events, Event, TypeOK
<1> QED
  BY Zenon, <1>7, <1>8

\* epoll_wait fills the array with events that are ready.
LEMMA WaitBatch ==
    ASSUME TypeOK, Wait
    PROVE  batch' \in Seq(Event) /\ \A i \in DOMAIN batch' : batch'[i] \in Events
PROOF
<1>1. batch' \in Orders(Events)
  BY Zenon DEF Wait, Events
<1>2. batch' \in Seq(Events) /\ \A i \in DOMAIN batch' : batch'[i] \in Events
  BY Zenon, <1>1, EventsFinite, OrdersAreSequences
<1> QED
  BY Zenon, <1>2, EventsFinite, SeqMonotonic

-----------------------------------------------------------------------------
(* Types *)

Phases == {"idle", "read", "execute", "answer", "close", "erase"}

\* A worker without a task has a job record too.
LEMMA IdleIsJob == Idle \in Job /\ Idle.pc = "idle"
PROOF
<1>1. <<>> \in Seq(Part)
  OBVIOUS
<1> QED
  BY Zenon, <1>1 DEF Idle, Job

\* A worker goes on to another phase of its task.
LEMMA JobMoves ==
    ASSUME job \in [Workers -> Job], NEW w \in Workers, NEW p \in Phases,
           job' = [job EXCEPT ![w].pc = p]
    PROVE  /\ job' \in [Workers -> Job]
           /\ job'[w].pc = p /\ job'[w].fd = job[w].fd
           /\ job'[w].conn = job[w].conn /\ job'[w].req = job[w].req
           /\ \A v \in Workers : v # w => job'[v] = job[v]
  BY Zenon DEF Job, Phases

\* A worker gets a task, a request or nothing to do.
LEMMA JobReplaced ==
    ASSUME job \in [Workers -> Job], NEW w \in Workers, NEW j \in Job,
           job' = [job EXCEPT ![w] = j]
    PROVE  /\ job' \in [Workers -> Job] /\ job'[w] = j
           /\ \A v \in Workers : v # w => job'[v] = job[v]
  BY Zenon

\* What the types say of a task that is about to read.
LEMMA ReadTyped ==
    ASSUME TypeOK, NEW w \in Workers, job[w].pc = "read"
    PROVE  job[w].fd \in Fds /\ job[w].conn \in Clients
  BY Zenon DEF TypeOK

\* A task that runs has a descriptor in the loop's local.
LEMMA BusySlot ==
    ASSUME TypeOK, NEW w \in Workers, job[w].pc # "idle"
    PROVE  slot.fd \in Fds
  BY Zenon DEF TypeOK, Unfinished

\* The state before the first iteration of the loop is well typed.
LEMMA TypeInit == Init => TypeOK
PROOF
<1> SUFFICES ASSUME Init PROVE TypeOK
  BY Zenon
<1>1. /\ unread \in [Clients -> Seq(Part)] /\ answers \in [Clients -> Seq(Seq(Part))]
      /\ obj \in [Clients -> Connection] /\ batch \in Seq(Event)
  BY DEF Init, Connection
<1>2. /\ job \in [Workers -> Job] /\ \A w \in Workers : job[w].pc = "idle"
  BY Zenon, IdleIsJob DEF Init
<1>3. sent \in [Clients -> 0..Parts]
  BY ServerAssumption DEF Init
<1>4. /\ slot \in [fd : Fds \cup {0}, conn : Clients \cup {Null}]
      /\ conn \in [Clients -> {"none", "backlog", "accepted", "closed"}]
      /\ fdt \in [Fds -> Clients \cup {None}]
      /\ storage \in [Fds -> Clients \cup {None, Null}]
  BY Zenon DEF Init
<1>5. ~Unfinished /\ queued \in Nat
  BY <1>2 DEF Init, Unfinished
<1> QED
  BY Zenon, <1>1, <1>2, <1>3, <1>4, <1>5 DEF Init, TypeOK

\* Every step of clients, loop and workers keeps the types.
LEMMA TypeStep ==
    ASSUME TypeOK, [Next]_vars
    PROVE  TypeOK'
PROOF
<1> USE DEF network, loop
<1>0. job \in [Workers -> Job] /\ fdt \in [Fds -> Clients \cup {None}]
  BY Zenon DEF TypeOK
<1>1. CASE UNCHANGED vars
  BY Zenon, <1>1 DEF vars, TypeOK, Unfinished
<1>2. ASSUME NEW c \in Clients, Connect(c)
      PROVE  TypeOK'
  BY Zenon, <1>2 DEF Connect, TypeOK, Unfinished
<1>3. ASSUME NEW c \in Clients, Send(c)
      PROVE  TypeOK'
  <2>1. sent' \in [Clients -> 0..Parts] /\ sent'[c] \in 1..Parts
    BY <1>3, ServerAssumption DEF Send, TypeOK
  <2>2. unread' \in [Clients -> Seq(Part)]
    BY <1>3, <2>1 DEF Send, Part, TypeOK
  <2>3. ready' \subseteq Fds
    BY Zenon, <1>3 DEF Send, Edge, TypeOK
  <2> QED
    BY Zenon, <1>3, <2>1, <2>2, <2>3 DEF Send, TypeOK, Unfinished
<1>4. ASSUME NEW c \in Clients, Leave(c)
      PROVE  TypeOK'
  BY Zenon, <1>4 DEF Leave, Edge, TypeOK, Unfinished
<1>41. ASSUME NEW c \in Clients, Reset(c)
       PROVE  TypeOK'
  BY Zenon, <1>41 DEF Reset, Edge, TypeOK, Unfinished
<1>5. CASE Wait
  <2>1. batch' \in Seq(Event)
    BY Zenon, <1>5, WaitBatch
  <2> QED
    BY Zenon, <1>5, <2>1 DEF Wait, TypeOK, Unfinished
<1>6. ASSUME NEW f \in Fds, NEW c \in Clients, Accept(f, c)
      PROVE  TypeOK'
  <2>1. batch' \in Seq(Event)
    BY Zenon, <1>6, TailOfBatch DEF Accept, TypeOK
  <2> QED
    BY Zenon, <1>6, <2>1 DEF Accept, TypeOK, Unfinished
<1>7. CASE AcceptFails
  <2>1. batch' \in Seq(Event)
    BY Zenon, <1>7, TailOfBatch DEF AcceptFails, TypeOK
  <2> QED
    BY Zenon, <1>7, <2>1 DEF AcceptFails, TypeOK, Unfinished
<1>8. CASE BeginEvent
  <2>1. Head(batch).fd \in Fds
    BY Zenon, <1>8, TailOfBatch DEF BeginEvent, TypeOK, Event
  <2> QED
    BY Zenon, <1>8, <2>1 DEF BeginEvent, TypeOK, Unfinished
<1>9. CASE Get
  BY Zenon, <1>9 DEF Get, TypeOK, Unfinished
<1>10. CASE Enqueue
  <2>1. batch' \in Seq(Event)
    BY Zenon, <1>10, TailOfBatch DEF Enqueue, TypeOK
  <2> QED
    BY <1>10, <2>1 DEF Enqueue, TypeOK, Unfinished
<1>11. ASSUME NEW w \in Workers, Start(w)
       PROVE  TypeOK'
  <2>1. slot.fd \in Fds /\ slot.conn \in Clients
    BY Zenon, <1>11 DEF Start, Alive, TypeOK, Unfinished
  <2> DEFINE j == [pc |-> "read", fd |-> slot.fd, conn |-> slot.conn,
                   req |-> <<>>]
  <2>2. j \in Job /\ j.pc = "read" /\ j.fd = slot.fd /\ j.conn = slot.conn
    BY <2>1 DEF Job
  <2>3. job' = [job EXCEPT ![w] = j]
    BY Zenon, <1>11 DEF Start
  <2> HIDE DEF j
  <2>4. /\ job' \in [Workers -> Job] /\ job'[w] = j
        /\ \A v \in Workers : v # w => job'[v] = job[v]
    BY Zenon, <1>0, <2>2, <2>3, JobReplaced
  <2>5. \A v \in Workers : job'[v].pc = "read" =>
           job'[v].fd \in Fds /\ job'[v].conn \in Clients
    BY Zenon, <2>1, <2>2, <2>4, ReadTyped
  <2>6. obj' \in [Clients -> Connection] /\ queued' \in Nat
    <3>1. /\ obj[slot.conn] \in Connection /\ <<>> \in Seq(Part)
          /\ obj \in [Clients -> Connection] /\ queued \in Nat
      BY <2>1 DEF TypeOK
    <3>2. [obj[slot.conn] EXCEPT !.req = <<>>] \in Connection
      BY Zenon, <3>1 DEF Connection
    <3>3. obj' = [obj EXCEPT ![slot.conn] = [obj[slot.conn] EXCEPT !.req = <<>>]]
      BY Zenon, <1>11, <3>1 DEF Start
    <3> QED
      BY <1>11, <2>1, <3>1, <3>2, <3>3 DEF Start
  <2> QED
    BY Zenon, <1>11, <2>1, <2>4, <2>5, <2>6 DEF Start, TypeOK
<1>12. ASSUME NEW w \in Workers, NEW n \in 0..Parts, Read(w, n)
       PROVE  TypeOK'
  <2> DEFINE c == fdt[job[w].fd]
             o == job[w].conn
             all == obj[o].read \o SubSeq(unread[c], 1, n)
  <2>0. job[w].pc = "read"
    BY Zenon, <1>12 DEF Read
  <2>1. c \in Clients /\ o \in Clients
    <3>1. job[w].fd \in Fds /\ o \in Clients
      BY Zenon, <2>0, ReadTyped
    <3>2. c # None
      BY Zenon, <1>12 DEF Read, CanRead
    <3> QED
      BY Zenon, <1>0, <3>1, <3>2
  <2>2. unread[c] \in Seq(Part) /\ n <= Len(unread[c])
    BY Zenon, <1>12, <2>1 DEF Read, TypeOK
  <2>3. SubSeq(unread[c], 1, n) \in Seq(Part)
        /\ SubSeq(unread[c], n + 1, Len(unread[c])) \in Seq(Part)
    BY <2>2
  <2>4. all \in Seq(Part)
    <3>1. obj[o].read \in Seq(Part)
      BY Zenon, <2>1 DEF TypeOK, Connection
    <3> QED
      BY <2>3, <3>1
  <2>5. /\ obj' = [obj EXCEPT ![o] = [read |-> all, req |-> all]]
        /\ unread' = [unread EXCEPT ![c] = SubSeq(@, n + 1, Len(@))]
    BY Zenon, <1>12 DEF Read
  <2>6. obj' \in [Clients -> Connection] /\ unread' \in [Clients -> Seq(Part)]
    BY Zenon, <2>1, <2>3, <2>4, <2>5 DEF TypeOK, Connection
  <2>7. /\ job' \in [Workers -> Job] /\ slot.fd \in Fds /\ job'[w].pc = "execute"
        /\ \A v \in Workers : v # w => job'[v] = job[v]
    BY Zenon, <1>0, <1>12, <2>0, JobMoves, BusySlot DEF Read, Phases
  <2> QED
    BY Zenon, <1>12, <2>6, <2>7, ReadTyped DEF Read, TypeOK
<1>13. ASSUME NEW w \in Workers, Execute(w)
       PROVE  TypeOK'
  <2> DEFINE r == obj[slot.conn].req
             j == [job[w] EXCEPT !.req = r,
                                 !.pc = IF r = <<>> THEN "close" ELSE "answer"]
  <2>1. job[w].pc = "execute" /\ slot.conn \in Clients
    BY Zenon, <1>13 DEF Execute, Alive, TypeOK
  <2>2. r \in Seq(Part) /\ job[w] \in Job
    BY Zenon, <2>1 DEF TypeOK, Connection
  <2>3. j \in Job /\ j.pc \in {"close", "answer"}
    BY Zenon, <2>2 DEF Job
  <2>4. job' = [job EXCEPT ![w] = j]
    BY Zenon, <1>0, <1>13 DEF Execute
  <2> HIDE DEF j
  <2>5. /\ job' \in [Workers -> Job] /\ slot.fd \in Fds
        /\ job'[w].pc \in {"close", "answer"}
        /\ \A v \in Workers : v # w => job'[v] = job[v]
    BY Zenon, <1>0, <2>1, <2>3, <2>4, JobReplaced, BusySlot
  <2> QED
    BY Zenon, <1>13, <2>5, ReadTyped DEF Execute, TypeOK
<1>14. ASSUME NEW w \in Workers, Answer(w)
       PROVE  TypeOK'
  <2>1. /\ job' \in [Workers -> Job] /\ slot.fd \in Fds /\ job'[w].pc = "close"
        /\ \A v \in Workers : v # w => job'[v] = job[v]
    BY Zenon, <1>0, <1>14, JobMoves, BusySlot DEF Answer, Phases
  <2>2. job[w].req \in Seq(Part) /\ fdt[slot.fd] \in Clients \cup {None}
    BY Zenon, <1>0, <2>1 DEF Job
  <2>3. answers' \in [Clients -> Seq(Seq(Part))]
    BY <1>14, <2>2 DEF Answer, TypeOK
  <2> QED
    BY Zenon, <1>14, <2>1, <2>3, ReadTyped DEF Answer, TypeOK
<1>15. ASSUME NEW w \in Workers, Close(w)
       PROVE  TypeOK'
  <2>1. /\ job' \in [Workers -> Job] /\ slot.fd \in Fds /\ job'[w].pc = "erase"
        /\ \A v \in Workers : v # w => job'[v] = job[v]
    BY Zenon, <1>0, <1>15, JobMoves, BusySlot DEF Close, Phases
  <2> QED
    BY Zenon, <1>15, <2>1, ReadTyped DEF Close, TypeOK
<1>16. ASSUME NEW w \in Workers, Erase(w)
       PROVE  TypeOK'
  <2>1. /\ job' \in [Workers -> Job] /\ slot.fd \in Fds /\ job'[w].pc = "idle"
        /\ \A v \in Workers : v # w => job'[v] = job[v]
    BY Zenon, <1>0, <1>16, IdleIsJob, JobReplaced, BusySlot DEF Erase
  <2> QED
    BY Zenon, <1>16, <2>1, ReadTyped DEF Erase, TypeOK
<1>17. CASE GoesWrong
  BY Zenon, <1>17 DEF GoesWrong, TypeOK, Unfinished
<1> QED
  BY Zenon, <1>1, <1>2, <1>3, <1>4, <1>41, <1>5, <1>6, <1>7, <1>8, <1>9, <1>10, <1>11,
     <1>12, <1>13, <1>14, <1>15, <1>16, <1>17
  DEF Next, LoopStep, ClientStep, TaskStep, DatabaseStep, StartGoesWrong,
      ReadGoesWrong, ExecuteGoesWrong, AnswerGoesWrong

-----------------------------------------------------------------------------
(* Orderly: steps of the clients *)

\* A client that sends one part more has sent a request of one part more.
LEMMA RequestGrows ==
    ASSUME NEW c, NEW n \in Nat
    PROVE  /\ Request(c, n) \in Seq({c} \X Nat) /\ Len(Request(c, n)) = n
           /\ Append(Request(c, n), <<c, n + 1>>) = Request(c, n + 1)
PROOF
<1>1. Request(c, n) \in Seq({c} \X Nat) /\ Len(Request(c, n)) = n
  <2>1. Request(c, n) \in [1..n -> {c} \X Nat]
    BY DEF Request
  <2> QED
    BY <2>1
<1>2. Append(Request(c, n), <<c, n + 1>>) = Request(c, n + 1)
  BY <1>1 DEF Request
<1> QED
  BY Zenon, <1>1, <1>2

\* What a ::read returns first is a beginning of the request.
LEMMA RequestPrefix ==
    ASSUME NEW c, NEW m \in Nat, NEW n \in 0..m
    PROVE  <<>> \o SubSeq(Request(c, m), 1, n) = Request(c, n)
  BY RequestGrows DEF Request

\* Served and Pending read the slot, the descriptor table and the phases only.
LEMMA SameServed ==
    ASSUME UNCHANGED <<job, slot, fdt>>
    PROVE  /\ \A P : Busy(P)' <=> Busy(P)
           /\ \A c : Served(c)' <=> Served(c)
  BY Zenon DEF Busy, Served

\* A client that connects disturbs nobody.
LEMMA ConnectOrderly ==
    ASSUME TypeOK, Orderly, Undisturbed, NEW c \in Clients, Connect(c)
    PROVE  Orderly'
PROOF
<1> USE DEF loop
<1>0. /\ \A P : Busy(P)' <=> Busy(P)
      /\ \A d : Served(d)' <=> Served(d)
  BY Zenon, SameServed DEF Connect
<1>1. /\ conn[c] = "none" /\ conn' = [conn EXCEPT ![c] = "backlog"]
      /\ \A d \in Clients : d # c => conn'[d] = conn[d]
      /\ conn'[c] = "backlog"
  BY Zenon DEF Connect, TypeOK
<1>2. OneAtATime' /\ SlotCurrent' /\ OwnAnswers'
  BY Zenon, <1>0 DEF Connect, Orderly, OneAtATime, Unfinished, SlotCurrent, Readable,
     OwnAnswers, Undisturbed
<1>3. TablesAgree'
  BY <1>0, <1>1 DEF Connect, Orderly, TablesAgree, TypeOK
<1>4. EdgesPending' /\ EventsPending'
  BY Zenon, <1>0, <1>1
  DEF Connect, Orderly, EdgesPending, EventsPending, EventPending, Pending,
     Readable
<1>5. BytesInOrder'
  BY Zenon, <1>0, <1>1 DEF Connect, Orderly, BytesInOrder
<1> QED
  BY Zenon, <1>2, <1>3, <1>4, <1>5 DEF Orderly

\* A part that arrives makes an edge with something to read.
LEMMA SendOrderly ==
    ASSUME TypeOK, Orderly, Undisturbed, NEW c \in Clients, Send(c)
    PROVE  Orderly'
PROOF
<1> USE DEF loop
<1>0. /\ \A P : Busy(P)' <=> Busy(P)
      /\ \A d : Served(d)' <=> Served(d)
  BY Zenon, SameServed DEF Send
<1>1. /\ unread' = [unread EXCEPT ![c] = Append(unread[c], <<c, sent[c] + 1>>)]
      /\ sent' = [sent EXCEPT ![c] = sent[c] + 1] /\ sent[c] \in Nat
      /\ unread[c] \in Seq(Part)
  BY DEF Send, TypeOK
<1>2. /\ unread'[c] = Append(unread[c], <<c, sent[c] + 1>>) /\ unread'[c] # <<>>
      /\ sent'[c] = sent[c] + 1
      /\ \A d \in Clients : d # c => unread'[d] = unread[d] /\ sent'[d] = sent[d]
  <2>1. unread \in [Clients -> Seq(Part)] /\ sent \in [Clients -> 0..Parts]
    BY Zenon DEF TypeOK
  <2>2. Append(unread[c], <<c, sent[c] + 1>>) # <<>>
    BY <1>1
  <2> QED
    BY Zenon, <1>1, <2>1, <2>2
<1>3. OneAtATime' /\ TablesAgree' /\ OwnAnswers'
  BY Zenon, <1>0 DEF Send, Orderly, OneAtATime, Unfinished, TablesAgree, OwnAnswers,
     Undisturbed
<1>4. \A d \in Clients : Pending(d) => Pending(d)'
  BY Zenon, <1>0, <1>2 DEF Send, Pending, Readable
<1>5. EdgesPending' /\ EventsPending'
  <2>1. Pending(c)' /\ c # None
    BY Zenon, <1>2, ServerAssumption DEF Pending, Readable
  <2>2. \A f \in ready : fdt[f] \in Clients
    BY Zenon DEF Orderly, EdgesPending, TypeOK
  <2>3. EdgesPending'
    BY Zenon, <1>4, <2>1, <2>2 DEF Send, Edge, Orderly, EdgesPending
  <2>4. EventsPending'
    BY Zenon, <1>4 DEF Send, Orderly, EventsPending, EventPending
  <2> QED
    BY Zenon, <2>3, <2>4
<1>6. SlotCurrent'
  BY <1>0, <1>2 DEF Send, Orderly, SlotCurrent, Readable, TypeOK
<1>7. unread[c] = Request(c, sent[c]) => unread'[c] = Request(c, sent'[c])
  BY Zenon, <1>1, <1>2, RequestGrows
<1>8. BytesInOrder'
  BY Zenon, <1>0, <1>2, <1>7 DEF Send, Orderly, BytesInOrder
<1> QED
  BY Zenon, <1>3, <1>5, <1>6, <1>8 DEF Orderly

\* A client that leaves makes an edge whose read returns the end.
LEMMA LeaveOrderly ==
    ASSUME TypeOK, Orderly, Undisturbed, NEW c \in Clients, Leave(c)
    PROVE  Orderly'
PROOF
<1> USE DEF loop
<1>0. /\ \A P : Busy(P)' <=> Busy(P)
      /\ \A d : Served(d)' <=> Served(d)
  BY Zenon, SameServed DEF Leave
<1>1. OneAtATime' /\ TablesAgree' /\ OwnAnswers'
  BY Zenon, <1>0 DEF Leave, Orderly, OneAtATime, Unfinished, TablesAgree, OwnAnswers,
     Undisturbed
<1>2. Pending(c)' /\ \A d \in Clients : Pending(d) => Pending(d)'
  BY Zenon, <1>0 DEF Leave, Pending, Readable
<1>3. EdgesPending' /\ EventsPending'
  <2>1. \A f \in ready : fdt[f] \in Clients
    BY Zenon DEF Orderly, EdgesPending, TypeOK
  <2>2. EdgesPending'
    BY Zenon, <1>2, <2>1, ServerAssumption DEF Leave, Edge, Orderly, EdgesPending
  <2>3. EventsPending'
    BY Zenon, <1>2 DEF Leave, Orderly, EventsPending, EventPending
  <2> QED
    BY Zenon, <2>2, <2>3
<1>4. SlotCurrent' /\ BytesInOrder'
  BY Zenon, <1>0 DEF Leave, Orderly, SlotCurrent, Readable, BytesInOrder
<1> QED
  BY Zenon, <1>1, <1>3, <1>4 DEF Orderly

\* A connection that is reset makes an edge too.
LEMMA ResetOrderly ==
    ASSUME TypeOK, Orderly, Undisturbed, NEW c \in Clients, Reset(c)
    PROVE  Orderly'
PROOF
<1> USE DEF loop
<1>0. /\ \A P : Busy(P)' <=> Busy(P)
      /\ \A d : Served(d)' <=> Served(d)
  BY Zenon, SameServed DEF Reset
<1>1. OneAtATime' /\ TablesAgree' /\ OwnAnswers'
  BY Zenon, <1>0 DEF Reset, Orderly, OneAtATime, Unfinished, TablesAgree, OwnAnswers,
     Undisturbed
<1>2. Pending(c)' /\ \A d \in Clients : Pending(d) => Pending(d)'
  BY Zenon, <1>0 DEF Reset, Pending, Readable
<1>3. EdgesPending' /\ EventsPending'
  <2>1. \A f \in ready : fdt[f] \in Clients
    BY Zenon DEF Orderly, EdgesPending, TypeOK
  <2>2. EdgesPending'
    BY Zenon, <1>2, <2>1, ServerAssumption DEF Reset, Edge, Orderly, EdgesPending
  <2>3. EventsPending'
    BY Zenon, <1>2 DEF Reset, Orderly, EventsPending, EventPending
  <2> QED
    BY Zenon, <2>2, <2>3
<1>4. SlotCurrent' /\ BytesInOrder'
  BY Zenon, <1>0 DEF Reset, Orderly, SlotCurrent, Readable, BytesInOrder
<1> QED
  BY Zenon, <1>1, <1>3, <1>4 DEF Orderly

-----------------------------------------------------------------------------
(* Orderly: steps of the event loop *)

\* epoll_wait takes edges over as events.
LEMMA WaitOrderly ==
    ASSUME TypeOK, Orderly, Undisturbed, Wait
    PROVE  Orderly'
PROOF
<1> USE DEF loop, network
<1>0. /\ \A P : Busy(P)' <=> Busy(P)
      /\ \A d : Served(d)' <=> Served(d)
  BY Zenon, SameServed DEF Wait
<1>1. OneAtATime' /\ TablesAgree' /\ OwnAnswers'
  BY Zenon, <1>0 DEF Wait, Orderly, OneAtATime, Unfinished, TablesAgree, OwnAnswers,
     Undisturbed
<1>2. EdgesPending'
  BY Zenon DEF Wait, EdgesPending
<1>3. EventsPending'
  <2>1. ASSUME NEW f \in ready
        PROVE  EventPending([fd |-> f, client |-> fdt[f]])
    <3>1. f \in Fds /\ fdt[f] \in Clients
      BY Zenon DEF Orderly, EdgesPending, TypeOK
    <3> QED
      BY Zenon, <3>1 DEF Orderly, EdgesPending, TablesAgree, EventPending
  <2>2. ASSUME NEW e \in Events, e.fd # Listen
        PROVE  EventPending(e)
    BY <2>1, <2>2 DEF Events
  <2>3. \A e : EventPending(e) => EventPending(e)'
    BY Zenon, <1>0 DEF Wait, EventPending, Pending,
     Readable
  <2> QED
    BY Zenon, <2>2, <2>3, WaitBatch DEF EventsPending
<1>4. SlotCurrent' /\ BytesInOrder'
  BY Zenon, <1>0 DEF Wait, Orderly, SlotCurrent, Readable, BytesInOrder
<1> QED
  BY Zenon, <1>1, <1>2, <1>3, <1>4 DEF Orderly

\* The events after the first stay pending when the loop takes the first.
LEMMA TailPending ==
    ASSUME TypeOK, EventsPending, batch # <<>>, batch' = Tail(batch),
           \A e \in [fd : Fds, client : Clients] :
               EventPending(e) => EventPending(e)'
    PROVE  EventsPending'
PROOF
<1>1. \A i \in DOMAIN batch' :
         i + 1 \in DOMAIN batch /\ batch'[i] = batch[i + 1] /\ batch'[i] \in Event
  BY TailOfBatch DEF TypeOK
<1>2. ASSUME NEW e \in Event, e.fd # Listen, EventPending(e)
      PROVE  e \in [fd : Fds, client : Clients]
  BY Zenon, <1>2 DEF Event, EventPending
<1> QED
  BY Zenon, <1>1, <1>2 DEF EventsPending

\* accept gives a new connection a free descriptor and a place in the map.
LEMMA AcceptOrderly ==
    ASSUME TypeOK, Orderly, Undisturbed, Undisturbed',
           NEW f \in Fds, NEW c \in Clients, Accept(f, c)
    PROVE  Orderly'
PROOF
<1> USE DEF loop, network
<1>1. /\ conn[c] = "backlog" /\ fdt[f] = None /\ c # None
      /\ conn'[c] = "accepted" /\ fdt'[f] = c /\ storage'[f] = c
      /\ \A d \in Clients : d # c => conn'[d] = conn[d]
      /\ \A g \in Fds : g # f => fdt'[g] = fdt[g] /\ storage'[g] = storage[g]
  BY Zenon, ServerAssumption DEF Accept, LowestFree, Backlog, TypeOK
<1>2. ~(slot.fd = f /\ Busy({"erase"}))
  BY Zenon DEF Accept, Undisturbed, Busy
<1>3. /\ \A P : Busy(P)' <=> Busy(P)
      /\ UNCHANGED <<unread, left, reset, sent, answers, obj, job, slot, queued, pc,
                      undefined, causes>>
  BY Zenon DEF Accept, Undisturbed, Busy
<1>4. \A w \in Workers : job[w].pc # "idle" => slot.fd \in Fds /\ slot.fd # f
  BY Zenon, <1>1, <1>2, BusySlot DEF Orderly, SlotCurrent, Busy, Readable, TypeOK, Job
<1>5. queued > 0 => slot.fd \in Fds /\ slot.fd # f
  BY Zenon, <1>1 DEF Orderly, SlotCurrent, Readable, TypeOK, Unfinished
<1>6. /\ \A d : Served(d)' <=> Served(d)
      /\ \A d \in Clients : Pending(d)' <=> Pending(d)
  <2>1. ASSUME NEW P, "idle" \notin P, Busy(P)
        PROVE  fdt'[slot.fd] = fdt[slot.fd]
    BY Zenon, <1>1, <1>4, <2>1 DEF Busy
  <2>2. \A d : Served(d)' <=> Served(d)
    BY Zenon, <1>3, <2>1 DEF Served
  <2> QED
    BY Zenon, <1>3, <2>2 DEF Pending, Readable
<1>7. OneAtATime' /\ OwnAnswers'
  BY Zenon, <1>3 DEF Orderly, OneAtATime, Unfinished, OwnAnswers, Undisturbed
<1>8. TablesAgree'
  <2>1. \A g \in Fds : fdt[g] # c
    BY Zenon, <1>1 DEF Orderly, TablesAgree
  <2>2. \A g \in Fds : fdt[g] # None => fdt[g] \in Clients
    BY Zenon DEF TypeOK
  <2>3. Busy({"erase"}) => slot.fd \in Fds /\ slot.fd # f
    BY Zenon, <1>4 DEF Busy
  <2>4. \A g \in Fds : fdt'[g] # None =>
           conn'[fdt'[g]] = "accepted" /\ \A h \in Fds : fdt'[h] = fdt'[g] => h = g
    BY <1>1, <2>1, <2>2 DEF Orderly, TablesAgree
  <2> QED
    BY <1>1, <1>3, <2>3, <2>4 DEF Orderly, TablesAgree
<1>9. EdgesPending'
  <2>1. \A g \in ready : g # f /\ g \in Fds /\ fdt[g] \in Clients
    BY <1>1 DEF Orderly, EdgesPending, TypeOK
  <2>2. Readable(c) => Pending(c)
    BY Zenon DEF Pending
  <2> QED
    BY Zenon, <1>1, <1>6, <2>1, <2>2 DEF Accept, Orderly, EdgesPending
<1>10. EventsPending'
  <2>1. ASSUME NEW e \in [fd : Fds, client : Clients], EventPending(e)
        PROVE  EventPending(e)'
    BY Zenon, <1>1, <1>6, <2>1 DEF EventPending
  <2> QED
    BY Zenon, <2>1, TailPending DEF Accept, Orderly
<1>11. SlotCurrent'
  BY <1>1, <1>3, <1>4, <1>5 DEF Accept, Orderly, SlotCurrent, Readable, Busy
<1>12. BytesInOrder'
  BY Zenon, <1>1, <1>3, <1>4, <1>6 DEF Orderly, BytesInOrder, Busy
<1> QED
  BY Zenon, <1>7, <1>8, <1>9, <1>10, <1>11, <1>12 DEF Orderly

\* A failed accept leaves the connections alone.
LEMMA AcceptFailsOrderly ==
    ASSUME TypeOK, Orderly, Undisturbed, AcceptFails
    PROVE  Orderly'
PROOF
<1> USE DEF loop, network
<1>0. /\ \A P : Busy(P)' <=> Busy(P)
      /\ \A d : Served(d)' <=> Served(d)
  BY Zenon, SameServed DEF AcceptFails
<1>1. OneAtATime' /\ TablesAgree' /\ OwnAnswers' /\ EdgesPending'
  BY Zenon, <1>0 DEF AcceptFails, Orderly, OneAtATime, Unfinished, TablesAgree,
     OwnAnswers, Undisturbed, EdgesPending, Pending, Readable
<1>2. \A e : EventPending(e) => EventPending(e)'
  BY Zenon, <1>0 DEF AcceptFails, EventPending, Pending,
     Readable
<1>3. EventsPending'
  BY Zenon, <1>2, TailPending DEF AcceptFails, Orderly
<1>4. SlotCurrent' /\ BytesInOrder'
  BY Zenon, <1>0 DEF AcceptFails, Orderly, SlotCurrent, Readable, BytesInOrder
<1> QED
  BY Zenon, <1>1, <1>3, <1>4 DEF Orderly

\* The loop takes up an event while no task is unfinished.
LEMMA BeginEventOrderly ==
    ASSUME TypeOK, Orderly, Undisturbed, Undisturbed', BeginEvent
    PROVE  Orderly'
PROOF
<1> USE DEF loop, network
<1> DEFINE e == Head(batch)
<1>1. /\ ~Unfinished /\ fdt[e.fd] = e.client /\ UNCHANGED causes
      /\ UNCHANGED <<network, answers, fdt, ready, batch, storage, obj, queued,
                      job, undefined>>
      /\ pc = "top" /\ pc' = "get" /\ e.fd # Listen /\ batch # <<>>
  BY Zenon DEF BeginEvent, Undisturbed
<1>2. slot'.fd = e.fd /\ slot'.conn = slot.conn
  BY Zenon DEF BeginEvent, TypeOK
<1>3. 1 \in DOMAIN batch /\ e = batch[1] /\ e.fd \in Fds
  BY Zenon, <1>1, TailOfBatch DEF TypeOK, Event
<1>4. ~Unfinished' /\ queued = 0 /\ \A w \in Workers : job[w].pc = "idle"
  BY <1>1 DEF Unfinished, TypeOK
<1>5. \A P : "idle" \notin P => ~Busy(P) /\ ~Busy(P)'
  BY Zenon, <1>1, <1>4 DEF Busy
<1>6. \A d : ~Served(d) /\ ~Served(d)'
  BY Zenon, <1>5 DEF Served
<1>7. fdt'[slot'.fd] # None /\ Readable(fdt[slot.fd])'
  <2>1. EventPending(e)
    BY Zenon, <1>1, <1>3 DEF Orderly, EventsPending
  <2>2. fdt[e.fd] \in Clients /\ Readable(fdt[e.fd])
    BY Zenon, <1>1, <1>6, <2>1 DEF EventPending, Pending
  <2> QED
    BY Zenon, <1>1, <1>2, <2>2, ServerAssumption DEF Readable
<1>8. OneAtATime' /\ TablesAgree' /\ OwnAnswers'
  BY Zenon, <1>1, <1>4, <1>5
  DEF Orderly, OneAtATime, TablesAgree, OwnAnswers, Undisturbed
<1>9. EdgesPending' /\ EventsPending'
  BY Zenon, <1>1, <1>6 DEF Orderly, EdgesPending, EventsPending, EventPending, Pending,
     Readable
<1>10. SlotCurrent'
  BY <1>1, <1>4, <1>5, <1>7 DEF SlotCurrent
<1>11. BytesInOrder'
  BY Zenon, <1>1, <1>4, <1>5, <1>6 DEF Orderly, BytesInOrder
<1> QED
  BY Zenon, <1>8, <1>9, <1>10, <1>11 DEF Orderly

\* The map has the connection of the event in hand.
LEMMA GetOrderly ==
    ASSUME TypeOK, Orderly, Undisturbed, Get
    PROVE  Orderly'
PROOF
<1> USE DEF loop, network
<1>1. /\ ~Unfinished /\ Readable(fdt[slot.fd]) /\ slot.fd \in Fds
      /\ fdt[slot.fd] \in Clients
  BY Zenon DEF Get, Orderly, OneAtATime, SlotCurrent, Readable, TypeOK
<1>2. \A P : "idle" \notin P => ~Busy(P) /\ ~Busy(P)'
  BY Zenon, <1>1 DEF Get, Busy, Unfinished
<1>3. storage[slot.fd] = fdt[slot.fd] /\ fdt[slot.fd] # None
  BY Zenon, <1>1, <1>2, ServerAssumption DEF Orderly, TablesAgree
<1>4. /\ storage' = storage /\ slot'.fd = slot.fd /\ slot'.conn = fdt[slot.fd]
      /\ pc' = "enqueue"
      /\ UNCHANGED <<network, answers, fdt, ready, batch, obj, queued, job,
                      undefined, causes>>
  BY Zenon, <1>3 DEF Get, TypeOK
<1>5. \A d : ~Served(d) /\ ~Served(d)'
  BY Zenon, <1>2 DEF Served
<1>6. ~Unfinished' /\ queued = 0 /\ \A w \in Workers : job[w].pc = "idle"
  BY <1>1, <1>4 DEF Unfinished, TypeOK
<1>7. OneAtATime' /\ TablesAgree' /\ OwnAnswers'
  BY Zenon, <1>2, <1>4, <1>6
  DEF Orderly, OneAtATime, TablesAgree, OwnAnswers, Undisturbed
<1>8. EdgesPending' /\ EventsPending'
  BY Zenon, <1>4, <1>5 DEF Orderly, EdgesPending, EventsPending, EventPending, Pending,
     Readable
<1>9. SlotCurrent'
  BY Zenon, <1>1, <1>2, <1>3, <1>4, <1>6 DEF SlotCurrent, Readable
<1>10. BytesInOrder'
  BY Zenon, <1>2, <1>4, <1>5, <1>6 DEF Orderly, BytesInOrder
<1> QED
  BY Zenon, <1>7, <1>8, <1>9, <1>10 DEF Orderly

\* The loop hands the event to the pool and has none itself.
LEMMA EnqueueOrderly ==
    ASSUME TypeOK, Orderly, Undisturbed, Enqueue
    PROVE  Orderly'
PROOF
<1> USE DEF loop, network
<1>1. /\ ~Unfinished /\ Readable(fdt[slot.fd]) /\ slot.conn = fdt[slot.fd]
      /\ fdt[slot.fd] # None
      /\ batch # <<>>
  BY Zenon DEF Enqueue, Orderly, OneAtATime, SlotCurrent, TypeOK
<1>2. /\ \A P : Busy(P)' <=> Busy(P)
      /\ \A d : Served(d)' <=> Served(d)
  BY Zenon, SameServed DEF Enqueue
<1>3. queued = 0 /\ queued' = 1 /\ \A w \in Workers : job[w].pc = "idle"
  BY <1>1 DEF Enqueue, Unfinished, TypeOK
<1>4. OneAtATime' /\ OwnAnswers'
  BY <1>3 DEF Enqueue, Orderly, OneAtATime, OwnAnswers, Undisturbed
<1>5. TablesAgree' /\ EdgesPending'
  BY Zenon, <1>2 DEF Enqueue, Orderly, TablesAgree, EdgesPending, Pending, Readable
<1>6. \A d : EventPending(d) => EventPending(d)'
  BY Zenon, <1>2 DEF Enqueue, EventPending, Pending,
     Readable
<1>7. EventsPending'
  BY Zenon, <1>1, <1>6, TailPending DEF Enqueue, Orderly
<1>8. SlotCurrent'
  BY Zenon, <1>1, <1>2, <1>3 DEF Enqueue, Orderly, SlotCurrent, Readable
<1>9. BytesInOrder'
  BY Zenon, <1>2 DEF Enqueue, Orderly, BytesInOrder
<1> QED
  BY Zenon, <1>4, <1>5, <1>7, <1>8, <1>9 DEF Orderly

-----------------------------------------------------------------------------
(* Orderly: steps of the tasks *)

\* While one worker has a task, no one else has anything to do.
LEMMA Alone ==
    ASSUME TypeOK, Orderly, NEW w \in Workers, job[w].pc # "idle"
    PROVE  /\ pc = "top" /\ queued = 0
           /\ \A v \in Workers : v # w => job[v].pc = "idle"
           /\ \A P : "idle" \notin P => (Busy(P) <=> job[w].pc \in P)
PROOF
<1>1. queued = 0 /\ \A v \in Workers : v # w => job[v].pc = "idle"
  BY Zenon DEF Orderly, OneAtATime
<1>2. pc = "top"
  BY Zenon DEF Orderly, OneAtATime, Unfinished
<1>3. \A P : "idle" \notin P => (Busy(P) <=> job[w].pc \in P)
  BY Zenon, <1>1 DEF Busy
<1> QED
  BY Zenon, <1>1, <1>2, <1>3

\* A worker is alone if no other has a task, none is queued and the loop waits.
LEMMA AloneNext ==
    ASSUME NEW w \in Workers, pc' = "top", queued' = 0,
           \A v \in Workers : v # w => job'[v].pc = "idle"
    PROVE  /\ OneAtATime'
           /\ \A P : "idle" \notin P => (Busy(P)' <=> job'[w].pc \in P)
PROOF
<1>1. OneAtATime'
  BY DEF OneAtATime
<1>2. \A P : "idle" \notin P => (Busy(P)' <=> job'[w].pc \in P)
  BY Zenon DEF Busy
<1> QED
  BY Zenon, <1>1, <1>2

\* The map holds the connection of the slot while its task may use it.
LEMMA SlotAlive ==
    ASSUME TypeOK, Orderly, queued > 0 \/ Busy({"execute"})
    PROVE  Alive(slot.conn)
PROOF
<1>1. slot.fd \in Fds
  BY Zenon, BusySlot DEF TypeOK, Unfinished, Busy
<1>2. fdt[slot.fd] \in Clients /\ slot.conn = fdt[slot.fd]
  BY Zenon, <1>1 DEF Orderly, SlotCurrent, Readable, TypeOK, Busy
<1>3. ~Busy({"erase"})
  BY DEF Orderly, OneAtATime, Busy
<1>4. storage[slot.fd] = slot.conn
  BY Zenon, <1>1, <1>2, <1>3 DEF Orderly, TablesAgree
<1> QED
  BY Zenon, <1>1, <1>2, <1>4, ServerAssumption DEF Alive

\* A worker takes the queued task over.
LEMMA StartOrderly ==
    ASSUME TypeOK, Orderly, Undisturbed, NEW w \in Workers, Start(w)
    PROVE  Orderly'
PROOF
<1> USE DEF loop, network
<1>1. /\ queued = 1 /\ queued' = 0 /\ pc = "top"
      /\ \A v \in Workers : job[v].pc = "idle"
  BY DEF Start, Orderly, OneAtATime, Unfinished, TypeOK
<1>2. /\ Readable(fdt[slot.fd]) /\ fdt[slot.fd] # None
      /\ slot.conn = fdt[slot.fd] /\ slot.conn \in Clients
  BY Zenon, <1>1 DEF Start, Orderly, SlotCurrent, Readable, TypeOK, Unfinished
<1>3. /\ job'[w].pc = "read" /\ job'[w].fd = slot.fd /\ job'[w].conn = slot.conn
      /\ \A v \in Workers : v # w => job'[v].pc = "idle"
  BY Zenon, <1>1 DEF Start, TypeOK
<1>4. UNCHANGED <<network, answers, fdt, ready, loop, storage, undefined, causes>>
  BY Zenon DEF Start
<1>5. /\ OneAtATime' /\ \A P : "idle" \notin P => (Busy(P)' <=> "read" \in P)
  BY Zenon, <1>1, <1>3, <1>4, AloneNext
<1>6. \A P : "idle" \notin P => ~Busy(P)
  BY Zenon, <1>1 DEF Busy
<1>7. \A d : ~Served(d) /\ ~Served(d)'
  BY <1>5, <1>6 DEF Served
<1>8. TablesAgree' /\ OwnAnswers'
  BY <1>4, <1>5, <1>6 DEF Orderly, TablesAgree, OwnAnswers, Undisturbed
<1>9. EdgesPending' /\ EventsPending'
  BY Zenon, <1>4, <1>7 DEF Orderly, EdgesPending, EventsPending, EventPending, Pending,
     Readable
<1>10. SlotCurrent'
  BY Zenon, <1>1, <1>2, <1>3, <1>4, <1>5 DEF SlotCurrent, Readable
<1>11. BytesInOrder'
  <2>1. \A d \in Clients : obj'[d].read = obj[d].read
    BY <1>2 DEF Start, TypeOK, Connection
  <2>2. \A v \in Workers : job'[v].pc \notin {"execute", "answer"}
    BY Zenon, <1>3
  <2> QED
    BY Zenon, <1>4, <1>5, <1>6, <1>7, <2>1, <2>2 DEF Orderly, BytesInOrder
<1> QED
  BY Zenon, <1>5, <1>8, <1>9, <1>10, <1>11 DEF Orderly

\* Parser::read takes bytes of the connection's own client.
LEMMA ReadOrderly ==
    ASSUME TypeOK, Orderly, Undisturbed, NEW w \in Workers, NEW n \in 0..Parts,
           Read(w, n)
    PROVE  Orderly'
PROOF
<1> USE DEF loop, network
<1> DEFINE c == fdt[slot.fd]
<1>1. /\ job[w].pc = "read" /\ pc = "top" /\ queued = 0
      /\ \A v \in Workers : v # w => job[v].pc = "idle"
      /\ \A P : "idle" \notin P => (Busy(P) <=> "read" \in P)
  BY Zenon, Alone DEF Read
<1>2. /\ job[w].fd = slot.fd /\ job[w].conn = c /\ slot.conn = c
      /\ c \in Clients /\ slot.fd \in Fds /\ c # None
  BY Zenon, <1>1, ReadTyped, ServerAssumption DEF Orderly, SlotCurrent
<1>3. /\ job'[w].pc = "execute"
      /\ \A v \in Workers : v # w => job'[v].pc = "idle"
  <2>1. job \in [Workers -> Job]
    BY Zenon DEF TypeOK
  <2>2. "execute" \in Phases /\ job' = [job EXCEPT ![w].pc = "execute"]
    BY Zenon DEF Read, Phases
  <2> QED
    BY Zenon, <1>1, <2>1, <2>2, JobMoves
<1>4. UNCHANGED <<conn, sent, left, reset, answers, fdt, ready, loop, storage,
                  queued, undefined, causes>>
  BY Zenon DEF Read
<1>5. /\ OneAtATime' /\ \A P : "idle" \notin P => (Busy(P)' <=> "execute" \in P)
  BY Zenon, <1>1, <1>3, <1>4, AloneNext
<1>6. \A d : ~Served(d) /\ (Served(d)' <=> d = c)
  BY <1>1, <1>4, <1>5 DEF Served
<1>7. conn[c] = "accepted" /\ unread[c] = Request(c, sent[c]) /\ obj[c].read = <<>>
  BY Zenon, <1>2, <1>6 DEF Orderly, TablesAgree, BytesInOrder
<1>8. /\ \A d \in Clients : d # c => unread'[d] = unread[d] /\ obj'[d] = obj[d]
      /\ obj'[c].req = <<>> \o SubSeq(unread[c], 1, n) /\ n <= Len(unread[c])
  BY Zenon, <1>2, <1>7 DEF Read, TypeOK
<1>9. obj'[c].req = Request(c, Len(obj'[c].req))
  <2>1. sent[c] \in Nat /\ n \in Nat
    BY <1>2, ServerAssumption DEF TypeOK
  <2>2. Len(Request(c, sent[c])) = sent[c] /\ Len(Request(c, n)) = n
    BY Zenon, <2>1, RequestGrows
  <2>3. n <= sent[c]
    BY Zenon, <1>7, <1>8, <2>2
  <2>4. n \in 0..sent[c]
    BY <2>1, <2>3
  <2>5. obj'[c].req = Request(c, n)
    BY Zenon, <1>7, <1>8, <2>1, <2>4, RequestPrefix
  <2> QED
    BY Zenon, <2>2, <2>5
<1>10. TablesAgree' /\ OwnAnswers'
  BY Zenon, <1>1, <1>4, <1>5 DEF Orderly, TablesAgree, OwnAnswers, Undisturbed
<1>11. EdgesPending' /\ EventsPending'
  <2>1. \A d \in Clients : Pending(d) => Pending(d)'
    BY Zenon, <1>4, <1>6, <1>8 DEF Pending, Readable
  <2>2. \A f \in ready : fdt[f] \in Clients
    BY Zenon DEF Orderly, EdgesPending, TypeOK
  <2> QED
    BY Zenon, <1>4, <2>1, <2>2 DEF Orderly, EdgesPending, EventsPending, EventPending
<1>12. SlotCurrent'
  BY <1>1, <1>2, <1>3, <1>4, <1>5 DEF SlotCurrent
<1>13. BytesInOrder'
  <2>1. \A v \in Workers : job'[v].pc \in {"execute", "answer"} => v = w
    BY Zenon, <1>3
  <2>2. \A d \in Clients : conn'[d] # "closed" /\ ~Served(d)' =>
           unread'[d] = Request(d, sent'[d]) /\ obj'[d].read = <<>>
    BY Zenon, <1>4, <1>6, <1>8 DEF Orderly, BytesInOrder
  <2>3. \A d \in Clients : conn'[d] # "closed" => answers'[d] = <<>>
    BY <1>1, <1>4 DEF Orderly, BytesInOrder
  <2> QED
    BY Zenon, <1>3, <1>4, <1>9, <2>1, <2>2, <2>3 DEF BytesInOrder
<1> QED
  BY Zenon, <1>5, <1>10, <1>11, <1>12, <1>13 DEF Orderly

\* The task takes the request that was read into its own connection.
LEMMA ExecuteOrderly ==
    ASSUME TypeOK, Orderly, Undisturbed, NEW w \in Workers, Execute(w)
    PROVE  Orderly'
PROOF
<1> USE DEF loop, network
<1> DEFINE c == fdt[slot.fd]
<1>1. /\ job[w].pc = "execute" /\ pc = "top" /\ queued = 0
      /\ \A v \in Workers : v # w => job[v].pc = "idle"
      /\ \A P : "idle" \notin P => (Busy(P) <=> "execute" \in P)
  BY Zenon, Alone DEF Execute
<1>2. slot.conn = c /\ c # None
  BY Zenon, <1>1 DEF Orderly, SlotCurrent
<1>3. /\ job'[w].req = obj[c].req /\ job'[w].pc \in {"answer", "close"}
      /\ \A v \in Workers : v # w => job'[v].pc = "idle"
  BY <1>1, <1>2 DEF Execute, TypeOK, Job
<1>4. UNCHANGED <<network, answers, fdt, ready, loop, storage, obj, queued,
                  undefined, causes>>
  BY Zenon DEF Execute
<1>5. /\ OneAtATime' /\ \A P : "idle" \notin P => (Busy(P)' <=> job'[w].pc \in P)
  BY Zenon, <1>1, <1>3, <1>4, AloneNext
<1>6. \A d : Served(d)' <=> Served(d)
  BY Zenon, <1>1, <1>3, <1>4, <1>5 DEF Served
<1>7. TablesAgree' /\ OwnAnswers'
  BY Zenon, <1>1, <1>3, <1>4, <1>5 DEF Orderly, TablesAgree, OwnAnswers, Undisturbed
<1>8. EdgesPending' /\ EventsPending'
  BY Zenon, <1>4, <1>6 DEF Orderly, EdgesPending, EventsPending, EventPending, Pending,
     Readable
<1>9. SlotCurrent'
  BY <1>1, <1>2, <1>3, <1>4, <1>5 DEF SlotCurrent
<1>10. BytesInOrder'
  <2>1. \A v \in Workers : job'[v].pc \in {"execute", "answer"} =>
           v = w /\ job'[v].pc = "answer"
    BY Zenon, <1>3
  <2>2. job'[w].req = Request(c, Len(job'[w].req))
    BY Zenon, <1>1, <1>3 DEF Orderly, BytesInOrder
  <2>3. \A d \in Clients : conn[d] # "closed" => answers[d] = <<>>
    BY <1>1 DEF Orderly, BytesInOrder
  <2>4. \A d \in Clients : conn'[d] # "closed" /\ ~Served(d)' =>
           unread'[d] = Request(d, sent'[d]) /\ obj'[d].read = <<>>
    BY Zenon, <1>4, <1>6 DEF Orderly, BytesInOrder
  <2> QED
    BY Zenon, <1>4, <2>1, <2>2, <2>3, <2>4 DEF BytesInOrder
<1> QED
  BY Zenon, <1>5, <1>7, <1>8, <1>9, <1>10 DEF Orderly

\* The answer goes to the client whose request was read.
LEMMA AnswerOrderly ==
    ASSUME TypeOK, Orderly, Undisturbed, NEW w \in Workers, Answer(w)
    PROVE  Orderly'
PROOF
<1> USE DEF loop, network
<1> DEFINE c == fdt[slot.fd]
<1>0. job \in [Workers -> Job] /\ "close" \in Phases
  BY Zenon DEF TypeOK, Phases
<1>1. /\ job[w].pc = "answer" /\ pc = "top" /\ queued = 0
      /\ \A v \in Workers : v # w => job[v].pc = "idle"
      /\ \A P : "idle" \notin P => (Busy(P) <=> "answer" \in P)
  BY Zenon, Alone DEF Answer
<1>2. c # None /\ slot.fd \in Fds
  BY Zenon, <1>1, BusySlot DEF Orderly, SlotCurrent
<1>3. c \in Clients /\ conn[c] = "accepted" /\ answers[c] = <<>>
  <2>1. c \in Clients
    BY Zenon, <1>2 DEF TypeOK
  <2>2. conn[c] = "accepted"
    BY Zenon, <1>2 DEF Orderly, TablesAgree
  <2>3. ~Busy({"close"})
    BY <1>1
  <2> QED
    BY Zenon, <2>1, <2>2, <2>3 DEF Orderly, BytesInOrder
<1>4. /\ job'[w].pc = "close"
      /\ \A v \in Workers : v # w => job'[v].pc = "idle"
  BY Zenon, <1>0, <1>1, JobMoves DEF Answer
<1>5. UNCHANGED <<network, fdt, ready, loop, storage, obj, queued, undefined, causes>>
  BY Zenon DEF Answer
<1>6. /\ OneAtATime' /\ \A P : "idle" \notin P => (Busy(P)' <=> "close" \in P)
  BY Zenon, <1>1, <1>4, <1>5, AloneNext
<1>7. \A d : Served(d)' <=> Served(d)
  BY Zenon, <1>1, <1>5, <1>6 DEF Served
<1>8. /\ answers'[c] \in {<<>>, <<job[w].req>>}
      /\ \A d \in Clients : d # c => answers'[d] = answers[d]
  <2>1. /\ \/ answers' = answers
           \/ answers' = [answers EXCEPT ![c] = Append(answers[c], job[w].req)]
        /\ answers \in [Clients -> Seq(Seq(Part))]
    BY Zenon DEF Answer, TypeOK
  <2>2. Append(<<>>, job[w].req) = <<job[w].req>>
    OBVIOUS
  <2> QED
    BY Zenon, <1>3, <2>1, <2>2
<1>9. OwnAnswers'
  <2>1. job[w].req = Request(c, Len(job[w].req))
    BY Zenon, <1>1 DEF Orderly, BytesInOrder
  <2>2. ASSUME NEW d \in Clients
        PROVE  /\ Len(answers'[d]) <= 1
               /\ \A i \in DOMAIN answers'[d] :
                     answers'[d][i] = Request(d, Len(answers'[d][i]))
    <3>0. CASE answers'[d] = <<>>
      BY <3>0
    <3>1. CASE d = c /\ answers'[d] # <<>>
      <4>1. answers'[d] = <<job[w].req>>
        BY Zenon, <1>8, <3>1
      <4>2. Len(answers'[d]) = 1 /\ DOMAIN answers'[d] = {1}
            /\ answers'[d][1] = job[w].req
        BY <4>1
      <4> QED
        BY <2>1, <3>1, <4>2
    <3>2. CASE d # c
      BY Zenon, <1>8, <3>2 DEF Orderly, OwnAnswers
    <3> QED
      BY Zenon, <3>0, <3>1, <3>2
  <2> QED
    BY Zenon, <2>2 DEF OwnAnswers
<1>10. TablesAgree'
  BY Zenon, <1>1, <1>5, <1>6 DEF Orderly, TablesAgree
<1>11. EdgesPending' /\ EventsPending'
  BY Zenon, <1>5, <1>7 DEF Orderly, EdgesPending, EventsPending, EventPending, Pending,
     Readable
<1>12. SlotCurrent'
  BY <1>1, <1>2, <1>4, <1>5, <1>6 DEF SlotCurrent
<1>13. BytesInOrder'
  <2>1. \A v \in Workers : job'[v].pc \notin {"execute", "answer"}
    BY Zenon, <1>4
  <2>2. \A d \in Clients : conn[d] # "closed" /\ d # c => answers'[d] = <<>>
    BY Zenon, <1>1, <1>8 DEF Orderly, BytesInOrder
  <2>3. \A d \in Clients : conn'[d] # "closed" /\ ~Served(d)' =>
           unread'[d] = Request(d, sent'[d]) /\ obj'[d].read = <<>>
    BY Zenon, <1>5, <1>7 DEF Orderly, BytesInOrder
  <2> QED
    BY Zenon, <1>5, <1>6, <2>1, <2>2, <2>3 DEF BytesInOrder
<1> QED
  BY Zenon, <1>6, <1>9, <1>10, <1>11, <1>12, <1>13 DEF Orderly

\* close frees the descriptor of the task's own connection.
LEMMA CloseOrderly ==
    ASSUME TypeOK, Orderly, Undisturbed, NEW w \in Workers, Close(w)
    PROVE  Orderly'
PROOF
<1> USE DEF loop, network
<1> DEFINE c == fdt[slot.fd]
<1>0. job \in [Workers -> Job] /\ "erase" \in Phases
  BY Zenon DEF TypeOK, Phases
<1>1. /\ job[w].pc = "close" /\ pc = "top" /\ queued = 0
      /\ \A v \in Workers : v # w => job[v].pc = "idle"
      /\ \A P : "idle" \notin P => (Busy(P) <=> "close" \in P)
  BY Zenon, Alone DEF Close
<1>2. c # None /\ slot.fd \in Fds
  BY Zenon, <1>1, BusySlot DEF Orderly, SlotCurrent
<1>3. /\ job'[w].pc = "erase"
      /\ \A v \in Workers : v # w => job'[v].pc = "idle"
  BY Zenon, <1>0, <1>1, JobMoves DEF Close
<1>4. UNCHANGED <<sent, unread, left, reset, answers, loop, storage, obj, queued,
                  undefined, causes>>
  BY Zenon DEF Close
<1>5. /\ OneAtATime' /\ \A P : "idle" \notin P => (Busy(P)' <=> "erase" \in P)
  BY Zenon, <1>1, <1>3, <1>4, AloneNext
<1>6. \A d : ~Served(d)' /\ (Served(d) <=> d = c)
  BY <1>1, <1>5 DEF Served
<1>7. /\ \A d \in Clients : conn'[d] = IF d = c THEN "closed" ELSE conn[d]
      /\ fdt'[slot.fd] = None /\ \A g \in Fds : g # slot.fd => fdt'[g] = fdt[g]
      /\ ready' = ready \ {slot.fd}
  BY Zenon, <1>2 DEF Close, TypeOK
<1>8. \A g \in Fds : g # slot.fd => fdt[g] # c
  BY Zenon, <1>2 DEF Orderly, TablesAgree
<1>9. \A d \in Clients : d # c => (Pending(d)' <=> Pending(d))
  BY Zenon, <1>4, <1>6 DEF Pending, Readable
<1>10. TablesAgree'
  <2>1. \A g \in Fds : fdt[g] # None => fdt[g] \in Clients
    BY Zenon DEF TypeOK
  <2>2. \A g \in Fds : fdt'[g] # None =>
           conn'[fdt'[g]] = "accepted" /\ \A h \in Fds : fdt'[h] = fdt'[g] => h = g
    BY <1>7, <1>8, <2>1 DEF Orderly, TablesAgree
  <2> QED
    BY Zenon, <1>1, <1>4, <1>5, <1>7, <2>2 DEF Orderly, TablesAgree
<1>11. EdgesPending'
  <2>1. \A f \in ready : f \in Fds /\ fdt[f] \in Clients
    BY Zenon DEF Orderly, EdgesPending, TypeOK
  <2> QED
    BY Zenon, <1>7, <1>8, <1>9, <2>1 DEF Orderly, EdgesPending
<1>12. EventsPending'
  <2>1. ASSUME NEW e \in Event, e.fd # Listen, EventPending(e)
        PROVE  EventPending(e)'
    <3>1. e.client \in Clients /\ e.client # None /\ e.fd \in Fds
      BY Zenon, <2>1, ServerAssumption DEF EventPending, Event
    <3> QED
      BY Zenon, <1>7, <1>8, <1>9, <2>1, <3>1 DEF EventPending
  <2>2. \A i \in DOMAIN batch : batch[i] \in Event
    BY DEF TypeOK
  <2> QED
    BY Zenon, <1>4, <2>1, <2>2 DEF Orderly, EventsPending
<1>13. SlotCurrent' /\ OwnAnswers'
  BY <1>1, <1>3, <1>4, <1>5 DEF Orderly, SlotCurrent, OwnAnswers, Undisturbed
<1>14. BytesInOrder'
  <2>1. \A v \in Workers : job'[v].pc \notin {"execute", "answer"}
    BY Zenon, <1>3
  <2>2. \A d \in Clients : conn'[d] # "closed" => d # c /\ conn[d] # "closed"
    BY Zenon, <1>7
  <2> QED
    BY Zenon, <1>4, <1>6, <2>1, <2>2 DEF Orderly, BytesInOrder
<1> QED
  BY Zenon, <1>5, <1>10, <1>11, <1>12, <1>13, <1>14 DEF Orderly

\* erase removes the connection that was closed.
LEMMA EraseOrderly ==
    ASSUME TypeOK, Orderly, Undisturbed, NEW w \in Workers, Erase(w)
    PROVE  Orderly'
PROOF
<1> USE DEF loop, network
<1>0. job \in [Workers -> Job] /\ slot.fd \in Fds
  BY Zenon, BusySlot DEF TypeOK, Erase
<1>1. /\ job[w].pc = "erase" /\ pc = "top" /\ queued = 0
      /\ \A v \in Workers : v # w => job[v].pc = "idle"
      /\ \A P : "idle" \notin P => (Busy(P) <=> "erase" \in P)
  BY Zenon, Alone DEF Erase
<1>2. \A v \in Workers : job'[v].pc = "idle"
  BY Zenon, <1>0, <1>1, IdleIsJob, JobReplaced DEF Erase
<1>3. UNCHANGED <<network, answers, fdt, ready, loop, obj, queued, undefined, causes>>
  BY Zenon DEF Erase
<1>4. /\ OneAtATime' /\ \A P : "idle" \notin P => ~Busy(P)'
  BY Zenon, <1>1, <1>2, <1>3, AloneNext
<1>5. \A d : ~Served(d) /\ ~Served(d)'
  BY <1>1, <1>4 DEF Served
<1>6. TablesAgree'
  <2>1. /\ storage'[slot.fd] = None
        /\ \A g \in Fds : g # slot.fd => storage'[g] = storage[g]
    BY Zenon, <1>0 DEF Erase, TypeOK
  <2> QED
    BY Zenon, <1>1, <1>3, <1>4, <2>1 DEF Orderly, TablesAgree
<1>7. EdgesPending' /\ EventsPending'
  BY Zenon, <1>3, <1>5 DEF Orderly, EdgesPending, EventsPending, EventPending, Pending,
     Readable
<1>8. SlotCurrent' /\ OwnAnswers'
  BY <1>1, <1>2, <1>3, <1>4 DEF Orderly, SlotCurrent, OwnAnswers, Undisturbed
<1>9. BytesInOrder'
  BY <1>1, <1>2, <1>3, <1>4, <1>5 DEF Orderly, BytesInOrder
<1> QED
  BY Zenon, <1>4, <1>6, <1>7, <1>8, <1>9 DEF Orderly

\* The step of a task that goes wrong is a read from, or a write to, a
\* connection that was reset.
LEMMA OnlyResetsGoWrong ==
    ASSUME TypeOK, Orderly, NEW w \in Workers,
           \/ StartGoesWrong(w) \/ ReadGoesWrong(w) \/ ExecuteGoesWrong(w)
           \/ AnswerGoesWrong(w)
    PROVE  ResetInHand /\ GoesWrong
PROOF
<1>1. ~StartGoesWrong(w)
  BY Zenon, SlotAlive DEF StartGoesWrong
<1>2. CASE ReadGoesWrong(w)
  <2>1. job[w].pc = "read" /\ Busy({"read"}) /\ GoesWrong
    BY Zenon, <1>2 DEF Busy, ReadGoesWrong
  <2>2. /\ job[w].fd = slot.fd /\ fdt[slot.fd] # None
        /\ Readable(fdt[slot.fd]) /\ ReadFails(slot.fd)
    BY Zenon, <1>2, <2>1 DEF ReadGoesWrong, Orderly, SlotCurrent
  <2>3. fdt[slot.fd] \in reset
    BY Zenon, <2>2 DEF Readable, ReadFails
  <2> QED
    BY Zenon, <2>1, <2>3 DEF ResetInHand
<1>3. ~ExecuteGoesWrong(w)
  <2>1. job[w].pc = "execute" => Busy({"execute"})
    BY Zenon DEF Busy
  <2> QED
    BY Zenon, <2>1, SlotAlive DEF ExecuteGoesWrong
<1>4. CASE AnswerGoesWrong(w)
  BY Zenon, <1>4 DEF AnswerGoesWrong, ResetInHand
<1> QED
  BY Zenon, <1>1, <1>2, <1>3, <1>4

\* A step that goes wrong changes nothing else.
LEMMA WrongOrderly ==
    ASSUME Orderly, Undisturbed, GoesWrong
    PROVE  Orderly' /\ (ResetInHand' <=> ResetInHand)
PROOF
<1> USE DEF GoesWrong, network, loop
<1>1. /\ \A P : Busy(P)' <=> Busy(P)
      /\ \A d : Served(d)' <=> Served(d)
  BY Zenon, SameServed
<1>2. OneAtATime' /\ TablesAgree' /\ OwnAnswers'
  BY Zenon, <1>1 DEF Orderly, OneAtATime, Unfinished, TablesAgree, OwnAnswers,
     Undisturbed
<1>3. EdgesPending' /\ EventsPending'
  BY Zenon, <1>1 DEF Orderly, EdgesPending, EventsPending, EventPending, Pending,
     Readable
<1>4. SlotCurrent'
  BY Zenon, <1>1 DEF Orderly, SlotCurrent, Readable
<1>5. BytesInOrder'
  BY Zenon, <1>1 DEF Orderly, BytesInOrder
<1>6. ResetInHand' <=> ResetInHand
  BY Zenon DEF ResetInHand
<1> QED
  BY Zenon, <1>2, <1>3, <1>4, <1>5, <1>6 DEF Orderly

-----------------------------------------------------------------------------
(* Theorems *)

\* What has disturbed the server is not forgotten.
LEMMA CausesStay ==
    ASSUME [Next]_vars, Undisturbed'
    PROVE  Undisturbed
PROOF
<1>1. causes \subseteq causes'
  BY Zenon DEF Next, LoopStep, ClientStep, TaskStep, DatabaseStep, Wait, Accept,
     AcceptFails, BeginEvent, Get, Enqueue, Connect, Send, Leave, Reset, Start, Read,
     Execute, Answer, Close, Erase,
     StartGoesWrong, ReadGoesWrong, ExecuteGoesWrong, AnswerGoesWrong, GoesWrong, vars
<1> QED
  BY Zenon, <1>1 DEF Undisturbed

\* The server starts without connections and tasks.
LEMMA OrderlyInit == Init => Orderly
PROOF
<1> SUFFICES ASSUME Init PROVE Orderly
  BY Zenon
<1>1. ~Unfinished /\ \A w \in Workers : job[w].pc = "idle"
  BY DEF Init, Unfinished, Idle
<1>2. \A P : "idle" \notin P => ~Busy(P)
  BY Zenon, <1>1 DEF Busy
<1>3. OneAtATime /\ SlotCurrent
  BY <1>1, <1>2 DEF Init, OneAtATime, SlotCurrent
<1>4. TablesAgree
  BY Zenon, <1>2 DEF Init, TablesAgree
<1>5. EdgesPending /\ EventsPending
  BY DEF Init, EdgesPending, EventsPending
<1>6. \A c \in Clients : Request(c, 0) = <<>>
  BY DEF Request
<1>7. BytesInOrder
  BY Zenon, <1>1, <1>6 DEF Init, BytesInOrder
<1>8. OwnAnswers
  BY DEF Init, OwnAnswers
<1> QED
  BY Zenon, <1>3, <1>4, <1>5, <1>7, <1>8 DEF Init, Orderly

\* Every step keeps Orderly until one of the unguarded orders happens.
LEMMA OrderlyStep ==
    ASSUME TypeOK, Orderly, Undisturbed, Undisturbed', [Next]_vars
    PROVE  Orderly'
PROOF
<1>1. CASE UNCHANGED vars
  <2>1. /\ \A P : Busy(P)' <=> Busy(P)
        /\ \A d : Served(d)' <=> Served(d)
    BY Zenon, <1>1, SameServed DEF vars, loop
  <2> USE <1>1, <2>1 DEF vars, network, loop, Orderly
  <2>2. OneAtATime' /\ TablesAgree' /\ OwnAnswers'
    BY Zenon DEF OneAtATime, Unfinished, TablesAgree, OwnAnswers, Undisturbed
  <2>3. EdgesPending' /\ EventsPending'
    BY Zenon DEF EdgesPending, EventsPending, EventPending, Pending,
     Readable
  <2>4. SlotCurrent'
    BY Zenon DEF SlotCurrent, Readable
  <2>5. BytesInOrder'
    BY Zenon DEF BytesInOrder
  <2> QED
    BY Zenon, <2>2, <2>3, <2>4, <2>5
<1>2. ASSUME NEW w \in Workers, TaskStep(w) \/ DatabaseStep(w)
      PROVE  Orderly'
  BY Zenon, <1>2, OnlyResetsGoWrong, WrongOrderly, StartOrderly, ReadOrderly,
     ExecuteOrderly, AnswerOrderly, CloseOrderly, EraseOrderly DEF TaskStep, DatabaseStep
<1>3. CASE LoopStep
  BY Zenon, <1>3, WaitOrderly, AcceptOrderly, AcceptFailsOrderly, BeginEventOrderly,
     GetOrderly, EnqueueOrderly DEF LoopStep
<1>4. CASE ClientStep
  BY Zenon, <1>4, ConnectOrderly, SendOrderly, LeaveOrderly, ResetOrderly DEF ClientStep
<1> QED
  BY Zenon, <1>1, <1>2, <1>3, <1>4 DEF Next

\* A step that ends the program has a reset connection in hand.
LEMMA DefinedStep ==
    ASSUME TypeOK, Orderly, Undisturbed, TasksAreDefined, [Next]_vars
    PROVE  TasksAreDefined'
PROOF
<1>1. CASE UNCHANGED vars
  BY Zenon, <1>1 DEF vars, network, loop, TasksAreDefined, Undisturbed, ResetInHand
<1>2. ASSUME NEW w \in Workers, TaskStep(w) \/ DatabaseStep(w), ~undefined
      PROVE  TasksAreDefined'
  <2>1. CASE \/ StartGoesWrong(w) \/ ReadGoesWrong(w) \/ ExecuteGoesWrong(w)
             \/ AnswerGoesWrong(w)
    BY Zenon, <2>1, OnlyResetsGoWrong, WrongOrderly DEF TasksAreDefined
  <2>2. CASE UNCHANGED undefined
    BY Zenon, <1>2, <2>2 DEF TasksAreDefined
  <2> QED
    BY Zenon, <1>2, <2>1, <2>2 DEF TaskStep, DatabaseStep, Start, Read, Execute, Answer,
       Close, Erase
<1>3. ASSUME LoopStep \/ ClientStep, ~undefined
      PROVE  TasksAreDefined'
  BY Zenon, <1>3 DEF LoopStep, ClientStep, Wait, Accept, AcceptFails, BeginEvent, Get,
     Enqueue, Connect, Send, Leave, Reset, TasksAreDefined
<1> QED
  BY Zenon, <1>1, <1>2, <1>3 DEF Next

\* The inductive invariant of the server: its state is well typed, and orderly
\* as long as nothing has disturbed it.
THEOREM ServerStaysOrderly == Spec => []ServerInductive
PROOF
<1>1. Init => ServerInductive
  <2>1. Init => TasksAreDefined
    BY Zenon DEF Init, TasksAreDefined
  <2> QED
    BY Zenon, <2>1, TypeInit, OrderlyInit DEF ServerInductive
<1>2. ServerInductive /\ [Next]_vars => ServerInductive'
  <2> SUFFICES ASSUME ServerInductive, [Next]_vars PROVE ServerInductive'
    BY Zenon
  <2>1. TypeOK' /\ (Undisturbed' => Orderly')
    BY Zenon, TypeStep, CausesStay, OrderlyStep DEF ServerInductive
  <2>2. TasksAreDefined'
    <3>1. CASE Undisturbed'
      BY Zenon, <3>1, CausesStay, DefinedStep DEF ServerInductive
    <3>2. CASE ~Undisturbed'
      BY Zenon, <3>2 DEF TasksAreDefined
    <3> QED
      BY Zenon, <3>1, <3>2
  <2> QED
    BY Zenon, <2>1, <2>2 DEF ServerInductive
<1> QED
  BY <1>1, <1>2, PTL DEF Spec

\* The lambda of the event loop meets no null or freed connection, no closed
\* descriptor and no empty socket, however many workers run it, and ends the
\* program only over a connection that was reset, unless an event was taken up
\* while a task was unfinished, a descriptor was reused before its erase, or an
\* event was stale.
THEOREM TasksStayDefined == Spec => []TasksAreDefined
PROOF
<1>1. ServerInductive => TasksAreDefined
  BY Zenon DEF ServerInductive
<1> QED
  BY <1>1, ServerStaysOrderly, PTL

\* Under the same condition each client is sent at most one answer, to the
\* first parts of its own request.
THEOREM AnswersAreOwn == Spec => []OwnAnswers
PROOF
<1>1. ServerInductive => OwnAnswers
  BY Zenon DEF ServerInductive, Orderly, OwnAnswers
<1> QED
  BY <1>1, ServerStaysOrderly, PTL

\* Under the same condition connection_storage has, between tasks, exactly the
\* connections of the open descriptors.
THEOREM StorageStaysMatched == Spec => []StorageMatches
PROOF
<1>1. ASSUME ServerInductive, Undisturbed, ~Unfinished
      PROVE  storage = fdt
  <2>1. ~Busy({"erase"})
    BY Zenon, <1>1 DEF Busy, Unfinished
  <2>2. \A f \in Fds : storage[f] = fdt[f]
    BY Zenon, <1>1, <2>1 DEF ServerInductive, Orderly, TablesAgree
  <2> QED
    BY <1>1, <2>2 DEF ServerInductive, TypeOK
<1>2. ServerInductive => StorageMatches
  BY Zenon, <1>1 DEF StorageMatches
<1> QED
  BY <1>2, ServerStaysOrderly, PTL

=============================================================================
