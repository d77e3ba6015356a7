---------------------------- MODULE SocketServer ----------------------------
(***************************************************************************)
(* The TCP side of the class Socket (socket-server): a task accepts one    *)
(* connection, starts the task that accepts the next one, and serves its   *)
(* own; the application starts and stops the server; what is received goes *)
(* through the default event loop to a handler, which echoes and frees it. *)
(*                                                                         *)
(* A definition whose name ends in _<lowercase words> is a faulty variant  *)
(* of the one after it, kept to show that the properties notice.           *)
(***************************************************************************)
EXTENDS Integers, Sequences, FiniteSets

CONSTANTS
  Conns,        (* the clients                                               *)
  Tasks,        (* task control blocks the heap can hand out                 *)
  NumFds,       (* descriptors in the lwIP table                             *)
  QueueSize,    (* capacity of the default event loop's queue                *)
  MaxLate,      (* bound: posts that give up on a full queue                 *)
  MaxNoTask,    (* bound: xTaskCreate calls that fail                        *)
  NoConn,       (* a descriptor that is free                                 *)
  Listener,     (* the listening socket, as the owner of a descriptor        *)
  NoTask        (* task_handle == NULL                                       *)

Fds     == 1 .. NumFds
NoFd    == -1
Backlog == 1

ASSUME ServerAssumption ==
  /\ NumFds \in Nat \ {0}
  /\ QueueSize \in Nat \ {0}
  /\ MaxLate \in Nat /\ MaxNoTask \in Nat
  /\ NoConn \notin Conns /\ Listener \notin Conns /\ NoConn # Listener
  /\ NoTask \notin Tasks

\* a task control block takes memory
ASSUME TasksAssumption == IsFiniteSet(Tasks)

VARIABLES
  \* members of Socket
  socketfd,     (* the listening descriptor                                  *)
  tcp_sockets,  (* the descriptors that were accepted                        *)
  task_handle,  (* the task created last                                     *)
  \* the application's task
  app,          (* what it has done with the server                          *)
  walk,         (* descriptors stop() has still to shut down                 *)
  \* the tasks of the server
  pc,           (* where each is in socket_task; "none": no such task        *)
  sock,         (* socketfda, its connection's descriptor                    *)
  client,       (* the connection it accepted                                *)
  noTask,       (* xTaskCreate calls that have failed                        *)
  \* lwIP
  owner,        (* what each descriptor stands for                           *)
  link,         (* the state of each client's connection                     *)
  \* the default event loop
  queue,        (* events posted and not yet dispatched                      *)
  handling,     (* the data event whose handler is running                   *)
  heap,         (* data buffers allocated                                    *)
  late,         (* posts that have given up                                  *)
  \* history
  told,         (* which connection the handler knows by each descriptor     *)
  missed        (* connections accepted while stop() ran, or hidden from it  *)

memberVars == <<socketfd, tcp_sockets, task_handle>>
appVars    == <<app, walk>>
taskVars   == <<pc, sock, client, noTask>>
lwipVars   == <<owner, link>>
eventVars  == <<queue, handling, heap, late, told>>
vars == <<memberVars, appVars, taskVars, lwipVars, eventVars, missed>>

-----------------------------------------------------------------------------
(* Where a task can be.                                                    *)

\* inside Socket::accept: polling, in vTaskDelay, posting CONNECTED, starting
\* the next task
Accepting == {"poll", "delay", "connect", "start"}
\* in the receive loop: in recv, posting DATA, posting CLOSE, closing
Serving   == {"recv", "data", "end", "close"}
Holding   == (Accepting \ {"poll"}) \cup Serving

Event == [id : {"CONNECTED", "DATA", "CLOSE"}, fd : Fds, conn : Conns]
EventOf(t, id) == [id |-> id, fd |-> sock[t], conn |-> client[t]]

FreeFds == {f \in Fds : owner[f] = NoConn}
\* alloc_socket takes the first free entry of the table
IsFirstFree(f) == f \in FreeFds /\ \A g \in FreeFds : f <= g

Waiting == {c \in Conns : link[c] = "waiting"}
Dropped == [c \in Conns |-> IF link[c] = "waiting" THEN "away" ELSE link[c]]

\* the connections in use whose peer believes it is served
OpenServed == {client[t] : t \in {u \in Tasks : pc[u] \in Serving /\ link[client[u]] = "open"}}

Proceed(t, next) == pc' = [pc EXCEPT ![t] = next]

-----------------------------------------------------------------------------
(* The application: create, bind, listen, start; later stop; and again.    *)

\* create, bind and listen: nobody looks at socketfd before start().
Create ==
  /\ app = "off"
  /\ app' = "created"
  /\ \E f \in Fds :
       /\ IsFirstFree(f)
       /\ socketfd' = f
       /\ owner' = [owner EXCEPT ![f] = Listener]
  /\ UNCHANGED <<tcp_sockets, task_handle, walk, taskVars, link, eventVars, missed>>

StartTask_handleKept(here) ==
  /\ \E u \in Tasks :
       /\ here[u] = "none"
       /\ pc' = [here EXCEPT ![u] = "poll"]
  /\ UNCHANGED <<task_handle, noTask>>

\* Socket::start: `here` is where the tasks are once the caller has moved on.
\* A control block whose task has ended may be handed out again.
StartTask(here) ==
  \/ \E u \in Tasks :
       /\ here[u] = "none"
       /\ pc' = [here EXCEPT ![u] = "poll"]
       /\ task_handle' = u
       /\ UNCHANGED noTask
  \/ /\ noTask < MaxNoTask
     /\ noTask' = noTask + 1
     /\ pc' = here
     /\ UNCHANGED task_handle

Start ==
  /\ app = "created"
  /\ app' = "running"
  /\ StartTask(pc)
  /\ UNCHANGED <<socketfd, tcp_sockets, walk, sock, client, lwipVars, eventVars, missed>>

Stop ==
  /\ app = "running"
  /\ app' = "walking"
  /\ walk' = tcp_sockets
  /\ UNCHANGED <<memberVars, taskVars, lwipVars, eventVars, missed>>

Shutdown_closing(f) ==
  /\ link' = [c \in Conns |-> IF owner[f] = c /\ link[c] = "open" THEN "shut" ELSE link[c]]
  /\ owner' = [owner EXCEPT ![f] = NoConn]

\* ::shutdown ends the connection and leaves the descriptor with its task
Shutdown(f) ==
  /\ link' = [c \in Conns |-> IF owner[f] = c /\ link[c] = "open" THEN "shut" ELSE link[c]]
  /\ UNCHANGED owner

StopShutdown ==
  /\ app = "walking"
  /\ \E f \in walk :
       /\ walk' = walk \ {f}
       /\ Shutdown(f)
  /\ UNCHANGED <<memberVars, app, taskVars, eventVars, missed>>

StopDelete_withoutDelete ==
  /\ app = "walking"
  /\ walk = {}
  /\ app' = "closing"
  /\ tcp_sockets' = {}
  /\ UNCHANGED <<socketfd, task_handle, walk, taskVars, lwipVars, eventVars, missed>>

\* vTaskDelete(task_handle), then the list is emptied.  With a NULL handle the
\* caller deletes itself; with that of a task that has ended the heap is
\* corrupted, and the model stops there.
StopDelete ==
  /\ app = "walking"
  /\ walk = {}
  /\ IF task_handle = NoTask
     THEN app' = "deleted" /\ UNCHANGED <<tcp_sockets, pc, sock, client>>
     ELSE IF pc[task_handle] = "none"
     THEN app' = "corrupted" /\ UNCHANGED <<tcp_sockets, pc, sock, client>>
     ELSE /\ app' = "closing"
          /\ tcp_sockets' = {}
          /\ Proceed(task_handle, "none")
          /\ sock' = [sock EXCEPT ![task_handle] = NoFd]
          /\ client' = [client EXCEPT ![task_handle] = NoConn]
  /\ UNCHANGED <<socketfd, task_handle, walk, noTask, lwipVars, eventVars, missed>>

StopClose ==
  /\ app = "closing"
  /\ app' = "off"
  /\ owner' = [owner EXCEPT ![socketfd] = NoConn]
  /\ link' = Dropped
  /\ socketfd' = NoFd
  /\ UNCHANGED <<tcp_sockets, task_handle, walk, taskVars, eventVars, missed>>

StopStep == StopShutdown \/ StopDelete \/ StopClose
App == Create \/ Start \/ Stop \/ StopStep

-----------------------------------------------------------------------------
(* Socket::accept, in a task that serves nobody yet.                       *)

Accept_once(t) ==
  /\ pc[t] = "poll"
  /\ Proceed(t, "delay")
  /\ UNCHANGED <<memberVars, appVars, sock, client, noTask, lwipVars, eventVars, missed>>

\* One successful poll.  With the table full lwIP drops the connection.
Accept(t) ==
  /\ pc[t] = "poll"
  /\ socketfd > 0
  /\ \E c \in Waiting :
       \/ \E f \in Fds :
            /\ IsFirstFree(f)
            /\ owner' = [owner EXCEPT ![f] = c]
            /\ link' = [link EXCEPT ![c] = "open"]
            /\ Proceed(t, "delay")
            /\ sock' = [sock EXCEPT ![t] = f]
            /\ client' = [client EXCEPT ![t] = c]
       \/ /\ FreeFds = {}
          /\ link' = [link EXCEPT ![c] = "away"]
          /\ UNCHANGED <<owner, pc, sock, client>>
  /\ UNCHANGED <<memberVars, appVars, noTask, eventVars, missed>>

Listed_notPushed(t) == tcp_sockets
Listed(t) == tcp_sockets \cup {sock[t]}

\* vTaskDelay is over and the descriptor goes into tcp_sockets.  A stop() that
\* is walking through the vector may find it moved: then it goes on over
\* memory that holds anything.
Push(t) ==
  /\ pc[t] = "delay"
  /\ Proceed(t, "connect")
  /\ tcp_sockets' = Listed(t)
  /\ IF app = "running"
     THEN UNCHANGED <<walk, missed>>
     ELSE /\ IF app = "walking" THEN walk' \in SUBSET Fds ELSE UNCHANGED walk
          /\ missed' = missed \cup {client[t]}
               \cup {c \in Conns : \E f \in walk \ walk' : owner[f] = c}
  /\ UNCHANGED <<socketfd, task_handle, app, sock, client, noTask, lwipVars, eventVars>>

\* EventLoop::postDefault waits for room and gives up after its timeout.
Post(e) ==
  \/ /\ Len(queue) < QueueSize
     /\ queue' = Append(queue, e)
     /\ UNCHANGED late
  \/ /\ Len(queue) = QueueSize
     /\ late < MaxLate
     /\ late' = late + 1
     /\ UNCHANGED queue

OnConnect(t) ==
  /\ pc[t] = "connect"
  /\ Post(EventOf(t, "CONNECTED"))
  /\ Proceed(t, "start")
  /\ UNCHANGED <<memberVars, appVars, sock, client, noTask, lwipVars, handling, heap,
                 told, missed>>

StartNext_forgotten(t) ==
  /\ pc[t] = "start"
  /\ Proceed(t, "recv")
  /\ UNCHANGED <<memberVars, appVars, sock, client, noTask, lwipVars, eventVars, missed>>

StartNext(t) ==
  /\ pc[t] = "start"
  /\ StartTask([pc EXCEPT ![t] = "recv"])
  /\ UNCHANGED <<socketfd, tcp_sockets, appVars, sock, client, lwipVars, eventVars, missed>>

-----------------------------------------------------------------------------
(* socket_task after accept has returned.                                  *)

RecvData(t) ==
  /\ pc[t] = "recv"
  /\ link[client[t]] = "open"
  /\ Proceed(t, "data")
  /\ heap' = heap + 1
  /\ UNCHANGED <<memberVars, appVars, sock, client, noTask, lwipVars, queue, handling,
                 late, told, missed>>

OnData(t) ==
  /\ pc[t] = "data"
  /\ Post(EventOf(t, "DATA"))
  /\ Proceed(t, "recv")
  /\ UNCHANGED <<memberVars, appVars, sock, client, noTask, lwipVars, handling, heap,
                 told, missed>>

Finished_onlyErrors(c) == link[c] = "ended"
\* recv returns 0 or an error: the client has left, or stop() was here
Finished(c) == link[c] \in {"ended", "shut"}

AtEnd_silent == "close"
\* what comes first: onClose, then the descriptor is closed
AtEnd == "end"

RecvEnd(t) ==
  /\ pc[t] = "recv"
  /\ Finished(client[t])
  /\ Proceed(t, AtEnd)
  /\ UNCHANGED <<memberVars, appVars, sock, client, noTask, lwipVars, eventVars, missed>>

OnClose(t) ==
  /\ pc[t] = "end"
  /\ Post(EventOf(t, "CLOSE"))
  /\ Proceed(t, "close")
  /\ UNCHANGED <<memberVars, appVars, sock, client, noTask, lwipVars, handling, heap,
                 told, missed>>

\* ::close; the descriptor stays in tcp_sockets; the task deletes itself
Close(t) ==
  /\ pc[t] = "close"
  /\ owner' = [owner EXCEPT ![sock[t]] = NoConn]
  /\ link' = [link EXCEPT ![client[t]] = "away"]
  /\ missed' = missed \ {client[t]}
  /\ Proceed(t, "none")
  /\ sock' = [sock EXCEPT ![t] = NoFd]
  /\ client' = [client EXCEPT ![t] = NoConn]
  /\ UNCHANGED <<memberVars, appVars, noTask, eventVars>>

Posting(t) == OnConnect(t) \/ OnData(t) \/ OnClose(t)
Running(t) ==
  Accept(t) \/ Push(t) \/ StartNext(t) \/ RecvData(t) \/ RecvEnd(t) \/ Close(t)

-----------------------------------------------------------------------------
(* The event loop's task and the handler of tests/socket-server.           *)

Pending == handling \o queue

\* CONNECTED and CLOSE are only printed; DATA keeps the handler busy.
Dispatch ==
  /\ handling = <<>>
  /\ queue # <<>>
  /\ LET e == Head(queue)
     IN /\ handling' = IF e.id = "DATA" THEN <<e>> ELSE <<>>
        /\ told' = CASE e.id = "CONNECTED" -> [told EXCEPT ![e.fd] = e.conn]
                     [] e.id = "CLOSE"     -> [told EXCEPT ![e.fd] = NoConn]
                     [] OTHER              -> told
  /\ queue' = Tail(queue)
  /\ UNCHANGED <<memberVars, appVars, taskVars, lwipVars, heap, late, missed>>

AfterFree_leaked == heap
AfterFree == heap - 1

\* send() to packet->sockfd, in as many pieces as it takes, then free()
Echo ==
  /\ handling # <<>>
  /\ handling' = <<>>
  /\ heap' = AfterFree
  /\ UNCHANGED <<memberVars, appVars, taskVars, lwipVars, queue, late, told, missed>>

EventTask == Dispatch \/ Echo

-----------------------------------------------------------------------------
(* The clients.                                                            *)

\* A client is a new one each time: no event of the last one is under way.
Connect(c) ==
  /\ link[c] = "away"
  /\ socketfd # NoFd
  /\ Cardinality(Waiting) < Backlog
  /\ \A i \in DOMAIN Pending : Pending[i].conn # c
  /\ link' = [link EXCEPT ![c] = "waiting"]
  /\ UNCHANGED <<memberVars, appVars, taskVars, owner, eventVars, missed>>

Leave(c) ==
  /\ link[c] \in {"waiting", "open"}
  /\ link' = [link EXCEPT ![c] = IF link[c] = "open" THEN "ended" ELSE "away"]
  /\ UNCHANGED <<memberVars, appVars, taskVars, owner, eventVars, missed>>

-----------------------------------------------------------------------------
Init ==
  /\ socketfd = NoFd /\ tcp_sockets = {} /\ task_handle = NoTask
  /\ app = "off" /\ walk = {}
  /\ pc = [t \in Tasks |-> "none"]
  /\ sock = [t \in Tasks |-> NoFd]
  /\ client = [t \in Tasks |-> NoConn]
  /\ noTask = 0
  /\ owner = [f \in Fds |-> NoConn]
  /\ link = [c \in Conns |-> "away"]
  /\ queue = <<>> /\ handling = <<>> /\ heap = 0 /\ late = 0
  /\ told = [f \in Fds |-> NoConn]
  /\ missed = {}

Next ==
  /\ app # "corrupted"
  /\ \/ App
     \/ \E t \in Tasks : Posting(t) \/ Running(t)
     \/ EventTask
     \/ \E c \in Conns : Connect(c) \/ Leave(c)

\* A ready task runs; the event queue wakes the tasks that wait for room in
\* their turn; a call of stop() is finished; peers read what is sent to them.
\* Nobody has to connect, leave, send, start or stop.
Fairness ==
  /\ WF_vars(StopStep)
  /\ WF_vars(EventTask)
  /\ \A t \in Tasks : WF_vars(Running(t)) /\ SF_vars(Posting(t))

Spec == Init /\ [][Next]_vars
FairSpec == Spec /\ Fairness

-----------------------------------------------------------------------------
(* Properties.                                                             *)

TypeOK ==
  /\ socketfd \in Fds \cup {NoFd}
  /\ tcp_sockets \subseteq Fds /\ walk \subseteq Fds
  /\ task_handle \in Tasks \cup {NoTask}
  /\ app \in {"off", "created", "running", "walking", "closing", "deleted", "corrupted"}
  /\ pc \in [Tasks -> {"none"} \cup Accepting \cup Serving]
  /\ sock \in [Tasks -> Fds \cup {NoFd}]
  /\ client \in [Tasks -> Conns \cup {NoConn}]
  /\ noTask \in 0 .. MaxNoTask
  /\ owner \in [Fds -> Conns \cup {NoConn, Listener}]
  /\ link \in [Conns -> {"away", "waiting", "open", "ended", "shut"}]
  /\ queue \in Seq(Event) /\ handling \in Seq(Event)
  /\ heap \in Int /\ late \in 0 .. MaxLate
  /\ told \in [Fds -> Conns \cup {NoConn}]
  /\ missed \subseteq Conns

\* A task uses and closes only the connection it accepted: no descriptor is
\* closed twice, or by another than its task, or passed on while in use.
OwnDescriptor ==
  \A t \in Tasks : pc[t] \in Holding =>
    /\ sock[t] \in Fds
    /\ owner[sock[t]] = client[t]
    /\ \A u \in Tasks \ {t} : pc[u] \in Holding => sock[u] # sock[t]

\* task_handle, which stop() deletes, is that of the task inside accept(), so
\* there is one such task at most, and none once stop() has deleted it.
AcceptorIsHandle ==
  \A t \in Tasks : pc[t] \in Accepting =>
    /\ task_handle = t
    /\ app \in {"running", "walking", "deleted", "corrupted"}

\* stop() never deletes a task that has ended, nor its caller.
StopDeletesLiveTask == app \notin {"deleted", "corrupted"}

\* When stop() has walked through its list, no connection that was being
\* served when it began is open: tcp_sockets has them all.
StopReachesAll ==
  app \in {"closing", "off", "created"} => OpenServed \subseteq missed

\* Every data buffer is with the task that posts it, in the queue or with the
\* handler, as long as no post gives up and no task creation fails.
BuffersAccounted ==
  late = 0 /\ noTask = 0 =>
    heap = Cardinality({t \in Tasks : pc[t] = "data"})
           + Cardinality({i \in DOMAIN Pending : Pending[i].id = "DATA"})

\* The handler sends its answer to the connection the data came from, or to
\* nobody when that connection is gone.
EchoReachesSender ==
  handling # <<>> => owner[handling[1].fd] \in {handling[1].conn, NoConn}

\* What the handler of the events may rely on: see Sessions.
Contract == INSTANCE Sessions
ImplementsSessions == Contract!Spec

\* While tasks can be created, a client in the backlog of a running server is
\* accepted or turned away by a full table, unless it leaves first or the
\* server is stopped.
ClientsAccepted ==
  [](noTask = 0) =>
    \A c \in Conns : (app = "running" /\ link[c] = "waiting") ~> link[c] # "waiting"

\* When a connection in service ends, by its client or by stop(), the handler
\* is told, as long as no post gives up and no task creation fails.
DeparturesTold ==
  [](late = 0 /\ noTask = 0) =>
    \A f \in Fds, c \in Conns :
      ( /\ told[f] = c
        /\ link[c] \in {"ended", "shut"}
        /\ \E t \in Tasks : pc[t] \in Serving /\ client[t] = c ) ~> told[f] # c

=============================================================================
