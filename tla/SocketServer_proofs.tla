------------------------- MODULE SocketServer_proofs ------------------------
(***************************************************************************)
(* Proofs about SocketServer, for any number of clients, tasks and         *)
(* descriptors, any queue, and any number of failed posts and task         *)
(* creations, unless a theorem says otherwise.                             *)
(***************************************************************************)
EXTENDS SocketServer, TLAPS, FiniteSetTheorems

-----------------------------------------------------------------------------
(* Type correctness.                                                       *)

LEMMA InitType == Init => TypeOK
BY ServerAssumption DEF Init, TypeOK, Accepting, Serving, Event

LEMMA PostType ==
  ASSUME TypeOK, NEW e \in Event, Post(e)
  PROVE  queue' \in Seq(Event) /\ late' \in 0 .. MaxLate
<1>1. queue \in Seq(Event) /\ late \in 0 .. MaxLate /\ MaxLate \in Nat
  BY ServerAssumption DEF TypeOK
<1>2. Append(queue, e) \in Seq(Event)
  BY <1>1
<1> QED
  BY <1>1, <1>2 DEF Post

LEMMA StartTaskType ==
  ASSUME TypeOK,
         NEW here \in [Tasks -> {"none"} \cup Accepting \cup Serving],
         StartTask(here)
  PROVE  /\ pc' \in [Tasks -> {"none"} \cup Accepting \cup Serving]
         /\ task_handle' \in Tasks \cup {NoTask}
         /\ noTask' \in 0 .. MaxNoTask
BY ServerAssumption DEF TypeOK, StartTask, Accepting, Serving

LEMMA AppType == TypeOK /\ App => TypeOK'
<1> SUFFICES ASSUME TypeOK, App PROVE TypeOK'
  OBVIOUS
<1> USE DEF memberVars, appVars, taskVars, lwipVars, eventVars
<1>1. CASE Create
  BY <1>1, ServerAssumption DEF Create, TypeOK
<1>2. CASE Start
  <2>1. pc \in [Tasks -> {"none"} \cup Accepting \cup Serving]
    BY DEF TypeOK
  <2>2. StartTask(pc)
    BY <1>2 DEF Start
  <2>3. /\ pc' \in [Tasks -> {"none"} \cup Accepting \cup Serving]
        /\ task_handle' \in Tasks \cup {NoTask}
        /\ noTask' \in 0 .. MaxNoTask
    BY <2>1, <2>2, StartTaskType
  <2> QED
    BY <1>2, <2>3 DEF Start, TypeOK
<1>3. CASE Stop
  BY <1>3 DEF Stop, TypeOK
<1>4. CASE StopShutdown
  BY <1>4 DEF StopShutdown, Shutdown, TypeOK
<1>5. CASE StopDelete
  BY <1>5 DEF StopDelete, Proceed, TypeOK
<1>6. CASE StopClose
  BY <1>6, ServerAssumption DEF StopClose, Dropped, TypeOK
<1> QED
  BY <1>1, <1>2, <1>3, <1>4, <1>5, <1>6 DEF App, StopStep

LEMMA PostingType ==
  ASSUME TypeOK, NEW t \in Tasks, Posting(t),
         pc[t] \in Holding => sock[t] \in Fds /\ client[t] \in Conns
  PROVE  TypeOK'
<1> USE DEF memberVars, appVars, taskVars, lwipVars
<1> pc[t] \in Holding
  BY DEF Posting, OnConnect, OnData, OnClose, Holding, Accepting, Serving
<1>0. \A id \in {"CONNECTED", "DATA", "CLOSE"} : EventOf(t, id) \in Event
  BY DEF EventOf, Event
<1>1. CASE OnConnect(t)
  <2>1. queue' \in Seq(Event) /\ late' \in 0 .. MaxLate
    BY <1>0, <1>1, PostType DEF OnConnect
  <2> QED
    BY <1>1, <2>1 DEF OnConnect, Proceed, TypeOK, Accepting, Serving
<1>2. CASE OnData(t)
  <2>1. queue' \in Seq(Event) /\ late' \in 0 .. MaxLate
    BY <1>0, <1>2, PostType DEF OnData
  <2> QED
    BY <1>2, <2>1 DEF OnData, Proceed, TypeOK, Accepting, Serving
<1>3. CASE OnClose(t)
  <2>1. queue' \in Seq(Event) /\ late' \in 0 .. MaxLate
    BY <1>0, <1>3, PostType DEF OnClose
  <2> QED
    BY <1>3, <2>1 DEF OnClose, Proceed, TypeOK, Accepting, Serving
<1> QED
  BY <1>1, <1>2, <1>3 DEF Posting

LEMMA RunningType ==
  ASSUME TypeOK, NEW t \in Tasks, Running(t),
         pc[t] \in Holding => sock[t] \in Fds /\ client[t] \in Conns
  PROVE  TypeOK'
<1> USE DEF memberVars, appVars, taskVars, lwipVars, eventVars
<1>1. CASE Accept(t)
  BY <1>1 DEF Accept, Proceed, Waiting, TypeOK, Accepting, Serving
<1>2. CASE Push(t)
  BY <1>2 DEF Push, Listed, Proceed, TypeOK, Accepting, Serving, Holding
<1>3. CASE StartNext(t)
  <2>1. [pc EXCEPT ![t] = "recv"] \in [Tasks -> {"none"} \cup Accepting \cup Serving]
    BY DEF TypeOK, Serving
  <2>2. StartTask([pc EXCEPT ![t] = "recv"])
    BY <1>3 DEF StartNext
  <2>3. /\ pc' \in [Tasks -> {"none"} \cup Accepting \cup Serving]
        /\ task_handle' \in Tasks \cup {NoTask}
        /\ noTask' \in 0 .. MaxNoTask
    BY <2>1, <2>2, StartTaskType
  <2> QED
    BY <1>3, <2>3 DEF StartNext, TypeOK
<1>4. CASE RecvData(t)
  BY <1>4 DEF RecvData, Proceed, TypeOK, Accepting, Serving
<1>5. CASE RecvEnd(t)
  BY <1>5 DEF RecvEnd, AtEnd, Proceed, TypeOK, Accepting, Serving
<1>6. CASE Close(t)
  BY <1>6 DEF Close, Proceed, TypeOK, Accepting, Serving
<1> QED
  BY <1>1, <1>2, <1>3, <1>4, <1>5, <1>6 DEF Running

LEMMA OtherType ==
  ASSUME TypeOK, EventTask \/ \E c \in Conns : Connect(c) \/ Leave(c)
  PROVE  TypeOK'
<1> USE DEF memberVars, appVars, taskVars, lwipVars, eventVars
<1>1. CASE Dispatch
  <2> DEFINE e == Head(queue)
  <2>1. e \in Event /\ Tail(queue) \in Seq(Event)
    BY <1>1 DEF Dispatch, TypeOK
  <2>2. handling' \in Seq(Event) /\ queue' \in Seq(Event)
    BY <1>1, <2>1 DEF Dispatch
  <2>3. told' \in [Fds -> Conns \cup {NoConn}]
    BY <1>1, <2>1 DEF Dispatch, TypeOK, Event
  <2> QED
    BY <1>1, <2>2, <2>3 DEF Dispatch, TypeOK
<1>2. CASE Echo
  BY <1>2 DEF Echo, AfterFree, TypeOK
<1>3. CASE \E c \in Conns : Connect(c)
  BY <1>3 DEF Connect, TypeOK
<1>4. CASE \E c \in Conns : Leave(c)
  BY <1>4 DEF Leave, TypeOK
<1> QED
  BY <1>1, <1>2, <1>3, <1>4 DEF EventTask

-----------------------------------------------------------------------------
(* Who owns a descriptor.                                                  *)

OnLine == {"open", "ended", "shut"}

\* a task that has accepted holds a descriptor of its own, in use
Holds(t) ==
  /\ sock[t] \in Fds /\ client[t] \in Conns
  /\ owner[sock[t]] = client[t]
  /\ link[client[t]] \in OnLine

\* two tasks never hold the same connection, hence neither the same descriptor
Apart == \A t, u \in Tasks :
  pc[t] \in Holding /\ pc[u] \in Holding /\ t # u => client[t] # client[u]

\* what stop() closes is the listening socket
Listening ==
  /\ socketfd \in Fds => owner[socketfd] = Listener
  /\ app \in {"created", "running", "walking", "closing"} => socketfd \in Fds

OwnInv ==
  /\ \A t \in Tasks : pc[t] \in Holding => Holds(t)
  /\ Apart
  /\ Listening

LEMMA HoldsType ==
  ASSUME OwnInv, NEW t \in Tasks, pc[t] \in Holding
  PROVE  sock[t] \in Fds /\ client[t] \in Conns
BY DEF OwnInv, Holds

\* stop() and close() leave alone the descriptors of the other tasks
LEMMA DistinctFds ==
  ASSUME OwnInv, NEW t \in Tasks, NEW u \in Tasks \ {t},
         pc[t] \in Holding, pc[u] \in Holding
  PROVE  sock[t] # sock[u]
BY DEF OwnInv, Holds, Apart

LEMMA InitOwn == Init => OwnInv
BY DEF Init, OwnInv, Apart, Listening, Holding, Accepting, Serving, Fds, NoFd

\* Nothing a task does before it accepts and nothing another task does to its
\* own place changes what is held.
LEMMA StartTaskHolding ==
  ASSUME TypeOK,
         NEW here \in [Tasks -> {"none"} \cup Accepting \cup Serving],
         StartTask(here)
  PROVE  \A t \in Tasks : pc'[t] \in Holding => here[t] \in Holding
BY DEF StartTask, Holding, Accepting, Serving

LEMMA AppOwn == TypeOK /\ OwnInv /\ App => OwnInv'
<1> SUFFICES ASSUME TypeOK, OwnInv, App PROVE OwnInv'
  OBVIOUS
<1> USE ServerAssumption DEF memberVars, appVars, taskVars, lwipVars, eventVars
<1>1. CASE Create
  <2>1. PICK f \in Fds : /\ IsFirstFree(f)
                         /\ socketfd' = f
                         /\ owner' = [owner EXCEPT ![f] = Listener]
    BY <1>1 DEF Create
  <2>2. owner[f] = NoConn
    BY <2>1 DEF IsFirstFree, FreeFds
  <2>3. ASSUME NEW t \in Tasks, pc'[t] \in Holding PROVE Holds(t)'
    <3>1. Holds(t) /\ pc[t] \in Holding
      BY <1>1, <2>3 DEF Create, OwnInv
    <3>2. sock[t] # f
      BY <2>2, <3>1 DEF Holds
    <3> QED
      BY <1>1, <2>1, <3>1, <3>2 DEF Create, Holds, TypeOK
  <2>4. Apart'
    BY <1>1 DEF Create, Apart, OwnInv
  <2>5. Listening'
    BY <2>1 DEF Listening, TypeOK
  <2> QED
    BY <2>3, <2>4, <2>5 DEF OwnInv
<1>2. CASE Start
  <2>1. pc \in [Tasks -> {"none"} \cup Accepting \cup Serving] /\ StartTask(pc)
    BY <1>2 DEF Start, TypeOK
  <2>2. \A t \in Tasks : pc'[t] \in Holding => pc[t] \in Holding
    BY <2>1, StartTaskHolding
  <2> QED
    BY <1>2, <2>2 DEF Start, OwnInv, Holds, Apart, Listening
<1>3. CASE Stop
  BY <1>3 DEF Stop, OwnInv, Holds, Apart, Listening
<1>4. CASE StopShutdown
  <2>1. \A c \in Conns : link[c] \in OnLine => link'[c] \in OnLine
    BY <1>4 DEF StopShutdown, Shutdown, OnLine
  <2> QED
    BY <1>4, <2>1 DEF StopShutdown, Shutdown, OwnInv, Holds, Apart, Listening
<1>5. CASE StopDelete
  <2>1. ASSUME NEW t \in Tasks, pc'[t] \in Holding
        PROVE  /\ pc[t] \in Holding
               /\ sock'[t] = sock[t] /\ client'[t] = client[t]
    BY <1>5, <2>1 DEF StopDelete, Proceed, TypeOK, Holding, Accepting, Serving
  <2>2. UNCHANGED <<owner, link, socketfd>>
    BY <1>5 DEF StopDelete
  <2>3. \A t \in Tasks : pc'[t] \in Holding => Holds(t)'
    BY <2>1, <2>2 DEF OwnInv, Holds
  <2>4. Apart'
    BY <2>1 DEF OwnInv, Apart
  <2>5. Listening'
    BY <1>5, <2>2 DEF StopDelete, OwnInv, Listening
  <2> QED
    BY <2>3, <2>4, <2>5 DEF OwnInv
<1>6. CASE StopClose
  <2>1. socketfd \in Fds /\ owner[socketfd] = Listener
    BY <1>6 DEF StopClose, OwnInv, Listening
  <2>2. \A c \in Conns : link[c] \in OnLine => link'[c] = link[c]
    BY <1>6 DEF StopClose, Dropped, OnLine
  <2>3. ASSUME NEW t \in Tasks, pc'[t] \in Holding PROVE Holds(t)'
    <3>1. Holds(t) /\ sock[t] # socketfd
      BY <1>6, <2>1, <2>3 DEF StopClose, OwnInv, Holds
    <3> QED
      BY <1>6, <2>2, <3>1 DEF StopClose, Holds, TypeOK
  <2>4. Apart'
    BY <1>6 DEF StopClose, OwnInv, Apart
  <2>5. Listening'
    BY <1>6 DEF StopClose, Listening, NoFd, Fds
  <2> QED
    BY <2>3, <2>4, <2>5 DEF OwnInv
<1> QED
  BY <1>1, <1>2, <1>3, <1>4, <1>5, <1>6 DEF App, StopStep

\* The steps that leave descriptors, connections and holders as they are.
LEMMA SameHolders ==
  ASSUME OwnInv, UNCHANGED <<socketfd, app, sock, client, owner, link>>,
         \A t \in Tasks : pc'[t] \in Holding => pc[t] \in Holding
  PROVE  OwnInv'
BY DEF OwnInv, Holds, Apart, Listening

LEMMA TaskOwn ==
  ASSUME TypeOK, OwnInv, NEW t \in Tasks, Posting(t) \/ Running(t)
  PROVE  OwnInv'
<1> USE ServerAssumption DEF memberVars, appVars, taskVars, lwipVars, eventVars
<1>1. CASE OnConnect(t) \/ OnData(t) \/ OnClose(t) \/ Push(t) \/ RecvData(t) \/ RecvEnd(t)
  <2>1. UNCHANGED <<socketfd, app, sock, client, owner, link>>
    BY <1>1 DEF OnConnect, OnData, OnClose, Push, RecvData, RecvEnd
  <2>2. pc[t] \in Holding /\ \E n : pc' = [pc EXCEPT ![t] = n]
    BY <1>1 DEF OnConnect, OnData, OnClose, Push, RecvData, RecvEnd, Proceed,
               Holding, Accepting, Serving
  <2>3. \A u \in Tasks : pc'[u] \in Holding => pc[u] \in Holding
    BY <2>2 DEF TypeOK
  <2> QED
    BY <2>1, <2>3, SameHolders
<1>2. CASE StartNext(t)
  <2> DEFINE here == [pc EXCEPT ![t] = "recv"]
  <2>1. here \in [Tasks -> {"none"} \cup Accepting \cup Serving] /\ StartTask(here)
    BY <1>2 DEF StartNext, TypeOK, Serving
  <2>2. \A u \in Tasks : pc'[u] \in Holding => here[u] \in Holding
    BY <2>1, StartTaskHolding
  <2>3. \A u \in Tasks : pc'[u] \in Holding => pc[u] \in Holding
    BY <1>2, <2>2 DEF StartNext, TypeOK, Holding, Accepting, Serving
  <2> QED
    BY <1>2, <2>3, SameHolders DEF StartNext
<1>3. CASE Accept(t)
  <2>1. PICK c \in Waiting :
          \/ \E f \in Fds :
               /\ IsFirstFree(f)
               /\ owner' = [owner EXCEPT ![f] = c]
               /\ link' = [link EXCEPT ![c] = "open"]
               /\ Proceed(t, "delay")
               /\ sock' = [sock EXCEPT ![t] = f]
               /\ client' = [client EXCEPT ![t] = c]
          \/ /\ FreeFds = {}
             /\ link' = [link EXCEPT ![c] = "away"]
             /\ UNCHANGED <<owner, pc, sock, client>>
    BY <1>3 DEF Accept
  <2>2. c \in Conns /\ link[c] = "waiting"
    BY <2>1 DEF Waiting
  <2>3. \A u \in Tasks : pc[u] \in Holding => client[u] # c
    BY <2>2 DEF OwnInv, Holds, OnLine
  <2>4. CASE \E f \in Fds :
               /\ IsFirstFree(f)
               /\ owner' = [owner EXCEPT ![f] = c]
               /\ link' = [link EXCEPT ![c] = "open"]
               /\ Proceed(t, "delay")
               /\ sock' = [sock EXCEPT ![t] = f]
               /\ client' = [client EXCEPT ![t] = c]
    <3>1. PICK f \in Fds :
               /\ owner[f] = NoConn
               /\ owner' = [owner EXCEPT ![f] = c]
               /\ link' = [link EXCEPT ![c] = "open"]
               /\ pc' = [pc EXCEPT ![t] = "delay"]
               /\ sock' = [sock EXCEPT ![t] = f]
               /\ client' = [client EXCEPT ![t] = c]
      BY <2>4 DEF IsFirstFree, FreeFds, Proceed
    <3>2. Holds(t)'
      BY <2>2, <3>1 DEF Holds, OnLine, TypeOK
    <3>3. ASSUME NEW u \in Tasks \ {t}, pc'[u] \in Holding PROVE Holds(u)'
      <4>1. Holds(u) /\ client[u] # c
        BY <2>3, <3>1, <3>3 DEF OwnInv, TypeOK
      <4>2. sock[u] # f
        BY <3>1, <4>1 DEF Holds
      <4> QED
        BY <2>2, <3>1, <4>1, <4>2 DEF Holds, TypeOK
    <3>4. Apart'
      BY <2>3, <3>1 DEF OwnInv, Apart, TypeOK
    <3>5. Listening'
      BY <1>3, <3>1 DEF Accept, OwnInv, Listening, TypeOK
    <3> QED
      BY <3>2, <3>3, <3>4, <3>5 DEF OwnInv
  <2>5. CASE /\ link' = [link EXCEPT ![c] = "away"]
             /\ UNCHANGED <<owner, pc, sock, client>>
    <3>1. \A u \in Tasks : pc'[u] \in Holding => Holds(u)'
      BY <2>2, <2>3, <2>5 DEF OwnInv, Holds, TypeOK
    <3> QED
      BY <1>3, <2>5, <3>1 DEF Accept, OwnInv, Apart, Listening
  <2> QED
    BY <2>1, <2>4, <2>5
<1>4. CASE Close(t)
  <2>1. Holds(t) /\ pc[t] \in Holding
    BY <1>4 DEF Close, OwnInv, Holding, Serving
  <2>2. ASSUME NEW u \in Tasks, pc'[u] \in Holding PROVE Holds(u)'
    <3>1. u # t
      BY <1>4, <2>2 DEF Close, Proceed, TypeOK, Holding, Accepting, Serving
    <3>2. pc[u] \in Holding /\ Holds(u)
      BY <1>4, <2>2, <3>1 DEF Close, Proceed, TypeOK, OwnInv
    <3>3. client[u] # client[t] /\ sock[u] # sock[t]
      BY <2>1, <3>1, <3>2 DEF OwnInv, Apart, Holds
    <3> QED
      BY <1>4, <2>1, <3>1, <3>2, <3>3 DEF Close, Holds, TypeOK
  <2>3. Apart'
    BY <1>4 DEF Close, Proceed, OwnInv, Apart, TypeOK, Holding, Accepting, Serving
  <2>4. Listening'
    BY <1>4, <2>1 DEF Close, OwnInv, Listening, Holds, TypeOK
  <2> QED
    BY <2>2, <2>3, <2>4 DEF OwnInv
<1> QED
  BY <1>1, <1>2, <1>3, <1>4 DEF Posting, Running

LEMMA OtherOwn ==
  ASSUME TypeOK, OwnInv, EventTask \/ \E c \in Conns : Connect(c) \/ Leave(c)
  PROVE  OwnInv'
<1> USE DEF memberVars, appVars, taskVars, lwipVars, eventVars
<1>1. CASE EventTask
  BY <1>1, SameHolders DEF EventTask, Dispatch, Echo
<1>2. CASE \E c \in Conns : Connect(c) \/ Leave(c)
  <2>1. \A d \in Conns : link[d] \in OnLine => link'[d] \in OnLine
    BY <1>2 DEF Connect, Leave, OnLine, TypeOK
  <2>2. UNCHANGED <<socketfd, app, pc, sock, client, owner>>
    BY <1>2 DEF Connect, Leave
  <2> QED
    BY <2>1, <2>2 DEF OwnInv, Holds, Apart, Listening
<1> QED
  BY <1>1, <1>2

\* The two invariants together: types need to know that what is posted names
\* a descriptor and a connection.
LEMMA OwnStep == TypeOK /\ OwnInv /\ [Next]_vars => TypeOK' /\ OwnInv'
<1> SUFFICES ASSUME TypeOK, OwnInv, [Next]_vars PROVE TypeOK' /\ OwnInv'
  OBVIOUS
<1>1. CASE App
  BY <1>1, AppType, AppOwn
<1>2. ASSUME NEW t \in Tasks, Posting(t) \/ Running(t) PROVE TypeOK' /\ OwnInv'
  BY <1>2, HoldsType, PostingType, RunningType, TaskOwn
<1>3. CASE EventTask \/ \E c \in Conns : Connect(c) \/ Leave(c)
  BY <1>3, OtherType, OtherOwn
<1>4. CASE UNCHANGED vars
  BY <1>4 DEF vars, memberVars, appVars, taskVars, lwipVars, eventVars,
             TypeOK, OwnInv, Holds, Apart, Listening
<1> QED
  BY <1>1, <1>2, <1>3, <1>4 DEF Next

LEMMA OwnAlways == Spec => [](TypeOK /\ OwnInv)
BY InitType, InitOwn, OwnStep, PTL DEF Spec

\* Type correctness of the server.
THEOREM TypeCorrect == Spec => []TypeOK
BY OwnAlways, PTL

\* No descriptor is used or closed by another than the task that accepted it,
\* whatever times out, fails or is stopped.
THEOREM DescriptorsOwned == Spec => []OwnDescriptor
<1>1. TypeOK /\ OwnInv => OwnDescriptor
  BY DistinctFds DEF OwnDescriptor, OwnInv, Holds
<1> QED
  BY <1>1, OwnAlways, PTL

-----------------------------------------------------------------------------
(* What stop() deletes.                                                    *)

\* A task is created where the last acceptor moves on, or where there is none.
LEMMA StartTaskHandle ==
  ASSUME TypeOK,
         NEW here \in [Tasks -> {"none"} \cup Accepting \cup Serving],
         \A t \in Tasks : here[t] \notin Accepting,
         StartTask(here)
  PROVE  \A t \in Tasks : pc'[t] \in Accepting => task_handle' = t
BY DEF StartTask, Accepting, Serving

LEMMA HandleStep ==
  TypeOK /\ AcceptorIsHandle /\ [Next]_vars => AcceptorIsHandle'
<1> SUFFICES ASSUME TypeOK, AcceptorIsHandle, [Next]_vars PROVE AcceptorIsHandle'
  OBVIOUS
<1> USE DEF memberVars, appVars, taskVars, lwipVars, eventVars
<1>1. CASE Start
  <2>1. /\ pc \in [Tasks -> {"none"} \cup Accepting \cup Serving]
        /\ \A t \in Tasks : pc[t] \notin Accepting
        /\ StartTask(pc)
    BY <1>1 DEF Start, TypeOK, AcceptorIsHandle
  <2>2. \A t \in Tasks : pc'[t] \in Accepting => task_handle' = t
    BY <2>1, StartTaskHandle
  <2> QED
    BY <1>1, <2>2 DEF Start, AcceptorIsHandle
<1>2. CASE StopDelete
  <2>1. CASE app' \in {"deleted", "corrupted"}
    BY <1>2, <2>1 DEF StopDelete, AcceptorIsHandle
  <2>2. CASE app' = "closing"
    <3>1. /\ task_handle \in Tasks
          /\ pc' = [pc EXCEPT ![task_handle] = "none"]
      BY <1>2, <2>2 DEF StopDelete, Proceed, TypeOK
    <3>2. \A t \in Tasks : pc'[t] \notin Accepting
      BY <3>1 DEF AcceptorIsHandle, TypeOK, Accepting
    <3> QED
      BY <3>2 DEF AcceptorIsHandle
  <2> QED
    BY <1>2, <2>1, <2>2 DEF StopDelete
<1>3. CASE Create \/ Stop \/ StopShutdown \/ StopClose
  BY <1>3 DEF Create, Stop, StopShutdown, StopClose, AcceptorIsHandle
<1>4. ASSUME NEW t \in Tasks, StartNext(t) PROVE AcceptorIsHandle'
  <2> DEFINE here == [pc EXCEPT ![t] = "recv"]
  <2>1. /\ here \in [Tasks -> {"none"} \cup Accepting \cup Serving]
        /\ \A u \in Tasks : here[u] \notin Accepting
        /\ StartTask(here)
    BY <1>4 DEF StartNext, TypeOK, AcceptorIsHandle, Accepting, Serving
  <2>2. \A u \in Tasks : pc'[u] \in Accepting => task_handle' = u
    BY <2>1, StartTaskHandle
  <2>3. app' = app /\ app \in {"running", "walking", "deleted", "corrupted"}
    BY <1>4 DEF StartNext, AcceptorIsHandle, Accepting
  <2> QED
    BY <2>2, <2>3 DEF AcceptorIsHandle
<1>5. ASSUME NEW t \in Tasks, Posting(t) \/ Running(t), ~StartNext(t)
      PROVE  AcceptorIsHandle'
  <2>1. UNCHANGED <<task_handle, app>>
    BY <1>5 DEF Posting, Running, OnConnect, OnData, OnClose, Accept, Push, RecvData,
               RecvEnd, Close
  <2>2. \A u \in Tasks : pc'[u] \in Accepting => pc[u] \in Accepting
    BY <1>5 DEF Posting, Running, OnConnect, OnData, OnClose, Accept, Push, RecvData,
               RecvEnd, AtEnd, Close, Proceed, TypeOK, Accepting, Serving
  <2> QED
    BY <2>1, <2>2 DEF AcceptorIsHandle
<1>6. CASE EventTask \/ \E c \in Conns : Connect(c) \/ Leave(c)
  BY <1>6 DEF EventTask, Dispatch, Echo, Connect, Leave, AcceptorIsHandle
<1>7. CASE UNCHANGED vars
  BY <1>7 DEF vars, AcceptorIsHandle
<1> QED
  BY <1>1, <1>2, <1>3, <1>4, <1>5, <1>6, <1>7 DEF Next, App, StopStep

\* One task at most is inside accept(), stop() knows it, and none is left when
\* stop() has done, even when posts are lost and tasks cannot be created.
THEOREM AcceptorKnown == Spec => []AcceptorIsHandle
<1>1. Init => AcceptorIsHandle
  BY DEF Init, AcceptorIsHandle, Accepting
<1> QED
  BY <1>1, HandleStep, TypeCorrect, PTL DEF Spec

\* A running server has an acceptor.
AcceptorExists ==
  app \in {"running", "walking"} => task_handle \in Tasks /\ pc[task_handle] \in Accepting

\* As long as every task has been created the server has an acceptor, and what
\* stop() deletes is that one.
ExistsInv == noTask = 0 => AcceptorExists /\ StopDeletesLiveTask

LEMMA StartTaskExists ==
  ASSUME TypeOK,
         NEW here \in [Tasks -> {"none"} \cup Accepting \cup Serving],
         StartTask(here), noTask' = 0
  PROVE  noTask = 0 /\ task_handle' \in Tasks /\ pc'[task_handle'] \in Accepting
<1>1. noTask \in Nat
  BY ServerAssumption DEF TypeOK
<1> QED
  BY <1>1 DEF StartTask, Accepting

LEMMA ExistsStep ==
  TypeOK /\ AcceptorIsHandle /\ ExistsInv /\ [Next]_vars => ExistsInv'
<1> SUFFICES ASSUME TypeOK, AcceptorIsHandle, ExistsInv, [Next]_vars, noTask' = 0
             PROVE  AcceptorExists' /\ StopDeletesLiveTask'
  BY DEF ExistsInv
<1> USE DEF memberVars, appVars, taskVars, lwipVars, eventVars
<1>1. CASE Start
  <2>1. pc \in [Tasks -> {"none"} \cup Accepting \cup Serving] /\ StartTask(pc)
    BY <1>1 DEF Start, TypeOK
  <2>2. noTask = 0 /\ task_handle' \in Tasks /\ pc'[task_handle'] \in Accepting
    BY <2>1, StartTaskExists
  <2> QED
    BY <1>1, <2>2 DEF Start, ExistsInv, AcceptorExists, StopDeletesLiveTask
<1>2. CASE StopDelete
  <2>1. task_handle # NoTask /\ pc[task_handle] # "none"
    BY <1>2, ServerAssumption DEF StopDelete, ExistsInv, AcceptorExists, Accepting
  <2> QED
    BY <1>2, <2>1 DEF StopDelete, AcceptorExists, StopDeletesLiveTask
<1>3. CASE Create \/ Stop \/ StopShutdown \/ StopClose
  BY <1>3 DEF Create, Stop, StopShutdown, StopClose, ExistsInv, AcceptorExists,
             StopDeletesLiveTask
<1>4. ASSUME NEW t \in Tasks, StartNext(t)
      PROVE  AcceptorExists' /\ StopDeletesLiveTask'
  <2>1. [pc EXCEPT ![t] = "recv"] \in [Tasks -> {"none"} \cup Accepting \cup Serving]
    BY DEF TypeOK, Serving
  <2>2. noTask = 0 /\ task_handle' \in Tasks /\ pc'[task_handle'] \in Accepting
    BY <1>4, <2>1, StartTaskExists DEF StartNext
  <2> QED
    BY <1>4, <2>2 DEF StartNext, ExistsInv, AcceptorExists, StopDeletesLiveTask
<1>5. ASSUME NEW t \in Tasks, Posting(t) \/ Running(t), ~StartNext(t)
      PROVE  AcceptorExists' /\ StopDeletesLiveTask'
  <2>1. UNCHANGED <<task_handle, app, noTask>>
    BY <1>5 DEF Posting, Running, OnConnect, OnData, OnClose, Accept, Push, RecvData,
               RecvEnd, Close
  <2>2. \A u \in Tasks : pc[u] \in Accepting => pc'[u] \in Accepting
    BY <1>5 DEF Posting, Running, OnConnect, OnData, OnClose, Accept, Push, RecvData,
               RecvEnd, AtEnd, Close, Proceed, TypeOK, Accepting, Serving
  <2> QED
    BY <2>1, <2>2 DEF ExistsInv, AcceptorExists, StopDeletesLiveTask
<1>6. CASE EventTask \/ \E c \in Conns : Connect(c) \/ Leave(c)
  BY <1>6 DEF EventTask, Dispatch, Echo, Connect, Leave, ExistsInv, AcceptorExists,
             StopDeletesLiveTask
<1>7. CASE UNCHANGED vars
  BY <1>7 DEF vars, ExistsInv, AcceptorExists, StopDeletesLiveTask
<1> QED
  BY <1>1, <1>2, <1>3, <1>4, <1>5, <1>6, <1>7 DEF Next, App, StopStep

LEMMA ExistsAlways == Spec => []ExistsInv
<1>1. Init => ExistsInv
  BY DEF Init, ExistsInv, AcceptorExists, StopDeletesLiveTask
<1> QED
  BY <1>1, ExistsStep, AcceptorKnown, TypeCorrect, PTL DEF Spec

\* Until xTaskCreate fails for the first time, stop() finds a live task to
\* delete, that of the acceptor, however many failures are allowed afterwards.
THEOREM StopSafeUntilNoTask == Spec => [](noTask = 0 => StopDeletesLiveTask)
<1>1. ExistsInv => (noTask = 0 => StopDeletesLiveTask)
  BY DEF ExistsInv
<1> QED
  BY <1>1, ExistsAlways, PTL

\* As long as xTaskCreate succeeds stop() finds a live task to delete.
THEOREM StopSafe == ASSUME MaxNoTask = 0 PROVE Spec => []StopDeletesLiveTask
<1>1. TypeOK => noTask = 0
  BY DEF TypeOK
<1> QED
  BY <1>1, StopSafeUntilNoTask, TypeCorrect, PTL

-----------------------------------------------------------------------------
(* Whom stop() reaches.                                                    *)

\* tasks whose descriptor is in tcp_sockets, or has been
Pushed == {"connect", "start"} \cup Serving

\* What stop() must still shut down is on the list it starts from, then on what
\* is left of it; tcp_sockets also keeps descriptors that are long closed.
Reachable(t) ==
  \/ client[t] \in missed
  \/ app = "running" /\ sock[t] \in tcp_sockets
  \/ app = "walking" /\ sock[t] \in walk
  \/ app \in {"deleted", "corrupted"}

ReachInv ==
  \A t \in Tasks : pc[t] \in Pushed /\ link[client[t]] = "open" => Reachable(t)

LEMMA PushedHolds ==
  ASSUME OwnInv, NEW t \in Tasks, pc[t] \in Pushed
  PROVE  pc[t] \in Holding /\ Holds(t)
BY DEF OwnInv, Pushed, Holding, Accepting, Serving

LEMMA StartTaskPushed ==
  ASSUME TypeOK,
         NEW here \in [Tasks -> {"none"} \cup Accepting \cup Serving],
         StartTask(here)
  PROVE  \A t \in Tasks : pc'[t] \in Pushed => here[t] \in Pushed
BY DEF StartTask, Pushed, Accepting, Serving

\* The steps that push nothing, open nothing and let stop() stand still.
LEMMA SameReach ==
  ASSUME ReachInv,
         UNCHANGED <<app, walk, tcp_sockets, missed>>,
         \A t \in Tasks : pc'[t] \in Pushed =>
           /\ pc[t] \in Pushed /\ client'[t] = client[t] /\ sock'[t] = sock[t]
           /\ link'[client[t]] = "open" => link[client[t]] = "open"
  PROVE  ReachInv'
BY DEF ReachInv, Reachable

LEMMA AppReach == TypeOK /\ OwnInv /\ ReachInv /\ App => ReachInv'
<1> SUFFICES ASSUME TypeOK, OwnInv, ReachInv, App PROVE ReachInv'
  OBVIOUS
<1> USE DEF memberVars, appVars, taskVars, lwipVars, eventVars
<1>1. CASE Create
  BY <1>1 DEF Create, ReachInv, Reachable
<1>2. CASE Start
  <2>1. pc \in [Tasks -> {"none"} \cup Accepting \cup Serving] /\ StartTask(pc)
    BY <1>2 DEF Start, TypeOK
  <2>2. \A t \in Tasks : pc'[t] \in Pushed => pc[t] \in Pushed
    BY <2>1, StartTaskPushed
  <2> QED
    BY <1>2, <2>2 DEF Start, ReachInv, Reachable
<1>3. CASE Stop
  BY <1>3 DEF Stop, ReachInv, Reachable
<1>4. CASE StopShutdown
  <2>1. PICK f \in walk : walk' = walk \ {f} /\ Shutdown(f)
    BY <1>4 DEF StopShutdown
  <2>2. UNCHANGED <<app, pc, sock, client, tcp_sockets, missed, owner>>
    BY <1>4 DEF StopShutdown, Shutdown
  <2> SUFFICES ASSUME NEW t \in Tasks, pc[t] \in Pushed, link'[client[t]] = "open"
               PROVE  Reachable(t)'
    BY <2>2 DEF ReachInv
  <2>3. Holds(t)
    BY PushedHolds
  <2>4. link[client[t]] = "open" /\ sock[t] # f
    BY <2>1, <2>3 DEF Shutdown, Holds
  <2> QED
    BY <2>1, <2>2, <2>4 DEF ReachInv, Reachable
<1>5. CASE StopDelete
  <2>1. UNCHANGED <<link, walk, missed>> /\ walk = {} /\ app = "walking"
    BY <1>5 DEF StopDelete
  <2>2. \A t \in Tasks : pc'[t] \in Pushed =>
          pc[t] \in Pushed /\ client'[t] = client[t]
    BY <1>5 DEF StopDelete, Proceed, TypeOK, Pushed, Serving
  <2> QED
    BY <2>1, <2>2 DEF ReachInv, Reachable
<1>6. CASE StopClose
  BY <1>6, PushedHolds DEF StopClose, Dropped, Holds, ReachInv, Reachable
<1> QED
  BY <1>1, <1>2, <1>3, <1>4, <1>5, <1>6 DEF App, StopStep

LEMMA TaskReach ==
  ASSUME TypeOK, OwnInv, AcceptorIsHandle, ReachInv,
         NEW t \in Tasks, Posting(t) \/ Running(t)
  PROVE  ReachInv'
<1> USE DEF memberVars, appVars, taskVars, lwipVars, eventVars
<1>1. CASE OnConnect(t) \/ OnData(t) \/ OnClose(t) \/ RecvData(t) \/ RecvEnd(t)
  <2>1. UNCHANGED <<app, walk, tcp_sockets, missed, sock, client, link>>
    BY <1>1 DEF OnConnect, OnData, OnClose, RecvData, RecvEnd
  <2>2. \A u \in Tasks : pc'[u] \in Pushed => pc[u] \in Pushed
    BY <1>1 DEF OnConnect, OnData, OnClose, RecvData, RecvEnd, Proceed, TypeOK,
               Pushed, Serving
  <2> QED
    BY <2>1, <2>2, SameReach
<1>2. CASE StartNext(t)
  <2> DEFINE here == [pc EXCEPT ![t] = "recv"]
  <2>1. here \in [Tasks -> {"none"} \cup Accepting \cup Serving] /\ StartTask(here)
    BY <1>2 DEF StartNext, TypeOK, Serving
  <2>2. \A u \in Tasks : pc'[u] \in Pushed => here[u] \in Pushed
    BY <2>1, StartTaskPushed
  <2>3. \A u \in Tasks : pc'[u] \in Pushed => pc[u] \in Pushed
    BY <1>2, <2>2 DEF StartNext, TypeOK, Pushed
  <2>4. UNCHANGED <<app, walk, tcp_sockets, missed, sock, client, link>>
    BY <1>2 DEF StartNext
  <2> QED
    BY <2>3, <2>4, SameReach
<1>3. CASE Accept(t)
  <2>1. UNCHANGED <<app, walk, tcp_sockets, missed>>
    BY <1>3 DEF Accept
  <2>2. ASSUME NEW u \in Tasks, pc'[u] \in Pushed
        PROVE  /\ pc[u] \in Pushed /\ client'[u] = client[u] /\ sock'[u] = sock[u]
               /\ link'[client[u]] = "open" => link[client[u]] = "open"
    <3>1. u # t /\ pc[u] \in Pushed /\ client'[u] = client[u] /\ sock'[u] = sock[u]
      BY <1>3, <2>2 DEF Accept, Proceed, TypeOK, Pushed, Serving
    <3>2. client[u] \in Conns /\ link[client[u]] # "waiting"
      BY <3>1, PushedHolds DEF Holds, OnLine
    <3> QED
      BY <1>3, <3>1, <3>2 DEF Accept, Waiting, TypeOK
  <2> QED
    BY <2>1, <2>2, SameReach
<1>4. CASE Push(t)
  <2>1. /\ pc' = [pc EXCEPT ![t] = "connect"]
        /\ tcp_sockets' = tcp_sockets \cup {sock[t]}
        /\ UNCHANGED <<app, sock, client, owner, link>>
    BY <1>4 DEF Push, Proceed, Listed
  <2>2. app # "running" =>
          missed' = missed \cup {client[t]}
                     \cup {c \in Conns : \E f \in walk \ walk' : owner[f] = c}
    BY <1>4 DEF Push
  <2>3. app = "running" => UNCHANGED <<walk, missed>>
    BY <1>4 DEF Push
  <2>4. Reachable(t)'
    <3>1. app \in {"running", "walking", "deleted", "corrupted"}
      BY <1>4 DEF Push, AcceptorIsHandle, Accepting
    <3> QED
      BY <2>1, <2>2, <3>1 DEF Reachable
  <2>5. ASSUME NEW u \in Tasks \ {t}, pc'[u] \in Pushed, link'[client'[u]] = "open"
        PROVE  Reachable(u)'
    <3>1. pc[u] \in Pushed /\ Reachable(u) /\ Holds(u)
      BY <2>1, <2>5, PushedHolds DEF TypeOK, ReachInv
    <3>2. CASE app = "walking" /\ sock[u] \in walk /\ sock[u] \notin walk'
      BY <2>1, <2>2, <3>1, <3>2 DEF Reachable, Holds
    <3>3. CASE ~(app = "walking" /\ sock[u] \in walk /\ sock[u] \notin walk')
      BY <2>1, <2>2, <2>3, <3>1, <3>3 DEF Reachable
    <3> QED
      BY <3>2, <3>3
  <2> QED
    BY <2>4, <2>5 DEF ReachInv
<1>5. CASE Close(t)
  <2>1. Holds(t) /\ pc[t] \in Holding
    BY <1>5, PushedHolds DEF Close, Pushed, Serving
  <2>2. ASSUME NEW u \in Tasks, pc'[u] \in Pushed, link'[client'[u]] = "open"
        PROVE  Reachable(u)'
    <3>1. u # t /\ pc[u] \in Pushed /\ client'[u] = client[u] /\ sock'[u] = sock[u]
      BY <1>5, <2>2 DEF Close, Proceed, TypeOK, Pushed, Serving
    <3>2. Holds(u) /\ client[u] # client[t]
      BY <2>1, <3>1, PushedHolds DEF OwnInv, Apart
    <3>3. link[client[u]] = "open"
      BY <1>5, <2>2, <3>1, <3>2 DEF Close, Holds, TypeOK
    <3> QED
      BY <1>5, <3>1, <3>2, <3>3 DEF Close, ReachInv, Reachable
  <2> QED
    BY <2>2 DEF ReachInv
<1> QED
  BY <1>1, <1>2, <1>3, <1>4, <1>5 DEF Posting, Running

LEMMA ReachStep ==
  TypeOK /\ OwnInv /\ AcceptorIsHandle /\ ReachInv /\ [Next]_vars => ReachInv'
<1> SUFFICES ASSUME TypeOK, OwnInv, AcceptorIsHandle, ReachInv, [Next]_vars
             PROVE  ReachInv'
  OBVIOUS
<1> USE DEF memberVars, appVars, taskVars, lwipVars, eventVars
<1>1. CASE App
  BY <1>1, AppReach
<1>2. ASSUME NEW t \in Tasks, Posting(t) \/ Running(t) PROVE ReachInv'
  BY <1>2, TaskReach
<1>3. CASE EventTask
  BY <1>3, SameReach DEF EventTask, Dispatch, Echo
<1>4. CASE \E c \in Conns : Connect(c) \/ Leave(c)
  <2>1. \A d \in Conns : link'[d] = "open" => link[d] = "open"
    BY <1>4 DEF Connect, Leave, TypeOK
  <2>2. UNCHANGED <<app, walk, tcp_sockets, missed, pc, sock, client>>
    BY <1>4 DEF Connect, Leave
  <2>3. \A u \in Tasks : pc[u] \in Pushed => client[u] \in Conns
    BY PushedHolds DEF Holds
  <2> QED
    BY <2>1, <2>2, <2>3, SameReach
<1>5. CASE UNCHANGED vars
  BY <1>5 DEF vars, ReachInv, Reachable
<1> QED
  BY <1>1, <1>2, <1>3, <1>4, <1>5 DEF Next

\* After stop() no connection it found in service is open; the exceptions are
\* those accepted while it ran, and those that a list growing under its
\* iterator hid from it.
THEOREM StopComplete == Spec => []StopReachesAll
<1>1. Init => ReachInv
  BY DEF Init, ReachInv, Pushed, Serving
<1>2. OwnInv /\ ReachInv => StopReachesAll
  BY DEF ReachInv, Reachable, StopReachesAll, OpenServed, Pushed
<1> QED
  BY <1>1, <1>2, ReachStep, OwnAlways, AcceptorKnown, PTL DEF Spec

-----------------------------------------------------------------------------
(* Where the data buffers are.                                             *)

\* the data buffers among the events of s
DataIn(s) == {i \in DOMAIN s : s[i].id = "DATA"}

LEMMA DataInFinite ==
  ASSUME NEW s \in Seq(Event)
  PROVE  IsFiniteSet(DataIn(s)) /\ Cardinality(DataIn(s)) \in Nat
<1>1. DataIn(s) \in SUBSET (1 .. Len(s)) /\ Len(s) \in Nat
  BY DEF DataIn
<1>2. IsFiniteSet(1 .. Len(s))
  BY <1>1, FS_Interval
<1> QED
  BY <1>1, <1>2, FS_Subset, FS_CardinalityType

LEMMA DataAppend ==
  ASSUME NEW s \in Seq(Event), NEW e \in Event
  PROVE  Cardinality(DataIn(Append(s, e)))
           = Cardinality(DataIn(s)) + (IF e.id = "DATA" THEN 1 ELSE 0)
<1>1. Len(s) + 1 \notin DataIn(s)
  BY DEF DataIn
<1>2. CASE e.id = "DATA"
  <2>1. DataIn(Append(s, e)) = DataIn(s) \cup {Len(s) + 1}
    BY <1>2 DEF DataIn
  <2> QED
    BY <1>1, <1>2, <2>1, DataInFinite, FS_AddElement
<1>3. CASE e.id # "DATA"
  <2>1. DataIn(Append(s, e)) = DataIn(s)
    BY <1>3 DEF DataIn
  <2> QED
    BY <1>3, <2>1, DataInFinite
<1> QED
  BY <1>2, <1>3

LEMMA DataTail ==
  ASSUME NEW s \in Seq(Event), s # <<>>
  PROVE  Cardinality(DataIn(Tail(s)))
           = Cardinality(DataIn(s)) - (IF Head(s).id = "DATA" THEN 1 ELSE 0)
<1> DEFINE Rest == DataIn(s) \ {1}
           shift == [i \in DataIn(Tail(s)) |-> i + 1]
<1>0. Tail(s) \in Seq(Event) /\ Len(Tail(s)) = Len(s) - 1
      /\ \A i \in 1 .. Len(s) - 1 : Tail(s)[i] = s[i + 1]
  OBVIOUS
<1>1. IsFiniteSet(Rest) /\ Cardinality(Rest)
        = Cardinality(DataIn(s)) - (IF 1 \in DataIn(s) THEN 1 ELSE 0)
  BY DataInFinite, FS_RemoveElement
<1>2. 1 \in DataIn(s) <=> Head(s).id = "DATA"
  BY DEF DataIn
<1>3. shift \in Bijection(DataIn(Tail(s)), Rest)
  <2>1. shift \in [DataIn(Tail(s)) -> Rest]
    BY <1>0 DEF DataIn
  <2>2. \A i, j \in DataIn(Tail(s)) : shift[i] = shift[j] => i = j
    BY <1>0 DEF DataIn
  <2>3. \A j \in Rest : \E i \in DataIn(Tail(s)) : shift[i] = j
    <3> SUFFICES ASSUME NEW j \in Rest PROVE \E i \in DataIn(Tail(s)) : shift[i] = j
      OBVIOUS
    <3>1. j - 1 \in DataIn(Tail(s)) /\ shift[j - 1] = j
      BY <1>0 DEF DataIn
    <3> QED
      BY <3>1
  <2> QED
    BY <2>1, <2>2, <2>3 DEF Bijection, Injection, Surjection, IsInjective
<1>4. Cardinality(Rest) = Cardinality(DataIn(Tail(s)))
  BY <1>0, <1>3, DataInFinite, FS_Bijection DEF ExistsBijection
<1> QED
  BY <1>1, <1>2, <1>4

\* what is on its way to the handler is with it already, or in the queue
LEMMA PendingAppend ==
  ASSUME TypeOK, NEW e \in Event, queue' = Append(queue, e), handling' = handling
  PROVE  Pending' = Append(Pending, e) /\ Pending \in Seq(Event)
BY DEF TypeOK, Pending

\* The handler is busy with one packet, and only with data.
OneHandled ==
  \/ handling = <<>>
  \/ \E e \in Event : handling = <<e>> /\ e.id = "DATA"

LEMMA DispatchOne ==
  ASSUME TypeOK, Dispatch
  PROVE  /\ Head(queue) \in Event
         /\ Head(queue).id = "DATA" => handling' = <<Head(queue)>> /\ Pending' = Pending
         /\ Head(queue).id # "DATA" => handling' = <<>> /\ Pending' = Tail(Pending)
         /\ Pending = queue /\ queue # <<>> /\ OneHandled'
<1>1. /\ queue \in Seq(Event) /\ queue # <<>> /\ handling = <<>>
      /\ queue' = Tail(queue)
      /\ Head(queue).id = "DATA" => handling' = <<Head(queue)>>
      /\ Head(queue).id # "DATA" => handling' = <<>>
  BY DEF Dispatch, TypeOK
<1>2. Head(queue) \in Event
  BY <1>1
<1>3. Pending = queue
  BY <1>1 DEF Pending
<1>4. <<Head(queue)>> \o Tail(queue) = queue /\ <<>> \o Tail(queue) = Tail(queue)
  BY <1>1
<1> QED
  BY <1>1, <1>2, <1>3, <1>4, Zenon DEF Pending, OneHandled


\* the tasks that hold a buffer they have not posted
Senders == {t \in Tasks : pc[t] = "data"}

\* What BuffersAccounted counts, and that the handler frees what it holds: it is
\* never given an event without a buffer.
BufInv ==
  /\ OneHandled
  /\ late = 0 /\ noTask = 0 =>
       heap = Cardinality(Senders) + Cardinality(DataIn(Pending))

LEMMA CountsAreNumbers ==
  ASSUME TypeOK
  PROVE  /\ Pending \in Seq(Event)
         /\ IsFiniteSet(Senders) /\ Cardinality(Senders) \in Nat
         /\ Cardinality(DataIn(Pending)) \in Nat
<1>1. Pending \in Seq(Event)
  BY DEF TypeOK, Pending
<1>2. Senders \in SUBSET Tasks
  BY DEF Senders
<1> QED
  BY <1>1, <1>2, TasksAssumption, FS_Subset, FS_CardinalityType, DataInFinite

\* The steps that neither allocate, pass on nor free a buffer.
LEMMA SendersSame ==
  ASSUME TypeOK, BufInv, UNCHANGED <<heap, Pending, handling>>,
         \A t \in Tasks : pc'[t] = "data" <=> pc[t] = "data",
         late' = 0 /\ noTask' = 0 => late = 0 /\ noTask = 0
  PROVE  BufInv'
<1>1. Senders' = Senders
  BY DEF Senders
<1> QED
  BY <1>1 DEF BufInv, OneHandled

LEMMA StartTaskSenders ==
  ASSUME TypeOK,
         NEW here \in [Tasks -> {"none"} \cup Accepting \cup Serving],
         StartTask(here)
  PROVE  /\ \A t \in Tasks : pc'[t] = "data" <=> here[t] = "data"
         /\ noTask' = 0 => noTask = 0
<1>1. noTask \in Nat
  BY ServerAssumption DEF TypeOK
<1> QED
  BY <1>1 DEF StartTask, Accepting, Serving

LEMMA AppBuf ==
  TypeOK /\ AcceptorIsHandle /\ ExistsInv /\ BufInv /\ App => BufInv'
<1> SUFFICES ASSUME TypeOK, AcceptorIsHandle, ExistsInv, BufInv, App PROVE BufInv'
  OBVIOUS
<1> USE DEF memberVars, appVars, taskVars, lwipVars, eventVars
<1>0. UNCHANGED <<heap, queue, handling, late>>
  BY DEF App, Create, Start, Stop, StopStep, StopShutdown, StopDelete, StopClose
<1>1. CASE Start
  <2>1. pc \in [Tasks -> {"none"} \cup Accepting \cup Serving] /\ StartTask(pc)
    BY <1>1 DEF Start, TypeOK
  <2> QED
    BY <1>0, <2>1, StartTaskSenders, SendersSame DEF Pending
<1>2. CASE StopDelete
  <2>1. noTask' = noTask
    BY <1>2 DEF StopDelete
  <2>2. ASSUME noTask = 0
        PROVE  \A t \in Tasks : pc'[t] = "data" <=> pc[t] = "data"
    BY <1>2, <2>2 DEF StopDelete, Proceed, ExistsInv, AcceptorExists, TypeOK, Accepting
  <2>3. CASE noTask = 0
    BY <1>0, <2>1, <2>2, <2>3, SendersSame DEF Pending
  <2>4. CASE noTask # 0
    BY <1>0, <2>1, <2>4 DEF BufInv, OneHandled
  <2> QED
    BY <2>3, <2>4
<1>3. CASE Create \/ Stop \/ StopShutdown \/ StopClose
  BY <1>0, <1>3, SendersSame DEF Create, Stop, StopShutdown, StopClose, Pending
<1> QED
  BY <1>1, <1>2, <1>3 DEF App, StopStep

LEMMA PostingBuf ==
  ASSUME TypeOK, BufInv, NEW t \in Tasks, Posting(t),
         pc[t] \in Holding => sock[t] \in Fds /\ client[t] \in Conns
  PROVE  BufInv'
<1> USE DEF memberVars, appVars, taskVars, lwipVars
<1> DEFINE id == CASE pc[t] = "connect" -> "CONNECTED"
                   [] pc[t] = "data" -> "DATA"
                   [] OTHER -> "CLOSE"
           e  == EventOf(t, id)
<1>0. pc[t] \in {"connect", "data", "end"} /\ pc[t] \in Holding
  BY DEF Posting, OnConnect, OnData, OnClose, Holding, Accepting, Serving
<1>1. e \in Event /\ (e.id = "DATA" <=> pc[t] = "data")
  BY <1>0 DEF EventOf, Event
<1>2. /\ Post(e) /\ UNCHANGED <<heap, handling, noTask>>
      /\ \E n \in {"start", "recv", "close"} : pc' = [pc EXCEPT ![t] = n]
  BY DEF Posting, OnConnect, OnData, OnClose, Proceed
<1>3. late \in Nat
  BY ServerAssumption DEF TypeOK
<1> HIDE DEF e, id
<1>4. OneHandled'
  BY <1>2 DEF BufInv, OneHandled
<1>5. ASSUME late' = 0, noTask' = 0
      PROVE  heap' = Cardinality(Senders') + Cardinality(DataIn(Pending'))
  <2>1. queue' = Append(queue, e) /\ late = 0 /\ noTask = 0
    BY <1>2, <1>3, <1>5 DEF Post
  <2>2. Pending' = Append(Pending, e) /\ Pending \in Seq(Event)
    BY <1>1, <1>2, <2>1, PendingAppend
  <2>3. Cardinality(DataIn(Pending'))
          = Cardinality(DataIn(Pending)) + (IF e.id = "DATA" THEN 1 ELSE 0)
    BY <1>1, <2>2, DataAppend
  <2>4. heap = Cardinality(Senders) + Cardinality(DataIn(Pending))
    BY <2>1 DEF BufInv
  <2>5. Senders' = Senders \ {t}
    BY <1>2 DEF Senders, TypeOK
  <2>6. Cardinality(Senders')
          = IF t \in Senders THEN Cardinality(Senders) - 1 ELSE Cardinality(Senders)
    BY <2>5, CountsAreNumbers, FS_RemoveElement
  <2>7. t \in Senders <=> e.id = "DATA"
    BY <1>1 DEF Senders
  <2> QED
    BY <1>2, <2>3, <2>4, <2>6, <2>7, CountsAreNumbers
<1> QED
  BY <1>4, <1>5 DEF BufInv

LEMMA RunningBuf ==
  ASSUME TypeOK, BufInv, NEW t \in Tasks, Running(t)
  PROVE  BufInv'
<1> USE DEF memberVars, appVars, taskVars, lwipVars, eventVars
<1>1. CASE StartNext(t)
  <2> DEFINE here == [pc EXCEPT ![t] = "recv"]
  <2>1. here \in [Tasks -> {"none"} \cup Accepting \cup Serving] /\ StartTask(here)
    BY <1>1 DEF StartNext, TypeOK, Serving
  <2>2. \A u \in Tasks : here[u] = "data" <=> pc[u] = "data"
    BY <1>1 DEF StartNext, TypeOK
  <2>3. UNCHANGED <<heap, queue, handling, late>>
    BY <1>1 DEF StartNext
  <2> HIDE DEF here
  <2> QED
    BY <2>1, <2>2, <2>3, StartTaskSenders, SendersSame DEF Pending
<1>2. CASE RecvData(t)
  <2>1. /\ heap' = heap + 1 /\ UNCHANGED <<Pending, handling, late, noTask>>
        /\ pc[t] = "recv" /\ pc' = [pc EXCEPT ![t] = "data"]
    BY <1>2 DEF RecvData, Proceed, Pending
  <2>2. Senders' = Senders \cup {t} /\ t \notin Senders
    BY <2>1 DEF Senders, TypeOK
  <2>3. Cardinality(Senders') = Cardinality(Senders) + 1
    BY <2>2, CountsAreNumbers, FS_AddElement
  <2>4. Cardinality(DataIn(Pending))' = Cardinality(DataIn(Pending))
    BY <2>1
  <2> QED
    BY <2>1, <2>3, <2>4, CountsAreNumbers DEF BufInv, OneHandled
<1>3. CASE Accept(t) \/ Push(t) \/ RecvEnd(t) \/ Close(t)
  <2>1. UNCHANGED <<heap, queue, handling, late, noTask>>
    BY <1>3 DEF Accept, Push, RecvEnd, Close
  <2>2. \A u \in Tasks : pc'[u] = "data" <=> pc[u] = "data"
    BY <1>3 DEF Accept, Push, RecvEnd, Close, AtEnd, Proceed, TypeOK
  <2> QED
    BY <2>1, <2>2, SendersSame DEF Pending
<1> QED
  BY <1>1, <1>2, <1>3 DEF Running

LEMMA EventBuf == TypeOK /\ BufInv /\ EventTask => BufInv'
<1> SUFFICES ASSUME TypeOK, BufInv, EventTask PROVE BufInv'
  OBVIOUS
<1> USE DEF memberVars, appVars, taskVars, lwipVars
<1>0. UNCHANGED <<pc, noTask, late>> /\ Senders' = Senders
  BY DEF EventTask, Dispatch, Echo, Senders
<1>1. CASE Dispatch
  <2> DEFINE e == Head(queue)
  <2>1. /\ e \in Event /\ Pending = queue /\ queue # <<>> /\ OneHandled'
        /\ e.id = "DATA" => Pending' = Pending
        /\ e.id # "DATA" => Pending' = Tail(Pending)
    BY <1>1, DispatchOne
  <2>2. heap' = heap
    BY <1>1 DEF Dispatch
  <2> HIDE DEF e
  <2>3. CASE e.id = "DATA"
    BY <1>0, <2>1, <2>2, <2>3 DEF BufInv
  <2>4. CASE e.id # "DATA"
    <3>1. Head(Pending) = e /\ Pending # <<>> /\ Pending' = Tail(Pending)
      BY <2>1, <2>4 DEF e
    <3>2. Cardinality(DataIn(Pending')) = Cardinality(DataIn(Pending))
      BY <2>4, <3>1, CountsAreNumbers, DataTail
    <3> QED
      BY <1>0, <2>1, <2>2, <3>2 DEF BufInv
  <2> QED
    BY <2>3, <2>4
<1>2. CASE Echo
  <2>1. PICK e \in Event : handling = <<e>> /\ e.id = "DATA"
    BY <1>2 DEF Echo, BufInv, OneHandled
  <2>2. /\ Pending # <<>> /\ Head(Pending) = e
        /\ Pending' = Tail(Pending)
    <3>1. queue \in Seq(Event) /\ handling' = <<>> /\ queue' = queue
      BY <1>2 DEF Echo, TypeOK
    <3>2. /\ <<e>> \o queue # <<>> /\ Head(<<e>> \o queue) = e
          /\ <<>> \o queue = Tail(<<e>> \o queue)
      BY <2>1, <3>1
    <3> QED
      BY <2>1, <3>1, <3>2 DEF Pending
  <2>3. Cardinality(DataIn(Pending')) = Cardinality(DataIn(Pending)) - 1
    BY <2>1, <2>2, CountsAreNumbers, DataTail
  <2>4. heap' = heap - 1 /\ handling' = <<>>
    BY <1>2 DEF Echo, AfterFree
  <2> QED
    BY <1>0, <2>3, <2>4, CountsAreNumbers DEF BufInv, OneHandled
<1> QED
  BY <1>1, <1>2 DEF EventTask

LEMMA BufStep ==
  TypeOK /\ OwnInv /\ AcceptorIsHandle /\ ExistsInv /\ BufInv /\ [Next]_vars => BufInv'
<1> SUFFICES ASSUME TypeOK, OwnInv, AcceptorIsHandle, ExistsInv, BufInv, [Next]_vars
             PROVE  BufInv'
  OBVIOUS
<1>1. CASE App
  BY <1>1, AppBuf
<1>2. ASSUME NEW t \in Tasks, Posting(t) \/ Running(t) PROVE BufInv'
  BY <1>2, HoldsType, PostingBuf, RunningBuf
<1>3. CASE EventTask
  BY <1>3, EventBuf
<1>4. CASE \E c \in Conns : Connect(c) \/ Leave(c)
  BY <1>4, SendersSame DEF Connect, Leave, Pending, taskVars, eventVars
<1>5. CASE UNCHANGED vars
  BY <1>5, SendersSame DEF vars, Pending, taskVars, eventVars
<1> QED
  BY <1>1, <1>2, <1>3, <1>4, <1>5 DEF Next

\* As long as no post gives up and no task creation fails, the buffers on the
\* heap are those in the hands of a task, in the queue or with the handler:
\* none is leaked or freed twice, by stop() either.
THEOREM NoBufferLost == Spec => []BuffersAccounted
<1>1. Init => BufInv
  <2> SUFFICES ASSUME Init PROVE BufInv
    OBVIOUS
  <2>1. Senders = {} /\ DataIn(Pending) = {} /\ heap = 0 /\ handling = <<>>
    BY DEF Init, Senders, DataIn, Pending
  <2> QED
    BY <2>1, FS_EmptySet DEF BufInv, OneHandled
<1>2. BufInv => BuffersAccounted
  BY DEF BufInv, BuffersAccounted, Senders, DataIn
<1> QED
  BY <1>1, <1>2, BufStep, OwnAlways, ExistsAlways, AcceptorKnown, PTL DEF Spec

=============================================================================
