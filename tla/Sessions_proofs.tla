--------------------------- MODULE Sessions_proofs --------------------------
(***************************************************************************)
(* The socket server implements Sessions: what its event handler sees of   *)
(* every descriptor is one connection after the other, whole and in order, *)
(* for any number of clients, tasks and descriptors, any queue, and        *)
(* whatever stop() deletes, as long as no post gives up on a full queue.   *)
(***************************************************************************)
EXTENDS SocketServer_proofs

-----------------------------------------------------------------------------
(* The invariant.                                                          *)

Knowledge == [Fds -> Conns \cup {NoConn}]

\* The handler knows `known`, sees e, and knows `after`.
Tells(known, e, after) ==
  \/ /\ e.id = "CONNECTED"
     /\ known[e.fd] = NoConn
     /\ \A g \in Fds : known[g] # e.conn
     /\ after = [known EXCEPT ![e.fd] = e.conn]
  \/ /\ e.id = "DATA"
     /\ known[e.fd] = e.conn
     /\ after = known
  \/ /\ e.id = "CLOSE"
     /\ known[e.fd] = e.conn
     /\ after = [known EXCEPT ![e.fd] = NoConn]

\* What it will know after each event of the queue; every event fits.
Story(h) ==
  /\ h \in [0 .. Len(queue) -> Knowledge]
  /\ h[0] = told
  /\ \A i \in 1 .. Len(queue) : Tells(h[i - 1], queue[i], h[i])

\* The tasks that have announced their connection, and not yet its end.
Announced == {"start", "recv", "data", "end"}

\* What it will know in the end is where the tasks are: a descriptor is known
\* by the connection that owns it, from its task's first post to its last.
Consistent(known) ==
  /\ \A f \in Fds : known[f] # NoConn => owner[f] = known[f]
  /\ \A t \in Tasks : pc[t] \in Announced => known[sock[t]] = client[t]
  /\ \A t \in Tasks : pc[t] \in Holding \ Announced => known[sock[t]] = NoConn

SessionInv ==
  \E h \in [0 .. Len(queue) -> Knowledge] : Story(h) /\ Consistent(h[Len(queue)])

\* no post has given up on a full queue
NoneLate == late = 0

\* A connection owns one descriptor at most, also when its task was deleted.
OneFd ==
  \A f \in Fds : owner[f] \in Conns =>
    /\ link[owner[f]] \in OnLine
    /\ \A g \in Fds : owner[g] = owner[f] => g = f


-----------------------------------------------------------------------------
(* The story told by the queue.                                            *)

\* The steps that neither post nor dispatch.
LEMMA SameStory ==
  ASSUME SessionInv, UNCHANGED <<queue, told>>,
         \A k \in Knowledge : Consistent(k) => Consistent(k)'
  PROVE  SessionInv'
BY DEF SessionInv, Story, Knowledge

\* A post adds the last chapter.
LEMMA StoryGrows ==
  ASSUME TypeOK, UNCHANGED told, NEW e \in Event, queue' = Append(queue, e),
         NEW h \in [0 .. Len(queue) -> Knowledge], Story(h),
         NEW after \in Knowledge, Tells(h[Len(queue)], e, after), Consistent(after)'
  PROVE  SessionInv'
<1>1. PICK n \in Nat : /\ n = Len(queue) /\ Len(queue') = n + 1 /\ queue'[n + 1] = e
                       /\ \A i \in 1 .. n : queue'[i] = queue[i]
  BY DEF TypeOK
<1>2. PICK g : g = [i \in 0 .. n + 1 |-> IF i = n + 1 THEN after ELSE h[i]]
  OBVIOUS
<1>3. g \in [0 .. n + 1 -> Knowledge] /\ g[0] = h[0] /\ g[n + 1] = after
  BY <1>1, <1>2
<1>4. ASSUME NEW i \in 1 .. n + 1 PROVE Tells(g[i - 1], queue'[i], g[i])
  <2>1. CASE i = n + 1
    BY <1>1, <1>2, <2>1
  <2>2. CASE i # n + 1
    <3>1. i \in 1 .. n /\ i - 1 \in 0 .. n /\ i \in 0 .. n
      BY <1>1, <2>2
    <3>2. g[i - 1] = h[i - 1] /\ g[i] = h[i] /\ queue'[i] = queue[i]
      BY <1>1, <1>2, <2>2, <3>1
    <3> QED
      BY <1>1, <3>1, <3>2 DEF Story
  <2> QED
    BY <2>1, <2>2
<1>5. Story(g)'
  BY <1>1, <1>3, <1>4 DEF Story, Knowledge
<1>6. Consistent(g[Len(queue)])'
  BY <1>1, <1>3
<1> QED
  BY <1>1, <1>3, <1>5, <1>6 DEF SessionInv, Knowledge

\* What the handler learns from the event at the head is what the story says.
LEMMA DispatchTells ==
  ASSUME TypeOK, Dispatch, NEW after, Tells(told, Head(queue), after)
  PROVE  told' = after
BY DEF Dispatch, Tells

LEMMA DispatchSession ==
  ASSUME TypeOK, SessionInv, Dispatch
  PROVE  SessionInv'
<1>1. PICK n \in Nat \ {0} :
        /\ n = Len(queue) /\ queue' = Tail(queue) /\ Len(queue') = n - 1
        /\ \A i \in 1 .. n - 1 : queue'[i] = queue[i + 1]
        /\ Head(queue) = queue[1]
  <2>1. queue \in Seq(Event) /\ queue # <<>> /\ queue' = Tail(queue)
    BY DEF Dispatch, TypeOK
  <2>2. /\ Len(queue) \in Nat \ {0} /\ Len(Tail(queue)) = Len(queue) - 1
        /\ \A i \in 1 .. Len(queue) - 1 : Tail(queue)[i] = queue[i + 1]
        /\ Head(queue) = queue[1]
    BY <2>1
  <2> QED
    BY <2>1, <2>2, Zenon
<1>2. PICK h \in [0 .. n -> Knowledge] : Story(h) /\ Consistent(h[n])
  BY <1>1 DEF SessionInv
<1>3. PICK g : g = [i \in 0 .. n - 1 |-> h[i + 1]]
  OBVIOUS
<1>4. g \in [0 .. n - 1 -> Knowledge] /\ g[0] = h[1] /\ g[n - 1] = h[n]
  BY <1>1, <1>3
<1>5. told' = h[1]
  <2>1. Tells(told, Head(queue), h[1])
    BY <1>1, <1>2 DEF Story
  <2> QED
    BY <2>1, DispatchTells
<1>6. ASSUME NEW i \in 1 .. n - 1 PROVE Tells(g[i - 1], queue'[i], g[i])
  <2>1. i + 1 \in 1 .. n /\ g[i - 1] = h[(i + 1) - 1] /\ g[i] = h[i + 1]
    BY <1>1, <1>3
  <2> QED
    BY <1>1, <1>2, <2>1 DEF Story
<1>7. Story(g)'
  <2>1. Len(queue') = n - 1 /\ g[0] = told'
    BY <1>1, <1>4, <1>5
  <2>2. g \in [0 .. Len(queue') -> Knowledge]
    BY <1>4, <2>1
  <2>3. \A i \in 1 .. Len(queue') : Tells(g[i - 1], queue'[i], g[i])
    BY <1>6, <2>1
  <2> QED
    BY <2>1, <2>2, <2>3 DEF Story, Knowledge
<1>8. Consistent(g[Len(queue)])'
  <2>1. UNCHANGED <<owner, pc, sock, client>>
    BY DEF Dispatch, taskVars, lwipVars
  <2>2. Consistent(g[n - 1])'
    BY <1>2, <1>4, <2>1 DEF Consistent
  <2> QED
    BY <1>1, <2>2
<1>9. g \in [0 .. Len(queue') -> Knowledge]
  BY <1>1, <1>4
<1> QED
  BY <1>7, <1>8, <1>9, Zenon DEF SessionInv, Knowledge

-----------------------------------------------------------------------------
(* Who owns what, and who has announced it.                                *)

LEMMA OneFdStep == TypeOK /\ OwnInv /\ OneFd /\ [Next]_vars => OneFd'
<1> SUFFICES ASSUME TypeOK, OwnInv, OneFd, [Next]_vars PROVE OneFd'
  OBVIOUS
<1> USE DEF memberVars, appVars, taskVars, lwipVars, eventVars
<1>1. CASE Create
  BY <1>1, ServerAssumption DEF Create, OneFd, TypeOK
<1>2. CASE StopShutdown
  BY <1>2 DEF StopShutdown, Shutdown, OneFd, TypeOK, OnLine
<1>3. CASE StopClose
  BY <1>3, ServerAssumption DEF StopClose, Dropped, OneFd, TypeOK, OnLine
<1>4. ASSUME NEW t \in Tasks, Accept(t) PROVE OneFd'
  <2>1. PICK c \in Conns :
          /\ link[c] = "waiting"
          /\ \/ \E f \in Fds : /\ owner' = [owner EXCEPT ![f] = c]
                               /\ link' = [link EXCEPT ![c] = "open"]
             \/ link' = [link EXCEPT ![c] = "away"] /\ owner' = owner
    BY <1>4 DEF Accept, Waiting
  <2>2. \A g \in Fds : owner[g] # c
    BY <2>1 DEF OneFd, OnLine
  <2>3. CASE link' = [link EXCEPT ![c] = "away"] /\ owner' = owner
    BY <2>2, <2>3 DEF OneFd, TypeOK
  <2>4. ASSUME NEW f \in Fds, owner' = [owner EXCEPT ![f] = c],
               link' = [link EXCEPT ![c] = "open"]
        PROVE  OneFd'
    <3>1. link'[c] = "open" /\ \A d \in Conns \ {c} : link'[d] = link[d]
      BY <2>4 DEF TypeOK
    <3>2. owner'[f] = c /\ \A g \in Fds \ {f} : owner'[g] = owner[g]
      BY <2>4 DEF TypeOK
    <3> QED
      BY <2>2, <3>1, <3>2 DEF OneFd, OnLine
  <2> QED
    BY <2>1, <2>3, <2>4
<1>5. ASSUME NEW t \in Tasks, Close(t) PROVE OneFd'
  <2>1. Holds(t)
    BY <1>5 DEF Close, OwnInv, Holding, Serving
  <2> QED
    BY <1>5, <2>1, ServerAssumption DEF Close, Holds, OneFd, TypeOK
<1>6. ASSUME NEW c \in Conns, Connect(c) \/ Leave(c) PROVE OneFd'
  <2>1. owner' = owner /\ \A d \in Conns \ {c} : link'[d] = link[d]
    BY <1>6 DEF Connect, Leave, TypeOK
  <2>2. link[c] \in OnLine => link'[c] \in OnLine
    BY <1>6 DEF Connect, Leave, TypeOK, OnLine
  <2> QED
    BY <2>1, <2>2 DEF OneFd
<1>7. CASE UNCHANGED lwipVars
  BY <1>7 DEF OneFd
<1>8. ASSUME NEW t \in Tasks, Posting(t) \/ Running(t), ~Accept(t), ~Close(t)
      PROVE  UNCHANGED lwipVars
  BY <1>8 DEF Posting, Running, OnConnect, OnData, OnClose, Push, StartNext, RecvData,
             RecvEnd
<1>9. CASE Start \/ Stop \/ StopDelete \/ EventTask \/ UNCHANGED vars
  BY <1>7, <1>9 DEF Start, Stop, StopDelete, EventTask, Dispatch, Echo, vars
<1> QED
  BY <1>1, <1>2, <1>3, <1>4, <1>5, <1>6, <1>7, <1>8, <1>9 DEF Next, App, StopStep

\* A task that starts has no descriptor; the others stay where they are.
LEMMA StartTaskSame ==
  ASSUME TypeOK,
         NEW here \in [Tasks -> {"none"} \cup Accepting \cup Serving],
         StartTask(here)
  PROVE  \A t \in Tasks : pc'[t] \in Holding => pc'[t] = here[t]
BY DEF StartTask, Holding, Accepting, Serving

LEMMA AppConsistent ==
  ASSUME TypeOK, OwnInv, App, NEW k \in Knowledge, Consistent(k)
  PROVE  Consistent(k)'
<1> USE DEF memberVars, appVars, taskVars, lwipVars, eventVars
<1>0. Announced \subseteq Holding
  BY DEF Announced, Holding, Accepting, Serving
<1>1. CASE Create
  BY <1>1 DEF Create, IsFirstFree, FreeFds, Consistent, TypeOK
<1>2. CASE Start
  <2>1. pc \in [Tasks -> {"none"} \cup Accepting \cup Serving] /\ StartTask(pc)
    BY <1>2 DEF Start, TypeOK
  <2>2. \A t \in Tasks : pc'[t] \in Holding => pc'[t] = pc[t]
    BY <2>1, StartTaskSame
  <2> QED
    BY <1>0, <1>2, <2>2 DEF Start, Consistent
<1>3. CASE Stop \/ StopShutdown
  BY <1>3 DEF Stop, StopShutdown, Shutdown, Consistent
<1>4. CASE StopDelete
  <2>1. ASSUME NEW t \in Tasks, pc'[t] \in Holding
        PROVE  pc'[t] = pc[t] /\ sock'[t] = sock[t] /\ client'[t] = client[t]
    BY <1>4, <2>1 DEF StopDelete, Proceed, TypeOK, Holding, Accepting, Serving
  <2> QED
    BY <1>0, <1>4, <2>1 DEF StopDelete, Consistent
<1>5. CASE StopClose
  <2>1. socketfd \in Fds /\ owner[socketfd] = Listener
    BY <1>5 DEF StopClose, OwnInv, Listening
  <2>2. k[socketfd] = NoConn
    BY <2>1, ServerAssumption DEF Consistent, Knowledge
  <2> QED
    BY <1>5, <2>1, <2>2 DEF StopClose, Consistent, TypeOK
<1> QED
  BY <1>1, <1>2, <1>3, <1>4, <1>5 DEF App, StopStep

LEMMA RunningConsistent ==
  ASSUME TypeOK, OwnInv, NEW t \in Tasks, Running(t), NEW k \in Knowledge, Consistent(k)
  PROVE  Consistent(k)'
<1> USE DEF memberVars, appVars, taskVars, lwipVars, eventVars
<1>0. Announced \subseteq Holding
  BY DEF Announced, Holding, Accepting, Serving
<1>1. CASE Accept(t)
  <2>1. CASE UNCHANGED <<owner, pc, sock, client>>
    BY <2>1 DEF Consistent
  <2>2. CASE \E c \in Waiting, f \in Fds :
               /\ IsFirstFree(f)
               /\ owner' = [owner EXCEPT ![f] = c]
               /\ Proceed(t, "delay")
               /\ sock' = [sock EXCEPT ![t] = f]
               /\ client' = [client EXCEPT ![t] = c]
    <3>1. PICK c \in Waiting, f \in Fds :
               /\ owner[f] = NoConn
               /\ owner' = [owner EXCEPT ![f] = c]
               /\ pc' = [pc EXCEPT ![t] = "delay"]
               /\ sock' = [sock EXCEPT ![t] = f]
               /\ client' = [client EXCEPT ![t] = c]
      BY <2>2 DEF IsFirstFree, FreeFds, Proceed
    <3>2. k[f] = NoConn
      BY <3>1 DEF Consistent
    <3>3. /\ pc'[t] = "delay" /\ sock'[t] = f
          /\ \A u \in Tasks \ {t} : pc'[u] = pc[u] /\ sock'[u] = sock[u] /\ client'[u] = client[u]
          /\ owner'[f] = c /\ \A g \in Fds \ {f} : owner'[g] = owner[g]
      BY <3>1 DEF TypeOK
    <3> QED
      BY <3>2, <3>3 DEF Consistent, Announced
  <2> QED
    BY <1>1, <2>1, <2>2 DEF Accept
<1>2. CASE Push(t) \/ RecvData(t) \/ RecvEnd(t)
  <2>1. UNCHANGED <<owner, sock, client>>
    BY <1>2 DEF Push, RecvData, RecvEnd
  <2>2. \A u \in Tasks : /\ pc'[u] \in Announced => pc[u] \in Announced
                         /\ pc'[u] \in Holding \ Announced => pc[u] \in Holding \ Announced
    BY <1>2 DEF Push, RecvData, RecvEnd, AtEnd, Proceed, TypeOK, Announced, Holding,
               Accepting, Serving
  <2> QED
    BY <2>1, <2>2 DEF Consistent
<1>3. CASE StartNext(t)
  <2> DEFINE here == [pc EXCEPT ![t] = "recv"]
  <2>1. here \in [Tasks -> {"none"} \cup Accepting \cup Serving] /\ StartTask(here)
    BY <1>3 DEF StartNext, TypeOK, Serving
  <2>2. \A u \in Tasks : pc'[u] \in Holding => pc'[u] = here[u]
    BY <2>1, StartTaskSame
  <2>3. pc[t] = "start" /\ UNCHANGED <<owner, sock, client>>
    BY <1>3 DEF StartNext
  <2>4. \A u \in Tasks : /\ pc'[u] \in Announced => pc[u] \in Announced
                         /\ pc'[u] \in Holding \ Announced => pc[u] \in Holding \ Announced
    BY <1>0, <2>2, <2>3 DEF TypeOK, Announced
  <2> QED
    BY <2>3, <2>4 DEF Consistent
<1>4. CASE Close(t)
  <2>1. Holds(t) /\ pc[t] \in Holding \ Announced
    BY <1>4 DEF Close, OwnInv, Holding, Accepting, Serving, Announced
  <2>2. k[sock[t]] = NoConn
    BY <2>1 DEF Consistent
  <2>3. /\ pc'[t] = "none" /\ owner' = [owner EXCEPT ![sock[t]] = NoConn]
        /\ \A u \in Tasks \ {t} : pc'[u] = pc[u] /\ sock'[u] = sock[u] /\ client'[u] = client[u]
    BY <1>4 DEF Close, Proceed, TypeOK
  <2>4. \A f \in Fds : f # sock[t] => owner'[f] = owner[f]
    BY <2>3 DEF TypeOK
  <2>5. \A f \in Fds : k[f] # NoConn => owner'[f] = k[f]
    BY <2>2, <2>4 DEF Consistent
  <2>6. \A u \in Tasks : pc'[u] \in Holding => pc[u] = pc'[u] /\ sock'[u] = sock[u]
                                            /\ client'[u] = client[u]
    BY <2>3 DEF Holding, Accepting, Serving
  <2> QED
    BY <1>0, <2>5, <2>6 DEF Consistent
<1> QED
  BY <1>1, <1>2, <1>3, <1>4 DEF Running

\* Every post is the next thing the handler should hear.
LEMMA PostingTells ==
  ASSUME TypeOK, OwnInv, OneFd, NEW t \in Tasks, Posting(t),
         NEW k \in Knowledge, Consistent(k)
  PROVE  \E e \in Event, after \in Knowledge :
           Post(e) /\ Tells(k, e, after) /\ Consistent(after)'
<1> USE DEF memberVars, appVars, taskVars, lwipVars
<1>0. pc[t] \in {"connect", "data", "end"} /\ pc[t] \in Holding
  BY DEF Posting, OnConnect, OnData, OnClose, Holding, Accepting, Serving
<1>1. Holds(t)
  BY <1>0 DEF OwnInv
<1>2. \A u \in Tasks \ {t} : pc[u] \in Holding => sock[u] # sock[t] /\ sock[u] \in Fds
  BY <1>0, DistinctFds, HoldsType
<1>3. \A id \in {"CONNECTED", "DATA", "CLOSE"} : EventOf(t, id) \in Event
  BY <1>1 DEF EventOf, Event, Holds
<1>4. CASE OnConnect(t)
  <2> DEFINE e     == EventOf(t, "CONNECTED")
             after == [k EXCEPT ![sock[t]] = client[t]]
  <2>1. k[sock[t]] = NoConn
    BY <1>0, <1>4 DEF OnConnect, Consistent, Announced
  <2>2. \A g \in Fds : k[g] # client[t]
    BY <1>1, <2>1, ServerAssumption DEF Consistent, OneFd, Holds
  <2>3. Tells(k, e, after) /\ after \in Knowledge
    BY <1>1, <2>1, <2>2 DEF Tells, EventOf, Knowledge, Holds
  <2>4. Consistent(after)'
    BY <1>0, <1>1, <1>2, <1>4 DEF OnConnect, Proceed, Consistent, Announced, Holding,
          Accepting, Serving, Knowledge, Holds, TypeOK
  <2> QED
    BY <1>3, <1>4, <2>3, <2>4 DEF OnConnect
<1>5. CASE OnData(t)
  <2>1. k[sock[t]] = client[t]
    BY <1>0, <1>5 DEF OnData, Consistent, Announced
  <2>2. Tells(k, EventOf(t, "DATA"), k)
    BY <2>1 DEF Tells, EventOf
  <2>3. Consistent(k)'
    BY <1>5, <2>1 DEF OnData, Proceed, Consistent, Announced, Holding, Accepting, Serving,
          TypeOK
  <2> QED
    BY <1>3, <1>5, <2>2, <2>3 DEF OnData
<1>6. CASE OnClose(t)
  <2> DEFINE after == [k EXCEPT ![sock[t]] = NoConn]
  <2>1. k[sock[t]] = client[t]
    BY <1>0, <1>6 DEF OnClose, Consistent, Announced
  <2>2. Tells(k, EventOf(t, "CLOSE"), after) /\ after \in Knowledge
    BY <1>1, <2>1 DEF Tells, EventOf, Knowledge, Holds
  <2>3. Consistent(after)'
    BY <1>0, <1>1, <1>2, <1>6 DEF OnClose, Proceed, Consistent, Announced, Holding,
          Accepting, Serving, Knowledge, Holds, TypeOK
  <2> QED
    BY <1>3, <1>6, <2>2, <2>3 DEF OnClose
<1> QED
  BY <1>4, <1>5, <1>6 DEF Posting

LEMMA PostingSession ==
  ASSUME NoneLate', TypeOK, OwnInv, OneFd, SessionInv, NEW t \in Tasks, Posting(t)
  PROVE  SessionInv'
<1>1. PICK h \in [0 .. Len(queue) -> Knowledge] : Story(h) /\ Consistent(h[Len(queue)])
  BY DEF SessionInv
<1>2. h[Len(queue)] \in Knowledge
  <2>1. Len(queue) \in Nat
    BY DEF TypeOK
  <2> QED
    BY <2>1
<1>3. PICK e \in Event, after \in Knowledge :
        Post(e) /\ Tells(h[Len(queue)], e, after) /\ Consistent(after)'
  BY <1>1, <1>2, PostingTells
<1>4. queue' = Append(queue, e)
  BY <1>3, ServerAssumption DEF NoneLate, Post, TypeOK
<1>5. told' = told
  BY DEF Posting, OnConnect, OnData, OnClose
<1> QED
  BY <1>1, <1>3, <1>4, <1>5, StoryGrows

LEMMA SessionStep ==
  TypeOK /\ OwnInv /\ OneFd /\ SessionInv /\ [Next]_vars /\ NoneLate' => SessionInv'
<1> SUFFICES ASSUME TypeOK, OwnInv, OneFd, SessionInv, [Next]_vars, NoneLate'
             PROVE  SessionInv'
  OBVIOUS
<1> USE DEF memberVars, appVars, taskVars, lwipVars, eventVars
<1>1. CASE App
  <2>1. UNCHANGED <<queue, told>>
    BY <1>1 DEF App, Create, Start, Stop, StopStep, StopShutdown, StopDelete, StopClose
  <2> QED
    BY <1>1, <2>1, AppConsistent, SameStory
<1>2. ASSUME NEW t \in Tasks, Posting(t) PROVE SessionInv'
  BY <1>2, PostingSession
<1>3. ASSUME NEW t \in Tasks, Running(t) PROVE SessionInv'
  <2>1. UNCHANGED <<queue, told>>
    BY <1>3 DEF Running, Accept, Push, StartNext, RecvData, RecvEnd, Close
  <2> QED
    BY <1>3, <2>1, RunningConsistent, SameStory
<1>4. CASE Dispatch
  BY <1>4, DispatchSession
<1>5. CASE Echo \/ (\E c \in Conns : Connect(c) \/ Leave(c)) \/ UNCHANGED vars
  <2>1. UNCHANGED <<queue, told, owner, pc, sock, client>>
    BY <1>5 DEF Echo, Connect, Leave, vars
  <2> QED
    BY <2>1, SameStory DEF Consistent
<1> QED
  BY <1>1, <1>2, <1>3, <1>4, <1>5 DEF Next, EventTask

-----------------------------------------------------------------------------
(* Every step is one of Sessions, or none.                                 *)

LEMMA DispatchIsTold ==
  ASSUME TypeOK, SessionInv, Dispatch
  PROVE  Contract!Next
<1> DEFINE e == Head(queue)
<1>1. /\ queue \in Seq(Event) /\ queue # <<>> /\ handling = <<>>
      /\ handling' = IF e.id = "DATA" THEN <<e>> ELSE <<>>
  BY DEF Dispatch, TypeOK
<1>2. e \in Event /\ e = queue[1] /\ 1 \in 1 .. Len(queue)
  BY <1>1
<1>3. PICK after : Tells(told, e, after)
  BY <1>2 DEF SessionInv, Story
<1>4. told' = after
  BY <1>3, DispatchTells
<1> HIDE DEF e
<1>5. e.fd \in Fds /\ e.conn \in Conns /\ e.conn # NoConn
      /\ e = [id |-> e.id, fd |-> e.fd, conn |-> e.conn]
  BY <1>2, ServerAssumption DEF Event
<1>6. CASE e.id = "CONNECTED"
  <2>1. Contract!Connected(e.fd, e.conn)
    BY <1>1, <1>3, <1>4, <1>6 DEF Tells, Contract!Connected, Contract!Idle
  <2> QED
    BY <1>5, <2>1 DEF Contract!Next
<1>7. CASE e.id = "DATA"
  <2>1. told[e.fd] = e.conn /\ told' = told /\ handling' = <<e>>
    BY <1>1, <1>3, <1>4, <1>7 DEF Tells
  <2>2. handling' = <<[id |-> "DATA", fd |-> e.fd, conn |-> told[e.fd]]>>
    BY <1>5, <1>7, <2>1
  <2>3. Contract!Data(e.fd)
    BY <1>1, <1>5, <2>1, <2>2 DEF Contract!Data, Contract!Idle
  <2> QED
    BY <1>5, <2>3 DEF Contract!Next
<1>8. CASE e.id = "CLOSE"
  <2>1. Contract!Closed(e.fd)
    BY <1>1, <1>3, <1>4, <1>5, <1>8 DEF Tells, Contract!Closed, Contract!Idle
  <2> QED
    BY <1>5, <2>1 DEF Contract!Next
<1> QED
  BY <1>3, <1>6, <1>7, <1>8 DEF Tells

LEMMA StepIsTold ==
  TypeOK /\ SessionInv /\ [Next]_vars => [Contract!Next]_(Contract!vars)
<1> SUFFICES ASSUME TypeOK, SessionInv, [Next]_vars
             PROVE  Contract!Next \/ UNCHANGED <<told, handling>>
  BY DEF Contract!vars
<1> USE DEF memberVars, appVars, taskVars, lwipVars, eventVars
<1>1. CASE Dispatch
  BY <1>1, DispatchIsTold
<1>2. CASE Echo
  BY <1>2 DEF Echo, Contract!Next, Contract!Handled
<1>3. CASE App \/ UNCHANGED vars
  BY <1>3 DEF App, Create, Start, Stop, StopStep, StopShutdown, StopDelete, StopClose, vars
<1>4. ASSUME NEW t \in Tasks, Posting(t) \/ Running(t) PROVE UNCHANGED <<told, handling>>
  BY <1>4 DEF Posting, OnConnect, OnData, OnClose, Running, Accept, Push, StartNext,
             RecvData, RecvEnd, Close
<1>5. CASE \E c \in Conns : Connect(c) \/ Leave(c)
  BY <1>5 DEF Connect, Leave
<1> QED
  BY <1>1, <1>2, <1>3, <1>4, <1>5 DEF Next, EventTask

\* As long as no post gives up, what socket_task posts and the event loop hands
\* to the handler is what Sessions promises: no data before CONNECTED or after
\* CLOSE, no descriptor that names two connections, no connection named twice.
THEOREM SessionsImplemented == Spec /\ []NoneLate => ImplementsSessions
<1>1. Init => OneFd /\ SessionInv /\ Contract!Init
  <2> SUFFICES ASSUME Init PROVE OneFd /\ SessionInv /\ Contract!Init
    OBVIOUS
  <2>1. OneFd
    BY ServerAssumption DEF Init, OneFd
  <2>2. PICK h : h = [i \in 0 .. 0 |-> [f \in Fds |-> NoConn]]
    OBVIOUS
  <2>3. queue = <<>> /\ Len(queue) = 0 /\ told = [f \in Fds |-> NoConn]
    BY DEF Init
  <2>4. h \in [0 .. Len(queue) -> Knowledge] /\ Story(h)
    BY <2>2, <2>3 DEF Story, Knowledge
  <2>5. Consistent(h[Len(queue)])
    BY <2>2, <2>3 DEF Init, Consistent, Announced, Holding, Accepting, Serving
  <2>6. SessionInv
    BY <2>4, <2>5 DEF SessionInv
  <2>7. Contract!Init
    BY DEF Init, Contract!Init
  <2> QED
    BY <2>1, <2>6, <2>7
<1> QED
  BY <1>1, SessionStep, OneFdStep, StepIsTold, OwnAlways, PTL
     DEF Spec, ImplementsSessions, Contract!Spec

=============================================================================
