--------------------------- MODULE WsServerProofs ---------------------------
(***************************************************************************)
(* Proofs about WsServer, for any number of io threads, connections,       *)
(* addresses and messages.                                                 *)
(***************************************************************************)
EXTENDS WsServer, TLAPS

\* The disjuncts of Next, grouped by what they are about.
MainStep == InitService \/ Listen \/ Interrupt \/ BeginExit \/ EndExit

ThreadStep(t) == StartIoThread(t) \/ SearchMap(t) \/ LinkNode(t) \/ PushWork(t) \/ PollPosts(t)

ConnectionStep(t, k) ==
  \/ HandshakeFails(t, k) \/ OnOpen(t, k) \/ BeginClose(t, k) \/ OnClose(t, k)
  \/ \E a \in Addresses : Accept(t, k, a)

MessageStep(m) == BeginService(m) \/ Valid(m) \/ AsyncSend(m) \/ Send(m) \/ EndService(m)

LEMMA NextSplits ==
  Next <=> \/ MainStep
           \/ \E t \in IoThreads : ThreadStep(t)
           \/ \E t \in IoThreads, k \in Connections : ConnectionStep(t, k)
           \/ \E t \in IoThreads, k \in Connections, m \in Messages : OnMessage(t, k, m)
           \/ \E m \in Messages : MessageStep(m)
  BY DEF Next, MainStep, ThreadStep, ConnectionStep, MessageStep

-----------------------------------------------------------------------------
(* Types.                                                                  *)

\* TypeOK, the contents of the queues of posted replies apart.
ScalarTypes ==
  /\ m_ss \in {"UNINIT", "INITED", "RUNNING", "ERROR"}
  /\ main \in {"start", "inited", "spawning", "running", "stopping", "exited"}
  /\ g_exit \in BOOLEAN /\ stopped \in BOOLEAN /\ raced \in BOOLEAN

ThreadTypes ==
  /\ tpc \in [IoThreads -> {"unborn", "searching", "linking", "pushing", "looping"}]
  /\ m_io_service \subseteq IoThreads
  /\ seen \in [IoThreads -> SUBSET IoThreads]
  /\ m_work \subseteq IoThreads /\ ioStopped \subseteq IoThreads
  /\ posts \in [IoThreads -> Seq(Messages)]

ConnectionTypes ==
  /\ conn \in [Connections -> {"none", "opening", "open", "closing", "closed"}]
  /\ addr \in [Connections -> Addresses \cup {None}]
  /\ m_connecter \subseteq Addresses

MessageTypes ==
  /\ mstate \in [Messages -> {"unsent", "rejected", "queued", "serving", "posted",
                              "sent", "failed", "lost", "silent"}]
  /\ tid \in [Messages -> IoThreads \cup {None}]
  /\ from \in [Messages -> Connections \cup {None}]
  /\ verdict \in [Messages -> {"unasked", "valid", "invalid"}]

\* A connection that is being made or is there has an address, and a message
\* that has been accepted has a thread that polls and a connection.
Bound ==
  /\ \A k \in Connections : conn[k] \in {"opening", "open", "closing"} => addr[k] \in Addresses
  /\ \A m \in Messages : mstate[m] \in {"queued", "serving", "posted"} =>
       from[m] \in Connections /\ tid[m] \in IoThreads /\ tpc[tid[m]] = "looping"

Types == ScalarTypes /\ ThreadTypes /\ ConnectionTypes /\ MessageTypes /\ Bound

LEMMA TypesInit == Init => Types
<1> SUFFICES ASSUME Init PROVE Types
  OBVIOUS
<1>1. ScalarTypes
  BY DEF Init, ScalarTypes
<1>2. ThreadTypes
  BY DEF Init, ThreadTypes
<1>3. ConnectionTypes /\ MessageTypes /\ Bound
  BY DEF Init, ConnectionTypes, MessageTypes, Bound
<1> QED BY <1>1, <1>2, <1>3 DEF Types

LEMMA TypesStep == Types /\ [Next]_vars => Types'
<1> SUFFICES ASSUME Types, [Next]_vars PROVE Types'
  OBVIOUS
<1>1. CASE MainStep
  <2>1. ScalarTypes'
    <3>1. CASE InitService \/ Listen
      BY <3>1 DEF InitService, Listen, Types, ScalarTypes
    <3>2. CASE Interrupt
      BY <3>2 DEF Interrupt, Types, ScalarTypes
    <3>3. CASE BeginExit \/ EndExit
      BY <3>3 DEF BeginExit, EndExit, StopServer, Types, ScalarTypes
    <3> QED BY <1>1, <3>1, <3>2, <3>3 DEF MainStep
  <2>2. UNCHANGED <<ioVars, posts, connVars, msgVars>>
    BY <1>1 DEF MainStep, InitService, Listen, Interrupt, BeginExit, EndExit
  <2> QED BY <2>1, <2>2 DEF Types, ThreadTypes, ConnectionTypes, MessageTypes, Bound,
                            ioVars, connVars, msgVars
<1>2. ASSUME NEW t \in IoThreads, ThreadStep(t) PROVE Types'
  <2> USE <1>2 DEF Types, ThreadTypes
  <2>1. CASE StartIoThread(t)
    <3>1. ScalarTypes' /\ ThreadTypes'
      BY <2>1 DEF StartIoThread, ScalarTypes
    <3> QED BY <2>1, <3>1 DEF StartIoThread, ConnectionTypes, MessageTypes, Bound, connVars, msgVars
  <2>2. CASE SearchMap(t)
    <3>1. raced' \in BOOLEAN
      BY <2>2 DEF SearchMap, ScalarTypes, Linking
    <3>2. ThreadTypes'
      BY <2>2 DEF SearchMap, AfterSearch
    <3> QED BY <2>2, <3>1, <3>2 DEF SearchMap, AfterSearch, ScalarTypes, ConnectionTypes, MessageTypes, Bound,
                                    mainVars, connVars, msgVars
  <2>3. CASE LinkNode(t)
    <3>1. raced' \in BOOLEAN
      BY <2>3 DEF LinkNode, ScalarTypes, Linking
    <3>2. m_io_service' \subseteq IoThreads
      BY <2>3 DEF LinkNode
    <3>3. ThreadTypes'
      BY <2>3, <3>2 DEF LinkNode
    <3> QED BY <2>3, <3>1, <3>3 DEF LinkNode, ScalarTypes, ConnectionTypes, MessageTypes, Bound,
                                    mainVars, connVars, msgVars
  <2>4. CASE PushWork(t)
    BY <2>4 DEF PushWork, MakeWork, ScalarTypes, ConnectionTypes, MessageTypes, Bound,
                mainVars, connVars, msgVars
  <2>5. CASE PollPosts(t)
    <3>1. posts[t] # <<>> => Head(posts[t]) \in Messages /\ Tail(posts[t]) \in Seq(Messages)
      OBVIOUS
    <3>2. posts' \in [IoThreads -> Seq(Messages)] /\ ioStopped' \subseteq IoThreads
      BY <2>5, <3>1 DEF PollPosts, TakePost
    <3>3. /\ MessageTypes'
          /\ \A m \in Messages : mstate'[m] \in {"queued", "serving", "posted"} => mstate'[m] = mstate[m]
      BY <2>5, <3>1 DEF PollPosts, Outcome, MessageTypes
    <3> QED BY <2>5, <3>2, <3>3 DEF PollPosts, ScalarTypes, ConnectionTypes, Bound, mainVars, connVars
  <2> QED BY <2>1, <2>2, <2>3, <2>4, <2>5 DEF ThreadStep
<1>3. ASSUME NEW t \in IoThreads, NEW k \in Connections, ConnectionStep(t, k) PROVE Types'
  <2>1. ConnectionTypes' /\ Bound'
    <3> USE DEF Types, ConnectionTypes, Bound
    <3>1. CASE HandshakeFails(t, k) \/ BeginClose(t, k)
      BY <3>1 DEF HandshakeFails, BeginClose, ioVars, msgVars
    <3>2. CASE OnOpen(t, k)
      BY <3>2 DEF OnOpen, ioVars, msgVars
    <3>3. CASE OnClose(t, k)
      BY <3>3 DEF OnClose, Forget, ioVars, msgVars
    <3>4. ASSUME NEW a \in Addresses, Accept(t, k, a) PROVE ConnectionTypes' /\ Bound'
      BY <3>4 DEF Accept, ioVars, msgVars
    <3> QED BY <1>3, <3>1, <3>2, <3>3, <3>4 DEF ConnectionStep
  <2>2. UNCHANGED <<mainVars, ioVars, posts, msgVars, raced>>
    BY <1>3 DEF ConnectionStep, HandshakeFails, BeginClose, OnOpen, OnClose, Accept
  <2> QED BY <2>1, <2>2 DEF Types, ScalarTypes, ThreadTypes, MessageTypes, mainVars, ioVars, msgVars
<1>4. ASSUME NEW t \in IoThreads, NEW k \in Connections, NEW m \in Messages, OnMessage(t, k, m)
      PROVE  Types'
  <2>1. MessageTypes'
    BY <1>4 DEF OnMessage, Types, MessageTypes
  <2>2. Bound'
    <3>1. /\ tpc[t] = "looping" /\ UNCHANGED <<conn, addr, tpc>>
          /\ \A n \in Messages \ {m} : mstate'[n] = mstate[n] /\ tid'[n] = tid[n] /\ from'[n] = from[n]
          /\ mstate'[m] = "rejected" \/ (tid'[m] = t /\ from'[m] = k)
      BY <1>4 DEF OnMessage, Polling, Types, MessageTypes, ioVars, connVars
    <3>2. /\ \A j \in Connections : conn[j] \in {"opening", "open", "closing"} => addr[j] \in Addresses
          /\ \A n \in Messages : mstate[n] \in {"queued", "serving", "posted"} =>
               from[n] \in Connections /\ tid[n] \in IoThreads /\ tpc[tid[n]] = "looping"
      BY DEF Types, Bound
    <3> QED BY <3>1, <3>2 DEF Bound
  <2> QED BY <1>4, <2>1, <2>2 DEF OnMessage, Types, ScalarTypes, ThreadTypes, ConnectionTypes,
                            mainVars, ioVars, connVars
<1>5. ASSUME NEW m \in Messages, MessageStep(m) PROVE Types'
  <2>1. raced' \in BOOLEAN
    <3>1. CASE AsyncSend(m)
      BY <3>1 DEF AsyncSend, Types, ScalarTypes, Linking
    <3>2. CASE BeginService(m) \/ Valid(m) \/ Send(m) \/ EndService(m)
      BY <3>2 DEF BeginService, Valid, Send, EndService, Types, ScalarTypes
    <3> QED BY <1>5, <3>1, <3>2 DEF MessageStep
  <2>2. posts' \in [IoThreads -> Seq(Messages)]
    <3>1. CASE AsyncSend(m)
      <4>1. posts' = posts \/ posts' = [posts EXCEPT ![tid[m]] = Append(posts[tid[m]], m)]
        BY <3>1 DEF AsyncSend
      <4>2. tid[m] \in IoThreads
        BY <3>1 DEF AsyncSend, Types, Bound
      <4>3. posts \in [IoThreads -> Seq(Messages)] /\ posts[tid[m]] \in Seq(Messages)
        BY <4>2 DEF Types, ThreadTypes
      <4>4. Append(posts[tid[m]], m) \in Seq(Messages)
        BY <4>3
      <4> QED BY <4>1, <4>3, <4>4
    <3>2. CASE BeginService(m) \/ Valid(m) \/ Send(m) \/ EndService(m)
      BY <3>2 DEF BeginService, Valid, Send, EndService, Types, ThreadTypes
    <3> QED BY <1>5, <3>1, <3>2 DEF MessageStep
  <2>3. MessageTypes'
    BY <1>5 DEF MessageStep, BeginService, Valid, AsyncSend, Send, EndService, Outcome, Types, MessageTypes
  <2>4. /\ UNCHANGED <<mainVars, ioVars, connVars, tid, from>>
        /\ \A j \in Messages : mstate'[j] \in {"queued", "serving", "posted"} =>
                                 mstate[j] \in {"queued", "serving", "posted"}
    BY <1>5 DEF MessageStep, BeginService, Valid, AsyncSend, Send, EndService, Outcome, Types, MessageTypes
  <2> QED BY <2>1, <2>2, <2>3, <2>4 DEF Types, ScalarTypes, ThreadTypes, ConnectionTypes, Bound,
                                        mainVars, ioVars, connVars
<1>6. CASE UNCHANGED vars
  BY <1>6 DEF vars, mainVars, ioVars, connVars, msgVars,
              Types, ScalarTypes, ThreadTypes, ConnectionTypes, MessageTypes, Bound
<1> QED BY <1>1, <1>2, <1>3, <1>4, <1>5, <1>6, NextSplits

LEMMA TypesInvariance == Spec => []Types
  BY TypesInit, TypesStep, PTL DEF Spec

-----------------------------------------------------------------------------
(* The queues of posted replies.                                           *)

PostedOnly == \A t \in IoThreads : \A i \in DOMAIN posts[t] : mstate[posts[t][i]] = "posted"

\* A reply is posted to one thread, once.
PostedOnce ==
  \A t, u \in IoThreads : \A i \in DOMAIN posts[t], j \in DOMAIN posts[u] :
    posts[t][i] = posts[u][j] => t = u /\ i = j

Posted == PostedOnly /\ PostedOnce

LEMMA PostedStep == Types /\ Posted /\ [Next]_vars => Posted'
<1> SUFFICES ASSUME Types, Posted, [Next]_vars PROVE Posted'
  OBVIOUS
<1> /\ posts \in [IoThreads -> Seq(Messages)]
    /\ mstate \in [Messages -> {"unsent", "rejected", "queued", "serving", "posted",
                                "sent", "failed", "lost", "silent"}]
  BY DEF Types, ThreadTypes, MessageTypes
<1>1. ASSUME NEW t \in IoThreads, PollPosts(t), posts[t] # <<>> PROVE Posted'
  <2> DEFINE q == posts[t]
             m == Head(q)
  <2>1. /\ posts' = [posts EXCEPT ![t] = Tail(q)]
        /\ \A j \in Messages : j # m => mstate'[j] = mstate[j]
    BY <1>1 DEF PollPosts, TakePost
  <2>2. /\ DOMAIN q = 1 .. Len(q) /\ Len(q) \in Nat \ {0} /\ m = q[1]
        /\ DOMAIN Tail(q) = 1 .. Len(q) - 1
        /\ \A i \in 1 .. Len(q) - 1 : Tail(q)[i] = q[i + 1] /\ i + 1 \in DOMAIN q
    BY <1>1
  <2>3. ASSUME NEW u \in IoThreads, NEW i \in DOMAIN posts'[u]
        PROVE  \E j \in DOMAIN posts[u] : /\ posts'[u][i] = posts[u][j]
                                          /\ j = IF u = t THEN i + 1 ELSE i
                                          /\ posts[u][j] # m
    <3>1. CASE u = t
      <4>1. posts'[u] = Tail(q) /\ i \in 1 .. Len(q) - 1
        BY <2>1, <2>2, <3>1
      <4>2. i + 1 \in DOMAIN posts[u] /\ posts'[u][i] = posts[u][i + 1] /\ i + 1 # 1
        BY <2>2, <3>1, <4>1
      <4>3. 1 \in DOMAIN posts[t]
        BY <2>2
      <4>4. posts[u][i + 1] # m
        BY <2>2, <3>1, <4>2, <4>3 DEF Posted, PostedOnce
      <4> QED BY <3>1, <4>2, <4>4
    <3>2. CASE u # t
      <4>1. posts'[u] = posts[u] /\ 1 \in DOMAIN posts[t]
        BY <2>1, <2>2, <3>2
      <4> QED BY <2>2, <3>2, <4>1 DEF Posted, PostedOnce
    <3> QED BY <3>1, <3>2
  <2>4. \A u \in IoThreads : \A j \in DOMAIN posts[u] : posts[u][j] \in Messages
    OBVIOUS
  <2>5. PostedOnly'
    BY <2>1, <2>3, <2>4 DEF Posted, PostedOnly
  <2>6. PostedOnce'
    <3> SUFFICES ASSUME NEW u \in IoThreads, NEW v \in IoThreads,
                        NEW i \in DOMAIN posts'[u], NEW j \in DOMAIN posts'[v],
                        posts'[u][i] = posts'[v][j]
                 PROVE  u = v /\ i = j
      BY DEF PostedOnce
    <3>1. i \in Nat /\ j \in Nat
      <4>1. posts' \in [IoThreads -> Seq(Messages)]
        BY <2>1, <2>2
      <4> QED BY <4>1
    <3> QED BY <2>3, <3>1 DEF Posted, PostedOnce
  <2> QED BY <2>5, <2>6 DEF Posted
<1>2. ASSUME NEW m \in Messages, AsyncSend(m), mstate'[m] = "posted" PROVE Posted'
  <2> DEFINE t == tid[m]
  <2>1. t \in IoThreads /\ mstate[m] = "serving"
    BY <1>2 DEF AsyncSend, Types, Bound
  <2>2. /\ posts' = [posts EXCEPT ![t] = Append(posts[t], m)]
        /\ \A j \in Messages : j # m => mstate'[j] = mstate[j]
    BY <1>2 DEF AsyncSend
  <2>3. \A u \in IoThreads : \A i \in DOMAIN posts[u] : posts[u][i] \in Messages /\ posts[u][i] # m
    BY <2>1 DEF Posted, PostedOnly
  <2>4. ASSUME NEW u \in IoThreads, NEW i \in DOMAIN posts'[u]
        PROVE  \/ i \in DOMAIN posts[u] /\ posts'[u][i] = posts[u][i]
               \/ u = t /\ i = Len(posts[t]) + 1 /\ posts'[u][i] = m
    BY <2>1, <2>2, <2>4
  <2>5. PostedOnly'
    BY <1>2, <2>2, <2>3, <2>4 DEF Posted, PostedOnly
  <2>6. PostedOnce'
    <3> SUFFICES ASSUME NEW u \in IoThreads, NEW v \in IoThreads,
                        NEW i \in DOMAIN posts'[u], NEW j \in DOMAIN posts'[v],
                        posts'[u][i] = posts'[v][j]
                 PROVE  u = v /\ i = j
      BY DEF PostedOnce
    <3>1. \/ i \in DOMAIN posts[u] /\ posts'[u][i] = posts[u][i]
          \/ u = t /\ i = Len(posts[t]) + 1 /\ posts'[u][i] = m
      BY <2>4
    <3>2. \/ j \in DOMAIN posts[v] /\ posts'[v][j] = posts[v][j]
          \/ v = t /\ j = Len(posts[t]) + 1 /\ posts'[v][j] = m
      BY <2>4
    <3> HIDE DEF t
    <3>3. CASE posts'[u][i] = m
      BY <2>3, <3>1, <3>2, <3>3
    <3>4. CASE posts'[u][i] # m
      <4>1. /\ i \in DOMAIN posts[u] /\ posts'[u][i] = posts[u][i]
            /\ j \in DOMAIN posts[v] /\ posts'[v][j] = posts[v][j]
        BY <3>1, <3>2, <3>4
      <4>2. posts[u][i] = posts[v][j]
        BY <4>1
      <4>3. PostedOnce
        BY DEF Posted
      <4> QED BY <4>1, <4>2, <4>3 DEF PostedOnce
    <3> QED BY <3>3, <3>4
  <2> QED BY <2>5, <2>6 DEF Posted
<1>3. ASSUME posts' = posts,
             \A m \in Messages : mstate[m] = "posted" => mstate'[m] = "posted"
      PROVE  Posted'
  BY <1>3 DEF Posted, PostedOnly, PostedOnce
<1>4. CASE MainStep \/ UNCHANGED vars
  BY <1>3, <1>4 DEF MainStep, InitService, Listen, Interrupt, BeginExit, EndExit, vars, msgVars
<1>5. ASSUME NEW t \in IoThreads, ThreadStep(t) PROVE Posted'
  <2>1. CASE PollPosts(t)
    <3>1. CASE posts[t] # <<>>
      BY <1>1, <2>1, <3>1
    <3>2. CASE posts[t] = <<>>
      BY <1>3, <2>1, <3>2 DEF PollPosts
    <3> QED BY <3>1, <3>2
  <2>2. CASE StartIoThread(t) \/ SearchMap(t) \/ LinkNode(t) \/ PushWork(t)
    BY <1>3, <2>2 DEF StartIoThread, SearchMap, LinkNode, PushWork, msgVars
  <2> QED BY <1>5, <2>1, <2>2 DEF ThreadStep
<1>6. ASSUME NEW t \in IoThreads, NEW k \in Connections, ConnectionStep(t, k) PROVE Posted'
  BY <1>3, <1>6 DEF ConnectionStep, HandshakeFails, BeginClose, OnOpen, OnClose, Accept, msgVars
<1>7. ASSUME NEW t \in IoThreads, NEW k \in Connections, NEW m \in Messages, OnMessage(t, k, m)
      PROVE  Posted'
  BY <1>3, <1>7 DEF OnMessage
<1>8. ASSUME NEW m \in Messages, MessageStep(m) PROVE Posted'
  <2>1. CASE AsyncSend(m)
    <3>1. CASE mstate'[m] = "posted"
      BY <1>2, <2>1, <3>1
    <3>2. CASE mstate'[m] # "posted"
      BY <1>3, <2>1, <3>2 DEF AsyncSend
    <3> QED BY <3>1, <3>2
  <2>2. CASE BeginService(m) \/ Valid(m) \/ Send(m) \/ EndService(m)
    BY <1>3, <2>2 DEF BeginService, Valid, Send, EndService
  <2> QED BY <1>8, <2>1, <2>2 DEF MessageStep
<1> QED BY <1>4, <1>5, <1>6, <1>7, <1>8, NextSplits

\* The server's state has the types the model declares; a queue of posts holds
\* only replies that have not been handed to the library, each once (async_send
\* and start_async_thread, src/websocket_demo/server/websocket_server.cpp:39-58).
THEOREM ServerTypes == Spec => []TypeOK
<1>1. Init => Posted
  BY DEF Init, Posted, PostedOnly, PostedOnce
<1>2. Types /\ Posted => TypeOK
  BY DEF Types, ScalarTypes, ThreadTypes, ConnectionTypes, MessageTypes, Posted, PostedOnly, TypeOK
<1> QED BY <1>1, <1>2, PostedStep, TypesInvariance, PTL DEF Spec

-----------------------------------------------------------------------------
(* Connections and their addresses.                                        *)

Live(k) == conn[k] \in {"opening", "open", "closing"}

\* No two connection objects in memory have the same address.
AddressesApart ==
  \A j, k \in Connections : InMemory(j) /\ InMemory(k) /\ addr[j] = addr[k] => j = k

ConnecterExact == m_connecter = {addr[k] : k \in {k \in Connections : Opened(k)}}

AddressInv == AddressesApart /\ ConnecterExact

LEMMA AddressStep == Types /\ AddressInv /\ [Next]_vars => AddressInv'
<1> SUFFICES ASSUME Types, AddressInv, [Next]_vars PROVE AddressInv'
  OBVIOUS
<1> /\ conn \in [Connections -> {"none", "opening", "open", "closing", "closed"}]
    /\ addr \in [Connections -> Addresses \cup {None}]
  BY DEF Types, ConnectionTypes
<1>1. ASSUME UNCHANGED <<conn, addr, m_connecter>>,
             \A k \in Connections : InMemory(k)' => InMemory(k)
      PROVE  AddressInv'
  <2>1. \A k \in Connections : Opened(k)' <=> Opened(k)
    BY <1>1 DEF Opened
  <2> QED BY <1>1, <2>1 DEF AddressInv, AddressesApart, ConnecterExact
<1>2. ASSUME UNCHANGED <<conn, addr, m_connecter, from>>,
             \A m \in Messages : mstate'[m] \in {"queued", "serving", "posted"} =>
                                   mstate[m] \in {"queued", "serving", "posted"}
      PROVE  AddressInv'
  <2>1. \A k \in Connections : InMemory(k)' => InMemory(k)
    BY <1>2 DEF InMemory
  <2> QED BY <1>1, <1>2, <2>1
<1>3. CASE MainStep \/ UNCHANGED vars
  BY <1>2, <1>3 DEF MainStep, InitService, Listen, Interrupt, BeginExit, EndExit,
                    vars, connVars, msgVars
<1>4. ASSUME NEW t \in IoThreads, ThreadStep(t) PROVE AddressInv'
  <2>1. CASE PollPosts(t)
    <3>1. CASE posts[t] = <<>>
      BY <1>2, <2>1, <3>1 DEF PollPosts, connVars
    <3>2. CASE posts[t] # <<>>
      <4>1. \A m \in Messages : mstate'[m] \in {"queued", "serving", "posted"} =>
                                  mstate[m] \in {"queued", "serving", "posted"}
        BY <2>1, <3>2 DEF PollPosts, Outcome, Types, MessageTypes
      <4> QED BY <1>2, <2>1, <4>1 DEF PollPosts, connVars
    <3> QED BY <3>1, <3>2
  <2>2. CASE StartIoThread(t) \/ SearchMap(t) \/ LinkNode(t) \/ PushWork(t)
    BY <1>2, <2>2 DEF StartIoThread, SearchMap, LinkNode, PushWork, connVars, msgVars
  <2> QED BY <1>4, <2>1, <2>2 DEF ThreadStep
<1>5. ASSUME NEW t \in IoThreads, NEW k \in Connections, ConnectionStep(t, k) PROVE AddressInv'
  <2>1. UNCHANGED <<mstate, from>>
    BY <1>5 DEF ConnectionStep, HandshakeFails, BeginClose, OnOpen, OnClose, Accept, msgVars
  <2>2. ASSUME addr' = addr, Live(k),
               \A j \in Connections : j # k => conn'[j] = conn[j]
        PROVE  AddressesApart'
    <3>1. \A j \in Connections : InMemory(j)' => InMemory(j)
      BY <2>1, <2>2 DEF InMemory, Live
    <3> QED BY <2>2, <3>1 DEF AddressInv, AddressesApart
  <2>3. \A j \in Connections : Live(j) => InMemory(j)
    BY DEF Live, InMemory
  <2>4. CASE HandshakeFails(t, k)
    <3>1. /\ addr' = addr /\ m_connecter' = m_connecter /\ Live(k) /\ ~Opened(k)
          /\ conn' = [conn EXCEPT ![k] = "closed"]
      BY <2>4 DEF HandshakeFails, Live, Opened
    <3>2. \A j \in Connections : Opened(j)' <=> Opened(j)
      BY <3>1 DEF Opened
    <3> QED BY <2>2, <3>1, <3>2 DEF AddressInv, ConnecterExact
  <2>5. CASE BeginClose(t, k)
    <3>1. /\ addr' = addr /\ m_connecter' = m_connecter /\ Live(k) /\ Opened(k)
          /\ conn' = [conn EXCEPT ![k] = "closing"]
      BY <2>5 DEF BeginClose, Live, Opened
    <3>2. \A j \in Connections : Opened(j)' <=> Opened(j)
      BY <3>1 DEF Opened
    <3> QED BY <2>2, <3>1, <3>2 DEF AddressInv, ConnecterExact
  <2>6. CASE OnOpen(t, k)
    <3>1. /\ addr' = addr /\ m_connecter' = m_connecter \cup {addr[k]} /\ Live(k)
          /\ conn' = [conn EXCEPT ![k] = "open"]
      BY <2>6 DEF OnOpen, Live
    <3>2. \A j \in Connections : Opened(j)' <=> Opened(j) \/ j = k
      BY <3>1 DEF Opened
    <3> QED BY <2>2, <3>1, <3>2 DEF AddressInv, ConnecterExact
  <2>7. CASE OnClose(t, k)
    <3>1. /\ addr' = addr /\ m_connecter' = m_connecter \ {addr[k]} /\ Live(k)
          /\ conn' = [conn EXCEPT ![k] = "closed"]
      BY <2>7 DEF OnClose, Forget, Live
    <3>2. \A j \in Connections : Opened(j)' <=> Opened(j) /\ j # k
      BY <3>1 DEF Opened
    <3>3. \A j \in Connections : Opened(j) /\ addr[j] = addr[k] => j = k
      BY <2>3, <3>1 DEF AddressInv, AddressesApart, Opened, Live
    <3> QED BY <2>2, <3>1, <3>2, <3>3 DEF AddressInv, ConnecterExact
  <2>8. ASSUME NEW a \in Addresses, Accept(t, k, a) PROVE AddressInv'
    <3>1. /\ conn[k] = "none" /\ IsFree(a) /\ m_connecter' = m_connecter
          /\ conn' = [conn EXCEPT ![k] = "opening"]
          /\ addr' = [addr EXCEPT ![k] = a]
      BY <2>8 DEF Accept
    <3>2. \A j \in Connections : j # k => addr'[j] = addr[j] /\ (InMemory(j)' => InMemory(j))
      BY <2>1, <3>1 DEF InMemory
    <3>3. \A j \in Connections : j # k /\ InMemory(j)' => addr'[j] # addr'[k]
      BY <3>1, <3>2 DEF IsFree
    <3>4. AddressesApart'
      BY <3>2, <3>3 DEF AddressInv, AddressesApart
    <3>5. \A j \in Connections : (Opened(j)' <=> Opened(j)) /\ (Opened(j) => addr'[j] = addr[j])
      BY <3>1 DEF Opened
    <3> QED BY <3>1, <3>4, <3>5 DEF AddressInv, ConnecterExact
  <2> QED BY <1>5, <2>4, <2>5, <2>6, <2>7, <2>8 DEF ConnectionStep
<1>6. ASSUME NEW t \in IoThreads, NEW k \in Connections, NEW m \in Messages, OnMessage(t, k, m)
      PROVE  AddressInv'
  <2>1. \A j \in Connections : InMemory(j)' => InMemory(j)
    BY <1>6 DEF OnMessage, InMemory, Types, MessageTypes, connVars
  <2> QED BY <1>1, <1>6, <2>1 DEF OnMessage, connVars
<1>7. ASSUME NEW m \in Messages, MessageStep(m) PROVE AddressInv'
  <2>1. \A j \in Messages : mstate'[j] \in {"queued", "serving", "posted"} =>
                              mstate[j] \in {"queued", "serving", "posted"}
    BY <1>7 DEF MessageStep, BeginService, Valid, AsyncSend, Send, EndService, Outcome, Types, MessageTypes
  <2> QED BY <1>2, <1>7, <2>1 DEF MessageStep, BeginService, Valid, AsyncSend, Send, EndService, connVars
<1> QED BY <1>3, <1>4, <1>5, <1>6, <1>7, NextSplits

LEMMA AddressInvariance == Spec => []AddressInv
<1>1. Init => AddressInv
  BY DEF Init, AddressInv, AddressesApart, ConnecterExact, InMemory, Opened
<1> QED BY <1>1, AddressStep, TypesInvariance, PTL DEF Spec

\* m_connecter is exact: on_open and on_close keep one entry for each connection
\* that is open, and no other, whatever io threads run them (on_open and
\* on_close, src/websocket_demo/server/websocket_server.cpp:140-167).
THEOREM ServerConnecterMatches == Spec => []ConnecterMatches
<1>1. AddressInv => ConnecterMatches
  BY DEF AddressInv, AddressesApart, ConnecterExact, ConnecterMatches, InMemory, Opened
<1> QED BY <1>1, AddressInvariance, PTL

\* valid() answers for the session's own connection and no other, although it
\* compares addresses that are used again (aaws_session::valid and
\* is_conn_valid, websocket_server.cpp:119-126).
THEOREM ServerValidTellsTheTruth == Spec => ValidTellsTheTruth
<1>1. ASSUME Types, AddressInv, [Next]_vars, NEW m \in Messages, verdict'[m] # verdict[m]
      PROVE  verdict'[m] = "valid" <=> Opened(from[m])
  <2>1. Valid(m)
    <3>1. CASE UNCHANGED verdict
      BY <1>1, <3>1
    <3>2. ASSUME NEW j \in Messages, Valid(j) PROVE j = m
      BY <1>1, <3>2 DEF Valid, Types, MessageTypes
    <3>3. CASE ~UNCHANGED verdict
      <4>1. PICK j \in Messages : MessageStep(j)
        BY <1>1, <3>3, NextSplits DEF MainStep, InitService, Listen, Interrupt, BeginExit, EndExit,
             ThreadStep, StartIoThread, SearchMap, LinkNode, PushWork, PollPosts, ConnectionStep,
             HandshakeFails, BeginClose, OnOpen, OnClose, Accept, OnMessage, msgVars, vars
      <4>2. Valid(j)
        BY <3>3, <4>1 DEF MessageStep, BeginService, AsyncSend, Send, EndService
      <4> QED BY <3>2, <4>2
    <3> QED BY <3>1, <3>3
  <2> DEFINE k == from[m]
  <2>2. k \in Connections /\ InMemory(k)
    BY <1>1, <2>1 DEF Valid, Types, Bound, InMemory
  <2>3. \A j \in Connections : Opened(j) => InMemory(j)
    BY DEF Opened, InMemory
  <2>4. addr[k] \in m_connecter <=> Opened(k)
    BY <1>1, <2>2, <2>3 DEF AddressInv, AddressesApart, ConnecterExact
  <2> QED BY <2>1, <2>4, <1>1 DEF Valid, Types, MessageTypes
<1>2. Types /\ AddressInv /\ [Next]_vars =>
        \A m \in Messages : verdict'[m] # verdict[m] => (verdict'[m] = "valid" <=> Opened(from[m]))
  BY <1>1
<1>3. UNCHANGED vars =>
        \A m \in Messages : verdict'[m] # verdict[m] => (verdict'[m] = "valid" <=> Opened(from[m]))
  BY DEF vars, msgVars
<1> QED BY <1>2, TypesInvariance, AddressInvariance, PTL DEF Spec, ValidTellsTheTruth

-----------------------------------------------------------------------------
(* The map of the io threads.                                              *)

\* Unless accesses to it have overlapped, the map holds every thread that has
\* registered itself, and a thread that is about to link its node has seen all
\* of the map.
MapInv ==
  ~raced =>
    /\ \A t \in IoThreads : tpc[t] \in {"pushing", "looping"} => t \in m_io_service
    /\ \A t \in IoThreads : tpc[t] = "linking" => m_io_service \subseteq seen[t]
    /\ \A m \in Messages : mstate[m] # "lost"

LEMMA MapStep == Types /\ MapInv /\ [Next]_vars => MapInv'
<1> SUFFICES ASSUME Types, MapInv, [Next]_vars, ~raced' PROVE MapInv'
  BY DEF MapInv
<1>1. ASSUME UNCHANGED <<tpc, m_io_service, seen, raced>>,
             \A m \in Messages : mstate'[m] = "lost" => mstate[m] = "lost"
      PROVE  MapInv'
  BY <1>1 DEF MapInv
<1>2. CASE InitService \/ Listen \/ Interrupt \/ BeginExit \/ EndExit \/ UNCHANGED vars
  BY <1>1, <1>2 DEF InitService, Listen, Interrupt, BeginExit, EndExit, vars, ioVars, msgVars
<1>3. ASSUME NEW t \in IoThreads, ThreadStep(t) PROVE MapInv'
  <2> tpc \in [IoThreads -> {"unborn", "searching", "linking", "pushing", "looping"}]
    BY DEF Types, ThreadTypes
  <2>1. CASE StartIoThread(t)
    BY <2>1 DEF StartIoThread, MapInv, msgVars
  <2>2. CASE SearchMap(t)
    BY <2>2 DEF SearchMap, AfterSearch, MapInv, Types, ThreadTypes, msgVars
  <2>3. CASE LinkNode(t)
    <3>1. ~raced /\ \A u \in IoThreads : u # t => tpc[u] # "linking"
      BY <2>3 DEF LinkNode, Linking
    <3>2. m_io_service \ seen[t] = {}
      BY <2>3, <3>1 DEF LinkNode, MapInv
    <3>3. m_io_service' = m_io_service \cup {t}
      BY <2>3, <3>2 DEF LinkNode
    <3> QED BY <2>3, <3>1, <3>3 DEF LinkNode, MapInv, msgVars
  <2>4. CASE PushWork(t)
    BY <2>4 DEF PushWork, MapInv, msgVars
  <2>5. CASE PollPosts(t)
    BY <1>1, <2>5 DEF PollPosts, Outcome, Types, MessageTypes
  <2> QED BY <1>3, <2>1, <2>2, <2>3, <2>4, <2>5 DEF ThreadStep
<1>4. ASSUME NEW t \in IoThreads, NEW k \in Connections, ConnectionStep(t, k) PROVE MapInv'
  BY <1>1, <1>4 DEF ConnectionStep, HandshakeFails, BeginClose, OnOpen, OnClose, Accept, ioVars, msgVars
<1>5. ASSUME NEW t \in IoThreads, NEW k \in Connections, NEW m \in Messages, OnMessage(t, k, m)
      PROVE  MapInv'
  BY <1>1, <1>5 DEF OnMessage, ioVars, Types, MessageTypes
<1>6. ASSUME NEW m \in Messages, MessageStep(m) PROVE MapInv'
  <2>1. CASE AsyncSend(m)
    <3>1. ~raced /\ tpc[tid[m]] = "looping" /\ tid[m] \in IoThreads /\ ~Linking(IoThreads)
      BY <2>1 DEF AsyncSend, Types, Bound
    <3>2. tid[m] \in m_io_service
      BY <3>1 DEF MapInv
    <3>3. \A j \in Messages : mstate'[j] = "lost" => mstate[j] = "lost"
      BY <2>1, <3>1, <3>2 DEF AsyncSend, Types, MessageTypes
    <3> QED BY <2>1, <3>1, <3>3 DEF AsyncSend, ioVars, MapInv
  <2>2. CASE BeginService(m) \/ Valid(m) \/ Send(m) \/ EndService(m)
    BY <1>1, <2>2 DEF BeginService, Valid, Send, EndService, Outcome, ioVars, Types, MessageTypes
  <2> QED BY <1>6, <2>1, <2>2 DEF MessageStep
<1> QED BY <1>2, <1>3, <1>4, <1>5, <1>6, NextSplits DEF MainStep

\* async_send drops no reply silently unless accesses to m_io_service have
\* overlapped (start_async_thread and async_send,
\* websocket_server.cpp:39-58, aaws_session.cpp:18-28).
THEOREM ServerLostOnlyByRace == Spec => []LostOnlyByRace
<1>1. Init => MapInv
  BY DEF Init, MapInv
<1>2. MapInv => LostOnlyByRace
  BY DEF MapInv, LostOnlyByRace
<1> QED BY <1>1, <1>2, MapStep, TypesInvariance, PTL DEF Spec
=============================================================================
