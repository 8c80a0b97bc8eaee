------------------------------ MODULE WsServer ------------------------------
(***************************************************************************)
(* DCS::websocket_server and aaws_session (src/websocket_demo/server,      *)
(* src/websocket_demo/message) with main.cpp and what they use of          *)
(* websocketpp and asio.                                                   *)
(*                                                                         *)
(* The io threads take the server's events in turn; a strand of websocketpp*)
(* keeps the handlers of one connection apart, so a handler is one step.   *)
(* The spin lock m_flag makes the accesses to m_connecter atomic.  Nothing *)
(* guards m_io_service, in which every io thread inserts itself and every  *)
(* async_send searches: an insertion is cut between its search and its     *)
(* link, a node linked in between may be lost, and a search made meanwhile *)
(* may miss any key; the other outcomes of that data race are left out.    *)
(*                                                                         *)
(* Messages that commit accepts are served by the pool, one call of        *)
(* doService each, on a thread and at a time that are left open; a service *)
(* may ask valid() once and reply once.                                    *)
(***************************************************************************)
EXTENDS Naturals, Sequences, FiniteSets

CONSTANTS
  IoThreads,     \* the threads of start_async_thread; 5 in the code
  Connections,   \* connections that clients may make
  Addresses,     \* where a connection object may be allocated
  Messages,      \* messages that clients may send
  None           \* no connection, thread or address

ASSUME NoneAssumption == None \notin IoThreads \cup Connections \cup Addresses

VARIABLES
  m_ss,          \* server_state
  main,          \* where main() is
  g_exit,        \* SIGINT has been caught
  stopped,       \* the server's io_service has been stopped
  tpc,           \* where each io thread is
  m_io_service,  \* the threads that have a node in the map
  seen,          \* the nodes an io thread saw when it searched the map
  m_work,        \* the threads whose own io_service has a work object
  ioStopped,     \* the threads whose own io_service ran out of work and stopped
  posts,         \* the replies posted to each thread's own io_service
  conn,          \* each connection's life
  addr,          \* the address of each connection object
  m_connecter,
  mstate,        \* where each message and its reply are
  tid,           \* m_tid of each message's session
  from,          \* m_hdl of each message's session
  verdict,       \* what valid() has answered to the service
  raced          \* history: accesses to m_io_service have overlapped

mainVars == <<m_ss, main, g_exit, stopped>>
ioVars   == <<tpc, m_io_service, seen, m_work, ioStopped>>
connVars == <<conn, addr, m_connecter>>
msgVars  == <<mstate, tid, from, verdict>>
vars     == <<mainVars, ioVars, posts, connVars, msgVars, raced>>

TypeOK ==
  /\ m_ss \in {"UNINIT", "INITED", "RUNNING", "ERROR"}
  /\ main \in {"start", "inited", "spawning", "running", "stopping", "exited"}
  /\ g_exit \in BOOLEAN /\ stopped \in BOOLEAN /\ raced \in BOOLEAN
  /\ tpc \in [IoThreads -> {"unborn", "searching", "linking", "pushing", "looping"}]
  /\ m_io_service \subseteq IoThreads
  /\ seen \in [IoThreads -> SUBSET IoThreads]
  /\ m_work \subseteq IoThreads /\ ioStopped \subseteq IoThreads
  /\ posts \in [IoThreads -> Seq(Messages)]
  /\ \A t \in IoThreads : \A i \in DOMAIN posts[t] : mstate[posts[t][i]] = "posted"
  /\ conn \in [Connections -> {"none", "opening", "open", "closing", "closed"}]
  /\ addr \in [Connections -> Addresses \cup {None}]
  /\ m_connecter \subseteq Addresses
  /\ mstate \in [Messages -> {"unsent", "rejected", "queued", "serving", "posted",
                              "sent", "failed", "lost", "silent"}]
  /\ tid \in [Messages -> IoThreads \cup {None}]
  /\ from \in [Messages -> Connections \cup {None}]
  /\ verdict \in [Messages -> {"unasked", "valid", "invalid"}]

Init ==
  /\ m_ss = "UNINIT" /\ main = "start" /\ g_exit = FALSE /\ stopped = FALSE
  /\ tpc = [t \in IoThreads |-> "unborn"]
  /\ m_io_service = {} /\ m_work = {} /\ ioStopped = {}
  /\ seen = [t \in IoThreads |-> {}]
  /\ posts = [t \in IoThreads |-> <<>>]
  /\ conn = [k \in Connections |-> "none"]
  /\ addr = [k \in Connections |-> None]
  /\ m_connecter = {}
  /\ mstate = [m \in Messages |-> "unsent"]
  /\ tid = [m \in Messages |-> None]
  /\ from = [m \in Messages |-> None]
  /\ verdict = [m \in Messages |-> "unasked"]
  /\ raced = FALSE

-----------------------------------------------------------------------------
(* main().                                                                 *)

InitService ==
  /\ main = "start"
  /\ main' = "inited"
  /\ m_ss' = "INITED"
  /\ UNCHANGED <<g_exit, stopped, ioVars, posts, connVars, msgVars, raced>>

\* run(): listen succeeds or throws; in both cases the io threads follow.
Listen ==
  /\ main = "inited"
  /\ main' = "spawning"
  /\ m_ss' \in {"RUNNING", "ERROR"}
  /\ UNCHANGED <<g_exit, stopped, ioVars, posts, connVars, msgVars, raced>>

StartIoThread(t) ==
  /\ main = "spawning" /\ tpc[t] = "unborn"
  /\ tpc' = [tpc EXCEPT ![t] = "searching"]
  /\ main' = IF \A u \in IoThreads \ {t} : tpc[u] # "unborn" THEN "running" ELSE main
  /\ UNCHANGED <<m_ss, g_exit, stopped, m_io_service, seen, m_work, ioStopped, posts,
                 connVars, msgVars, raced>>

\* sig_call_back.
Interrupt ==
  /\ ~g_exit /\ main # "exited"
  /\ g_exit' = TRUE
  /\ UNCHANGED <<m_ss, main, stopped, ioVars, posts, connVars, msgVars, raced>>

\* Faulty variant: exit() waits for a server that nobody has stopped.
StopNothing == UNCHANGED stopped

StopServer == stopped' = TRUE

\* The main loop ends; exit() stops the server's io_service ...
BeginExit ==
  /\ main = "running" /\ g_exit
  /\ main' = "stopping"
  /\ StopServer
  /\ UNCHANGED <<m_ss, g_exit, ioVars, posts, connVars, msgVars, raced>>

\* ... and returns once that says so; then main() returns and the process ends.
\* m_exit is set here and read nowhere.
EndExit ==
  /\ main = "stopping" /\ stopped
  /\ main' = "exited"
  /\ UNCHANGED <<m_ss, g_exit, stopped, ioVars, posts, connVars, msgVars, raced>>

Alive == main # "exited"

-----------------------------------------------------------------------------
(* An io thread registers itself.                                          *)

Linking(T) == \E t \in T : tpc[t] = "linking"

\* Faulty variant: the thread starts polling before it is in the map.
AfterSearchPolls == "looping"

AfterSearch == "linking"

SearchMap(t) ==
  /\ Alive /\ tpc[t] = "searching"
  /\ tpc' = [tpc EXCEPT ![t] = AfterSearch]
  /\ seen' = [seen EXCEPT ![t] = m_io_service]
  /\ raced' = (raced \/ Linking(IoThreads \ {t}))
  /\ UNCHANGED <<mainVars, m_io_service, m_work, ioStopped, posts, connVars, msgVars>>

LinkNode(t) ==
  /\ Alive /\ tpc[t] = "linking"
  /\ tpc' = [tpc EXCEPT ![t] = "pushing"]
  /\ \E lost \in SUBSET (m_io_service \ seen[t]) : m_io_service' = (m_io_service \ lost) \cup {t}
  /\ seen' = [seen EXCEPT ![t] = {}]
  /\ raced' = (raced \/ Linking(IoThreads \ {t}))
  /\ UNCHANGED <<mainVars, m_work, ioStopped, posts, connVars, msgVars>>

\* Faulty variant: the io_service gets no work object.
NoWork(t) == UNCHANGED m_work

\* A work object whose place in the vector is overwritten by another thread is
\* leaked, and still counts as work.
MakeWork(t) == m_work' = m_work \cup {t}

PushWork(t) ==
  /\ Alive /\ tpc[t] = "pushing"
  /\ tpc' = [tpc EXCEPT ![t] = "looping"]
  /\ MakeWork(t)
  /\ UNCHANGED <<mainVars, m_io_service, seen, ioStopped, posts, connVars, msgVars, raced>>

-----------------------------------------------------------------------------
(* m_pserver->poll(): an io thread handles an event of the server.         *)

Polling(t) == Alive /\ tpc[t] = "looping" /\ m_ss = "RUNNING" /\ ~stopped

\* A connection object is made by make_shared, so the handle (a weak_ptr) of a
\* session or a posted reply keeps its memory from being allocated again.
InMemory(k) ==
  \/ conn[k] \in {"opening", "open", "closing"}
  \/ \E m \in Messages : from[m] = k /\ mstate[m] \in {"queued", "serving", "posted"}

\* Faulty variant: as if the object and its reference counts were allocated
\* apart, and a closed connection's address were free at once.
IsFreeWhenClosed(a) ==
  \A k \in Connections : addr[k] = a => conn[k] \notin {"opening", "open", "closing"}

IsFree(a) == \A k \in Connections : addr[k] = a => ~InMemory(k)

\* A client connects; on_validate accepts every token.
Accept(t, k, a) ==
  /\ Polling(t) /\ conn[k] = "none" /\ IsFree(a)
  /\ conn' = [conn EXCEPT ![k] = "opening"]
  /\ addr' = [addr EXCEPT ![k] = a]
  /\ UNCHANGED <<mainVars, ioVars, posts, m_connecter, msgVars, raced>>

\* The handshake fails after all; no handler is set for that.
HandshakeFails(t, k) ==
  /\ Polling(t) /\ conn[k] = "opening"
  /\ conn' = [conn EXCEPT ![k] = "closed"]
  /\ UNCHANGED <<mainVars, ioVars, posts, addr, m_connecter, msgVars, raced>>

OnOpen(t, k) ==
  /\ Polling(t) /\ conn[k] = "opening"
  /\ conn' = [conn EXCEPT ![k] = "open"]
  /\ m_connecter' = m_connecter \cup {addr[k]}
  /\ UNCHANGED <<mainVars, ioVars, posts, addr, msgVars, raced>>

\* Either side ends the connection; sending on it fails from now on.
BeginClose(t, k) ==
  /\ Polling(t) /\ conn[k] = "open"
  /\ conn' = [conn EXCEPT ![k] = "closing"]
  /\ UNCHANGED <<mainVars, ioVars, posts, addr, m_connecter, msgVars, raced>>

\* Faulty variant: on_close does not erase the address.
ForgetNothing(k) == UNCHANGED m_connecter

Forget(k) == m_connecter' = m_connecter \ {addr[k]}

OnClose(t, k) ==
  /\ Polling(t) /\ conn[k] = "closing"
  /\ conn' = [conn EXCEPT ![k] = "closed"]
  /\ Forget(k)
  /\ UNCHANGED <<mainVars, ioVars, posts, addr, msgVars, raced>>

\* on_message makes a session and commits; commit may find no service.
OnMessage(t, k, m) ==
  /\ Polling(t) /\ conn[k] = "open" /\ mstate[m] = "unsent"
  /\ \/ /\ mstate' = [mstate EXCEPT ![m] = "queued"]
        /\ tid' = [tid EXCEPT ![m] = t]
        /\ from' = [from EXCEPT ![m] = k]
     \/ /\ mstate' = [mstate EXCEPT ![m] = "rejected"]
        /\ UNCHANGED <<tid, from>>
  /\ UNCHANGED <<mainVars, ioVars, posts, connVars, verdict, raced>>

-----------------------------------------------------------------------------
(* A worker of the pool runs doService, which uses the session.            *)

BeginService(m) ==
  /\ Alive /\ mstate[m] = "queued"
  /\ mstate' = [mstate EXCEPT ![m] = "serving"]
  /\ UNCHANGED <<mainVars, ioVars, posts, connVars, tid, from, verdict, raced>>

\* valid(): is_conn_valid on the address the session has noted.
Valid(m) ==
  /\ Alive /\ mstate[m] = "serving" /\ verdict[m] = "unasked"
  /\ verdict' = [verdict EXCEPT ![m] = IF addr[from[m]] \in m_connecter THEN "valid" ELSE "invalid"]
  /\ UNCHANGED <<mainVars, ioVars, posts, connVars, mstate, tid, from, raced>>

\* async_send: post to the io_service found under m_tid, or do nothing.
AsyncSend(m) ==
  /\ Alive /\ mstate[m] = "serving"
  /\ \/ /\ tid[m] \in m_io_service
        /\ posts' = [posts EXCEPT ![tid[m]] = Append(@, m)]
        /\ mstate' = [mstate EXCEPT ![m] = "posted"]
     \/ /\ tid[m] \notin m_io_service \/ Linking(IoThreads)
        /\ mstate' = [mstate EXCEPT ![m] = "lost"]
        /\ UNCHANGED posts
  /\ raced' = (raced \/ Linking(IoThreads))
  /\ UNCHANGED <<mainVars, ioVars, connVars, tid, from, verdict>>

\* The library takes a message for an open connection, and returns an error
\* for any other.
Outcome(k) == IF conn[k] = "open" THEN "sent" ELSE "failed"

\* send, on the worker's own thread.
Send(m) ==
  /\ Alive /\ mstate[m] = "serving"
  /\ mstate' = [mstate EXCEPT ![m] = Outcome(from[m])]
  /\ UNCHANGED <<mainVars, ioVars, posts, connVars, tid, from, verdict, raced>>

\* The service does not reply.
EndService(m) ==
  /\ Alive /\ mstate[m] = "serving"
  /\ mstate' = [mstate EXCEPT ![m] = "silent"]
  /\ UNCHANGED <<mainVars, ioVars, posts, connVars, tid, from, verdict, raced>>

-----------------------------------------------------------------------------
(* ios->poll(): an io thread runs on_async_send for a posted reply.  With  *)
(* nothing posted and no work object, the io_service stops for good.       *)

\* Faulty variant: the reply is sent but stays in the queue.
LeavePost(t) == UNCHANGED posts

TakePost(t) == posts' = [posts EXCEPT ![t] = Tail(@)]

PollPosts(t) ==
  /\ Alive /\ tpc[t] = "looping" /\ t \notin ioStopped
  /\ \/ /\ posts[t] # <<>>
        /\ TakePost(t)
        /\ mstate' = [mstate EXCEPT ![Head(posts[t])] = Outcome(from[Head(posts[t])])]
        /\ UNCHANGED ioStopped
     \/ /\ posts[t] = <<>>
        /\ ioStopped' = ioStopped \cup ({t} \ m_work)
        /\ UNCHANGED <<posts, mstate>>
  /\ UNCHANGED <<mainVars, tpc, m_io_service, seen, m_work, connVars, tid, from, verdict, raced>>

-----------------------------------------------------------------------------
Next ==
  \/ InitService \/ Listen \/ Interrupt \/ BeginExit \/ EndExit
  \/ \E t \in IoThreads :
       \/ StartIoThread(t) \/ SearchMap(t) \/ LinkNode(t) \/ PushWork(t) \/ PollPosts(t)
       \/ \E k \in Connections :
            \/ HandshakeFails(t, k) \/ OnOpen(t, k) \/ BeginClose(t, k) \/ OnClose(t, k)
            \/ \E a \in Addresses : Accept(t, k, a)
            \/ \E m \in Messages : OnMessage(t, k, m)
  \/ \E m \in Messages : BeginService(m) \/ Valid(m) \/ AsyncSend(m) \/ Send(m) \/ EndService(m)

Spec == Init /\ [][Next]_vars

(***************************************************************************)
(* main() and the io threads are scheduled, and every round of an io       *)
(* thread's loop comes to ios->poll().  Clients, services and the user owe *)
(* nothing.                                                                *)
(***************************************************************************)
Fairness ==
  /\ WF_vars(InitService) /\ WF_vars(Listen) /\ WF_vars(BeginExit) /\ WF_vars(EndExit)
  /\ \A t \in IoThreads : /\ WF_vars(StartIoThread(t)) /\ WF_vars(SearchMap(t))
                          /\ WF_vars(LinkNode(t)) /\ WF_vars(PushWork(t)) /\ WF_vars(PollPosts(t))

FairSpec == Spec /\ Fairness

-----------------------------------------------------------------------------
(* Safety.                                                                 *)

Opened(k) == conn[k] \in {"open", "closing"}

\* m_connecter holds exactly the addresses of the connections between their
\* on_open and their on_close, and no two of these share an address
\* (src/websocket_demo/server/websocket_server.cpp:140-167).
ConnecterMatches ==
  /\ m_connecter = {addr[k] : k \in {k \in Connections : Opened(k)}}
  /\ \A j, k \in Connections : Opened(j) /\ Opened(k) /\ addr[j] = addr[k] => j = k

\* valid() compares addresses, yet it answers for the session's own connection:
\* a new connection cannot take the address while the session holds the handle
\* (aaws_session.h:20-29 and websocket_server.cpp:119-126).
ValidTellsTheTruth ==
  [][\A m \in Messages : verdict'[m] # verdict[m] =>
       (verdict'[m] = "valid" <=> Opened(from[m]))]_vars

\* A reply is only dropped without notice if accesses to m_io_service have
\* overlapped: an io thread is in the map before it can receive a message
\* (start_async_thread against async_send, websocket_server.cpp:39-58).
LostOnlyByRace == (\E m \in Messages : mstate[m] = "lost") => raced

-----------------------------------------------------------------------------
(* Liveness.                                                               *)

\* A posted reply is handed to the library or refused by it, unless the process
\* ends first: no io_service runs out of work (websocket_server.cpp:45-53).
PostedRepliesLeave ==
  \A m \in Messages : mstate[m] = "posted" ~> (mstate[m] \in {"sent", "failed"} \/ ~Alive)

\* SIGINT ends the process, whatever the io threads and services are doing
\* (main.cpp and websocket_server.cpp:100-112).
InterruptEndsProcess == g_exit ~> main = "exited"

=============================================================================
