------------------------------ MODULE WsClient ------------------------------
(***************************************************************************)
(* The console client (src/websocket_demo/client/websocket_client.cpp):    *)
(* websocket_endpoint and its connection_metadata on the main thread, and  *)
(* the library's io thread that calls on_open and on_fail.                 *)
(*                                                                         *)
(* The two threads share m_status, a string without a lock.  The main      *)
(* thread only ever asks whether it is "Open"; a torn read gives one of    *)
(* the two answers, which a read before or after the write gives too.      *)
(* m_server and m_error_reason are written by the io thread as well; they  *)
(* are only printed and left out.  What else is modelled of                *)
(* connection_metadata belongs to the main thread.                         *)
(*                                                                         *)
(* A connection of the library is open BEFORE on_open is called, and close *)
(* and send go by the library's state.  on_close exists but is never set   *)
(* as a handler, so m_status stays "Open" when a connection has ended.     *)
(***************************************************************************)
EXTENDS Integers

CONSTANTS
  MaxConnections,   \* bounds the calls of connect, and so m_next_id
  MaxMessages       \* bounds the messages recorded for one connection

ASSUME BoundsAssumption == MaxConnections \in Nat /\ MaxMessages \in Nat

Ids == 0 .. MaxConnections - 1

VARIABLES
  main,         \* where main() and ~websocket_endpoint() are
  at,           \* the destructor's place in m_connection_list
  m_next_id,    \* m_connection_list holds the ids below it
  m_status,     \* of each connection's metadata
  m_messages,   \* how many messages the metadata has recorded
  conn,         \* the library's state of each connection
  handler,      \* the handler that the io thread is about to call
  perpetual,    \* the library's io_service has its work object
  io,           \* client::run has not returned yet
  opened,       \* history: the connections that have been open
  passed        \* history: those the destructor found not to be "Open"

mainVars == <<main, at, m_next_id, m_messages, passed>>
ioVars   == <<handler, io, opened>>
vars     == <<mainVars, m_status, conn, perpetual, ioVars>>

InList(k) == k < m_next_id

TypeOK ==
  /\ main \in {"starting", "prompt", "visiting", "closing", "joining", "exited", "endless", "aborted"}
  /\ m_next_id \in 0 .. MaxConnections
  /\ at \in 0 .. m_next_id /\ (main = "closing" => at < m_next_id)
  /\ m_status \in [Ids -> {"Connecting", "Open", "Failed"}]
  /\ m_messages \in [Ids -> 0 .. MaxMessages]
  /\ conn \in [Ids -> {"none", "connecting", "open", "closing", "closed"}]
  /\ \A k \in Ids : conn[k] = "none" <=> ~InList(k)
  /\ handler \in [Ids -> {"none", "on_open", "on_fail"}]
  /\ perpetual \in BOOLEAN /\ io \in {"running", "returned"}
  /\ opened \subseteq Ids /\ passed \subseteq Ids

Init ==
  /\ main = "starting" /\ at = 0 /\ m_next_id = 0 /\ passed = {}
  /\ m_status = [k \in Ids |-> "Connecting"]
  /\ m_messages = [k \in Ids |-> 0]
  /\ conn = [k \in Ids |-> "none"]
  /\ handler = [k \in Ids |-> "none"]
  /\ perpetual = TRUE /\ io = "running" /\ opened = {}

-----------------------------------------------------------------------------
(* Commands.  One that names no connection of the list, that the library   *)
(* refuses, or that only prints changes nothing.                           *)

\* connect, by the user, or by main() before its first prompt.
Connect ==
  /\ main \in {"starting", "prompt"} /\ m_next_id < MaxConnections
  /\ main' = "prompt"
  /\ conn' = [conn EXCEPT ![m_next_id] = "connecting"]
  /\ m_next_id' = m_next_id + 1
  /\ UNCHANGED <<at, m_status, m_messages, passed, perpetual, ioVars>>

BeginClose(k) == conn' = [conn EXCEPT ![k] = "closing"]

\* close.  Without an id on its line it takes one from an uninitialised
\* variable, which may be that of any connection; so does send.
Close(k) ==
  /\ main = "prompt" /\ conn[k] = "open"
  /\ BeginClose(k)
  /\ UNCHANGED <<mainVars, m_status, perpetual, ioVars>>

\* Faulty variant: a message is recorded although the library refused it.
TakesAlways(k) == InList(k)

Takes(k) == conn[k] = "open"

\* send records the messages that the library has taken.
Send(k) ==
  /\ main = "prompt" /\ Takes(k) /\ m_messages[k] < MaxMessages
  /\ m_messages' = [m_messages EXCEPT ![k] = @ + 1]
  /\ UNCHANGED <<main, at, m_next_id, passed, m_status, conn, perpetual, ioVars>>

\* Faulty variant: the library's loop is kept alive for ever.
KeepPerpetual == UNCHANGED perpetual

StopPerpetual == perpetual' = FALSE

Quit ==
  /\ main = "prompt"
  /\ main' = "visiting" /\ at' = 0
  /\ StopPerpetual
  /\ UNCHANGED <<m_next_id, m_messages, passed, m_status, conn, ioVars>>

\* At the end of the input getline leaves an empty line for ever.
EndOfInput ==
  /\ main = "prompt"
  /\ main' = "endless"
  /\ UNCHANGED <<at, m_next_id, m_messages, passed, m_status, conn, perpetual, ioVars>>

\* connect and show without an argument: substr throws, nobody catches.
BareCommand ==
  /\ main = "prompt"
  /\ main' = "aborted"
  /\ UNCHANGED <<at, m_next_id, m_messages, passed, m_status, conn, perpetual, ioVars>>

-----------------------------------------------------------------------------
(* ~websocket_endpoint.                                                    *)

\* Faulty variant: the loop goes one past the end of the list.
AtEndTooLate == at > m_next_id

AtEnd == at = m_next_id

\* Faulty variant: the test on the status is the wrong way round.
ShallCloseOthers == m_status[at] # "Open"

ShallClose == m_status[at] = "Open"

Visit ==
  /\ main = "visiting" /\ ~AtEnd
  /\ IF ShallClose
     THEN /\ main' = "closing"
          /\ UNCHANGED <<at, passed>>
     ELSE /\ at' = at + 1
          /\ passed' = passed \cup {at}
          /\ UNCHANGED main
  /\ UNCHANGED <<m_next_id, m_messages, m_status, conn, perpetual, ioVars>>

\* The library refuses to close what is not open; the error is printed.
CloseVisited ==
  /\ main = "closing"
  /\ main' = "visiting" /\ at' = at + 1
  /\ IF conn[at] = "open" THEN BeginClose(at) ELSE UNCHANGED conn
  /\ UNCHANGED <<m_next_id, m_messages, passed, m_status, perpetual, ioVars>>

BeginJoin ==
  /\ main = "visiting" /\ AtEnd
  /\ main' = "joining"
  /\ UNCHANGED <<at, m_next_id, m_messages, passed, m_status, conn, perpetual, ioVars>>

Join ==
  /\ main = "joining" /\ io = "returned"
  /\ main' = "exited"
  /\ UNCHANGED <<at, m_next_id, m_messages, passed, m_status, conn, perpetual, ioVars>>

-----------------------------------------------------------------------------
(* The io thread.  on_open is called in the event that opens the           *)
(* connection; on_fail in a later one, after the socket's shutdown.        *)

Polling == io = "running" /\ main # "aborted" /\ \A k \in Ids : handler[k] # "on_open"

HandshakeSucceeds(k) ==
  /\ Polling /\ conn[k] = "connecting"
  /\ conn' = [conn EXCEPT ![k] = "open"]
  /\ handler' = [handler EXCEPT ![k] = "on_open"]
  /\ opened' = opened \cup {k}
  /\ UNCHANGED <<mainVars, m_status, perpetual, io>>

\* No answer, a bad one, or open_handshake_timeout.
HandshakeFails(k) ==
  /\ Polling /\ conn[k] = "connecting"
  /\ conn' = [conn EXCEPT ![k] = "closed"]
  /\ handler' = [handler EXCEPT ![k] = "on_fail"]
  /\ UNCHANGED <<mainVars, m_status, perpetual, io, opened>>

CallHandler(k, name, status) ==
  /\ io = "running" /\ main # "aborted" /\ handler[k] = name
  /\ m_status' = [m_status EXCEPT ![k] = status]
  /\ handler' = [handler EXCEPT ![k] = "none"]
  /\ UNCHANGED <<mainVars, conn, perpetual, io, opened>>

OnOpen(k) == CallHandler(k, "on_open", "Open")

OnFail(k) == Polling /\ CallHandler(k, "on_fail", "Failed")

\* The peer sends a close frame, which is acknowledged.
PeerCloses(k) ==
  /\ Polling /\ conn[k] = "open"
  /\ BeginClose(k)
  /\ UNCHANGED <<mainVars, m_status, perpetual, ioVars>>

\* Faulty variant: the end of an open connection calls on_fail.
TerminatedAsFailed(k) == handler' = [handler EXCEPT ![k] = "on_fail"]

\* The handler for this case, the close handler, is not set.
Terminated(k) == UNCHANGED handler

Terminate(k) ==
  /\ Polling
  /\ conn' = [conn EXCEPT ![k] = "closed"]
  /\ Terminated(k)
  /\ UNCHANGED <<mainVars, m_status, perpetual, io, opened>>

\* An open connection breaks down without a close frame.
Break(k) == conn[k] = "open" /\ Terminate(k)

\* The closing handshake ends, or close_handshake_timeout.
EndClose(k) == conn[k] = "closing" /\ Terminate(k)

\* run() returns when nothing is left to wait for.
IoReturns ==
  /\ Polling /\ ~perpetual
  /\ \A k \in Ids : conn[k] \in {"none", "closed"} /\ handler[k] = "none"
  /\ io' = "returned"
  /\ UNCHANGED <<mainVars, m_status, conn, perpetual, handler, opened>>

-----------------------------------------------------------------------------
Next ==
  \/ Connect \/ Quit \/ EndOfInput \/ BareCommand
  \/ Visit \/ CloseVisited \/ BeginJoin \/ Join \/ IoReturns
  \/ \E k \in Ids : \/ Close(k) \/ Send(k)
                    \/ HandshakeSucceeds(k) \/ HandshakeFails(k) \/ OnOpen(k) \/ OnFail(k)
                    \/ PeerCloses(k) \/ Break(k) \/ EndClose(k)

Spec == Init /\ [][Next]_vars

(***************************************************************************)
(* Both threads are scheduled, and the library's timers end an opening or  *)
(* a closing handshake that the peer does not end.  An open connection may *)
(* stay open for ever, and the user owes nothing.                          *)
(***************************************************************************)
Fairness ==
  /\ WF_vars(Visit) /\ WF_vars(CloseVisited) /\ WF_vars(BeginJoin) /\ WF_vars(Join)
  /\ WF_vars(IoReturns)
  /\ \A k \in Ids : /\ WF_vars(HandshakeSucceeds(k) \/ HandshakeFails(k))
                    /\ WF_vars(OnOpen(k)) /\ WF_vars(OnFail(k)) /\ WF_vars(EndClose(k))

FairSpec == Spec /\ Fairness

-----------------------------------------------------------------------------
(* Safety.                                                                 *)

\* m_status lags behind the library but never contradicts it: "Failed" is only
\* said of a connection that was never open and recorded no message, "Open" only
\* of one that was, and "Connecting" of an open one only until on_open has run
\* (the handlers against send and close, client/websocket_client.cpp:29-55,
\* 175-233).
StatusFollows ==
  \A k \in Ids :
    /\ m_status[k] = "Failed" => k \notin opened /\ m_messages[k] = 0
    /\ m_status[k] = "Open" => k \in opened
    /\ m_status[k] = "Connecting" => k \notin opened \/ handler[k] = "on_open"
    /\ m_messages[k] > 0 => k \in opened

\* When the destructor joins the io thread, a connection that is still open is
\* one it had found not to be open, whatever opened or ended while it went
\* through the list (client/websocket_client.cpp:133-157).
OnlyPassedStayOpen ==
  main \in {"joining", "exited"} => \A k \in Ids : conn[k] = "open" => k \in passed

-----------------------------------------------------------------------------
(* Liveness.                                                               *)

LateOpen == \E k \in passed : conn[k] = "open"

\* quit ends the process, unless a connection is open that the destructor has
\* passed over: one that opens afterwards, or one that was open already while
\* its on_open had not run yet (client/websocket_client.cpp:133-157, 289-293).
QuitEndsUnlessLateOpen == main = "visiting" ~> (main = "exited" \/ LateOpen)
=============================================================================
