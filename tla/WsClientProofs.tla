--------------------------- MODULE WsClientProofs ---------------------------
(***************************************************************************)
(* Proofs about WsClient, for every number of connections and messages.    *)
(***************************************************************************)
EXTENDS WsClient, TLAPS

\* The steps of the two threads, in the order of Next.
ThreadStep ==
  \/ Connect \/ Quit \/ EndOfInput \/ BareCommand
  \/ Visit \/ CloseVisited \/ BeginJoin \/ Join \/ IoReturns

ConnectionStep(k) ==
  \/ Close(k) \/ Send(k)
  \/ HandshakeSucceeds(k) \/ HandshakeFails(k) \/ OnOpen(k) \/ OnFail(k)
  \/ PeerCloses(k) \/ Break(k) \/ EndClose(k)

LEMMA NextSplits == Next <=> ThreadStep \/ \E k \in Ids : ConnectionStep(k)
  BY DEF Next, ThreadStep, ConnectionStep

-----------------------------------------------------------------------------
(* Types.                                                                  *)

\* An end of a connection that the library has changes its state and no other.
LEMMA ConnTypes ==
  ASSUME TypeOK, NEW k \in Ids, conn[k] # "none", NEW state \in {"open", "closing", "closed"},
         conn' = [conn EXCEPT ![k] = state], m_next_id' = m_next_id
  PROVE  /\ conn' \in [Ids -> {"none", "connecting", "open", "closing", "closed"}]
         /\ \A i \in Ids : conn'[i] = "none" <=> ~InList(i)'
<1>1. conn \in [Ids -> {"none", "connecting", "open", "closing", "closed"}]
  BY DEF TypeOK
<1>2. ASSUME NEW i \in Ids PROVE conn'[i] = "none" <=> ~InList(i)'
  <2>1. conn[i] = "none" <=> ~InList(i)
    BY DEF TypeOK
  <2>2. InList(i)' <=> InList(i)
    BY DEF InList
  <2>3. conn'[i] = "none" <=> conn[i] = "none"
    BY <1>1
  <2> QED BY <2>1, <2>2, <2>3
<1> QED BY <1>1, <1>2

LEMMA ConnKept ==
  ASSUME TypeOK, UNCHANGED <<conn, m_next_id>>
  PROVE  /\ conn' \in [Ids -> {"none", "connecting", "open", "closing", "closed"}]
         /\ \A i \in Ids : conn'[i] = "none" <=> ~InList(i)'
BY DEF TypeOK, InList

LEMMA ConnectionStepTypes ==
  ASSUME TypeOK, NEW k \in Ids, ConnectionStep(k)
  PROVE  TypeOK'
<1>1. CASE Close(k) \/ PeerCloses(k)
  <2>1. /\ conn[k] = "open" /\ conn' = [conn EXCEPT ![k] = "closing"]
        /\ UNCHANGED <<main, at, m_next_id, m_messages, passed, m_status, perpetual, handler, io, opened>>
    BY <1>1 DEF Close, PeerCloses, BeginClose, mainVars, ioVars
  <2>2. /\ conn' \in [Ids -> {"none", "connecting", "open", "closing", "closed"}]
        /\ \A i \in Ids : conn'[i] = "none" <=> ~InList(i)'
    BY <2>1, ConnTypes
  <2> QED BY <2>1, <2>2 DEF TypeOK
<1>2. CASE Send(k)
  <2>1. /\ m_messages[k] < MaxMessages /\ m_messages' = [m_messages EXCEPT ![k] = @ + 1]
        /\ UNCHANGED <<main, at, m_next_id, passed, m_status, conn, perpetual, handler, io, opened>>
    BY <1>2 DEF Send, ioVars
  <2>2. m_messages' \in [Ids -> 0 .. MaxMessages]
    <3>1. m_messages[k] + 1 \in 0 .. MaxMessages
      BY <2>1, BoundsAssumption DEF TypeOK
    <3> QED BY <2>1, <3>1 DEF TypeOK
  <2>3. /\ conn' \in [Ids -> {"none", "connecting", "open", "closing", "closed"}]
        /\ \A i \in Ids : conn'[i] = "none" <=> ~InList(i)'
    BY <2>1, ConnKept
  <2> QED BY <2>1, <2>2, <2>3 DEF TypeOK
<1>3. CASE HandshakeSucceeds(k) \/ HandshakeFails(k)
  <2>1. /\ conn[k] = "connecting"
        /\ \E state \in {"open", "closed"} : conn' = [conn EXCEPT ![k] = state]
        /\ \E name \in {"on_open", "on_fail"} : handler' = [handler EXCEPT ![k] = name]
        /\ opened' = opened \cup {k} \/ opened' = opened
        /\ UNCHANGED <<main, at, m_next_id, m_messages, passed, m_status, perpetual, io>>
    BY <1>3 DEF HandshakeSucceeds, HandshakeFails, mainVars
  <2>2. /\ conn' \in [Ids -> {"none", "connecting", "open", "closing", "closed"}]
        /\ \A i \in Ids : conn'[i] = "none" <=> ~InList(i)'
    BY <2>1, ConnTypes
  <2>3. handler' \in [Ids -> {"none", "on_open", "on_fail"}]
    BY <2>1 DEF TypeOK
  <2>4. opened' \subseteq Ids
    BY <2>1 DEF TypeOK
  <2> QED BY <2>1, <2>2, <2>3, <2>4 DEF TypeOK
<1>4. CASE OnOpen(k) \/ OnFail(k)
  <2>1. /\ \E status \in {"Open", "Failed"} : m_status' = [m_status EXCEPT ![k] = status]
        /\ handler' = [handler EXCEPT ![k] = "none"]
        /\ UNCHANGED <<main, at, m_next_id, m_messages, passed, conn, perpetual, io, opened>>
    BY <1>4 DEF OnOpen, OnFail, CallHandler, mainVars
  <2>2. m_status' \in [Ids -> {"Connecting", "Open", "Failed"}]
    BY <2>1 DEF TypeOK
  <2>3. handler' \in [Ids -> {"none", "on_open", "on_fail"}]
    BY <2>1 DEF TypeOK
  <2>4. /\ conn' \in [Ids -> {"none", "connecting", "open", "closing", "closed"}]
        /\ \A i \in Ids : conn'[i] = "none" <=> ~InList(i)'
    BY <2>1, ConnKept
  <2> QED BY <2>1, <2>2, <2>3, <2>4 DEF TypeOK
<1>5. CASE Break(k) \/ EndClose(k)
  <2>1. /\ conn[k] # "none" /\ conn' = [conn EXCEPT ![k] = "closed"]
        /\ UNCHANGED <<main, at, m_next_id, m_messages, passed, m_status, perpetual, handler, io, opened>>
    BY <1>5 DEF Break, EndClose, Terminate, Terminated, mainVars
  <2>2. /\ conn' \in [Ids -> {"none", "connecting", "open", "closing", "closed"}]
        /\ \A i \in Ids : conn'[i] = "none" <=> ~InList(i)'
    BY <2>1, ConnTypes
  <2> QED BY <2>1, <2>2 DEF TypeOK
<1> QED BY <1>1, <1>2, <1>3, <1>4, <1>5 DEF ConnectionStep

\* Every state has the types the model declares, and a connection is in the
\* list exactly when the library has it (connect,
\* client/websocket_client.cpp:159-194).
THEOREM ClientTypes == Spec => []TypeOK
<1>1. Init => TypeOK
  BY BoundsAssumption DEF Init, TypeOK, InList, Ids
<1>2. TypeOK /\ [Next]_vars => TypeOK'
  <2> SUFFICES ASSUME TypeOK, [Next]_vars PROVE TypeOK'
    OBVIOUS
  <2> USE BoundsAssumption DEF TypeOK, InList, Ids
  <2>1. CASE Connect
    BY <2>1 DEF Connect, ioVars
  <2>2. CASE Quit
    <3>1. perpetual' = FALSE
      BY <2>2 DEF Quit, StopPerpetual
    <3>2. /\ main' = "visiting" /\ at' = 0
          /\ UNCHANGED <<m_next_id, m_messages, passed, m_status, conn, handler, io, opened>>
      BY <2>2 DEF Quit, ioVars
    <3>3. at' \in 0 .. m_next_id' /\ main' # "closing"
      BY <3>2
    <3> QED BY <3>1, <3>2, <3>3
  <2>3. CASE EndOfInput \/ BareCommand
    BY <2>3 DEF EndOfInput, BareCommand, ioVars
  <2>4. CASE Visit
    <3>1. at \in Ids /\ at < m_next_id
      BY <2>4 DEF Visit, AtEnd
    <3>2. /\ at' \in 0 .. m_next_id
          /\ main' \in {"visiting", "closing"}
          /\ main' = "closing" => at' < m_next_id
          /\ passed' \subseteq Ids
      <4>1. CASE ShallClose
        BY <2>4, <3>1, <4>1 DEF Visit
      <4>2. CASE ~ShallClose
        <5>1. at' = at + 1 /\ passed' = passed \cup {at} /\ main' = "visiting"
          BY <2>4, <4>2 DEF Visit
        <5> QED BY <3>1, <5>1
      <4> QED BY <4>1, <4>2
    <3>3. UNCHANGED <<m_next_id, m_messages, m_status, conn, perpetual, handler, io, opened>>
      BY <2>4 DEF Visit, ioVars
    <3> QED BY <3>2, <3>3
  <2>5. CASE CloseVisited
    BY <2>5 DEF CloseVisited, BeginClose, ioVars
  <2>6. CASE BeginJoin \/ Join
    BY <2>6 DEF BeginJoin, Join, ioVars
  <2>7. CASE IoReturns
    BY <2>7 DEF IoReturns, mainVars
  <2>8. ASSUME NEW k \in Ids, ConnectionStep(k) PROVE TypeOK'
    BY <2>8, ConnectionStepTypes
  <2>9. CASE UNCHANGED vars
    BY <2>9 DEF vars, mainVars, ioVars
  <2> QED
    BY <2>1, <2>2, <2>3, <2>4, <2>5, <2>6, <2>7, <2>8, <2>9, NextSplits DEF ThreadStep
<1> QED BY <1>1, <1>2, PTL DEF Spec

-----------------------------------------------------------------------------
(* The status against the library's state.                                 *)

\* Whether a connection has been open shows in its state, and a handler waits
\* only for the kind of event it belongs to.
OpenedInv ==
  \A k \in Ids :
    /\ k \in opened => conn[k] \in {"open", "closing", "closed"}
    /\ conn[k] \in {"open", "closing"} => k \in opened
    /\ handler[k] = "on_open" => k \in opened
    /\ handler[k] = "on_fail" => k \notin opened /\ conn[k] = "closed"
    /\ conn[k] \in {"none", "connecting"} => m_status[k] = "Connecting" /\ handler[k] = "none"

StatusInv == OpenedInv /\ StatusFollows

LEMMA StatusStep == TypeOK /\ StatusInv /\ [Next]_vars => StatusInv'
<1> SUFFICES ASSUME TypeOK, StatusInv, [Next]_vars PROVE StatusInv'
  OBVIOUS
<1> USE DEF StatusInv, OpenedInv, StatusFollows
<1>1. CASE Connect
  <2>1. /\ conn' = [conn EXCEPT ![m_next_id] = "connecting"]
        /\ UNCHANGED <<m_status, m_messages, handler, opened>>
    BY <1>1 DEF Connect, ioVars
  <2>2. m_next_id \in Ids => conn[m_next_id] = "none"
    BY BoundsAssumption DEF TypeOK, InList, Ids
  <2>3. m_next_id \in Ids => /\ m_next_id \notin opened
                             /\ handler[m_next_id] = "none"
                             /\ m_status[m_next_id] = "Connecting"
    BY <2>2
  <2>4. ASSUME NEW k \in Ids
        PROVE  IF k = m_next_id THEN conn'[k] = "connecting" ELSE conn'[k] = conn[k]
    BY <2>1 DEF TypeOK
  <2> QED BY <2>1, <2>3, <2>4
<1>2. CASE CloseVisited
  <2>1. UNCHANGED <<m_status, m_messages, handler, opened>>
    BY <1>2 DEF CloseVisited, ioVars
  <2>2. \A k \in Ids : conn'[k] = conn[k] \/ (conn[k] = "open" /\ conn'[k] = "closing")
    BY <1>2 DEF CloseVisited, BeginClose, TypeOK
  <2> QED BY <2>1, <2>2
<1>3. CASE \/ Quit \/ EndOfInput \/ BareCommand \/ Visit \/ BeginJoin \/ Join
           \/ IoReturns \/ UNCHANGED vars
  <2>1. UNCHANGED <<m_status, m_messages, conn, handler, opened>>
    BY <1>3 DEF Quit, EndOfInput, BareCommand, Visit, BeginJoin, Join, IoReturns,
                vars, mainVars, ioVars
  <2> QED BY <2>1
<1>4. ASSUME NEW k \in Ids, ConnectionStep(k) PROVE StatusInv'
  <2>1. CASE Close(k) \/ PeerCloses(k)
    BY <2>1 DEF Close, PeerCloses, BeginClose, TypeOK, mainVars, ioVars
  <2>2. CASE Send(k)
    BY <2>2 DEF Send, Takes, TypeOK, ioVars
  <2>3. CASE HandshakeSucceeds(k)
    BY <2>3 DEF HandshakeSucceeds, TypeOK, mainVars
  <2>4. CASE HandshakeFails(k)
    BY <2>4 DEF HandshakeFails, TypeOK, mainVars
  <2>5. CASE OnOpen(k) \/ OnFail(k)
    <3>1. CASE OnOpen(k)
      BY <2>5, <3>1 DEF OnOpen, CallHandler, TypeOK, mainVars
    <3>2. CASE OnFail(k)
      <4>1. /\ handler[k] = "on_fail" /\ k \notin opened /\ conn[k] = "closed"
            /\ UNCHANGED <<m_messages, conn, opened>>
            /\ m_status' = [m_status EXCEPT ![k] = "Failed"]
            /\ handler' = [handler EXCEPT ![k] = "none"]
        BY <3>2 DEF OnFail, CallHandler, mainVars
      <4>2. m_messages[k] = 0
        BY <4>1 DEF TypeOK
      <4> QED BY <4>1, <4>2 DEF TypeOK
    <3> QED BY <2>5, <3>1, <3>2
  <2>6. CASE Break(k) \/ EndClose(k)
    BY <2>6 DEF Break, EndClose, Terminate, Terminated, TypeOK, mainVars
  <2> QED BY <1>4, <2>1, <2>2, <2>3, <2>4, <2>5, <2>6 DEF ConnectionStep
<1> QED BY <1>1, <1>2, <1>3, <1>4, NextSplits DEF ThreadStep

LEMMA StatusInvariance == Spec => []StatusInv
<1>1. Init => StatusInv
  BY BoundsAssumption DEF Init, StatusInv, OpenedInv, StatusFollows
<1> QED BY <1>1, StatusStep, ClientTypes, PTL DEF Spec

\* What m_status says of a connection is never contradicted by what the library
\* has done with it (on_open and on_fail, client/websocket_client.cpp:29-55).
THEOREM ClientStatusFollows == Spec => []StatusFollows
BY StatusInvariance, PTL DEF StatusInv

-----------------------------------------------------------------------------
(* The destructor.                                                         *)

\* The destructor leaves no connection behind it that is open, but those it
\* has passed over; one in its list that it passed over or closed stays so.
VisitedInv ==
  /\ main \in {"visiting", "closing", "joining", "exited"} =>
       \A k \in Ids : k < at => k \in passed \/ conn[k] \in {"closing", "closed"}
  /\ main = "closing" => at \in opened
  /\ main \in {"joining", "exited"} => at = m_next_id

LEMMA VisitedStep == TypeOK /\ StatusInv /\ VisitedInv /\ [Next]_vars => VisitedInv'
<1> SUFFICES ASSUME TypeOK, StatusInv, VisitedInv, [Next]_vars PROVE VisitedInv'
  OBVIOUS
<1> USE DEF VisitedInv
<1>1. CASE Connect
  BY <1>1 DEF Connect, ioVars
<1>2. CASE Quit
  <2>1. main' = "visiting" /\ \A k \in Ids : ~(k < at')
    BY <1>2 DEF Quit, Ids
  <2> QED BY <2>1
<1>3. CASE EndOfInput \/ BareCommand
  BY <1>3 DEF EndOfInput, BareCommand
<1>4. CASE Visit
  <2>1. at \in Ids /\ at \in Nat /\ UNCHANGED <<conn, opened>>
    BY <1>4, BoundsAssumption DEF Visit, AtEnd, TypeOK, Ids, ioVars
  <2>2. CASE ShallClose
    <3>1. main = "visiting" /\ main' = "closing" /\ UNCHANGED <<at, passed>>
      BY <1>4, <2>2 DEF Visit
    <3>2. at \in opened
      BY <2>1, <2>2 DEF ShallClose, StatusInv, StatusFollows
    <3> QED BY <2>1, <3>1, <3>2
  <2>3. CASE ~ShallClose
    <3>1. /\ main = "visiting" /\ main' = "visiting"
          /\ at' = at + 1 /\ passed' = passed \cup {at}
      BY <1>4, <2>3 DEF Visit
    <3>2. ASSUME NEW k \in Ids, k < at + 1 PROVE k < at \/ k = at
      BY <2>1, <3>2 DEF Ids
    <3> QED BY <2>1, <3>1, <3>2
  <2> QED BY <2>2, <2>3
<1>5. CASE CloseVisited
  <2>1. at \in Ids /\ at \in opened
    BY <1>5, BoundsAssumption DEF CloseVisited, TypeOK, Ids
  <2>2. main = "closing" /\ main' = "visiting" /\ at' = at + 1 /\ UNCHANGED passed
    BY <1>5 DEF CloseVisited
  <2>3. conn'[at] \in {"closing", "closed"}
    BY <1>5, <2>1 DEF CloseVisited, BeginClose, StatusInv, OpenedInv, TypeOK
  <2>4. \A k \in Ids : k # at => conn'[k] = conn[k]
    BY <1>5 DEF CloseVisited, BeginClose, TypeOK
  <2>5. ASSUME NEW k \in Ids, k < at + 1 PROVE k < at \/ k = at
    BY <2>1, <2>5 DEF Ids
  <2>6. \A k \in Ids : k < at => k # at
    BY <2>1 DEF Ids
  <2> QED BY <2>2, <2>3, <2>4, <2>5, <2>6
<1>6. CASE BeginJoin
  BY <1>6 DEF BeginJoin, AtEnd
<1>7. CASE Join
  BY <1>7 DEF Join
<1>8. CASE IoReturns \/ UNCHANGED vars
  BY <1>8 DEF IoReturns, vars, mainVars, ioVars
<1>9. ASSUME NEW k \in Ids, ConnectionStep(k) PROVE VisitedInv'
  <2>1. /\ UNCHANGED <<main, at, m_next_id, passed>>
        /\ opened \subseteq opened'
    BY <1>9 DEF ConnectionStep, Close, Send, HandshakeSucceeds, HandshakeFails, OnOpen, OnFail,
                CallHandler, PeerCloses, Break, EndClose, Terminate, mainVars, ioVars
  <2>2. \A j \in Ids : conn[j] \in {"closing", "closed"} => conn'[j] \in {"closing", "closed"}
    BY <1>9 DEF ConnectionStep, Close, Send, HandshakeSucceeds, HandshakeFails, OnOpen, OnFail,
                CallHandler, PeerCloses, Break, EndClose, Terminate, BeginClose, TypeOK
  <2> QED BY <2>1, <2>2
<1> QED BY <1>1, <1>2, <1>3, <1>4, <1>5, <1>6, <1>7, <1>8, <1>9, NextSplits DEF ThreadStep

\* quit closes every connection that is open when its turn comes: one that is
\* open at the join had been passed over before it opened
\* (~websocket_endpoint, client/websocket_client.cpp:133-157).
THEOREM ClientOnlyPassedStayOpen == Spec => []OnlyPassedStayOpen
<1>1. Init => VisitedInv
  BY DEF Init, VisitedInv
<1>2. TypeOK /\ VisitedInv => OnlyPassedStayOpen
  BY DEF TypeOK, VisitedInv, OnlyPassedStayOpen, InList
<1> QED BY <1>1, <1>2, VisitedStep, StatusInvariance, ClientTypes, PTL DEF Spec
=============================================================================
