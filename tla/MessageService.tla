--------------------------- MODULE MessageService ---------------------------
(***************************************************************************)
(* What the server promises about the messages it receives, with the       *)
(* registry, the io threads, the queues, the mutex, the condition variable *)
(* and the workers hidden:                                                 *)
(*                                                                         *)
(*   - a message is rejected, or accepted to be served, and never both;    *)
(*   - the messages of one connection are accepted or rejected in the      *)
(*     order in which they were received, one at a time;                   *)
(*   - accepted messages are taken up in the order in which they were      *)
(*     accepted;                                                           *)
(*   - the service is called once, at most, for each, after it was taken   *)
(*     up.                                                                 *)
(*                                                                         *)
(* Nothing is promised about the order in which the calls are made, or     *)
(* end: two threads that have taken messages up may call the service in    *)
(* either order.  MessagePipeline implements this (PROPERTY TakesUpInOrder *)
(* there).                                                                 *)
(***************************************************************************)
EXTENDS Naturals, Sequences

CONSTANTS
  Messages,     \* the messages that clients may send
  Connections,  \* the connections they may come from
  None          \* no message

VARIABLES
  arrived,   \* the messages received so far
  current,   \* the message of each connection that is being looked at
  accepted,  \* the accepted messages, in order
  taken,     \* the messages taken up, in order
  called,    \* the messages the service has been called for
  ended      \* those for which that call has ended

service == <<arrived, current, accepted, taken, called, ended>>

ServiceInit ==
  /\ arrived = {} /\ accepted = <<>> /\ taken = <<>> /\ called = {} /\ ended = {}
  /\ current = [k \in Connections |-> None]

Arrive(k, m) ==
  /\ m \notin arrived /\ current[k] = None
  /\ arrived' = arrived \cup {m}
  /\ current' = [current EXCEPT ![k] = m]
  /\ UNCHANGED <<accepted, taken, called, ended>>

Reject(k) ==
  /\ current[k] # None
  /\ current' = [current EXCEPT ![k] = None]
  /\ UNCHANGED <<arrived, accepted, taken, called, ended>>

Accept(k) ==
  /\ current[k] # None
  /\ accepted' = Append(accepted, current[k])
  /\ current' = [current EXCEPT ![k] = None]
  /\ UNCHANGED <<arrived, taken, called, ended>>

TakeNext ==
  /\ Len(taken) < Len(accepted)
  /\ taken' = Append(taken, accepted[Len(taken) + 1])
  /\ UNCHANGED <<arrived, current, accepted, called, ended>>

Call(i) ==
  /\ taken[i] \notin called
  /\ called' = called \cup {taken[i]}
  /\ UNCHANGED <<arrived, current, accepted, taken, ended>>

End(m) ==
  /\ m \notin ended
  /\ ended' = ended \cup {m}
  /\ UNCHANGED <<arrived, current, accepted, taken, called>>

ServiceNext ==
  \/ \E k \in Connections : Reject(k) \/ Accept(k) \/ \E m \in Messages : Arrive(k, m)
  \/ TakeNext
  \/ \E i \in DOMAIN taken : Call(i)
  \/ \E m \in called : End(m)

ServiceSpec == ServiceInit /\ [][ServiceNext]_service
=============================================================================
