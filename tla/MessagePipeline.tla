--------------------------- MODULE MessagePipeline --------------------------
(***************************************************************************)
(* The way of a message through the server: websocket_server::on_message   *)
(* on an io thread, service_mgr::commit in it, and the thread pool, whose  *)
(* callers the io threads are.  ServiceMgr and ThreadPool are composed as  *)
(* they stand; every step of this module is a step of one of them, or of   *)
(* both at once where the code of one calls the other.                     *)
(*                                                                         *)
(* A strand of websocketpp keeps the handlers of one connection apart and  *)
(* in order; those of different connections run on any io threads at the   *)
(* same time.  main() starts the pool before the server and never releases *)
(* or drops it; services are started while messages already come in, and   *)
(* none of the repository's code stops one.  Only normal tasks are added.  *)
(***************************************************************************)
EXTENDS Integers, Sequences, FiniteSets

CONSTANTS
  IoThreads, Connections, Messages, Workers,
  Services, Uris, DefaultUri, EmptyUri, Content,
  None           \* no message, no service, no thread

ASSUME WorkersAssumption == IsFiniteSet(Workers) /\ Workers # {}
ASSUME UrisAssumption == DefaultUri \in Uris /\ EmptyUri \in Uris
ASSUME ContentAssumption ==
  LET JsonText   == [parses : BOOLEAN, uri : Uris]
      OptionData == [format : STRING, json : JsonText]
  IN  \A m \in Messages : Content[m].exh \in Seq(JsonText) /\ Content[m].options \in Seq(OptionData)
ASSUME NoneAssumption == None \notin UNION {IoThreads, Messages, Workers, Services}

\* The variables of ServiceMgr and of ThreadPool, described there, and:
VARIABLES
  _services, _uri, opc, key, seen, mpc, target, last, raced, stopped,
  queue, mutex, m_exit, m_current_run_thread, m_thread_num, m_inited, core_num,
  wpc, func, cpc, rpc, owned, class, executed, detached, finished, dropped,
  message,       \* the message each io thread is in on_message for
  strand,        \* the io thread that runs the handler of each connection
  committed,     \* history: the messages handed to the pool, in that order
  taken          \* history: the messages that workers popped, in that order

Mgr  == INSTANCE ServiceMgr WITH NoService <- None
Pool == INSTANCE ThreadPool WITH Callers <- IoThreads, Tasks <- Messages,
                                 NoTask <- None, NoThread <- None

mgrVars  == <<_services, _uri, opc, key, seen, mpc, target, last, raced, stopped>>
poolVars == <<queue, mutex, m_exit, m_current_run_thread, m_thread_num, m_inited, core_num,
              wpc, func, cpc, rpc, owned, class, executed, detached, finished, dropped>>
handlerVars == <<message, strand, committed>>
vars == <<mgrVars, poolVars, handlerVars, taken>>

Handling(k) == strand[k] # None

TypeOK ==
  /\ Mgr!TypeOK /\ Pool!TypeOK
  /\ message \in [IoThreads -> Messages \cup {None}]
  /\ strand \in [Connections -> IoThreads \cup {None}]
  /\ \A t \in IoThreads : message[t] # None <=> \E k \in Connections : strand[k] = t
  /\ committed \in Seq(Messages) /\ taken \in Seq(Messages)

Init ==
  /\ Mgr!Init /\ Pool!Init
  /\ message = [t \in IoThreads |-> None]
  /\ strand = [k \in Connections |-> None]
  /\ committed = <<>> /\ taken = <<>>

-----------------------------------------------------------------------------
(* on_message, from the io thread's side.                                  *)

\* The library calls on_message.
Receive(t, k, m) ==
  /\ m_inited /\ message[t] = None /\ mpc[m] = "new"
  /\ \A u \in IoThreads : message[u] # m
  /\ ~Handling(k)
  /\ message' = [message EXCEPT ![t] = m]
  /\ strand' = [strand EXCEPT ![k] = t]
  /\ UNCHANGED <<mgrVars, poolVars, committed, taken>>

\* Faulty variant: the strand is not given back.
ReturnedHolding(t) ==
  /\ message' = [message EXCEPT ![t] = None]
  /\ UNCHANGED strand

\* on_message returns.
Returned(t) ==
  /\ message' = [message EXCEPT ![t] = None]
  /\ strand' = [k \in Connections |-> IF strand[k] = t THEN None ELSE strand[k]]

\* commit's get_service; without a service commit and on_message return.
Lookup(t) ==
  /\ message[t] # None
  /\ Mgr!Lookup(message[t])
  /\ IF mpc'[message[t]] = "rejected" THEN Returned(t) ELSE UNCHANGED <<message, strand>>
  /\ UNCHANGED <<poolVars, committed, taken>>

\* commit's add_task: the pointer that was found, and the task, are queued.
Commit(t) ==
  /\ message[t] # None
  /\ Mgr!Commit(message[t])
  /\ Pool!AddTask(t, message[t], "normal_task")
  /\ committed' = Append(committed, message[t])
  /\ UNCHANGED <<message, strand, taken>>

\* The end of add_task, of commit and of on_message.
Notify(t) ==
  /\ Pool!NotifyTask(t)
  /\ Returned(t)
  /\ UNCHANGED <<mgrVars, committed, taken>>

-----------------------------------------------------------------------------
(* The owners of services, and the pool's own threads.                     *)

StartService(s) ==
  /\ \A u \in Uris : last[u] # s
  /\ Mgr!StartSearch(s) \/ Mgr!StartInsert(s) \/ Mgr!StartAssign(s)
  /\ UNCHANGED <<poolVars, handlerVars, taken>>

InitPool ==
  /\ Pool!FinishInit \/ \E w \in Workers : Pool!SpawnWorker(w)
  /\ UNCHANGED <<mgrVars, handlerVars, taken>>

\* A worker starts, finds nothing to do, waits, or is woken.
Idle(w) ==
  /\ Pool!Enter(w) \/ Pool!Park(w) \/ Pool!SpuriousWakeup(w)
  /\ UNCHANGED <<mgrVars, handlerVars, taken>>

\* A worker pops the next message, if there is one.
TakeUp(w) ==
  /\ Pool!EvaluatePredicate(w)
  /\ taken' = IF func'[w] = None THEN taken ELSE Append(taken, func'[w])
  /\ UNCHANGED <<mgrVars, handlerVars>>

\* It counts itself as running and releases the mutex.
Decide(w) ==
  /\ Pool!Decide(w)
  /\ UNCHANGED <<mgrVars, handlerVars, taken>>

\* service_base::doService is called on the pointer that commit bound.
CallService(w) ==
  /\ Pool!CallFunc(w)
  /\ UNCHANGED <<mgrVars, handlerVars, taken>>

EndService(w) ==
  /\ Pool!Finish(w)
  /\ UNCHANGED <<mgrVars, handlerVars, taken>>

-----------------------------------------------------------------------------
Next ==
  \/ \E t \in IoThreads : \/ Lookup(t) \/ Commit(t) \/ Notify(t)
                          \/ \E k \in Connections, m \in Messages : Receive(t, k, m)
  \/ \E s \in Services : StartService(s)
  \/ InitPool
  \/ \E w \in Workers : Idle(w) \/ TakeUp(w) \/ Decide(w) \/ CallService(w) \/ EndService(w)

Spec == Init /\ [][Next]_vars

(***************************************************************************)
(* The threads are scheduled, services return, and a mutex that is free    *)
(* again and again is in the end obtained.  A worker is not woken for no   *)
(* reason for ever.  Clients and the owners of services owe nothing.       *)
(***************************************************************************)
Fairness ==
  /\ WF_vars(InitPool)
  /\ \A t \in IoThreads : WF_vars(Lookup(t)) /\ SF_vars(Commit(t)) /\ WF_vars(Notify(t))
  /\ \A w \in Workers : /\ WF_vars(Pool!Enter(w) /\ Idle(w)) /\ WF_vars(Pool!Park(w) /\ Idle(w))
                        /\ SF_vars(TakeUp(w)) /\ WF_vars(Decide(w))
                        /\ WF_vars(CallService(w)) /\ SF_vars(EndService(w))

FairSpec == Spec /\ Fairness

-----------------------------------------------------------------------------
(* The abstract promise.                                                   *)

Undecided(m) == m # None /\ mpc[m] \in {"new", "found"}

Service == INSTANCE MessageService WITH
  arrived  <- {m \in Messages : mpc[m] # "new" \/ \E t \in IoThreads : message[t] = m},
  current  <- [k \in Connections |->
                 IF Handling(k) /\ Undecided(message[strand[k]]) THEN message[strand[k]] ELSE None],
  accepted <- committed,
  called   <- executed,
  ended    <- finished

\* The messages of one connection are accepted in the order in which they came,
\* accepted messages are taken up in that order, whichever workers pop them,
\* and doService is called for none twice.  The calls themselves have no order:
\* a worker may be delayed between its unlock and its call
\* (service_mgr.cpp:34-43 with thread_pool.h:66-149).
TakesUpInOrder == Service!ServiceSpec

-----------------------------------------------------------------------------
(* Liveness.                                                               *)

\* Every message that is received is rejected by commit or served, unless the
\* workers are used up (websocket_server.cpp:169-189 to thread_pool.h:104-125).
EveryMessageAnswered ==
  LET Open == {m \in Messages : mpc[m] # "rejected" /\ m \notin executed
                                /\ (mpc[m] # "new" \/ \E t \in IoThreads : message[t] = m)}
  IN  Open # {} ~> (Open = {} \/ Pool!Exhausted)

\* The handler of a connection ends and gives its strand back, whatever services
\* and workers do, so that the connection's next message is received
\* (websocket_server.cpp:169-189, service_mgr.cpp:34-44).
HandlersReturn == \A k \in Connections : Handling(k) ~> ~Handling(k)
=============================================================================
