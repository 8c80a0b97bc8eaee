------------------------ MODULE MessagePipelineProofs ------------------------
(***************************************************************************)
(* Theorems about MessagePipeline, for any number of io threads,           *)
(* connections, messages, workers and services.  What has been proved of   *)
(* ThreadPool and of ServiceMgr is used here through instances of their    *)
(* proof modules.                                                          *)
(***************************************************************************)
EXTENDS MessagePipeline, FiniteSetTheorems, SequenceTheorems, TLAPS

PoolP == INSTANCE ThreadPoolProofs WITH Callers <- IoThreads, Tasks <- Messages,
                                        NoTask <- None, NoThread <- None
MgrP  == INSTANCE ServiceMgrProofs WITH NoService <- None

LEMMA PoolAssumptions ==
  PoolP!WorkersAssumption /\ PoolP!NoTaskAssumption /\ PoolP!NoThreadAssumption
<1>1. PoolP!IsFiniteSet(Workers)
  BY WorkersAssumption DEF PoolP!IsFiniteSet, IsFiniteSet
<1>. QED
  BY <1>1, NoneAssumption, WorkersAssumption
     DEF PoolP!WorkersAssumption, PoolP!NoTaskAssumption, PoolP!NoThreadAssumption

LEMMA MgrAssumptions ==
  MgrP!UrisAssumption /\ MgrP!NoServiceAssumption /\ MgrP!ContentAssumption
<1>1. MgrP!ContentAssumption
  BY ContentAssumption DEF MgrP!ContentAssumption, MgrP!JsonText, MgrP!OptionData
<1>. QED
  BY <1>1, UrisAssumption, NoneAssumption DEF MgrP!UrisAssumption, MgrP!NoServiceAssumption

LEMMA SameCardinality ==
  ASSUME NEW S
  PROVE  PoolP!Cardinality(S) = Cardinality(S) /\ (PoolP!IsFiniteSet(S) <=> IsFiniteSet(S))
BY DEF PoolP!Cardinality, Cardinality, PoolP!IsFiniteSet, IsFiniteSet

LEMMA SameNumCores == Pool!NumCores = PoolP!NumCores /\ PoolP!NumCores = Cardinality(Workers)
  BY DEF Pool!NumCores, PoolP!NumCores, Pool!Cardinality, PoolP!Cardinality, Cardinality

-----------------------------------------------------------------------------
(* The two instances of ThreadPool, the model's and the proofs', have the  *)
(* same initial states and the same actions; so have those of ServiceMgr.  *)

LEMMA SamePoolInit == Pool!Init <=> PoolP!Init
  BY SameNumCores DEF Pool!Init, PoolP!Init, Pool!TaskType, PoolP!TaskType, Pool!NoType, PoolP!NoType

LEMMA SameInitActions ==
  /\ Pool!FinishInit <=> PoolP!FinishInit
  /\ \A w \in Workers : Pool!SpawnWorker(w) <=> PoolP!SpawnWorker(w)
<1>. USE DEF Pool!poolVars, PoolP!poolVars, Pool!pcVars, PoolP!pcVars, Pool!history, PoolP!history
<1>1. Pool!FinishInit <=> PoolP!FinishInit
  BY DEF Pool!FinishInit, PoolP!FinishInit
<1>2. ASSUME NEW w \in Workers PROVE Pool!SpawnWorker(w) <=> PoolP!SpawnWorker(w)
  BY DEF Pool!SpawnWorker, PoolP!SpawnWorker
<1>. QED
  BY <1>1, <1>2

LEMMA SameIdleActions ==
  ASSUME NEW w \in Workers
  PROVE  /\ Pool!Enter(w) <=> PoolP!Enter(w)
         /\ Pool!Park(w) <=> PoolP!Park(w)
         /\ Pool!SpuriousWakeup(w) <=> PoolP!SpuriousWakeup(w)
<1>. USE DEF Pool!poolVars, PoolP!poolVars, Pool!history, PoolP!history, Pool!initVars, PoolP!initVars
<1>1. Pool!Enter(w) <=> PoolP!Enter(w)
  BY DEF Pool!Enter, PoolP!Enter, Pool!PoolAlive, PoolP!PoolAlive, Pool!Holding, PoolP!Holding
<1>2. Pool!Park(w) <=> PoolP!Park(w)
  BY DEF Pool!Park, PoolP!Park
<1>3. Pool!SpuriousWakeup(w) <=> PoolP!SpuriousWakeup(w)
  BY DEF Pool!SpuriousWakeup, PoolP!SpuriousWakeup
<1>. QED
  BY <1>1, <1>2, <1>3

LEMMA SameEvaluatePredicate ==
  ASSUME NEW w \in Workers
  PROVE  Pool!EvaluatePredicate(w) <=> PoolP!EvaluatePredicate(w)
BY DEF Pool!EvaluatePredicate, PoolP!EvaluatePredicate, Pool!GetTask, PoolP!GetTask, Pool!Pop, PoolP!Pop,
       Pool!IsNext, PoolP!IsNext, Pool!Rank, PoolP!Rank, Pool!TaskType, PoolP!TaskType,
       Pool!NoTaskQueued, PoolP!NoTaskQueued, Pool!initVars, PoolP!initVars, Pool!history, PoolP!history

LEMMA SameDecide ==
  ASSUME NEW w \in Workers
  PROVE  Pool!Decide(w) <=> PoolP!Decide(w)
BY DEF Pool!Decide, PoolP!Decide, Pool!Leave, PoolP!Leave, Pool!Start, PoolP!Start, Pool!Count,
       PoolP!Count, Pool!Unlock, PoolP!Unlock, Pool!LeaveWithTask, PoolP!LeaveWithTask,
       Pool!initVars, PoolP!initVars

LEMMA SameCallFunc ==
  ASSUME NEW w \in Workers
  PROVE  Pool!CallFunc(w) <=> PoolP!CallFunc(w)
BY DEF Pool!CallFunc, PoolP!CallFunc, Pool!poolVars, PoolP!poolVars, Pool!initVars, PoolP!initVars

LEMMA SameFinish ==
  ASSUME NEW w \in Workers
  PROVE  Pool!Finish(w) <=> PoolP!Finish(w)
BY DEF Pool!Finish, PoolP!Finish, Pool!Uncount, PoolP!Uncount, Pool!Return, PoolP!Return,
       Pool!initVars, PoolP!initVars

LEMMA SameAddTask ==
  ASSUME NEW t \in IoThreads, NEW m \in Messages
  PROVE  Pool!AddTask(t, m, "normal_task") <=> PoolP!AddTask(t, m, "normal_task")
BY DEF Pool!AddTask, PoolP!AddTask, Pool!initVars, PoolP!initVars, Pool!AllBusy, PoolP!AllBusy,
       Pool!StartDetached, PoolP!StartDetached, Pool!Enqueue, PoolP!Enqueue, Pool!NoType, PoolP!NoType

LEMMA SameNotifyTask ==
  ASSUME NEW t \in IoThreads
  PROVE  Pool!NotifyTask(t) <=> PoolP!NotifyTask(t)
BY DEF Pool!NotifyTask, PoolP!NotifyTask, Pool!NotifyAll, PoolP!NotifyAll, Pool!initVars, PoolP!initVars,
       Pool!poolVars, PoolP!poolVars, Pool!history, PoolP!history

LEMMA SameMgrInit == Mgr!Init <=> MgrP!Init
  BY DEF Mgr!Init, MgrP!Init

LEMMA SameStart ==
  ASSUME NEW s \in Services
  PROVE  /\ Mgr!StartSearch(s) <=> MgrP!StartSearch(s)
         /\ Mgr!StartInsert(s) <=> MgrP!StartInsert(s)
         /\ Mgr!StartAssign(s) <=> MgrP!StartAssign(s)
<1>. USE DEF Mgr!Races, MgrP!Races, Mgr!Writers, MgrP!Writers, Mgr!Keys, MgrP!Keys, Mgr!With, MgrP!With
<1>1. Mgr!StartSearch(s) <=> MgrP!StartSearch(s)
  BY DEF Mgr!StartSearch, MgrP!StartSearch
<1>2. Mgr!StartInsert(s) <=> MgrP!StartInsert(s)
  BY DEF Mgr!StartInsert, MgrP!StartInsert, Mgr!Without, MgrP!Without
<1>3. Mgr!StartAssign(s) <=> MgrP!StartAssign(s)
  BY DEF Mgr!StartAssign, MgrP!StartAssign, Mgr!Assigned, MgrP!Assigned
<1>. QED
  BY <1>1, <1>2, <1>3

LEMMA SameUri == ASSUME NEW m PROVE Mgr!UriOfMessage(m) = MgrP!UriOfMessage(m)
  BY DEF Mgr!UriOfMessage, MgrP!UriOfMessage, Mgr!GetUri, MgrP!GetUri,
         Mgr!UriOfOptions, MgrP!UriOfOptions, Mgr!UriOf, MgrP!UriOf, Mgr!IsJson, MgrP!IsJson

LEMMA SameLookup ==
  ASSUME NEW m \in Messages
  PROVE  Mgr!Lookup(m) <=> MgrP!Lookup(m)
BY SameUri DEF Mgr!Lookup, MgrP!Lookup, Mgr!Found, MgrP!Found, Mgr!Inserting, MgrP!Inserting,
       Mgr!AfterLookup, MgrP!AfterLookup, Mgr!Keys, MgrP!Keys

LEMMA SameCommit ==
  ASSUME NEW m \in Messages
  PROVE  Mgr!Commit(m) <=> MgrP!Commit(m)
BY DEF Mgr!Commit, MgrP!Commit

-----------------------------------------------------------------------------
(* A behaviour of the pipeline is one of the pool and one of the registry. *)

LEMMA PoolStep ==
  ASSUME [Next]_vars, message \in [IoThreads -> Messages \cup {None}]
  PROVE  [PoolP!Next]_(PoolP!vars)
<1>. USE DEF PoolP!Next
<1>1. UNCHANGED poolVars => UNCHANGED PoolP!vars
  BY DEF poolVars, PoolP!vars, PoolP!poolVars, PoolP!initVars, PoolP!pcVars, PoolP!history
<1>2. CASE UNCHANGED vars
  BY <1>1, <1>2 DEF vars
<1>3. ASSUME NEW t \in IoThreads, Lookup(t) PROVE UNCHANGED PoolP!vars
  BY <1>1, <1>3 DEF Lookup
<1>4. ASSUME NEW t \in IoThreads, Commit(t) PROVE PoolP!Next
  <2>1. message[t] \in Messages
    BY <1>4 DEF Commit
  <2>2. PoolP!AddTask(t, message[t], "normal_task")
    BY <1>4, <2>1, SameAddTask DEF Commit
  <2>. QED
    BY <2>1, <2>2 DEF PoolP!TaskType
<1>5. ASSUME NEW t \in IoThreads, Notify(t) PROVE PoolP!Next
  BY <1>5, SameNotifyTask DEF Notify
<1>6. ASSUME NEW t \in IoThreads, NEW k \in Connections, NEW m \in Messages, Receive(t, k, m)
      PROVE  UNCHANGED PoolP!vars
  BY <1>1, <1>6 DEF Receive
<1>7. ASSUME NEW s \in Services, StartService(s) PROVE UNCHANGED PoolP!vars
  BY <1>1, <1>7 DEF StartService
<1>8. CASE InitPool
  BY <1>8, SameInitActions DEF InitPool
<1>9. ASSUME NEW w \in Workers, Idle(w) PROVE PoolP!Next
  BY <1>9, SameIdleActions DEF Idle
<1>10. ASSUME NEW w \in Workers, TakeUp(w) PROVE PoolP!Next
  BY <1>10, SameEvaluatePredicate DEF TakeUp
<1>11. ASSUME NEW w \in Workers, Decide(w) \/ CallService(w) PROVE PoolP!Next
  BY <1>11, SameDecide, SameCallFunc DEF Decide, CallService
<1>12. ASSUME NEW w \in Workers, EndService(w) PROVE PoolP!Next
  BY <1>12, SameFinish DEF EndService
<1>. QED
  BY <1>2, <1>3, <1>4, <1>5, <1>6, <1>7, <1>8, <1>9, <1>10, <1>11, <1>12 DEF Next

LEMMA MgrStep ==
  ASSUME [Next]_vars, message \in [IoThreads -> Messages \cup {None}]
  PROVE  [MgrP!Next]_(MgrP!vars)
<1>. USE DEF MgrP!Next
<1>1. UNCHANGED mgrVars => UNCHANGED MgrP!vars
  BY DEF mgrVars, MgrP!vars
<1>2. CASE UNCHANGED vars
  BY <1>1, <1>2 DEF vars
<1>3. ASSUME NEW t \in IoThreads, Lookup(t) PROVE MgrP!Next
  BY <1>3, SameLookup DEF Lookup
<1>4. ASSUME NEW t \in IoThreads, Commit(t) PROVE MgrP!Next
  BY <1>4, SameCommit DEF Commit
<1>5. ASSUME NEW t \in IoThreads, Notify(t) PROVE UNCHANGED MgrP!vars
  BY <1>1, <1>5 DEF Notify
<1>6. ASSUME NEW t \in IoThreads, NEW k \in Connections, NEW m \in Messages, Receive(t, k, m)
      PROVE  UNCHANGED MgrP!vars
  BY <1>1, <1>6 DEF Receive
<1>7. ASSUME NEW s \in Services, StartService(s) PROVE MgrP!Next
  BY <1>7, SameStart DEF StartService
<1>8. ASSUME NEW w \in Workers, Idle(w) \/ TakeUp(w) \/ Decide(w) \/ CallService(w) \/ EndService(w)
      PROVE  UNCHANGED MgrP!vars
  BY <1>1, <1>8 DEF Idle, TakeUp, Decide, CallService, EndService
<1>9. CASE InitPool
  BY <1>1, <1>9 DEF InitPool
<1>. QED
  BY <1>2, <1>3, <1>4, <1>5, <1>6, <1>7, <1>8, <1>9 DEF Next

\* Where the handlers are.  A message is in one thread's hands, a connection's
\* strand with one thread, and add_task is entered once for each message.
HandlerInv ==
  /\ message \in [IoThreads -> Messages \cup {None}]
  /\ strand \in [Connections -> IoThreads \cup {None}]
  /\ \A t \in IoThreads : message[t] # None <=> \E k \in Connections : strand[k] = t
  /\ \A j, k \in Connections : strand[j] = strand[k] /\ Handling(j) => j = k
  /\ \A t, u \in IoThreads : message[t] = message[u] /\ message[t] # None => t = u
  /\ \A t \in IoThreads : cpc[t] = "idle" /\ message[t] # None => Undecided(message[t])
  /\ \A t \in IoThreads : cpc[t] = "notifying" =>
                             message[t] # None /\ mpc[message[t]] = "queued"

LEMMA HandlerInit == Init => HandlerInv
  BY NoneAssumption DEF Init, Pool!Init, HandlerInv, Handling

MgrTyped  == mpc \in [Messages -> {"new", "found", "queued", "rejected"}]
PoolTyped == cpc \in [IoThreads -> {"idle", "notifying"}]

LEMMA ReturnedKeeps ==
  ASSUME HandlerInv, NEW t \in IoThreads, message[t] # None, Returned(t),
         PoolTyped, cpc' = [cpc EXCEPT ![t] = "idle"],
         \A m \in Messages : m # message[t] => mpc'[m] = mpc[m]
  PROVE  HandlerInv'
<1>. USE DEF HandlerInv, Handling
<1>1. /\ message' = [message EXCEPT ![t] = None]
      /\ strand' = [k \in Connections |-> IF strand[k] = t THEN None ELSE strand[k]]
  BY DEF Returned
<1>2. /\ message' \in [IoThreads -> Messages \cup {None}]
      /\ strand' \in [Connections -> IoThreads \cup {None}]
  BY <1>1
<1>3. \A u \in IoThreads : message'[u] # None <=> \E k \in Connections : strand'[k] = u
  BY <1>1, NoneAssumption
<1>4. /\ \A j, k \in Connections : strand'[j] = strand'[k] /\ strand'[j] # None => j = k
      /\ \A u, v \in IoThreads : message'[u] = message'[v] /\ message'[u] # None => u = v
  BY <1>1
<1>5. \A u \in IoThreads : u # t => cpc'[u] = cpc[u] /\ message'[u] = message[u]
                                    /\ (message[u] # None => mpc'[message[u]] = mpc[message[u]])
  BY <1>1 DEF PoolTyped
<1>6. cpc'[t] = "idle" /\ message'[t] = None
  BY <1>1 DEF PoolTyped
<1>7. \A u \in IoThreads : cpc'[u] = "idle" /\ message'[u] # None => Undecided(message[u])' /\ message'[u] = message[u]
  BY <1>5, <1>6 DEF Undecided
<1>8. \A u \in IoThreads : cpc'[u] = "notifying" => message'[u] # None /\ mpc'[message'[u]] = "queued"
  BY <1>5, <1>6
<1>9. \A u \in IoThreads : cpc'[u] = "idle" /\ message'[u] # None => Undecided(message[u])'
  BY <1>7
<1>. QED
  BY <1>2, <1>3, <1>4, <1>8, <1>9

LEMMA HandlerStep ==
  ASSUME HandlerInv, MgrTyped, PoolTyped, [Next]_vars
  PROVE  HandlerInv'
<1>. USE DEF HandlerInv, Handling, Undecided
<1>1. CASE UNCHANGED <<message, strand, cpc, mpc>>
  BY <1>1
<1>2. CASE UNCHANGED vars
  BY <1>1, <1>2 DEF vars, handlerVars, poolVars, mgrVars
<1>3. ASSUME NEW t \in IoThreads, Lookup(t) PROVE HandlerInv'
  <2>1. /\ message[t] \in Messages /\ mpc[message[t]] = "new"
        /\ UNCHANGED cpc
    BY <1>3 DEF Lookup, Mgr!Lookup, poolVars
  <2>2. cpc[t] = "idle"
    BY <2>1 DEF PoolTyped
  <2>3. PICK p \in {"found", "rejected"} : mpc' = [mpc EXCEPT ![message[t]] = p]
    BY <1>3 DEF Lookup, Mgr!Lookup, Mgr!AfterLookup
  <2>4. CASE p = "rejected"
    <3>1. Returned(t)
      BY <1>3, <2>1, <2>3, <2>4 DEF Lookup, MgrTyped
    <3>2. cpc' = [cpc EXCEPT ![t] = "idle"]
      BY <2>1, <2>2 DEF PoolTyped
    <3>3. \A m \in Messages : m # message[t] => mpc'[m] = mpc[m]
      BY <2>1, <2>3 DEF MgrTyped
    <3>4. message[t] # None
      BY <2>1, NoneAssumption
    <3>. HIDE DEF HandlerInv
    <3>. QED
      BY <3>1, <3>2, <3>3, <3>4, ReturnedKeeps
  <2>5. CASE p = "found"
    <3>1. UNCHANGED <<message, strand, cpc>>
      BY <1>3, <2>1, <2>3, <2>5 DEF Lookup, MgrTyped
    <3>2. mpc'[message[t]] = "found" /\ \A m \in Messages : m # message[t] => mpc'[m] = mpc[m]
      BY <2>1, <2>3, <2>5 DEF MgrTyped
    <3>. QED
      BY <2>1, <2>2, <3>1, <3>2 DEF PoolTyped
  <2>. QED
    BY <2>4, <2>5
<1>4. ASSUME NEW t \in IoThreads, Commit(t) PROVE HandlerInv'
  <2>1. /\ message[t] \in Messages
        /\ mpc' = [mpc EXCEPT ![message[t]] = "queued"]
        /\ cpc' = [cpc EXCEPT ![t] = "notifying"]
        /\ UNCHANGED <<message, strand>>
    BY <1>4 DEF Commit, Mgr!Commit, Pool!AddTask
  <2>2. /\ mpc'[message[t]] = "queued" /\ cpc'[t] = "notifying"
        /\ \A m \in Messages : m # message[t] => mpc'[m] = mpc[m]
        /\ \A u \in IoThreads : u # t => cpc'[u] = cpc[u]
    BY <2>1 DEF MgrTyped, PoolTyped
  <2>3. \A u \in IoThreads : u # t /\ message[u] # None => mpc'[message[u]] = mpc[message[u]]
    BY <2>1, <2>2
  <2>4. \A u \in IoThreads : cpc'[u] = "idle" /\ message[u] # None => Undecided(message[u])'
    BY <2>1, <2>2, <2>3
  <2>5. \A u \in IoThreads : cpc'[u] = "notifying" => message[u] # None /\ mpc'[message[u]] = "queued"
    BY <2>1, <2>2, <2>3, NoneAssumption
  <2>. QED
    BY <2>1, <2>4, <2>5
<1>5. ASSUME NEW t \in IoThreads, Notify(t) PROVE HandlerInv'
  <2>1. /\ cpc[t] = "notifying" /\ cpc' = [cpc EXCEPT ![t] = "idle"]
        /\ UNCHANGED mpc
        /\ Returned(t)
    BY <1>5 DEF Notify, Pool!NotifyTask, mgrVars
  <2>. QED
    BY <2>1, ReturnedKeeps
<1>6. ASSUME NEW t \in IoThreads, NEW k \in Connections, NEW m \in Messages, Receive(t, k, m)
      PROVE  HandlerInv'
  <2>1. /\ message[t] = None /\ mpc[m] = "new" /\ strand[k] = None
        /\ \A u \in IoThreads : message[u] # m
        /\ message' = [message EXCEPT ![t] = m]
        /\ strand' = [strand EXCEPT ![k] = t]
        /\ UNCHANGED <<cpc, mpc>>
    BY <1>6 DEF Receive, mgrVars, poolVars
  <2>2. \A j \in Connections : strand[j] # t
    BY <2>1
  <2>3. m # None /\ \A u \in IoThreads : u # None
    BY NoneAssumption
  <2>4. /\ message' \in [IoThreads -> Messages \cup {None}]
        /\ strand' \in [Connections -> IoThreads \cup {None}]
    BY <2>1
  <2>5. ASSUME NEW u \in IoThreads
        PROVE  message'[u] # None <=> \E j \in Connections : strand'[j] = u
    <3>1. CASE u = t
      BY <2>1, <2>3, <3>1
    <3>2. CASE u # t
      <4>1. message'[u] = message[u]
        BY <2>1, <3>2
      <4>2. \A j \in Connections : strand'[j] = u <=> strand[j] = u
        BY <2>1, <2>3, <3>2
      <4>. QED
        BY <4>1, <4>2
    <3>. QED
      BY <3>1, <3>2
  <2>6. /\ \A i, j \in Connections : strand'[i] = strand'[j] /\ strand'[i] # None => i = j
        /\ \A u, v \in IoThreads : message'[u] = message'[v] /\ message'[u] # None => u = v
    BY <2>1, <2>2, <2>3
  <2>7. /\ \A u \in IoThreads : cpc'[u] = "idle" /\ message'[u] # None =>
                                   message'[u] # None /\ mpc'[message'[u]] \in {"new", "found"}
        /\ \A u \in IoThreads : cpc'[u] = "notifying" => message'[u] # None /\ mpc'[message'[u]] = "queued"
    BY <2>1, <2>3
  <2>. QED
    BY <2>4, <2>5, <2>6, <2>7
<1>7. ASSUME NEW s \in Services, StartService(s) PROVE HandlerInv'
  BY <1>1, <1>7 DEF StartService, poolVars, handlerVars, Mgr!StartSearch, Mgr!StartInsert, Mgr!StartAssign
<1>8. CASE InitPool
  BY <1>1, <1>8 DEF InitPool, handlerVars, mgrVars, Pool!FinishInit, Pool!SpawnWorker, Pool!pcVars
<1>9. ASSUME NEW w \in Workers, Idle(w) PROVE HandlerInv'
  BY <1>1, <1>9 DEF Idle, handlerVars, mgrVars, Pool!Enter, Pool!Park, Pool!SpuriousWakeup
<1>10. ASSUME NEW w \in Workers, TakeUp(w) PROVE HandlerInv'
  BY <1>1, <1>10 DEF TakeUp, handlerVars, mgrVars, Pool!EvaluatePredicate
<1>11. ASSUME NEW w \in Workers, Decide(w) \/ CallService(w) PROVE HandlerInv'
  BY <1>1, <1>11 DEF Decide, CallService, handlerVars, mgrVars, Pool!Decide, Pool!CallFunc
<1>12. ASSUME NEW w \in Workers, EndService(w) PROVE HandlerInv'
  BY <1>1, <1>12 DEF EndService, handlerVars, mgrVars, Pool!Finish
<1>. QED
  BY <1>2, <1>3, <1>4, <1>5, <1>6, <1>7, <1>8, <1>9, <1>10, <1>11, <1>12 DEF Next

Typed == HandlerInv /\ PoolP!TypeInv /\ MgrP!TypeOK

LEMMA TypedInit == Init => Typed
<1>. SUFFICES ASSUME Init PROVE Typed
  OBVIOUS
<1>1. PoolP!Init /\ MgrP!Init
  BY SamePoolInit, SameMgrInit DEF Init
<1>. QED
  BY <1>1, HandlerInit, PoolAssumptions, PoolP!TypeInvInit, MgrAssumptions, MgrP!TypeInit DEF Typed

LEMMA TypedStep ==
  ASSUME Typed, [Next]_vars
  PROVE  Typed' /\ [PoolP!Next]_(PoolP!vars) /\ [MgrP!Next]_(MgrP!vars)
<1>1. [PoolP!Next]_(PoolP!vars) /\ [MgrP!Next]_(MgrP!vars)
  BY PoolStep, MgrStep DEF Typed, HandlerInv
<1>2. PoolP!TypeInv'
  BY <1>1, PoolAssumptions, PoolP!TypeInvStep DEF Typed
<1>3. MgrP!TypeOK'
  BY <1>1, MgrAssumptions, MgrP!TypeStep DEF Typed
<1>4. MgrTyped /\ PoolTyped
  BY DEF Typed, MgrTyped, PoolTyped, MgrP!TypeOK, PoolP!TypeInv, PoolP!TypeOK
<1>5. HandlerInv'
  BY <1>4, HandlerStep DEF Typed
<1>. QED
  BY <1>1, <1>2, <1>3, <1>5 DEF Typed

LEMMA AlwaysTyped == Spec => []Typed
  BY TypedInit, TypedStep, PTL DEF Spec

\* Every behaviour of the pipeline is a behaviour of ThreadPool, so that all
\* that is proved of the pool holds of it here: no two io threads and workers
\* together do anything that the pool's own model leaves out.
THEOREM PipelineUsesPool == Spec => PoolP!Spec
<1>1. Init => PoolP!Init
  BY SamePoolInit DEF Init
<1>2. Typed /\ [Next]_vars => [PoolP!Next]_(PoolP!vars)
  BY TypedStep
<1>. QED
  BY <1>1, <1>2, AlwaysTyped, PTL DEF Spec, PoolP!Spec

\* Every behaviour of the pipeline is one of ServiceMgr.
THEOREM PipelineUsesRegistry == Spec => MgrP!Spec
<1>1. Init => MgrP!Init
  BY SameMgrInit DEF Init
<1>2. Typed /\ [Next]_vars => [MgrP!Next]_(MgrP!vars)
  BY TypedStep
<1>. QED
  BY <1>1, <1>2, AlwaysTyped, PTL DEF Spec, MgrP!Spec

LEMMA AlwaysPoolInv == Spec => []PoolP!PoolInv
  BY PipelineUsesPool, PoolAssumptions, PoolP!PoolInvariant

-----------------------------------------------------------------------------
(* The messages on their way.  With normal tasks only, the messages        *)
(* accepted are those taken up and those queued, in this order; and a      *)
(* message in a worker's hands was taken up.                               *)

NormalOnly ==
  /\ ~m_exit
  /\ queue["timer_task"] = <<>> /\ queue["highest_priority_task"] = <<>>

InOrder ==
  /\ committed \in Seq(Messages) /\ taken \in Seq(Messages)
  /\ committed = taken \o queue["normal_task"]

HandsTaken ==
  \A w \in Workers : func[w] # None => \E i \in 1 .. Len(taken) : taken[i] = func[w]

FlowInv == NormalOnly /\ InOrder /\ HandsTaken

\* What the invariants of the pool say that is needed here.
PoolFacts ==
  /\ func \in [Workers -> Messages \cup {None}]
  /\ queue \in [PoolP!TaskType -> Seq(Messages)]
  /\ \A w \in Workers : wpc[w] = "locking" => func[w] = None

LEMMA PoolFactsHold == PoolP!PoolInv => PoolFacts
  BY DEF PoolP!PoolInv, PoolP!TypeInv, PoolP!TypeOK, PoolP!FuncInv, PoolFacts

LEMMA AddBack ==
  ASSUME NEW p \in Seq(Messages), NEW q \in Seq(Messages), NEW x \in Messages
  PROVE  Append(p \o q, x) = p \o Append(q, x)
<1>1. <<x>> \in Seq(Messages) /\ p \o q \in Seq(Messages)
  OBVIOUS
<1>2. ASSUME NEW r \in Seq(Messages) PROVE Append(r, x) = r \o <<x>>
  BY AppendIsConcat, Zenon
<1>3. Append(p \o q, x) = (p \o q) \o <<x>>
  BY <1>1, <1>2, Zenon
<1>4. (p \o q) \o <<x>> = p \o (q \o <<x>>)
  BY <1>1, ConcatAssociative, SMT
<1>. QED
  BY <1>2, <1>3, <1>4, Zenon

LEMMA TakeFront ==
  ASSUME NEW S, NEW p \in Seq(S), NEW q \in Seq(S), q # <<>>
  PROVE  /\ Append(p, Head(q)) \in Seq(S)
         /\ p \o q = Append(p, Head(q)) \o Tail(q)
         /\ Len(p) < Len(p \o q)
         /\ (p \o q)[Len(p) + 1] = Head(q)
OBVIOUS

LEMMA FlowKept ==
  ASSUME FlowInv, PoolFacts, UNCHANGED <<m_exit, queue, committed, taken>>,
         \A w \in Workers : func'[w] # None => func'[w] = func[w]
  PROVE  FlowInv'
<1>1. NormalOnly' /\ InOrder'
  BY DEF FlowInv, NormalOnly, InOrder
<1>2. HandsTaken'
  BY DEF FlowInv, HandsTaken
<1>. QED
  BY <1>1, <1>2 DEF FlowInv

LEMMA FlowInit == Init => FlowInv
<1>. SUFFICES ASSUME Init PROVE FlowInv
  OBVIOUS
<1>1. NormalOnly
  BY DEF Init, Pool!Init, Pool!TaskType, NormalOnly
<1>2. queue["normal_task"] = <<>> /\ \A w \in Workers : func[w] = None
  BY DEF Init, Pool!Init, Pool!TaskType
<1>3. InOrder /\ HandsTaken
  BY <1>2 DEF Init, InOrder, HandsTaken
<1>. QED
  BY <1>1, <1>3 DEF FlowInv

LEMMA FlowCommit ==
  ASSUME FlowInv, PoolFacts, HandlerInv, NEW t \in IoThreads, Commit(t)
  PROVE  FlowInv'
<1>. DEFINE m == message[t]
<1>1. m \in Messages
  BY DEF Commit, HandlerInv
<1>2. /\ UNCHANGED <<m_exit, func, taken>>
      /\ queue' = [queue EXCEPT !["normal_task"] = Append(@, m)]
      /\ committed' = Append(committed, m)
  BY DEF Commit, Pool!AddTask, Pool!Enqueue
<1>. HIDE DEF m
<1>3. NormalOnly'
  BY <1>2 DEF FlowInv, NormalOnly, PoolFacts, PoolP!TaskType
<1>4. queue'["normal_task"] = Append(queue["normal_task"], m) /\ queue["normal_task"] \in Seq(Messages)
  BY <1>2 DEF PoolFacts, PoolP!TaskType
<1>5. InOrder'
  <2>. DEFINE q == queue["normal_task"]
  <2>1. /\ q \in Seq(Messages) /\ taken \in Seq(Messages)
        /\ committed = taken \o q
    BY <1>4 DEF FlowInv, InOrder
  <2>. HIDE DEF q
  <2>2. Append(committed, m) = taken \o Append(q, m)
    <3>1. Append(taken \o q, m) = taken \o Append(q, m)
      BY <1>1, <2>1, AddBack, Zenon
    <3>. QED
      BY <2>1, <3>1, Zenon
  <2>3. committed' = taken' \o Append(q, m)
    BY <1>2, <2>2
  <2>4. queue'["normal_task"] = Append(q, m)
    BY <1>4 DEF q
  <2>5. committed' = taken' \o queue'["normal_task"]
    BY <2>3, <2>4
  <2>. QED
    <3>1. committed \in Seq(Messages)
      BY DEF FlowInv, InOrder
    <3>2. committed' \in Seq(Messages)
      BY <1>1, <1>2, <3>1
    <3>3. taken' \in Seq(Messages)
      BY <1>2, <2>1
    <3>. QED
      BY <2>5, <3>2, <3>3, Zenon DEF InOrder
<1>6. HandsTaken'
  BY <1>2 DEF FlowInv, HandsTaken
<1>. QED
  BY <1>3, <1>5, <1>6 DEF FlowInv

\* A worker that looks for a message takes the one that was accepted first among
\* those not taken up, or none.
LEMMA TakeUpTakes ==
  ASSUME FlowInv, PoolFacts, NEW w \in Workers, TakeUp(w)
  PROVE  \/ UNCHANGED <<queue, func, taken>>
         \/ /\ queue["normal_task"] # <<>>
            /\ queue["normal_task"] \in Seq(Messages)
            /\ Head(queue["normal_task"]) \in Messages
            /\ func' = [func EXCEPT ![w] = Head(queue["normal_task"])]
            /\ queue' = [queue EXCEPT !["normal_task"] = Tail(@)]
            /\ taken' = Append(taken, Head(queue["normal_task"]))
<1>. DEFINE q == queue["normal_task"]
<1>1. func[w] = None
  BY DEF TakeUp, Pool!EvaluatePredicate, PoolFacts
<1>2. CASE Pool!GetTask(w)
  <2>1. PICK tt \in Pool!TaskType : Pool!IsNext(tt) /\ Pool!Pop(w, tt)
    BY <1>2 DEF Pool!GetTask
  <2>2. tt = "normal_task" /\ q # <<>>
    BY <2>1 DEF FlowInv, NormalOnly, Pool!TaskType, Pool!IsNext
  <2>3. /\ func' = [func EXCEPT ![w] = Head(q)]
        /\ queue' = [queue EXCEPT !["normal_task"] = Tail(@)]
    BY <2>1, <2>2 DEF Pool!Pop
  <2>4. q \in Seq(Messages) /\ Head(q) \in Messages
    BY <2>2 DEF PoolFacts, PoolP!TaskType
  <2>5. func'[w] = Head(q) /\ func'[w] # None
    BY <2>3, <2>4, NoneAssumption DEF PoolFacts
  <2>6. taken' = Append(taken, Head(q))
    BY <2>5 DEF TakeUp
  <2>. QED
    BY <2>2, <2>3, <2>4, <2>6
<1>3. CASE UNCHANGED <<queue, func>>
  BY <1>1, <1>3 DEF TakeUp
<1>. QED
  BY <1>2, <1>3 DEF TakeUp, Pool!EvaluatePredicate

LEMMA FlowTakeUp ==
  ASSUME FlowInv, PoolFacts, NEW w \in Workers, TakeUp(w)
  PROVE  FlowInv'
<1>. DEFINE q == queue["normal_task"]
<1>1. UNCHANGED <<m_exit, committed>>
  BY DEF TakeUp, Pool!EvaluatePredicate, handlerVars
<1>2. CASE UNCHANGED <<queue, func, taken>>
  BY <1>1, <1>2, FlowKept
<1>3. CASE /\ q # <<>> /\ q \in Seq(Messages) /\ Head(q) \in Messages
           /\ func' = [func EXCEPT ![w] = Head(q)]
           /\ queue' = [queue EXCEPT !["normal_task"] = Tail(@)]
           /\ taken' = Append(taken, Head(q))
  <2>1. queue'["normal_task"] = Tail(q) /\ NormalOnly'
    BY <1>1, <1>3 DEF FlowInv, NormalOnly, PoolFacts, PoolP!TaskType
  <2>2. InOrder'
    <3>1. taken \in Seq(Messages) /\ committed = taken \o q
      BY DEF FlowInv, InOrder
    <3>2. taken' \in Seq(Messages)
      BY <1>3, <3>1
    <3>3. committed = Append(taken, Head(q)) \o Tail(q)
      <4>. HIDE DEF q
      <4>. QED
        BY <1>3, <3>1, TakeFront
    <3>4. committed' = taken' \o queue'["normal_task"]
      BY <1>1, <1>3, <2>1, <3>3
    <3>. QED
      BY <1>1, <3>2, <3>4 DEF InOrder, FlowInv
  <2>3. taken \in Seq(Messages) /\ Len(taken) \in Nat
    BY DEF FlowInv, InOrder
  <2>4. /\ Len(taken') = Len(taken) + 1
        /\ taken'[Len(taken) + 1] = Head(q)
        /\ \A i \in 1 .. Len(taken) : taken'[i] = taken[i]
    BY <1>3, <2>3
  <2>5. ASSUME NEW v \in Workers, func'[v] # None
        PROVE  \E i \in 1 .. Len(taken') : taken'[i] = func'[v]
    <3>1. CASE v = w
      BY <1>3, <2>3, <2>4, <3>1 DEF PoolFacts
    <3>2. CASE v # w
      <4>1. func'[v] = func[v]
        BY <1>3, <3>2 DEF PoolFacts
      <4>2. PICK i \in 1 .. Len(taken) : taken[i] = func[v]
        BY <2>5, <4>1 DEF FlowInv, HandsTaken
      <4>. QED
        BY <2>3, <2>4, <4>1, <4>2
    <3>. QED
      BY <3>1, <3>2
  <2>. QED
    BY <2>1, <2>2, <2>5 DEF FlowInv, HandsTaken
<1>. QED
  BY <1>2, <1>3, TakeUpTakes

LEMMA FlowStep ==
  ASSUME FlowInv, HandlerInv, PoolP!PoolInv, [Next]_vars
  PROVE  FlowInv'
<1>. USE PoolFactsHold
<1>1. ASSUME UNCHANGED <<m_exit, queue, func, committed, taken>> PROVE FlowInv'
  BY <1>1, FlowKept
<1>2. CASE UNCHANGED vars
  BY <1>1, <1>2 DEF vars, poolVars, handlerVars
<1>3. ASSUME NEW t \in IoThreads, Lookup(t) PROVE FlowInv'
  BY <1>1, <1>3 DEF Lookup, poolVars
<1>4. ASSUME NEW t \in IoThreads, Commit(t) PROVE FlowInv'
  BY <1>4, FlowCommit
<1>5. ASSUME NEW t \in IoThreads, Notify(t) PROVE FlowInv'
  BY <1>1, <1>5 DEF Notify, Pool!NotifyTask, Pool!poolVars
<1>6. ASSUME NEW t \in IoThreads, NEW k \in Connections, NEW m \in Messages, Receive(t, k, m)
      PROVE  FlowInv'
  BY <1>1, <1>6 DEF Receive, poolVars
<1>7. ASSUME NEW s \in Services, StartService(s) PROVE FlowInv'
  BY <1>1, <1>7 DEF StartService, poolVars, handlerVars
<1>8. CASE InitPool
  BY <1>1, <1>8 DEF InitPool, handlerVars, Pool!FinishInit, Pool!SpawnWorker, Pool!poolVars, Pool!pcVars
<1>9. ASSUME NEW w \in Workers, Idle(w) PROVE FlowInv'
  BY <1>1, <1>9 DEF Idle, handlerVars, Pool!Enter, Pool!Park, Pool!SpuriousWakeup, Pool!poolVars
<1>10. ASSUME NEW w \in Workers, TakeUp(w) PROVE FlowInv'
  BY <1>10, FlowTakeUp
<1>11. ASSUME NEW w \in Workers, Decide(w) PROVE FlowInv'
  <2>1. UNCHANGED <<m_exit, queue, committed, taken>> /\ ~m_exit
    BY <1>11 DEF Decide, Pool!Decide, handlerVars, FlowInv, NormalOnly
  <2>2. UNCHANGED func
    BY <1>11, <2>1 DEF Decide, Pool!Decide, Pool!Leave, Pool!Start, Pool!Count
  <2>. QED
    BY <1>1, <2>1, <2>2
<1>12. ASSUME NEW w \in Workers, CallService(w) PROVE FlowInv'
  BY <1>1, <1>12 DEF CallService, handlerVars, Pool!CallFunc, Pool!poolVars
<1>13. ASSUME NEW w \in Workers, EndService(w) PROVE FlowInv'
  <2>1. /\ UNCHANGED <<m_exit, queue, committed, taken>>
        /\ func' = [func EXCEPT ![w] = None]
    BY <1>13 DEF EndService, handlerVars, Pool!Finish
  <2>2. \A v \in Workers : func'[v] # None => func'[v] = func[v]
    BY <2>1 DEF PoolFacts
  <2>. QED
    BY <2>1, <2>2, FlowKept
<1>. QED
  BY <1>2, <1>3, <1>4, <1>5, <1>6, <1>7, <1>8, <1>9, <1>10, <1>11, <1>12, <1>13 DEF Next

LEMMA AlwaysFlowInv == Spec => []FlowInv
<1>1. Typed => HandlerInv
  BY DEF Typed
<1>. QED
  BY <1>1, FlowInit, FlowStep, AlwaysTyped, AlwaysPoolInv, PTL DEF Spec

-----------------------------------------------------------------------------
(* Type correctness.                                                       *)

\* The registry, the pool, the threads' messages and the strands keep their
\* types, and a thread has a message exactly while it has a strand.
THEOREM PipelineTypes == Spec => []TypeOK
<1>1. MgrP!TypeOK => Mgr!TypeOK
  BY DEF MgrP!TypeOK, Mgr!TypeOK, MgrP!Keys, Mgr!Keys
<1>2. PoolP!TypeOK => Pool!TypeOK
  BY SameNumCores DEF PoolP!TypeOK, Pool!TypeOK, PoolP!TaskType, Pool!TaskType, PoolP!NoType, Pool!NoType
<1>3. Typed /\ FlowInv => TypeOK
  BY <1>1, <1>2 DEF Typed, PoolP!TypeInv, HandlerInv, FlowInv, InOrder, TypeOK
<1>. QED
  BY <1>3, AlwaysTyped, AlwaysFlowInv, PTL

-----------------------------------------------------------------------------
(* The refinement.                                                         *)

Arrived == {m \in Messages : mpc[m] # "new" \/ \E t \in IoThreads : message[t] = m}

Current == [k \in Connections |->
              IF Handling(k) /\ Undecided(message[strand[k]]) THEN message[strand[k]] ELSE None]

LEMMA ServiceStutters ==
  ASSUME UNCHANGED <<Arrived, Current, committed, taken, executed, finished>>
  PROVE  UNCHANGED Service!service
BY DEF Service!service, Arrived, Current

\* What the library and the workers do leaves the messages in hand alone.
LEMMA HandsKept ==
  ASSUME UNCHANGED <<message, strand, mpc>>
  PROVE  UNCHANGED <<Arrived, Current>>
BY DEF Arrived, Current, Handling, Undecided

\* A step about the message of one thread leaves the other connections alone.
LEMMA OthersKept ==
  ASSUME HandlerInv, NEW t \in IoThreads, NEW j \in Connections,
         \A u \in IoThreads \ {t} : message'[u] = message[u],
         \A m \in Messages : m # message[t] => mpc'[m] = mpc[m],
         strand[j] # t, strand'[j] = strand[j]
  PROVE  Current'[j] = Current[j]
<1>1. CASE strand[j] = None
  BY <1>1 DEF Current, Handling
<1>2. CASE strand[j] # None
  <2>1. strand[j] \in IoThreads \ {t} /\ message[strand[j]] \in Messages
    BY <1>2 DEF HandlerInv
  <2>2. message[strand[j]] # message[t]
    BY <2>1, NoneAssumption DEF HandlerInv
  <2>. QED
    BY <2>1, <2>2 DEF Current, Handling, Undecided
<1>. QED
  BY <1>1, <1>2

LEMMA LookupImplements ==
  ASSUME HandlerInv, MgrTyped, NEW t \in IoThreads, Lookup(t)
  PROVE  (\E k \in Connections : Service!Reject(k)) \/ UNCHANGED Service!service
<1>. DEFINE m == message[t]
<1>1. /\ m \in Messages /\ m # None /\ mpc[m] = "new"
      /\ UNCHANGED <<committed, taken, executed, finished>>
  BY NoneAssumption DEF Lookup, Mgr!Lookup, HandlerInv, poolVars
<1>2. PICK p \in {"found", "rejected"} : mpc' = [mpc EXCEPT ![m] = p]
  BY DEF Lookup, Mgr!Lookup, Mgr!AfterLookup
<1>3. /\ mpc'[m] = p
      /\ \A x \in Messages : x # m => mpc'[x] = mpc[x]
  BY <1>1, <1>2 DEF MgrTyped
<1>4. PICK k \in Connections : strand[k] = t
  BY <1>1 DEF HandlerInv
<1>5. k = k /\ \A j \in Connections : j # k => strand[j] # t
  BY <1>4, NoneAssumption DEF HandlerInv, Handling
<1>6. Current[k] = m /\ Current[k] # None
  BY <1>1, <1>4, NoneAssumption DEF Current, Handling, Undecided
<1>7. CASE p = "found"
  <2>1. UNCHANGED <<message, strand>>
    BY <1>3, <1>7 DEF Lookup
  <2>2. Arrived' = Arrived
    BY <1>1, <1>3, <1>7, <2>1 DEF Arrived
  <2>3. \A j \in Connections : Current'[j] = Current[j]
    <3>1. Current'[k] = Current[k]
      BY <1>1, <1>3, <1>4, <1>7, <2>1 DEF Current, Handling, Undecided
    <3>2. ASSUME NEW j \in Connections, j # k PROVE Current'[j] = Current[j]
      BY <1>3, <1>5, <2>1, <3>2, OthersKept
    <3>. QED
      BY <3>1, <3>2
  <2>4. Current' = Current
    BY <2>3 DEF Current
  <2>. QED
    BY <1>1, <2>2, <2>4, ServiceStutters
<1>8. CASE p = "rejected"
  <2>1. /\ message' = [message EXCEPT ![t] = None]
        /\ strand' = [j \in Connections |-> IF strand[j] = t THEN None ELSE strand[j]]
    BY <1>3, <1>8 DEF Lookup, Returned
  <2>2. Arrived' = Arrived
    <3>1. \A u \in IoThreads : u # t => message'[u] = message[u]
      BY <2>1 DEF HandlerInv
    <3>2. message'[t] = None
      BY <2>1 DEF HandlerInv
    <3>. QED
      BY <1>1, <1>3, <1>8, <3>1, <3>2, NoneAssumption DEF Arrived
  <2>3. Current'[k] = None
    BY <1>4, <2>1 DEF Current, Handling
  <2>4. ASSUME NEW j \in Connections, j # k PROVE Current'[j] = Current[j]
    BY <1>3, <1>5, <2>1, <2>4, OthersKept DEF HandlerInv
  <2>5. Current' = [Current EXCEPT ![k] = None]
    BY <2>3, <2>4 DEF Current
  <2>6. Service!Reject(k)
    BY <1>1, <1>6, <2>2, <2>5 DEF Service!Reject, Arrived, Current
  <2>. QED
    BY <2>6
<1>. QED
  BY <1>7, <1>8

LEMMA CommitImplements ==
  ASSUME HandlerInv, MgrTyped, NEW t \in IoThreads, Commit(t)
  PROVE  \E k \in Connections : Service!Accept(k)
<1>. DEFINE m == message[t]
<1>1. /\ m \in Messages /\ m # None /\ mpc[m] = "found"
      /\ mpc' = [mpc EXCEPT ![m] = "queued"]
      /\ committed' = Append(committed, m)
      /\ UNCHANGED <<message, strand, taken, executed, finished>>
  BY NoneAssumption DEF Commit, Mgr!Commit, Pool!AddTask, HandlerInv
<1>2. /\ mpc'[m] = "queued"
      /\ \A x \in Messages : x # m => mpc'[x] = mpc[x]
  BY <1>1 DEF MgrTyped
<1>3. PICK k \in Connections : strand[k] = t
  BY <1>1 DEF HandlerInv
<1>4. \A j \in Connections : j # k => strand[j] # t
  BY <1>3, NoneAssumption DEF HandlerInv, Handling
<1>5. Current[k] = m /\ Current[k] # None
  BY <1>1, <1>3, NoneAssumption DEF Current, Handling, Undecided
<1>6. Arrived' = Arrived
  BY <1>1, <1>2 DEF Arrived
<1>7. Current'[k] = None
  BY <1>1, <1>2, <1>3 DEF Current, Undecided
<1>8. ASSUME NEW j \in Connections, j # k PROVE Current'[j] = Current[j]
  BY <1>1, <1>2, <1>4, <1>8, OthersKept
<1>9. Current' = [Current EXCEPT ![k] = None]
  BY <1>7, <1>8 DEF Current
<1>10. Service!Accept(k)
  BY <1>1, <1>5, <1>6, <1>9 DEF Service!Accept, Arrived, Current
<1>. QED
  BY <1>10

LEMMA NotifyImplements ==
  ASSUME HandlerInv, NEW t \in IoThreads, Notify(t)
  PROVE  UNCHANGED Service!service
<1>1. /\ cpc[t] = "notifying"
      /\ message' = [message EXCEPT ![t] = None]
      /\ strand' = [j \in Connections |-> IF strand[j] = t THEN None ELSE strand[j]]
      /\ UNCHANGED <<mpc, committed, taken, executed, finished>>
  BY DEF Notify, Pool!NotifyTask, Returned, mgrVars, Pool!history
<1>2. message[t] # None /\ mpc[message[t]] = "queued"
  BY <1>1 DEF HandlerInv
<1>3. Arrived' = Arrived
  <2>1. message'[t] = None /\ \A u \in IoThreads : u # t => message'[u] = message[u]
    BY <1>1 DEF HandlerInv
  <2>. QED
    BY <1>1, <1>2, <2>1, NoneAssumption DEF Arrived
<1>4. ASSUME NEW j \in Connections PROVE Current'[j] = Current[j]
  <2>1. CASE strand[j] = t
    BY <1>1, <1>2, <2>1 DEF Current, Handling, Undecided
  <2>2. CASE strand[j] # t
    BY <1>1, <2>2, OthersKept DEF HandlerInv
  <2>. QED
    BY <2>1, <2>2
<1>5. Current' = Current
  BY <1>4 DEF Current
<1>. QED
  BY <1>1, <1>3, <1>5, ServiceStutters

LEMMA ReceiveImplements ==
  ASSUME HandlerInv, NEW t \in IoThreads, NEW k \in Connections, NEW m \in Messages, Receive(t, k, m)
  PROVE  Service!Arrive(k, m)
<1>1. /\ message[t] = None /\ mpc[m] = "new" /\ strand[k] = None
      /\ \A u \in IoThreads : message[u] # m
      /\ message' = [message EXCEPT ![t] = m]
      /\ strand' = [strand EXCEPT ![k] = t]
      /\ UNCHANGED <<mpc, committed, taken, executed, finished>>
  BY DEF Receive, mgrVars, poolVars, Handling
<1>2. m \notin Arrived /\ Current[k] = None
  BY <1>1 DEF Arrived, Current, Handling
<1>3. message'[t] = m /\ \A u \in IoThreads : u # t => message'[u] = message[u]
  BY <1>1 DEF HandlerInv
<1>4. Arrived' = Arrived \cup {m}
  BY <1>1, <1>3, NoneAssumption DEF Arrived
<1>5. Current'[k] = m
  <2>1. strand'[k] = t /\ m # None /\ t # None
    BY <1>1, NoneAssumption DEF HandlerInv
  <2>. QED
    BY <1>1, <1>3, <2>1 DEF Current, Handling, Undecided
<1>6. ASSUME NEW j \in Connections, j # k PROVE Current'[j] = Current[j]
  <2>1. strand'[j] = strand[j] /\ strand[j] # t
    BY <1>1, <1>6, NoneAssumption DEF HandlerInv
  <2>. QED
    BY <1>1, <1>3, <2>1, OthersKept
<1>7. Current' = [Current EXCEPT ![k] = m]
  BY <1>5, <1>6 DEF Current
<1>. QED
  BY <1>1, <1>2, <1>4, <1>7 DEF Service!Arrive, Arrived, Current

LEMMA TakeUpImplements ==
  ASSUME FlowInv, PoolP!PoolInv, NEW w \in Workers, TakeUp(w)
  PROVE  Service!TakeNext \/ UNCHANGED Service!service
<1>. DEFINE q == queue["normal_task"]
<1>1. UNCHANGED <<committed, executed, finished>> /\ UNCHANGED <<Arrived, Current>>
  BY HandsKept DEF TakeUp, mgrVars, handlerVars, Pool!EvaluatePredicate, Pool!history
<1>2. CASE UNCHANGED taken
  BY <1>1, <1>2, ServiceStutters
<1>3. CASE q # <<>> /\ q \in Seq(Messages) /\ taken' = Append(taken, Head(q))
  <2>1. taken \in Seq(Messages) /\ committed = taken \o q
    BY DEF FlowInv, InOrder
  <2>2. Len(taken) < Len(committed) /\ committed[Len(taken) + 1] = Head(q)
    BY <1>3, <2>1, TakeFront
  <2>. QED
    BY <1>1, <1>3, <2>2 DEF Service!TakeNext, Arrived, Current
<1>. QED
  BY <1>2, <1>3, TakeUpTakes, PoolFactsHold

LEMMA CallImplements ==
  ASSUME FlowInv, PoolP!PoolInv, NEW w \in Workers, CallService(w)
  PROVE  \E i \in DOMAIN taken : Service!Call(i)
<1>1. PoolP!CallFunc(w)
  BY SameCallFunc DEF CallService
<1>2. func[w] \in PoolP!Held
  BY <1>1, PoolAssumptions, PoolP!PlaceCall DEF PoolP!PoolInv
<1>3. func[w] \notin executed /\ func[w] # None
  BY <1>2 DEF PoolP!PoolInv, PoolP!PlaceInv, PoolP!EachTaskInOnePlace, PoolP!Held
<1>4. PICK i \in 1 .. Len(taken) : taken[i] = func[w]
  BY <1>3 DEF FlowInv, HandsTaken
<1>5. i \in DOMAIN taken
  BY <1>4 DEF FlowInv, InOrder
<1>6. UNCHANGED <<Arrived, Current>>
  BY HandsKept DEF CallService, mgrVars, handlerVars
<1>7. executed' = executed \cup {func[w]} /\ UNCHANGED <<committed, taken, finished>>
  BY DEF CallService, Pool!CallFunc, handlerVars
<1>8. Service!Call(i)
  BY <1>3, <1>4, <1>6, <1>7 DEF Service!Call, Arrived, Current
<1>. QED
  BY <1>5, <1>8

LEMMA EndImplements ==
  ASSUME PoolP!PoolInv, NEW w \in Workers, EndService(w)
  PROVE  \E m \in executed : Service!End(m)
<1>1. PoolP!Finish(w)
  BY SameFinish DEF EndService
<1>2. func[w] \in executed \ finished
  BY <1>1, PoolAssumptions, PoolP!PlaceFinish DEF PoolP!PoolInv
<1>3. UNCHANGED <<Arrived, Current>>
  BY HandsKept DEF EndService, mgrVars, handlerVars
<1>4. finished' = finished \cup {func[w]} /\ UNCHANGED <<committed, taken, executed>>
  BY DEF EndService, Pool!Finish, handlerVars
<1>5. Service!End(func[w])
  BY <1>2, <1>3, <1>4 DEF Service!End, Arrived, Current
<1>. QED
  BY <1>2, <1>5

LEMMA ServiceStep ==
  ASSUME Typed, FlowInv, PoolP!PoolInv, [Next]_vars
  PROVE  [Service!ServiceNext]_(Service!service)
<1>. USE DEF Service!ServiceNext
<1>1. HandlerInv /\ MgrTyped
  BY DEF Typed, MgrTyped, MgrP!TypeOK
<1>2. ASSUME UNCHANGED <<message, strand, mpc, committed, taken, executed, finished>> PROVE UNCHANGED Service!service
  BY <1>2, HandsKept, ServiceStutters
<1>3. CASE UNCHANGED vars
  BY <1>2, <1>3 DEF vars, mgrVars, poolVars, handlerVars
<1>4. ASSUME NEW t \in IoThreads, Lookup(t) PROVE [Service!ServiceNext]_(Service!service)
  BY <1>1, <1>4, LookupImplements
<1>5. ASSUME NEW t \in IoThreads, Commit(t) PROVE Service!ServiceNext
  BY <1>1, <1>5, CommitImplements
<1>6. ASSUME NEW t \in IoThreads, Notify(t) PROVE UNCHANGED Service!service
  BY <1>1, <1>6, NotifyImplements
<1>7. ASSUME NEW t \in IoThreads, NEW k \in Connections, NEW m \in Messages, Receive(t, k, m)
      PROVE  Service!ServiceNext
  BY <1>1, <1>7, ReceiveImplements
<1>8. ASSUME NEW s \in Services, StartService(s) PROVE UNCHANGED Service!service
  BY <1>2, <1>8 DEF StartService, poolVars, handlerVars, Mgr!StartSearch, Mgr!StartInsert, Mgr!StartAssign
<1>9. CASE InitPool
  BY <1>2, <1>9 DEF InitPool, mgrVars, handlerVars, Pool!FinishInit, Pool!SpawnWorker, Pool!history
<1>10. ASSUME NEW w \in Workers, Idle(w) \/ Decide(w) PROVE UNCHANGED Service!service
  BY <1>2, <1>10 DEF Idle, Decide, mgrVars, handlerVars, Pool!Enter, Pool!Park, Pool!SpuriousWakeup,
                     Pool!Decide, Pool!history
<1>11. ASSUME NEW w \in Workers, CallService(w) PROVE Service!ServiceNext
  BY <1>11, CallImplements
<1>12. ASSUME NEW w \in Workers, EndService(w) PROVE Service!ServiceNext
  BY <1>12, EndImplements
<1>13. ASSUME NEW w \in Workers, TakeUp(w) PROVE [Service!ServiceNext]_(Service!service)
  BY <1>13, TakeUpImplements
<1>. QED
  BY <1>3, <1>4, <1>5, <1>6, <1>7, <1>8, <1>9, <1>10, <1>11, <1>12, <1>13 DEF Next

LEMMA ServiceStart == Init => Service!ServiceInit
<1>. SUFFICES ASSUME Init PROVE Service!ServiceInit
  OBVIOUS
<1>1. Arrived = {}
  BY NoneAssumption DEF Init, Mgr!Init, Arrived
<1>2. Current = [k \in Connections |-> None]
  BY DEF Init, Current, Handling
<1>3. committed = <<>> /\ taken = <<>> /\ executed = {} /\ finished = {}
  BY DEF Init, Pool!Init
<1>. QED
  BY <1>1, <1>2, <1>3 DEF Service!ServiceInit, Arrived, Current

\* The messages of one connection are accepted in the order in which they came,
\* accepted messages are taken up in that order, and doService is called at most
\* once for each, whatever io threads and workers there are
\* (service_mgr.cpp:34-43 with thread_pool.h:66-149).
THEOREM PipelineTakesUpInOrder == Spec => TakesUpInOrder
  BY ServiceStart, ServiceStep, AlwaysTyped, AlwaysFlowInv, AlwaysPoolInv, PTL
     DEF Spec, TakesUpInOrder, Service!ServiceSpec

=============================================================================
