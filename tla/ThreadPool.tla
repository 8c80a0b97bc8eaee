----------------------------- MODULE ThreadPool -----------------------------
(***************************************************************************)
(* DCS::thread_pool (src/utils/thread_pool.h), thread by thread.           *)
(*                                                                         *)
(* The three task queues, m_current_run_thread and the workers' decisions  *)
(* are guarded by m_mutex; m_exit is an atomic that release() raises       *)
(* WITHOUT the mutex, and both notify_all() calls are made without it.     *)
(* A step of this module is the longest piece of a thread's code that no   *)
(* other thread can observe half done:                                     *)
(*                                                                         *)
(*   - a critical section of m_mutex is one step, except in run(), where   *)
(*     m_exit is read twice while the mutex is held and release() may      *)
(*     raise it, or notify, before, between or after the two reads;        *)
(*   - the body of a task, func(), lasts from CallFunc or AddTask to       *)
(*     Finish or FinishDetached.  It runs without the mutex, and is called *)
(*     without it too: between the unlock and the call another worker may  *)
(*     pop a later task and call it first.                                 *)
(*                                                                         *)
(* A task is one call of add_task.  What its body does is not modelled     *)
(* here, except that it ends.                                              *)
(***************************************************************************)
EXTENDS Integers, Sequences, FiniteSets

CONSTANTS
  Workers,    \* the threads init_thread_pool creates; get_nprocs() of them
  Callers,    \* the threads that call add_task
  Tasks,      \* the calls of add_task; bounds the behaviours
  NoTask,     \* an empty std::function
  NoThread    \* the owner of a free mutex

ASSUME WorkersAssumption == IsFiniteSet(Workers) /\ Workers # {}
ASSUME NoTaskAssumption == NoTask \notin Tasks
ASSUME NoThreadAssumption == NoThread \notin Workers

VARIABLES
  queue,                  \* m_normal_task_queue, m_timer_task_queue, m_hpest_task_queue
  mutex,                  \* the worker that holds m_mutex between two steps
  m_exit,
  m_current_run_thread,
  m_thread_num,
  m_inited,
  core_num,               \* the local variable of init_thread_pool
  wpc,                    \* where each worker is in run()
  func,                   \* the local variable of run()
  cpc,                    \* where each caller is in add_task
  rpc,                    \* where the releasing thread is in release()
  owned,                  \* the owner's shared_ptr still refers to the pool
  class,                  \* history: the task_type each task was added with
  executed,               \* history: the tasks whose func() a worker has called
  detached,               \* history: the tasks given a thread of their own
  finished,               \* history: the tasks whose body has ended
  dropped                 \* history: the tasks popped by a worker that then exited

poolVars == <<queue, mutex, m_exit, m_current_run_thread, m_thread_num>>
initVars == <<m_inited, core_num>>
pcVars   == <<wpc, func, cpc, rpc, owned>>
history  == <<class, executed, detached, finished, dropped>>
vars     == <<poolVars, initVars, pcVars, history>>

TaskType == {"timer_task", "normal_task", "highest_priority_task"}
NoType   == "none"

-----------------------------------------------------------------------------
(* Derived state.                                                          *)

NumCores == Cardinality(Workers)

\* The values of a queue, as a set.
Elements(q) == {q[i] : i \in DOMAIN q}

Queued    == UNION {Elements(queue[tt]) : tt \in TaskType}
Submitted == {t \in Tasks : class[t] # NoType}
Pending   == Submitted \ (executed \cup detached \cup dropped)
At(p)     == {w \in Workers : wpc[w] = p}
Running   == At("running")
Counted   == At("calling") \cup Running

\* Workers between ptr.lock() and the end of run() own a shared_ptr.
Holding == {w \in Workers : wpc[w] \notin {"unborn", "spawned", "exited"}}
PoolAlive == owned \/ Holding # {}

-----------------------------------------------------------------------------
TypeOK ==
  /\ queue \in [TaskType -> Seq(Tasks)]
  /\ mutex \in Workers \cup {NoThread}
  /\ m_exit \in BOOLEAN
  /\ m_current_run_thread \in 0 .. NumCores
  /\ m_thread_num \in {-1, 0}
  /\ m_inited \in BOOLEAN
  /\ core_num \in -1 .. NumCores
  /\ wpc \in [Workers -> {"unborn", "spawned", "locking", "deciding", "parking",
                          "waiting", "calling", "running", "exited"}]
  /\ func \in [Workers -> Tasks \cup {NoTask}]
  /\ cpc \in [Callers -> {"idle", "notifying"}]
  /\ rpc \in {"idle", "notifying", "polling", "returned"}
  /\ owned \in BOOLEAN
  /\ class \in [Tasks -> TaskType \cup {NoType}]
  /\ executed \subseteq Tasks
  /\ detached \subseteq Tasks
  /\ finished \subseteq Tasks
  /\ dropped \subseteq Tasks

Init ==
  /\ queue = [tt \in TaskType |-> <<>>]
  /\ mutex = NoThread
  /\ m_exit = FALSE
  /\ m_current_run_thread = 0
  /\ m_thread_num = 0
  /\ m_inited = FALSE
  /\ core_num = NumCores
  /\ wpc = [w \in Workers |-> "unborn"]
  /\ func = [w \in Workers |-> NoTask]
  /\ cpc = [c \in Callers |-> "idle"]
  /\ rpc = "idle"
  /\ owned = TRUE
  /\ class = [t \in Tasks |-> NoType]
  /\ executed = {}
  /\ detached = {}
  /\ finished = {}
  /\ dropped = {}

-----------------------------------------------------------------------------
(* init_thread_pool: `while (core_num--)' creates one detached thread per  *)
(* turn and leaves -1 in core_num, which is what m_thread_num is set to.   *)

SpawnWorker(w) ==
  /\ ~m_inited /\ core_num # 0
  /\ wpc[w] = "unborn"
  /\ core_num' = core_num - 1
  /\ wpc' = [wpc EXCEPT ![w] = "spawned"]
  /\ UNCHANGED <<poolVars, m_inited, func, cpc, rpc, owned, history>>

FinishInit ==
  /\ ~m_inited /\ core_num = 0
  /\ core_num' = core_num - 1
  /\ m_thread_num' = core_num'
  /\ m_inited' = TRUE
  /\ UNCHANGED <<queue, mutex, m_exit, m_current_run_thread, pcVars, history>>

-----------------------------------------------------------------------------
(* m_condition.notify_all(): every waiting worker goes on to reacquire the *)
(* mutex.                                                                  *)

\* Faulty variant: the notification is forgotten.
NotifyNobody == UNCHANGED wpc

NotifyAll == wpc' = [w \in Workers |-> IF wpc[w] = "waiting" THEN "locking" ELSE wpc[w]]

-----------------------------------------------------------------------------
(* add_task: under the mutex, start a thread for the task or queue it; the *)
(* notification follows after the unlock.                                  *)

AllBusy == m_thread_num = m_current_run_thread

StartDetached(t) ==
  /\ detached' = detached \cup {t}
  /\ UNCHANGED queue

Enqueue(t, tt) ==
  /\ queue' = [queue EXCEPT ![tt] = Append(@, t)]
  /\ UNCHANGED detached

AddTask(c, t, tt) ==
  /\ owned /\ cpc[c] = "idle" /\ class[t] = NoType
  /\ mutex = NoThread
  /\ class' = [class EXCEPT ![t] = tt]
  /\ IF tt = "highest_priority_task" /\ AllBusy THEN StartDetached(t) ELSE Enqueue(t, tt)
  /\ cpc' = [cpc EXCEPT ![c] = "notifying"]
  /\ UNCHANGED <<mutex, m_exit, m_current_run_thread, m_thread_num, initVars,
                 wpc, func, rpc, owned, executed, finished, dropped>>

NotifyTask(c) ==
  /\ cpc[c] = "notifying"
  /\ cpc' = [cpc EXCEPT ![c] = "idle"]
  /\ NotifyAll
  /\ UNCHANGED <<poolVars, initVars, func, rpc, owned, history>>

\* The body of a task that runs on a thread of its own ends.
FinishDetached(t) ==
  /\ t \in detached \ finished
  /\ finished' = finished \cup {t}
  /\ UNCHANGED <<poolVars, initVars, pcVars, class, executed, detached, dropped>>

-----------------------------------------------------------------------------
(* run(): one worker's whole life.                                         *)

\* ptr.lock(): a worker that finds the pool gone returns at once.
Enter(w) ==
  /\ wpc[w] = "spawned"
  /\ wpc' = [wpc EXCEPT ![w] = IF PoolAlive THEN "locking" ELSE "exited"]
  /\ UNCHANGED <<poolVars, initVars, func, cpc, rpc, owned, history>>

\* get_task serves the queues in this order.
Rank == [tt \in TaskType |-> CASE tt = "highest_priority_task" -> 1
                               [] tt = "timer_task"            -> 2
                               [] tt = "normal_task"           -> 3]

\* Faulty variant: the queues are served in the opposite order.
IsNextReversed(tt) ==
  /\ queue[tt] # <<>>
  /\ \A other \in TaskType : Rank[other] > Rank[tt] => queue[other] = <<>>

IsNext(tt) ==
  /\ queue[tt] # <<>>
  /\ \A other \in TaskType : Rank[other] < Rank[tt] => queue[other] = <<>>

\* Faulty variant: front() without pop().
PopNothing(w, tt) ==
  /\ func' = [func EXCEPT ![w] = Head(queue[tt])]
  /\ UNCHANGED queue

\* Faulty variant: the queue is a stack.
PopLast(w, tt) ==
  /\ func' = [func EXCEPT ![w] = queue[tt][Len(queue[tt])]]
  /\ queue' = [queue EXCEPT ![tt] = SubSeq(@, 1, Len(@) - 1)]

Pop(w, tt) ==
  /\ func' = [func EXCEPT ![w] = Head(queue[tt])]
  /\ queue' = [queue EXCEPT ![tt] = Tail(@)]

GetTask(w) == \E tt \in TaskType : IsNext(tt) /\ Pop(w, tt)

NoTaskQueued == \A tt \in TaskType : queue[tt] = <<>>

\* The predicate of m_condition.wait, evaluated on arrival and after every
\* wake-up: get_task(func) || m_exit.  The worker keeps the mutex.
EvaluatePredicate(w) ==
  /\ wpc[w] = "locking"
  /\ mutex = NoThread
  /\ mutex' = w
  /\ \/ /\ GetTask(w)
        /\ wpc' = [wpc EXCEPT ![w] = "deciding"]
     \/ /\ NoTaskQueued
        /\ wpc' = [wpc EXCEPT ![w] = IF m_exit THEN "deciding" ELSE "parking"]
        /\ UNCHANGED <<queue, func>>
  /\ UNCHANGED <<m_exit, m_current_run_thread, m_thread_num, initVars, cpc, rpc, owned, history>>

\* m_condition.wait blocks and releases the mutex in one step; a notification
\* sent since the predicate was evaluated is not seen.
Park(w) ==
  /\ wpc[w] = "parking"
  /\ wpc' = [wpc EXCEPT ![w] = "waiting"]
  /\ mutex' = NoThread
  /\ UNCHANGED <<queue, m_exit, m_current_run_thread, m_thread_num, initVars,
                 func, cpc, rpc, owned, history>>

\* A condition variable may wake a waiter that nobody notified.
SpuriousWakeup(w) ==
  /\ wpc[w] = "waiting"
  /\ wpc' = [wpc EXCEPT ![w] = "locking"]
  /\ UNCHANGED <<poolVars, initVars, func, cpc, rpc, owned, history>>

LeaveWithTask(w) ==
  /\ wpc' = [wpc EXCEPT ![w] = "exited"]
  /\ func' = [func EXCEPT ![w] = NoTask]
  /\ dropped' = dropped \cup ({func[w]} \ {NoTask})

\* The worker counts itself as running.
Count(w) ==
  /\ wpc' = [wpc EXCEPT ![w] = "calling"]
  /\ m_current_run_thread' = m_current_run_thread + 1
  /\ UNCHANGED <<func, dropped>>

\* Faulty variant: a worker that leaves uncounts itself although it was never
\* counted.
LeaveUncounted(w) ==
  /\ m_exit
  /\ LeaveWithTask(w)
  /\ m_current_run_thread' = m_current_run_thread - 1
  /\ mutex' = NoThread

Leave(w) ==
  /\ m_exit
  /\ LeaveWithTask(w)
  /\ UNCHANGED m_current_run_thread
  /\ mutex' = NoThread

\* Faulty variant: locker.unlock() is forgotten before func().
UnlockNothing == UNCHANGED mutex

Unlock == mutex' = NoThread

\* Faulty variant: m_exit is not read a second time.
StartUnchecked(w) == func[w] # NoTask /\ Count(w) /\ Unlock

Start(w) == ~m_exit /\ Count(w) /\ Unlock

\* The second reading of m_exit: the worker leaves, with the task it may have
\* popped, or counts itself as running; either way it releases the mutex.
Decide(w) ==
  /\ wpc[w] = "deciding"
  /\ Leave(w) \/ Start(w)
  /\ UNCHANGED <<queue, m_exit, m_thread_num, initVars, cpc, rpc, owned,
                 class, executed, detached, finished>>

\* func() begins.
CallFunc(w) ==
  /\ wpc[w] = "calling"
  /\ wpc' = [wpc EXCEPT ![w] = "running"]
  /\ executed' = executed \cup {func[w]}
  /\ UNCHANGED <<poolVars, initVars, func, cpc, rpc, owned, class, detached, finished, dropped>>

\* Faulty variant: the worker stays counted.
UncountNothing == UNCHANGED m_current_run_thread

Uncount == m_current_run_thread' = m_current_run_thread - 1

Return(w) == wpc' = [wpc EXCEPT ![w] = "exited"]

\* func() ends, the worker uncounts itself under the mutex, and returns.
Finish(w) ==
  /\ wpc[w] = "running"
  /\ mutex = NoThread
  /\ Uncount
  /\ Return(w)
  /\ finished' = finished \cup {func[w]}
  /\ func' = [func EXCEPT ![w] = NoTask]
  /\ UNCHANGED <<queue, mutex, m_exit, m_thread_num, initVars, cpc, rpc, owned,
                 class, executed, detached, dropped>>

-----------------------------------------------------------------------------
(* release: raise the flag, notify, then poll the count under the mutex    *)
(* until it is zero.  A poll that finds it positive changes nothing.       *)

RaiseExit ==
  /\ owned /\ rpc = "idle"
  /\ m_exit' = TRUE
  /\ rpc' = "notifying"
  /\ UNCHANGED <<queue, mutex, m_current_run_thread, m_thread_num, initVars,
                 wpc, func, cpc, owned, history>>

NotifyExit ==
  /\ rpc = "notifying"
  /\ rpc' = "polling"
  /\ NotifyAll
  /\ UNCHANGED <<poolVars, initVars, func, cpc, owned, history>>

ReleaseReturns ==
  /\ rpc = "polling"
  /\ mutex = NoThread
  /\ ~(m_current_run_thread > 0)
  /\ rpc' = "returned"
  /\ UNCHANGED <<poolVars, initVars, wpc, func, cpc, owned, history>>

\* The owner lets the pool go, outside any call of its operations.
DropOwner ==
  /\ owned /\ m_inited
  /\ rpc \in {"idle", "returned"}
  /\ \A c \in Callers : cpc[c] = "idle"
  /\ owned' = FALSE
  /\ UNCHANGED <<poolVars, initVars, wpc, func, cpc, rpc, history>>

-----------------------------------------------------------------------------
Next ==
  \/ \E w \in Workers : SpawnWorker(w) \/ Enter(w) \/ EvaluatePredicate(w) \/ Park(w)
                        \/ SpuriousWakeup(w) \/ Decide(w) \/ CallFunc(w) \/ Finish(w)
  \/ \E c \in Callers : NotifyTask(c)
  \/ \E c \in Callers, t \in Tasks, tt \in TaskType : AddTask(c, t, tt)
  \/ \E t \in Tasks : FinishDetached(t)
  \/ FinishInit
  \/ RaiseExit
  \/ NotifyExit
  \/ ReleaseReturns
  \/ DropOwner

Spec == Init /\ [][Next]_vars

(***************************************************************************)
(* Every started thread is scheduled, the bodies of tasks end, and a mutex *)
(* that is free again and again is in the end obtained (strong fairness of *)
(* the steps that acquire it).  main() calls init_thread_pool; nobody has  *)
(* to call add_task or release, to drop the pool, or to wake a worker for  *)
(* no reason.                                                              *)
(***************************************************************************)
Fairness ==
  /\ WF_vars(FinishInit \/ \E w \in Workers : SpawnWorker(w))
  /\ \A w \in Workers : /\ WF_vars(Enter(w) \/ Park(w) \/ Decide(w) \/ CallFunc(w))
                        /\ SF_vars(EvaluatePredicate(w) \/ Finish(w))
  /\ \A c \in Callers : WF_vars(NotifyTask(c))
  /\ \A t \in Tasks : WF_vars(FinishDetached(t))
  /\ WF_vars(NotifyExit) /\ SF_vars(ReleaseReturns)

FairSpec == Spec /\ Fairness

-----------------------------------------------------------------------------
(* Safety.                                                                 *)

\* Tasks that a worker has popped and not yet called or discarded.
Held == {func[w] : w \in At("deciding") \cup At("calling")} \ {NoTask}

\* No task sits twice in the queues.
QueuedOnce ==
  \A t1, t2 \in TaskType : \A i \in DOMAIN queue[t1], j \in DOMAIN queue[t2] :
    queue[t1][i] = queue[t2][j] => t1 = t2 /\ i = j

\* No two workers have the same task in hand.
HeldOnce ==
  \A v, w \in Workers : func[v] = func[w] /\ func[v] # NoTask => v = w

\* Every task handed to add_task is in exactly one place: in one queue (once),
\* in the hands of one worker that has not called it yet, or it has been called
\* by a worker, given a thread of its own, or dropped by a worker that saw
\* m_exit.  This is what makes execution at-most-once, and it is what two
\* workers woken by one notify_all would break if a pop were missed or repeated
\* (get_task and run, src/utils/thread_pool.h:104-149).
EachTaskInOnePlace ==
  /\ QueuedOnce
  /\ HeldOnce
  /\ Submitted = UNION {Queued, Held, executed, detached, dropped}
  /\ Queued \cap (Held \cup executed \cup detached \cup dropped) = {}
  /\ Held \cap (executed \cup detached \cup dropped) = {}
  /\ executed \cap (detached \cup dropped) = {}
  /\ detached \cap dropped = {}

\* Once release() has returned, no worker is inside a task or about to call one,
\* whatever the order of the exit flag, the notification and the workers' two
\* readings of the flag (src/utils/thread_pool.h:51-63 against 113-123).
ReleaseQuiesces == rpc = "returned" => Counted = {}

\* A worker chooses a task, and counts itself for it, only while no task of a
\* higher priority is queued, also when one was added after the notification
\* that woke the worker (the priorities of src/utils/thread_pool.h:66-68).  The
\* call follows without the mutex (line 121); of the calls this says nothing.
PriorityAtStart ==
  [][\A w \in Workers : wpc[w] = "deciding" /\ wpc'[w] = "calling" =>
       \A tt \in TaskType : Rank[tt] < Rank[class[func[w]]] => queue[tt] = <<>>]_vars

-----------------------------------------------------------------------------
(* The abstract promise.                                                   *)

\* Read off the queues and the workers themselves, so that a task that was
\* popped and forgotten, or left in a queue and called again, has a fate that
\* the ledger does not allow.
FateOf(t) ==
  IF \E w \in Running : func[w] = t THEN "working"
  ELSE IF t \in Queued \cup Held THEN "pending"
  ELSE IF t \in detached \ finished THEN "detached"
  ELSE IF t \in finished THEN "done"
  ELSE IF t \in dropped THEN "discarded" ELSE "new"

Ledger == INSTANCE TaskLedger WITH
            fate    <- [t \in Tasks |-> FateOf(t)],
            closing <- m_exit,
            closed  <- rpc = "returned"

\* The pool keeps the promise of TaskLedger about the fate of every task.
LedgerSpec == Ledger!LedgerSpec

-----------------------------------------------------------------------------
(* Liveness.                                                               *)

Exhausted == \A w \in Workers : wpc[w] \in {"running", "exited"}

\* No wake-up is lost by add_task: queued tasks are all called, unless the pool
\* is being released or every worker has already called its one task.
ServedUnlessExhausted == Pending # {} ~> (Pending = {} \/ m_exit \/ Exhausted)

\* release() returns: every worker it has to wait for uncounts itself.
ReleaseTerminates == rpc = "notifying" ~> rpc = "returned"

-----------------------------------------------------------------------------
(* What the comments of the source say and the code does not do.           *)

\* src/utils/thread_pool.h:50: release blocks until all threads have exited.
\* Here only that after its return they have, at the latest in the end.
ReleaseEndsAllThreads ==
  (m_inited /\ rpc = "returned") ~> \A w \in Workers : wpc[w] = "exited"
=============================================================================
