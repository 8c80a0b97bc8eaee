-------------------------- MODULE ThreadPoolProofs --------------------------
(***************************************************************************)
(* Theorems about ThreadPool, for every finite set of workers and all sets *)
(* of callers and tasks: types and counters, the order of priorities, and  *)
(* that every task is in exactly one place, so that ThreadPool implements  *)
(* TaskLedger.                                                             *)
(***************************************************************************)
EXTENDS ThreadPool, FiniteSetTheorems, TLAPS

-----------------------------------------------------------------------------
(* Type correctness.  m_current_run_thread stays within its range because  *)
(* it counts the workers that call a task or are in one, and core_num      *)
(* because the loop that decrements it ends at 0.                          *)

CountInv == m_current_run_thread = Cardinality(Counted)

InitInv == ~m_inited => core_num >= 0

\* Only the exit flag makes a worker decide without a task, and a task in a
\* worker's hands is one it decides about or runs.
FuncInv ==
  \A w \in Workers :
    /\ wpc[w] = "deciding" /\ func[w] = NoTask => m_exit
    /\ wpc[w] \in {"calling", "running"} => func[w] \in Tasks
    /\ func[w] # NoTask => wpc[w] \in {"deciding", "calling", "running"}

TypeInv == TypeOK /\ CountInv /\ InitInv /\ FuncInv

LEMMA CoresInNat == NumCores \in Nat
  BY WorkersAssumption, FS_CardinalityType DEF NumCores

\* The workers that are running are finitely many, and at most get_nprocs().
LEMMA CountedBounded ==
  /\ IsFiniteSet(Counted)
  /\ Cardinality(Counted) \in 0 .. NumCores
<1>1. Counted \subseteq Workers
  BY DEF Counted, Running, At
<1>2. IsFiniteSet(Counted) /\ Cardinality(Counted) <= Cardinality(Workers)
  BY <1>1, WorkersAssumption, FS_Subset
<1>3. Cardinality(Counted) \in Nat
  BY <1>2, FS_CardinalityType
<1>. QED
  BY <1>2, <1>3, CoresInNat DEF NumCores

\* A worker that starts to count is one more, one that stops is one less.
LEMMA CountedStarts ==
  ASSUME TypeOK, NEW w \in Workers, wpc[w] = "deciding",
         wpc' = [wpc EXCEPT ![w] = "calling"]
  PROVE  Cardinality(Counted') = Cardinality(Counted) + 1
<1>1. Counted' = Counted \cup {w} /\ w \notin Counted
  BY DEF TypeOK, Counted, Running, At
<1>. QED
  BY <1>1, CountedBounded, FS_AddElement

LEMMA CountedStops ==
  ASSUME TypeOK, NEW w \in Workers, wpc[w] = "running",
         wpc' = [wpc EXCEPT ![w] = "exited"]
  PROVE  Cardinality(Counted') = Cardinality(Counted) - 1
<1>1. Counted' = Counted \ {w} /\ w \in Counted
  BY DEF TypeOK, Counted, Running, At
<1>. QED
  BY <1>1, CountedBounded, FS_RemoveElement

LEMMA TypeInvInit == Init => TypeInv
<1>. SUFFICES ASSUME Init PROVE TypeInv
  OBVIOUS
<1>1. TypeOK
  <2>1. queue \in [TaskType -> Seq(Tasks)]
    BY DEF Init
  <2>2. /\ mutex \in Workers \cup {NoThread}
        /\ m_exit \in BOOLEAN
        /\ m_inited \in BOOLEAN
        /\ owned \in BOOLEAN
    BY DEF Init
  <2>3. /\ m_current_run_thread \in 0 .. NumCores
        /\ m_thread_num \in {-1, 0}
        /\ core_num \in -1 .. NumCores
    BY CoresInNat DEF Init
  <2>4. /\ wpc \in [Workers -> {"unborn", "spawned", "locking", "deciding", "parking",
                                 "waiting", "calling", "running", "exited"}]
        /\ func \in [Workers -> Tasks \cup {NoTask}]
        /\ cpc \in [Callers -> {"idle", "notifying"}]
        /\ rpc \in {"idle", "notifying", "polling", "returned"}
    BY DEF Init
  <2>5. /\ class \in [Tasks -> TaskType \cup {NoType}]
        /\ executed \subseteq Tasks
        /\ detached \subseteq Tasks
        /\ finished \subseteq Tasks
        /\ dropped \subseteq Tasks
    BY DEF Init
  <2>. QED
    BY <2>1, <2>2, <2>3, <2>4, <2>5 DEF TypeOK
<1>2. Counted = {}
  BY DEF Init, Counted, Running, At
<1>3. CountInv
  BY <1>2, FS_EmptySet DEF Init, CountInv
<1>4. InitInv
  BY CoresInNat DEF Init, InitInv
<1>5. FuncInv
  BY DEF Init, FuncInv
<1>. QED
  BY <1>1, <1>3, <1>4, <1>5 DEF TypeInv

\* Steps that move no worker into or out of the counted ones leave the count
\* alone.
LEMMA CountUnchanged ==
  ASSUME CountInv, UNCHANGED m_current_run_thread,
         \A w \in Workers : wpc'[w] \in {"calling", "running"} <=> wpc[w] \in {"calling", "running"}
  PROVE  CountInv'
<1>1. Counted' = Counted
  BY DEF Counted, Running, At
<1>. QED
  BY <1>1 DEF CountInv

\* Whatever step was taken, a count of running workers is in range.
LEMMA CountBounded == ASSUME CountInv' PROVE m_current_run_thread' \in 0 .. NumCores
<1>1. Counted' \subseteq Workers
  BY DEF Counted, Running, At
<1>2. IsFiniteSet(Counted') /\ Cardinality(Counted') <= NumCores
  BY <1>1, WorkersAssumption, FS_Subset DEF NumCores
<1>3. Cardinality(Counted') \in Nat
  BY <1>2, FS_CardinalityType
<1>. QED
  BY <1>2, <1>3, CoresInNat DEF CountInv

\* What a pop takes is a task, and what it leaves is queues of tasks.
LEMMA PopIsTyped ==
  ASSUME TypeOK, NEW w \in Workers, NEW tt \in TaskType, IsNext(tt), Pop(w, tt)
  PROVE  /\ queue' \in [TaskType -> Seq(Tasks)]
         /\ func' \in [Workers -> Tasks \cup {NoTask}]
         /\ func'[w] = Head(queue[tt])
         /\ Head(queue[tt]) \in Tasks
<1>1. queue[tt] \in Seq(Tasks) /\ queue[tt] # <<>>
  BY DEF TypeOK, IsNext
<1>2. Head(queue[tt]) \in Tasks /\ Tail(queue[tt]) \in Seq(Tasks)
  BY <1>1
<1>. QED
  BY <1>2 DEF TypeOK, Pop

LEMMA TypeInvStep == TypeInv /\ [Next]_vars => TypeInv'
<1>. SUFFICES ASSUME TypeInv, [Next]_vars PROVE TypeInv'
  OBVIOUS
<1>. USE DEF TypeInv
<1>. USE CoresInNat
<1>1. CASE UNCHANGED vars
  BY <1>1, CountUnchanged DEF TypeOK, InitInv, FuncInv, vars, poolVars, initVars, pcVars, history
<1>2. ASSUME NEW w \in Workers, SpawnWorker(w) PROVE TypeInv'
  <2>1. TypeOK' /\ InitInv'
    BY <1>2 DEF SpawnWorker, TypeOK, InitInv, poolVars, history
  <2>2. FuncInv'
    BY <1>2 DEF SpawnWorker, TypeOK, FuncInv, poolVars, history
  <2>3. CountInv'
    BY <1>2, CountUnchanged DEF SpawnWorker, TypeOK, poolVars, history
  <2>. QED
    BY <2>1, <2>2, <2>3
<1>3. ASSUME NEW w \in Workers, Enter(w) PROVE TypeInv'
  <2>1. TypeOK' /\ InitInv'
    BY <1>3 DEF Enter, TypeOK, InitInv, poolVars, initVars, history
  <2>2. FuncInv'
    BY <1>3 DEF Enter, TypeOK, FuncInv, poolVars, initVars, history
  <2>3. CountInv'
    BY <1>3, CountUnchanged DEF Enter, TypeOK, poolVars, initVars, history
  <2>. QED
    BY <2>1, <2>2, <2>3
<1>4. ASSUME NEW w \in Workers, EvaluatePredicate(w) PROVE TypeInv'
  <2>1. /\ queue' \in [TaskType -> Seq(Tasks)]
        /\ func' \in [Workers -> Tasks \cup {NoTask}]
        /\ \A v \in Workers \ {w} : func'[v] = func[v]
        /\ \/ wpc' = [wpc EXCEPT ![w] = "deciding"] /\ func'[w] \in Tasks
           \/ /\ wpc' = [wpc EXCEPT ![w] = IF m_exit THEN "deciding" ELSE "parking"]
              /\ func' = func
    <3>1. CASE GetTask(w) /\ wpc' = [wpc EXCEPT ![w] = "deciding"]
      <4>1. PICK tt \in TaskType : IsNext(tt) /\ Pop(w, tt)
        BY <3>1 DEF GetTask
      <4>. QED
        BY <3>1, <4>1, PopIsTyped DEF Pop, TypeOK
    <3>2. CASE /\ wpc' = [wpc EXCEPT ![w] = IF m_exit THEN "deciding" ELSE "parking"]
               /\ UNCHANGED <<queue, func>>
      BY <3>2 DEF TypeOK
    <3>. QED
      BY <1>4, <3>1, <3>2 DEF EvaluatePredicate
  <2>2. TypeOK' /\ InitInv'
    BY <1>4, <2>1 DEF EvaluatePredicate, TypeOK, InitInv, initVars, history
  <2>3. FuncInv'
    <3>1. m_exit' = m_exit /\ DOMAIN wpc = Workers /\ func[w] = NoTask
      BY <1>4 DEF EvaluatePredicate, TypeOK, FuncInv
    <3>2. ASSUME NEW v \in Workers, v # w
          PROVE  wpc'[v] = wpc[v] /\ func'[v] = func[v]
      BY <2>1, <3>1, <3>2
    <3>3. /\ wpc'[w] = "deciding" /\ func'[w] = NoTask => m_exit
          /\ wpc'[w] \in {"deciding", "parking"}
          /\ func'[w] # NoTask => wpc'[w] = "deciding"
      BY <2>1, <3>1, NoTaskAssumption
    <3>. QED
      BY <3>1, <3>2, <3>3 DEF FuncInv
  <2>4. CountInv'
    BY <1>4, CountUnchanged DEF EvaluatePredicate, TypeOK
  <2>. QED
    BY <2>2, <2>3, <2>4
<1>5. ASSUME NEW w \in Workers, Park(w) PROVE TypeInv'
  <2>1. TypeOK' /\ InitInv'
    BY <1>5 DEF Park, TypeOK, InitInv, initVars, history
  <2>2. FuncInv'
    BY <1>5 DEF Park, TypeOK, FuncInv, initVars, history
  <2>3. CountInv'
    BY <1>5, CountUnchanged DEF Park, TypeOK, initVars, history
  <2>. QED
    BY <2>1, <2>2, <2>3
<1>6. ASSUME NEW w \in Workers, SpuriousWakeup(w) PROVE TypeInv'
  <2>1. TypeOK' /\ InitInv'
    BY <1>6 DEF SpuriousWakeup, TypeOK, InitInv, poolVars, initVars, history
  <2>2. FuncInv'
    BY <1>6 DEF SpuriousWakeup, TypeOK, FuncInv, poolVars, initVars, history
  <2>3. CountInv'
    BY <1>6, CountUnchanged DEF SpuriousWakeup, TypeOK, poolVars, initVars, history
  <2>. QED
    BY <2>1, <2>2, <2>3
<1>7. ASSUME NEW w \in Workers, Decide(w), Leave(w) PROVE TypeInv'
  <2>1. TypeOK' /\ InitInv'
    BY <1>7 DEF Decide, Leave, LeaveWithTask, TypeOK, InitInv, initVars
  <2>2. FuncInv'
    BY <1>7 DEF Decide, Leave, LeaveWithTask, TypeOK, FuncInv, initVars
  <2>3. CountInv'
    BY <1>7, CountUnchanged DEF Decide, Leave, LeaveWithTask, TypeOK, initVars
  <2>. QED
    BY <2>1, <2>2, <2>3
<1>8. ASSUME NEW w \in Workers, Decide(w), Start(w) PROVE TypeInv'
  <2>1. /\ wpc[w] = "deciding"
        /\ wpc' = [wpc EXCEPT ![w] = "calling"]
        /\ func[w] \in Tasks
    BY <1>8 DEF Decide, Start, Count, TypeOK, FuncInv
  <2>2. CountInv'
    BY <1>8, <2>1, CountedStarts DEF Start, Count, CountInv
  <2>3. m_current_run_thread' \in 0 .. NumCores
    BY <2>2, CountBounded
  <2>4. TypeOK' /\ InitInv'
    BY <1>8, <2>1, <2>3 DEF Decide, Start, Count, Unlock, TypeOK, InitInv, initVars
  <2>5. FuncInv'
    BY <1>8, <2>1 DEF Decide, Start, Count, TypeOK, FuncInv
  <2>. QED
    BY <2>2, <2>4, <2>5
<1>9. ASSUME NEW w \in Workers, Finish(w) PROVE TypeInv'
  <2>1. Cardinality(Counted') = Cardinality(Counted) - 1
    BY <1>9, CountedStops DEF Finish, Return
  <2>2. CountInv'
    BY <1>9, <2>1 DEF Finish, Uncount, CountInv
  <2>3. m_current_run_thread' \in 0 .. NumCores
    BY <2>2, CountBounded
  <2>4. TypeOK' /\ InitInv'
    BY <1>9, <2>3 DEF Finish, Return, FuncInv, TypeOK, InitInv, initVars
  <2>5. FuncInv'
    BY <1>9 DEF Finish, Return, TypeOK, FuncInv
  <2>. QED
    BY <2>2, <2>4, <2>5
<1>10. ASSUME NEW c \in Callers, NotifyTask(c) PROVE TypeInv'
  <2>1. TypeOK' /\ InitInv'
    BY <1>10 DEF NotifyTask, NotifyAll, TypeOK, InitInv, poolVars, initVars, history
  <2>2. FuncInv'
    BY <1>10 DEF NotifyTask, NotifyAll, TypeOK, FuncInv, poolVars, initVars, history
  <2>3. CountInv'
    BY <1>10, CountUnchanged DEF NotifyTask, NotifyAll, TypeOK, poolVars, initVars, history
  <2>. QED
    BY <2>1, <2>2, <2>3
<1>11. ASSUME NEW c \in Callers, NEW t \in Tasks, NEW tt \in TaskType, AddTask(c, t, tt) 
     PROVE  TypeInv'
  <2>1. queue' \in [TaskType -> Seq(Tasks)] /\ detached' \subseteq Tasks
    <3>1. CASE StartDetached(t)
      BY <3>1 DEF StartDetached, TypeOK
    <3>2. CASE Enqueue(t, tt)
      <4>1. Append(queue[tt], t) \in Seq(Tasks)
        BY DEF TypeOK
      <4>. QED
        BY <3>2, <4>1 DEF Enqueue, TypeOK
    <3>. QED
      BY <1>11, <3>1, <3>2 DEF AddTask
  <2>2. TypeOK' /\ InitInv'
    BY <1>11, <2>1 DEF AddTask, TypeOK, InitInv, initVars
  <2>3. FuncInv'
    BY <1>11 DEF AddTask, TypeOK, FuncInv
  <2>4. CountInv'
    BY <1>11, CountUnchanged DEF AddTask, TypeOK
  <2>. QED
    BY <2>2, <2>3, <2>4
<1>12. ASSUME NEW t \in Tasks, FinishDetached(t) PROVE TypeInv'
  <2>1. TypeOK' /\ InitInv'
    BY <1>12 DEF FinishDetached, TypeOK, InitInv, poolVars, initVars, pcVars
  <2>2. FuncInv'
    BY <1>12 DEF FinishDetached, TypeOK, FuncInv, poolVars, initVars, pcVars
  <2>3. CountInv'
    BY <1>12, CountUnchanged DEF FinishDetached, TypeOK, poolVars, initVars, pcVars
  <2>. QED
    BY <2>1, <2>2, <2>3
<1>13. ASSUME FinishInit PROVE TypeInv'
  <2>1. TypeOK' /\ InitInv'
    BY <1>13 DEF FinishInit, TypeOK, InitInv, pcVars, history
  <2>2. FuncInv'
    BY <1>13 DEF FinishInit, TypeOK, FuncInv, pcVars, history
  <2>3. CountInv'
    BY <1>13, CountUnchanged DEF FinishInit, TypeOK, pcVars, history
  <2>. QED
    BY <2>1, <2>2, <2>3
<1>14. ASSUME RaiseExit PROVE TypeInv'
  <2>1. TypeOK' /\ InitInv'
    BY <1>14 DEF RaiseExit, TypeOK, InitInv, initVars, history
  <2>2. FuncInv'
    BY <1>14 DEF RaiseExit, TypeOK, FuncInv, initVars, history
  <2>3. CountInv'
    BY <1>14, CountUnchanged DEF RaiseExit, TypeOK, initVars, history
  <2>. QED
    BY <2>1, <2>2, <2>3
<1>15. ASSUME NotifyExit PROVE TypeInv'
  <2>1. TypeOK' /\ InitInv'
    BY <1>15 DEF NotifyExit, NotifyAll, TypeOK, InitInv, poolVars, initVars, history
  <2>2. FuncInv'
    BY <1>15 DEF NotifyExit, NotifyAll, TypeOK, FuncInv, poolVars, initVars, history
  <2>3. CountInv'
    BY <1>15, CountUnchanged DEF NotifyExit, NotifyAll, TypeOK, poolVars, initVars, history
  <2>. QED
    BY <2>1, <2>2, <2>3
<1>16. ASSUME ReleaseReturns PROVE TypeInv'
  <2>1. TypeOK' /\ InitInv'
    BY <1>16 DEF ReleaseReturns, TypeOK, InitInv, poolVars, initVars, history
  <2>2. FuncInv'
    BY <1>16 DEF ReleaseReturns, TypeOK, FuncInv, poolVars, initVars, history
  <2>3. CountInv'
    BY <1>16, CountUnchanged DEF ReleaseReturns, TypeOK, poolVars, initVars, history
  <2>. QED
    BY <2>1, <2>2, <2>3
<1>17. ASSUME DropOwner PROVE TypeInv'
  <2>1. TypeOK' /\ InitInv'
    BY <1>17 DEF DropOwner, TypeOK, InitInv, poolVars, initVars, history
  <2>2. FuncInv'
    BY <1>17 DEF DropOwner, TypeOK, FuncInv, poolVars, initVars, history
  <2>3. CountInv'
    BY <1>17, CountUnchanged DEF DropOwner, TypeOK, poolVars, initVars, history
  <2>. QED
    BY <2>1, <2>2, <2>3
<1>18. ASSUME NEW w \in Workers, CallFunc(w) PROVE TypeInv'
  <2>1. func[w] \in Tasks /\ UNCHANGED func
    BY <1>18 DEF CallFunc, FuncInv
  <2>2. TypeOK' /\ InitInv'
    BY <1>18, <2>1 DEF CallFunc, TypeOK, InitInv, poolVars, initVars
  <2>3. FuncInv'
    BY <1>18, <2>1 DEF CallFunc, TypeOK, FuncInv, poolVars
  <2>4. CountInv'
    BY <1>18, CountUnchanged DEF CallFunc, TypeOK, poolVars
  <2>. QED
    BY <2>2, <2>3, <2>4
<1>. QED
  <2>1. ASSUME NEW w \in Workers, Decide(w) PROVE TypeInv'
    BY <2>1, <1>7, <1>8 DEF Decide
  <2>. QED
    BY <1>1, <1>2, <1>3, <1>4, <1>5, <1>6, <1>9, <1>10, <1>11, <1>12, <1>13, <1>14,
       <1>15, <1>16, <1>17, <1>18, <2>1 DEF Next

\* Every variable keeps its type; in particular m_current_run_thread never
\* falls below zero nor exceeds get_nprocs(), and no worker calls an empty
\* function (run, src/utils/thread_pool.h:104-125).
THEOREM TypeCorrect == Spec => []TypeOK
<1>1. TypeInv => TypeOK
  BY DEF TypeInv
<1>. QED
  BY <1>1, TypeInvInit, TypeInvStep, PTL DEF Spec

-----------------------------------------------------------------------------
(* release() quiesces the pool.  ReleaseQuiesces alone is not inductive: a *)
(* worker could start after the last poll.  It cannot, because the flag is *)
(* raised before the poll and the worker reads it under the mutex at the   *)
(* same time as it counts itself.                                          *)

ReleaseInv == (rpc # "idle" => m_exit) /\ ReleaseQuiesces

LEMMA ReleaseInvStep == TypeInv /\ ReleaseInv /\ [Next]_vars => ReleaseInv'
<1>. SUFFICES ASSUME TypeInv, ReleaseInv, [Next]_vars PROVE ReleaseInv'
  OBVIOUS
<1>1. ASSUME UNCHANGED rpc, m_exit => m_exit', Counted' \subseteq Counted \/ ~m_exit
      PROVE  ReleaseInv'
  BY <1>1 DEF ReleaseInv, ReleaseQuiesces
<1>2. CASE UNCHANGED vars
  BY <1>2, <1>1 DEF Counted, Running, At, vars, poolVars, pcVars
<1>3. ASSUME NEW w \in Workers,
             SpawnWorker(w) \/ Enter(w) \/ EvaluatePredicate(w) \/ Park(w) \/ SpuriousWakeup(w)
      PROVE  ReleaseInv'
  <2>1. Counted' \subseteq Counted
    BY <1>3 DEF SpawnWorker, Enter, EvaluatePredicate, Park, SpuriousWakeup, Counted, Running, At,
                TypeInv, TypeOK
  <2>. QED
    BY <1>1, <1>3, <2>1 DEF SpawnWorker, Enter, EvaluatePredicate, Park, SpuriousWakeup, poolVars
<1>4. ASSUME NEW w \in Workers, Decide(w) PROVE ReleaseInv'
  <2>1. CASE Leave(w)
    <3>1. Counted' \subseteq Counted
      BY <2>1 DEF Leave, LeaveWithTask, Counted, Running, At, TypeInv, TypeOK
    <3>. QED
      BY <1>1, <1>4, <3>1 DEF Decide
  <2>2. CASE Start(w)
    BY <1>1, <1>4, <2>2 DEF Decide, Start
  <2>. QED
    BY <1>4, <2>1, <2>2 DEF Decide
<1>5. ASSUME NEW w \in Workers, Finish(w) PROVE ReleaseInv'
  <2>1. Counted' \subseteq Counted
    BY <1>5 DEF Finish, Return, Counted, Running, At, TypeInv, TypeOK
  <2>. QED
    BY <1>1, <1>5, <2>1 DEF Finish
<1>6. ASSUME NEW c \in Callers, NotifyTask(c) PROVE ReleaseInv'
  <2>1. Counted' \subseteq Counted
    BY <1>6 DEF NotifyTask, NotifyAll, Counted, Running, At, TypeInv, TypeOK
  <2>. QED
    BY <1>1, <1>6, <2>1 DEF NotifyTask, poolVars
<1>7. ASSUME NEW c \in Callers, NEW t \in Tasks, NEW tt \in TaskType, AddTask(c, t, tt)
      PROVE  ReleaseInv'
  BY <1>1, <1>7 DEF AddTask, Counted, Running, At
<1>8. ASSUME NEW t \in Tasks, FinishDetached(t) PROVE ReleaseInv'
  BY <1>1, <1>8 DEF FinishDetached, Counted, Running, At, poolVars, pcVars
<1>9. CASE FinishInit
  BY <1>1, <1>9 DEF FinishInit, Counted, Running, At, pcVars
<1>10. CASE RaiseExit
  BY <1>10 DEF RaiseExit, ReleaseInv, ReleaseQuiesces
<1>11. CASE NotifyExit
  BY <1>11 DEF NotifyExit, ReleaseInv, ReleaseQuiesces, poolVars
<1>12. CASE ReleaseReturns
  <2>1. Cardinality(Counted) = 0
    BY <1>12, CountedBounded DEF ReleaseReturns, TypeInv, CountInv
  <2>2. Counted = {}
    BY <2>1, CountedBounded, FS_EmptySet
  <2>. QED
    BY <1>12, <2>2 DEF ReleaseReturns, ReleaseInv, ReleaseQuiesces, Counted, Running, At, poolVars
<1>13. CASE DropOwner
  BY <1>1, <1>13 DEF DropOwner, Counted, Running, At, poolVars
<1>14. ASSUME NEW w \in Workers, CallFunc(w) PROVE ReleaseInv'
  <2>1. Counted' \subseteq Counted
    BY <1>14 DEF CallFunc, Counted, Running, At, TypeInv, TypeOK
  <2>. QED
    BY <1>1, <1>14, <2>1 DEF CallFunc, poolVars
<1>. QED
  BY <1>2, <1>3, <1>4, <1>5, <1>6, <1>7, <1>8, <1>9, <1>10, <1>11, <1>12, <1>13, <1>14 DEF Next

\* Once release() has returned no worker is inside a task or calls one, and
\* none will (src/utils/thread_pool.h:51-63 against 113-123).
THEOREM ReleaseIsQuiet == Spec => []ReleaseQuiesces
<1>1. Init => ReleaseInv
  BY DEF Init, ReleaseInv, ReleaseQuiesces
<1>2. ReleaseInv => ReleaseQuiesces
  BY DEF ReleaseInv
<1>. QED
  BY <1>1, <1>2, TypeInvInit, TypeInvStep, ReleaseInvStep, PTL DEF Spec

-----------------------------------------------------------------------------
(* Priorities.  Between the pop and the second reading of the flag the     *)
(* worker keeps the mutex, so no task can be added that should have gone   *)
(* first; this is what OrderInv says, and LockInv why it stays true.       *)

LockInv == \A w \in Workers : wpc[w] \in {"deciding", "parking"} => mutex = w

\* A task waits in the queue of its class.
ClassInv == \A tt \in TaskType : \A i \in DOMAIN queue[tt] : class[queue[tt][i]] = tt

OrderInv ==
  \A w \in Workers : wpc[w] = "deciding" /\ func[w] # NoTask =>
    \A tt \in TaskType : Rank[tt] < Rank[class[func[w]]] => queue[tt] = <<>>

PriorityInv == LockInv /\ ClassInv /\ OrderInv

LEMMA PriorityKept ==
  ASSUME TypeInv, PriorityInv, UNCHANGED <<queue, mutex, func, class>>,
         \A w \in Workers : wpc'[w] \in {"deciding", "parking"} => wpc'[w] = wpc[w]
  PROVE  PriorityInv'
  BY DEF PriorityInv, LockInv, ClassInv, OrderInv

LEMMA PriorityAdd ==
  ASSUME TypeInv, PriorityInv, NEW c \in Callers, NEW t \in Tasks, NEW tt \in TaskType,
         AddTask(c, t, tt)
  PROVE  PriorityInv'
<1>. USE DEF TypeInv, TypeOK
<1>1. \A w \in Workers : wpc'[w] \notin {"deciding", "parking"}
  BY NoThreadAssumption DEF AddTask, PriorityInv, LockInv
<1>2. ClassInv'
  <2>1. /\ class' = [class EXCEPT ![t] = tt]
        /\ class[t] = NoType
        /\ NoType \notin TaskType
    BY DEF AddTask, TaskType, NoType
  <2>2. \A other \in TaskType : \A i \in DOMAIN queue[other] : class'[queue[other][i]] = other
    <3>. SUFFICES ASSUME NEW other \in TaskType, NEW i \in DOMAIN queue[other]
                  PROVE  class'[queue[other][i]] = other
      OBVIOUS
    <3>1. queue[other][i] \in Tasks /\ class[queue[other][i]] = other
      BY DEF PriorityInv, ClassInv
    <3>. QED
      BY <2>1, <3>1
  <2>3. CASE StartDetached(t)
    BY <2>2, <2>3 DEF StartDetached, ClassInv
  <2>4. CASE Enqueue(t, tt)
    <3>1. /\ queue'[tt] = Append(queue[tt], t)
          /\ \A other \in TaskType : other # tt => queue'[other] = queue[other]
      BY <2>4 DEF Enqueue
    <3>2. queue[tt] \in Seq(Tasks)
      OBVIOUS
    <3>3. \A i \in DOMAIN queue'[tt] : class'[queue'[tt][i]] = tt
      BY <2>1, <2>2, <3>1, <3>2
    <3>. QED
      BY <2>2, <3>1, <3>3 DEF ClassInv
  <2>. QED
    BY <2>3, <2>4 DEF AddTask
<1>. QED
  BY <1>1, <1>2 DEF PriorityInv, LockInv, OrderInv

LEMMA PriorityPop ==
  ASSUME TypeInv, PriorityInv, NEW w \in Workers, EvaluatePredicate(w), GetTask(w),
         wpc' = [wpc EXCEPT ![w] = "deciding"]
  PROVE  PriorityInv'
<1>. USE DEF TypeInv, TypeOK
<1>1. PICK tt \in TaskType : IsNext(tt) /\ Pop(w, tt)
  BY DEF GetTask
<1>2. /\ mutex' = w
      /\ UNCHANGED class
      /\ \A v \in Workers \ {w} : wpc'[v] \notin {"deciding", "parking"}
  BY NoThreadAssumption DEF EvaluatePredicate, history, PriorityInv, LockInv
<1>3. queue[tt] \in Seq(Tasks) /\ queue[tt] # <<>>
  BY <1>1 DEF IsNext
<1>4. /\ queue'[tt] = Tail(queue[tt])
      /\ \A other \in TaskType : other # tt => queue'[other] = queue[other]
      /\ func'[w] = queue[tt][1]
  BY <1>1, <1>3 DEF Pop
<1>5. ClassInv'
  <2>1. \A i \in DOMAIN Tail(queue[tt]) :
          i + 1 \in DOMAIN queue[tt] /\ Tail(queue[tt])[i] = queue[tt][i + 1]
    BY <1>3
  <2>2. \A i \in DOMAIN queue'[tt] : class[queue'[tt][i]] = tt
    BY <1>4, <2>1 DEF PriorityInv, ClassInv
  <2>. QED
    BY <1>2, <1>4, <2>2 DEF PriorityInv, ClassInv
<1>6. class'[func'[w]] = tt
  <2>1. 1 \in DOMAIN queue[tt]
    BY <1>3
  <2>. QED
    BY <1>2, <1>4, <2>1 DEF PriorityInv, ClassInv
<1>7. \A other \in TaskType : Rank[other] < Rank[tt] => other # tt /\ queue[other] = <<>>
  BY <1>1 DEF IsNext, Rank, TaskType
<1>8. OrderInv'
  BY <1>2, <1>4, <1>6, <1>7 DEF OrderInv
<1>9. LockInv'
  BY <1>2 DEF LockInv
<1>. QED
  BY <1>5, <1>8, <1>9 DEF PriorityInv

LEMMA PriorityInvStep == TypeInv /\ PriorityInv /\ [Next]_vars => PriorityInv'
<1>. SUFFICES ASSUME TypeInv, PriorityInv, [Next]_vars PROVE PriorityInv'
  OBVIOUS
<1>. USE DEF TypeInv, TypeOK
<1>1. CASE UNCHANGED vars
  BY <1>1, PriorityKept DEF vars, poolVars, pcVars, history
<1>2. ASSUME NEW w \in Workers, SpawnWorker(w) PROVE PriorityInv'
  BY <1>2, PriorityKept DEF SpawnWorker, poolVars, history
<1>3. ASSUME NEW w \in Workers, Enter(w) PROVE PriorityInv'
  BY <1>3, PriorityKept DEF Enter, poolVars, history
<1>4. ASSUME NEW w \in Workers, EvaluatePredicate(w) PROVE PriorityInv'
  <2>1. CASE GetTask(w) /\ wpc' = [wpc EXCEPT ![w] = "deciding"]
    BY <1>4, <2>1, PriorityPop
  <2>2. CASE /\ UNCHANGED <<queue, func>>
             /\ wpc' = [wpc EXCEPT ![w] = IF m_exit THEN "deciding" ELSE "parking"]
    <3>1. UNCHANGED class /\ mutex' = w /\ func[w] = NoTask
      BY <1>4 DEF EvaluatePredicate, history, FuncInv
    <3>2. \A v \in Workers \ {w} : wpc'[v] \notin {"deciding", "parking"}
      BY <1>4, <2>2, NoThreadAssumption DEF EvaluatePredicate, PriorityInv, LockInv
    <3>. QED
      BY <2>2, <3>1, <3>2 DEF PriorityInv, LockInv, ClassInv, OrderInv
  <2>. QED
    BY <1>4, <2>1, <2>2 DEF EvaluatePredicate
<1>5. ASSUME NEW w \in Workers, Park(w) \/ Decide(w) PROVE PriorityInv'
  <2>1. UNCHANGED <<queue, class>> /\ \A v \in Workers \ {w} : wpc[v] \notin {"deciding", "parking"}
    BY <1>5 DEF Park, Decide, history, PriorityInv, LockInv
  <2>2. \A v \in Workers : wpc'[v] \notin {"deciding", "parking"}
    BY <1>5, <2>1 DEF Park, Decide, Leave, LeaveWithTask, Start, Count
  <2>. QED
    BY <2>1, <2>2 DEF PriorityInv, LockInv, ClassInv, OrderInv
<1>6. ASSUME NEW w \in Workers, SpuriousWakeup(w) PROVE PriorityInv'
  BY <1>6, PriorityKept DEF SpuriousWakeup, poolVars, history
<1>7. ASSUME NEW w \in Workers, Finish(w) PROVE PriorityInv'
  BY <1>7 DEF Finish, Return, PriorityInv, LockInv, ClassInv, OrderInv
<1>8. ASSUME NEW c \in Callers, NotifyTask(c) PROVE PriorityInv'
  BY <1>8, PriorityKept DEF NotifyTask, NotifyAll, poolVars, history
<1>9. ASSUME NEW c \in Callers, NEW t \in Tasks, NEW tt \in TaskType, AddTask(c, t, tt)
      PROVE  PriorityInv'
  BY <1>9, PriorityAdd
<1>10. ASSUME NEW t \in Tasks, FinishDetached(t) PROVE PriorityInv'
  BY <1>10, PriorityKept DEF FinishDetached, poolVars, pcVars
<1>11. CASE FinishInit \/ RaiseExit \/ ReleaseReturns \/ DropOwner
  BY <1>11, PriorityKept DEF FinishInit, RaiseExit, ReleaseReturns, DropOwner, poolVars, pcVars,
                             history
<1>12. CASE NotifyExit
  BY <1>12, PriorityKept DEF NotifyExit, NotifyAll, poolVars, history
<1>13. ASSUME NEW w \in Workers, CallFunc(w) PROVE PriorityInv'
  BY <1>13, PriorityKept DEF CallFunc, poolVars
<1>. QED
  BY <1>1, <1>2, <1>3, <1>4, <1>5, <1>6, <1>7, <1>8, <1>9, <1>10, <1>11, <1>12, <1>13 DEF Next

LEMMA PriorityInvInit == Init => PriorityInv
  BY DEF Init, PriorityInv, LockInv, ClassInv, OrderInv

\* A worker chooses a task, and counts itself for it, only while no task of a
\* higher priority is queued (the order of get_task,
\* src/utils/thread_pool.h:126-149).
THEOREM PriorityIsRespected == Spec => PriorityAtStart
<1>. DEFINE Respected == \A w \in Workers : wpc[w] = "deciding" /\ wpc'[w] = "calling" =>
                            \A tt \in TaskType : Rank[tt] < Rank[class[func[w]]] => queue[tt] = <<>>
<1>1. TypeInv /\ PriorityInv /\ [Next]_vars => Respected
  <2>. SUFFICES ASSUME TypeInv, PriorityInv, [Next]_vars,
                       NEW w \in Workers, wpc[w] = "deciding", wpc'[w] = "calling"
                PROVE  \A tt \in TaskType : Rank[tt] < Rank[class[func[w]]] => queue[tt] = <<>>
    OBVIOUS
  <2>1. ASSUME NEW v \in Workers,
               SpawnWorker(v) \/ Enter(v) \/ EvaluatePredicate(v) \/ Park(v)
                 \/ SpuriousWakeup(v) \/ CallFunc(v) \/ Finish(v) \/ Leave(v)
        PROVE  wpc'[w] # "calling"
    BY <2>1 DEF SpawnWorker, Enter, EvaluatePredicate, Park, SpuriousWakeup, CallFunc,
                Finish, Return, Leave, LeaveWithTask, TypeInv, TypeOK
  <2>2. ASSUME \/ UNCHANGED wpc
               \/ NotifyAll
        PROVE  wpc'[w] # "calling"
    BY <2>2 DEF NotifyAll, TypeInv, TypeOK
  <2>3. PICK v \in Workers : Decide(v) /\ Start(v)
    BY <2>1, <2>2 DEF Next, vars, pcVars, Decide, NotifyTask, AddTask, FinishDetached, FinishInit,
           RaiseExit, NotifyExit, ReleaseReturns, DropOwner
  <2>4. ~m_exit
    BY <2>3 DEF Start
  <2>5. func[w] # NoTask
    BY <2>4 DEF TypeInv, FuncInv
  <2>. QED
    BY <2>5 DEF PriorityInv, OrderInv
<1>. QED
  BY <1>1, TypeInvInit, TypeInvStep, PriorityInvInit, PriorityInvStep, PTL DEF Spec, PriorityAtStart

-----------------------------------------------------------------------------
(* Every task is in exactly one place, and the pool therefore implements   *)
(* TaskLedger.                                                             *)

\* The tasks being executed by a worker are the ones in the hands of the running
\* workers, and only tasks that some thread has called have ended.
WorkInv ==
  /\ executed \ finished = {func[w] : w \in Running}
  /\ finished \subseteq executed \cup detached

PlaceInv == EachTaskInOnePlace /\ WorkInv

-----------------------------------------------------------------------------
(* Queues as sets.                                                         *)

LEMMA ElementsOfQueue ==
  ASSUME TypeOK, NEW t
  PROVE  t \in Queued <=> \E tt \in TaskType : \E i \in DOMAIN queue[tt] : queue[tt][i] = t
  BY DEF Queued, Elements

\* Appending a task that was queued nowhere.
LEMMA AppendQueues ==
  ASSUME TypeOK, QueuedOnce, NEW t \in Tasks, NEW tt \in TaskType,
         t \notin Queued, queue' = [queue EXCEPT ![tt] = Append(@, t)]
  PROVE  QueuedOnce' /\ Queued' = Queued \cup {t}
<1>. DEFINE q == queue[tt]
            n == Len(q)
<1>1. q \in Seq(Tasks) /\ n \in Nat /\ DOMAIN q = 1 .. n
  BY DEF TypeOK
<1>2. /\ queue'[tt] = Append(q, t)
      /\ \A other \in TaskType : other # tt => queue'[other] = queue[other]
  BY DEF TypeOK
<1>3. /\ DOMAIN queue'[tt] = DOMAIN q \cup {n + 1}
      /\ queue'[tt][n + 1] = t
      /\ \A i \in DOMAIN q : queue'[tt][i] = q[i] /\ i # n + 1
  BY <1>1, <1>2
<1>4. \A other \in TaskType : \A i \in DOMAIN queue[other] : queue[other][i] # t
  BY DEF Queued, Elements
<1>5. QueuedOnce'
  BY <1>2, <1>3, <1>4 DEF QueuedOnce
<1>6. Elements(queue'[tt]) = Elements(q) \cup {t}
  BY <1>3 DEF Elements
<1>7. Queued' = Queued \cup {t}
  BY <1>2, <1>6 DEF Queued
<1>. QED
  BY <1>5, <1>7

\* Taking the head of a queue takes it out of all the queues.
LEMMA PopQueues ==
  ASSUME TypeOK, QueuedOnce, NEW w \in Workers, NEW tt \in TaskType, IsNext(tt), Pop(w, tt)
  PROVE  /\ QueuedOnce'
         /\ func'[w] \in Queued
         /\ Queued' = Queued \ {func'[w]}
<1>. DEFINE q == queue[tt]
            n == Len(q)
            h == Head(q)
<1>1. q \in Seq(Tasks) /\ q # <<>> /\ n \in Nat \ {0} /\ DOMAIN q = 1 .. n /\ h = q[1]
  BY DEF TypeOK, IsNext
<1>2. /\ queue'[tt] = Tail(q)
      /\ \A other \in TaskType : other # tt => queue'[other] = queue[other]
      /\ func'[w] = h
  BY DEF TypeOK, Pop
<1>3. /\ DOMAIN queue'[tt] = 1 .. n - 1
      /\ \A i \in 1 .. n - 1 : queue'[tt][i] = q[i + 1]
  BY <1>1, <1>2
<1>4. QueuedOnce'
  <2>. SUFFICES ASSUME NEW t1 \in TaskType, NEW t2 \in TaskType,
                       NEW i \in DOMAIN queue'[t1], NEW j \in DOMAIN queue'[t2],
                       queue'[t1][i] = queue'[t2][j]
                PROVE  t1 = t2 /\ i = j
    BY DEF QueuedOnce
  <2>1. CASE t1 = tt /\ t2 = tt
    <3>1. i \in 1 .. n - 1 /\ j \in 1 .. n - 1 /\ q[i + 1] = q[j + 1]
      BY <1>3, <2>1
    <3>2. i + 1 \in DOMAIN q /\ j + 1 \in DOMAIN q
      BY <1>1, <3>1
    <3>3. i + 1 = j + 1
      BY <3>1, <3>2 DEF QueuedOnce
    <3>. QED
      BY <2>1, <3>1, <3>3
  <2>2. CASE t1 = tt /\ t2 # tt
    <3>1. i \in 1 .. n - 1 /\ j \in DOMAIN queue[t2] /\ q[i + 1] = queue[t2][j]
      BY <1>2, <1>3, <2>2
    <3>2. i + 1 \in DOMAIN q
      BY <1>1, <3>1
    <3>. QED
      BY <2>2, <3>1, <3>2 DEF QueuedOnce
  <2>3. CASE t1 # tt /\ t2 = tt
    <3>1. j \in 1 .. n - 1 /\ i \in DOMAIN queue[t1] /\ q[j + 1] = queue[t1][i]
      BY <1>2, <1>3, <2>3
    <3>2. j + 1 \in DOMAIN q
      BY <1>1, <3>1
    <3>. QED
      BY <2>3, <3>1, <3>2 DEF QueuedOnce
  <2>4. CASE t1 # tt /\ t2 # tt
    BY <1>2, <2>4 DEF QueuedOnce
  <2>. QED
    BY <2>1, <2>2, <2>3, <2>4
<1>5. Elements(queue'[tt]) = Elements(q) \ {h}
  <2>1. \A i \in DOMAIN queue'[tt] : queue'[tt][i] # h /\ queue'[tt][i] \in Elements(q)
    <3>. SUFFICES ASSUME NEW i \in 1 .. n - 1 PROVE q[i + 1] # h /\ q[i + 1] \in Elements(q)
      BY <1>3
    <3>1. i + 1 \in DOMAIN q /\ 1 \in DOMAIN q /\ i + 1 # 1
      BY <1>1
    <3>. QED
      BY <1>1, <3>1 DEF QueuedOnce, Elements
  <2>2. \A i \in DOMAIN q : q[i] # h => i - 1 \in DOMAIN queue'[tt] /\ queue'[tt][i - 1] = q[i]
    BY <1>1, <1>3
  <2>. QED
    BY <2>1, <2>2 DEF Elements
<1>6. \A other \in TaskType : other # tt => h \notin Elements(queue[other])
  BY <1>1 DEF QueuedOnce, Elements
<1>7. h \in Elements(q)
  BY <1>1 DEF Elements
<1>. QED
  BY <1>2, <1>4, <1>5, <1>6, <1>7 DEF Queued

-----------------------------------------------------------------------------
(* The steps that move a task.                                             *)

\* A step that moves no task, and changes no state of a worker that has one.
LEMMA PlaceKept ==
  ASSUME PlaceInv,
         UNCHANGED <<queue, func, class, executed, detached, finished, dropped>>,
         \A v \in Workers : func[v] # NoTask =>
           (wpc'[v] \in {"deciding", "calling"} <=> wpc[v] \in {"deciding", "calling"}),
         \A v \in Workers : wpc'[v] = "running" <=> wpc[v] = "running"
  PROVE  PlaceInv'
<1>1. Held' = Held
  BY DEF Held, At
<1>2. Running' = Running
  BY DEF Running, At
<1>3. Submitted' = Submitted /\ Queued' = Queued
  BY DEF Submitted, Queued, Elements
<1>4. QueuedOnce' /\ HeldOnce'
  BY DEF PlaceInv, EachTaskInOnePlace, QueuedOnce, HeldOnce
<1>5. EachTaskInOnePlace'
  BY <1>1, <1>3, <1>4 DEF PlaceInv, EachTaskInOnePlace
<1>6. WorkInv'
  BY <1>2 DEF PlaceInv, WorkInv
<1>. QED
  BY <1>5, <1>6 DEF PlaceInv

LEMMA PlaceAdd ==
  ASSUME TypeInv, PlaceInv, NEW c \in Callers, NEW t \in Tasks, NEW tt \in TaskType,
         AddTask(c, t, tt)
  PROVE  PlaceInv'
<1>1. t \notin Submitted /\ Submitted' = Submitted \cup {t}
  BY DEF AddTask, Submitted, TypeInv, TypeOK, TaskType, NoType
<1>2. t \notin UNION {Queued, Held, executed, detached, dropped}
  BY <1>1 DEF PlaceInv, EachTaskInOnePlace
<1>3. Held' = Held /\ Running' = Running /\ HeldOnce'
  BY DEF AddTask, Held, Running, At, HeldOnce, PlaceInv, EachTaskInOnePlace
<1>4. CASE StartDetached(t)
  <2>1. Queued' = Queued /\ QueuedOnce'
    BY <1>4 DEF StartDetached, Queued, Elements, QueuedOnce, PlaceInv, EachTaskInOnePlace
  <2>2. EachTaskInOnePlace'
    BY <1>1, <1>2, <1>3, <1>4, <2>1 DEF AddTask, StartDetached, PlaceInv, EachTaskInOnePlace
  <2>3. WorkInv'
    BY <1>3, <1>4 DEF AddTask, StartDetached, PlaceInv, WorkInv
  <2>. QED
    BY <2>2, <2>3 DEF PlaceInv
<1>5. CASE Enqueue(t, tt)
  <2>1. Queued' = Queued \cup {t} /\ QueuedOnce'
    BY <1>2, <1>5, AppendQueues DEF Enqueue, TypeInv, PlaceInv, EachTaskInOnePlace
  <2>2. EachTaskInOnePlace'
    BY <1>1, <1>2, <1>3, <1>5, <2>1 DEF AddTask, Enqueue, PlaceInv, EachTaskInOnePlace
  <2>3. WorkInv'
    BY <1>3, <1>5 DEF AddTask, Enqueue, PlaceInv, WorkInv
  <2>. QED
    BY <2>2, <2>3 DEF PlaceInv
<1>. QED
  BY <1>4, <1>5 DEF AddTask

LEMMA PlacePop ==
  ASSUME TypeInv, PlaceInv, NEW w \in Workers, EvaluatePredicate(w), GetTask(w),
         wpc' = [wpc EXCEPT ![w] = "deciding"]
  PROVE  PlaceInv'
<1>1. PICK tt \in TaskType : IsNext(tt) /\ Pop(w, tt)
  BY DEF GetTask
<1>. DEFINE h == func'[w]
<1>2. /\ QueuedOnce'
      /\ h \in Queued
      /\ Queued' = Queued \ {h}
  BY <1>1, PopQueues DEF TypeInv, PlaceInv, EachTaskInOnePlace
<1>3. /\ h \notin UNION {Held, executed, detached, dropped}
      /\ h \in Tasks
      /\ h # NoTask
  BY <1>2, NoTaskAssumption DEF PlaceInv, EachTaskInOnePlace, Submitted
<1>4. /\ wpc[w] = "locking"
      /\ func[w] = NoTask
      /\ \A v \in Workers : v # w => func'[v] = func[v] /\ wpc'[v] = wpc[v]
      /\ wpc'[w] = "deciding"
  BY <1>1 DEF EvaluatePredicate, Pop, TypeInv, TypeOK, FuncInv
<1>5. Held' = Held \cup {h}
  BY <1>3, <1>4 DEF Held, At
<1>6. Running' = Running /\ w \notin Running
  BY <1>4 DEF Running, At
<1>7. \A v \in Workers : v # w => func[v] # h
  BY <1>2, <1>3 DEF Held, At, Running, PlaceInv, WorkInv, TypeInv, FuncInv
<1>8. HeldOnce'
  BY <1>4, <1>7 DEF HeldOnce, PlaceInv, EachTaskInOnePlace
<1>9. UNCHANGED <<class, executed, detached, finished, dropped>>
  BY DEF EvaluatePredicate, history
<1>10. EachTaskInOnePlace'
  <2>1. Submitted' = Submitted
    BY <1>9 DEF Submitted
  <2>. QED
    BY <1>2, <1>3, <1>5, <1>8, <1>9, <2>1 DEF PlaceInv, EachTaskInOnePlace
<1>11. WorkInv'
  <2>1. \A v \in Running : func'[v] = func[v]
    BY <1>4, <1>6 DEF Running, At
  <2>. QED
    BY <1>6, <1>9, <2>1 DEF PlaceInv, WorkInv
<1>. QED
  BY <1>10, <1>11 DEF PlaceInv

LEMMA PlaceLeave ==
  ASSUME TypeInv, PlaceInv, NEW w \in Workers, Decide(w), Leave(w)
  PROVE  PlaceInv'
<1>1. /\ wpc[w] = "deciding"
      /\ wpc' = [wpc EXCEPT ![w] = "exited"]
      /\ func' = [func EXCEPT ![w] = NoTask]
      /\ dropped' = dropped \cup ({func[w]} \ {NoTask})
      /\ UNCHANGED <<queue, class, executed, detached, finished>>
  BY DEF Decide, Leave, LeaveWithTask
<1>2. HeldOnce'
  BY <1>1 DEF HeldOnce, PlaceInv, EachTaskInOnePlace, TypeInv, TypeOK
<1>3. Held' = Held \ {func[w]}
  BY <1>1 DEF Held, At, HeldOnce, PlaceInv, EachTaskInOnePlace, TypeInv, TypeOK
<1>4. {func[w]} \ {NoTask} \subseteq Held
  BY <1>1 DEF Held, At
<1>5. Queued' = Queued /\ QueuedOnce' /\ Submitted' = Submitted
  BY <1>1 DEF Queued, Elements, QueuedOnce, Submitted, PlaceInv, EachTaskInOnePlace
<1>6. NoTask \notin Held
  BY DEF Held
<1>7. EachTaskInOnePlace'
  BY <1>1, <1>2, <1>3, <1>4, <1>5, <1>6 DEF PlaceInv, EachTaskInOnePlace
<1>8. Running' = Running /\ \A v \in Running : func'[v] = func[v]
  BY <1>1 DEF Running, At, TypeInv, TypeOK
<1>9. WorkInv'
  BY <1>1, <1>8 DEF PlaceInv, WorkInv
<1>. QED
  BY <1>7, <1>9 DEF PlaceInv

LEMMA PlaceCall ==
  ASSUME TypeInv, PlaceInv, NEW w \in Workers, CallFunc(w)
  PROVE  PlaceInv' /\ func[w] \in Held
<1>1. /\ wpc[w] = "calling"
      /\ wpc' = [wpc EXCEPT ![w] = "running"]
      /\ func[w] \in Tasks
      /\ executed' = executed \cup {func[w]}
      /\ UNCHANGED <<queue, func, class, detached, finished, dropped>>
  BY DEF CallFunc, poolVars, TypeInv, TypeOK, FuncInv
<1>2. HeldOnce'
  BY <1>1 DEF HeldOnce, PlaceInv, EachTaskInOnePlace
<1>3. Held' = Held \ {func[w]}
  BY <1>1, NoTaskAssumption DEF Held, At, HeldOnce, PlaceInv, EachTaskInOnePlace, TypeInv, TypeOK
<1>4. func[w] \in Held
  BY <1>1, NoTaskAssumption DEF Held, At
<1>5. Queued' = Queued /\ QueuedOnce' /\ Submitted' = Submitted
  BY <1>1 DEF Queued, Elements, QueuedOnce, Submitted, PlaceInv, EachTaskInOnePlace
<1>6. EachTaskInOnePlace'
  BY <1>1, <1>2, <1>3, <1>4, <1>5 DEF PlaceInv, EachTaskInOnePlace
<1>7. Running' = Running \cup {w}
  BY <1>1 DEF Running, At, TypeInv, TypeOK
<1>8. func[w] \notin finished
  BY <1>4 DEF PlaceInv, EachTaskInOnePlace, WorkInv
<1>9. WorkInv'
  BY <1>1, <1>7, <1>8 DEF PlaceInv, WorkInv
<1>. QED
  BY <1>4, <1>6, <1>9 DEF PlaceInv

LEMMA PlaceFinish ==
  ASSUME TypeInv, PlaceInv, NEW w \in Workers, Finish(w)
  PROVE  PlaceInv' /\ func[w] \in executed \ finished
<1>1. /\ wpc[w] = "running"
      /\ wpc' = [wpc EXCEPT ![w] = "exited"]
      /\ func' = [func EXCEPT ![w] = NoTask]
      /\ finished' = finished \cup {func[w]}
      /\ UNCHANGED <<queue, class, executed, detached, dropped>>
      /\ func[w] # NoTask
  BY NoTaskAssumption DEF Finish, Return, TypeInv, FuncInv
<1>2. HeldOnce'
  BY <1>1 DEF HeldOnce, PlaceInv, EachTaskInOnePlace, TypeInv, TypeOK
<1>3. Held' = Held
  BY <1>1 DEF Held, At, TypeInv, TypeOK
<1>4. Queued' = Queued /\ QueuedOnce' /\ Submitted' = Submitted
  BY <1>1 DEF Queued, Elements, QueuedOnce, Submitted, PlaceInv, EachTaskInOnePlace
<1>5. EachTaskInOnePlace'
  BY <1>1, <1>2, <1>3, <1>4 DEF PlaceInv, EachTaskInOnePlace
<1>6. func[w] \in executed \ finished
  BY <1>1 DEF Running, At, PlaceInv, WorkInv
<1>7. Running' = Running \ {w} /\ \A v \in Running' : func'[v] = func[v] /\ func[v] # func[w]
  BY <1>1 DEF Running, At, TypeInv, TypeOK, HeldOnce, PlaceInv, EachTaskInOnePlace
<1>8. w \in Running
  BY <1>1 DEF Running, At
<1>9. WorkInv'
  BY <1>1, <1>6, <1>7, <1>8 DEF PlaceInv, WorkInv
<1>. QED
  BY <1>5, <1>6, <1>9 DEF PlaceInv

LEMMA PlaceFinishDetached ==
  ASSUME TypeInv, PlaceInv, NEW t \in Tasks, FinishDetached(t)
  PROVE  PlaceInv'
<1>1. UNCHANGED <<queue, wpc, func, class, executed, detached, dropped>>
  BY DEF FinishDetached, poolVars, pcVars
<1>2. t \in detached /\ t \notin executed /\ finished' = finished \cup {t}
  BY DEF FinishDetached, PlaceInv, EachTaskInOnePlace
<1>3. Held' = Held /\ Running' = Running /\ Queued' = Queued /\ Submitted' = Submitted
  BY <1>1 DEF Held, Running, At, Queued, Elements, Submitted
<1>4. QueuedOnce' /\ HeldOnce'
  BY <1>1 DEF QueuedOnce, HeldOnce, PlaceInv, EachTaskInOnePlace
<1>5. EachTaskInOnePlace'
  BY <1>1, <1>3, <1>4 DEF PlaceInv, EachTaskInOnePlace
<1>6. WorkInv'
  BY <1>1, <1>2, <1>3 DEF PlaceInv, WorkInv
<1>. QED
  BY <1>5, <1>6 DEF PlaceInv

-----------------------------------------------------------------------------
LEMMA PlaceInvInit == Init => PlaceInv
<1>. SUFFICES ASSUME Init PROVE PlaceInv
  OBVIOUS
<1>1. /\ Queued = {}
      /\ Held = {}
      /\ Running = {}
      /\ Submitted = {}
  BY DEF Init, Queued, Elements, Held, Running, At, Submitted
<1>2. QueuedOnce /\ HeldOnce
  BY DEF Init, QueuedOnce, HeldOnce
<1>. QED
  BY <1>1, <1>2 DEF Init, PlaceInv, EachTaskInOnePlace, WorkInv

LEMMA PlaceInvStep == TypeInv /\ PlaceInv /\ [Next]_vars => PlaceInv'
<1>. SUFFICES ASSUME TypeInv, PlaceInv, [Next]_vars PROVE PlaceInv'
  OBVIOUS
<1>. USE DEF TypeInv, TypeOK
<1>1. CASE UNCHANGED vars
  BY <1>1, PlaceKept DEF vars, poolVars, pcVars, history
<1>2. ASSUME NEW w \in Workers, SpawnWorker(w) PROVE PlaceInv'
  BY <1>2, PlaceKept DEF SpawnWorker, poolVars, history
<1>3. ASSUME NEW w \in Workers, Enter(w) PROVE PlaceInv'
  BY <1>3, PlaceKept DEF Enter, poolVars, history
<1>4. ASSUME NEW w \in Workers, EvaluatePredicate(w) PROVE PlaceInv'
  <2>1. CASE GetTask(w) /\ wpc' = [wpc EXCEPT ![w] = "deciding"]
    BY <1>4, <2>1, PlacePop
  <2>2. CASE /\ UNCHANGED <<queue, func>>
             /\ wpc' = [wpc EXCEPT ![w] = IF m_exit THEN "deciding" ELSE "parking"]
    <3>1. UNCHANGED <<class, executed, detached, finished, dropped>> /\ wpc[w] = "locking"
      BY <1>4 DEF EvaluatePredicate, history
    <3>2. func[w] = NoTask
      BY <3>1 DEF FuncInv
    <3>. QED
      BY <2>2, <3>1, <3>2, PlaceKept
  <2>. QED
    BY <1>4, <2>1, <2>2 DEF EvaluatePredicate
<1>5. ASSUME NEW w \in Workers, Park(w) PROVE PlaceInv'
  BY <1>5, PlaceKept DEF Park, history
<1>6. ASSUME NEW w \in Workers, SpuriousWakeup(w) PROVE PlaceInv'
  BY <1>6, PlaceKept DEF SpuriousWakeup, poolVars, history
<1>7. ASSUME NEW w \in Workers, Decide(w) PROVE PlaceInv'
  <2>1. CASE Start(w)
    BY <1>7, <2>1, PlaceKept DEF Decide, Start, Count
  <2>. QED
    BY <1>7, <2>1, PlaceLeave DEF Decide
<1>8. ASSUME NEW w \in Workers, Finish(w) PROVE PlaceInv'
  BY <1>8, PlaceFinish
<1>9. ASSUME NEW c \in Callers, NotifyTask(c) PROVE PlaceInv'
  BY <1>9, PlaceKept DEF NotifyTask, NotifyAll, poolVars, history
<1>10. ASSUME NEW c \in Callers, NEW t \in Tasks, NEW tt \in TaskType, AddTask(c, t, tt)
       PROVE  PlaceInv'
  BY <1>10, PlaceAdd
<1>11. ASSUME NEW t \in Tasks, FinishDetached(t) PROVE PlaceInv'
  BY <1>11, PlaceFinishDetached
<1>12. CASE FinishInit \/ RaiseExit \/ ReleaseReturns \/ DropOwner
  BY <1>12, PlaceKept DEF FinishInit, RaiseExit, ReleaseReturns, DropOwner, poolVars, pcVars, history
<1>13. CASE NotifyExit
  BY <1>13, PlaceKept DEF NotifyExit, NotifyAll, poolVars, history
<1>14. ASSUME NEW w \in Workers, CallFunc(w) PROVE PlaceInv'
  BY <1>14, PlaceCall
<1>. QED
  BY <1>1, <1>2, <1>3, <1>4, <1>5, <1>6, <1>7, <1>8, <1>9, <1>10, <1>11, <1>12, <1>13, <1>14
     DEF Next

\* Every task handed to add_task is in exactly one place, for any number of
\* workers, callers and tasks: this is at-most-once execution
\* (get_task and run, src/utils/thread_pool.h:104-149).
THEOREM TasksHaveOnePlace == Spec => []EachTaskInOnePlace
<1>1. PlaceInv => EachTaskInOnePlace
  BY DEF PlaceInv
<1>. QED
  BY <1>1, TypeInvInit, TypeInvStep, PlaceInvInit, PlaceInvStep, PTL DEF Spec

-----------------------------------------------------------------------------
(* The refinement.  Each step of the pool is a step of the ledger, or      *)
(* leaves the ledger alone.                                                *)

RefInv == TypeInv /\ ReleaseInv /\ PlaceInv

\* The fate of a task, from the history variables alone.
FateBySets(t) ==
  IF t \in finished THEN "done"
  ELSE IF t \in executed THEN "working"
  ELSE IF t \in detached THEN "detached"
  ELSE IF t \in dropped THEN "discarded"
  ELSE IF class[t] # NoType THEN "pending" ELSE "new"

\* As long as every task is in one place, that is the fate that the queues and
\* the workers show.
LEMMA FateIsBySets ==
  ASSUME PlaceInv, NEW t \in Tasks
  PROVE  FateOf(t) = FateBySets(t)
<1>1. t \in executed \ finished <=> \E w \in Running : func[w] = t
  BY DEF PlaceInv, WorkInv
<1>2. finished \subseteq executed \cup detached
  BY DEF PlaceInv, WorkInv
<1>3. /\ class[t] # NoType <=> t \in UNION {Queued, Held, executed, detached, dropped}
      /\ Queued \cap (Held \cup executed \cup detached \cup dropped) = {}
      /\ Held \cap (executed \cup detached \cup dropped) = {}
      /\ executed \cap (detached \cup dropped) = {}
      /\ detached \cap dropped = {}
  BY DEF PlaceInv, EachTaskInOnePlace, Submitted
<1>. QED
  BY <1>1, <1>2, <1>3 DEF FateOf, FateBySets

LEMMA FateIsBySetsNext ==
  ASSUME PlaceInv', NEW t \in Tasks
  PROVE  FateOf(t)' = FateBySets(t)'
<1>1. (t \in executed \ finished <=> \E w \in Running : func[w] = t)'
  BY DEF PlaceInv, WorkInv
<1>2. (finished \subseteq executed \cup detached)'
  BY DEF PlaceInv, WorkInv
<1>3. (/\ class[t] # NoType <=> t \in UNION {Queued, Held, executed, detached, dropped}
       /\ Queued \cap (Held \cup executed \cup detached \cup dropped) = {}
       /\ Held \cap (executed \cup detached \cup dropped) = {}
       /\ executed \cap (detached \cup dropped) = {}
       /\ detached \cap dropped = {})'
  BY DEF PlaceInv, EachTaskInOnePlace, Submitted
<1>. QED
  BY <1>1, <1>2, <1>3 DEF FateOf, FateBySets

LEMMA FatesKept ==
  ASSUME PlaceInv, PlaceInv', UNCHANGED <<class, executed, detached, finished, dropped>>
  PROVE  [t \in Tasks |-> FateOf(t)]' = [t \in Tasks |-> FateOf(t)]
<1>1. \A t \in Tasks : FateBySets(t)' = FateBySets(t)
  BY DEF FateBySets
<1>. QED
  BY <1>1, FateIsBySets, FateIsBySetsNext

LEMMA LedgerStutters ==
  ASSUME PlaceInv, PlaceInv', UNCHANGED <<class, executed, detached, finished, dropped, m_exit>>,
         (rpc = "returned")' = (rpc = "returned")
  PROVE  UNCHANGED Ledger!ledger
  BY FatesKept DEF Ledger!ledger

\* A step that changes the fate of one task, and neither flag, is a Move.
LEMMA FateMoves ==
  ASSUME PlaceInv, PlaceInv', NEW t \in Tasks, NEW from, NEW to,
         FateBySets(t) = from, FateBySets(t)' = to,
         \A u \in Tasks \ {t} : FateBySets(u)' = FateBySets(u),
         UNCHANGED <<m_exit, rpc>>
  PROVE  Ledger!Move(t, from, to)
<1>1. FateOf(t) = from
  BY FateIsBySets
<1>2. FateOf(t)' = to /\ \A u \in Tasks \ {t} : FateOf(u)' = FateOf(u)
  BY FateIsBySets, FateIsBySetsNext
<1>3. [u \in Tasks |-> FateOf(u)]' = [[u \in Tasks |-> FateOf(u)] EXCEPT ![t] = to]
  BY <1>2
<1>. QED
  BY <1>1, <1>3 DEF Ledger!Move

LEMMA AddTaskImplements ==
  ASSUME RefInv, PlaceInv', NEW c \in Callers, NEW t \in Tasks, NEW tt \in TaskType, AddTask(c, t, tt)
  PROVE  Ledger!Submit(t) \/ Ledger!Detach(t)
<1>1. t \notin UNION {executed, detached, finished, dropped} /\ class[t] = NoType
  BY DEF AddTask, Submitted, RefInv, PlaceInv, EachTaskInOnePlace, WorkInv
<1>2. /\ class' = [class EXCEPT ![t] = tt]
      /\ class \in [Tasks -> TaskType \cup {NoType}]
      /\ tt # NoType
      /\ UNCHANGED <<executed, finished, dropped, m_exit, rpc>>
  BY DEF AddTask, RefInv, TypeInv, TypeOK, TaskType, NoType
<1>3. FateBySets(t) = "new"
  BY <1>1 DEF FateBySets
<1>4. CASE StartDetached(t)
  <2>1. FateBySets(t)' = "detached"
    BY <1>1, <1>2, <1>4 DEF FateBySets, StartDetached
  <2>2. \A u \in Tasks \ {t} : FateBySets(u)' = FateBySets(u)
    BY <1>2, <1>4 DEF FateBySets, StartDetached
  <2>. QED
    BY <1>2, <1>3, <2>1, <2>2, FateMoves DEF RefInv, Ledger!Detach
<1>5. CASE Enqueue(t, tt)
  <2>1. FateBySets(t)' = "pending"
    BY <1>1, <1>2, <1>5 DEF FateBySets, Enqueue
  <2>2. \A u \in Tasks \ {t} : FateBySets(u)' = FateBySets(u)
    BY <1>2, <1>5 DEF FateBySets, Enqueue
  <2>. QED
    BY <1>2, <1>3, <2>1, <2>2, FateMoves DEF RefInv, Ledger!Submit
<1>. QED
  BY <1>4, <1>5 DEF AddTask

\* The fate of a task in the hands of a worker that has not called it.
LEMMA HeldIsPending ==
  ASSUME RefInv, NEW t \in Held
  PROVE  t \in Tasks /\ FateBySets(t) = "pending"
<1>1. t \in Submitted /\ t \notin UNION {executed, detached, dropped, finished}
  BY DEF RefInv, PlaceInv, EachTaskInOnePlace, WorkInv
<1>. QED
  BY <1>1 DEF FateBySets, Submitted

LEMMA DecideImplements ==
  ASSUME RefInv, PlaceInv', NEW w \in Workers, Decide(w)
  PROVE  \/ \E t \in Tasks : Ledger!Discard(t)
         \/ UNCHANGED Ledger!ledger
<1>1. UNCHANGED <<class, executed, detached, finished, m_exit, rpc>> /\ wpc[w] = "deciding"
  BY DEF Decide
<1>2. CASE Start(w)
  BY <1>1, <1>2, LedgerStutters DEF RefInv, Decide, Start, Count
<1>3. CASE Leave(w) /\ func[w] # NoTask
  <2>1. PICK t \in Held : t = func[w]
    BY <1>1, <1>3 DEF Held, At
  <2>2. dropped' = dropped \cup {t} /\ m_exit
    BY <1>3, <2>1 DEF Leave, LeaveWithTask
  <2>3. t \in Tasks /\ FateBySets(t) = "pending"
    BY HeldIsPending
  <2>4. FateBySets(t)' = "discarded"
    <3>1. t \notin UNION {executed, detached, finished}
      BY DEF RefInv, PlaceInv, EachTaskInOnePlace, WorkInv
    <3>. QED
      BY <1>1, <2>2, <3>1 DEF FateBySets
  <2>5. \A u \in Tasks \ {t} : FateBySets(u)' = FateBySets(u)
    BY <1>1, <2>2 DEF FateBySets
  <2>6. Ledger!Move(t, "pending", "discarded")
    BY <1>1, <2>3, <2>4, <2>5, FateMoves DEF RefInv
  <2>. QED
    BY <2>2, <2>3, <2>6 DEF Ledger!Discard
<1>4. CASE Leave(w) /\ func[w] = NoTask
  BY <1>1, <1>4, LedgerStutters DEF RefInv, Leave, LeaveWithTask
<1>. QED
  BY <1>2, <1>3, <1>4 DEF Decide

LEMMA CallImplements ==
  ASSUME RefInv, PlaceInv', NEW w \in Workers, CallFunc(w)
  PROVE  \E t \in Tasks : Ledger!Start(t)
<1>1. PICK t \in Held : t = func[w]
  BY PlaceCall DEF RefInv
<1>2. executed' = executed \cup {t} /\ UNCHANGED <<class, detached, finished, dropped, m_exit, rpc>>
  BY <1>1 DEF CallFunc, poolVars
<1>3. t \in Tasks /\ FateBySets(t) = "pending"
  BY HeldIsPending
<1>4. FateBySets(t)' = "working"
  <2>1. t \notin finished
    BY DEF RefInv, PlaceInv, EachTaskInOnePlace, WorkInv
  <2>. QED
    BY <1>2, <2>1 DEF FateBySets
<1>5. \A u \in Tasks \ {t} : FateBySets(u)' = FateBySets(u)
  BY <1>2 DEF FateBySets
<1>6. Ledger!Move(t, "pending", "working")
  BY <1>2, <1>3, <1>4, <1>5, FateMoves DEF RefInv
<1>7. rpc # "returned"
  <2>1. w \in Counted
    BY DEF CallFunc, Counted, At
  <2>. QED
    BY <2>1 DEF RefInv, ReleaseInv, ReleaseQuiesces
<1>. QED
  BY <1>3, <1>6, <1>7 DEF Ledger!Start

\* The end of a task's body, on whichever thread.
LEMMA FinishImplements ==
  ASSUME RefInv, PlaceInv', NEW t \in Tasks, t \notin finished, finished' = finished \cup {t},
         t \in executed \cup detached,
         UNCHANGED <<class, executed, detached, dropped, m_exit, rpc>>
  PROVE  Ledger!Complete(t)
<1>1. FateBySets(t)' = "done" /\ \A u \in Tasks \ {t} : FateBySets(u)' = FateBySets(u)
  BY DEF FateBySets
<1>2. CASE t \in executed
  <2>1. FateBySets(t) = "working"
    BY <1>2 DEF FateBySets
  <2>. QED
    BY <1>1, <2>1, FateMoves DEF RefInv, Ledger!Complete
<1>3. CASE t \notin executed
  <2>1. FateBySets(t) = "detached"
    BY <1>3 DEF FateBySets
  <2>. QED
    BY <1>1, <2>1, FateMoves DEF RefInv, Ledger!Complete
<1>. QED
  BY <1>2, <1>3

LEMMA ReleaseImplements ==
  ASSUME RefInv, PlaceInv', ReleaseReturns
  PROVE  Ledger!Close
<1>1. m_exit /\ rpc # "returned" /\ rpc' = "returned"
  BY DEF ReleaseReturns, RefInv, ReleaseInv
<1>2. UNCHANGED <<class, executed, detached, finished, dropped, m_exit>>
  BY DEF ReleaseReturns, history, poolVars
<1>3. Cardinality(Counted) = 0
  BY CountedBounded DEF ReleaseReturns, RefInv, TypeInv, CountInv
<1>4. Running = {}
  BY <1>3, CountedBounded, FS_EmptySet DEF Counted
<1>5. \A t \in Tasks : FateOf(t) # "working"
  BY <1>4 DEF FateOf
<1>. QED
  BY <1>1, <1>2, <1>5, FatesKept DEF RefInv, Ledger!Close

LEMMA LedgerStep ==
  RefInv /\ [Next]_vars => [Ledger!LedgerNext]_(Ledger!ledger)
<1>. SUFFICES ASSUME RefInv, [Next]_vars PROVE [Ledger!LedgerNext]_(Ledger!ledger)
  OBVIOUS
<1>0. PlaceInv'
  BY PlaceInvStep DEF RefInv
<1>1. CASE UNCHANGED vars
  BY <1>0, <1>1, LedgerStutters DEF RefInv, vars, poolVars, pcVars, history
<1>2. ASSUME NEW w \in Workers,
             SpawnWorker(w) \/ Enter(w) \/ EvaluatePredicate(w) \/ Park(w) \/ SpuriousWakeup(w)
      PROVE  UNCHANGED Ledger!ledger
  BY <1>0, <1>2, LedgerStutters DEF RefInv, SpawnWorker, Enter, EvaluatePredicate, Park, SpuriousWakeup,
                              poolVars, history
<1>3. ASSUME NEW w \in Workers, Decide(w) PROVE [Ledger!LedgerNext]_(Ledger!ledger)
  BY <1>0, <1>3, DecideImplements DEF Ledger!LedgerNext
<1>4. ASSUME NEW w \in Workers, Finish(w) PROVE Ledger!LedgerNext
  <2>1. PICK t \in executed \ finished : t = func[w]
    BY <1>4, PlaceFinish DEF RefInv
  <2>2. t \in Tasks
    BY DEF RefInv, TypeInv, TypeOK
  <2>3. Ledger!Complete(t)
    BY <1>0, <1>4, <2>1, <2>2, FinishImplements DEF Finish
  <2>. QED
    BY <2>2, <2>3 DEF Ledger!LedgerNext
<1>5. ASSUME NEW c \in Callers, NotifyTask(c) PROVE UNCHANGED Ledger!ledger
  BY <1>0, <1>5, LedgerStutters DEF RefInv, NotifyTask, poolVars, history
<1>6. ASSUME NEW c \in Callers, NEW t \in Tasks, NEW tt \in TaskType, AddTask(c, t, tt)
      PROVE  Ledger!LedgerNext
  BY <1>0, <1>6, AddTaskImplements DEF Ledger!LedgerNext
<1>7. ASSUME NEW t \in Tasks, FinishDetached(t) PROVE Ledger!LedgerNext
  <2>1. Ledger!Complete(t)
    BY <1>0, <1>7, FinishImplements DEF FinishDetached, poolVars, pcVars
  <2>. QED
    BY <2>1 DEF Ledger!LedgerNext
<1>8. CASE FinishInit \/ DropOwner \/ NotifyExit
  <2>1. (rpc = "returned")' = (rpc = "returned")
    BY <1>8 DEF FinishInit, DropOwner, NotifyExit, pcVars
  <2>. QED
    BY <1>0, <1>8, <2>1, LedgerStutters DEF RefInv, FinishInit, DropOwner, NotifyExit, poolVars, history
<1>9. CASE RaiseExit
  <2>1. (rpc = "returned")' = (rpc = "returned") /\ m_exit' = TRUE
    BY <1>9 DEF RaiseExit
  <2>2. UNCHANGED <<class, executed, detached, finished, dropped>>
    BY <1>9 DEF RaiseExit, history
  <2>3. CASE m_exit
    BY <1>0, <2>1, <2>2, <2>3, LedgerStutters DEF RefInv, TypeInv, TypeOK
  <2>4. CASE ~m_exit
    <3>1. Ledger!BeginClose
      BY <1>0, <2>1, <2>2, <2>4, FatesKept DEF RefInv, Ledger!BeginClose
    <3>. QED
      BY <3>1 DEF Ledger!LedgerNext
  <2>. QED
    BY <2>3, <2>4
<1>10. CASE ReleaseReturns
  BY <1>0, <1>10, ReleaseImplements DEF Ledger!LedgerNext
<1>11. ASSUME NEW w \in Workers, CallFunc(w) PROVE Ledger!LedgerNext
  BY <1>0, <1>11, CallImplements DEF Ledger!LedgerNext
<1>. QED
  BY <1>1, <1>2, <1>3, <1>4, <1>5, <1>6, <1>7, <1>8, <1>9, <1>10, <1>11 DEF Next

\* The pool keeps the promise of TaskLedger about the fate of every task: it is
\* executed at most once, discarded only once release() has begun, and never
\* begun after release() has returned.
THEOREM PoolImplementsLedger == Spec => LedgerSpec
<1>1. Init => Ledger!LedgerInit
  BY DEF Init, Ledger!LedgerInit, FateOf, Queued, Held, Elements, Running, At, TaskType
<1>2. Init => ReleaseInv
  BY DEF Init, ReleaseInv, ReleaseQuiesces
<1>3. Spec => []RefInv
  BY <1>2, TypeInvInit, TypeInvStep, ReleaseInvStep, PlaceInvInit, PlaceInvStep, PTL
     DEF Spec, RefInv
<1>. QED
  BY <1>1, <1>3, LedgerStep, PTL DEF Spec, LedgerSpec, Ledger!LedgerSpec

-----------------------------------------------------------------------------
(* For a module that composes the pool: all that is invariant in it.       *)

PoolInv == TypeInv /\ PlaceInv /\ PriorityInv

LEMMA PoolInvariant == Spec => []PoolInv
  BY TypeInvInit, TypeInvStep, PlaceInvInit, PlaceInvStep, PriorityInvInit, PriorityInvStep, PTL
     DEF Spec, PoolInv

=============================================================================
