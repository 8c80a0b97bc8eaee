----------------------------- MODULE TaskLedger -----------------------------
(***************************************************************************)
(* What thread_pool promises about the fate of each task handed to         *)
(* add_task, with the queues, the mutex, the condition variable and the    *)
(* worker threads hidden:                                                  *)
(*                                                                         *)
(*   - a task is executed at most once, by a worker or on a thread of its  *)
(*     own, and once executed it is neither queued nor discarded;          *)
(*   - a task is discarded only after release() has raised the exit flag;  *)
(*   - when release() has returned no worker executes a task, or will.     *)
(*                                                                         *)
(* ThreadPool implements this specification (PROPERTY LedgerSpec there).   *)
(***************************************************************************)
CONSTANT Tasks    \* the calls of add_task that a behaviour may contain

VARIABLES
  fate,       \* where each task is on its way through the pool
  closing,    \* release() has raised the exit flag
  closed      \* release() has returned

ledger == <<fate, closing, closed>>

Fates == {"new", "pending", "working", "detached", "done", "discarded"}

LedgerTypeOK ==
  /\ fate \in [Tasks -> Fates]
  /\ closing \in BOOLEAN
  /\ closed \in BOOLEAN

LedgerInit ==
  /\ fate = [t \in Tasks |-> "new"]
  /\ closing = FALSE
  /\ closed = FALSE

Move(t, from, to) ==
  /\ fate[t] = from
  /\ fate' = [fate EXCEPT ![t] = to]
  /\ UNCHANGED <<closing, closed>>

Submit(t) == Move(t, "new", "pending")

Detach(t) == Move(t, "new", "detached")

Start(t) == ~closed /\ Move(t, "pending", "working")

Complete(t) == Move(t, "working", "done") \/ Move(t, "detached", "done")

Discard(t) == closing /\ Move(t, "pending", "discarded")

BeginClose ==
  /\ ~closing
  /\ closing' = TRUE
  /\ UNCHANGED <<fate, closed>>

Close ==
  /\ closing
  /\ ~closed
  /\ \A t \in Tasks : fate[t] # "working"
  /\ closed' = TRUE
  /\ UNCHANGED <<fate, closing>>

LedgerNext ==
  \/ \E t \in Tasks : Submit(t) \/ Detach(t) \/ Start(t) \/ Complete(t) \/ Discard(t)
  \/ BeginClose
  \/ Close

LedgerSpec == LedgerInit /\ [][LedgerNext]_ledger
=============================================================================
