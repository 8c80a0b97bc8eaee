------------------------------ MODULE TimeWheel ------------------------------
(***************************************************************************)
(* DCS::time_wheel (src/utils/thread_pool.h).                              *)
(*                                                                         *)
(* add_ms_task and the tick that init_wheel posts run under m_mutex.       *)
(* cancel_timer does not: it declares a local unique_lock of the name      *)
(* m_mutex, which hides the member and locks nothing.  It is therefore     *)
(* modelled as the two accesses it makes to an entry of the wheel, and     *)
(* both critical sections are cut wherever such an access can fall.        *)
(*                                                                         *)
(* Time is counted in turns of the wheel: one for each call of init_wheel, *)
(* whose thread posts a single tick.  The pool that runs ticks and timers  *)
(* is left to ThreadPool; here a posted tick runs at any later time, or    *)
(* never.                                                                  *)
(***************************************************************************)
EXTENDS Integers, Sequences, FiniteSets, FiniteSetsExt

CONSTANTS
  ScaleCount,   \* m_scale_count; 100 in the code
  Delays,       \* the values of ms given to add_ms_task
  MaxTimers,    \* bounds the calls of add_ms_task
  MaxInits,     \* bounds the calls of init_wheel, and so the turns
  Cancellers    \* the threads that call cancel_timer

ASSUME ScaleCountAssumption == ScaleCount \in Nat \ {0}
ASSUME DelaysAssumption == Delays \subseteq Int
ASSUME BoundsAssumption == MaxTimers \in Nat /\ MaxInits \in Nat

VARIABLES
  m_current_scale,
  m_cid,
  m_task_map,     \* the entries of each slot; an absent key is an empty vector
  m_id_map,       \* the slot of each id; an absent key reads 0 (operator[])
  mutex,          \* which critical section of m_mutex is in progress
  adding,         \* the local variables of add_ms_task, while it has the mutex
  pos,            \* the entry that process() is at, 0 outside process()
  decrementing,   \* process() has examined that entry and not yet counted it down
  asleep,         \* threads of init_wheel that have not posted their tick
  ticks,          \* posted ticks that have not begun
  marking,        \* for each canceller, the entry it is about to invalidate
  inits,          \* history: calls of init_wheel
  turns,          \* history: turns of the wheel
  born,           \* history: when and with what delay each timer was added
  fired,          \* history: the turns each timer had waited when it was posted
  hit,            \* history: timers whose entry a canceller has invalidated
  cancelled,      \* history: timers for which cancel_timer has returned true
  stopped         \* history: those of them cancelled while the mutex was free

wheelVars == <<m_current_scale, m_cid, m_task_map, m_id_map>>
lockVars  == <<mutex, adding, pos, decrementing>>
tickVars  == <<asleep, ticks, inits>>
history   == <<turns, born, fired, hit, cancelled, stopped>>
vars      == <<wheelVars, lockVars, tickVars, marking, history>>

Ids == 1 .. MaxTimers
Nothing == [kind |-> "nothing"]

\* C++ division and remainder truncate towards zero.
Quotient(a)  == IF a >= 0 THEN a \div ScaleCount ELSE -((-a) \div ScaleCount)
Remainder(a) == a - ScaleCount * Quotient(a)

\* Keys of m_task_map: remainders, and the positions of the wheel.
Slots == 1 - ScaleCount .. ScaleCount

Entries == [count : Int, id : Ids, valid : BOOLEAN]
Current == m_task_map[m_current_scale]

TypeOK ==
  /\ m_current_scale \in 1 .. ScaleCount
  /\ m_cid \in 0 .. MaxTimers
  /\ m_task_map \in [Slots -> Seq(Entries)]
  /\ m_id_map \in [Ids -> Slots]
  /\ mutex \in {"free", "adding", "ticking"}
  /\ adding \in {Nothing} \cup [slot : Slots, index : Nat \ {0}, entry : Entries]
  /\ pos \in Nat
  /\ decrementing \in BOOLEAN
  /\ asleep \in 0 .. MaxInits /\ ticks \in 0 .. MaxInits /\ inits \in 0 .. MaxInits
  /\ marking \in [Cancellers -> {Nothing} \cup
                    [slot : Slots, index : Nat \ {0}, id : Ids, moved : BOOLEAN, alone : BOOLEAN]]
  /\ turns \in 0 .. MaxInits
  /\ born \in [Ids -> {Nothing} \cup [turn : Nat, delay : Int, scale : 1 .. ScaleCount]]
  /\ fired \in [Ids -> Seq(Nat)]
  /\ hit \subseteq Ids /\ cancelled \subseteq Ids /\ stopped \subseteq cancelled

Init ==
  /\ m_current_scale = 1
  /\ m_cid = 0
  /\ m_task_map = [s \in Slots |-> <<>>]
  /\ m_id_map = [i \in Ids |-> 0]
  /\ mutex = "free" /\ adding = Nothing /\ pos = 0 /\ decrementing = FALSE
  /\ asleep = 0 /\ ticks = 0 /\ inits = 0
  /\ marking = [c \in Cancellers |-> Nothing]
  /\ turns = 0
  /\ born = [i \in Ids |-> Nothing]
  /\ fired = [i \in Ids |-> <<>>]
  /\ hit = {} /\ cancelled = {} /\ stopped = {}

-----------------------------------------------------------------------------
(* A canceller that is between its two accesses to an entry.               *)

IsMarking(c) == marking[c] # Nothing

\* Whatever the owner of the mutex does, the cancellers were not alone.
Disturb(m) == [c \in Cancellers |-> IF m[c] = Nothing THEN Nothing ELSE [m[c] EXCEPT !.alone = FALSE]]

\* A vector that grows may move its entries from under a canceller.
Grow(slot, m) ==
  [c \in Cancellers |-> IF m[c] # Nothing /\ m[c].slot = slot THEN [m[c] EXCEPT !.moved = TRUE] ELSE m[c]]

-----------------------------------------------------------------------------
(* add_ms_task.  The fields of a reused entry are assigned one after the   *)
(* other, count first, and a canceller may read it in between.             *)

Expired(e) == e.count < 0

\* Faulty variant: an entry that is due at the next visit counts as expired.
FreePlaceTooEager(list) ==
  LET used == {i \in DOMAIN list : list[i].count <= 0}
  IN  IF used = {} THEN Len(list) + 1 ELSE Min(used)

\* The first expired entry, or the place after the last entry.
FreePlace(list) ==
  LET used == {i \in DOMAIN list : Expired(list[i])}
  IN  IF used = {} THEN Len(list) + 1 ELSE Min(used)

BeginAdd(ms) ==
  /\ mutex = "free" /\ m_cid < MaxTimers
  /\ m_cid' = m_cid + 1
  /\ LET timer == ms + m_current_scale
         slot  == Remainder(timer)
         place == FreePlace(m_task_map[slot])
         count == Quotient(timer)
     IN  /\ adding' = [slot |-> slot, index |-> place,
                       entry |-> [count |-> count, id |-> m_cid', valid |-> TRUE]]
         /\ m_task_map' = IF place \in DOMAIN m_task_map[slot]
                          THEN [m_task_map EXCEPT ![slot][place].count = count]
                          ELSE m_task_map
  /\ mutex' = "adding"
  /\ born' = [born EXCEPT ![m_cid'] = [turn |-> turns, delay |-> ms, scale |-> m_current_scale]]
  /\ marking' = Disturb(marking)
  /\ UNCHANGED <<m_current_scale, m_id_map, pos, decrementing, tickVars,
                 turns, fired, hit, cancelled, stopped>>

\* The other fields, or push_back of the whole entry; then the unlock.
CommitAdd ==
  /\ mutex = "adding"
  /\ LET list == m_task_map[adding.slot]
     IN  IF adding.index \in DOMAIN list
         THEN /\ m_task_map' = [m_task_map EXCEPT ![adding.slot][adding.index] = adding.entry]
              /\ marking' = Disturb(marking)
         ELSE /\ m_task_map' = [m_task_map EXCEPT ![adding.slot] = Append(@, adding.entry)]
              /\ marking' = Grow(adding.slot, Disturb(marking))
  /\ m_id_map' = [m_id_map EXCEPT ![adding.entry.id] = adding.slot]
  /\ mutex' = "free"
  /\ adding' = Nothing
  /\ UNCHANGED <<m_current_scale, m_cid, pos, decrementing, tickVars, history>>

-----------------------------------------------------------------------------
(* cancel_timer.  The calls that find no entry of the id, or an expired    *)
(* one, return false and change nothing.                                   *)

CancelFind(c, id) ==
  /\ ~IsMarking(c)
  /\ LET slot  == m_id_map[id]
         list  == m_task_map[slot]
         found == {i \in DOMAIN list : list[i].id = id}
     IN  /\ found # {} /\ ~Expired(list[Min(found)])
         /\ marking' = [marking EXCEPT ![c] =
              [slot |-> slot, index |-> Min(found), id |-> id, moved |-> FALSE, alone |-> mutex = "free"]]
  /\ UNCHANGED <<wheelVars, lockVars, tickVars, history>>

\* i.valid = false, then return true.  The write is lost if the vector has
\* moved; it reaches whatever timer the entry now belongs to.
CancelMark(c) ==
  /\ IsMarking(c)
  /\ LET m == marking[c]
         e == m_task_map[m.slot][m.index]
     IN  /\ \/ /\ m_task_map' = [m_task_map EXCEPT ![m.slot][m.index].valid = FALSE]
               /\ hit' = hit \cup {e.id}
            \/ /\ m.moved
               /\ UNCHANGED <<m_task_map, hit>>
         /\ cancelled' = cancelled \cup {m.id}
         /\ stopped' = IF m.alone /\ fired[m.id] = <<>> THEN stopped \cup {m.id} ELSE stopped
  /\ marking' = [marking EXCEPT ![c] = Nothing]
  /\ UNCHANGED <<m_current_scale, m_cid, m_id_map, lockVars, tickVars, turns, born, fired>>

-----------------------------------------------------------------------------
(* init_wheel, and the tick that its thread posts.                         *)

InitWheel ==
  /\ inits < MaxInits
  /\ inits' = inits + 1
  /\ asleep' = asleep + 1
  /\ UNCHANGED <<wheelVars, lockVars, ticks, marking, history>>

PostTick ==
  /\ asleep > 0
  /\ asleep' = asleep - 1
  /\ ticks' = ticks + 1
  /\ UNCHANGED <<wheelVars, lockVars, inits, marking, history>>

\* Faulty variant: the wheel is turned past its last position.
TurnTooFar(s) == IF s > ScaleCount THEN 1 ELSE s + 1

Turn(s) == IF s = ScaleCount THEN 1 ELSE s + 1

BeginTick ==
  /\ ticks > 0 /\ mutex = "free"
  /\ ticks' = ticks - 1
  /\ mutex' = "ticking"
  /\ m_current_scale' = Turn(m_current_scale)
  /\ turns' = turns + 1
  /\ pos' = 1 /\ decrementing' = FALSE
  /\ marking' = Disturb(marking)
  /\ UNCHANGED <<m_cid, m_task_map, m_id_map, adding, asleep, inits,
                 born, fired, hit, cancelled, stopped>>

\* Faulty variant: invalidated entries are posted as well.
IsDueUnchecked(e) == e.count = 0

IsDue(e) == e.count = 0 /\ e.valid

\* process(), first half of an iteration: a due task goes to the pool.
ProcessEntry ==
  /\ mutex = "ticking" /\ ~decrementing /\ pos <= Len(Current)
  /\ LET e == Current[pos]
     IN  fired' = IF IsDue(e) THEN [fired EXCEPT ![e.id] = Append(@, turns - born[e.id].turn)] ELSE fired
  /\ decrementing' = TRUE
  /\ UNCHANGED <<wheelVars, mutex, adding, pos, tickVars, marking, turns, born, hit, cancelled, stopped>>

\* Faulty variant: an entry that has fired is not counted down.
CountDownWaiting(e) == IF e.count > 0 THEN [e EXCEPT !.count = @ - 1] ELSE e

CountDown(e) == [e EXCEPT !.count = @ - 1]

\* Second half: i.count--.
DecrementEntry ==
  /\ mutex = "ticking" /\ decrementing
  /\ m_task_map' = [m_task_map EXCEPT ![m_current_scale][pos] = CountDown(@)]
  /\ pos' = pos + 1
  /\ decrementing' = FALSE
  /\ UNCHANGED <<m_current_scale, m_cid, m_id_map, mutex, adding, tickVars, marking, history>>

EndTick ==
  /\ mutex = "ticking" /\ ~decrementing /\ pos > Len(Current)
  /\ mutex' = "free"
  /\ pos' = 0
  /\ UNCHANGED <<wheelVars, adding, decrementing, tickVars, marking, history>>

-----------------------------------------------------------------------------
Next ==
  \/ \E ms \in Delays : BeginAdd(ms)
  \/ CommitAdd
  \/ \E c \in Cancellers : CancelMark(c) \/ \E id \in Ids : CancelFind(c, id)
  \/ InitWheel
  \/ PostTick
  \/ BeginTick
  \/ ProcessEntry
  \/ DecrementEntry
  \/ EndTick

Spec == Init /\ [][Next]_vars

-----------------------------------------------------------------------------
(* What a timer is due for.                                                *)

SlotOf(id) == Remainder(born[id].delay + born[id].scale)

\* Position ScaleCount of the wheel reads key ScaleCount, and remainders are
\* smaller: slot 0 is never visited, nor are the negative ones.
Reachable(id) == SlotOf(id) > 0

\* A timer whose slot is not ahead of the wheel waits one revolution more than
\* its delay, also when the division has already counted that revolution.
Due(id) == born[id].delay + (IF SlotOf(id) > born[id].scale THEN 0 ELSE ScaleCount)

Added(id) == born[id] # Nothing /\ ~(mutex = "adding" /\ adding.entry.id = id)

-----------------------------------------------------------------------------
(* Safety.                                                                 *)

\* A timer is posted at most once, and exactly when it is due: after its delay,
\* or one revolution later when its slot is not ahead of the wheel; never early,
\* whatever timers came and went in its slot (add_ms_task, turn and process,
\* src/utils/thread_pool.h:239-300).
FiresOnceWhenDue ==
  \A id \in Ids : fired[id] # <<>> => Reachable(id) /\ fired[id] = <<Due(id)>>

\* A timer that has not been posted although it was due has been invalidated,
\* or lies in a slot the wheel does not visit: reusing an entry never loses a
\* timer that is still waiting (src/utils/thread_pool.h:248-262).
NoTimerMissed ==
  \A id \in Ids :
    /\ Added(id) /\ Reachable(id) /\ id \notin hit
    /\ turns - born[id].turn >= Due(id) + (IF mutex = "ticking" THEN 1 ELSE 0)
    => fired[id] # <<>>

\* A cancel_timer that found and invalidated its entry while nobody had the
\* mutex keeps its word: the timer is not posted afterwards (cancel_timer
\* against process, src/utils/thread_pool.h:210-230 and 289-300).
CancelAloneHolds == \A id \in stopped : fired[id] = <<>>

-----------------------------------------------------------------------------
(* What a comment of the source says and the code does not do.             *)

\* src/utils/thread_pool.h:209: cancel_timer returns false if the task has
\* already been handled, else true.  So a timer for which it has returned true
\* is not handled.
CancelTellsTheTruth == \A id \in cancelled : fired[id] = <<>>
=============================================================================
