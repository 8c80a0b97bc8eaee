----------------------------- MODULE MCTimeWheel -----------------------------
(* TimeWheel with few slots, timers and turns.                             *)
EXTENDS TimeWheel, TLC

\* A delay in the past, none, and ones of less and more than a revolution of
\* three slots, a whole revolution included.
SomeDelays == {-1, 0, 1, 2, 3, 4}
=============================================================================
