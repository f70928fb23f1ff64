---------------------------- MODULE MCGoalRunner -----------------------------
(***************************************************************************)
(* Model values for GoalRunner.  e2 happened before e1 but either may be   *)
(* polled first, so that events arrive out of source order.                *)
(***************************************************************************)
EXTENDS GoalRunner

CONSTANTS e1, e2

MCSourceTime == [e \in Events |-> IF e = e1 THEN 2 ELSE 1]
=============================================================================
