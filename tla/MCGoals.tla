------------------------------ MODULE MCGoals ------------------------------
(* Two employees, one task each.                                           *)
EXTENDS GoalWorkflow, TLC
CONSTANTS e1, e2, t1, t2
OwnTasks == t1 :> e1 @@ t2 :> e2
=============================================================================
