---------------------------- MODULE MCMilestones ----------------------------
(* One employee, one tracked task with two milestones.                     *)
EXTENDS Milestones, TLC
CONSTANTS e1, t1, m1, m2
OwnTask == t1 :> e1
OnTask == m1 :> t1 @@ m2 :> t1
=============================================================================
