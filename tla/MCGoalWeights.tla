--------------------------- MODULE MCGoalWeights ---------------------------
(* Two overlapping requests to plan one goal.                              *)
EXTENDS GoalWeights, FiniteSetsExt

SumOf(f) == FoldSet(LAMBDA t, total : f[t] + total, 0, DOMAIN f)
=============================================================================
