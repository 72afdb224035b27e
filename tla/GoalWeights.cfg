CONSTANTS
  Procs = {p1, p2}
  Tasks = {t1, t2}
  Weights = {1, 2}
  Limit = 2
  Retries = 1
  Exempt = FALSE
  Sum <- SumOf
SPECIFICATION Spec
INVARIANT OverOnlyUnguarded
PROPERTY GuardedWriteEnds
