CONSTANTS
  e1 = e1
  e2 = e2
  t1 = t1
  t2 = t2
  Procs = {p1}
  Emps = {e1, e2}
  Tasks = {t1, t2}
  Of <- OwnTasks
  Primary = e1
  Approval = TRUE
  Private = {TRUE, FALSE}
SPECIFICATION Spec
INVARIANT SignedOffWasApproved
