CONSTANTS
  e1 = e1
  t1 = t1
  m1 = m1
  m2 = m2
  Procs = {p1}
  Emps = {e1}
  Tasks = {t1}
  Of <- OwnTask
  Primary = e1
  Approval = TRUE
  Private = {FALSE}
  Milestones = {m1, m2}
  On <- OnTask
  Tracked = {t1}
  RequireApproval = TRUE
  Fields = 2
SPECIFICATION MSpec
INVARIANTS MTypeOK ProgressNeedsApproval
PROPERTY DoneWithMilestones
