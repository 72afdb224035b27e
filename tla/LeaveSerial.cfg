CONSTANTS
  r1 = r1
  r2 = r2
  r3 = r3
  r4 = r4
  casual = casual
  special = special
  unpaid = unpaid
  wfh = wfh
  p = p
  Procs = {p}
  Requests = {r1, r2, r3, r4}
  Types = {casual, special, unpaid, wfh}
  Wfh = wfh
  Asked <- Mixed
  Named <- PartOfName
  Overdraft = {unpaid}
  Weekend = {1, 2}
  YearEnd = 3
  FirstDays <- OneDay
  DayChoices = {0}
  MaxAdjust = 1
  Editable = {special}
  Adjustable <- WfhAccount
SPECIFICATION Spec
INVARIANTS CountersMatchRequests NoDoubleBooking NoOrphans StampsAgree
PROPERTIES AllowanceChecked LifecycleSpec
