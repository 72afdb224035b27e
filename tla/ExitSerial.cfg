CONSTANTS
  p = p
  q = q
  Procs = {p}
  Enforced = TRUE
  MaxRounds = 2
  MaxRecords = 2
SPECIFICATION Spec
INVARIANTS AllClearedIsAll ManagerAgrees SettlementFollowsFinance
PROPERTIES FiledOnce ExitProcessSpec
