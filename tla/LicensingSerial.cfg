CONSTANTS
  u1 = u1
  u2 = u2
  u3 = u3
  r1 = r1
  r2 = r2
  p = p
  q = q
  Users = {u1, u2, u3}
  Founders = {u1}
  Admin = u1
  Requests = {r1, r2}
  Seats <- MCSeats
  HrProcs = {p}
  LoginProcs = {p}
  FinanceProcs = {p}
  PlatformProcs = {}
  Failures = FALSE
  InitialLimit = 2
  DefaultSeats = 3
  SeatPrice = 2
  UnitCredit = 1
  MaxLimit = 4
  MaxTerms = 3
  MaxRetracted = 2
SPECIFICATION Spec
INVARIANTS WalletMatchesLedger SubscriptionFollowsLimit CapacityAccounted
