CONSTANTS
  u1 = u1
  u2 = u2
  u3 = u3
  r1 = r1
  r2 = r2
  p = p
  q = q
  Users = {u1, u2}
  Founders = {u1}
  Admin = u1
  Requests = {r1}
  Seats <- MCSeats
  HrProcs = {p}
  LoginProcs = {}
  FinanceProcs = {p, q}
  PlatformProcs = {p}
  Failures = FALSE
  InitialLimit = 1
  DefaultSeats = 3
  SeatPrice = 2
  UnitCredit = 1
  MaxLimit = 2
  MaxTerms = 2
  MaxRetracted = 1
SPECIFICATION Spec
INVARIANT OneTermPerChain
