CONSTANTS
  p1 = p1
  p2 = p2
  i1 = i1
  i2 = i2
  Procs = {p1, p2}
  Invs = {i1, i2}
  NoInv = NoInv
  r1 = r1
  Regs = {r1}
  Totals = {0, 2}
  Amounts = {1}
  Refunds = {2}
  Floors = {2}
  UsageLimit = 1
  Attempts = 4
  Overlaps = 1
SYMMETRY Symmetry
SPECIFICATION RSpec
INVARIANTS RTypeOK NeverOverstated BooksBalance SeriesUnbroken CouponCounted OneCompany
CHECK_DEADLOCK FALSE
