CONSTANTS
  p1 = p1
  p2 = p2
  Procs = {p1, p2}
  Emps = {e1}
  Texts = {old, new}
  MaxVersion = 2
  Overlaps = 1
SYMMETRY Symmetry
SPECIFICATION Spec
INVARIANTS TypeOK SignedOnce SignatureNamesItsVersion OneCurrentVersion
PROPERTY HistoryKept
