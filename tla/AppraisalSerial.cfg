CONSTANTS
  Procs = {p1}
  Concerns = {c1, c2}
  Ratings = {1, 2}
  MaxRows = 2
SPECIFICATION Spec
INVARIANTS TypeOK NothingUnansweredWhenLocked SignoffTellsConcerns
PROPERTIES ReleaseLastsToSignoff ConcernsKeepTheirPromise
