\* One local and one remote attachment, two content requests at once and two in all.
CONSTANTS
  Local = {l1}
  Remote = {m1}
  Image = {l1}
  Report = {t1}
  Answer = {d1}
  Put = {p1, p2}
  MaxPuts = 2
  MaxJobs = 2
SPECIFICATION Spec
INVARIANTS TypeOK ReadyIsWhatWasDeclared  BoundOnce
PROPERTY EventuallyAnonymised
CHECK_DEADLOCK FALSE
