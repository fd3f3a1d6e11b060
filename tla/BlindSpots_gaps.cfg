\* Two reports and one device, two places: the smallest instance in which a gap moves away
\* and is taken over, and four operations around one lost execution.
CONSTANTS
  Report = {r1, r2}
  Device = {d1}
  Place = {p1, p2}
  Value = {v1}
  MinValidAnswers = 1
  MaxOperations = 4
  MaxAttempts = 1
  MaxLost = 1
SPECIFICATION Spec
INVARIANTS TypeOK  
PROPERTIES JustifiedStaysJustified GraceIsKept
SYMMETRY Symmetry
CHECK_DEADLOCK FALSE
