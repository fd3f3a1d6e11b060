\* One report that is declared invalid and then edited by its owner.
CONSTANTS
  Report = {r1}
  Device = {d1}
  Place = {p1}
  Value = {v1}
  MinValidAnswers = 1
  MaxOperations = 3
  MaxAttempts = 1
  MaxLost = 0
SPECIFICATION Spec
INVARIANT InvalidIsWithdrawn
CHECK_DEADLOCK FALSE
