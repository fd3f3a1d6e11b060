\* One case, decided and analysed again.
CONSTANTS
  Report = {r1, r2}
  Answer = {}
  Value = {v1, v2}
  MinValidAnswers = 1
  MaxCases = 1
  Analysis = {a1}
  MaxOperations = 4
  MaxJobs = 1
SPECIFICATION Spec
INVARIANT DecidedIsResolved
CHECK_DEADLOCK FALSE
