\* One call after another on one key.
CONSTANTS
  Call = {c1}
  Key = {k1}
  ReportKey = {}
  Body = {b1}
  MaxEffects = 2
  MaxWindows = 0
SPECIFICATION Spec
INVARIANTS AtMostOnce
