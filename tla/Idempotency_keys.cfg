\* Two calls at once, on one key of each kind, with two different bodies.
CONSTANTS
  Call = {c1, c2}
  Key = {k1}
  ReportKey = {k2}
  Body = {b1, b2}
  MaxEffects = 3
  MaxWindows = 1
SPECIFICATION Spec
INVARIANTS TypeOK EffectIsRemembered AnswerIsOwn OneCallPerReservation 
