\* Two jobs, two attempts each, and two executions of each that are lost.
CONSTANTS
  Job = {j1, j2}
  MaxAttempts = 2
  MaxLost = 2
SPECIFICATION FairSpec
INVARIANTS TypeOK AttemptsAreBounded
PROPERTIES FinishedStaysFinished EveryJobEnds
