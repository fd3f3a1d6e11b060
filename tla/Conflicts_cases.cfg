\* Two reports and two answers, two cases and two analyses: enough for every kind of evidence
\* to contradict, be accepted, change and come back, and for one analysis to fail after another.
CONSTANTS
  Report = {r1, r2}
  Answer = {d1, d2}
  Value = {v1, v2}
  MinValidAnswers = 2
  MaxCases = 2
  Analysis = {a1, a2}
  MaxOperations = 5
  MaxJobs = 2
SPECIFICATION Spec
SYMMETRY Symmetry
INVARIANTS TypeOK AnalysisFitsEvidence OneCurrentVersion EvidenceIsWhatReportsSay AcceptedEvidenceStands  AnalyzingIsWorkedOn
PROPERTY LateAnalysisIsHarmless
CHECK_DEADLOCK FALSE
