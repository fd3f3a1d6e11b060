\* One incident, one session that may hold a stale incident row, one brief.
CONSTANTS
  Incident = {i1}
  Session = {s1}
  Brief = {b1}
  NoBrief = NoBrief
  MaxSequence = 4
  MaxPublished = 2
  MaxJobs = 1
SPECIFICATION Spec
INVARIANTS TypeOK ContiguousSequence CurrentBriefIsFresh  MapRevisionAnnounced
PROPERTIES OneRevisionPerCommit ImplementsIncidentLog
