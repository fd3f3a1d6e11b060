----------------------- MODULE EventLogAnnouncements -----------------------
(***************************************************************************)
(* Theorems about what EventLog tells the clients, for every value of its  *)
(* constants: that every stale brief was announced as stale, and every     *)
(* revision of the map by one event; what a commit does to the counters;   *)
(* and that the table and the counters implement IncidentLog.              *)
(***************************************************************************)
EXTENDS EventLogProofs, SequenceTheorems

-----------------------------------------------------------------------------
(***************************************************************************)
(* Stale briefs                                                            *)
(***************************************************************************)
\* A set of rows says of brief b, of incident i, that it is stale.
Tells(E, i, b) ==
    \E e \in E : e.incident = i /\ e.type = "command_brief.stale" /\ e.brief = b

\* The open transaction has an event for every brief it is going to mark.
Telling(t) == \A b \in t.staled : Tells(t.events, t.incident, b)
Own(t) == \A b \in t.staled : brief[b].incident = t.incident

StaleInv ==
    /\ TypeInv
    /\ \A b \in Brief : brief[b].is_stale => Tells(outbox \cup deleted, brief[b].incident, b)
    /\ \A t \in writing : Telling(t) /\ Own(t)

\* emit_event adds an event of its own for each brief it outdates.
LEMMA EmitEventTells ==
    ASSUME TypeOK, NEW t \in Transaction, Telling(t), NEW type, NEW b, NEW revision,
           NEW order, Len(order) \in Nat, DOMAIN order = 1..Len(order)
    PROVE  /\ Telling(EmitEvent(t, type, b, revision, order))
           /\ EmitEvent(t, type, b, revision, order).incident = t.incident
           /\ EmitEvent(t, type, b, revision, order).staled = t.staled \cup ToSet(order)
           /\ Row(t.incident, t.row.event_sequence + 1, type, b, revision)
                \in EmitEvent(t, type, b, revision, order).events
<1> DEFINE u == EmitEvent(t, type, b, revision, order)
           staleEvents ==
             {Row(t.incident, t.row.event_sequence + 1 + n, "command_brief.stale", order[n],
                  brief[order[n]].input_version) : n \in DOMAIN order}
<1>1. /\ u.incident = t.incident /\ u.staled = t.staled \cup ToSet(order)
      /\ Row(t.incident, t.row.event_sequence + 1, type, b, revision) \in u.events
    BY DEF EmitEvent
<1>2. t.events \subseteq u.events /\ staleEvents \subseteq u.events
    BY DEF EmitEvent
<1> HIDE DEF u
<1>3. ASSUME NEW c \in u.staled PROVE Tells(u.events, u.incident, c)
  <2>1. CASE c \in t.staled
      BY <1>1, <1>2, <2>1 DEF Telling, Tells
  <2>2. CASE c \in ToSet(order)
    <3>1. PICK n \in DOMAIN order : order[n] = c
        BY <2>2 DEF ToSet
    <3>2. Row(t.incident, t.row.event_sequence + 1 + n, "command_brief.stale", c,
              brief[order[n]].input_version) \in staleEvents
        BY <3>1
    <3> HIDE DEF staleEvents
    <3> QED
        BY <1>1, <1>2, <3>2 DEF Tells, Row
  <2> QED
      BY <1>1, <1>3, <2>1, <2>2
<1> QED
    BY <1>1, <1>3 DEF Telling, u

LEMMA StaleInit == Init => StaleInv
<1> SUFFICES ASSUME Init PROVE StaleInv
    OBVIOUS
<1>1. TypeInv
    BY TypeInit
<1>2. \A b \in Brief : ~brief[b].is_stale
    BY DEF Init
<1> QED
    BY <1>1, <1>2 DEF Init, StaleInv

\* What was told stays told.
LEMMA ToldStaysTold ==
    ASSUME NEW E, NEW F, E \subseteq F, NEW i, NEW b, Tells(E, i, b)
    PROVE  Tells(F, i, b)
BY DEF Tells

\* The end of an execution marks its brief as stale only with the event that says so.
LEMMA EndAnalysisTells ==
    ASSUME StaleInv, TypeInv', NEW b \in Brief, NEW analysis \in AiAnalysis, NEW type,
           analysis.incident = brief[b].incident,
           analysis.is_stale => brief[b].is_stale \/ type = "command_brief.stale",
           EndAnalysis(b, analysis, type)
    PROVE  StaleInv'
<1> DEFINE i == brief[b].incident
           start == Begin(i, incident[i])
           u == EmitEvent(start, type, b, brief[b].input_version, <<>>)
<1>1. TypeOK /\ i \in Incident /\ incident[i] \in Counters
    BY DEF StaleInv, TypeInv, TypeOK, AiAnalysis
<1>2. start \in Transaction /\ start.incident = i /\ start.staled = {} /\ Telling(start)
    BY <1>1 DEF Begin, Transaction, TypeOK, Telling
<1> HIDE DEF start
<1>3. Row(i, start.row.event_sequence + 1, type, b, brief[b].input_version) \in u.events
  <2> HIDE DEF i
  <2>1. Len(<<>>) \in Nat /\ DOMAIN <<>> = 1..Len(<<>>)
      OBVIOUS
  <2> QED
      BY <1>1, <1>2, <2>1, EmitEventTells
<1>4. /\ outbox' = outbox \cup u.events /\ deleted' = deleted
      /\ brief' = [brief EXCEPT ![b] = analysis]
      /\ writing' = writing /\ writing = {}
    BY DEF EndAnalysis, LockFree, start
<1> HIDE DEF u
<1>5. ASSUME NEW c \in Brief, brief'[c].is_stale
      PROVE  Tells(outbox' \cup deleted', brief'[c].incident, c)
  <2>1. brief \in [Brief -> AiAnalysis]
      BY <1>1 DEF TypeOK
  <2>2. CASE c = b /\ type = "command_brief.stale"
    <3>1. Tells(u.events, i, b)
        BY <1>3, <2>2 DEF Tells, Row
    <3>2. u.events \subseteq outbox' \cup deleted'
        BY <1>4
    <3>3. brief'[c].incident = i
        BY <1>4, <2>1, <2>2
    <3> QED
        BY <2>2, <3>1, <3>2, <3>3, ToldStaysTold
  <2>3. CASE ~(c = b /\ type = "command_brief.stale")
    <3>1. brief[c].is_stale /\ brief'[c].incident = brief[c].incident
        BY <1>4, <1>5, <2>1, <2>3
    <3>2. Tells(outbox \cup deleted, brief[c].incident, c)
        BY <3>1 DEF StaleInv
    <3>3. outbox \cup deleted \subseteq outbox' \cup deleted'
        BY <1>4
    <3> QED
        BY <3>1, <3>2, <3>3, ToldStaysTold
  <2> QED
      BY <2>2, <2>3
<1> QED
    BY <1>4, <1>5 DEF StaleInv

\* Every step keeps the announcements complete.
LEMMA StaleStep == StaleInv /\ [Next]_vars => StaleInv'
<1> SUFFICES ASSUME StaleInv, [Next]_vars PROVE StaleInv'
    OBVIOUS
<1>1. TypeInv' /\ TypeInv /\ TypeOK
    BY TypeStep DEF StaleInv, TypeInv
<1>2. brief \in [Brief -> AiAnalysis] /\ writing \subseteq Transaction
    BY <1>1 DEF TypeOK
\* Nothing is marked, nothing is lost from the log, and what was marked may be forgotten.
<1>3. ASSUME outbox \cup deleted \subseteq outbox' \cup deleted',
             \A b \in Brief : brief'[b].is_stale =>
                brief[b].is_stale /\ brief'[b].incident = brief[b].incident
      PROVE  \A b \in Brief :
                brief'[b].is_stale => Tells(outbox' \cup deleted', brief'[b].incident, b)
  <2> SUFFICES ASSUME NEW b \in Brief, brief'[b].is_stale
               PROVE  Tells(outbox' \cup deleted', brief'[b].incident, b)
      OBVIOUS
  <2>1. Tells(outbox \cup deleted, brief[b].incident, b)
      BY <1>3 DEF StaleInv
  <2> QED
      BY <1>3, <2>1, ToldStaysTold
<1>4. ASSUME UNCHANGED brief, outbox \cup deleted \subseteq outbox' \cup deleted',
             \A t \in writing' : t \in writing \/ t.staled = {}
      PROVE  StaleInv'
  <2>1. \A t \in writing' : Telling(t) /\ Own(t)
      BY <1>4 DEF StaleInv, Telling, Own
  <2>2. \A t : (Telling(t) <=> Telling(t)') /\ (Own(t) <=> Own(t)')
      BY <1>4 DEF Telling, Own
  <2> QED
      BY <1>1, <1>3, <1>4, <2>1, <2>2 DEF StaleInv
<1>5. ASSUME UNCHANGED <<outbox, deleted, writing>>, writing = {},
             \A b \in Brief : brief'[b].is_stale =>
                brief[b].is_stale /\ brief'[b].incident = brief[b].incident
      PROVE  StaleInv'
    BY <1>1, <1>3, <1>5 DEF StaleInv
<1>6. CASE UNCHANGED vars
    BY <1>4, <1>6 DEF vars
<1>7. ASSUME NEW s \in Session, NEW i \in Incident, LoadIncident(s, i) PROVE StaleInv'
    BY <1>4, <1>7 DEF LoadIncident
<1>8. ASSUME NEW v \in loaded, BeginLoaded(v) PROVE StaleInv'
    BY <1>4, <1>8 DEF BeginLoaded, Begin
<1>9. ASSUME NEW i \in Incident, BeginFresh(i) PROVE StaleInv'
    BY <1>4, <1>9 DEF BeginFresh, Begin
<1>10. ASSUME NEW t \in writing, NEW type \in ResourceType, Emit(t, type) PROVE StaleInv'
  <2> DEFINE S == OutdatedBriefs(t, type)
  <2>1. PICK order \in SetToSeqs(S) : writing' = {EmitEvent(t, type, NoBrief, 0, order)}
      BY <1>10 DEF Emit
  <2>2. IsFiniteSet(S)
      BY BriefsAreFinite, FS_Subset DEF OutdatedBriefs
  <2>3. Len(order) \in Nat /\ DOMAIN order = 1..Len(order) /\ ToSet(order) = S
      BY <2>2, OrderOfSelect
  <2> DEFINE u == EmitEvent(t, type, NoBrief, 0, order)
  <2>4. Telling(u) /\ u.incident = t.incident /\ u.staled = t.staled \cup S
      BY <1>1, <1>2, <2>3, EmitEventTells DEF StaleInv
  <2>5. Own(u)
    <3>1. Own(t) /\ \A b \in S : brief[b].incident = t.incident
        BY DEF StaleInv, OutdatedBriefs
    <3> HIDE DEF u, S
    <3> QED
        BY <2>4, <3>1 DEF Own
  <2>6. UNCHANGED <<brief, outbox, deleted>>
      BY <1>10 DEF Emit
  <2>7. writing' = {u}
      BY <2>1
  <2> HIDE DEF u
  <2>8. \A w \in writing' : Telling(w)' /\ Own(w)'
      BY <2>4, <2>5, <2>6, <2>7 DEF Telling, Own
  <2> QED
      BY <1>1, <1>3, <2>6, <2>8 DEF StaleInv
<1>11. ASSUME NEW t \in writing, Commit(t) PROVE StaleInv'
  <2>1. /\ outbox' = outbox \cup t.events /\ deleted' = deleted /\ writing' = {}
        /\ brief' = MarkStale(t.staled)
      BY <1>11 DEF Commit
  <2>2. ASSUME NEW b \in Brief, brief'[b].is_stale
        PROVE  Tells(outbox' \cup deleted', brief'[b].incident, b)
    <3>1. brief'[b].incident = brief[b].incident
        BY <1>2, <2>1 DEF MarkStale, AiAnalysis
    <3>2. CASE b \in t.staled
      <4>1. Tells(t.events, t.incident, b) /\ brief[b].incident = t.incident
          BY <3>2 DEF StaleInv, Telling, Own
      <4>2. t.events \subseteq outbox' \cup deleted'
          BY <2>1
      <4> QED
          BY <3>1, <4>1, <4>2, ToldStaysTold
    <3>3. CASE b \notin t.staled
      <4>1. brief[b].is_stale
          BY <2>1, <2>2, <3>3 DEF MarkStale
      <4>2. Tells(outbox \cup deleted, brief[b].incident, b)
          BY <4>1 DEF StaleInv
      <4>3. outbox \cup deleted \subseteq outbox' \cup deleted'
          BY <2>1
      <4> QED
          BY <3>1, <4>2, <4>3, ToldStaysTold
    <3> QED
        BY <3>2, <3>3
  <2> QED
      BY <1>1, <2>1, <2>2 DEF StaleInv
<1>12. ASSUME NEW t \in writing, Rollback(t) PROVE StaleInv'
    BY <1>4, <1>12 DEF Rollback
<1>13. ASSUME NEW b \in Brief, NEW i \in Incident, RequestBrief(b, i) PROVE StaleInv'
  <2>1. \A c \in Brief : brief'[c].is_stale =>
          brief[c].is_stale /\ brief'[c].incident = brief[c].incident
      BY <1>2, <1>13 DEF RequestBrief
  <2> QED
      BY <1>5, <1>13, <2>1 DEF RequestBrief, LockFree
<1>14. ASSUME NEW b \in Brief, StartAnalysis(b) PROVE StaleInv'
  <2>1. \A c \in Brief : brief'[c].is_stale =>
          brief[c].is_stale /\ brief'[c].incident = brief[c].incident
      BY <1>2, <1>14 DEF StartAnalysis, AiAnalysis
  <2> QED
      BY <1>5, <1>14, <2>1 DEF StartAnalysis, LockFree
<1>15. ASSUME NEW b \in Brief, CompleteAnalysis(b) PROVE StaleInv'
  <2> DEFINE changed == incident[brief[b].incident].data_revision # brief[b].input_version
             stale == brief[b].is_stale \/ changed
             analysis == [brief[b] EXCEPT !.status = "succeeded", !.is_stale = stale]
             type == IF stale THEN "command_brief.stale" ELSE "command_brief.ready"
  <2>1. analysis \in AiAnalysis
      BY <1>2 DEF AiAnalysis, BriefStatus
  <2>2. /\ analysis.incident = brief[b].incident
        /\ analysis.is_stale => type = "command_brief.stale"
      BY <1>2 DEF AiAnalysis
  <2>3. EndAnalysis(b, analysis, type)
      BY <1>15 DEF CompleteAnalysis
  <2> HIDE DEF analysis, type
  <2> QED
      BY <1>1, <2>1, <2>2, <2>3, EndAnalysisTells
<1>16. ASSUME NEW b \in Brief, FailAnalysis(b) PROVE StaleInv'
  <2> DEFINE analysis == [brief[b] EXCEPT !.status = "failed"]
  <2>1. analysis \in AiAnalysis
      BY <1>2 DEF AiAnalysis, BriefStatus
  <2>2. analysis.incident = brief[b].incident /\ analysis.is_stale = brief[b].is_stale
      BY <1>2 DEF AiAnalysis
  <2>3. EndAnalysis(b, analysis, "command_brief.failed")
      BY <1>16 DEF FailAnalysis
  <2> HIDE DEF analysis
  <2> QED
      BY <1>1, <2>1, <2>2, <2>3, EndAnalysisTells
<1>17. ASSUME NEW b \in Brief, FinishJob(b) PROVE StaleInv'
    BY <1>4, <1>17 DEF FinishJob
<1>18. ASSUME NEW b \in Brief, RetryAnalysis(b) PROVE StaleInv'
  <2>1. \A c \in Brief : brief'[c].is_stale =>
          brief[c].is_stale /\ brief'[c].incident = brief[c].incident
      BY <1>2, <1>18 DEF RetryAnalysis, AiAnalysis
  <2> QED
      BY <1>5, <1>18, <2>1 DEF RetryAnalysis, LockFree
<1>19. ASSUME NEW e \in outbox, PublishNext(e) PROVE StaleInv'
    BY <1>4, <1>19 DEF PublishNext
<1>20. ASSUME NEW cutoff \in [Incident -> 0..MaxPublished], Purge(cutoff) PROVE StaleInv'
  <2>1. outbox \cup deleted \subseteq outbox' \cup deleted' /\ UNCHANGED <<brief, writing>>
      BY <1>20 DEF Purge
  <2> QED
      BY <1>4, <2>1
<1>21. CASE Crash
    BY <1>4, <1>21 DEF Crash
<1> QED
    BY <1>6, <1>7, <1>8, <1>9, <1>10, <1>11, <1>12, <1>13, <1>14, <1>15, <1>16, <1>17, <1>18,
       <1>19, <1>20, <1>21 DEF Next, Operate

\* Every stale brief has an event in the log that says so, published, waiting or deleted,
\* whichever of emit_event and _complete_async_analysis found it out of date.
THEOREM StaleBriefsAreAnnounced == Spec => []StaleBriefAnnounced
<1>1. Spec => []StaleInv
    BY StaleInit, StaleStep, PTL DEF Spec
<1>2. StaleInv => StaleBriefAnnounced
    BY DEF StaleInv, StaleBriefAnnounced, Tells, Log
<1> QED
    BY <1>1, <1>2, PTL

-----------------------------------------------------------------------------
(***************************************************************************)
(* Map revisions.  The order of the announcements is that of the numbers   *)
(* of the log, so this rests on StoreInv.                                  *)
(***************************************************************************)
Invalidations(E) == {e \in E : e.type = "map_view.invalidated"}

\* The events of E announce the revisions above lo, up to hi, each by one event, in order.
Announces(E, lo, hi) ==
    /\ lo <= hi
    /\ \A e \in E : e.revision \in lo + 1 .. hi
    /\ \A n \in lo + 1 .. hi : \E e \in E : e.revision = n
    /\ \A e, f \in E : e.sequence < f.sequence => e.revision < f.revision

AnnouncesOwn(t) == Announces(Invalidations(t.events), t.read.map_revision, t.row.map_revision)

MapInv ==
    /\ StoreInv
    /\ MapRevisionAnnounced
    /\ \A t \in writing : AnnouncesOwn(t)

LEMMA LogByRevision ==
    ASSUME TypeOK
    PROVE  MapRevisionAnnounced <=>
             \A i \in Incident : Announces(Invalidations(Log(i)), 0, incident[i].map_revision)
<1>1. \A i \in Incident : /\ incident[i].map_revision \in Nat
                         /\ \A e \in Log(i) : e.revision \in Nat
    BY DEF TypeOK, Counters, Log, OutboxEvent
<1> QED
    BY <1>1 DEF MapRevisionAnnounced, Announces, Invalidations

\* What is announced later follows on.
LEMMA AppendAnnouncements ==
    ASSUME NEW E, NEW F, NEW lo \in Nat, NEW mid \in Nat, NEW hi \in Nat,
           Announces(E, lo, mid), Announces(F, mid, hi),
           \A e \in E, f \in F :
              e.sequence \in Nat /\ f.sequence \in Nat /\ e.sequence < f.sequence
    PROVE  Announces(E \cup F, lo, hi)
<1>1. lo <= mid /\ mid <= hi
    BY DEF Announces
<1>2. \A e \in E : e.revision \in lo + 1 .. hi /\ e.revision \in Nat /\ e.revision <= mid
    BY <1>1 DEF Announces
<1>3. \A e \in F : e.revision \in lo + 1 .. hi /\ e.revision \in Nat /\ mid < e.revision
    BY <1>1 DEF Announces
<1>4. ASSUME NEW n \in lo + 1 .. hi PROVE \E e \in E \cup F : e.revision = n
  <2>1. CASE n <= mid
    <3>1. n \in lo + 1 .. mid
        BY <2>1
    <3> QED
        BY <3>1 DEF Announces
  <2>2. CASE n > mid
    <3>1. n \in mid + 1 .. hi
        BY <2>2
    <3> QED
        BY <3>1 DEF Announces
  <2> QED
      BY <2>1, <2>2
<1>5. ASSUME NEW e \in E \cup F, NEW f \in E \cup F, e.sequence < f.sequence
      PROVE  e.revision < f.revision
  <2>1. CASE (e \in E /\ f \in E) \/ (e \in F /\ f \in F)
      BY <1>5, <2>1 DEF Announces
  <2>2. CASE e \in E /\ f \in F
      BY <1>2, <1>3, <2>2
  <2>3. CASE e \in F /\ f \in E
      BY <1>5, <2>3
  <2> QED
      BY <2>1, <2>2, <2>3
<1> QED
    BY <1>1, <1>2, <1>3, <1>4, <1>5 DEF Announces

\* emit_event announces the map revision it bumps, with a number above all it has given.
LEMMA EmitEventAnnounces ==
    ASSUME NEW t \in Transaction, Numbered(t), AnnouncesOwn(t),
           NEW type, type # "map_view.invalidated", NEW b, NEW revision,
           NEW order, Len(order) \in Nat, DOMAIN order = 1..Len(order)
    PROVE  AnnouncesOwn(EmitEvent(t, type, b, revision, order))
<1> DEFINE u == EmitEvent(t, type, b, revision, order)
           from == t.row.event_sequence
           extra == IF BumpsMap(t, type) THEN 1 ELSE 0
           last == from + 1 + Len(order) + extra
           head == Row(t.incident, from + 1, type, b, revision)
           stales == {Row(t.incident, from + 1 + n, "command_brief.stale", order[n],
                          brief[order[n]].input_version) : n \in DOMAIN order}
           map == Row(t.incident, last, "map_view.invalidated", NoBrief,
                      MapRevisionAfter(t, type))
           maps == {map : bumped \in {TRUE} \cap {BumpsMap(t, type)}}
<1>1. /\ from \in Nat /\ last \in Nat /\ last > from
      /\ t.read.map_revision \in Nat /\ t.row.map_revision \in Nat
    BY DEF Transaction, Counters
<1>2. /\ u.read = t.read
      /\ u.row.map_revision = MapRevisionAfter(t, type)
      /\ u.events = t.events \cup {head} \cup stales \cup maps
    BY DEF EmitEvent
<1>3. Invalidations({head}) = {} /\ Invalidations(stales) = {}
    BY DEF Invalidations, Row
<1>4. Invalidations(maps) = maps
    BY DEF Invalidations, Row
<1> HIDE DEF u, head, stales
<1>5. Invalidations(u.events) = Invalidations(t.events) \cup maps
  <2> HIDE DEF maps
  <2> QED
      BY <1>2, <1>3, <1>4 DEF Invalidations
<1>6. \A e \in t.events : e.sequence \in Nat /\ e.sequence <= from
    BY DEF Numbered, Transaction, OutboxEvent
<1>7. CASE BumpsMap(t, type)
  <2>1. {TRUE} \cap {BumpsMap(t, type)} = {TRUE}
      BY <1>7, Zenon
  <2>2. maps = {map}
      BY <2>1, Zenon
  <2>3. map.sequence = last /\ map.revision = t.row.map_revision + 1
      BY <1>7 DEF Row, MapRevisionAfter
  <2>4. u.row.map_revision = t.row.map_revision + 1
      BY <1>2, <1>7 DEF MapRevisionAfter
  <2> HIDE DEF maps, map, last, from
  <2>5. Announces({map}, t.row.map_revision, t.row.map_revision + 1)
      BY <1>1, <2>3 DEF Announces
  <2>6. \A e \in Invalidations(t.events), f \in {map} :
           e.sequence \in Nat /\ f.sequence \in Nat /\ e.sequence < f.sequence
      BY <1>1, <1>6, <2>3 DEF Invalidations
  <2>7. Announces(Invalidations(t.events) \cup {map}, t.read.map_revision, t.row.map_revision + 1)
      BY <1>1, <2>5, <2>6, AppendAnnouncements DEF AnnouncesOwn
  <2> QED
      BY <1>2, <1>5, <2>2, <2>4, <2>7 DEF AnnouncesOwn, u
<1>8. CASE ~BumpsMap(t, type)
  <2>1. {TRUE} \cap {BumpsMap(t, type)} = {}
      BY <1>8, Zenon
  <2>2. maps = {}
      BY <2>1, Zenon
  <2>3. u.row.map_revision = t.row.map_revision
      BY <1>2, <1>8 DEF MapRevisionAfter
  <2> HIDE DEF maps
  <2> QED
      BY <1>2, <1>5, <2>2, <2>3 DEF AnnouncesOwn, u
<1> QED
    BY <1>7, <1>8

\* Rows numbered from the row the incident has now announce what follows on.
LEMMA AppendRevisions ==
    ASSUME TypeOK, TypeOK', ContiguousSequence, MapRevisionAnnounced,
           NEW t \in Transaction, Numbered(t), AnnouncesOwn(t), t.read = incident[t.incident],
           incident' = [incident EXCEPT ![t.incident] = t.row],
           outbox' = outbox \cup t.events, UNCHANGED deleted
    PROVE  MapRevisionAnnounced'
<1>1. /\ t.incident \in Incident
      /\ t.read.map_revision \in Nat /\ t.row.map_revision \in Nat
      /\ t.read.event_sequence \in Nat
      /\ \A e \in t.events : e.sequence \in Nat
    BY DEF Transaction, Counters, OutboxEvent
<1> DEFINE P(i) == Announces(Invalidations(Log(i)), 0, incident[i].map_revision)
<1>2. SUFFICES ASSUME NEW i \in Incident PROVE P(i)'
  <2>1. \A i \in Incident : P(i)'
      BY <1>2
  <2>2. \A i \in Incident : /\ incident'[i].map_revision \in Nat
                           /\ \A e \in Log(i)' : e.revision \in Nat
      BY DEF TypeOK, Counters, Log, OutboxEvent
  <2> QED
      BY <2>1, <2>2 DEF MapRevisionAnnounced, Announces, Invalidations
<1>3. P(i)
    BY LogByRevision
<1>4. Log(i)' = Log(i) \cup {e \in t.events : e.incident = i}
    BY DEF Log
<1>5. CASE i # t.incident
  <2>1. Log(i)' = Log(i)
      BY <1>4, <1>5 DEF Numbered
  <2>2. incident'[i] = incident[i]
      BY <1>5 DEF TypeOK
  <2> QED
      BY <1>3, <2>1, <2>2 DEF Announces, Invalidations
<1>6. CASE i = t.incident
  <2>1. incident'[i] = t.row /\ incident[i] = t.read
      BY <1>1, <1>6 DEF TypeOK
  <2>2. Log(i)' = Log(i) \cup t.events
      BY <1>4, <1>6 DEF Numbered
  <2>3. \A e \in Log(i), f \in t.events :
           e.sequence \in Nat /\ f.sequence \in Nat /\ e.sequence < f.sequence
      BY <1>1, <2>1, LogByNumber DEF Numbered
  <2>4. Announces(Invalidations(Log(i)) \cup Invalidations(t.events), 0, t.row.map_revision)
    <3>1. \A e \in Invalidations(Log(i)), f \in Invalidations(t.events) :
             e.sequence \in Nat /\ f.sequence \in Nat /\ e.sequence < f.sequence
        BY <2>3 DEF Invalidations
    <3>2. Announces(Invalidations(Log(i)), 0, t.read.map_revision)
        BY <1>3, <2>1
    <3> QED
        BY <1>1, <3>1, <3>2, AppendAnnouncements DEF AnnouncesOwn
  <2>5. Invalidations(Log(i) \cup t.events) = Invalidations(Log(i)) \cup Invalidations(t.events)
      BY DEF Invalidations
  <2> QED
      BY <2>1, <2>2, <2>4, <2>5 DEF Announces, Invalidations
<1> QED
    BY <1>5, <1>6

LEMMA MapInit == Init => MapInv
<1> SUFFICES ASSUME Init PROVE MapInv
    OBVIOUS
<1>1. StoreInv /\ TypeOK
    BY StoreInit DEF StoreInv, TypeInv
<1>2. \A i \in Incident : Log(i) = {} /\ incident[i].map_revision = 0
    BY DEF Init, Log
<1>3. MapRevisionAnnounced
    BY <1>1, <1>2, LogByRevision DEF Announces, Invalidations
<1> QED
    BY <1>1, <1>3 DEF Init, MapInv

\* The end of an analysis bumps no revision of the map.
LEMMA EndAnalysisAnnounces ==
    ASSUME MapInv, TypeOK', NEW b \in Brief, NEW analysis,
           NEW type \in {"command_brief.ready", "command_brief.stale", "command_brief.failed"},
           EndAnalysis(b, analysis, type)
    PROVE  MapRevisionAnnounced'
<1> DEFINE i == brief[b].incident
           start == Begin(i, incident[i])
           t == EmitEvent(start, type, b, brief[b].input_version, <<>>)
<1>1. /\ TypeOK /\ i \in Incident /\ brief[b].input_version \in Nat /\ incident[i] \in Counters
      /\ ContiguousSequence /\ MapRevisionAnnounced
    BY DEF MapInv, StoreInv, TypeInv, TypeOK, AiAnalysis
<1>2. /\ start \in Transaction /\ start.incident = i
      /\ start.read = incident[i] /\ start.row = incident[i] /\ start.events = {}
    BY <1>1 DEF Begin, Transaction, TypeOK
<1> HIDE DEF start
<1>3. Numbered(start) /\ AnnouncesOwn(start)
  <2>1. incident[i].event_sequence \in Nat /\ incident[i].map_revision \in Nat
      BY <1>1 DEF Counters
  <2> QED
      BY <1>2, <2>1 DEF Numbered, AnnouncesOwn, Announces, Invalidations
<1>4. t \in Transaction /\ Numbered(t) /\ AnnouncesOwn(t)
  <2>1. /\ Len(<<>>) \in Nat /\ DOMAIN <<>> = 1..Len(<<>>)
        /\ \A n \in 1..Len(<<>>) : <<>>[n] \in Brief
      OBVIOUS
  <2>2. type \in EventType /\ type # "map_view.invalidated" /\ b \in Brief \cup {NoBrief}
      BY DEF EventType
  <2> HIDE DEF i
  <2>3. t \in Transaction
      BY <1>1, <1>2, <2>1, <2>2, EmitEventType, Zenon
  <2>4. Numbered(t)
      BY <1>2, <1>3, <2>1, EmitEventNumbered
  <2>5. AnnouncesOwn(t)
      BY <1>2, <1>3, <2>1, <2>2, EmitEventAnnounces
  <2> QED
      BY <2>3, <2>4, <2>5
<1>5. t.incident = i /\ t.read = incident[i]
    BY <1>2 DEF EmitEvent
<1>6. /\ incident' = [incident EXCEPT ![i] = t.row]
      /\ outbox' = outbox \cup t.events /\ UNCHANGED deleted
    BY DEF EndAnalysis, start
<1> HIDE DEF t, i
<1> QED
    BY <1>1, <1>4, <1>5, <1>6, AppendRevisions

LEMMA MapStep == MapInv /\ [Next]_vars => MapInv'
<1> SUFFICES ASSUME MapInv, [Next]_vars PROVE MapInv'
    OBVIOUS
<1>1. StoreInv' /\ StoreInv /\ TypeOK /\ TypeOK'
    BY StoreStep DEF MapInv, StoreInv, TypeInv
<1>2. writing \subseteq Transaction
    BY <1>1 DEF TypeOK
<1>3. ASSUME UNCHANGED <<incident, outbox, deleted>>, writing' \subseteq writing
      PROVE  MapInv'
  <2>1. MapRevisionAnnounced'
      BY <1>3 DEF MapInv, MapRevisionAnnounced, Log
  <2>2. \A t : AnnouncesOwn(t)' <=> AnnouncesOwn(t)
      BY DEF AnnouncesOwn, Announces, Invalidations
  <2> QED
      BY <1>1, <1>3, <2>1, <2>2 DEF MapInv
<1>4. CASE UNCHANGED vars
    BY <1>3, <1>4 DEF vars
<1>5. ASSUME NEW s \in Session, NEW i \in Incident, LoadIncident(s, i) PROVE MapInv'
    BY <1>3, <1>5 DEF LoadIncident
<1>6. ASSUME NEW i \in Incident, NEW row \in Counters, writing' = {Begin(i, row)},
             UNCHANGED <<incident, outbox, deleted>>
      PROVE  MapInv'
  <2>1. MapRevisionAnnounced'
      BY <1>6 DEF MapInv, MapRevisionAnnounced, Log
  <2>2. AnnouncesOwn(Begin(i, row))'
      BY DEF AnnouncesOwn, Announces, Invalidations, Begin, Counters
  <2> QED
      BY <1>1, <1>6, <2>1, <2>2 DEF MapInv
<1>7. ASSUME NEW v \in loaded, BeginLoaded(v) PROVE MapInv'
  <2>1. v.incident \in Incident /\ v.row \in Counters
      BY <1>1 DEF TypeOK, LoadedIncident
  <2> QED
      BY <1>6, <1>7, <2>1 DEF BeginLoaded
<1>8. ASSUME NEW i \in Incident, BeginFresh(i) PROVE MapInv'
  <2>1. incident[i] \in Counters
      BY <1>1 DEF TypeOK
  <2> QED
      BY <1>6, <1>8, <2>1 DEF BeginFresh
<1>9. ASSUME NEW t \in writing, NEW type \in ResourceType, Emit(t, type) PROVE MapInv'
  <2> DEFINE S == OutdatedBriefs(t, type)
  <2>1. PICK order \in SetToSeqs(S) : writing' = {EmitEvent(t, type, NoBrief, 0, order)}
      BY <1>9 DEF Emit
  <2>2. IsFiniteSet(S)
      BY BriefsAreFinite, FS_Subset DEF OutdatedBriefs
  <2>3. Len(order) \in Nat /\ DOMAIN order = 1..Len(order)
      BY <2>2, OrderOfSelect
  <2>4. t \in Transaction /\ Numbered(t) /\ AnnouncesOwn(t) /\ type # "map_view.invalidated"
      BY <1>1, <1>2 DEF MapInv, StoreInv, ResourceType
  <2> DEFINE u == EmitEvent(t, type, NoBrief, 0, order)
  <2>5. AnnouncesOwn(u)
      BY <2>3, <2>4, EmitEventAnnounces
  <2>6. UNCHANGED <<incident, outbox, deleted>>
      BY <1>9 DEF Emit
  <2>7. MapRevisionAnnounced'
      BY <2>6 DEF MapInv, MapRevisionAnnounced, Log
  <2> HIDE DEF u
  <2>8. \A w \in writing' : AnnouncesOwn(w)'
    <3>1. \A w : AnnouncesOwn(w)' <=> AnnouncesOwn(w)
        BY DEF AnnouncesOwn, Announces, Invalidations
    <3> QED
        BY <2>1, <2>5, <3>1 DEF u
  <2> QED
      BY <1>1, <2>7, <2>8 DEF MapInv
<1>10. ASSUME NEW t \in writing, Commit(t) PROVE MapInv'
  <2>1. /\ t \in Transaction /\ Numbered(t) /\ AnnouncesOwn(t)
        /\ ContiguousSequence /\ MapRevisionAnnounced
      BY <1>1, <1>2 DEF MapInv, StoreInv
  <2>2. t.read = incident[t.incident]
      BY <1>1, <1>10, CommitsFromCurrentRow DEF Commit
  <2>3. /\ incident' = [incident EXCEPT ![t.incident] = t.row]
        /\ outbox' = outbox \cup t.events /\ writing' = {} /\ UNCHANGED deleted
      BY <1>10 DEF Commit
  <2> QED
      BY <1>1, <2>1, <2>2, <2>3, AppendRevisions DEF MapInv
<1>11. ASSUME NEW t \in writing, Rollback(t) PROVE MapInv'
    BY <1>3, <1>11 DEF Rollback
<1>12. ASSUME NEW b \in Brief, NEW analysis,
              NEW type \in {"command_brief.ready", "command_brief.stale", "command_brief.failed"},
              EndAnalysis(b, analysis, type)
       PROVE  MapInv'
  <2>1. writing' = {}
      BY <1>12 DEF EndAnalysis, LockFree
  <2> QED
      BY <1>1, <1>12, <2>1, EndAnalysisAnnounces DEF MapInv
<1>13. ASSUME NEW b \in Brief,
              \/ \E i \in Incident : RequestBrief(b, i)
              \/ StartAnalysis(b) \/ FinishJob(b) \/ RetryAnalysis(b)
       PROVE  MapInv'
    BY <1>3, <1>13 DEF RequestBrief, StartAnalysis, FinishJob, RetryAnalysis
<1>14. ASSUME NEW b \in Brief, CompleteAnalysis(b) \/ FailAnalysis(b) PROVE MapInv'
    BY <1>12, <1>14 DEF CompleteAnalysis, FailAnalysis
<1>15. ASSUME NEW e \in outbox, PublishNext(e) PROVE MapInv'
    BY <1>3, <1>15 DEF PublishNext
<1>16. ASSUME NEW cutoff \in [Incident -> 0..MaxPublished], Purge(cutoff) PROVE MapInv'
  <2>1. /\ outbox' \cup deleted' = outbox \cup deleted /\ UNCHANGED incident
        /\ writing' = {}
      BY <1>16 DEF Purge, LockFree
  <2>2. MapRevisionAnnounced'
      BY <2>1 DEF MapInv, MapRevisionAnnounced, Log
  <2> QED
      BY <1>1, <2>1, <2>2 DEF MapInv
<1>17. CASE Crash
    BY <1>3, <1>17 DEF Crash
<1> QED
    BY <1>4, <1>5, <1>7, <1>8, <1>9, <1>10, <1>11, <1>13, <1>14, <1>15, <1>16, <1>17
    DEF Next, Operate

\* Each map revision has been announced by exactly one map_view.invalidated event, in order,
\* however many events of a transaction affect the map (emit_event with map_revision_marker),
\* and although sessions commit from incident rows they read before they had the lock.
THEOREM MapRevisionsAreAnnounced == Spec => []MapRevisionAnnounced
<1>1. Spec => []MapInv
    BY MapInit, MapStep, PTL DEF Spec
<1>2. MapInv => MapRevisionAnnounced
    BY DEF MapInv
<1> QED
    BY <1>1, <1>2, PTL

-----------------------------------------------------------------------------
(***************************************************************************)
(* What one commit does to the counters                                    *)
(***************************************************************************)
AnnouncesData(E) == \E e \in E : e.type \in DataAffecting

\* The marker says whether the transaction has a data-affecting event, and so does the revision.
MarkerTells(t) == t.data_revision_marker <=> AnnouncesData(t.events)

RevisionTells(t) ==
    t.row.data_revision = t.read.data_revision + (IF AnnouncesData(t.events) THEN 1 ELSE 0)

BumpedOnce(t) == MarkerTells(t) /\ RevisionTells(t)

RevisionInv == StoreInv /\ \A t \in writing : BumpedOnce(t)

\* As many events as numbers.
LEMMA NumbersCount ==
    ASSUME NEW E, NEW i, NEW lo \in Nat, NEW hi \in Nat, Numbers(E, i, lo, hi)
    PROVE  Cardinality(E) \in Nat /\ hi = lo + Cardinality(E)
<1> DEFINE N == lo + 1 .. hi
           f == [n \in N |-> CHOOSE e \in E : e.sequence = n]
<1>1. \A n \in N : f[n] \in E /\ f[n].sequence = n
    BY DEF Numbers
<1>2. \A e \in E : e.sequence \in N
    BY DEF Numbers
<1>3. f \in Bijection(N, E)
  <2>1. f \in [N -> E] /\ \A n, m \in N : f[n] = f[m] => n = m
      BY <1>1
  <2>2. \A e \in E : f[e.sequence] = e
      BY <1>1, <1>2 DEF Numbers
  <2> HIDE DEF f
  <2> QED
      BY <1>2, <2>1, <2>2 DEF Bijection, Injection, Surjection, IsInjective
<1>4. IsFiniteSet(N) /\ Cardinality(N) = hi - lo
  <2>1. PICK m \in Int : m = lo + 1
      OBVIOUS
  <2>2. IsFiniteSet(m .. hi) /\ Cardinality(m .. hi) = IF m > hi THEN 0 ELSE hi - m + 1
      BY FS_Interval
  <2>3. lo <= hi
      BY DEF Numbers
  <2> QED
      BY <2>1, <2>2, <2>3
<1>5. ExistsBijection(N, E)
    BY <1>3 DEF ExistsBijection
<1>6. Cardinality(E) = hi - lo
    BY <1>4, <1>5, FS_Bijection
<1> QED
    BY <1>6 DEF Numbers

\* However many events a transaction emits, the first data-affecting one bumps.
LEMMA EmitEventBumpsOnce ==
    ASSUME NEW t \in Transaction, BumpedOnce(t), NEW type \in EventType, NEW b, NEW revision,
           NEW order
    PROVE  BumpedOnce(EmitEvent(t, type, b, revision, order))
<1> DEFINE u == EmitEvent(t, type, b, revision, order)
           head == Row(t.incident, t.row.event_sequence + 1, type, b, revision)
<1>1. u.read = t.read /\ u.row.data_revision = DataRevisionAfter(t, type)
    BY DEF EmitEvent
<1>2. u.data_revision_marker <=> t.data_revision_marker \/ type \in DataAffecting
    BY Zenon DEF EmitEvent
<1>3. /\ t.events \cup {head} \subseteq u.events
      /\ \A e \in u.events \ (t.events \cup {head}) :
            e.type \in {"command_brief.stale", "map_view.invalidated"}
    BY DEF EmitEvent, Row
<1>4. head.type = type
    BY DEF Row
<1> HIDE DEF u, head
<1>5. AnnouncesData(u.events) <=> AnnouncesData(t.events) \/ type \in DataAffecting
    BY <1>3, <1>4 DEF AnnouncesData, DataAffecting
<1>6. /\ t.row.data_revision \in Nat /\ t.read.data_revision \in Nat
      /\ t.data_revision_marker \in BOOLEAN
    BY DEF Transaction, Counters
<1>7. MarkerTells(u)
    BY <1>2, <1>5 DEF BumpedOnce, MarkerTells
<1>8. RevisionTells(u)
  <2>1. CASE t.data_revision_marker
      BY <1>1, <1>5, <1>6, <2>1 DEF BumpedOnce, MarkerTells, RevisionTells, DataRevisionAfter, BumpsData
  <2>2. CASE ~t.data_revision_marker
      BY <1>1, <1>5, <1>6, <2>2 DEF BumpedOnce, MarkerTells, RevisionTells, DataRevisionAfter, BumpsData
  <2> QED
      BY <2>1, <2>2
<1>9. BumpedOnce(u)
    BY <1>7, <1>8 DEF BumpedOnce
<1> QED
    BY <1>9 DEF u

LEMMA RevisionInit == Init => RevisionInv
BY StoreInit DEF Init, RevisionInv

LEMMA RevisionStep == RevisionInv /\ [Next]_vars => RevisionInv'
<1> SUFFICES ASSUME RevisionInv, [Next]_vars PROVE RevisionInv'
    OBVIOUS
<1>1. StoreInv' /\ StoreInv /\ TypeOK /\ writing \subseteq Transaction
    BY StoreStep DEF RevisionInv, StoreInv, TypeInv, TypeOK
<1>2. \A t : BumpedOnce(t)' <=> BumpedOnce(t)
    BY DEF BumpedOnce, MarkerTells, RevisionTells, AnnouncesData
<1>3. CASE writing' \subseteq writing
    BY <1>1, <1>2, <1>3 DEF RevisionInv
<1>4. ASSUME NEW i, NEW row \in Counters, writing' = {Begin(i, row)} PROVE RevisionInv'
  <2>1. BumpedOnce(Begin(i, row))
      BY DEF BumpedOnce, MarkerTells, RevisionTells, AnnouncesData, Begin, Counters
  <2> QED
      BY <1>1, <1>2, <1>4, <2>1 DEF RevisionInv
<1>5. ASSUME NEW v \in loaded, BeginLoaded(v) PROVE RevisionInv'
  <2>1. v.row \in Counters
      BY <1>1 DEF TypeOK, LoadedIncident
  <2> QED
      BY <1>4, <1>5, <2>1 DEF BeginLoaded
<1>6. ASSUME NEW i \in Incident, BeginFresh(i) PROVE RevisionInv'
  <2>1. incident[i] \in Counters
      BY <1>1 DEF TypeOK
  <2> QED
      BY <1>4, <1>6, <2>1 DEF BeginFresh
<1>7. ASSUME NEW t \in writing, NEW type \in ResourceType, Emit(t, type) PROVE RevisionInv'
  <2>1. PICK order : writing' = {EmitEvent(t, type, NoBrief, 0, order)}
      BY <1>7 DEF Emit
  <2>2. BumpedOnce(EmitEvent(t, type, NoBrief, 0, order))
      BY <1>1, EmitEventBumpsOnce DEF RevisionInv, EventType
  <2> QED
      BY <1>1, <1>2, <2>1, <2>2 DEF RevisionInv
<1>8. CASE UNCHANGED writing \/ writing' = {}
    BY <1>3, <1>8
<1>9. ASSUME NEW b, NEW analysis, NEW type, EndAnalysis(b, analysis, type) PROVE UNCHANGED writing
    BY <1>9 DEF EndAnalysis
<1>10. CASE UNCHANGED vars
    BY <1>8, <1>10 DEF vars
<1>11. CASE Next
    BY <1>5, <1>6, <1>7, <1>8, <1>9, <1>11
    DEF Next, Operate, LoadIncident, Commit, Rollback, RequestBrief, StartAnalysis,
        CompleteAnalysis, FailAnalysis, FinishJob, RetryAnalysis, PublishNext, Purge, Crash
<1> QED
    BY <1>10, <1>11

\* A commit from the current row adds exactly the events of its transaction.
LEMMA CommitCounts ==
    ASSUME TypeOK, ContiguousSequence, NEW t \in Transaction, Numbered(t), BumpedOnce(t),
           t.read = incident[t.incident],
           incident' = [incident EXCEPT ![t.incident] = t.row], outbox' = outbox \cup t.events,
           NEW i \in Incident, NEW new, new = {e \in outbox' : e.incident = i /\ e \notin Log(i)}
    PROVE  /\ incident'[i].data_revision = incident[i].data_revision
                + (IF AnnouncesData(new) THEN 1 ELSE 0)
           /\ incident'[i].event_sequence = incident[i].event_sequence + Cardinality(new)
<1>1. /\ t.incident \in Incident /\ t.row.event_sequence \in Nat /\ t.read.event_sequence \in Nat
      /\ incident[i].event_sequence \in Nat /\ incident[i].data_revision \in Nat
    BY DEF Transaction, Counters, TypeOK
<1>2. CASE i # t.incident
  <2>1. incident'[i] = incident[i]
      BY <1>2 DEF TypeOK
  <2>2. new = {}
      BY <1>2 DEF Numbered, Log
  <2>3. Cardinality(new) = 0 /\ ~AnnouncesData(new)
      BY <2>2, FS_EmptySet DEF AnnouncesData
  <2> QED
      BY <1>1, <2>1, <2>3
<1>3. CASE i = t.incident
  <2>1. incident'[i] = t.row /\ incident[i] = t.read
      BY <1>1, <1>3 DEF TypeOK
  <2>2. new = t.events
    <3>1. \A e \in t.events : e.incident = i /\ e \notin Log(i)
        BY <1>1, <1>3, <2>1, LogByNumber DEF Numbered
    <3> QED
        BY <3>1 DEF Log
  <2>3. t.row.event_sequence = t.read.event_sequence + Cardinality(t.events)
      BY <1>1, NumberedAsNumbers, NumbersCount
  <2>4. t.row.data_revision = t.read.data_revision + (IF AnnouncesData(new) THEN 1 ELSE 0)
      BY <2>2 DEF BumpedOnce, RevisionTells
  <2> QED
      BY <2>1, <2>2, <2>3, <2>4
<1> QED
    BY <1>2, <1>3

\* emit_event with data_revision_marker, _complete_async_analysis: a commit takes data_revision
\* one further if it emits a data-affecting event, however many, and not otherwise; and it takes
\* event_sequence as far as it adds events.  Nothing else moves either counter.
THEOREM CommitsBumpOnce == Spec => OneRevisionPerCommit
<1> DEFINE New(i) == {e \in outbox' : e.incident = i /\ e \notin Log(i)}
           Counted(i) ==
             /\ incident'[i].data_revision = incident[i].data_revision
                  + (IF AnnouncesData(New(i)) THEN 1 ELSE 0)
             /\ incident'[i].event_sequence = incident[i].event_sequence + Cardinality(New(i))
<1>1. ASSUME RevisionInv, [Next]_vars
      PROVE  [\A i \in Incident :
                LET new == {e \in outbox' : e.incident = i /\ e \notin Log(i)}
                IN  /\ incident'[i].data_revision = incident[i].data_revision
                         + (IF \E e \in new : e.type \in DataAffecting THEN 1 ELSE 0)
                    /\ incident'[i].event_sequence
                         = incident[i].event_sequence + Cardinality(new)]_vars
  <2> SUFFICES ASSUME Next PROVE \A i \in Incident : Counted(i)
      BY <1>1 DEF AnnouncesData
  <2>1. TypeOK /\ StoreInv /\ ContiguousSequence /\ writing \subseteq Transaction
      BY <1>1 DEF RevisionInv, StoreInv, TypeInv, TypeOK
  <2>2. ASSUME UNCHANGED incident, outbox' \subseteq outbox, NEW i \in Incident PROVE Counted(i)
    <3>1. New(i) = {}
        BY <2>2 DEF Log
    <3>2. incident[i].data_revision \in Nat /\ incident[i].event_sequence \in Nat
        BY <2>1 DEF TypeOK, Counters
    <3> HIDE DEF New
    <3> QED
        BY <2>2, <3>1, <3>2, FS_EmptySet DEF AnnouncesData
  <2>3. ASSUME NEW t \in writing, Commit(t), NEW i \in Incident PROVE Counted(i)
    <3>1. t \in Transaction /\ Numbered(t) /\ BumpedOnce(t)
        BY <1>1, <2>1 DEF RevisionInv, StoreInv
    <3>2. t.read = incident[t.incident]
        BY <2>1, <2>3, CommitsFromCurrentRow DEF Commit
    <3>3. /\ incident' = [incident EXCEPT ![t.incident] = t.row]
          /\ outbox' = outbox \cup t.events
        BY <2>3 DEF Commit
    <3> QED
        BY <2>1, <3>1, <3>2, <3>3, CommitCounts
  <2>4. ASSUME NEW b \in Brief, NEW analysis,
               NEW type \in {"command_brief.ready", "command_brief.stale", "command_brief.failed"},
               EndAnalysis(b, analysis, type), NEW i \in Incident
        PROVE  Counted(i)
    <3> DEFINE j == brief[b].incident
               start == Begin(j, incident[j])
               t == EmitEvent(start, type, b, brief[b].input_version, <<>>)
    <3>1. j \in Incident /\ brief[b].input_version \in Nat /\ incident[j] \in Counters
        BY <2>1 DEF TypeOK, AiAnalysis
    <3>2. /\ start \in Transaction /\ start.incident = j
          /\ start.read = incident[j] /\ start.row = incident[j] /\ start.events = {}
          /\ ~start.data_revision_marker
        BY <3>1 DEF Begin, Transaction
    <3> HIDE DEF start
    <3>3. Numbered(start) /\ BumpedOnce(start)
      <4>1. incident[j].event_sequence \in Nat /\ incident[j].data_revision \in Nat
          BY <3>1 DEF Counters
      <4> QED
          BY <3>2, <4>1 DEF Numbered, BumpedOnce, MarkerTells, RevisionTells, AnnouncesData
    <3>4. t \in Transaction /\ Numbered(t) /\ BumpedOnce(t)
      <4>1. /\ Len(<<>>) \in Nat /\ DOMAIN <<>> = 1..Len(<<>>)
            /\ \A n \in 1..Len(<<>>) : <<>>[n] \in Brief
          OBVIOUS
      <4>2. type \in EventType /\ b \in Brief \cup {NoBrief}
          BY DEF EventType
      <4> HIDE DEF j
      <4>3. t \in Transaction
          BY <2>1, <3>1, <3>2, <4>1, <4>2, EmitEventType, Zenon
      <4>4. Numbered(t)
          BY <3>2, <3>3, <4>1, EmitEventNumbered
      <4>5. BumpedOnce(t)
          BY <3>2, <3>3, <4>2, EmitEventBumpsOnce
      <4> QED
          BY <4>3, <4>4, <4>5
    <3>5. t.incident = j /\ t.read = incident[j]
        BY <3>2 DEF EmitEvent
    <3>6. /\ incident' = [incident EXCEPT ![j] = t.row] /\ outbox' = outbox \cup t.events
        BY <2>4 DEF EndAnalysis, start
    <3> HIDE DEF t, j
    <3> QED
        BY <2>1, <3>4, <3>5, <3>6, CommitCounts
  <2> HIDE DEF Counted
  <2>5. ASSUME NEW b \in Brief, CompleteAnalysis(b) \/ FailAnalysis(b), NEW i \in Incident
        PROVE  Counted(i)
      BY <2>4, <2>5 DEF CompleteAnalysis, FailAnalysis
  <2> QED
      BY <2>2, <2>3, <2>5
      DEF Next, Operate, LoadIncident, BeginLoaded, BeginFresh, Emit, Rollback, RequestBrief,
          StartAnalysis, FinishJob, RetryAnalysis, PublishNext, Purge, Crash
<1> QED
    BY <1>1, RevisionInit, RevisionStep, PTL DEF Spec, OneRevisionPerCommit

-----------------------------------------------------------------------------
(***************************************************************************)
(* The refinement of IncidentLog.  What is published is a prefix of the    *)
(* log of an incident, and what is deleted is a prefix of that.            *)
(***************************************************************************)
WholeLog == [i \in Incident |-> [n \in 1..incident[i].event_sequence |-> Entry(i, n)]]
Announced == [i \in Incident |-> {k[2] : k \in {k \in published : k[1] = i}}]
Dropped == [i \in Incident |-> {e.sequence : e \in {e \in deleted : e.incident = i}}]

UpTo(S, hi) == \E n \in 0..hi : S = 1..n

PrefixInv ==
    /\ StoreInv
    /\ \A i \in Incident : /\ UpTo(Announced[i], incident[i].event_sequence)
                           /\ UpTo(Dropped[i], incident[i].event_sequence)
                           /\ Dropped[i] \subseteq Announced[i]

\* The positions of the abstract log, by the rows.
LEMMA Positions ==
    ASSUME TypeOK, ContiguousSequence, NEW i \in Incident
    PROVE  /\ incident[i].event_sequence \in Nat
           /\ \A n : n \in Announced[i] <=> <<i, n>> \in published
           /\ \A n : n \in Dropped[i] <=> \E e \in deleted : e.incident = i /\ e.sequence = n
           /\ \A n \in 1..incident[i].event_sequence :
                 Entry(i, n) \in Log(i) /\ Entry(i, n).sequence = n
           /\ \A e \in Log(i) : e.sequence \in 1..incident[i].event_sequence
<1>1. incident[i].event_sequence \in Nat
    BY DEF TypeOK, Counters
<1>2. \A n : n \in Announced[i] <=> <<i, n>> \in published
  <2>1. \A k \in published : k = <<k[1], k[2]>>
      BY DEF TypeOK
  <2> QED
      BY <2>1 DEF Announced
<1>3. \A n : n \in Dropped[i] <=> \E e \in deleted : e.incident = i /\ e.sequence = n
    BY DEF Dropped
<1>4. \A n \in 1..incident[i].event_sequence :
         Entry(i, n) \in Log(i) /\ Entry(i, n).sequence = n
    BY LogByNumber DEF Entry
<1>5. \A e \in Log(i) : e.sequence \in 1..incident[i].event_sequence
    BY LogByNumber
<1> QED
    BY <1>1, <1>2, <1>3, <1>4, <1>5

\* One step of EventLog, as IncidentLog sees it.
LEMMA SameLog ==
    ASSUME UNCHANGED <<incident, published>>, outbox' \cup deleted' = outbox \cup deleted
    PROVE  UNCHANGED <<WholeLog, Announced>>
<1>1. \A i : Log(i)' = Log(i)
    BY DEF Log
<1>2. \A i, n : Entry(i, n)' = Entry(i, n)
    BY <1>1 DEF Entry
<1> QED
    BY <1>2 DEF WholeLog, Announced

LEMMA PrefixInit == Init => PrefixInv /\ AbstractLog!Init
<1> SUFFICES ASSUME Init PROVE PrefixInv /\ AbstractLog!Init
    OBVIOUS
<1>1. StoreInv
    BY StoreInit
<1>2. \A i \in Incident : /\ Announced[i] = {} /\ Dropped[i] = {}
                         /\ incident[i].event_sequence = 0
    BY DEF Init, Announced, Dropped
<1>3. WholeLog = [i \in Incident |-> <<>>]
  <2>1. \A i \in Incident : [n \in 1..incident[i].event_sequence |-> Entry(i, n)] = <<>>
    <3> SUFFICES ASSUME NEW i \in Incident
                 PROVE  [n \in 1..incident[i].event_sequence |-> Entry(i, n)] = <<>>
        OBVIOUS
    <3>1. 1..incident[i].event_sequence = {}
        BY <1>2
    <3> QED
        BY <3>1
  <2> QED
      BY <2>1 DEF WholeLog
<1>4. /\ Announced = [i \in Incident |-> {}]
      /\ Dropped = [i \in Incident |-> {}]
    BY DEF Init, Announced, Dropped
<1>5. AbstractLog!Init
    BY <1>3, <1>4 DEF AbstractLog!Init, WholeLog, Announced, Dropped
<1>6. \A i \in Incident : /\ UpTo(Announced[i], incident[i].event_sequence)
                         /\ UpTo(Dropped[i], incident[i].event_sequence)
  <2>1. 0 \in 0..0 /\ 1..0 = {}
      OBVIOUS
  <2> QED
      BY <1>2, <2>1 DEF UpTo
<1> QED
    BY <1>1, <1>2, <1>5, <1>6 DEF PrefixInv

LEMMA StrictPrefix ==
    ASSUME NEW S, NEW s \in Seq(S), NEW t \in Seq(S), Len(s) < Len(t),
           \A k \in 1..Len(s) : s[k] = t[k]
    PROVE  AbstractLog!IsStrictPrefix(s, t)
<1> DEFINE m == Len(s)
<1>1. m \in Nat /\ Len(t) \in Nat
    OBVIOUS
<1>2. /\ SubSeq(s, 1, m) \in Seq(S) /\ Len(SubSeq(s, 1, m)) = m
      /\ \A k \in 1..m : SubSeq(s, 1, m)[k] = s[k]
    BY <1>1, SubSeqProperties
<1>3. /\ SubSeq(t, 1, m) \in Seq(S) /\ Len(SubSeq(t, 1, m)) = m
      /\ \A k \in 1..m : SubSeq(t, 1, m)[k] = t[k]
    BY <1>1, SubSeqProperties
<1>4. SubSeq(s, 1, m) = SubSeq(t, 1, m)
    BY <1>2, <1>3
<1> QED
    BY <1>1, <1>4 DEF AbstractLog!IsStrictPrefix, AbstractLog!IsPrefix

\* New rows of incident i, numbered on from its counter.
LEMMA ExtendStep ==
    ASSUME PrefixInv, StoreInv', NEW i \in Incident,
           incident'[i].event_sequence > incident[i].event_sequence,
           \A j \in Incident : j # i => incident'[j] = incident[j],
           NEW new, outbox' = outbox \cup new, \A e \in new : e.incident = i,
           UNCHANGED <<published, deleted>>
    PROVE  PrefixInv' /\ AbstractLog!Extend(i)
<1>1. TypeOK /\ TypeOK' /\ ContiguousSequence /\ ContiguousSequence'
    BY DEF PrefixInv, StoreInv, TypeInv
<1>2. \A j \in Incident : /\ incident[j].event_sequence \in Nat /\ incident'[j].event_sequence \in Nat
                         /\ incident[j].event_sequence <= incident'[j].event_sequence
    BY <1>1 DEF TypeOK, Counters
<1>3. UNCHANGED <<Announced, Dropped>>
    BY DEF Announced, Dropped
<1>4. ASSUME NEW j \in Incident
      PROVE  /\ UpTo(Announced[j], incident[j].event_sequence)'
             /\ UpTo(Dropped[j], incident[j].event_sequence)'
             /\ Dropped'[j] \subseteq Announced'[j]
    BY <1>2, <1>3 DEF PrefixInv, UpTo
<1>5. ASSUME NEW j \in Incident, j # i PROVE WholeLog'[j] = WholeLog[j]
  <2>1. Log(j)' = Log(j)
      BY <1>5 DEF Log
  <2>2. \A n : Entry(j, n)' = Entry(j, n)
      BY <2>1 DEF Entry
  <2> QED
      BY <1>5, <2>2 DEF WholeLog
<1> DEFINE m == incident[i].event_sequence
           n == incident'[i].event_sequence
           s == WholeLog[i]
           t == WholeLog'[i]
<1>6. s = [k \in 1..m |-> Entry(i, k)] /\ t = [k \in 1..n |-> Entry(i, k)']
    BY DEF WholeLog
<1>7. \A k \in 1..m : Entry(i, k) \in Log(i) /\ Entry(i, k).sequence = k
    BY <1>1, Positions
<1>8. ASSUME NEW k \in 1..n PROVE Entry(i, k)' \in Log(i)' /\ Entry(i, k)'.sequence = k
  <2>1. \E e \in Log(i)' : e.sequence = k
      BY <1>1, <1>8 DEF ContiguousSequence
  <2> QED
      BY <2>1 DEF Entry
<1>9. \A k \in 1..m : Entry(i, k) = Entry(i, k)'
  <2>1. Log(i) \subseteq Log(i)'
      BY DEF Log
  <2>2. \A k \in 1..m : k \in 1..n
      BY <1>2
  <2>3. \A e, f \in Log(i)' : e.sequence = f.sequence => e = f
      BY <1>1 DEF ContiguousSequence
  <2> QED
      BY <1>7, <1>8, <2>1, <2>2, <2>3
<1>10. AbstractLog!IsStrictPrefix(s, t)
  <2>1. m \in Nat /\ n \in Nat /\ m < n
      BY <1>2
  <2>2. s \in Seq(Log(i)') /\ Len(s) = m
      BY <1>6, <1>7, <2>1 DEF Log
  <2>3. t \in Seq(Log(i)') /\ Len(t) = n
      BY <1>6, <1>8, <2>1
  <2>4. \A k \in 1..m : s[k] = t[k]
      BY <1>2, <1>6, <1>9
  <2> DEFINE S == Log(i)'
  <2> HIDE DEF s, t, m, n, S
  <2>5. Len(s) < Len(t) /\ \A k \in 1..Len(s) : s[k] = t[k]
      BY <2>1, <2>2, <2>3, <2>4
  <2>6. s \in Seq(S) /\ t \in Seq(S)
      BY <2>2, <2>3 DEF S
  <2> QED
      BY <2>5, <2>6, StrictPrefix
<1>11. PrefixInv'
    BY <1>4 DEF PrefixInv
<1>12. AbstractLog!Extend(i)
    BY <1>3, <1>5, <1>10 DEF AbstractLog!Extend, WholeLog, Announced, Dropped
<1> QED
    BY <1>11, <1>12

\* The dispatcher publishes the row after the last one that is published.
LEMMA AnnounceStep ==
    ASSUME PrefixInv, StoreInv', NEW e \in outbox, PublishNext(e)
    PROVE  PrefixInv' /\ AbstractLog!Announce(e.incident)
<1> DEFINE i == e.incident
           hi == incident[i].event_sequence
<1>1. TypeOK /\ ContiguousSequence
    BY DEF PrefixInv, StoreInv, TypeInv
<1>2. i \in Incident /\ e.sequence \in Nat
    BY <1>1 DEF TypeOK, OutboxEvent
<1>3. /\ <<i, e.sequence>> \notin published
      /\ published' = published \cup {<<i, e.sequence>>}
      /\ \A r \in outbox : r.incident = i /\ r.sequence < e.sequence => <<i, r.sequence>> \in published
      /\ UNCHANGED <<incident, outbox, deleted>>
    BY DEF PublishNext, Key
<1>4. /\ hi \in Nat
      /\ \A n : n \in Announced[i] <=> <<i, n>> \in published
      /\ \A n : n \in Dropped[i] <=> \E r \in deleted : r.incident = i /\ r.sequence = n
      /\ \A n \in 1..hi : Entry(i, n) \in Log(i) /\ Entry(i, n).sequence = n
      /\ \A r \in Log(i) : r.sequence \in 1..hi
    BY <1>1, <1>2, Positions
<1>5. PICK p \in 0..hi : Announced[i] = 1..p
    BY <1>2 DEF PrefixInv, UpTo
<1>6. e.sequence \in 1..hi
    BY <1>4 DEF Log
<1>7. \A n \in 1..hi : n < e.sequence => <<i, n>> \in published
  <2> SUFFICES ASSUME NEW n \in 1..hi, n < e.sequence PROVE <<i, n>> \in published
      OBVIOUS
  <2>1. Entry(i, n) \in outbox \/ Entry(i, n) \in deleted
      BY <1>4 DEF Log
  <2>2. Entry(i, n).incident = i /\ Entry(i, n).sequence = n
      BY <1>4 DEF Log
  <2>3. CASE Entry(i, n) \in outbox
      BY <1>3, <2>2, <2>3
  <2>4. CASE Entry(i, n) \in deleted
    <3>1. n \in Dropped[i]
        BY <1>4, <2>2, <2>4
    <3> QED
        BY <1>2, <1>4, <3>1 DEF PrefixInv
  <2> QED
      BY <2>1, <2>3, <2>4
<1> HIDE DEF i, hi
<1>8. e.sequence = p + 1
  <2>1. e.sequence \notin 1..p /\ \A n \in 1..hi : n < e.sequence => n \in 1..p
      BY <1>3, <1>4, <1>5, <1>7
  <2>2. e.sequence > p
      BY <1>6, <2>1
  <2>3. e.sequence <= p + 1
    <3> SUFFICES ASSUME p + 1 < e.sequence PROVE FALSE
        BY <1>2
    <3>1. p + 1 \in 1..hi
        BY <1>2, <1>4, <1>6
    <3> QED
        BY <2>1, <3>1
  <2> QED
      BY <1>2, <2>2, <2>3
<1>9. ASSUME NEW j \in Incident
      PROVE  /\ j # i => Announced'[j] = Announced[j]
             /\ j = i => Announced'[j] = Announced[j] \cup {e.sequence}
  <2> DEFINE K(S) == {k \in S : k[1] = j}
             new == <<i, e.sequence>>
  <2>1. Announced'[j] = {k[2] : k \in K(published')} /\ Announced[j] = {k[2] : k \in K(published)}
      BY DEF Announced
  <2>2. new[1] = i /\ new[2] = e.sequence
      OBVIOUS
  <2>3. published' = published \cup {new}
      BY <1>3
  <2> HIDE DEF new
  <2>4. CASE j # i
    <3>1. K(published') = K(published)
        BY <2>2, <2>3, <2>4
    <3> QED
        BY <2>1, <2>4, <3>1
  <2>5. CASE j = i
    <3>1. K(published') = K(published) \cup {new}
        BY <2>2, <2>3, <2>5
    <3> HIDE DEF K
    <3> QED
        BY <2>1, <2>2, <2>5, <3>1
  <2> QED
      BY <2>4, <2>5
<1>10. Announced'[i] = 1..(p + 1)
  <2>1. Announced'[i] = (1..p) \cup {p + 1}
      BY <1>2, <1>5, <1>8, <1>9
  <2>2. p \in Nat
      BY <1>4
  <2> QED
      BY <2>1, <2>2
<1>11. Announced' = [Announced EXCEPT ![i] = 1..(p + 1)]
    BY <1>9, <1>10 DEF Announced
<1>12. UNCHANGED <<WholeLog, Dropped>>
    BY <1>3, SameLog DEF WholeLog, Dropped, Entry, Log
<1>13. p + 1 \in 1..hi
    BY <1>6, <1>8
<1>14. ASSUME NEW j \in Incident
       PROVE  /\ UpTo(Announced[j], incident[j].event_sequence)'
              /\ UpTo(Dropped[j], incident[j].event_sequence)'
              /\ Dropped'[j] \subseteq Announced'[j]
  <2>1. Announced[j] \subseteq Announced'[j]
      BY <1>9
  <2>2. UpTo(Announced[j], incident[j].event_sequence)'
    <3>1. CASE j = i
      <4>1. p + 1 \in 0..incident'[j].event_sequence
          BY <1>3, <1>13, <3>1 DEF hi
      <4> QED
          BY <1>10, <3>1, <4>1 DEF UpTo
    <3>2. CASE j # i
        BY <1>3, <1>9, <3>2 DEF PrefixInv, UpTo
    <3> QED
        BY <3>1, <3>2
  <2>3. UpTo(Dropped[j], incident[j].event_sequence)'
      BY <1>3, <1>12 DEF PrefixInv, UpTo
  <2> QED
      BY <1>12, <2>1, <2>2, <2>3 DEF PrefixInv
<1>15. AbstractLog!Announce(i)
  <2>1. Len(WholeLog[i]) = hi
    <3>1. WholeLog[i] = [n \in 1..hi |-> Entry(i, n)]
        BY <1>2 DEF WholeLog, hi, i
    <3>2. WholeLog[i] \in [1..hi -> Log(i)]
        BY <1>4, <3>1
    <3> QED
        BY <1>4, <3>2
  <2>2. /\ p + 1 \in 1..Len(WholeLog[i])
        /\ Announced[i] = 1..((p + 1) - 1)
        /\ Announced' = [Announced EXCEPT ![i] = 1..(p + 1)]
      BY <1>5, <1>11, <1>13, <2>1
  <2>3. \E n \in 1..Len(WholeLog[i]) :
          /\ Announced[i] = 1..(n - 1)
          /\ Announced' = [Announced EXCEPT ![i] = 1..n]
      BY <2>2
  <2> QED
      BY <1>12, <2>3 DEF AbstractLog!Announce, WholeLog, Announced, Dropped
<1> QED
    BY <1>14, <1>15 DEF PrefixInv, i

\* What retention deletes makes a longer prefix of what it had deleted, below what is published.
LEMMA DropStep ==
    ASSUME PrefixInv, StoreInv', NEW cutoff \in [Incident -> 0..MaxPublished], Purge(cutoff)
    PROVE  PrefixInv' /\ AbstractLog!Drop
<1> DEFINE expired == {e \in outbox : Key(e) \in published /\ e.sequence <= cutoff[e.incident]}
<1>1. TypeOK /\ ContiguousSequence
    BY DEF PrefixInv, StoreInv, TypeInv
<1>2. /\ outbox' = outbox \ expired /\ deleted' = deleted \cup expired
      /\ UNCHANGED <<incident, published>>
    BY DEF Purge
<1>3. \A e \in outbox : e \in expired <=> /\ <<e.incident, e.sequence>> \in published
                                       /\ e.sequence <= cutoff[e.incident]
    BY DEF Key
<1>4. expired \subseteq outbox
    OBVIOUS
<1> HIDE DEF expired
<1>5. UNCHANGED <<WholeLog, Announced>>
    BY <1>2, <1>4, SameLog
<1>6. ASSUME NEW i \in Incident
      PROVE  /\ \E n \in 0..incident[i].event_sequence : Dropped'[i] = 1..n
             /\ Dropped[i] \subseteq Dropped'[i] /\ Dropped'[i] \subseteq Announced[i]
  <2> DEFINE hi == incident[i].event_sequence
             c == cutoff[i]
  <2>1. /\ hi \in Nat
        /\ \A n : n \in Announced[i] <=> <<i, n>> \in published
        /\ \A n : n \in Dropped[i] <=> \E r \in deleted : r.incident = i /\ r.sequence = n
        /\ \A n \in 1..hi : Entry(i, n) \in Log(i) /\ Entry(i, n).sequence = n
      BY <1>1, Positions
  <2>2. c \in Nat
      BY BoundsAreNaturals
  <2> HIDE DEF hi, c
  <2>3. PICK p \in 0..hi : Announced[i] = 1..p
      BY DEF PrefixInv, UpTo, hi
  <2>4. PICK d \in 0..hi : Dropped[i] = 1..d
      BY DEF PrefixInv, UpTo, hi
  <2>5. 1..d \subseteq 1..p
      BY <2>3, <2>4 DEF PrefixInv
  <2>6. Dropped'[i] = {e.sequence : e \in {e \in deleted' : e.incident = i}}
      BY DEF Dropped
  <2>7. \A n : n \in Dropped'[i] <=>
               n \in 1..d \/ \E r \in expired : r.incident = i /\ r.sequence = n
    <3>1. \A n : n \in Dropped'[i] <=> \E r \in deleted' : r.incident = i /\ r.sequence = n
        BY <2>6
    <3> QED
        BY <1>2, <2>1, <2>4, <3>1
  <2>8. \A n : n \in Dropped'[i] => n \in 1..d \/ (n \in 1..p /\ n <= c)
    <3> SUFFICES ASSUME NEW r \in expired, r.incident = i
                 PROVE  r.sequence \in 1..p /\ r.sequence <= c
        BY <2>7
    <3>1. <<i, r.sequence>> \in published /\ r.sequence <= c
        BY <1>3, <1>4 DEF c
    <3> QED
        BY <2>1, <2>3, <3>1
  <2>9. \A n : n \in 1..p /\ n <= c => n \in Dropped'[i]
    <3> SUFFICES ASSUME NEW n \in 1..p, n <= c PROVE n \in Dropped'[i]
        OBVIOUS
    <3>1. n \in 1..hi
        BY <2>1
    <3>2. /\ Entry(i, n) \in outbox \/ Entry(i, n) \in deleted
          /\ Entry(i, n).incident = i /\ Entry(i, n).sequence = n
        BY <2>1, <3>1 DEF Log
    <3>3. CASE Entry(i, n) \in deleted
        BY <2>1, <2>4, <2>7, <3>2, <3>3
    <3>4. CASE Entry(i, n) \in outbox
      <4>1. <<i, n>> \in published
          BY <2>1, <2>3
      <4>2. Entry(i, n) \in expired
          BY <1>3, <3>2, <3>4, <4>1 DEF c
      <4> QED
          BY <2>7, <3>2, <4>2
    <3> QED
        BY <3>2, <3>3, <3>4
  <2> DEFINE q == IF c < p THEN c ELSE p
             m == IF q < d THEN d ELSE q
  <2>10. m \in 0..hi /\ 1..d \subseteq 1..m /\ 1..m \subseteq 1..p
    <3>1. p \in Nat /\ d \in Nat /\ p <= hi /\ d <= hi /\ d <= p
      <4>1. d <= p
        <5> SUFFICES ASSUME p < d PROVE FALSE
            BY <2>1
        <5>1. d \in 1..d /\ d \notin 1..p
            BY <2>1
        <5> QED
            BY <2>5, <5>1
      <4> QED
          BY <2>1, <4>1
    <3> QED
        BY <2>1, <2>2, <3>1
  <2>11. \A n : n \in 1..m <=> n \in 1..d \/ (n \in 1..p /\ n <= c)
      BY <2>1, <2>2, <2>10
  <2>12. Dropped'[i] = 1..m
    <3> HIDE DEF m
    <3>1. \A n : n \in Dropped'[i] <=> n \in 1..m
        BY <2>7, <2>8, <2>9, <2>11
    <3> QED
        BY <3>1
  <2> HIDE DEF m
  <2> QED
      BY <2>3, <2>4, <2>10, <2>12 DEF hi
<1>7. ASSUME NEW i \in Incident
      PROVE  /\ UpTo(Announced[i], incident[i].event_sequence)'
             /\ UpTo(Dropped[i], incident[i].event_sequence)'
             /\ Dropped'[i] \subseteq Announced'[i]
    BY <1>2, <1>5, <1>6 DEF PrefixInv, UpTo
<1>8. \A i \in Incident : Len(WholeLog[i]) = incident[i].event_sequence
  <2> SUFFICES ASSUME NEW i \in Incident PROVE Len(WholeLog[i]) = incident[i].event_sequence
      OBVIOUS
  <2>1. WholeLog[i] \in [1..incident[i].event_sequence -> Log(i)]
      BY <1>1, Positions DEF WholeLog
  <2>2. incident[i].event_sequence \in Nat
      BY <1>1, Positions
  <2> QED
      BY <2>1, <2>2
<1>9. AbstractLog!Drop
    BY <1>5, <1>6, <1>8 DEF AbstractLog!Drop, WholeLog, Announced, Dropped
<1> QED
    BY <1>7, <1>9 DEF PrefixInv

\* All other steps leave the log as it is.
LEMMA LogStutters ==
    ASSUME PrefixInv, StoreInv', UNCHANGED <<incident, outbox, published, deleted>>
    PROVE  PrefixInv' /\ UNCHANGED AbstractLog!vars
<1>1. UNCHANGED <<WholeLog, Announced>>
    BY SameLog
<1>2. UNCHANGED Dropped
    BY DEF Dropped
<1>3. PrefixInv'
    BY <1>1, <1>2 DEF PrefixInv, UpTo
<1> QED
    BY <1>1, <1>2, <1>3 DEF AbstractLog!vars, WholeLog, Announced, Dropped

LEMMA RefinementStep ==
    PrefixInv /\ [Next]_vars => PrefixInv' /\ [AbstractLog!Next]_(AbstractLog!vars)
<1> SUFFICES ASSUME PrefixInv, [Next]_vars
             PROVE  PrefixInv' /\ [AbstractLog!Next]_(AbstractLog!vars)
    OBVIOUS
<1>1. StoreInv' /\ StoreInv /\ TypeOK /\ writing \subseteq Transaction
    BY StoreStep DEF PrefixInv, StoreInv, TypeInv, TypeOK
<1>2. CASE UNCHANGED <<incident, outbox, published, deleted>>
    BY <1>1, <1>2, LogStutters
<1>3. ASSUME NEW i \in Incident, PrefixInv' /\ AbstractLog!Extend(i)
      PROVE  PrefixInv' /\ [AbstractLog!Next]_(AbstractLog!vars)
    BY <1>3 DEF AbstractLog!Next
<1>4. ASSUME NEW t \in writing, Commit(t) PROVE PrefixInv' /\ [AbstractLog!Next]_(AbstractLog!vars)
  <2>1. /\ t.incident \in Incident /\ Numbered(t)
        /\ incident \in [Incident -> Counters]
      BY <1>1 DEF Transaction, StoreInv, TypeOK
  <2>2. /\ incident' = [incident EXCEPT ![t.incident] = t.row]
        /\ outbox' = outbox \cup t.events /\ UNCHANGED <<published, deleted>>
      BY <1>4 DEF Commit
  <2>3. t.row.event_sequence > incident[t.incident].event_sequence
      BY <1>1, <1>4, CommitsFromCurrentRow DEF Commit
  <2>4. /\ incident'[t.incident].event_sequence > incident[t.incident].event_sequence
        /\ \A j \in Incident : j # t.incident => incident'[j] = incident[j]
        /\ \A e \in t.events : e.incident = t.incident
      BY <2>1, <2>2, <2>3 DEF Numbered
  <2> QED
      BY <1>1, <1>3, <2>1, <2>2, <2>4, ExtendStep
<1>5. ASSUME NEW b \in Brief, NEW analysis,
             NEW type \in {"command_brief.ready", "command_brief.stale", "command_brief.failed"},
             EndAnalysis(b, analysis, type)
      PROVE  PrefixInv' /\ [AbstractLog!Next]_(AbstractLog!vars)
  <2> DEFINE i == brief[b].incident
             start == Begin(i, incident[i])
             t == EmitEvent(start, type, b, brief[b].input_version, <<>>)
  <2>1. /\ i \in Incident /\ incident[i] \in Counters
        /\ incident \in [Incident -> Counters]
      BY <1>1 DEF TypeOK, AiAnalysis
  <2>2. /\ start \in Transaction /\ start.incident = i
        /\ start.read = incident[i] /\ start.row = incident[i] /\ start.events = {}
      BY <2>1 DEF Begin, Transaction
  <2> HIDE DEF start
  <2>3. Numbered(start)
    <3>1. incident[i].event_sequence \in Nat
        BY <2>1 DEF Counters
    <3> QED
        BY <2>2, <3>1 DEF Numbered
  <2>4. Numbered(t) /\ t.row.event_sequence > incident[i].event_sequence
    <3>1. Len(<<>>) \in Nat /\ DOMAIN <<>> = 1..Len(<<>>)
        OBVIOUS
    <3> HIDE DEF i
    <3> QED
        BY <2>2, <2>3, <3>1, EmitEventNumbered
  <2>5. t.incident = i
      BY <2>2 DEF EmitEvent
  <2>6. /\ incident' = [incident EXCEPT ![i] = t.row] /\ outbox' = outbox \cup t.events
        /\ UNCHANGED <<published, deleted>>
      BY <1>5 DEF EndAnalysis, start
  <2> HIDE DEF t, i
  <2>7. /\ incident'[i].event_sequence > incident[i].event_sequence
        /\ \A j \in Incident : j # i => incident'[j] = incident[j]
        /\ \A e \in t.events : e.incident = i
      BY <2>1, <2>4, <2>5, <2>6 DEF Numbered
  <2> QED
      BY <1>1, <1>3, <2>1, <2>6, <2>7, ExtendStep
<1>6. ASSUME NEW b \in Brief, CompleteAnalysis(b) \/ FailAnalysis(b)
      PROVE  PrefixInv' /\ [AbstractLog!Next]_(AbstractLog!vars)
    BY <1>5, <1>6 DEF CompleteAnalysis, FailAnalysis
<1>7. ASSUME NEW e \in outbox, PublishNext(e)
      PROVE  PrefixInv' /\ [AbstractLog!Next]_(AbstractLog!vars)
  <2>1. e.incident \in Incident
      BY <1>1 DEF TypeOK, OutboxEvent
  <2> QED
      BY <1>1, <1>7, <2>1, AnnounceStep DEF AbstractLog!Next
<1>8. ASSUME NEW cutoff \in [Incident -> 0..MaxPublished], Purge(cutoff)
      PROVE  PrefixInv' /\ [AbstractLog!Next]_(AbstractLog!vars)
    BY <1>1, <1>8, DropStep DEF AbstractLog!Next
<1>9. CASE UNCHANGED vars
    BY <1>2, <1>9 DEF vars
<1>10. CASE Next
    BY <1>2, <1>4, <1>6, <1>7, <1>8, <1>10
    DEF Next, Operate, LoadIncident, BeginLoaded, BeginFresh, Emit, Rollback, RequestBrief,
        StartAnalysis, FinishJob, RetryAnalysis, Crash
<1> QED
    BY <1>9, <1>10

\* The outbox table, published_at and the counters implement the append-only log: a commit adds
\* at the end, the dispatcher publishes the next one, retention drops a published prefix, and
\* nothing ever changes an event, renumbers it or publishes it twice.
THEOREM StoreImplementsLog == Spec => ImplementsIncidentLog
<1>1. Init => PrefixInv /\ AbstractLog!Init
    BY PrefixInit
<1>2. PrefixInv /\ [Next]_vars => PrefixInv' /\ [AbstractLog!Next]_(AbstractLog!vars)
    BY RefinementStep
<1> QED
    BY <1>1, <1>2, PTL DEF Spec, ImplementsIncidentLog, AbstractLog!Spec
=============================================================================
