-------------------------- MODULE EventLogProofs ---------------------------
(***************************************************************************)
(* Theorems about EventLog, for every value of its constants.              *)
(***************************************************************************)
EXTENDS EventLog, FiniteSetTheorems, TLAPS

-----------------------------------------------------------------------------
(***************************************************************************)
(* The SELECT of the outdated briefs returns each of them exactly once, in *)
(* some order.                                                             *)
(***************************************************************************)
LEMMA OrderOfSelect ==
    ASSUME NEW S, IsFiniteSet(S), NEW order \in SetToSeqs(S)
    PROVE  /\ Len(order) \in Nat
           /\ DOMAIN order = 1..Len(order)
           /\ \A n \in 1..Len(order) : order[n] \in S
           /\ ToSet(order) = S
<1> DEFINE size == Cardinality(S)
<1>1. size \in Nat
    BY FS_CardinalityType
<1>2. order \in [1..size -> S] /\ \A n, m \in 1..size : n # m => order[n] # order[m]
    BY DEF SetToSeqs
<1>3. Len(order) = size /\ DOMAIN order = 1..size
  <2>1. order \in Seq(S)
      BY <1>1, <1>2
  <2> QED
      BY <1>1, <1>2, <2>1
<1>4. IsFiniteSet(1..size) /\ Cardinality(1..size) = size
    BY <1>1, FS_Interval
<1>5. order \in Injection(1..size, S)
    BY <1>2 DEF Injection, IsInjective
<1>6. order \in Surjection(1..size, S)
    BY <1>4, <1>5, FS_Injection
<1>7. ToSet(order) = S
    BY <1>2, <1>6 DEF ToSet, Surjection
<1> QED
    BY <1>1, <1>2, <1>3, <1>7

\* One execution of emit_event keeps the transaction well-formed.
LEMMA EmitEventType ==
    ASSUME TypeOK, NEW t \in Transaction, NEW type \in EventType,
           NEW b \in Brief \cup {NoBrief}, NEW revision \in Nat,
           NEW order, Len(order) \in Nat, DOMAIN order = 1..Len(order),
           \A n \in 1..Len(order) : order[n] \in Brief
    PROVE  EmitEvent(t, type, b, revision, order) \in Transaction
<1> DEFINE u == EmitEvent(t, type, b, revision, order)
<1>1. t.incident \in Incident /\ t.read \in Counters /\ t.row \in Counters
    BY DEF Transaction
<1>2. /\ t.row.event_sequence \in Nat
      /\ DataRevisionAfter(t, type) \in Nat
      /\ MapRevisionAfter(t, type) \in Nat
    BY <1>1 DEF Counters, DataRevisionAfter, MapRevisionAfter
<1>3. u.row \in Counters
    BY <1>2 DEF EmitEvent, Counters
<1>4. \A n \in Nat, x \in EventType, c \in Brief \cup {NoBrief}, v \in Nat :
        Row(t.incident, n, x, c, v) \in OutboxEvent
    BY <1>1 DEF Row, OutboxEvent
<1>5. u.events \in SUBSET OutboxEvent
  <2>1. \A n \in DOMAIN order :
          Row(t.incident, t.row.event_sequence + 1 + n, "command_brief.stale", order[n],
              brief[order[n]].input_version) \in OutboxEvent
    <3> SUFFICES ASSUME NEW n \in DOMAIN order
                 PROVE  Row(t.incident, t.row.event_sequence + 1 + n, "command_brief.stale",
                            order[n], brief[order[n]].input_version) \in OutboxEvent
        OBVIOUS
    <3>1. order[n] \in Brief /\ n \in Nat
        OBVIOUS
    <3>2. brief[order[n]].input_version \in Nat
        BY <3>1 DEF TypeOK, AiAnalysis
    <3>3. "command_brief.stale" \in EventType
        BY DEF EventType
    <3> QED
        BY <1>2, <1>4, <3>1, <3>2, <3>3
  <2>2. Row(t.incident, t.row.event_sequence + 1, type, b, revision) \in OutboxEvent
    <3>1. t.row.event_sequence + 1 \in Nat
        BY <1>2
    <3> QED
        BY <1>4, <3>1
  <2>3. Row(t.incident, t.row.event_sequence + 1 + Len(order)
                + (IF BumpsMap(t, type) THEN 1 ELSE 0),
            "map_view.invalidated", NoBrief, MapRevisionAfter(t, type)) \in OutboxEvent
    <3>1. t.row.event_sequence + 1 + Len(order)
              + (IF BumpsMap(t, type) THEN 1 ELSE 0) \in Nat
        BY <1>2
    <3>2. "map_view.invalidated" \in EventType
        BY DEF EventType
    <3> QED
        BY <1>2, <1>4, <3>1, <3>2
  <2>4. t.events \in SUBSET OutboxEvent
      BY DEF Transaction
  <2> QED
      BY <2>1, <2>2, <2>3, <2>4 DEF EmitEvent
<1>6. u.staled \in SUBSET Brief
  <2>1. t.staled \in SUBSET Brief
      BY DEF Transaction
  <2> QED
      BY <2>1 DEF EmitEvent, ToSet
<1>7. u.data_revision_marker \in BOOLEAN /\ u.map_revision_marker \in BOOLEAN
    BY DEF EmitEvent, Transaction
<1> QED
    BY <1>1, <1>3, <1>5, <1>6, <1>7 DEF EmitEvent, Transaction

-----------------------------------------------------------------------------
(***************************************************************************)
(* Types                                                                   *)
(***************************************************************************)
\* The worker is at a brief only while a job asks for it, which is why the
\* number of jobs never drops below zero.
JobBehindRun == \A b \in Brief : run[b] # "idle" => jobs[b] > 0

TypeInv == TypeOK /\ JobBehindRun

\* The step that ends one execution of a brief, whatever it writes.
LEMMA EndAnalysisType ==
    ASSUME TypeInv, NEW b \in Brief, NEW analysis \in AiAnalysis, NEW type \in EventType,
           analysis.status \in {"succeeded", "failed"}, EndAnalysis(b, analysis, type)
    PROVE  TypeInv'
<1> DEFINE i == brief[b].incident
           t == EmitEvent(Begin(i, incident[i]), type, b, brief[b].input_version, <<>>)
<1>1. i \in Incident /\ brief[b].input_version \in Nat
    BY DEF TypeInv, TypeOK, AiAnalysis
<1>2. Begin(i, incident[i]) \in Transaction
    BY <1>1 DEF Begin, Transaction, TypeInv, TypeOK
<1>3. t \in Transaction
  <2> HIDE DEF i
  <2> QED
      BY <1>1, <1>2, EmitEventType DEF TypeInv
<1>4. t.row \in Counters /\ t.events \in SUBSET OutboxEvent
    BY <1>3 DEF Transaction
<1> HIDE DEF t
<1>5. /\ incident' = [incident EXCEPT ![i] = t.row]
      /\ outbox' = outbox \cup t.events
      /\ brief' = [brief EXCEPT ![b] = analysis]
      /\ run' = [run EXCEPT ![b] = analysis.status]
      /\ UNCHANGED <<published, deleted, jobs, loaded, writing>>
      /\ run[b] = "model"
    BY DEF EndAnalysis, t
<1>6. incident' \in [Incident -> Counters] /\ outbox' \subseteq OutboxEvent
    BY <1>1, <1>4, <1>5 DEF TypeInv, TypeOK
<1>7. brief' \in [Brief -> AiAnalysis]
    BY <1>5 DEF TypeInv, TypeOK
<1>8. run' \in [Brief -> {"idle", "model", "succeeded", "failed"}]
    BY <1>5 DEF TypeInv, TypeOK
<1>9. JobBehindRun'
    BY <1>5 DEF TypeInv, TypeOK, JobBehindRun
<1> QED
    BY <1>5, <1>6, <1>7, <1>8, <1>9 DEF TypeInv, TypeOK

\* An empty store is well-formed.
LEMMA TypeInit == Init => TypeInv
<1> SUFFICES ASSUME Init PROVE TypeInv
    OBVIOUS
<1>1. brief \in [Brief -> AiAnalysis]
  <2>1. [incident : Incident, status : {"absent"}, is_stale : {FALSE}, input_version : {0}]
          \subseteq AiAnalysis
    <3>1. {"absent"} \subseteq BriefStatus /\ {0} \subseteq Nat
        BY DEF BriefStatus
    <3>2. {FALSE} \subseteq BOOLEAN
        BY Zenon
    <3> QED
        BY <3>1, <3>2, Zenon DEF AiAnalysis
  <2> QED
      BY <2>1 DEF Init
<1>2. incident \in [Incident -> Counters]
    BY DEF Init, Counters
<1>3. jobs \in [Brief -> 0..MaxJobs]
    BY BoundsAreNaturals DEF Init
<1>4. run \in [Brief -> {"idle", "model", "succeeded", "failed"}] /\ JobBehindRun
    BY DEF Init, JobBehindRun
<1> QED
    BY <1>1, <1>2, <1>3, <1>4 DEF Init, TypeInv, TypeOK

\* Every handler, the worker, the dispatcher, retention and a restart keep the store
\* well-formed.
LEMMA TypeStep == TypeInv /\ [Next]_vars => TypeInv'
<1> SUFFICES ASSUME TypeInv, [Next]_vars PROVE TypeInv'
    OBVIOUS
<1> USE DEF TypeInv
<1>1. CASE UNCHANGED vars
    BY <1>1 DEF vars, TypeOK, JobBehindRun
<1>2. ASSUME NEW s \in Session, NEW i \in Incident, LoadIncident(s, i) PROVE TypeInv'
  <2>1. [session |-> s, incident |-> i, row |-> incident[i]] \in LoadedIncident
      BY DEF LoadedIncident, TypeOK
  <2> QED
      BY <1>2, <2>1 DEF LoadIncident, TypeOK, JobBehindRun
<1>3. ASSUME NEW v \in loaded, BeginLoaded(v) PROVE TypeInv'
  <2>1. Begin(v.incident, v.row) \in Transaction
      BY DEF Begin, Transaction, TypeOK, LoadedIncident
  <2> QED
      BY <1>3, <2>1 DEF BeginLoaded, TypeOK, JobBehindRun
<1>4. ASSUME NEW i \in Incident, BeginFresh(i) PROVE TypeInv'
  <2>1. Begin(i, incident[i]) \in Transaction
      BY DEF Begin, Transaction, TypeOK
  <2> QED
      BY <1>4, <2>1 DEF BeginFresh, TypeOK, JobBehindRun
<1>5. ASSUME NEW t \in writing, NEW type \in ResourceType, Emit(t, type) PROVE TypeInv'
  <2>1. t \in Transaction
      BY DEF TypeOK
  <2>2. PICK order \in SetToSeqs(OutdatedBriefs(t, type)) :
            writing' = {EmitEvent(t, type, NoBrief, 0, order)}
      BY <1>5 DEF Emit
  <2>3. IsFiniteSet(OutdatedBriefs(t, type)) /\ OutdatedBriefs(t, type) \subseteq Brief
      BY BriefsAreFinite, FS_Subset DEF OutdatedBriefs
  <2>4. /\ Len(order) \in Nat /\ DOMAIN order = 1..Len(order)
        /\ \A n \in 1..Len(order) : order[n] \in Brief
      BY <2>3, OrderOfSelect
  <2>5. type \in EventType
      BY DEF EventType
  <2>6. EmitEvent(t, type, NoBrief, 0, order) \in Transaction
      BY <2>1, <2>4, <2>5, EmitEventType
  <2> QED
      BY <1>5, <2>2, <2>6 DEF Emit, TypeOK, JobBehindRun
<1>6. ASSUME NEW t \in writing, Commit(t) PROVE TypeInv'
  <2>1. t \in Transaction
      BY DEF TypeOK
  <2>2. incident' \in [Incident -> Counters] /\ outbox' \subseteq OutboxEvent
      BY <1>6, <2>1 DEF Commit, TypeOK, Transaction
  <2>3. brief' \in [Brief -> AiAnalysis]
      BY <1>6 DEF Commit, MarkStale, TypeOK, AiAnalysis
  <2> QED
      BY <1>6, <2>2, <2>3 DEF Commit, TypeOK, JobBehindRun
<1>7. ASSUME NEW t \in writing, Rollback(t) PROVE TypeInv'
    BY <1>7 DEF Rollback, TypeOK, JobBehindRun
<1>8. ASSUME NEW b \in Brief, NEW i \in Incident, RequestBrief(b, i) PROVE TypeInv'
  <2>1. [incident |-> i, status |-> "queued", is_stale |-> FALSE,
         input_version |-> incident[i].data_revision] \in AiAnalysis
      BY DEF AiAnalysis, BriefStatus, TypeOK, Counters
  <2>2. brief' \in [Brief -> AiAnalysis]
      BY <1>8, <2>1 DEF RequestBrief, TypeOK
  <2>3. jobs' \in [Brief -> 0..MaxJobs]
      BY <1>8, BoundsAreNaturals DEF RequestBrief, TypeOK
  <2>4. JobBehindRun'
      BY <1>8, BoundsAreNaturals DEF RequestBrief, TypeOK, JobBehindRun
  <2> QED
      BY <1>8, <2>2, <2>3, <2>4 DEF RequestBrief, TypeOK
<1>9. ASSUME NEW b \in Brief, StartAnalysis(b) PROVE TypeInv'
  <2>1. brief' \in [Brief -> AiAnalysis]
      BY <1>9 DEF StartAnalysis, TypeOK, AiAnalysis, BriefStatus
  <2>2. JobBehindRun'
      BY <1>9 DEF StartAnalysis, TypeOK, JobBehindRun
  <2> QED
      BY <1>9, <2>1, <2>2 DEF StartAnalysis, TypeOK
<1>10. ASSUME NEW b \in Brief, CompleteAnalysis(b) PROVE TypeInv'
  <2>1. brief[b].is_stale \in BOOLEAN
      BY DEF TypeOK, AiAnalysis
  <2>2. PICK stale \in BOOLEAN :
            EndAnalysis(b, [brief[b] EXCEPT !.status = "succeeded", !.is_stale = stale],
                        IF stale THEN "command_brief.stale" ELSE "command_brief.ready")
      BY <1>10, <2>1 DEF CompleteAnalysis
  <2>3. [brief[b] EXCEPT !.status = "succeeded", !.is_stale = stale] \in AiAnalysis
      BY DEF TypeOK, AiAnalysis, BriefStatus
  <2>4. [brief[b] EXCEPT !.status = "succeeded", !.is_stale = stale].status = "succeeded"
      BY DEF TypeOK, AiAnalysis
  <2>5. (IF stale THEN "command_brief.stale" ELSE "command_brief.ready") \in EventType
      BY DEF EventType
  <2> QED
      BY <2>2, <2>3, <2>4, <2>5, EndAnalysisType
<1>11. ASSUME NEW b \in Brief, FailAnalysis(b) PROVE TypeInv'
  <2>1. [brief[b] EXCEPT !.status = "failed"] \in AiAnalysis
      BY DEF TypeOK, AiAnalysis, BriefStatus
  <2>2. [brief[b] EXCEPT !.status = "failed"].status = "failed"
      BY DEF TypeOK, AiAnalysis
  <2>3. "command_brief.failed" \in EventType
      BY DEF EventType
  <2> QED
      BY <1>11, <2>1, <2>2, <2>3, EndAnalysisType DEF FailAnalysis
<1>12. ASSUME NEW b \in Brief, FinishJob(b) PROVE TypeInv'
  <2>1. jobs[b] > 0
      BY <1>12 DEF FinishJob, JobBehindRun
  <2>2. jobs' \in [Brief -> 0..MaxJobs]
      BY <1>12, <2>1, BoundsAreNaturals DEF FinishJob, TypeOK
  <2>3. run' \in [Brief -> {"idle", "model", "succeeded", "failed"}]
      BY <1>12 DEF FinishJob, TypeOK
  <2>4. JobBehindRun'
      BY <1>12 DEF FinishJob, TypeOK, JobBehindRun
  <2> QED
      BY <1>12, <2>2, <2>3, <2>4 DEF FinishJob, TypeOK
<1>13. ASSUME NEW b \in Brief, RetryAnalysis(b) PROVE TypeInv'
  <2>1. brief' \in [Brief -> AiAnalysis]
    <3>1. brief[b] \in AiAnalysis
        BY DEF TypeOK
    <3>2. [brief[b] EXCEPT !.status = "queued", !.is_stale = FALSE] \in AiAnalysis
        BY <3>1 DEF AiAnalysis, BriefStatus
    <3>3. brief' = [brief EXCEPT ![b] = [brief[b] EXCEPT !.status = "queued", !.is_stale = FALSE]]
        BY <1>13 DEF RetryAnalysis
    <3> QED
        BY <3>2, <3>3 DEF TypeOK
  <2>2. jobs' \in [Brief -> 0..MaxJobs]
      BY <1>13, BoundsAreNaturals DEF RetryAnalysis, TypeOK
  <2>3. JobBehindRun'
      BY <1>13, BoundsAreNaturals DEF RetryAnalysis, TypeOK, JobBehindRun
  <2> QED
      BY <1>13, <2>1, <2>2, <2>3 DEF RetryAnalysis, TypeOK
<1>14. ASSUME NEW e \in outbox, PublishNext(e) PROVE TypeInv'
  <2>1. Key(e) \in Incident \X Nat
      BY DEF Key, TypeOK, OutboxEvent
  <2>2. published' \subseteq Incident \X Nat
      BY <1>14, <2>1 DEF PublishNext, TypeOK
  <2> QED
      BY <1>14, <2>2 DEF PublishNext, TypeOK, JobBehindRun
<1>15. ASSUME NEW cutoff \in [Incident -> 0..MaxPublished], Purge(cutoff) PROVE TypeInv'
    BY <1>15 DEF Purge, TypeOK, JobBehindRun
<1>16. CASE Crash
    BY <1>16 DEF Crash, TypeOK, JobBehindRun
<1> QED
    BY <1>1, <1>2, <1>3, <1>4, <1>5, <1>6, <1>7, <1>8, <1>9, <1>10, <1>11, <1>12, <1>13,
       <1>14, <1>15, <1>16 DEF Next, Operate

\* Every counter, row, brief and transaction of the store is what the columns
\* of the tables say, whatever handlers, worker, dispatcher, retention and
\* restarts do (models.py; the writes of services/events.py and services/ai.py).
THEOREM TypeCorrect == Spec => []TypeOK
<1>1. Spec => []TypeInv
    BY TypeInit, TypeStep, PTL DEF Spec
<1>2. TypeInv => TypeOK
    BY DEF TypeInv
<1> QED
    BY <1>1, <1>2, PTL

-----------------------------------------------------------------------------
(***************************************************************************)
(* The log.  ContiguousSequence is not inductive: a session may commit     *)
(* from a row it read long ago.  What has to be added is what the system   *)
(* knows of such a row (Anchored) and of the rows a transaction has        *)
(* numbered from it (Numbered, Fresh).                                     *)
(***************************************************************************)
\* A row of incident i that a session has read: it is the row the incident has
\* now or a strictly older one, and what retention has deleted since was older still.
Anchored(i, row) ==
    /\ row.event_sequence <= incident[i].event_sequence
    /\ row.event_sequence = incident[i].event_sequence => row = incident[i]
    /\ \A r \in deleted : r.incident = i => r.sequence <= row.event_sequence

\* The rows of a transaction are numbered from the counter it read to the
\* counter it has now, each number used once.
Numbered(t) ==
    /\ t.read.event_sequence <= t.row.event_sequence
    /\ \A e \in t.events :
        /\ e.incident = t.incident
        /\ t.read.event_sequence < e.sequence
        /\ e.sequence <= t.row.event_sequence
    /\ \A n \in Nat :
        t.read.event_sequence < n /\ n <= t.row.event_sequence =>
            \E e \in t.events : e.sequence = n
    /\ \A e, f \in t.events : e.sequence = f.sequence => e = f

\* What a transaction on the current row leaves current when it commits: the
\* briefs it does not mark stale have the revision it is going to write.
Fresh(t) ==
    t.read = incident[t.incident] =>
        \A b \in Brief \ t.staled :
            brief[b].incident = t.incident /\ brief[b].status = "succeeded" /\ ~brief[b].is_stale
                => brief[b].input_version = t.row.data_revision

StoreInv ==
    /\ TypeInv
    /\ ContiguousSequence
    /\ CurrentBriefIsFresh
    /\ \A v \in loaded : Anchored(v.incident, v.row)
    /\ \A t \in writing : Anchored(t.incident, t.read) /\ Numbered(t) /\ Fresh(t)

\* The shape of the log, number by number.
LEMMA LogByNumber ==
    ASSUME TypeOK
    PROVE  ContiguousSequence <=>
             \A i \in Incident :
               /\ \A e \in Log(i) : e.sequence \in 1..incident[i].event_sequence
               /\ \A n \in 1..incident[i].event_sequence : \E e \in Log(i) : e.sequence = n
               /\ \A e, f \in Log(i) : e.sequence = f.sequence => e = f
    BY DEF ContiguousSequence

\* The events of E have the numbers above lo, up to hi, each once.
Numbers(E, i, lo, hi) ==
    /\ lo <= hi
    /\ \A e \in E : e.incident = i /\ e.sequence \in lo + 1 .. hi
    /\ \A n \in lo + 1 .. hi : \E e \in E : e.sequence = n
    /\ \A e, f \in E : e.sequence = f.sequence => e = f

\* Two blocks of events, the second numbered on from the first, are one.
LEMMA AppendNumbers ==
    ASSUME NEW E, NEW F, NEW i, NEW lo \in Nat, NEW mid \in Nat, NEW hi \in Nat,
           Numbers(E, i, lo, mid), Numbers(F, i, mid, hi)
    PROVE  Numbers(E \cup F, i, lo, hi)
<1>1. lo <= mid /\ mid <= hi /\ lo <= hi
    BY DEF Numbers
<1>2. \A e \in E : e.incident = i /\ e.sequence \in lo + 1 .. hi /\ e.sequence \in Int
                   /\ e.sequence <= mid
    BY <1>1 DEF Numbers
<1>3. \A e \in F : e.incident = i /\ e.sequence \in lo + 1 .. hi /\ e.sequence \in Int
                   /\ mid < e.sequence
    BY <1>1 DEF Numbers
<1>4. ASSUME NEW n \in lo + 1 .. hi PROVE \E e \in E \cup F : e.sequence = n
  <2>1. CASE n <= mid
    <3>1. n \in lo + 1 .. mid
        BY <2>1
    <3> QED
        BY <3>1 DEF Numbers
  <2>2. CASE n > mid
    <3>1. n \in mid + 1 .. hi
        BY <2>2
    <3> QED
        BY <3>1 DEF Numbers
  <2> QED
      BY <2>1, <2>2
<1>5. ASSUME NEW e \in E \cup F, NEW f \in E \cup F, e.sequence = f.sequence PROVE e = f
  <2>1. (e \in E /\ f \in E) \/ (e \in F /\ f \in F)
      BY <1>2, <1>3, <1>5
  <2> QED
      BY <1>5, <2>1 DEF Numbers
<1> QED
    BY <1>1, <1>2, <1>3, <1>4, <1>5 DEF Numbers

LEMMA OneNumber ==
    ASSUME NEW e, NEW n \in Nat, e.sequence = n + 1
    PROVE  Numbers({e}, e.incident, n, n + 1)
BY DEF Numbers

LEMMA NumberedAsNumbers ==
    ASSUME NEW t \in Transaction
    PROVE  Numbered(t) <=>
             Numbers(t.events, t.incident, t.read.event_sequence, t.row.event_sequence)
<1>1. t.row.event_sequence \in Nat /\ t.read.event_sequence \in Nat
      /\ \A e \in t.events : e.sequence \in Nat
    BY DEF Transaction, Counters, OutboxEvent
<1>2. ASSUME Numbered(t)
      PROVE  Numbers(t.events, t.incident, t.read.event_sequence, t.row.event_sequence)
    BY <1>1, <1>2 DEF Numbered, Numbers
<1>3. ASSUME Numbers(t.events, t.incident, t.read.event_sequence, t.row.event_sequence)
      PROVE  Numbered(t)
    BY <1>1, <1>3 DEF Numbered, Numbers
<1> QED
    BY <1>2, <1>3

\* emit_event numbers its rows from the counter on, without a gap.
LEMMA EmitEventNumbered ==
    ASSUME NEW t \in Transaction, Numbered(t), NEW type, NEW b, NEW revision,
           NEW order, Len(order) \in Nat, DOMAIN order = 1..Len(order)
    PROVE  /\ Numbered(EmitEvent(t, type, b, revision, order))
           /\ EmitEvent(t, type, b, revision, order).row.event_sequence
                > t.row.event_sequence
<1> DEFINE u == EmitEvent(t, type, b, revision, order)
           from == t.row.event_sequence
           first == from + 1
           extra == IF BumpsMap(t, type) THEN 1 ELSE 0
           middle == first + Len(order)
           last == first + Len(order) + extra
           head == Row(t.incident, first, type, b, revision)
           stale(n) == Row(t.incident, first + n, "command_brief.stale", order[n],
                           brief[order[n]].input_version)
           stales == {stale(n) : n \in 1..Len(order)}
           map == Row(t.incident, last, "map_view.invalidated", NoBrief,
                      MapRevisionAfter(t, type))
           maps == {map : bumped \in {TRUE} \cap {BumpsMap(t, type)}}
<1>1. /\ from \in Nat /\ first \in Nat /\ middle \in Nat /\ last \in Nat
      /\ t.read.event_sequence \in Nat /\ last > from
    BY DEF Transaction, Counters
<1>2. /\ u.incident = t.incident /\ u.read = t.read
      /\ u.row.event_sequence = last
      /\ u.events = t.events \cup {head} \cup stales \cup maps
    BY DEF EmitEvent
<1>3. Numbers(t.events, t.incident, t.read.event_sequence, from)
    BY NumberedAsNumbers
<1>4. Numbers({head}, t.incident, from, first)
  <2>1. head.sequence = from + 1 /\ head.incident = t.incident
      BY DEF Row
  <2> HIDE DEF head, from
  <2> QED
      BY <1>1, <2>1, OneNumber
<1>5. Numbers(stales, t.incident, first, middle)
  <2>1. \A n \in 1..Len(order) : stale(n).incident = t.incident /\ stale(n).sequence = first + n
      BY DEF Row
  <2> HIDE DEF first, stale
  <2>2. \A e \in stales : \E n \in 1..Len(order) : e = stale(n)
      OBVIOUS
  <2>3. first <= middle
        /\ \A e \in stales : e.incident = t.incident /\ e.sequence \in first + 1 .. middle
      BY <1>1, <2>1, <2>2
  <2>4. ASSUME NEW n \in first + 1 .. middle PROVE \E e \in stales : e.sequence = n
    <3>1. n - first \in 1..Len(order) /\ first + (n - first) = n
        BY <1>1
    <3> QED
        BY <2>1, <3>1
  <2>5. ASSUME NEW e \in stales, NEW f \in stales, e.sequence = f.sequence PROVE e = f
    <3>1. PICK n \in 1..Len(order) : e = stale(n)
        BY <2>2
    <3>2. PICK m \in 1..Len(order) : f = stale(m)
        BY <2>2
    <3>3. n = m
        BY <1>1, <2>1, <2>5, <3>1, <3>2
    <3> QED
        BY <3>1, <3>2, <3>3
  <2> HIDE DEF stales, middle
  <2> QED
      BY <2>3, <2>4, <2>5 DEF Numbers
<1>6. Numbers(maps, t.incident, middle, last)
  <2>1. CASE BumpsMap(t, type)
    <3>1. {TRUE} \cap {BumpsMap(t, type)} = {TRUE}
        BY <2>1, Zenon
    <3>2. maps = {map}
        BY <3>1, Zenon
    <3>3. last = middle + 1 /\ map.sequence = last /\ map.incident = t.incident
        BY <1>1, <2>1 DEF Row
    <3> HIDE DEF maps, map, middle, last
    <3> QED
        BY <1>1, <3>2, <3>3, OneNumber
  <2>2. CASE ~BumpsMap(t, type)
    <3>1. {TRUE} \cap {BumpsMap(t, type)} = {}
        BY <2>2, Zenon
    <3>2. maps = {}
        BY <3>1, Zenon
    <3>3. last = middle
        BY <1>1, <2>2
    <3> HIDE DEF maps, map, middle, last
    <3> QED
        BY <1>1, <3>2, <3>3 DEF Numbers
  <2> QED
      BY <2>1, <2>2
<1> HIDE DEF u, from, first, extra, middle, last, head, stales, maps
<1>7. Numbers(t.events \cup {head}, t.incident, t.read.event_sequence, first)
    BY <1>1, <1>3, <1>4, AppendNumbers
<1>8. Numbers(t.events \cup {head} \cup stales, t.incident, t.read.event_sequence, middle)
    BY <1>1, <1>5, <1>7, AppendNumbers
<1>9. Numbers(u.events, u.incident, u.read.event_sequence, u.row.event_sequence)
    BY <1>1, <1>2, <1>6, <1>8, AppendNumbers
<1>10. Numbered(u)
    BY <1>1, <1>2, <1>9 DEF Numbered, Numbers
<1> QED
    BY <1>1, <1>2, <1>10 DEF u, from

\* Rows numbered from the counter the incident has now extend its log.
LEMMA AppendContiguous ==
    ASSUME TypeOK, TypeOK', ContiguousSequence, NEW t \in Transaction, Numbered(t),
           t.read.event_sequence = incident[t.incident].event_sequence,
           incident' = [incident EXCEPT ![t.incident] = t.row],
           outbox' = outbox \cup t.events, UNCHANGED deleted
    PROVE  ContiguousSequence'
<1> DEFINE P(i) ==
      /\ \A e \in Log(i) : e.sequence \in 1..incident[i].event_sequence
      /\ \A n \in 1..incident[i].event_sequence : \E e \in Log(i) : e.sequence = n
      /\ \A e, f \in Log(i) : e.sequence = f.sequence => e = f
<1>1. t.incident \in Incident
      /\ t.row.event_sequence \in Nat /\ t.read.event_sequence \in Nat
    BY DEF Transaction, Counters
<1>2. SUFFICES ASSUME NEW i \in Incident PROVE P(i)'
    BY DEF ContiguousSequence
<1>3. P(i)
    BY LogByNumber
<1>4. Log(i)' = Log(i) \cup {e \in t.events : e.incident = i}
    BY DEF Log
<1>5. CASE i # t.incident
  <2>1. Log(i)' = Log(i)
      BY <1>4, <1>5 DEF Numbered
  <2>2. incident'[i] = incident[i]
      BY <1>5 DEF TypeOK
  <2> QED
      BY <1>3, <2>1, <2>2
<1>6. CASE i = t.incident
  <2>1. incident'[i] = t.row /\ incident[i].event_sequence = t.read.event_sequence
      BY <1>1, <1>6 DEF TypeOK
  <2>2. Log(i)' = Log(i) \cup t.events
      BY <1>4, <1>6 DEF Numbered
  <2>3. \A e \in t.events : e.sequence \in Nat
      BY DEF Transaction, OutboxEvent
  <2>4. \A e \in Log(i)' : e.sequence \in 1..t.row.event_sequence
      BY <1>1, <1>3, <2>1, <2>2, <2>3 DEF Numbered
  <2>5. ASSUME NEW n \in 1..t.row.event_sequence
        PROVE  \E e \in Log(i)' : e.sequence = n
    <3>1. CASE n <= t.read.event_sequence
        BY <1>1, <1>3, <2>1, <2>2, <3>1
    <3>2. CASE n > t.read.event_sequence
        BY <1>1, <2>2, <3>2 DEF Numbered
    <3> QED
        BY <1>1, <3>1, <3>2
  <2>6. \A e, f \in Log(i)' : e.sequence = f.sequence => e = f
      BY <1>1, <1>3, <2>1, <2>2, <2>3 DEF Numbered
  <2> QED
      BY <2>1, <2>4, <2>5, <2>6
<1> QED
    BY <1>5, <1>6

\* When the counter of an incident moves up, the rows read before become older
\* rows: they stay anchored.
LEMMA AnchoredBelow ==
    ASSUME TypeOK, TypeOK', NEW t \in Transaction,
           t.row.event_sequence > incident[t.incident].event_sequence,
           incident' = [incident EXCEPT ![t.incident] = t.row], UNCHANGED deleted,
           NEW i \in Incident, NEW row \in Counters, Anchored(i, row)
    PROVE  Anchored(i, row)'
<1>1. t.incident \in Incident /\ t.row.event_sequence \in Nat /\ row.event_sequence \in Nat
      /\ incident[t.incident].event_sequence \in Nat
    BY DEF Transaction, Counters, TypeOK
<1>2. CASE i # t.incident
  <2>1. incident'[i] = incident[i]
      BY <1>2 DEF TypeOK
  <2> QED
      BY <2>1 DEF Anchored
<1>3. CASE i = t.incident
  <2>1. incident'[i] = t.row
      BY <1>1, <1>3 DEF TypeOK
  <2>2. row.event_sequence < t.row.event_sequence
      BY <1>1, <1>3 DEF Anchored
  <2> QED
      BY <1>1, <2>1, <2>2 DEF Anchored
<1> QED
    BY <1>2, <1>3

\* A transaction that commits was numbered from the row the incident has at
\* that moment: had it read an older row, its first number would be taken.
LEMMA CommitsFromCurrentRow ==
    ASSUME StoreInv, NEW t \in writing, t.events # {}, ~Collides(t)
    PROVE  /\ t.read = incident[t.incident]
           /\ t.row.event_sequence > incident[t.incident].event_sequence
<1>1. TypeOK /\ t \in Transaction /\ Anchored(t.incident, t.read) /\ Numbered(t)
    BY DEF StoreInv, TypeInv, TypeOK
<1> DEFINE i == t.incident
<1>2. /\ i \in Incident /\ t.read.event_sequence \in Nat /\ t.row.event_sequence \in Nat
      /\ incident[i].event_sequence \in Nat
    BY <1>1 DEF TypeOK, Transaction, Counters
<1>3. t.read.event_sequence < t.row.event_sequence
  <2>1. PICK e \in t.events : TRUE
      OBVIOUS
  <2>2. e.sequence \in Nat
      BY <1>1 DEF Transaction, OutboxEvent
  <2> QED
      BY <1>1, <1>2, <2>2 DEF Numbered
<1>4. ASSUME t.read.event_sequence < incident[i].event_sequence PROVE FALSE
  <2> DEFINE n == t.read.event_sequence + 1
  <2>1. n \in Nat /\ t.read.event_sequence < n /\ n <= t.row.event_sequence
        /\ n \in 1..incident[i].event_sequence
      BY <1>2, <1>3, <1>4
  <2> HIDE DEF n
  <2>2. PICK e \in t.events : e.sequence = n
      BY <1>1, <2>1 DEF Numbered
  <2>3. PICK r \in Log(i) : r.sequence = n
      BY <1>1, <1>2, <2>1, LogByNumber DEF StoreInv
  <2>4. r.incident = i /\ e.incident = i
      BY <1>1 DEF Log, Numbered
  <2>5. r \notin deleted
      BY <1>1, <1>2, <2>1, <2>3, <2>4 DEF Anchored
  <2>6. r \in outbox
      BY <2>5 DEF Log
  <2> QED
      BY <2>2, <2>3, <2>4, <2>6 DEF Collides
<1>5. t.read.event_sequence = incident[i].event_sequence
    BY <1>1, <1>2, <1>4 DEF Anchored
<1> QED
    BY <1>1, <1>3, <1>5 DEF Anchored

\* A committed write transaction extends the log without a gap, keeps the briefs it
\* leaves current fresh, and leaves older rows older.
LEMMA CommitStep ==
    ASSUME StoreInv, TypeInv', NEW t \in writing, Commit(t)
    PROVE  StoreInv'
<1>1. TypeOK /\ TypeOK' /\ t \in Transaction /\ Numbered(t) /\ Fresh(t)
    BY DEF StoreInv, TypeInv, TypeOK
<1>2. /\ t.read = incident[t.incident]
      /\ t.row.event_sequence > incident[t.incident].event_sequence
    BY CommitsFromCurrentRow DEF Commit
<1>3. /\ incident' = [incident EXCEPT ![t.incident] = t.row]
      /\ outbox' = outbox \cup t.events
      /\ brief' = MarkStale(t.staled)
      /\ writing' = {}
      /\ UNCHANGED <<deleted, loaded>>
    BY DEF Commit
<1>4. ContiguousSequence'
    BY <1>1, <1>2, <1>3, AppendContiguous DEF StoreInv
<1>5. CurrentBriefIsFresh'
  <2> SUFFICES ASSUME NEW b \in Brief, brief'[b].status = "succeeded", ~brief'[b].is_stale
               PROVE  brief'[b].input_version = incident'[brief'[b].incident].data_revision
      BY DEF CurrentBriefIsFresh
  <2>1. b \notin t.staled /\ brief'[b] = brief[b]
      BY <1>1, <1>3 DEF MarkStale, TypeOK, AiAnalysis
  <2>2. CASE brief[b].incident = t.incident
    <3>1. brief[b].input_version = t.row.data_revision
        BY <1>1, <1>2, <2>1, <2>2 DEF Fresh
    <3>2. incident'[t.incident] = t.row
        BY <1>1, <1>3 DEF TypeOK, Transaction
    <3> QED
        BY <2>1, <2>2, <3>1, <3>2
  <2>3. CASE brief[b].incident # t.incident
    <3>1. incident'[brief[b].incident] = incident[brief[b].incident]
        BY <1>1, <1>3, <2>3 DEF TypeOK, AiAnalysis
    <3> QED
        BY <2>1, <3>1 DEF StoreInv, CurrentBriefIsFresh
  <2> QED
      BY <2>2, <2>3
<1>6. \A v \in loaded' : Anchored(v.incident, v.row)'
  <2> SUFFICES ASSUME NEW v \in loaded PROVE Anchored(v.incident, v.row)'
      BY <1>3
  <2>1. v.incident \in Incident /\ v.row \in Counters /\ Anchored(v.incident, v.row)
      BY <1>1 DEF StoreInv, TypeOK, LoadedIncident
  <2> QED
      BY <1>1, <1>2, <1>3, <2>1, AnchoredBelow
<1> QED
    BY <1>3, <1>4, <1>5, <1>6 DEF StoreInv

\* The end of an analysis does the same as a transaction of one event, and serves the
\* brief as current only if the data revision has not moved (services/ai.py).
LEMMA EndAnalysisStep ==
    ASSUME StoreInv, TypeInv', NEW b \in Brief, NEW analysis \in AiAnalysis,
           NEW type \in {"command_brief.ready", "command_brief.stale", "command_brief.failed"},
           analysis.incident = brief[b].incident,
           analysis.status = "succeeded" /\ ~analysis.is_stale =>
             analysis.input_version = incident[brief[b].incident].data_revision,
           EndAnalysis(b, analysis, type)
    PROVE  StoreInv'
<1> DEFINE i == brief[b].incident
           start == Begin(i, incident[i])
           t == EmitEvent(start, type, b, brief[b].input_version, <<>>)
<1>1. /\ TypeOK /\ TypeOK' /\ i \in Incident /\ brief[b].input_version \in Nat
      /\ incident[i] \in Counters
    BY DEF StoreInv, TypeInv, TypeOK, AiAnalysis
<1>2. /\ start \in Transaction /\ start.incident = i
      /\ start.read = incident[i] /\ start.row = incident[i]
    BY <1>1 DEF Begin, Transaction, TypeOK
<1>3. Numbered(start)
  <2>1. incident[i].event_sequence \in Nat
      BY <1>1 DEF Counters
  <2> QED
      BY <2>1 DEF Begin, Numbered
<1> HIDE DEF start
<1>4. /\ t \in Transaction
      /\ Numbered(t)
      /\ t.row.event_sequence > incident[i].event_sequence
  <2>1. type \in EventType
      BY DEF EventType
  <2> HIDE DEF i
  <2>2. t \in Transaction
    <3>1. Len(<<>>) \in Nat /\ DOMAIN <<>> = 1..Len(<<>>)
        OBVIOUS
    <3>2. \A n \in 1..Len(<<>>) : <<>>[n] \in Brief
        OBVIOUS
    <3>3. b \in Brief \cup {NoBrief}
        OBVIOUS
    <3> QED
        BY <1>1, <1>2, <2>1, <3>1, <3>2, <3>3, EmitEventType, Zenon
  <2>3. Numbered(t) /\ t.row.event_sequence > start.row.event_sequence
      BY <1>2, <1>3, EmitEventNumbered
  <2> QED
      BY <1>2, <2>2, <2>3
<1>5. t.incident = i /\ t.read = incident[i]
      /\ t.row.data_revision = incident[i].data_revision
    BY <1>2 DEF EmitEvent, DataRevisionAfter, BumpsData, DataAffecting
<1>6. /\ incident' = [incident EXCEPT ![i] = t.row]
      /\ outbox' = outbox \cup t.events
      /\ brief' = [brief EXCEPT ![b] = analysis]
      /\ writing = {} /\ writing' = {}
      /\ UNCHANGED <<deleted, loaded>>
    BY DEF EndAnalysis, LockFree, start
<1> HIDE DEF t
<1>7. ContiguousSequence'
  <2> HIDE DEF i
  <2> QED
      BY <1>1, <1>4, <1>5, <1>6, AppendContiguous DEF StoreInv
<1>8. CurrentBriefIsFresh'
  <2>1. \A j \in Incident : incident'[j].data_revision = incident[j].data_revision
      BY <1>1, <1>5, <1>6 DEF TypeOK
  <2> SUFFICES ASSUME NEW c \in Brief, brief'[c].status = "succeeded", ~brief'[c].is_stale
               PROVE  brief'[c].input_version = incident'[brief'[c].incident].data_revision
      BY DEF CurrentBriefIsFresh
  <2>2. CASE c = b
    <3>1. brief'[c] = analysis
        BY <1>1, <1>6, <2>2 DEF TypeOK
    <3> QED
        BY <1>1, <2>1, <3>1
  <2>3. CASE c # b
    <3>1. brief'[c] = brief[c] /\ brief[c].incident \in Incident
        BY <1>1, <1>6, <2>3 DEF TypeOK, AiAnalysis
    <3> QED
        BY <2>1, <3>1 DEF StoreInv, CurrentBriefIsFresh
  <2> QED
      BY <2>2, <2>3
<1>9. \A v \in loaded' : Anchored(v.incident, v.row)'
  <2> SUFFICES ASSUME NEW v \in loaded PROVE Anchored(v.incident, v.row)'
      BY <1>6
  <2>1. v.incident \in Incident /\ v.row \in Counters /\ Anchored(v.incident, v.row)
      BY <1>1 DEF StoreInv, TypeOK, LoadedIncident
  <2> HIDE DEF i
  <2> QED
      BY <1>1, <1>4, <1>5, <1>6, <2>1, AnchoredBelow
<1> QED
    BY <1>6, <1>7, <1>8, <1>9 DEF StoreInv

\* emit_event in an open transaction keeps it numbered without a gap, and its bump of
\* the data revision goes with the outdating of every brief it outdates.
LEMMA EmitStep ==
    ASSUME StoreInv, TypeInv', NEW t \in writing, NEW type \in ResourceType, Emit(t, type)
    PROVE  StoreInv'
<1>1. /\ TypeOK /\ t \in Transaction
      /\ Anchored(t.incident, t.read) /\ Numbered(t) /\ Fresh(t)
    BY DEF StoreInv, TypeInv, TypeOK
<1> DEFINE S == OutdatedBriefs(t, type)
<1>2. PICK order \in SetToSeqs(S) : writing' = {EmitEvent(t, type, NoBrief, 0, order)}
    BY DEF Emit
<1>3. UNCHANGED <<incident, outbox, deleted, brief, loaded>>
    BY DEF Emit
<1>4. IsFiniteSet(S)
    BY BriefsAreFinite, FS_Subset DEF OutdatedBriefs
<1>5. Len(order) \in Nat /\ DOMAIN order = 1..Len(order) /\ ToSet(order) = S
    BY <1>4, OrderOfSelect
<1> DEFINE u == EmitEvent(t, type, NoBrief, 0, order)
<1>6. Numbered(u)
    BY <1>1, <1>5, EmitEventNumbered
<1>7. /\ u.incident = t.incident /\ u.read = t.read
      /\ u.row.data_revision = DataRevisionAfter(t, type)
      /\ u.staled = t.staled \cup S
    BY <1>5 DEF EmitEvent
<1> HIDE DEF u
<1>8. Fresh(u)
  <2> SUFFICES ASSUME t.read = incident[t.incident],
                      NEW b \in Brief, b \notin t.staled, b \notin S,
                      brief[b].incident = t.incident, brief[b].status = "succeeded",
                      ~brief[b].is_stale
               PROVE  brief[b].input_version = DataRevisionAfter(t, type)
      BY <1>7 DEF Fresh
  <2>1. CASE type \in DataAffecting
      BY <2>1 DEF OutdatedBriefs
  <2>2. CASE type \notin DataAffecting
      BY <1>1, <2>2 DEF Fresh, DataRevisionAfter, BumpsData
  <2> QED
      BY <2>1, <2>2
<1>9. writing' = {u}
    BY <1>2 DEF u
<1>10. ContiguousSequence' /\ CurrentBriefIsFresh'
    BY <1>3 DEF StoreInv, ContiguousSequence, CurrentBriefIsFresh, Log
<1>11. \A v \in loaded' : Anchored(v.incident, v.row)'
    BY <1>3 DEF StoreInv, Anchored
<1>12. \A w \in writing' : Anchored(w.incident, w.read)' /\ Numbered(w)' /\ Fresh(w)'
  <2> SUFFICES ASSUME NEW w, w = u
               PROVE  Anchored(w.incident, w.read)' /\ Numbered(w)' /\ Fresh(w)'
      BY <1>9
  <2>1. Anchored(w.incident, w.read)'
      BY <1>1, <1>3, <1>7 DEF Anchored
  <2>2. Numbered(w)'
      BY <1>6 DEF Numbered
  <2>3. Fresh(w)'
      BY <1>3, <1>8 DEF Fresh
  <2> QED
      BY <2>1, <2>2, <2>3
<1> QED
    BY <1>10, <1>11, <1>12 DEF StoreInv

\* An empty log is contiguous, and there is no brief.
LEMMA StoreInit == Init => StoreInv
<1> SUFFICES ASSUME Init PROVE StoreInv
    OBVIOUS
<1>1. TypeInv
    BY TypeInit
<1>2. ContiguousSequence
  <2>1. \A i \in Incident : Log(i) = {} /\ incident[i].event_sequence = 0
      BY DEF Init, Log
  <2> QED
      BY <1>1, <2>1, LogByNumber DEF TypeInv
<1>3. CurrentBriefIsFresh
  <2>1. \A b \in Brief : brief[b].status = "absent"
      BY DEF Init
  <2> QED
      BY <2>1 DEF CurrentBriefIsFresh
<1> QED
    BY <1>1, <1>2, <1>3 DEF Init, StoreInv

\* Every handler, the worker, the dispatcher, retention and a restart keep the numbering
\* and the freshness of the briefs.
LEMMA StoreStep == StoreInv /\ [Next]_vars => StoreInv'
<1> SUFFICES ASSUME StoreInv, [Next]_vars PROVE StoreInv'
    OBVIOUS
<1>1. TypeInv' /\ TypeInv /\ TypeOK
    BY TypeStep DEF StoreInv, TypeInv
<1>2. ASSUME UNCHANGED <<incident, outbox, deleted>>
      PROVE  ContiguousSequence' /\ \A i, row : Anchored(i, row) => Anchored(i, row)'
    BY <1>2 DEF StoreInv, ContiguousSequence, Log, Anchored
<1>3. ASSUME UNCHANGED <<incident, brief>> PROVE CurrentBriefIsFresh'
    BY <1>3 DEF StoreInv, CurrentBriefIsFresh
<1>4. CASE UNCHANGED vars
  <2>1. \A t \in writing : (Numbered(t) => Numbered(t)') /\ (Fresh(t) => Fresh(t)')
      BY <1>4 DEF vars, Numbered, Fresh
  <2> QED
      BY <1>1, <1>2, <1>3, <1>4, <2>1 DEF vars, StoreInv
<1>5. ASSUME NEW s \in Session, NEW i \in Incident, LoadIncident(s, i) PROVE StoreInv'
  <2>1. Anchored(i, incident[i])
    <3>1. \A r \in deleted : r.incident = i => r.sequence <= incident[i].event_sequence
        BY <1>1, LogByNumber DEF StoreInv, Log, TypeOK, Counters
    <3>2. incident[i].event_sequence \in Nat
        BY <1>1 DEF TypeOK, Counters
    <3> QED
        BY <3>1, <3>2 DEF Anchored
  <2>2. UNCHANGED <<incident, outbox, deleted, brief, writing>>
      BY <1>5 DEF LoadIncident
  <2>3. \A v \in loaded' : Anchored(v.incident, v.row)
      BY <1>5, <2>1 DEF LoadIncident, StoreInv
  <2>4. \A t \in writing : (Numbered(t) => Numbered(t)') /\ (Fresh(t) => Fresh(t)')
      BY <2>2 DEF Numbered, Fresh
  <2> QED
      BY <1>1, <1>2, <1>3, <2>2, <2>3, <2>4 DEF StoreInv
<1>6. ASSUME NEW i \in Incident, NEW row \in Counters, Anchored(i, row),
             writing' = {Begin(i, row)}, loaded' \subseteq loaded,
             UNCHANGED <<incident, outbox, deleted, brief>>
      PROVE  StoreInv'
  <2> DEFINE t == Begin(i, row)
  <2>1. t.incident = i /\ t.read = row /\ t.row = row /\ t.events = {} /\ t.staled = {}
      BY DEF Begin
  <2> HIDE DEF t
  <2>2. Numbered(t)'
    <3>1. row.event_sequence \in Nat
        BY DEF Counters
    <3> QED
        BY <2>1, <3>1 DEF Numbered
  <2>3. Fresh(t)'
    <3>1. CurrentBriefIsFresh
        BY DEF StoreInv
    <3>2. Fresh(t)
        BY <2>1, <3>1 DEF Fresh, CurrentBriefIsFresh
    <3> QED
        BY <1>6, <3>2 DEF Fresh
  <2>4. Anchored(t.incident, t.read)'
      BY <1>2, <1>6, <2>1
  <2>5. writing' = {t}
      BY <1>6 DEF t
  <2>6. \A w \in writing' : Anchored(w.incident, w.read)' /\ Numbered(w)' /\ Fresh(w)'
    <3> SUFFICES ASSUME NEW w, w = t
                 PROVE  Anchored(w.incident, w.read)' /\ Numbered(w)' /\ Fresh(w)'
        BY <2>5
    <3>1. Numbered(w)'
        BY <2>2 DEF Numbered
    <3>2. Fresh(w)'
        BY <2>3 DEF Fresh
    <3> QED
        BY <2>4, <3>1, <3>2
  <2>7. \A v \in loaded' : Anchored(v.incident, v.row)'
      BY <1>2, <1>6 DEF StoreInv
  <2> QED
      BY <1>1, <1>2, <1>3, <1>6, <2>6, <2>7 DEF StoreInv
<1>7. ASSUME NEW v \in loaded, BeginLoaded(v) PROVE StoreInv'
  <2>1. v.incident \in Incident /\ v.row \in Counters /\ Anchored(v.incident, v.row)
      BY <1>1 DEF StoreInv, TypeOK, LoadedIncident
  <2> QED
      BY <1>6, <1>7, <2>1 DEF BeginLoaded
<1>8. ASSUME NEW i \in Incident, BeginFresh(i) PROVE StoreInv'
  <2>1. incident[i] \in Counters
      BY <1>1 DEF TypeOK
  <2>2. Anchored(i, incident[i])
    <3>1. \A r \in deleted : r.incident = i => r.sequence <= incident[i].event_sequence
        BY <1>1, LogByNumber DEF StoreInv, Log, TypeOK, Counters
    <3> QED
        BY <2>1, <3>1 DEF Anchored, Counters
  <2> QED
      BY <1>6, <1>8, <2>1, <2>2 DEF BeginFresh
<1>9. ASSUME NEW t \in writing, NEW type \in ResourceType, Emit(t, type) PROVE StoreInv'
    BY <1>1, <1>9, EmitStep
<1>10. ASSUME NEW t \in writing, Commit(t) PROVE StoreInv'
    BY <1>1, <1>10, CommitStep
<1>11. ASSUME UNCHANGED <<incident, outbox, deleted, brief>>, loaded' \subseteq loaded,
              writing' = {}
       PROVE  StoreInv'
    BY <1>1, <1>2, <1>3, <1>11 DEF StoreInv
<1>12. ASSUME NEW t \in writing, Rollback(t) PROVE StoreInv'
    BY <1>11, <1>12 DEF Rollback
<1>13. ASSUME UNCHANGED <<incident, outbox, deleted, loaded, writing>>, LockFree,
              \A b \in Brief : brief'[b].status = "succeeded" => brief'[b] = brief[b]
       PROVE  StoreInv'
  <2>1. CurrentBriefIsFresh'
      BY <1>13 DEF StoreInv, CurrentBriefIsFresh
  <2> QED
      BY <1>1, <1>2, <1>13, <2>1 DEF StoreInv, LockFree
<1>14. ASSUME NEW b \in Brief, NEW i \in Incident, RequestBrief(b, i) PROVE StoreInv'
  <2>1. \A c \in Brief : brief'[c].status = "succeeded" => brief'[c] = brief[c]
      BY <1>1, <1>14 DEF RequestBrief, TypeOK
  <2> QED
      BY <1>13, <1>14, <2>1 DEF RequestBrief
<1>15. ASSUME NEW b \in Brief, StartAnalysis(b) PROVE StoreInv'
  <2>1. \A c \in Brief : brief'[c].status = "succeeded" => brief'[c] = brief[c]
      BY <1>1, <1>15 DEF StartAnalysis, TypeOK, AiAnalysis
  <2> QED
      BY <1>13, <1>15, <2>1 DEF StartAnalysis
<1>16. ASSUME NEW b \in Brief, CompleteAnalysis(b) PROVE StoreInv'
  <2> DEFINE changed == incident[brief[b].incident].data_revision # brief[b].input_version
             stale == brief[b].is_stale \/ changed
             analysis == [brief[b] EXCEPT !.status = "succeeded", !.is_stale = stale]
             type == IF stale THEN "command_brief.stale" ELSE "command_brief.ready"
  <2>1. analysis \in AiAnalysis
      BY <1>1 DEF TypeOK, AiAnalysis, BriefStatus
  <2>2. /\ analysis.incident = brief[b].incident
        /\ ~analysis.is_stale =>
             analysis.input_version = incident[brief[b].incident].data_revision
      BY <1>1 DEF TypeOK, AiAnalysis
  <2>3. EndAnalysis(b, analysis, type)
      BY <1>16 DEF CompleteAnalysis
  <2>4. type \in {"command_brief.ready", "command_brief.stale", "command_brief.failed"}
      OBVIOUS
  <2> HIDE DEF analysis, type
  <2> QED
      BY <1>1, <2>1, <2>2, <2>3, <2>4, EndAnalysisStep
<1>17. ASSUME NEW b \in Brief, FailAnalysis(b) PROVE StoreInv'
  <2> DEFINE analysis == [brief[b] EXCEPT !.status = "failed"]
  <2>1. analysis \in AiAnalysis
      BY <1>1 DEF TypeOK, AiAnalysis, BriefStatus
  <2>2. analysis.incident = brief[b].incident /\ analysis.status = "failed"
      BY <1>1 DEF TypeOK, AiAnalysis
  <2>3. EndAnalysis(b, analysis, "command_brief.failed")
      BY <1>17 DEF FailAnalysis
  <2> HIDE DEF analysis
  <2> QED
      BY <1>1, <2>1, <2>2, <2>3, EndAnalysisStep
<1>18. ASSUME NEW b \in Brief, FinishJob(b) PROVE StoreInv'
    BY <1>13, <1>18 DEF FinishJob
<1>19. ASSUME NEW b \in Brief, RetryAnalysis(b) PROVE StoreInv'
  <2>1. \A c \in Brief : brief'[c].status = "succeeded" => brief'[c] = brief[c]
      BY <1>1, <1>19 DEF RetryAnalysis, TypeOK, AiAnalysis
  <2> QED
      BY <1>13, <1>19, <2>1 DEF RetryAnalysis
<1>20. ASSUME NEW e \in outbox, PublishNext(e) PROVE StoreInv'
    BY <1>13, <1>20 DEF PublishNext
<1>21. ASSUME NEW cutoff \in [Incident -> 0..MaxPublished], Purge(cutoff) PROVE StoreInv'
  <2> DEFINE expired == {e \in outbox : Key(e) \in published
                                          /\ e.sequence <= cutoff[e.incident]}
  <2>1. /\ outbox' = outbox \ expired /\ deleted' = deleted \cup expired
        /\ UNCHANGED <<incident, brief, loaded, writing>> /\ writing = {}
        /\ \A v \in loaded : cutoff[v.incident] <= v.row.event_sequence
      BY <1>21 DEF Purge, LockFree
  <2>2. \A i : Log(i)' = Log(i)
      BY <2>1 DEF Log
  <2>3. ContiguousSequence'
      BY <2>1, <2>2 DEF StoreInv, ContiguousSequence
  <2>4. \A v \in loaded : Anchored(v.incident, v.row)'
    <3> SUFFICES ASSUME NEW v \in loaded PROVE Anchored(v.incident, v.row)'
        OBVIOUS
    <3>1. v.incident \in Incident /\ v.row.event_sequence \in Nat
          /\ cutoff[v.incident] \in Nat
        BY <1>1, BoundsAreNaturals DEF TypeOK, LoadedIncident, Counters
    <3>2. \A r \in expired : r.sequence \in Nat
        BY <1>1 DEF TypeOK, OutboxEvent
    <3>3. \A r \in expired : r.incident = v.incident => r.sequence <= v.row.event_sequence
        BY <2>1, <3>1, <3>2
    <3>4. Anchored(v.incident, v.row)
        BY DEF StoreInv
    <3> QED
        BY <2>1, <3>3, <3>4 DEF Anchored
  <2> QED
      BY <1>1, <1>3, <2>1, <2>3, <2>4 DEF StoreInv
<1>22. CASE Crash
    BY <1>11, <1>22 DEF Crash
<1> QED
    BY <1>4, <1>5, <1>7, <1>8, <1>9, <1>10, <1>12, <1>14, <1>15, <1>16, <1>17, <1>18, <1>19,
       <1>20, <1>21, <1>22 DEF Next, Operate

\* The numbering of the events of an incident has neither a gap nor a number used
\* twice, although sessions commit from incident rows they read before they had
\* the lock (services/events.py, and the UNIQUE constraint of models.py).
THEOREM LogIsContiguous == Spec => []ContiguousSequence
<1>1. Spec => []StoreInv
    BY StoreInit, StoreStep, PTL DEF Spec
<1>2. StoreInv => ContiguousSequence
    BY DEF StoreInv
<1> QED
    BY <1>1, <1>2, PTL

\* A succeeded brief that is not marked stale was made from the data revision the
\* incident has (emit_event and _complete_async_analysis between them miss none).
THEOREM CurrentBriefsAreFresh == Spec => []CurrentBriefIsFresh
<1>1. Spec => []StoreInv
    BY StoreInit, StoreStep, PTL DEF Spec
<1>2. StoreInv => CurrentBriefIsFresh
    BY DEF StoreInv
<1> QED
    BY <1>1, <1>2, PTL
=============================================================================
