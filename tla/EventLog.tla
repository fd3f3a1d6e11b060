----------------------------- MODULE EventLog -----------------------------
(***************************************************************************)
(* The core of the backend: the counters of the incident row, the outbox   *)
(* table they number, and the command briefs whose freshness hangs on      *)
(* them.                                                                   *)
(*                                                                         *)
(* Every handler that changes domain data runs one transaction under the   *)
(* process-wide write_lock (db.py) and calls emit_event one or more times  *)
(* in it (services/events.py).  The lock serialises the transactions, but  *)
(* some handlers read the incident row BEFORE they take the lock, and the  *)
(* ORM then hands them that old row inside the transaction: such a session *)
(* writes from stale counters, and only UNIQUE(incident_id, sequence) on   *)
(* the outbox stops it.                                                    *)
(***************************************************************************)
EXTENDS Naturals, FiniteSets, SequencesExt

CONSTANTS
    Incident,     \* incidents
    Session,      \* database sessions that load the incident before the lock
    Brief,        \* analyses of type command_brief
    NoBrief,      \* resource of an event that is not about a brief
    MaxSequence,  \* bound: the length of a log
    MaxPublished, \* bound: how far the dispatcher gets in a log
    MaxJobs       \* bound: unfinished background jobs per brief

ASSUME BoundsAreNaturals ==
    MaxSequence \in Nat /\ MaxPublished \in Nat /\ MaxJobs \in Nat

ASSUME BriefsAreFinite == IsFiniteSet(Brief)

ASSUME NoBriefIsNoBrief == NoBrief \notin Brief

VARIABLES
    incident,   \* incident[i]: the committed counters of the incidents table
    outbox,     \* rows of the outbox_events table
    published,  \* <<incident, sequence>> of the rows that have published_at
    deleted,    \* rows that retention has deleted (history)
    brief,      \* brief[b]: the ai_analyses row of the brief
    jobs,       \* jobs[b]: unfinished background_jobs rows of the brief
    run,        \* run[b]: where the job worker is with the brief
    loaded,     \* incident rows that sessions hold from before the lock
    writing     \* the open write transaction, if any: write_lock is held

vars == <<incident, outbox, published, deleted, brief, jobs, run, loaded, writing>>

-----------------------------------------------------------------------------
Counters == [event_sequence : Nat, data_revision : Nat, map_revision : Nat]

\* Resource types by what emit_event does with them: "map" stands for report,
\* blind_spot, fact, conflict and fragment, "data" for the other data-affecting
\* ones (incident, attachment, question, directed_answer), "other" for the rest.
ResourceType == {"map", "data", "other"}
DataAffecting == {"map", "data"}
MapAffecting == {"map"}

EventType ==
    ResourceType \cup {"command_brief.ready", "command_brief.stale",
                       "command_brief.failed", "map_view.invalidated"}

OutboxEvent ==
    [incident : Incident, sequence : Nat, type : EventType,
     brief : Brief \cup {NoBrief}, revision : Nat]

Row(i, n, type, b, revision) ==
    [incident |-> i, sequence |-> n, type |-> type, brief |-> b, revision |-> revision]

BriefStatus == {"absent", "queued", "running", "succeeded", "failed"}

AiAnalysis ==
    [incident : Incident, status : BriefStatus, is_stale : BOOLEAN, input_version : Nat]

\* A write transaction: the incident row as the session read it and as it sees
\* it now, the outbox rows it has added, the briefs it has marked stale, and the two markers that
\* bump each revision at most once per transaction.
Transaction ==
    [incident : Incident, read : Counters, row : Counters, events : SUBSET OutboxEvent,
     staled : SUBSET Brief, data_revision_marker : BOOLEAN,
     map_revision_marker : BOOLEAN]

LoadedIncident == [session : Session, incident : Incident, row : Counters]

\* The rows of incident i that were ever committed.
Log(i) == {e \in outbox \cup deleted : e.incident = i}

LockFree == writing = {}

TypeOK ==
    /\ incident \in [Incident -> Counters]
    /\ outbox \subseteq OutboxEvent
    /\ published \subseteq Incident \X Nat
    /\ deleted \subseteq OutboxEvent
    /\ brief \in [Brief -> AiAnalysis]
    /\ jobs \in [Brief -> 0..MaxJobs]
    /\ run \in [Brief -> {"idle", "model", "succeeded", "failed"}]
    /\ loaded \subseteq LoadedIncident
    /\ writing \subseteq Transaction

Init ==
    /\ incident = [i \in Incident |->
                     [event_sequence |-> 0, data_revision |-> 0, map_revision |-> 0]]
    /\ outbox = {}
    /\ published = {}
    /\ deleted = {}
    /\ brief \in [Brief -> [incident : Incident, status : {"absent"},
                           is_stale : {FALSE}, input_version : {0}]]
    /\ jobs = [b \in Brief |-> 0]
    /\ run = [b \in Brief |-> "idle"]
    /\ loaded = {}
    /\ writing = {}

-----------------------------------------------------------------------------
(***************************************************************************)
(* emit_event                                                              *)
(***************************************************************************)
Begin(i, row) ==
    [incident |-> i, read |-> row, row |-> row, events |-> {}, staled |-> {},
     data_revision_marker |-> FALSE, map_revision_marker |-> FALSE]

\* Variant: without data_revision_marker every event of a transaction bumps.
BumpsDataOnEveryEvent(t, type) == type \in DataAffecting

BumpsData(t, type) == type \in DataAffecting /\ ~t.data_revision_marker
BumpsMap(t, type) == type \in MapAffecting /\ ~t.map_revision_marker

DataRevisionAfter(t, type) ==
    IF BumpsData(t, type) THEN t.row.data_revision + 1 ELSE t.row.data_revision

\* Variant: the map revision is bumped although the marker is set.
MapRevisionAlwaysBumped(t, type) ==
    IF type \in MapAffecting THEN t.row.map_revision + 1 ELSE t.row.map_revision

MapRevisionAfter(t, type) ==
    IF BumpsMap(t, type) THEN t.row.map_revision + 1 ELSE t.row.map_revision

\* Variant: the briefs are compared with the revision before the bump.
OutdatedBriefsBeforeBump(t, type) ==
    {b \in Brief \ t.staled :
        /\ type \in DataAffecting
        /\ brief[b].incident = t.incident
        /\ brief[b].status = "succeeded"
        /\ ~brief[b].is_stale
        /\ brief[b].input_version # t.row.data_revision}

\* The succeeded briefs that a data-affecting event makes stale: emit_event
\* selects them after it has bumped data_revision.
OutdatedBriefs(t, type) ==
    {b \in Brief \ t.staled :
        /\ type \in DataAffecting
        /\ brief[b].incident = t.incident
        /\ brief[b].status = "succeeded"
        /\ ~brief[b].is_stale
        /\ brief[b].input_version # DataRevisionAfter(t, type)}

\* The transaction after emit_event(type).  "order" is the order in which the
\* SELECT returns the outdated briefs; the code leaves it to the database.
EmitEvent(t, type, b, revision, order) ==
    LET first == t.row.event_sequence + 1
        last == first + Len(order) + (IF BumpsMap(t, type) THEN 1 ELSE 0)
        mapRevision == MapRevisionAfter(t, type)
        staleEvents ==
            {Row(t.incident, first + n, "command_brief.stale", order[n],
                 brief[order[n]].input_version) : n \in DOMAIN order}
        mapEvents ==
            {Row(t.incident, last, "map_view.invalidated", NoBrief, mapRevision) :
                bumped \in {TRUE} \cap {BumpsMap(t, type)}}
    IN  [incident |-> t.incident,
         read |-> t.read,
         row |-> [event_sequence |-> last,
                  data_revision |-> DataRevisionAfter(t, type),
                  map_revision |-> mapRevision],
         events |-> t.events \cup {Row(t.incident, first, type, b, revision)}
                             \cup staleEvents \cup mapEvents,
         staled |-> t.staled \cup ToSet(order),
         data_revision_marker |-> t.data_revision_marker \/ type \in DataAffecting,
         map_revision_marker |-> t.map_revision_marker \/ type \in MapAffecting]

-----------------------------------------------------------------------------
(***************************************************************************)
(* Write transactions                                                      *)
(***************************************************************************)
\* Variant: a table without the UNIQUE constraint.
CollidesNever(t) == FALSE

\* A row the transaction inserts has the number of a row of the table:
\* UNIQUE(incident_id, sequence) makes the flush raise IntegrityError.
Collides(t) ==
    \E e \in t.events, r \in outbox :
        e.incident = r.incident /\ e.sequence = r.sequence

\* A session reads the incident row without holding write_lock (complete_upload,
\* the Kodo callback and both attachment jobs of the worker).
LoadIncident(s, i) ==
    /\ \A v \in loaded : v.session # s
    /\ loaded' = loaded \cup {[session |-> s, incident |-> i, row |-> incident[i]]}
    /\ UNCHANGED <<incident, outbox, published, deleted, brief, jobs, run, writing>>

\* The session gets the lock and writes from the row it had loaded.
BeginLoaded(v) ==
    /\ LockFree
    /\ writing' = {Begin(v.incident, v.row)}
    /\ loaded' = loaded \ {v}
    /\ UNCHANGED <<incident, outbox, published, deleted, brief, jobs, run>>

\* Every other handler reads (or refreshes) the row after it got the lock.
BeginFresh(i) ==
    /\ LockFree
    /\ writing' = {Begin(i, incident[i])}
    /\ UNCHANGED <<incident, outbox, published, deleted, brief, jobs, run, loaded>>

Emit(t, type) ==
    \E order \in SetToSeqs(OutdatedBriefs(t, type)) :
        LET after == EmitEvent(t, type, NoBrief, 0, order)
        IN  /\ after.row.event_sequence <= MaxSequence
            /\ writing' = {after}
            /\ UNCHANGED <<incident, outbox, published, deleted, brief, jobs, run, loaded>>

\* Variant: staleness is a status of its own.
MarkStaleByStatus(staled) ==
    [b \in Brief |-> IF b \in staled THEN [brief[b] EXCEPT !.status = "stale"] ELSE brief[b]]

MarkStale(staled) ==
    [b \in Brief |-> IF b \in staled THEN [brief[b] EXCEPT !.is_stale = TRUE]
                                     ELSE brief[b]]

Commit(t) ==
    /\ t.events # {}
    /\ ~Collides(t)
    /\ incident' = [incident EXCEPT ![t.incident] = t.row]
    /\ outbox' = outbox \cup t.events
    /\ brief' = MarkStale(t.staled)
    /\ writing' = {}
    /\ UNCHANGED <<published, deleted, jobs, run, loaded>>

\* The flush raised IntegrityError, the handler raised, or it had nothing to
\* write: the transaction leaves nothing behind.
Rollback(t) ==
    /\ writing' = {}
    /\ UNCHANGED <<incident, outbox, published, deleted, brief, jobs, run, loaded>>

-----------------------------------------------------------------------------
(***************************************************************************)
(* Command briefs: requested by an operator, executed by the job worker    *)
(***************************************************************************)
RequestBrief(b, i) ==
    /\ LockFree
    /\ brief[b].status = "absent"
    /\ jobs[b] < MaxJobs
    /\ brief' = [brief EXCEPT ![b] = [incident |-> i, status |-> "queued", is_stale |-> FALSE,
                                     input_version |-> incident[i].data_revision]]
    /\ jobs' = [jobs EXCEPT ![b] = @ + 1]
    /\ UNCHANGED <<incident, outbox, published, deleted, run, loaded, writing>>

\* The worker executes one job at a time.  It does not look at the status the
\* brief has: a job that is claimed again after a crash runs it once more.
StartAnalysis(b) ==
    /\ LockFree
    /\ jobs[b] > 0
    /\ \A c \in Brief : run[c] = "idle"
    /\ brief' = [brief EXCEPT ![b].status = "running"]
    /\ run' = [run EXCEPT ![b] = "model"]
    /\ UNCHANGED <<incident, outbox, published, deleted, jobs, loaded, writing>>

\* The end of one execution: the new row of the brief and its event, from the
\* incident row of that moment.
EndAnalysis(b, analysis, type) ==
    LET i == brief[b].incident
        t == EmitEvent(Begin(i, incident[i]), type, b, brief[b].input_version, <<>>)
    IN  /\ LockFree
        /\ run[b] = "model"
        /\ t.row.event_sequence <= MaxSequence
        /\ incident' = [incident EXCEPT ![i] = t.row]
        /\ outbox' = outbox \cup t.events
        /\ brief' = [brief EXCEPT ![b] = analysis]
        /\ run' = [run EXCEPT ![b] = analysis.status]
        /\ UNCHANGED <<published, deleted, jobs, loaded, writing>>

\* Variant: the completion announces a result, whether stale or not.
CompleteAnalysisAsReady(b) ==
    LET changed == incident[brief[b].incident].data_revision # brief[b].input_version
    IN  EndAnalysis(b, [brief[b] EXCEPT !.status = "succeeded",
                                        !.is_stale = brief[b].is_stale \/ changed],
                    "command_brief.ready")

CompleteAnalysis(b) ==
    LET changed == incident[brief[b].incident].data_revision # brief[b].input_version
        stale == brief[b].is_stale \/ changed
    IN  EndAnalysis(b, [brief[b] EXCEPT !.status = "succeeded", !.is_stale = stale],
                    IF stale THEN "command_brief.stale" ELSE "command_brief.ready")

FailAnalysis(b) ==
    EndAnalysis(b, [brief[b] EXCEPT !.status = "failed"], "command_brief.failed")

\* After a failure the job is tried again until its attempts are used up.
FinishJob(b) ==
    /\ LockFree
    /\ run[b] \in {"succeeded", "failed"}
    /\ \/ jobs' = [jobs EXCEPT ![b] = @ - 1]
       \/ run[b] = "failed" /\ UNCHANGED jobs
    /\ run' = [run EXCEPT ![b] = "idle"]
    /\ UNCHANGED <<incident, outbox, published, deleted, brief, loaded, writing>>

\* An operator asks for a failed analysis to be tried again: one more job.
RetryAnalysis(b) ==
    /\ LockFree
    /\ brief[b].status = "failed"
    /\ jobs[b] < MaxJobs
    /\ brief' = [brief EXCEPT ![b].status = "queued", ![b].is_stale = FALSE]
    /\ jobs' = [jobs EXCEPT ![b] = @ + 1]
    /\ UNCHANGED <<incident, outbox, published, deleted, run, loaded, writing>>

-----------------------------------------------------------------------------
(***************************************************************************)
(* The outbox dispatcher, retention and restarts                           *)
(***************************************************************************)
Key(e) == <<e.incident, e.sequence>>

\* Variant: the dispatcher takes the unpublished rows in any order.
PublishAny(e) ==
    /\ LockFree
    /\ e.sequence <= MaxPublished
    /\ Key(e) \notin published
    /\ published' = published \cup {Key(e)}
    /\ UNCHANGED <<incident, outbox, deleted, brief, jobs, run, loaded, writing>>

\* The dispatcher sets published_at on the rows of an incident in the order of
\* their sequence numbers.
PublishNext(e) ==
    /\ LockFree
    /\ e.sequence <= MaxPublished
    /\ Key(e) \notin published
    /\ \A r \in outbox :
          r.incident = e.incident /\ r.sequence < e.sequence => Key(r) \in published
    /\ published' = published \cup {Key(e)}
    /\ UNCHANGED <<incident, outbox, deleted, brief, jobs, run, loaded, writing>>

\* Retention deletes the rows published before its cutoff, which are the oldest
\* of each incident.  The cutoff is REALTIME_REPLAY_HOURS back, so no session
\* that is still waiting for the lock can be older than a deleted row.
Purge(cutoff) ==
    LET expired == {e \in outbox : Key(e) \in published /\ e.sequence <= cutoff[e.incident]}
    IN  /\ LockFree
        /\ expired # {}
        /\ \A v \in loaded : cutoff[v.incident] <= v.row.event_sequence
        /\ outbox' = outbox \ expired
        /\ deleted' = deleted \cup expired
        /\ UNCHANGED <<incident, published, brief, jobs, run, loaded, writing>>

\* The process dies and is restarted: open transactions are rolled back by the
\* database, a running job is claimed again when its lease expires.
Crash ==
    /\ loaded' = {}
    /\ writing' = {}
    /\ run' = [b \in Brief |-> "idle"]
    /\ UNCHANGED <<incident, outbox, published, deleted, brief, jobs>>

\* What the process does while it runs.
Operate ==
    \/ \E s \in Session, i \in Incident : LoadIncident(s, i)
    \/ \E v \in loaded : BeginLoaded(v)
    \/ \E i \in Incident : BeginFresh(i)
    \/ \E t \in writing, type \in ResourceType : Emit(t, type)
    \/ \E t \in writing : Commit(t)
    \/ \E t \in writing : Rollback(t)
    \/ \E b \in Brief, i \in Incident : RequestBrief(b, i)
    \/ \E b \in Brief : StartAnalysis(b)
    \/ \E b \in Brief : CompleteAnalysis(b)
    \/ \E b \in Brief : FailAnalysis(b)
    \/ \E b \in Brief : FinishJob(b)
    \/ \E b \in Brief : RetryAnalysis(b)
    \/ \E e \in outbox : PublishNext(e)
    \/ \E cutoff \in [Incident -> 0..MaxPublished] : Purge(cutoff)

Next == Operate \/ Crash

Spec == Init /\ [][Next]_vars

-----------------------------------------------------------------------------
(***************************************************************************)
(* Properties                                                              *)
(***************************************************************************)
\* The events ever committed for an incident are numbered 1 to event_sequence,
\* each number used once, although sessions write from counters they read
\* before they had the lock.  The replay of realtime.py counts on it: it tells
\* "nothing missed" from "resynchronise" by comparing sequence numbers.
ContiguousSequence ==
    \A i \in Incident :
        /\ {e.sequence : e \in Log(i)} = 1..incident[i].event_sequence
        /\ \A e, f \in Log(i) : e.sequence = f.sequence => e = f

\* A brief that is served as current (succeeded and not stale) was made from the
\* data revision the incident has now.  emit_event outdates the finished briefs,
\* _complete_async_analysis catches those that were running meanwhile.
CurrentBriefIsFresh ==
    \A b \in Brief :
        brief[b].status = "succeeded" /\ ~brief[b].is_stale
            => brief[b].input_version = incident[brief[b].incident].data_revision

\* Every brief that is stale was announced as stale.
StaleBriefAnnounced ==
    \A b \in Brief : brief[b].is_stale =>
        \E e \in Log(brief[b].incident) : e.type = "command_brief.stale" /\ e.brief = b

\* Each map revision is announced by exactly one map_view.invalidated event, and
\* in order: a client that has seen the last one has the current map revision.
MapRevisionAnnounced ==
    \A i \in Incident :
        LET announced == {e \in Log(i) : e.type = "map_view.invalidated"}
        IN  /\ {e.revision : e \in announced} = 1..incident[i].map_revision
            /\ \A e, f \in announced : e.sequence < f.sequence => e.revision < f.revision

\* One committed transaction moves data_revision by exactly one if it emitted a
\* data-affecting event, however many, and leaves it alone otherwise; no commit
\* ever takes a counter back.
OneRevisionPerCommit ==
    [][\A i \in Incident :
        LET new == {e \in outbox' : e.incident = i /\ e \notin Log(i)}
        IN  /\ incident'[i].data_revision = incident[i].data_revision
                 + (IF \E e \in new : e.type \in DataAffecting THEN 1 ELSE 0)
            /\ incident'[i].event_sequence = incident[i].event_sequence + Cardinality(new)]_vars

\* A log entry, once committed, is never changed, renumbered or published twice:
\* the table and the counters implement IncidentLog.
Entry(i, n) == CHOOSE e \in Log(i) : e.sequence = n

AbstractLog ==
    INSTANCE IncidentLog WITH
        log <- [i \in Incident |-> [n \in 1..incident[i].event_sequence |-> Entry(i, n)]],
        announced <- [i \in Incident |-> {k[2] : k \in {k \in published : k[1] = i}}],
        dropped <- [i \in Incident |-> {e.sequence : e \in {e \in deleted : e.incident = i}}]

ImplementsIncidentLog == AbstractLog!Spec
=============================================================================
