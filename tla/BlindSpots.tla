----------------------------- MODULE BlindSpots -----------------------------
(***************************************************************************)
(* Observations, automatic blind spots and answers of one incident         *)
(* (report_observations.py, reports.py, questions.py).  A report leaves a  *)
(* fragment: what it says of a place.  While a fragment says "unknown", a  *)
(* job of the queue waits out a grace period and opens a blind spot unless *)
(* somebody has said something definite since.  Edits, withdrawals and     *)
(* answers resolve and reopen the blind spots, each in its own             *)
(* transaction, at any point of the worker's claim, load and finish.       *)
(*                                                                         *)
(* A place stands for a claim key together with its location.              *)
(***************************************************************************)
EXTENDS Naturals, FiniteSets

CONSTANTS
    Report, Device,   \* reports and the devices that answer
    Place,
    Value,            \* what a definite claim can say
    MinValidAnswers,  \* min_valid_answers of a blind spot
    MaxOperations,    \* bound on the operations of the application
    MaxAttempts, MaxLost

ASSUME BoundsAreNaturals ==
    /\ MaxOperations \in Nat /\ MinValidAnswers \in Nat
    /\ MaxAttempts \in Nat \ {0} /\ MaxLost \in Nat

VARIABLES
    fragment,  \* fragment[s]: what source s says, and the status of its report
    blind,     \* blind[p]: the automatic blind spot of place p
    incident,  \* the status of the incident, and whether it was ever not active (history)
    now,       \* the number of operations so far: the clock of received_at
    job, worker, faults

data == <<fragment, blind, incident, now>>
vars == <<data, job, worker, faults>>

\* A detection job belongs to a revision of a report's fragment.
Job == Report \X (1..MaxOperations)
Queue == INSTANCE JobQueue

Answer == Device \X Place
Source == Report \cup Answer

Nowhere == "nowhere"
Nobody == "nobody"
Nothing == "nothing"
Indefinite == {"unknown", "uncertain"}

\* A fragment has one source_type: it is a report's or an answer's.
ASSUME SourcesAreApart == Report \cap Answer = {} /\ Nobody \notin Source /\ Nowhere \notin Place
\* A definite claim is none of the two that claim nothing, nor what stands for no claim at all.
ASSUME ValuesAreDefinite == Value \cap (Indefinite \cup {Nothing}) = {}

\* What a report can say: "uncertain" asks outright, "unknown" is merely ambiguous.
Claim == [place : Place, value : Value \cup Indefinite] \cup {[place |-> Nowhere, value |-> Nothing]}

\* told: when a report last said something definite (history).
Fragment ==
    [report : {"none", "live", "invalid", "deleted"}, status : {"absent", "active", "withdrawn"},
     place : Place \cup {Nowhere}, value : Value \cup Indefinite \cup {Nothing},
     revision : 0..MaxOperations, received : 0..MaxOperations, told : 0..MaxOperations]

\* resolver: resolution_fragment_id; value: resolution_value.
BlindSpot ==
    [status : {"absent", "open", "reopened", "resolved"}, origin : Source \cup {Nobody},
     resolver : Source \cup {Nobody}, value : Value \cup {Nothing, "conflicting", "withdrawn"}]

Open == {"open", "reopened"}

\* A blind spot has a resolution value just while it is resolved.
TypeOK ==
    /\ fragment \in [Source -> Fragment]
    /\ blind \in [Place -> BlindSpot]
    /\ incident \in [active : BOOLEAN, interrupted : BOOLEAN]
    /\ now \in 0..MaxOperations
    /\ Queue!TypeOK
    /\ \A p \in Place : blind[p].status = "resolved" <=> blind[p].value # Nothing

Init ==
    /\ fragment = [s \in Source |->
           [report |-> "none", status |-> "absent", place |-> Nowhere, value |-> Nothing,
            revision |-> 0, received |-> 0, told |-> 0]]
    /\ blind = [p \in Place |->
           [status |-> "absent", origin |-> Nobody, resolver |-> Nobody, value |-> Nothing]]
    /\ incident = [active |-> TRUE, interrupted |-> FALSE]
    /\ now = 0
    /\ Queue!Init

-----------------------------------------------------------------------------
(***************************************************************************)
(* What the fragments f say                                                *)
(***************************************************************************)
Active(f, s) == f[s].status = "active" /\ (s \in Report => f[s].report = "live")
Definite(f, s) == f[s].value \in Value
Unknown(f, s) == f[s].value \in Indefinite

\* active_nearby
Others(f, s, p) == {t \in Source \ {s} : Active(f, t) /\ f[t].place = p}

\* What a source says has changed, or it is withdrawn: the rows that may become of the
\* resolved blind spot x of place p which it resolved.
AfterResolver(f, s, p, x) ==
    LET definite == {t \in Others(f, s, p) : Definite(f, t)} IN
    IF Active(f, s) /\ f[s].place = p /\ f[s].value = x.value THEN {x}
    ELSE IF definite # {} THEN {[x EXCEPT !.resolver = t, !.value = f[t].value] : t \in definite}
    ELSE IF Unknown(f, x.origin) /\ Active(f, x.origin)
         THEN {[x EXCEPT !.status = "reopened", !.resolver = Nobody, !.value = Nothing]}
    ELSE {x}

\* Variant: it does not matter where the origin's claim is.
AfterOriginAnywhere(f, s, p, x) ==
    LET unknown == {t \in Others(f, s, p) : Unknown(f, t)} IN
    IF Active(f, s) /\ Unknown(f, s) THEN {x}
    ELSE IF Active(f, s) /\ f[s].place = p /\ Definite(f, s)
         THEN {[x EXCEPT !.status = "resolved", !.resolver = s, !.value = f[s].value]}
    ELSE IF unknown # {} THEN {[x EXCEPT !.origin = t] : t \in unknown}
    ELSE {[x EXCEPT !.status = "resolved", !.value = "withdrawn"]}

\* The same for the open blind spot x of place p which it is the origin of.
AfterOrigin(f, s, p, x) ==
    LET unknown == {t \in Others(f, s, p) : Unknown(f, t)} IN
    IF Active(f, s) /\ f[s].place = p /\ Unknown(f, s) THEN {x}
    ELSE IF Active(f, s) /\ f[s].place = p /\ Definite(f, s)
         THEN {[x EXCEPT !.status = "resolved", !.resolver = s, !.value = f[s].value]}
    ELSE IF unknown # {} THEN {[x EXCEPT !.origin = t] : t \in unknown}
    ELSE {[x EXCEPT !.status = "resolved", !.value = "withdrawn"]}

\* _deactivate_automatic_blind_spots
AfterChange(f, s, p) ==
    LET x == blind[p] IN
    IF x.resolver = s /\ x.status = "resolved" THEN AfterResolver(f, s, p, x)
    ELSE IF x.origin = s /\ x.status \in Open THEN AfterOrigin(f, s, p, x)
    ELSE {x}

Deactivations(f, s) ==
    {b \in [Place -> UNION {AfterChange(f, s, p) : p \in Place}] :
        \A p \in Place : b[p] \in AfterChange(f, s, p)}

-----------------------------------------------------------------------------
(***************************************************************************)
(* Detection and resolution, from the blind spots b                        *)
(***************************************************************************)
\* Variant: any definite claim will do, however old.
SaidSinceEver(f, r) == \E t \in Others(f, r, f[r].place) : Definite(f, t)

\* Somebody else has said something definite about the place since.
SaidSince(f, r) ==
    \E t \in Others(f, r, f[r].place) : Definite(f, t) /\ f[t].received >= f[r].received

\* Variant: the old resolution value is left in the row.
DetectedWithValue(f, b, r) ==
    IF incident.active /\ Active(f, r) /\ Unknown(f, r) /\ ~SaidSince(f, r)
    THEN [b EXCEPT ![f[r].place] =
             IF @.status = "absent" THEN [@ EXCEPT !.status = "open", !.origin = r]
             ELSE IF @.status = "resolved" THEN [@ EXCEPT !.status = "reopened", !.origin = r]
             ELSE @]
    ELSE b

\* run_report_blind_spot_detection; a reopened blind spot keeps its resolver.
Detected(f, b, r) ==
    IF incident.active /\ Active(f, r) /\ Unknown(f, r) /\ ~SaidSince(f, r)
    THEN [b EXCEPT ![f[r].place] =
             IF @.status = "absent" THEN [@ EXCEPT !.status = "open", !.origin = r]
             ELSE IF @.status = "resolved"
                  THEN [@ EXCEPT !.status = "reopened", !.origin = r, !.value = Nothing]
             ELSE @]
    ELSE b

\* A conflict is opened when somebody else says something different.
Conflicts(f, s) == \E t \in Others(f, s, f[s].place) : Definite(f, t) /\ f[t].value # f[s].value

\* _resolve_automatic_blind_spots; it does not ask whether the report is valid.
Resolved(f, b, s) ==
    IF Definite(f, s) /\ b[f[s].place].status \in Open
    THEN [b EXCEPT ![f[s].place] =
             [@ EXCEPT !.status = "resolved", !.resolver = s,
                       !.value = IF Conflicts(f, s) THEN "conflicting" ELSE f[s].value]]
    ELSE b

-----------------------------------------------------------------------------
(***************************************************************************)
(* Reports                                                                 *)
(***************************************************************************)
Tick == now < MaxOperations /\ now' = now + 1

OwnJobs(r) == {r} \X (1..MaxOperations)

\* Variant: a claim that is not unknown any more leaves the jobs of the former ones.
ScheduleWhileUnknown(r, f) ==
    IF Unknown(f, r)
    THEN Queue!Schedule(OwnJobs(r) \ {<<r, f[r].revision>>},
                        IF f[r].value = "unknown" THEN {<<r, f[r].revision>>} ELSE {})
    ELSE UNCHANGED <<job, worker, faults>>

\* _cancel_blind_spot_jobs and _ensure_blind_spot_job
ScheduleDetection(r, f) ==
    Queue!Schedule(OwnJobs(r) \ (IF Unknown(f, r) THEN {<<r, f[r].revision>>} ELSE {}),
                   IF f[r].value = "unknown" THEN {<<r, f[r].revision>>} ELSE {})

\* process_report_observation, of a report that is in the given status.
Observe(r, status, c) ==
    /\ Tick
    /\ fragment' = [fragment EXCEPT ![r] =
           [report |-> status, status |-> "active", place |-> c.place, value |-> c.value,
            revision |-> @.revision + 1, received |-> now',
            told |-> IF c.value \in Value THEN now' ELSE @.told]]
    /\ \E b \in Deactivations(fragment', r) :
           blind' = Resolved(fragment', IF c.value = "uncertain" THEN Detected(fragment', b, r)
                                        ELSE b, r)
    /\ ScheduleDetection(r, fragment')
    /\ UNCHANGED incident

\* deactivate_report_observation, of a report that gets the given status.
Withdraw(r, status) ==
    /\ Tick
    /\ fragment' = [fragment EXCEPT ![r] =
           [@ EXCEPT !.report = status, !.status = "withdrawn",
                     !.revision = fragment[r].revision
                                   + IF fragment[r].status = "withdrawn" THEN 0 ELSE 1]]
    /\ blind' \in Deactivations(fragment', r)
    /\ Queue!Schedule(OwnJobs(r), {})
    /\ UNCHANGED incident

PostReport(r, c) == fragment[r].report = "none" /\ Observe(r, "live", c)

\* The owner of an invalid report may go on editing it.
PatchReport(r, c) ==
    /\ fragment[r].report \in {"live", "invalid"}
    /\ Observe(r, fragment[r].report, c)

DeleteReport(r) == fragment[r].report \in {"live", "invalid"} /\ Withdraw(r, "deleted")

\* patch_report_status to "invalid", and back
Invalidate(r) == fragment[r].report = "live" /\ Withdraw(r, "invalid")

Restore(r) ==
    /\ fragment[r].report = "invalid"
    /\ Observe(r, "live", [place |-> fragment[r].place, value |-> fragment[r].value])

SetIncidentStatus ==
    /\ Tick
    /\ incident' = [active |-> ~incident.active, interrupted |-> TRUE]
    /\ UNCHANGED <<fragment, blind, job, worker, faults>>

-----------------------------------------------------------------------------
(***************************************************************************)
(* Answers                                                                 *)
(***************************************************************************)
ValidAnswers(f, p) == {d \in Device : Definite(f, <<d, p>>)}
Opinions(f, p) == {f[<<d, p>>].value : d \in ValidAnswers(f, p)}

\* put_my_answer, to a question about the blind spot of p.  The fragment of an answer keeps
\* the time at which it was first received.
PutAnswer(d, p, v) ==
    LET s == <<d, p>> IN
    /\ blind[p].status # "absent"
    /\ Tick
    /\ fragment' = [fragment EXCEPT ![s] =
           [@ EXCEPT !.status = "active", !.place = p, !.value = v,
                     !.revision = fragment[s].revision + 1,
                     !.received = IF fragment[s].status = "absent" THEN now'
                                  ELSE fragment[s].received]]
    /\ blind' = [blind EXCEPT ![p] =
           IF /\ Cardinality(Opinions(fragment', p)) = 1
              /\ Cardinality(ValidAnswers(fragment', p)) >= MinValidAnswers
           THEN [@ EXCEPT !.status = "resolved",
                          !.value = CHOOSE w \in Opinions(fragment', p) : TRUE]
           ELSE IF @.status = "resolved" THEN [@ EXCEPT !.status = "open", !.value = Nothing]
           ELSE @]
    /\ UNCHANGED <<incident, job, worker, faults>>

-----------------------------------------------------------------------------
(***************************************************************************)
(* The worker                                                              *)
(***************************************************************************)
\* Variant: the job is not compared with the revision it was made for.
DetectAnyRevision(at) ==
    /\ Queue!Handled(at)
    /\ blind' \in {Detected(fragment, blind, worker.job[1])}
                  \cup (IF at = "error" THEN {blind} ELSE {})
    /\ UNCHANGED <<fragment, incident, now>>

\* The handler of a detection job.  When it raises, the error path of the worker commits
\* what it has done so far.
Detect(at) ==
    /\ Queue!Handled(at)
    /\ LET r == worker.job[1]
           n == worker.job[2]
       IN  blind' \in {IF fragment[r].revision = n THEN Detected(fragment, blind, r) ELSE blind}
                      \cup (IF at = "error" THEN {blind} ELSE {})
    /\ UNCHANGED <<fragment, incident, now>>

QueueStep ==
    /\ \/ \E j \in Job : Queue!BecomeDue(j) \/ Queue!LeaseExpires(j) \/ Queue!Claim(j)
       \/ Queue!Load
       \/ Queue!Finish
       \/ Queue!Abandon
    /\ UNCHANGED data

Next ==
    \/ \E r \in Report, c \in Claim : PostReport(r, c) \/ PatchReport(r, c)
    \/ \E r \in Report : DeleteReport(r) \/ Invalidate(r) \/ Restore(r)
    \/ SetIncidentStatus
    \/ \E d \in Device, p \in Place, v \in Value \cup {"unknown"} : PutAnswer(d, p, v)
    \/ \E at \in {"done", "error"} : Detect(at)
    \/ QueueStep

Spec == Init /\ [][Next]_vars

-----------------------------------------------------------------------------
(***************************************************************************)
(* Properties                                                              *)
(***************************************************************************)
IsOpen(p) == blind[p].status \in Open

\* A job that may still be executed is for what its report says now: whatever replaces or
\* withdraws an observation cancels the jobs of the former ones.
JobsAreCurrent ==
    \A r \in Report, n \in 1..MaxOperations :
        job[<<r, n>>].status \in Queue!Unfinished =>
            /\ fragment[r].status = "active"
            /\ fragment[r].revision = n
            /\ fragment[r].value = "unknown"

\* The origin of the blind spot still says that it does not know about the place.
Justified(p) ==
    LET s == blind[p].origin IN
    s \in Source /\ Active(fragment, s) /\ Unknown(fragment, s) /\ fragment[s].place = p

\* An open blind spot that rests on an unknown observation goes on resting on one while it is
\* open, through edits, moves, withdrawals and invalidations of its origin and of the other
\* reports: it is handed to another unknown observation or resolved.  Only an answer may
\* leave it without one.
JustifiedStaysJustified ==
    [][\A p \in Place :
          /\ IsOpen(p) /\ Justified(p) /\ IsOpen(p)'
          /\ \A d \in Device : fragment'[<<d, p>>] = fragment[<<d, p>>]
          => Justified(p)']_vars

\* The worker opens a blind spot only for an observation whose own grace period is over, not
\* for one that replaced the observation its job was made for.
GraceIsKept ==
    [][\A p \in Place :
          ~IsOpen(p) /\ IsOpen(p)' /\ worker' # worker /\ worker.at = "loaded" =>
              LET r == blind'[p].origin IN
              job[<<r, fragment[r].revision>>].status \notin {"absent", "queued"}]_vars

\* A gap that a valid report has pointed out is not forgotten: its detection is still to come
\* (or has failed for good), or there is an open blind spot, or somebody has said something
\* definite since, or it has become the subject of answers.
GapIsSeen ==
    ~incident.interrupted =>
        \A r \in Report : Active(fragment, r) /\ Unknown(fragment, r) =>
            LET p == fragment[r].place
                j == <<r, fragment[r].revision>>
            IN  \/ job[j].status \in Queue!Unfinished \cup {"failed"}
                \/ IsOpen(p)
                \/ \E t \in Source \ {r} : fragment[t].told >= fragment[r].received
                \/ \E d \in Device : fragment[<<d, p>>].status = "active"

\* What test_delete_and_invalid_reports_fully_deactivate_observation_state asserts: the
\* observation of an invalid report is withdrawn.
InvalidIsWithdrawn ==
    \A r \in Report : fragment[r].report = "invalid" => fragment[r].status = "withdrawn"
=============================================================================
