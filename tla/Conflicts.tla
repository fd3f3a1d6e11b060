----------------------------- MODULE Conflicts ------------------------------
(***************************************************************************)
(* Conflicts about one fact of one place (conflicts.py, the parts of       *)
(* report_observations.py and questions.py that feed them, and the         *)
(* conflict analyses of ai.py).  What reports and answers say of the place *)
(* becomes the evidence of a case; operators add evidence, ask for an      *)
(* analysis, decide and reopen; a decision writes the next version of the  *)
(* fact.  Every one of these is a transaction under write_lock.  The       *)
(* worker calls the model between two transactions of its own, and what it *)
(* started on may have changed when the answer arrives.                    *)
(***************************************************************************)
EXTENDS Naturals, FiniteSets, FiniteSetsExt

CONSTANTS
    Report, Answer,   \* the fragments of reports, and of the answers to one question
    Value,            \* what a definite claim can say of the place
    MinValidAnswers,  \* min_valid_answers of the blind spot the question is about
    MaxCases, Analysis,
    MaxOperations,    \* bound on the operations of residents and operators
    MaxJobs           \* bound on the jobs of an analysis

ASSUME BoundsAreNaturals ==
    MaxCases \in Nat \ {0} /\ MaxOperations \in Nat /\ MaxJobs \in Nat \ {0}
ASSUME SourcesAreApart == Report \cap Answer = {}

VARIABLES
    fragment,  \* fragment[s]: what source s says
    conflict,  \* conflict[c]: the row of case c, cases are numbered as they are created
    evidence,  \* evidence[c]: the rows of conflict_evidence of case c
    fact,      \* the fact record, and what its current version has accepted
    analysis,
    jobs,      \* jobs[a]: how many jobs of analysis a have not ended
    worker,    \* the analysis that the worker is executing
    operations \* how many operations there have been

vars == <<fragment, conflict, evidence, fact, analysis, jobs, worker, operations>>

Source == Report \cup Answer
Case == 1..MaxCases
Unknown == "unknown"

Nobody == "nobody"

\* live: the source is an answer, or a report that is neither deleted nor invalid; accepted:
\* a decision has accepted it since its claim last changed (history).
Fragment == [status : {"absent", "normal", "conflict", "resolved", "withdrawn"},
             value : Value \cup {Unknown}, revision : Nat, live : BOOLEAN, accepted : BOOLEAN]

\* recent: detected within conflict_window_hours.
ConflictCase ==
    [status : {"absent", "open", "reopened", "analyzing", "analysis_ready", "resolved"},
     revision : Nat, resolution : {"none", "decision", "automatic"}, recent : BOOLEAN]

\* A version of a source, and a snapshot of it.
Version == Source \X Nat
Evidence == [source : Source, revision : Nat, value : Value \cup {Unknown}, current : BOOLEAN]

\* What an analysis is made of; its hash decides whether it is asked for again.
Context == [status : {"open", "reopened", "analyzing", "analysis_ready", "resolved"},
            revision : Nat, ids : SUBSET Version]
NoAnalysis == [status |-> "absent"]
AiAnalysis == [status : {"queued", "running", "succeeded", "failed"}, stale : BOOLEAN,
               conflict : Case, context : Context]

\* accepted: accepted_evidence_ids of the current version, and the case they belong to.
FactRecord == [status : {"none", "current", "under_review"}, conflict : Case,
               accepted : SUBSET Version]

TypeOK ==
    /\ fragment \in [Source -> Fragment]
    /\ conflict \in [Case -> ConflictCase]
    /\ evidence \in [Case -> SUBSET Evidence]
    /\ fact \in FactRecord
    /\ analysis \in [Analysis -> AiAnalysis \cup {NoAnalysis}]
    /\ jobs \in [Analysis -> 0..MaxJobs]
    /\ worker \in Analysis \cup {Nobody}
    /\ operations \in 0..MaxOperations

NoCase == [status |-> "absent", revision |-> 0, resolution |-> "none", recent |-> FALSE]

Init ==
    /\ fragment = [s \in Source |-> [status |-> "absent", value |-> Unknown, revision |-> 0,
                                  live |-> FALSE, accepted |-> FALSE]]
    /\ conflict = [c \in Case |-> NoCase]
    /\ evidence = [c \in Case |-> {}]
    /\ fact = [status |-> "none", conflict |-> 1, accepted |-> {}]
    /\ analysis = [a \in Analysis |-> NoAnalysis]
    /\ jobs = [a \in Analysis |-> 0]
    /\ worker = Nobody
    /\ operations = 0

\* Operations are counted, and bounded.
Operation == operations < MaxOperations /\ operations' = operations + 1

\* A transaction takes a database d to the one it commits.
Database == [fragment |-> fragment, conflict |-> conflict, evidence |-> evidence,
             fact |-> fact, analysis |-> analysis]

Commit(d) ==
    /\ Operation
    /\ fragment' = d.fragment
    /\ conflict' = d.conflict
    /\ evidence' = d.evidence
    /\ fact' = d.fact
    /\ analysis' = d.analysis

Id(e) == <<e.source, e.revision>>
Current(E) == {e \in E : e.current}
Ids(E) == {Id(e) : e \in E}
Exists(d, c) == d.conflict[c].status # "absent"
Definite(v) == v \in Value

-----------------------------------------------------------------------------
(***************************************************************************)
(* Evidence, staleness, review                                             *)
(***************************************************************************)
\* The version of source s that the fragments f have now.
Present(f, s) == <<s, f[s].revision>>

\* Variant: what was said before stays current beside what is said now.
RowAfterBeside(f, E, e) == IF Id(e) = Present(f, e.source) THEN [e EXCEPT !.current = TRUE] ELSE e

\* What becomes of row e of E when its source is added again: a version that is there already
\* becomes current, a new one takes the place of the former ones.
RowAfter(f, E, e) ==
    IF Present(f, e.source) \notin Ids(E) THEN [e EXCEPT !.current = FALSE]
    ELSE IF Id(e) = Present(f, e.source) THEN [e EXCEPT !.current = TRUE]
    ELSE e

NewRow(f, s) == [source |-> s, revision |-> f[s].revision, value |-> f[s].value, current |-> TRUE]

\* The rows E and the present versions of the sources S.
RowsWith(f, E, S) ==
    {IF e.source \in S THEN RowAfter(f, E, e) ELSE e : e \in E}
    \cup {NewRow(f, s) : s \in {t \in S : Present(f, t) \notin Ids(E)}}

\* add_evidence
AddEvidence(d, c, S) == [d EXCEPT !.evidence[c] = RowsWith(d.fragment, @, S)]

\* Variant: staleness is a status.
MarkStaleByStatus(d, C) ==
    [d EXCEPT !.analysis = [a \in Analysis |->
        IF @[a] # NoAnalysis /\ @[a].conflict \in C THEN [@[a] EXCEPT !.status = "stale"] ELSE @[a]]]

\* mark_analyses_stale, whatever the analysis is doing
MarkStale(d, C) ==
    [d EXCEPT !.analysis = [a \in Analysis |->
        IF @[a] # NoAnalysis /\ @[a].conflict \in C THEN [@[a] EXCEPT !.stale = TRUE] ELSE @[a]]]

\* mark_fact_under_review: a version of its own, that accepts nothing.
Review(d, c) ==
    IF d.fact.status # "current" THEN d
    ELSE [d EXCEPT !.fact = [status |-> "under_review", conflict |-> c, accepted |-> {}]]

\* The case moves on to its next revision, and no analysis of it is fresh any more.
Bump(d, c) == MarkStale([d EXCEPT !.conflict[c].revision = @ + 1], {c})

Reopened(d, c) ==
    Review(Bump([d EXCEPT !.conflict[c].status = "reopened",
                          !.conflict[c].resolution = "none"], c), c)

Numbered(d) == {c \in Case : Exists(d, c)}
NextCase(d) == Cardinality(Numbered(d)) + 1
Opened(d) ==
    [d EXCEPT !.conflict[NextCase(d)] =
        [status |-> "open", revision |-> 1, resolution |-> "none", recent |-> TRUE]]

-----------------------------------------------------------------------------
(***************************************************************************)
(* Structured conflicts                                                    *)
(***************************************************************************)
\* The case that find_or_open_structured_conflict comes to: the last recent one of the
\* place, or a new one.
Matching(d) ==
    LET recent == {c \in Numbered(d) : d.conflict[c].recent} IN
    IF recent = {} THEN NextCase(d) ELSE Max(recent)

\* Variant: a case that was not resolved keeps its revision.
RenewedUnrevised(d, c, S) == IF d.conflict[c].status = "resolved" THEN Reopened(d, c) ELSE d

\* An existing case that comes to know the fragments S.
Renewed(d, c, S) ==
    IF d.conflict[c].status = "resolved" THEN Reopened(d, c)
    ELSE IF \E s \in S : Present(d.fragment, s) \notin Ids(d.evidence[c]) THEN Bump(d, c)
    ELSE d

\* find_or_open_structured_conflict, with the fragments S
FindOrOpen(d, S) ==
    LET c == Matching(d)
        added == AddEvidence(IF Exists(d, c) THEN Renewed(d, c, S) ELSE Opened(d), c, S)
    IN  [added EXCEPT !.fragment = [s \in Source |->
            IF s \in S THEN [@[s] EXCEPT !.status = "conflict"] ELSE @[s]]]

\* Variant: a fragment that is in a conflict already is not looked at.
ContradictingNormal(d, r) ==
    {t \in Report \ {r} : /\ d.fragment[t].status = "normal"
                          /\ Definite(d.fragment[t].value)
                          /\ d.fragment[t].value # d.fragment[r].value}

\* The fragments that contradict what report r says.
Contradicting(d, r) ==
    {t \in Report \ {r} : /\ d.fragment[t].status \in {"normal", "conflict"}
                          /\ Definite(d.fragment[t].value)
                          /\ d.fragment[t].value # d.fragment[r].value}

Detects(d, r) == Definite(d.fragment[r].value) /\ Contradicting(d, r) # {}

\* detect_structured_fragment_conflict
Detected(d, r) == IF Detects(d, r) THEN FindOrOpen(d, Contradicting(d, r) \cup {r}) ELSE d

\* Variant: a resolved case keeps what it was resolved with.
InvalidatedUnresolved(d, r) ==
    [d EXCEPT !.evidence = [c \in Case |->
        IF d.conflict[c].status = "resolved" THEN @[c]
        ELSE {IF e.source = r THEN [e EXCEPT !.current = FALSE] ELSE e : e \in @[c]}]]

\* _invalidate_fragment_evidence: in whatever case
Invalidated(d, r) ==
    [d EXCEPT !.evidence = [c \in Case |->
        {IF e.source = r THEN [e EXCEPT !.current = FALSE] ELSE e : e \in @[c]}]]

\* _has_cross_source_contradiction
Contradictory(E) ==
    \E e, f \in E : /\ e.source # f.source /\ e.value # f.value
                    /\ Definite(e.value) /\ Definite(f.value)

\* Variant: the fact is left as it is.
ReviewedAfterNever(d, withdrawn) == d

\* The fact is reviewed when rows are withdrawn that its current version has accepted.
ReviewedAfter(d, withdrawn) ==
    IF withdrawn[d.fact.conflict] \cap d.fact.accepted = {} THEN d ELSE Review(d, d.fact.conflict)

Normal(f) == [f EXCEPT !.status = "normal", !.revision = @ + 1]

\* The fragments of the cases C that no unresolved case needs are normal again.
Freed(d, C) ==
    LET open == {c \in Case : d.conflict[c].status # "resolved"}
        needed == {e.source : e \in UNION {Current(d.evidence[c]) : c \in open}}
        freed == {e.source : e \in UNION {d.evidence[c] : c \in C}} \ needed
    IN  [d EXCEPT !.fragment = [s \in Source |->
            IF s \in freed /\ d.fragment[s].status = "conflict" THEN Normal(d.fragment[s])
            ELSE d.fragment[s]]]

\* _reconcile_conflicts of the cases C: withdrawn[c] are the rows that are not current any
\* more, before[c] is the case as it was then.  A case is resolved when its current evidence
\* does not contradict itself any more.
Reconciled(d, C, withdrawn, before) ==
    LET hit == {c \in C : withdrawn[c] # {}}
        settled == {c \in C : /\ ~Contradictory(Current(d.evidence[c]))
                              /\ d.conflict[c].status # "resolved"}
        moved == {c \in hit : d.conflict[c].revision = before[c].revision} \cup (settled \ hit)
        row(c) == [d.conflict[c] EXCEPT
                      !.revision = IF c \in moved THEN @ + 1 ELSE @,
                      !.status = IF c \in settled THEN "resolved" ELSE @,
                      !.resolution = IF c \in settled THEN "automatic" ELSE @]
        updated == [d EXCEPT !.conflict = [c \in Case |-> row(c)]]
    IN  Freed(ReviewedAfter(MarkStale(updated, hit \cup settled), withdrawn), settled)

-----------------------------------------------------------------------------
(***************************************************************************)
(* Reports                                                                 *)
(***************************************************************************)
\* The rows of r that are current before a change of r, and their cases.
OwnRows(d, r) == [c \in Case |-> Ids({e \in Current(d.evidence[c]) : e.source = r})]
Affected(d, r) == {c \in Case : OwnRows(d, r)[c] # {}}

Detections(d, r) == IF Detects(d, r) THEN {Matching(d)} ELSE {}

\* process_report_observation, where the fragment is f afterwards.
Observe(r, f) ==
    LET old == Invalidated(Database, r)
        new == [old EXCEPT !.fragment[r] = f]
        C == Affected(Database, r) \cup Detections(new, r)
    IN  /\ Detects(new, r) => Matching(new) \in Case
        /\ Commit(Reconciled(Detected(new, r), C, OwnRows(Database, r), conflict))
        /\ UNCHANGED <<jobs, worker>>

PostReport(r, v) ==
    /\ fragment[r].status = "absent"
    /\ Observe(r, [status |-> "normal", value |-> v, revision |-> 1, live |-> TRUE,
                   accepted |-> FALSE])

\* The fragment of a report that says v now.  Its status is only reset when it was withdrawn
\* or one of the fields of the claim has changed, and observed_at may be one of them.
Upserted(r, v, reset, live) ==
    /\ v # fragment[r].value \/ fragment[r].status = "withdrawn" => reset
    /\ Observe(r, [status |-> IF reset THEN "normal" ELSE fragment[r].status, value |-> v,
                   revision |-> fragment[r].revision + 1, live |-> live,
                   accepted |-> fragment[r].accepted /\ ~reset])

\* patch_report: the owner of an invalid report may go on editing it.
PatchReport(r, v, reset) == fragment[r].status # "absent" /\ Upserted(r, v, reset, fragment[r].live)

\* patch_report_status, from "invalid" to something else
RestoreReport(r, reset) ==
    /\ fragment[r].status # "absent" /\ ~fragment[r].live
    /\ Upserted(r, fragment[r].value, reset, TRUE)

\* deactivate_report_observation: the report is deleted or declared invalid.
WithdrawReport(r) ==
    LET f == fragment[r]
        gone == [f EXCEPT !.status = "withdrawn", !.live = FALSE,
                          !.revision = IF f.status = "withdrawn" THEN @ ELSE @ + 1]
        new == [Invalidated(Database, r) EXCEPT !.fragment[r] = gone]
    IN  /\ f.status # "absent"
        /\ Commit(Reconciled(new, Affected(Database, r), OwnRows(Database, r), conflict))
        /\ UNCHANGED <<jobs, worker>>

-----------------------------------------------------------------------------
(***************************************************************************)
(* Answers                                                                 *)
(***************************************************************************)
ValidAnswers(d) == {s \in Answer : d.fragment[s].status # "absent" /\ Definite(d.fragment[s].value)}
DistinctValues(d) == {d.fragment[s].value : s \in ValidAnswers(d)}

\* Somebody says the same, often enough: the answer a counts as resolved.
Consensus(d, a) ==
    IF DistinctValues(d) # {} /\ Cardinality(ValidAnswers(d)) >= MinValidAnswers
    THEN [d EXCEPT !.fragment[a].status = "resolved"] ELSE d

\* The last case that answer a was ever evidence of takes its new version.
AnswerUpdated(d, a) ==
    LET C == {c \in Case : \E e \in d.evidence[c] : e.source = a} IN
    IF C = {} THEN d ELSE Bump(AddEvidence(d, Max(C), {a}), Max(C))

\* put_my_answer, while the question is published
PutAnswer(a, v) ==
    LET created == fragment[a].status = "absent"
        d == [Database EXCEPT !.fragment[a] =
                 [status |-> IF created THEN "normal" ELSE @.status, value |-> v,
                  revision |-> @.revision + 1, live |-> TRUE, accepted |-> FALSE]]
    IN  /\ IF Cardinality(DistinctValues(d)) > 1
           THEN Matching(d) \in Case /\ Commit(FindOrOpen(d, ValidAnswers(d)))
           ELSE Commit(Consensus(IF created THEN d ELSE AnswerUpdated(d, a), a))
        /\ UNCHANGED <<jobs, worker>>

-----------------------------------------------------------------------------
(***************************************************************************)
(* Operators                                                               *)
(***************************************************************************)
Quotable(S) == S # {} /\ \A s \in S : fragment[s].status # "absent"

\* create_conflict does not look for a case of the same fact.
CreateConflict(S) ==
    /\ Quotable(S) /\ Cardinality(S) >= 2
    /\ NextCase(Database) \in Case
    /\ Commit(AddEvidence(Opened(Database), NextCase(Database), S))
    /\ UNCHANGED <<jobs, worker>>

\* append_conflict_evidence, to a case of whatever status
AppendEvidence(c, S) ==
    /\ Exists(Database, c) /\ Quotable(S)
    /\ Commit(Bump(AddEvidence(Database, c, S), c))
    /\ UNCHANGED <<jobs, worker>>

ReopenConflict(c) ==
    /\ conflict[c].status = "resolved"
    /\ Commit(Reopened(Database, c))
    /\ UNCHANGED <<jobs, worker>>

\* An analysis that a decision about case c may cite.
Citable(c) ==
    {a \in Analysis : /\ analysis[a].status = "succeeded" /\ analysis[a].conflict = c
                      /\ ~analysis[a].stale
                      /\ analysis[a].context.revision = conflict[c].revision}

Decided(case) ==
    [case EXCEPT !.status = "resolved", !.resolution = "decision", !.revision = @ + 1]
Accepted(f) == [f EXCEPT !.status = "resolved", !.accepted = TRUE, !.revision = @ + 1]

\* decide_conflict: every current row is disposed of, some of them are accepted.  The
\* revisions of the case and of the fact are those the operator has seen.
Decide(c, accepted, status) ==
    LET rows == Current(evidence[c])
        sources(E) == {e.source : e \in E}
    IN  /\ conflict[c].status \notin {"absent", "resolved"}
        /\ accepted # {} /\ accepted \subseteq rows
        /\ Commit([Database EXCEPT
               !.conflict[c] = Decided(conflict[c]),
               !.fragment = [s \in Source |->
                   IF s \in sources(accepted) THEN Accepted(fragment[s])
                   ELSE IF s \in sources(rows) THEN Normal(fragment[s])
                   ELSE fragment[s]],
               !.fact = [status |-> status, conflict |-> c, accepted |-> Ids(accepted)]])
        /\ UNCHANGED <<jobs, worker>>

\* conflict_window_hours have gone by.
WindowPasses(c) ==
    /\ conflict[c].recent
    /\ NextCase(Database) \in Case  \* bound: it matters for a next case only
    /\ conflict' = [conflict EXCEPT ![c].recent = FALSE]
    /\ UNCHANGED <<fragment, evidence, fact, analysis, jobs, worker, operations>>

-----------------------------------------------------------------------------
(***************************************************************************)
(* Analyses                                                                *)
(***************************************************************************)
ContextOf(c) == [status |-> conflict[c].status, revision |-> conflict[c].revision,
                 ids |-> Ids(Current(evidence[c]))]

Answered(c) == {a \in Analysis : /\ analysis[a].status = "succeeded" /\ ~analysis[a].stale
                                 /\ analysis[a].conflict = c /\ analysis[a].context = ContextOf(c)}

\* enqueue_conflict_analysis when the same question has been answered: nothing is asked.
ReuseAnalysis(c) ==
    /\ Exists(Database, c) /\ Current(evidence[c]) # {}
    /\ Answered(c) # {}
    /\ Operation
    /\ conflict' = [conflict EXCEPT ![c].status = "analysis_ready"]
    /\ UNCHANGED <<fragment, evidence, fact, analysis, jobs, worker>>

\* enqueue_conflict_analysis otherwise.  The status of the case is overwritten, not read.
RequestAnalysis(c, a) ==
    /\ Exists(Database, c) /\ Current(evidence[c]) # {}
    /\ Answered(c) = {}
    /\ analysis[a] = NoAnalysis
    /\ Operation
    /\ conflict' = [conflict EXCEPT ![c].status = "analyzing"]
    /\ analysis' = [analysis EXCEPT ![a] = [status |-> "queued", stale |-> FALSE,
                                            conflict |-> c, context |-> ContextOf(c)]]
    /\ jobs' = [jobs EXCEPT ![a] = 1]
    /\ UNCHANGED <<fragment, evidence, fact, worker>>

\* retry_analysis adds a job, whatever becomes of the one that failed.
RetryAnalysis(a) ==
    /\ analysis[a].status = "failed"
    /\ jobs[a] < MaxJobs
    /\ Operation
    /\ analysis' = [analysis EXCEPT ![a].status = "queued", ![a].stale = FALSE]
    /\ jobs' = [jobs EXCEPT ![a] = @ + 1]
    /\ UNCHANGED <<fragment, conflict, evidence, fact, worker>>

\* A job is claimed and process_analysis marks the analysis: a succeeded one, too.
StartAnalysis(a) ==
    /\ worker = Nobody /\ jobs[a] > 0
    /\ worker' = a
    /\ analysis' = [analysis EXCEPT ![a].status = "running"]
    /\ UNCHANGED <<fragment, conflict, evidence, fact, jobs, operations>>

\* The execution is over, and the job with it, unless it is executed again: it failed and has
\* attempts left, or was lost before _finish_job (JobQueue has the detail).
ExecutionEnds ==
    /\ worker' = Nobody
    /\ \E ended \in BOOLEAN : jobs' = IF ended THEN [jobs EXCEPT ![worker] = @ - 1] ELSE jobs

AfterAnalysis(c, ready) ==
    conflict' = [conflict EXCEPT ![c].status =
        IF ready THEN "analysis_ready" ELSE IF @ = "analyzing" THEN "open" ELSE @]

\* Variant: a case that was analysed is ready, whatever has happened to it meanwhile.
CompleteUnchecked ==
    LET a == analysis[worker] IN
    /\ worker # Nobody
    /\ ExecutionEnds
    /\ analysis' = [analysis EXCEPT ![worker].status = "succeeded"]
    /\ AfterAnalysis(a.conflict, ~a.stale)
    /\ UNCHANGED <<fragment, evidence, fact, operations>>

\* _complete_async_analysis
CompleteAnalysis ==
    LET a == analysis[worker]
        stale == a.stale \/ conflict[a.conflict].revision # a.context.revision
    IN  /\ worker # Nobody
        /\ ExecutionEnds
        /\ analysis' = [analysis EXCEPT ![worker] = [a EXCEPT !.status = "succeeded", !.stale = stale]]
        /\ AfterAnalysis(a.conflict, ~stale)
        /\ UNCHANGED <<fragment, evidence, fact, operations>>

\* Variant: the case is left waiting.
FailSilently ==
    /\ worker # Nobody
    /\ ExecutionEnds
    /\ analysis' = [analysis EXCEPT ![worker].status = "failed"]
    /\ UNCHANGED <<fragment, conflict, evidence, fact, operations>>

\* _fail_async_analysis
FailAnalysis ==
    /\ worker # Nobody
    /\ ExecutionEnds
    /\ analysis' = [analysis EXCEPT ![worker].status = "failed"]
    /\ AfterAnalysis(analysis[worker].conflict, FALSE)
    /\ UNCHANGED <<fragment, evidence, fact, operations>>

\* The process dies while the model is called.
ExecutionLost ==
    /\ worker # Nobody
    /\ worker' = Nobody
    /\ UNCHANGED <<fragment, conflict, evidence, fact, analysis, jobs, operations>>

-----------------------------------------------------------------------------
Next ==
    \/ \E r \in Report, v \in Value \cup {Unknown} :
          PostReport(r, v) \/ \E reset \in BOOLEAN : PatchReport(r, v, reset)
    \/ \E r \in Report : WithdrawReport(r) \/ \E reset \in BOOLEAN : RestoreReport(r, reset)
    \/ \E a \in Answer, v \in Value \cup {Unknown} : PutAnswer(a, v)
    \/ \E S \in SUBSET Source : CreateConflict(S)
    \/ \E c \in Case, S \in SUBSET Source : AppendEvidence(c, S)
    \/ \E c \in Case : ReopenConflict(c) \/ ReuseAnalysis(c) \/ WindowPasses(c)
    \/ \E c \in Case, status \in {"current", "under_review"} :
          \E accepted \in SUBSET evidence[c] : Decide(c, accepted, status)
    \/ \E c \in Case, a \in Analysis : RequestAnalysis(c, a)
    \/ \E a \in Analysis : RetryAnalysis(a)
    \/ \E a \in Analysis : StartAnalysis(a)
    \/ CompleteAnalysis
    \/ FailAnalysis
    \/ ExecutionLost

Spec == Init /\ [][Next]_vars

-----------------------------------------------------------------------------
(***************************************************************************)
(* Properties                                                              *)
(***************************************************************************)
\* An analysis that a decision may cite was made of exactly the evidence the decision has to
\* dispose of: whatever changes the current evidence moves the revision of the case.
AnalysisFitsEvidence ==
    \A c \in Case : \A a \in Citable(c) : analysis[a].context.ids = Ids(Current(evidence[c]))

\* Nobody has to decide between two versions of the same source.
OneCurrentVersion ==
    \A c \in Case : \A e, f \in Current(evidence[c]) : e.source = f.source => e = f

\* No case, of whatever age, rests on what a report does not say any more.
EvidenceIsWhatReportsSay ==
    \A c \in Case : \A e \in Current(evidence[c]) :
        e.source \in Report => fragment[e.source].value = e.value

\* A fact that is current does not rest on a report that has been changed or withdrawn since,
\* unless an operator has put a newer version of the report beside it.
AcceptedEvidenceStands ==
    fact.status = "current" =>
        \A x \in fact.accepted :
            x[1] \in Report => \E e \in evidence[fact.conflict] :
                /\ e.source = x[1]
                /\ \/ e.current /\ Id(e) = x
                   \/ e.revision > x[2]

Contradict(r, t) ==
    /\ fragment[r].live /\ fragment[t].live
    /\ Definite(fragment[r].value) /\ Definite(fragment[t].value)
    /\ fragment[r].value # fragment[t].value

BeforeOperators(r, t) ==
    \E c \in Case : /\ {r, t} \subseteq {e.source : e \in Current(evidence[c])}
                    /\ conflict[c].status = "resolved" => conflict[c].resolution = "decision"

\* Two reports that contradict each other, and of which neither has been accepted by a decision,
\* are before the operators, or have been.
OpenContradictionIsSeen ==
    \A r, t \in {s \in Report : ~fragment[s].accepted} : Contradict(r, t) => BeforeOperators(r, t)

\* A case is not left "analyzing" with nobody to end it.
AnalyzingIsWorkedOn ==
    \A c \in Case : conflict[c].status = "analyzing" =>
        \E a \in Analysis : /\ analysis[a] # NoAnalysis /\ analysis[a].conflict = c
                            /\ analysis[a].status \in {"queued", "running"}
                            /\ jobs[a] > 0

\* An analysis that comes too late does not take a case out of "resolved".
LateAnalysisIsHarmless ==
    [][\A c \in Case : conflict[c].status = "resolved" /\ conflict'[c].status # "resolved"
          => worker' = worker]_vars

\* A decision stands until its case is reopened: meanwhile nobody can decide again.
DecidedIsResolved ==
    \A c \in Case : conflict[c].resolution = "decision" => conflict[c].status = "resolved"
=============================================================================
