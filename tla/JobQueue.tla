------------------------------ MODULE JobQueue ------------------------------
(***************************************************************************)
(* The persistent job queue (workers.py): rows of background_jobs and the  *)
(* one worker of the process, which claims a due job under a lease,        *)
(* executes it and finishes it in three separate transactions.  The        *)
(* application adds jobs and cancels them in its own transactions, at any  *)
(* point between those three.                                              *)
(***************************************************************************)
EXTENDS Naturals

CONSTANTS
    Job,          \* jobs
    MaxAttempts,  \* max_attempts of a job
    MaxLost       \* bound: executions that end without _finish_job

ASSUME BoundsAreNaturals == MaxAttempts \in Nat \ {0} /\ MaxLost \in Nat

VARIABLES
    job,    \* job[j]: the row of job j
    worker, \* where the worker is, and with which job
    faults  \* executions so far that ended without _finish_job

vars == <<job, worker, faults>>

Pending == {"queued", "retry"}
Unfinished == Pending \cup {"running"}
Finished == {"succeeded", "failed", "canceled"}

\* due: it waits and run_after has come; lost: how many of the faults it suffered (history).
BackgroundJob ==
    [status : {"absent"} \cup Unfinished \cup Finished, attempts : 0..(MaxAttempts + MaxLost),
     due : BOOLEAN, lease : {"none", "held", "expired"}, lost : 0..MaxLost]

\* "claimed": between _claim_job and the reading of the row; "loaded": the handler of the
\* job type runs; "done" and "error": it has ended.
Worker == [at : {"claimed", "loaded", "done", "error"}, job : Job]
Idle == [at |-> "idle"]

\* A running job has a lease, so that it can be claimed again when its worker is gone; no
\* other row has one.
TypeOK ==
    /\ job \in [Job -> BackgroundJob]
    /\ worker \in Worker \cup {Idle}
    /\ faults \in 0..MaxLost
    /\ \A j \in Job : /\ job[j].lease # "none" <=> job[j].status = "running"
                      /\ job[j].due => job[j].status \in Pending

Absent == [status |-> "absent", attempts |-> 0, due |-> FALSE, lease |-> "none", lost |-> 0]

Init ==
    /\ job = [j \in Job |-> Absent]
    /\ worker = Idle
    /\ faults = 0

-----------------------------------------------------------------------------
(***************************************************************************)
(* The application                                                         *)
(***************************************************************************)
Queued == [Absent EXCEPT !.status = "queued"]

CanCancel(j) == job[j].status \in Unfinished

\* The rows once the jobs of cancel are canceled and those of add inserted.
Rescheduled(cancel, add) ==
    [j \in Job |-> IF j \in cancel /\ CanCancel(j)
                   THEN [job[j] EXCEPT !.status = "canceled", !.due = FALSE, !.lease = "none"]
                   ELSE IF j \in add /\ job[j] = Absent THEN Queued ELSE job[j]]

Schedule(cancel, add) ==
    /\ job' = Rescheduled(cancel, add)
    /\ UNCHANGED <<worker, faults>>

\* Time passes: run_after comes, a lease runs out (nothing renews it).
BecomeDue(j) ==
    /\ job[j].status \in Pending /\ ~job[j].due
    /\ job' = [job EXCEPT ![j].due = TRUE]
    /\ UNCHANGED <<worker, faults>>

LeaseExpires(j) ==
    /\ job[j].status = "running" /\ job[j].lease = "held"
    /\ job' = [job EXCEPT ![j].lease = "expired"]
    /\ UNCHANGED <<worker, faults>>

-----------------------------------------------------------------------------
(***************************************************************************)
(* The worker                                                              *)
(***************************************************************************)
\* Variant: a running job is never taken over.
ClaimablePending(j) == job[j].status \in Pending /\ job[j].due

Claimable(j) ==
    \/ job[j].status \in Pending /\ job[j].due
    \/ job[j].status = "running" /\ job[j].lease = "expired"

\* The attempt is counted here and not compared with max_attempts.
Claim(j) ==
    /\ worker = Idle
    /\ Claimable(j)
    /\ job' = [job EXCEPT ![j].status = "running", ![j].attempts = @ + 1,
                          ![j].due = FALSE, ![j].lease = "held"]
    /\ worker' = [at |-> "claimed", job |-> j]
    /\ UNCHANGED faults

\* _execute_job reads the row again: it may have been canceled.
Load ==
    /\ worker.at = "claimed"
    /\ worker' = IF job[worker.job].status = "running" THEN [worker EXCEPT !.at = "loaded"]
                 ELSE Idle
    /\ UNCHANGED <<job, faults>>

\* The handler of the job type returns or raises.
Handled(at) ==
    /\ worker.at = "loaded"
    /\ worker' = [worker EXCEPT !.at = at]
    /\ UNCHANGED <<job, faults>>

\* Variant: one attempt too many.
AfterErrorOffByOne(row) ==
    IF row.attempts > MaxAttempts THEN [row EXCEPT !.status = "failed", !.lease = "none"]
    ELSE [row EXCEPT !.status = "retry", !.lease = "none"]

\* A retry is due after 1, 5 or 30 seconds.
AfterError(row) ==
    IF row.attempts >= MaxAttempts THEN [row EXCEPT !.status = "failed", !.lease = "none"]
    ELSE [row EXCEPT !.status = "retry", !.lease = "none"]

\* Variant: the lease of a job is left in its row.
AfterSuccessLeased(row) == [row EXCEPT !.status = "succeeded"]

AfterSuccess(row) ==
    [row EXCEPT !.status = "succeeded", !.lease = "none"]

\* Variant: _finish_job does not look at the status.
FinishAnyStatus ==
    /\ worker.at \in {"done", "error"}
    /\ job' = [job EXCEPT ![worker.job] =
                 IF worker.at = "done" THEN AfterSuccess(@) ELSE AfterError(@)]
    /\ worker' = Idle
    /\ UNCHANGED faults

\* _finish_job leaves a row alone that is no longer running.
Finish ==
    /\ worker.at \in {"done", "error"}
    /\ job' = [job EXCEPT ![worker.job] =
                 IF @.status # "running" THEN @
                 ELSE IF worker.at = "done" THEN AfterSuccess(@) ELSE AfterError(@)]
    /\ worker' = Idle
    /\ UNCHANGED faults

\* The execution ends without _finish_job: the process dies, the runtime is stopped, or
\* a transaction of the worker itself raises and the job loop goes on.
Abandon ==
    /\ worker # Idle
    /\ faults < MaxLost
    /\ job' = [job EXCEPT ![worker.job].lost =
                 IF job[worker.job].status = "running" THEN @ + 1 ELSE @]
    /\ worker' = Idle
    /\ faults' = faults + 1

WorkerStep ==
    \/ \E j \in Job : Claim(j)
    \/ Load
    \/ \E at \in {"done", "error"} : Handled(at)
    \/ Finish

Next ==
    \/ \E cancel, add \in SUBSET Job : Schedule(cancel, add)
    \/ \E j \in Job : BecomeDue(j)
    \/ \E j \in Job : LeaseExpires(j)
    \/ WorkerStep
    \/ Abandon

Spec == Init /\ [][Next]_vars

\* The job loop never ends while the process lives, and time passes.
FairSpec ==
    /\ Spec
    /\ WF_vars(WorkerStep)
    /\ \A j \in Job : WF_vars(BecomeDue(j)) /\ WF_vars(LeaseExpires(j))

-----------------------------------------------------------------------------
(***************************************************************************)
(* Properties                                                              *)
(***************************************************************************)
\* Attempts are only compared with max_attempts after an error, so a job can be executed
\* more often than that, but only once more for every execution that was lost.
AttemptsAreBounded == \A j \in Job : job[j].attempts <= MaxAttempts + job[j].lost

\* What has ended stays ended: a worker that was executing a job when it was canceled
\* must not bring it back when it finishes or fails.
FinishedStaysFinished ==
    [][\A j \in Job : job[j].status \in Finished => job'[j].status = job[j].status]_vars

\* Every job ends, whatever is lost on the way: no row stays queued, waiting for a retry,
\* or running without a worker.
EveryJobEnds ==
    \A j \in Job : (job[j].status \in Unfinished) ~> (job[j].status \in Finished)
=============================================================================
