--------------------------- MODULE JobQueueProofs ---------------------------
(***************************************************************************)
(* Theorems about JobQueue, for every set of jobs and all bounds.          *)
(***************************************************************************)
EXTENDS JobQueue, TLAPS

InHand(j) == worker # Idle /\ worker.job = j

\* A job that waits has attempts left; one that runs without a worker has been lost more
\* often than it has used attempts beyond max_attempts, so it may be claimed once more.
RoomForAttempt(j) ==
    /\ job[j].status \in Pending => job[j].attempts < MaxAttempts
    /\ job[j].status = "running" /\ ~InHand(j) => job[j].attempts < MaxAttempts + job[j].lost

IInv ==
    /\ TypeOK
    /\ AttemptsAreBounded
    /\ \A j \in Job : RoomForAttempt(j) /\ job[j].lost <= faults

\* What a step has to establish: the invariant for the one row it writes.
LEMMA OneRow ==
    ASSUME IInv, NEW j \in Job, NEW row \in BackgroundJob,
           job' = [job EXCEPT ![j] = row],
           worker' \in Worker \cup {Idle},
           faults' \in 0..MaxLost, faults <= faults', row.lost <= faults',
           row.due => row.status \in Pending,
           \A k \in Job \ {j} : InHand(k) => InHand(k)',
           row.lease # "none" <=> row.status = "running",
           row.attempts <= MaxAttempts + row.lost,
           row.status \in Pending => row.attempts < MaxAttempts,
           row.status = "running" /\ ~InHand(j)' => row.attempts < MaxAttempts + row.lost
    PROVE  IInv'
<1>1. job'[j] = row /\ \A k \in Job \ {j} : job'[k] = job[k]
    BY DEF IInv, TypeOK
<1>2. TypeOK'
    BY <1>1 DEF IInv, TypeOK
<1>3. AttemptsAreBounded'
    BY <1>1 DEF IInv, AttemptsAreBounded
<1>4. ASSUME NEW k \in Job PROVE RoomForAttempt(k)' /\ job'[k].lost <= faults'
  <2>1. CASE k = j
      BY <1>1, <2>1 DEF RoomForAttempt
  <2>2. CASE k # j
    <3>1. job'[k] = job[k] /\ job[k].lost \in Nat /\ job[k].lost <= faults
          /\ faults \in Nat /\ faults' \in Nat
        BY <1>1, <2>2, BoundsAreNaturals DEF IInv, TypeOK, BackgroundJob
    <3> QED
        BY <2>2, <3>1 DEF IInv, RoomForAttempt
  <2> QED
      BY <2>1, <2>2
<1> QED
    BY <1>2, <1>3, <1>4 DEF IInv

\* Most steps leave the faults alone.
LEMMA NoFault ==
    ASSUME IInv, faults' = faults
    PROVE  /\ faults' \in 0..MaxLost /\ faults <= faults'
           /\ \A j \in Job : job[j].lost <= faults'
BY BoundsAreNaturals DEF IInv, TypeOK

LEMMA InitInv == Init => IInv
BY BoundsAreNaturals
   DEF Init, IInv, TypeOK, AttemptsAreBounded, RoomForAttempt, Absent, BackgroundJob, Idle,
       Pending, Unfinished, Finished

LEMMA ScheduleInv ==
    ASSUME IInv, NEW cancel \in SUBSET Job, NEW add \in SUBSET Job, Schedule(cancel, add)
    PROVE  IInv'
<1>1. ASSUME NEW j \in Job
      PROVE  \/ job'[j] = job[j]
             \/ /\ job[j].status \in Unfinished
                /\ job'[j] = [job[j] EXCEPT !.status = "canceled", !.due = FALSE,
                                            !.lease = "none"]
             \/ job'[j] = Queued
    BY DEF Schedule, Rescheduled, CanCancel
<1>2. ASSUME NEW j \in Job
      PROVE  /\ job'[j] \in BackgroundJob
             /\ job'[j].lease # "none" <=> job'[j].status = "running"
             /\ job'[j].due => job'[j].status \in Pending
             /\ job'[j].attempts <= MaxAttempts + job'[j].lost
             /\ RoomForAttempt(j)'
             /\ job'[j].lost <= faults'
  <2>0. /\ job[j] \in BackgroundJob /\ job[j].attempts <= MaxAttempts + job[j].lost
        /\ worker' = worker /\ faults' = faults
        /\ job[j].lost <= faults /\ faults \in 0..MaxLost
      BY DEF IInv, TypeOK, AttemptsAreBounded, Schedule
  <2>1. CASE job'[j] = job[j]
      BY <2>0, <2>1 DEF IInv, TypeOK, RoomForAttempt, InHand
  <2>2. CASE job'[j] = [job[j] EXCEPT !.status = "canceled", !.due = FALSE, !.lease = "none"]
      BY <2>0, <2>2 DEF RoomForAttempt, BackgroundJob, Pending, Finished
  <2>3. CASE job'[j] = Queued
    <3>1. /\ job'[j].status = "queued" /\ job'[j].attempts = 0 /\ job'[j].lost = 0
          /\ job'[j].lease = "none" /\ job'[j].due = FALSE
          /\ job'[j] = [status |-> "queued", attempts |-> 0, due |-> FALSE,
                        lease |-> "none", lost |-> 0]
        BY <2>3 DEF Queued, Absent
    <3>2. job'[j] \in BackgroundJob
        BY <3>1, BoundsAreNaturals DEF BackgroundJob, Unfinished, Pending
    <3> QED
        BY <2>0, <3>1, <3>2, BoundsAreNaturals DEF RoomForAttempt, Pending
  <2> QED
      BY <1>1, <2>1, <2>2, <2>3
<1>3. /\ job' \in [Job -> BackgroundJob] /\ worker' \in Worker \cup {Idle}
      /\ faults' \in 0..MaxLost
    BY <1>2 DEF IInv, TypeOK, Schedule, Rescheduled
<1> QED
    BY <1>2, <1>3 DEF IInv, TypeOK, AttemptsAreBounded

LEMMA TimePassesInv ==
    ASSUME IInv, NEW j \in Job, BecomeDue(j) \/ LeaseExpires(j)
    PROVE  IInv'
<1>1. CASE BecomeDue(j)
  <2>1. /\ job' = [job EXCEPT ![j] = [job[j] EXCEPT !.due = TRUE]] /\ worker' = worker
        /\ faults' = faults
      BY <1>1 DEF BecomeDue
  <2>2. job[j] \in BackgroundJob /\ worker \in Worker \cup {Idle}
      BY DEF IInv, TypeOK
  <2>3. /\ job[j].lease # "none" <=> job[j].status = "running"
        /\ job[j].attempts <= MaxAttempts + job[j].lost
        /\ RoomForAttempt(j)
        /\ faults' \in 0..MaxLost /\ faults <= faults' /\ job[j].lost <= faults'
      BY <2>1, NoFault DEF IInv, TypeOK, AttemptsAreBounded
  <2>4. [job[j] EXCEPT !.due = TRUE] \in BackgroundJob
      BY <2>2 DEF BackgroundJob
  <2>5. \A k \in Job : InHand(k)' <=> InHand(k)
      BY <2>1 DEF InHand
  <2> DEFINE row == [job[j] EXCEPT !.due = TRUE]
  <2>6. /\ row.status = job[j].status /\ row.lease = job[j].lease
        /\ row.attempts = job[j].attempts /\ row.lost = job[j].lost
        /\ row.status \in Pending
      BY <2>2, <1>1 DEF BackgroundJob, BecomeDue
  <2> HIDE DEF row
  <2> QED
      BY <2>1, <2>2, <2>3, <2>4, <2>5, <2>6, OneRow DEF RoomForAttempt, row
<1>2. CASE LeaseExpires(j)
  <2>1. /\ job' = [job EXCEPT ![j] = [job[j] EXCEPT !.lease = "expired"]] /\ worker' = worker
        /\ faults' = faults
      BY <1>2 DEF LeaseExpires
  <2> QED
      BY <2>1, <1>2, OneRow
         DEF LeaseExpires, IInv, TypeOK, AttemptsAreBounded, RoomForAttempt, InHand, BackgroundJob
<1> QED
    BY <1>1, <1>2

LEMMA ClaimInv ==
    ASSUME IInv, NEW j \in Job, Claim(j)
    PROVE  IInv'
<1> DEFINE row == [job[j] EXCEPT !.status = "running", !.attempts = @ + 1, !.due = FALSE,
                                 !.lease = "held"]
<1>1. job' = [job EXCEPT ![j] = row] /\ worker' = [at |-> "claimed", job |-> j]
      /\ faults' = faults
    BY DEF Claim
<1>2. job[j] \in BackgroundJob /\ ~InHand(j) /\ \A k \in Job : ~InHand(k)
    BY DEF Claim, InHand, IInv, TypeOK
<1>3. job[j].attempts + 1 <= MaxAttempts + job[j].lost
    BY <1>2, BoundsAreNaturals
       DEF Claim, Claimable, IInv, RoomForAttempt, BackgroundJob
<1>4. row \in BackgroundJob
  <2>1. /\ job[j].attempts \in Nat /\ job[j].lost \in 0..MaxLost
        /\ job[j].attempts + 1 \in 0..(MaxAttempts + MaxLost)
      BY <1>2, <1>3, BoundsAreNaturals DEF BackgroundJob
  <2> QED
      BY <1>2, <2>1 DEF BackgroundJob, Unfinished
<1>5. worker' \in Worker \cup {Idle} /\ InHand(j)'
    BY <1>1 DEF Worker, InHand, Idle
<1>6. /\ row.lease = "held" /\ row.status = "running" /\ row.attempts = job[j].attempts + 1
      /\ row.lost = job[j].lost /\ ~row.due
    BY <1>2 DEF BackgroundJob
<1>7. row.status \notin Pending
    BY <1>6 DEF Pending
<1>8. faults' \in 0..MaxLost /\ faults <= faults' /\ row.lost <= faults'
    BY <1>1, <1>6, NoFault
<1> HIDE DEF row
<1> QED
    BY <1>1, <1>2, <1>3, <1>4, <1>5, <1>6, <1>7, <1>8, OneRow

LEMMA WorkerMovesInv ==
    ASSUME IInv, Load \/ \E at \in {"done", "error"} : Handled(at)
    PROVE  IInv'
<1>1. job' = job /\ faults' = faults
    BY DEF Load, Handled
<1>2. worker' \in Worker \cup {Idle}
    BY DEF IInv, TypeOK, Load, Handled, Worker, Idle
<1>3. ASSUME NEW j \in Job, InHand(j), job[j].status = "running" PROVE InHand(j)'
    BY <1>3 DEF IInv, TypeOK, InHand, Load, Handled, Worker, Idle
<1> QED
    BY <1>1, <1>2, <1>3 DEF IInv, TypeOK, AttemptsAreBounded, RoomForAttempt

LEMMA FinishInv ==
    ASSUME IInv, Finish
    PROVE  IInv'
<1> DEFINE j == worker.job
<1>1. j \in Job /\ job[j] \in BackgroundJob /\ worker' = Idle
    BY DEF Finish, IInv, TypeOK, Worker, Idle
<1>2. \A k \in Job \ {j} : ~InHand(k)
    BY DEF InHand
<1>3. /\ job[j].attempts <= MaxAttempts + job[j].lost
      /\ faults' \in 0..MaxLost /\ faults <= faults' /\ job[j].lost <= faults'
      /\ job[j].due => job[j].status \in Pending
    BY <1>1, NoFault DEF Finish, IInv, TypeOK, AttemptsAreBounded
<1>4. CASE job[j].status # "running"
  <2>1. job' = [job EXCEPT ![j] = job[j]]
      BY <1>4 DEF Finish
  <2> QED
      BY <2>1, <1>1, <1>2, <1>3, <1>4, OneRow DEF IInv, TypeOK, RoomForAttempt
<1>5. CASE job[j].status = "running" /\ worker.at = "done"
  <2> DEFINE row == AfterSuccess(job[j])
  <2>1. job' = [job EXCEPT ![j] = row]
      BY <1>5 DEF Finish
  <2>2. row \in BackgroundJob /\ row.status = "succeeded" /\ row.lease = "none"
        /\ row.attempts <= MaxAttempts + row.lost /\ row.lost = job[j].lost /\ ~row.due
      BY <1>1, <1>3, <1>5 DEF AfterSuccess, BackgroundJob, Finished, Pending
  <2> HIDE DEF row
  <2> QED
      BY <2>1, <2>2, <1>1, <1>2, <1>3, OneRow DEF Pending
<1>6. CASE job[j].status = "running" /\ worker.at = "error"
  <2> DEFINE row == AfterError(job[j])
  <2>1. job' = [job EXCEPT ![j] = row]
      BY <1>6 DEF Finish
  <2>2. /\ row \in BackgroundJob /\ row.lease = "none" /\ row.attempts <= MaxAttempts + row.lost
        /\ row.lost = job[j].lost /\ ~row.due
      BY <1>1, <1>3, <1>6 DEF AfterError, BackgroundJob, Finished, Unfinished, Pending
  <2>3. row.status # "running" /\ (row.status \in Pending => row.attempts < MaxAttempts)
      BY <1>1, BoundsAreNaturals DEF AfterError, BackgroundJob, Pending
  <2> HIDE DEF row
  <2> QED
      BY <2>1, <2>2, <2>3, <1>1, <1>2, <1>3, OneRow
<1> QED
    BY <1>4, <1>5, <1>6 DEF Finish

LEMMA AbandonInv ==
    ASSUME IInv, Abandon
    PROVE  IInv'
<1> DEFINE j == worker.job
           row == [job[j] EXCEPT !.lost = IF job[j].status = "running" THEN @ + 1 ELSE @]
<1>1. j \in Job /\ job[j] \in BackgroundJob /\ worker' = Idle /\ faults' = faults + 1
    BY DEF Abandon, IInv, TypeOK, Worker, Idle
<1>2. \A k \in Job \ {j} : ~InHand(k)
    BY DEF InHand
<1>3. job' = [job EXCEPT ![j] = row]
    BY DEF Abandon
<1>4. /\ row.status = job[j].status /\ row.lease = job[j].lease
      /\ row.attempts = job[j].attempts /\ row.due = job[j].due
      /\ row.lost = IF job[j].status = "running" THEN job[j].lost + 1 ELSE job[j].lost
    BY <1>1 DEF BackgroundJob
<1>5. /\ job[j].attempts <= MaxAttempts + job[j].lost
      /\ job[j].lost <= faults /\ faults \in 0..MaxLost /\ faults < MaxLost
    BY <1>1 DEF IInv, TypeOK, AttemptsAreBounded, Abandon
<1>6. row \in BackgroundJob
    BY <1>1, <1>5, BoundsAreNaturals DEF BackgroundJob
<1>7. job[j].lost \in Nat /\ job[j].attempts \in Nat
    BY <1>1, BoundsAreNaturals DEF BackgroundJob
<1> HIDE DEF row
<1>8. /\ row.attempts <= MaxAttempts + row.lost
      /\ row.status = "running" => row.attempts < MaxAttempts + row.lost
      /\ faults' \in 0..MaxLost /\ faults <= faults' /\ row.lost <= faults'
    BY <1>1, <1>4, <1>5, <1>7, BoundsAreNaturals
<1>9. /\ row.status \in Pending => row.attempts < MaxAttempts
      /\ row.lease # "none" <=> row.status = "running"
      /\ row.due => row.status \in Pending
    BY <1>1, <1>4 DEF IInv, TypeOK, RoomForAttempt
<1> QED
    BY <1>1, <1>2, <1>3, <1>6, <1>8, <1>9, OneRow

LEMMA NextInv == IInv /\ [Next]_vars => IInv'
<1> SUFFICES ASSUME IInv, [Next]_vars PROVE IInv'
    OBVIOUS
<1>1. CASE \E cancel, add \in SUBSET Job : Schedule(cancel, add)
    BY <1>1, ScheduleInv
<1>2. CASE \E j \in Job : BecomeDue(j) \/ LeaseExpires(j)
    BY <1>2, TimePassesInv
<1>3. CASE WorkerStep
    BY <1>3, ClaimInv, WorkerMovesInv, FinishInv DEF WorkerStep
<1>4. CASE Abandon
    BY <1>4, AbandonInv
<1>5. CASE UNCHANGED vars
    BY <1>5 DEF vars, IInv, TypeOK, AttemptsAreBounded, RoomForAttempt, InHand
<1> QED
    BY <1>1, <1>2, <1>3, <1>4, <1>5 DEF Next

LEMMA IInvariant == Spec => []IInv
<1> QED
    BY InitInv, NextInv, PTL DEF Spec

-----------------------------------------------------------------------------
\* The rows of background_jobs and the worker keep their types, and a job has a lease just
\* while it is running: no running row is left that nobody may take over.
THEOREM QueueTypeCorrect == Spec => []TypeOK
<1>1. IInv => TypeOK
    BY DEF IInv
<1> QED
    BY <1>1, IInvariant, PTL

\* _claim_job does not look at max_attempts; a job is executed at most once more than that
\* for every execution that was lost to a crash, a stop or a failing transaction.
THEOREM AttemptsBounded == Spec => []AttemptsAreBounded
<1>1. IInv => AttemptsAreBounded
    BY DEF IInv
<1> QED
    BY <1>1, IInvariant, PTL

\* No step of the application or of a worker that still has the job in hand changes the
\* status of a job that has ended.
THEOREM FinishedStays == Spec => FinishedStaysFinished
<1>1. ASSUME IInv, [Next]_vars
      PROVE  [\A j \in Job : job[j].status \in Finished => job'[j].status = job[j].status]_vars
  <2> SUFFICES ASSUME Next, NEW j \in Job, job[j].status \in Finished
               PROVE  job'[j].status = job[j].status
      BY <1>1
  <2>0. job \in [Job -> BackgroundJob] /\ job[j].status \notin Unfinished
        /\ job[j].status # "running" /\ job[j] # Absent
      BY <1>1 DEF IInv, TypeOK, Finished, Unfinished, Pending, Absent
  <2>1. CASE \E cancel, add \in SUBSET Job : Schedule(cancel, add)
      BY <2>0, <2>1 DEF Schedule, Rescheduled, CanCancel
  <2>2. CASE \E k \in Job : BecomeDue(k) \/ LeaseExpires(k)
      BY <2>0, <2>2 DEF BecomeDue, LeaseExpires, BackgroundJob
  <2>3. CASE \E k \in Job : Claim(k)
      BY <2>0, <2>3 DEF Claim, Claimable, Unfinished
  <2>4. CASE Load \/ \E at \in {"done", "error"} : Handled(at)
      BY <2>4 DEF Load, Handled
  <2>5. CASE Finish
      BY <2>0, <2>5 DEF Finish
  <2>6. CASE Abandon
      BY <2>0, <2>6 DEF Abandon, BackgroundJob
  <2> QED
      BY <2>1, <2>2, <2>3, <2>4, <2>5, <2>6 DEF Next, WorkerStep
<1> QED
    BY <1>1, IInvariant, PTL DEF Spec, FinishedStaysFinished
=============================================================================
