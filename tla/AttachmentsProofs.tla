------------------------- MODULE AttachmentsProofs --------------------------
(***************************************************************************)
(* Theorems about Attachments, for every value of its constants.           *)
(***************************************************************************)
EXTENDS Attachments, SequenceTheorems, TLAPS

Executing == worker.stage \in {"check", "sanitize", "fetch", "ready", "failing"}

\* Two rows that differ only in what processing writes, and in what it does not.
SameOwner(r, s) ==
    /\ r.uploaded = s.uploaded /\ r.anonymised = s.anonymised
    /\ r.report = s.report /\ r.answer = s.answer

SameProgress(r, s) ==
    /\ r.uploaded = s.uploaded /\ r.anonymised = s.anonymised
    /\ r.metadata = s.metadata /\ r.malware = s.malware /\ r.rejection = s.rejection

\* The job that is executed exists, and has not ended.
JobInHand ==
    worker # Nothing => worker.job \in DOMAIN job /\ job[worker.job].status = "unfinished"

RoomForJob == request # Nothing => Len(job) < MaxJobs

OwnerIsKept == Executing => SameOwner(worker.new, worker.loaded)

\* A content request that has the file to itself, and what becomes of the file then.
Quiet(a) ==
    /\ ~row[a].anonymised
    /\ \A p, q \in Writers(a) : p = q
    /\ \A p \in Writers(a) : /\ put[p].linked /\ put[p].alone
                             /\ put[p].stage = "commit" => file[a] = "declared"
    /\ row[a].uploaded => file[a] = "declared" /\ Writers(a) = {}
    /\ row[a].sanitized => row[a].uploaded /\ a \in Image /\ image[a] = "declared"

Undisturbed == ~expired => \A a \in Local \ overlapped : Quiet(a)

\* An execution that may mark the image of such a file as made has made it from that file.
ImageIsDeclared ==
    Executing /\ Subject \in Local \ overlapped /\ ~expired =>
        /\ row[Subject].uploaded
        /\ worker.new.sanitized => Subject \in Image /\ image[Subject] = "declared"

\* A remote attachment that is executed: unless it was completed once more, or its row is as
\* it was loaded, there is nothing uploaded.
RemoteIsCurrent ==
    Executing /\ Subject \in Remote =>
        /\ worker.stage \in {"fetch", "ready", "failing"}
        /\ worker.loaded.uploaded /\ ~worker.loaded.anonymised
        /\ worker.stage = "ready" => Ready(worker.new) /\ worker.new.rejection = "none"
        /\ \/ Unfinished(Subject) \ {worker.job} # {}
           \/ ~row[Subject].uploaded
           \/ SameProgress(row[Subject], worker.loaded)

\* The jobs for a that have not succeeded, and are not about to.
Remaining(a) ==
    {j \in DOMAIN job : /\ job[j].attachment = a /\ job[j].status # "succeeded"
                        /\ worker.stage = "succeeded" => worker.job # j}

ProcessingRemains ==
    \A a \in Remote : AttachmentState(a) = "processing" => Remaining(a) # {}

TypeInv == TypeOK /\ JobInHand /\ RoomForJob

IInv ==
    /\ TypeInv
    /\ OwnerIsKept
    /\ BoundOnce
    /\ Undisturbed
    /\ ImageIsDeclared
    /\ RemoteIsCurrent
    /\ ProcessingRemains

-----------------------------------------------------------------------------
(***************************************************************************)
(* Rows and executions                                                     *)
(***************************************************************************)
\* A write that has changed no type is a row again, column by column.
LEMMA WrittenColumns ==
    ASSUME NEW a \in Attachment, row \in [Attachment -> Row], NEW loaded \in Row, NEW new \in Row
    PROVE  /\ Written(a, loaded, new) \in Row
           /\ \A c \in {"uploaded", "anonymised", "sanitized", "metadata", "malware",
                        "rejection", "report", "answer"} :
                 Written(a, loaded, new)[c] = IF new[c] = loaded[c] THEN row[a][c] ELSE new[c]
<1> DEFINE Columns == {"uploaded", "anonymised", "sanitized", "metadata", "malware",
                       "rejection", "report", "answer"}
<1>1. DOMAIN new = Columns
    BY DEF Row
<1>2. Written(a, loaded, new) = [c \in Columns |-> IF new[c] = loaded[c] THEN row[a][c] ELSE new[c]]
    BY <1>1 DEF Written
<1>3. Written(a, loaded, new) \in Row
    BY <1>2 DEF Row
<1> QED
    BY <1>2, <1>3

\* The stage of the worker says what it holds.
LEMMA WorkerStages ==
    ASSUME TypeOK
    PROVE  /\ Executing => worker \in Execution /\ worker # Nothing
           /\ worker.stage \in {"succeeded", "failed"} => worker \in Ended /\ worker # Nothing
           /\ worker.stage = "none" => worker = Nothing
           /\ Executing \/ worker.stage \in {"succeeded", "failed", "none"}
BY DEF TypeOK, Execution, Ended, Nothing, Executing

LEMMA TypeInit == Init => TypeInv
<1> SUFFICES ASSUME Init PROVE TypeInv
    OBVIOUS
<1>1. row \in [Attachment -> Row]
    BY DEF Init, Row
<1>2. job \in Seq(Job) /\ Len(job) = 0
    BY DEF Init
<1>3. TypeOK
  <2>1. /\ put \in [Put -> ContentRequest \cup {Nothing}]
        /\ request = Nothing /\ worker = Nothing
      BY DEF Init
  <2>2. file \in [Local -> Content] /\ image \in [Local -> Content]
      BY DEF Init, Content
  <2>3. puts \in 0..MaxPuts /\ Len(job) <= MaxJobs
      BY <1>2, BoundsAreNaturals DEF Init
  <2>4. overlapped \subseteq Local /\ expired \in BOOLEAN
      BY DEF Init
  <2> QED
      BY <1>1, <1>2, <2>1, <2>2, <2>3, <2>4 DEF TypeOK
<1> QED
    BY <1>3 DEF Init, TypeInv, JobInHand, RoomForJob

\* A step that leaves the worker, the request and the jobs alone.
LEMMA TypeOfOthers ==
    ASSUME TypeInv, TypeOK', UNCHANGED <<job, worker, request>>
    PROVE  TypeInv'
BY DEF TypeInv, JobInHand, RoomForJob

LEMMA TypeOfPuts ==
    ASSUME TypeInv, NEW p \in Put,
           \/ \E a \in Local, body \in {"declared", "other"} : StartPut(p, a, body)
           \/ FinishPut(p) \/ RefusePut(p) \/ AbandonPut(p) \/ CommitPut(p)
    PROVE  TypeInv'
<1>1. TypeOK
    BY DEF TypeInv
<1>2. put[p] # Nothing => put[p] \in ContentRequest /\ put[p].attachment \in Local
    BY <1>1 DEF TypeOK, ContentRequest
<1>3. ASSUME NEW a \in Local, NEW body \in {"declared", "other"}, StartPut(p, a, body)
      PROVE  TypeInv'
  <2>1. put' \in [Put -> ContentRequest \cup {Nothing}]
    <3>1. ASSUME NEW q \in Put PROVE put'[q] \in ContentRequest \cup {Nothing}
      <4>1. CASE q = p
          BY <1>3, <4>1 DEF StartPut, Open, ContentRequest
      <4>2. CASE q # p /\ q \in Linked(a, p)
          BY <1>1, <1>3, <4>2 DEF StartPut, Open, ContentRequest, Linked, Writers, TypeOK
      <4>3. CASE q # p /\ q \notin Linked(a, p)
          BY <1>1, <1>3, <4>3 DEF StartPut, Open, TypeOK
      <4> QED
          BY <4>1, <4>2, <4>3
    <3>2. put' = [q \in Put |-> put'[q]]
        BY <1>3 DEF StartPut, Open
    <3> QED
        BY <3>1, <3>2
  <2>2. file' \in [Local -> Content] /\ puts' \in 0..MaxPuts /\ overlapped' \subseteq Local
      BY <1>1, <1>3, BoundsAreNaturals DEF StartPut, Open, TypeOK, Content
  <2>3. UNCHANGED <<row, image, request, job, worker, expired>>
      BY <1>3 DEF StartPut, Open
  <2>4. TypeOK'
      BY <1>1, <2>1, <2>2, <2>3 DEF TypeOK
  <2> QED
      BY <2>3, <2>4, TypeOfOthers
<1>4. CASE FinishPut(p)
  <2>1. put[p] \in ContentRequest
      BY <1>2, <1>4 DEF FinishPut, Nothing
  <2>2. put' \in [Put -> ContentRequest \cup {Nothing}] /\ file' \in [Local -> Content]
      BY <1>1, <1>4, <2>1 DEF FinishPut, TypeOK, ContentRequest, Content
  <2>3. UNCHANGED <<row, image, puts, overlapped, request, job, worker, expired>>
      BY <1>4 DEF FinishPut
  <2>4. TypeOK'
      BY <1>1, <2>2, <2>3 DEF TypeOK
  <2> QED
      BY <2>3, <2>4, TypeOfOthers
<1>5. CASE RefusePut(p)
  <2>1. ASSUME NEW q \in Put PROVE Unlinked(put[p].attachment)[q] \in ContentRequest \cup {Nothing}
    <3>1. CASE q \in Writers(put[p].attachment)
        BY <1>1, <3>1 DEF Unlinked, Writers, TypeOK, ContentRequest
    <3>2. CASE q \notin Writers(put[p].attachment)
        BY <1>1, <3>2 DEF Unlinked, TypeOK
    <3> QED
        BY <3>1, <3>2
  <2>2. put' \in [Put -> ContentRequest \cup {Nothing}]
    <3>1. Unlinked(put[p].attachment) \in [Put -> ContentRequest \cup {Nothing}]
        BY <2>1 DEF Unlinked
    <3>2. put' = [Unlinked(put[p].attachment) EXCEPT ![p] = Nothing]
        BY <1>5 DEF RefusePut
    <3> QED
        BY <3>1, <3>2
  <2>3. file' \in [Local -> Content]
      BY <1>1, <1>5 DEF RefusePut, TypeOK, Content
  <2>4. UNCHANGED <<row, image, puts, overlapped, request, job, worker, expired>>
      BY <1>5 DEF RefusePut
  <2>5. TypeOK'
      BY <1>1, <2>2, <2>3, <2>4 DEF TypeOK
  <2> QED
      BY <2>4, <2>5, TypeOfOthers
<1>6. CASE AbandonPut(p)
  <2>1. put' \in [Put -> ContentRequest \cup {Nothing}] /\ file' \in [Local -> Content]
      BY <1>1, <1>2, <1>6 DEF AbandonPut, TypeOK, Content
  <2>2. UNCHANGED <<row, image, puts, overlapped, request, job, worker, expired>>
      BY <1>6 DEF AbandonPut
  <2>3. TypeOK'
      BY <1>1, <2>1, <2>2 DEF TypeOK
  <2> QED
      BY <2>2, <2>3, TypeOfOthers
<1>7. CASE CommitPut(p)
  <2>1. put[p].attachment \in Attachment
      BY <1>2, <1>7 DEF CommitPut, Nothing, Attachment
  <2>2. put' \in [Put -> ContentRequest \cup {Nothing}] /\ row' \in [Attachment -> Row]
    <3> DEFINE r == [row[put[p].attachment] EXCEPT !.uploaded = TRUE]
    <3>1. row[put[p].attachment] \in Row
        BY <1>1, <2>1 DEF TypeOK
    <3>2. r \in Row
        BY <3>1 DEF Row
    <3>3. row' = [row EXCEPT ![put[p].attachment] = r]
        BY <1>7 DEF CommitPut
    <3> QED
        BY <1>1, <1>7, <3>2, <3>3 DEF CommitPut, TypeOK
  <2>3. UNCHANGED <<file, image, puts, overlapped, request, job, worker, expired>>
      BY <1>7 DEF CommitPut
  <2>4. TypeOK'
      BY <1>1, <2>2, <2>3 DEF TypeOK
  <2> QED
      BY <2>3, <2>4, TypeOfOthers
<1> QED
    BY <1>3, <1>4, <1>5, <1>6, <1>7

LEMMA RowsOfProcessing ==
    ASSUME NEW r \in Row
    PROVE  /\ Restarted(r) \in Row /\ Rejected(r) \in Row /\ Anonymised(r) \in Row
           /\ [r EXCEPT !.malware = "clean"] \in Row
           /\ [r EXCEPT !.malware = "clean", !.rejection = "none"] \in Row
           /\ [r EXCEPT !.metadata = "ready"] \in Row
           /\ [r EXCEPT !.sanitized = TRUE, !.metadata = "ready"] \in Row
           /\ [r EXCEPT !.metadata = "rejected", !.rejection = "reason"] \in Row
           /\ [r EXCEPT !.rejection = "none", !.metadata = "pending", !.malware = "pending"] \in Row
<1>1. Restarted(r) \in Row /\ Anonymised(r) \in Row
    BY DEF Row, Restarted, Anonymised
<1>2. Rejected(r) \in Row
    BY DEF Row, Rejected
<1>3. /\ [r EXCEPT !.malware = "clean"] \in Row
      /\ [r EXCEPT !.malware = "clean", !.rejection = "none"] \in Row
      /\ [r EXCEPT !.metadata = "ready"] \in Row
      /\ [r EXCEPT !.sanitized = TRUE, !.metadata = "ready"] \in Row
    BY DEF Row
<1>4. /\ [r EXCEPT !.metadata = "rejected", !.rejection = "reason"] \in Row
      /\ [r EXCEPT !.rejection = "none", !.metadata = "pending", !.malware = "pending"] \in Row
    BY DEF Row
<1> QED
    BY <1>1, <1>2, <1>3, <1>4

LEMMA TypeOfCompletion ==
    ASSUME TypeInv,
           (\E a \in Attachment : RequestCompletion(a)) \/ CompleteLocal \/ CompleteRemote
    PROVE  TypeInv'
<1>1. TypeOK
    BY DEF TypeInv
<1>2. ASSUME NEW a \in Attachment, RequestCompletion(a) PROVE TypeInv'
  <2>1. UNCHANGED <<row, file, image, put, puts, overlapped, job, worker, expired>>
      BY <1>2 DEF RequestCompletion
  <2>2. /\ request' \in [stage : {"complete"}, attachment : Attachment, loaded : Row]
        /\ Len(job) < MaxJobs
      BY <1>1, <1>2 DEF RequestCompletion, TypeOK
  <2> QED
      BY <1>1, <2>1, <2>2 DEF TypeOK, TypeInv, JobInHand, RoomForJob
<1>3. request # Nothing =>
        /\ request \in [stage : {"complete"}, attachment : Attachment, loaded : Row]
        /\ Len(job) < MaxJobs
    BY <1>1 DEF TypeOK, TypeInv, RoomForJob
\* Jobs are only added at the end.
<1>4. ASSUME request # Nothing, job' \in {job, WithJob(request.attachment)}, worker' = worker,
             request' = Nothing
      PROVE  /\ job' \in Seq(Job) /\ Len(job') <= MaxJobs
             /\ JobInHand' /\ RoomForJob'
  <2>1. /\ WithJob(request.attachment) \in Seq(Job)
        /\ Len(WithJob(request.attachment)) = Len(job) + 1
        /\ \A j \in DOMAIN job : /\ j \in DOMAIN WithJob(request.attachment)
                                 /\ WithJob(request.attachment)[j] = job[j]
    <3>1. [attachment |-> request.attachment, status |-> "unfinished"] \in Job
        BY <1>3, <1>4 DEF Job
    <3> QED
        BY <1>1, <3>1 DEF WithJob, TypeOK
  <2>2. job' \in Seq(Job) /\ Len(job') <= MaxJobs
      BY <1>1, <1>3, <1>4, <2>1, BoundsAreNaturals DEF TypeOK
  <2> QED
      BY <1>4, <2>1, <2>2 DEF TypeInv, JobInHand, RoomForJob
<1>5. CASE CompleteLocal
  <2>1. /\ request # Nothing /\ job' \in {job, WithJob(request.attachment)}
        /\ request' = Nothing
        /\ UNCHANGED <<row, file, image, put, puts, overlapped, worker, expired>>
      BY <1>5 DEF CompleteLocal
  <2> QED
      BY <1>1, <1>4, <2>1 DEF TypeOK, TypeInv
<1>6. CASE CompleteRemote
  <2>1. /\ request # Nothing /\ job' \in {job, WithJob(request.attachment)}
        /\ request' = Nothing
        /\ UNCHANGED <<file, image, put, puts, overlapped, worker, expired>>
      BY <1>6 DEF CompleteRemote
  <2>2. row' \in [Attachment -> Row]
    <3>1. Restarted(request.loaded) \in Row /\ request.attachment \in Attachment
        BY <1>3, <2>1, RowsOfProcessing
    <3>2. Written(request.attachment, request.loaded, Restarted(request.loaded)) \in Row
        BY <1>1, <1>3, <2>1, <3>1, WrittenColumns DEF TypeOK
    <3> QED
        BY <1>1, <1>6, <3>2 DEF CompleteRemote, TypeOK
  <2> QED
      BY <1>1, <1>4, <2>1, <2>2 DEF TypeOK, TypeInv
<1> QED
    BY <1>2, <1>5, <1>6

\* An execution that goes on.
LEMMA TypeOfContinue ==
    ASSUME TypeInv, Executing, NEW stage \in {"check", "sanitize", "fetch", "ready", "failing"},
           NEW new \in Row, Continue(stage, new), image' \in [Local -> Content]
    PROVE  TypeInv'
<1>1. TypeOK /\ worker \in Execution
    BY WorkerStages DEF TypeInv
<1>2. worker' \in Execution /\ worker'.job = worker.job /\ worker # Nothing
  <2>1. worker' = [worker EXCEPT !.stage = stage, !.new = new]
      BY DEF Continue
  <2>2. worker' \in Execution /\ worker'.job = worker.job
      BY <1>1, <2>1 DEF Execution
  <2> QED
      BY <1>1, <2>2, WorkerStages
<1>3. UNCHANGED <<row, file, put, puts, overlapped, request, job, expired>>
    BY DEF Continue
<1>4. TypeOK'
    BY <1>1, <1>2, <1>3 DEF TypeOK
<1> QED
    BY <1>2, <1>3, <1>4 DEF TypeInv, JobInHand, RoomForJob

\* What there is to be known of a job, and of an execution.
LEMMA JobsAndExecutions ==
    ASSUME TypeInv
    PROVE  /\ \A j \in DOMAIN job : /\ j \in 1..MaxJobs /\ job[j] \in Job
                                    /\ job[j].attachment \in Attachment
                                    /\ row[job[j].attachment] \in Row
           /\ Executing =>
                 /\ worker \in Execution /\ worker # Nothing
                 /\ worker.new \in Row /\ worker.loaded \in Row
                 /\ worker.job \in DOMAIN job /\ job[worker.job].status = "unfinished"
                 /\ Subject \in Attachment
<1>1. TypeOK
    BY DEF TypeInv
<1>2. job \in Seq(Job) /\ Len(job) <= MaxJobs
    BY <1>1 DEF TypeOK
<1>3. \A j \in DOMAIN job : j \in 1..MaxJobs /\ job[j] \in Job
    BY <1>2, BoundsAreNaturals
<1>4. \A j \in DOMAIN job : job[j].attachment \in Attachment
    BY <1>3 DEF Job
<1>5. \A a \in Attachment : row[a] \in Row
    BY <1>1 DEF TypeOK
<1>6. Executing => worker \in Execution /\ worker # Nothing
    BY <1>1, WorkerStages
<1>7. Executing => worker.new \in Row /\ worker.loaded \in Row
    BY <1>6 DEF Execution
<1>8. Executing => worker.job \in DOMAIN job /\ job[worker.job].status = "unfinished"
    BY <1>6 DEF TypeInv, JobInHand
<1> QED
    BY <1>3, <1>4, <1>5, <1>6, <1>7, <1>8 DEF Subject

LEMMA TypeOfProcess ==
    ASSUME TypeInv, Process
    PROVE  TypeInv'
<1>1. TypeOK
    BY DEF TypeInv
<1>2. \A j \in DOMAIN job : j \in 1..MaxJobs /\ job[j] \in Job /\ job[j].attachment \in Attachment
    BY JobsAndExecutions
<1>3. ASSUME NEW j \in DOMAIN job, ClaimUnusable(j) PROVE TypeInv'
  <2>1. worker' \in Ended /\ worker'.job = j /\ job[j].status = "unfinished"
      BY <1>2, <1>3 DEF ClaimUnusable, Claimable, Ended
  <2>2. UNCHANGED <<row, file, image, put, puts, overlapped, request, job, expired>>
      BY <1>3 DEF ClaimUnusable
  <2> QED
      BY <1>1, <2>1, <2>2 DEF TypeOK, TypeInv, JobInHand, RoomForJob
<1>4. ASSUME NEW j \in DOMAIN job, Claim(j) PROVE TypeInv'
  <2> DEFINE a == job[j].attachment
             new == IF a \in Local
                    THEN [row[a] EXCEPT !.rejection = "none", !.metadata = "pending",
                                        !.malware = "pending"]
                    ELSE row[a]
  <2>1. row[a] \in Row
      BY <1>1, <1>2 DEF TypeOK
  <2>2. new \in Row
      BY <2>1, RowsOfProcessing
  <2>3. worker' = [stage |-> IF a \in Local THEN "check" ELSE "fetch", job |-> j,
                   loaded |-> row[a], new |-> new]
      BY <1>4 DEF Claim
  <2>4. worker' \in Execution /\ worker'.job = j
    <3> HIDE DEF new
    <3> QED
        BY <1>2, <2>1, <2>2, <2>3 DEF Execution
  <2>5. /\ UNCHANGED <<row, file, image, put, puts, overlapped, request, job, expired>>
        /\ job[j].status = "unfinished"
      BY <1>4 DEF Claim, Claimable
  <2> QED
      BY <1>1, <2>4, <2>5 DEF TypeOK, TypeInv, JobInHand, RoomForJob
<1>5. Executing => worker \in Execution /\ worker.new \in Row /\ worker.loaded \in Row
    BY <1>1, WorkerStages DEF Execution
<1>6. CASE CheckHash
  <2>1. Executing /\ image' \in [Local -> Content]
      BY <1>1, <1>6 DEF CheckHash, Executing, TypeOK
  <2>2. \E stage \in {"failing", "sanitize"}, new \in Row : Continue(stage, new)
      BY <1>5, <1>6, <2>1, RowsOfProcessing DEF CheckHash
  <2> QED
      BY <2>1, <2>2, TypeOfContinue
<1>7. CASE Sanitize
  <2>1. Executing
      BY <1>7 DEF Sanitize, Executing
  <2>2. Subject \in Attachment
      BY <1>2, <2>1, <1>1, WorkerStages DEF TypeInv, JobInHand, Subject
  <2>3. image' \in [Local -> Content]
    <3>1. UNCHANGED image \/ \E content \in Content : image' = [image EXCEPT ![Subject] = content]
      <4>1. Subject \in Local => file[Subject] \in Content /\ image[Subject] \in Content
          BY <1>1 DEF TypeOK
      <4>2. Subject \notin Local => \A content : [image EXCEPT ![Subject] = content] = image
          BY <1>1 DEF TypeOK
      <4> QED
          BY <1>7, <4>1, <4>2 DEF Sanitize, Content
    <3> QED
        BY <1>1, <3>1 DEF TypeOK
  <2>4. \E stage \in {"failing", "ready"}, new \in Row : Continue(stage, new)
      BY <1>5, <1>7, <2>1, RowsOfProcessing DEF Sanitize
  <2> QED
      BY <2>1, <2>3, <2>4, TypeOfContinue
<1>8. CASE Fetch
  <2>1. Executing /\ image' \in [Local -> Content]
      BY <1>1, <1>8 DEF Fetch, Executing, TypeOK
  <2> DEFINE clean == [worker.new EXCEPT !.malware = "clean", !.rejection = "none"]
  <2>2. worker.new \in Row /\ clean \in Row
      BY <1>5, <2>1, RowsOfProcessing
  <2>3. \E stage \in {"failing", "ready"}, new \in Row : Continue(stage, new)
    <3>1. /\ [clean EXCEPT !.metadata = "ready"] \in Row
          /\ \A r \in {worker.new, clean} :
                [r EXCEPT !.metadata = "rejected", !.rejection = "reason"] \in Row
        BY <2>2, RowsOfProcessing
    <3> QED
        BY <1>8, <2>2, <3>1 DEF Fetch
  <2> QED
      BY <2>1, <2>3, TypeOfContinue
<1>9. CASE CommitExecution
  <2>1. Executing /\ worker \in Execution /\ worker # Nothing
      BY <1>1, <1>9, WorkerStages DEF CommitExecution, Executing
  <2>2. Subject \in Attachment
      BY <1>2, <2>1 DEF TypeInv, JobInHand, Subject
  <2>3. row' \in [Attachment -> Row]
    <3>1. Written(Subject, worker.loaded, worker.new) \in Row
        BY <1>1, <1>5, <2>1, <2>2, WrittenColumns DEF TypeOK
    <3> QED
        BY <1>1, <1>9, <3>1 DEF CommitExecution, TypeOK
  <2>4. worker' \in Ended /\ worker'.job = worker.job
      BY <1>9, <2>1 DEF CommitExecution, Ended, Execution
  <2>5. UNCHANGED <<file, image, put, puts, overlapped, request, job, expired>>
      BY <1>9 DEF CommitExecution
  <2> QED
      BY <1>1, <2>1, <2>3, <2>4, <2>5 DEF TypeOK, TypeInv, JobInHand, RoomForJob
<1>10. CASE RollbackExecution
  <2>1. Executing /\ worker \in Execution /\ worker # Nothing
      BY <1>1, <1>10, WorkerStages DEF RollbackExecution, Executing
  <2>2. worker' \in Ended /\ worker'.job = worker.job
      BY <1>10, <2>1 DEF RollbackExecution, Ended, Execution
  <2>3. UNCHANGED <<row, file, image, put, puts, overlapped, request, job, expired>>
      BY <1>10 DEF RollbackExecution
  <2> QED
      BY <1>1, <2>1, <2>2, <2>3 DEF TypeOK, TypeInv, JobInHand, RoomForJob
<1>11. CASE FinishJob
  <2>1. worker \in Ended /\ worker # Nothing
      BY <1>1, <1>11, WorkerStages DEF FinishJob
  <2>2. worker.job \in DOMAIN job
      BY <2>1 DEF TypeInv, JobInHand
  <2>3. PICK status \in {"succeeded", "unfinished", "failed"} :
           job' = [job EXCEPT ![worker.job].status = status]
      BY <1>11 DEF FinishJob
  <2>4. job' \in Seq(Job) /\ Len(job') = Len(job)
    <3>1. [job[worker.job] EXCEPT !.status = status] \in Job
        BY <1>2, <2>2 DEF Job
    <3> QED
        BY <1>1, <2>2, <2>3, <3>1, ExceptSeq DEF TypeOK
  <2>5. worker' = Nothing /\ UNCHANGED <<row, file, image, put, puts, overlapped, request, expired>>
      BY <1>11 DEF FinishJob
  <2> QED
      BY <1>1, <2>4, <2>5 DEF TypeOK, TypeInv, JobInHand, RoomForJob
<1> QED
    BY <1>3, <1>4, <1>6, <1>7, <1>8, <1>9, <1>10, <1>11 DEF Process

\* The removal of files only makes them "none", and unlinks what is being written.
LEMMA TypeOfRemoval ==
    ASSUME TypeOK, RemoveFiles
    PROVE  /\ file' \in [Local -> Content] /\ image' \in [Local -> Content]
           /\ put' \in [Put -> ContentRequest \cup {Nothing}]
<1>1. \A q \in Put : put[q] # Nothing => [put[q] EXCEPT !.linked = FALSE] \in ContentRequest
    BY DEF TypeOK, ContentRequest
<1>2. put' \in [Put -> ContentRequest \cup {Nothing}]
    BY <1>1 DEF RemoveFiles
<1>3. file' \in [Local -> Content] /\ image' \in [Local -> Content]
    BY DEF RemoveFiles, TypeOK, Content
<1> QED
    BY <1>2, <1>3

\* One incident, one row of attachments: what binding and retention make of it are rows.
LEMMA TypeOfRows ==
    ASSUME TypeInv,
           \/ \E t \in Report, S \in SUBSET Attachment : BindReport(t, S)
           \/ \E d \in Answer, S \in SUBSET Attachment : BindAnswer(d, S)
           \/ Expire \/ RetentionPass \/ RetentionFails \/ Crash
    PROVE  TypeInv'
<1>1. TypeOK
    BY DEF TypeInv
<1>2. \A a \in Attachment : row[a] \in Row
    BY <1>1 DEF TypeOK
<1>3. ASSUME NEW t \in Report, NEW S \in SUBSET Attachment, BindReport(t, S) PROVE TypeInv'
  <2>1. \A a \in Attachment : /\ [row[a] EXCEPT !.report = t] \in Row
                              /\ [row[a] EXCEPT !.report = IF @ = t THEN Nobody ELSE @] \in Row
      BY <1>2 DEF Row
  <2>2. row' \in [Attachment -> Row]
      BY <1>3, <2>1 DEF BindReport
  <2>3. UNCHANGED <<file, image, put, puts, overlapped, request, job, worker, expired>>
      BY <1>3 DEF BindReport
  <2>4. TypeOK'
      BY <1>1, <2>2, <2>3 DEF TypeOK
  <2> QED
      BY <2>3, <2>4, TypeOfOthers
<1>4. ASSUME NEW d \in Answer, NEW S \in SUBSET Attachment, BindAnswer(d, S) PROVE TypeInv'
  <2>1. \A a \in Attachment : /\ [row[a] EXCEPT !.answer = d] \in Row
                              /\ [row[a] EXCEPT !.answer = IF @ = d THEN Nobody ELSE @] \in Row
      BY <1>2 DEF Row
  <2>2. row' \in [Attachment -> Row]
      BY <1>4, <2>1 DEF BindAnswer
  <2>3. UNCHANGED <<file, image, put, puts, overlapped, request, job, worker, expired>>
      BY <1>4 DEF BindAnswer
  <2>4. TypeOK'
      BY <1>1, <2>2, <2>3 DEF TypeOK
  <2> QED
      BY <2>3, <2>4, TypeOfOthers
<1>5. CASE Expire
  <2>1. UNCHANGED <<job, worker, request>> /\ TypeOK'
      BY <1>1, <1>5 DEF Expire, TypeOK
  <2> QED
      BY <2>1, TypeOfOthers
<1>6. CASE RetentionPass
  <2>1. row' \in [Attachment -> Row]
      BY <1>2, <1>6, RowsOfProcessing DEF RetentionPass
  <2>2. /\ RemoveFiles
        /\ UNCHANGED <<puts, overlapped, request, job, worker, expired>>
      BY <1>6 DEF RetentionPass
  <2>3. TypeOK'
      BY <1>1, <2>1, <2>2, TypeOfRemoval DEF TypeOK
  <2> QED
      BY <2>2, <2>3, TypeOfOthers
<1>7. CASE RetentionFails
  <2>1. /\ RemoveFiles
        /\ UNCHANGED <<row, puts, overlapped, request, job, worker, expired>>
      BY <1>7 DEF RetentionFails
  <2>2. TypeOK'
      BY <1>1, <2>1, TypeOfRemoval DEF TypeOK
  <2> QED
      BY <2>1, <2>2, TypeOfOthers
<1>8. CASE Crash
  <2>1. /\ put' = [p \in Put |-> Nothing] /\ request' = Nothing /\ worker' = Nothing
        /\ UNCHANGED <<row, file, image, puts, overlapped, job, expired>>
      BY <1>8 DEF Crash
  <2> QED
      BY <1>1, <2>1 DEF TypeOK, TypeInv, JobInHand, RoomForJob
<1> QED
    BY <1>3, <1>4, <1>5, <1>6, <1>7, <1>8

LEMMA TypeStep == TypeInv /\ [Next]_vars => TypeInv'
<1> SUFFICES ASSUME TypeInv, [Next]_vars PROVE TypeInv'
    OBVIOUS
<1>1. CASE UNCHANGED vars
    BY <1>1 DEF vars, TypeInv, TypeOK, JobInHand, RoomForJob
<1>2. CASE Next
    BY <1>2, TypeOfPuts, TypeOfCompletion, TypeOfProcess, TypeOfRows DEF Next
<1> QED
    BY <1>1, <1>2

\* The rows, the files, the requests in flight and the execution keep their types, the job
\* that is executed exists, and a completion never needs more room than there is.
THEOREM TypesAreKept == Spec => []TypeOK
<1>1. Spec => []TypeInv
    BY TypeInit, TypeStep, PTL DEF Spec
<1>2. TypeInv => TypeOK
    BY DEF TypeInv
<1> QED
    BY <1>1, <1>2, PTL

-----------------------------------------------------------------------------
(***************************************************************************)
(* Bindings                                                                *)
(***************************************************************************)
OwnerInv == TypeInv /\ OwnerIsKept /\ BoundOnce

LEMMA SameOwnerIsTransitive ==
    ASSUME NEW r, NEW s, NEW t, SameOwner(r, s), SameOwner(s, t)
    PROVE  SameOwner(r, t)
BY DEF SameOwner

LEMMA OwnersOfProcessing ==
    ASSUME NEW r \in Row
    PROVE  /\ SameOwner(r, r)
           /\ SameOwner(Rejected(r), r)
           /\ SameOwner([r EXCEPT !.malware = "clean"], r)
           /\ SameOwner([r EXCEPT !.malware = "clean", !.rejection = "none"], r)
           /\ SameOwner([r EXCEPT !.metadata = "ready"], r)
           /\ SameOwner([r EXCEPT !.sanitized = TRUE, !.metadata = "ready"], r)
           /\ SameOwner([r EXCEPT !.metadata = "rejected", !.rejection = "reason"], r)
BY DEF Row, SameOwner, Rejected

\* The steps of processing between the first and the last.
LEMMA ContinueSteps ==
    ASSUME TypeInv, CheckHash \/ Sanitize \/ Fetch
    PROVE  \E stage \in {"sanitize", "ready", "failing"}, new \in Row :
              Continue(stage, new) /\ SameOwner(new, worker.new)
<1>1. Executing
    BY DEF CheckHash, Sanitize, Fetch, Executing
<1> DEFINE old == worker.new
<1>2. old \in Row
    BY <1>1, JobsAndExecutions
<1> SUFFICES \E stage \in {"sanitize", "ready", "failing"}, new \in Row :
                Continue(stage, new) /\ SameOwner(new, old)
    OBVIOUS
<1> HIDE DEF old
<1>3. CASE CheckHash
  <2>1. \/ Continue("failing", old)
        \/ Continue("sanitize", [old EXCEPT !.malware = "clean"])
        \/ Continue("failing", Rejected(old))
      BY <1>3 DEF CheckHash, old
  <2> QED
      BY <1>2, <2>1, RowsOfProcessing, OwnersOfProcessing
<1>4. CASE Sanitize
  <2>1. \/ Continue("ready", [old EXCEPT !.sanitized = TRUE, !.metadata = "ready"])
        \/ Continue("failing", Rejected(old))
        \/ Continue("failing", old)
      BY <1>4 DEF Sanitize, old
  <2> QED
      BY <1>2, <2>1, RowsOfProcessing, OwnersOfProcessing
<1>5. CASE Fetch
  <2> DEFINE clean == [old EXCEPT !.malware = "clean", !.rejection = "none"]
  <2>1. clean \in Row /\ SameOwner(clean, old)
      BY <1>2, RowsOfProcessing, OwnersOfProcessing
  <2>2. \/ Continue("ready", [clean EXCEPT !.metadata = "ready"])
        \/ \E r \in {old, clean} :
              \/ Continue("failing", [r EXCEPT !.metadata = "rejected", !.rejection = "reason"])
              \/ Continue("failing", r)
      BY <1>5 DEF Fetch, old
  <2> HIDE DEF clean
  <2>3. SameOwner([clean EXCEPT !.metadata = "ready"], old)
    <3>1. SameOwner([clean EXCEPT !.metadata = "ready"], clean)
        BY <2>1, OwnersOfProcessing
    <3> QED
        BY <2>1, <3>1, SameOwnerIsTransitive
  <2>4. ASSUME NEW r \in {old, clean}
        PROVE  /\ r \in Row /\ SameOwner(r, old)
               /\ SameOwner([r EXCEPT !.metadata = "rejected", !.rejection = "reason"], old)
    <3>1. r \in Row /\ SameOwner(r, old)
        BY <1>2, <2>1, OwnersOfProcessing
    <3>2. SameOwner([r EXCEPT !.metadata = "rejected", !.rejection = "reason"], r)
        BY <3>1, OwnersOfProcessing
    <3> QED
        BY <3>1, <3>2, SameOwnerIsTransitive
  <2> QED
      BY <1>2, <2>1, <2>2, <2>3, <2>4, RowsOfProcessing
<1> QED
    BY <1>3, <1>4, <1>5

\* Processing goes on with a row that it has loaded, and does not touch who owns it.
LEMMA OwnerOfProcess ==
    ASSUME TypeInv, OwnerIsKept, Process
    PROVE  OwnerIsKept'
<1>1. TypeOK
    BY DEF TypeInv
<1>2. Executing => worker \in Execution /\ worker.new \in Row /\ worker.loaded \in Row
    BY <1>1, WorkerStages DEF Execution
<1>3. ASSUME NEW j \in DOMAIN job, ClaimUnusable(j) PROVE OwnerIsKept'
    BY <1>3 DEF ClaimUnusable, OwnerIsKept, Executing
<1>4. ASSUME NEW j \in DOMAIN job, Claim(j) PROVE OwnerIsKept'
  <2> DEFINE a == job[j].attachment
             new == IF a \in Local
                    THEN [row[a] EXCEPT !.rejection = "none", !.metadata = "pending",
                                        !.malware = "pending"]
                    ELSE row[a]
  <2>1. row[a] \in Row
      BY JobsAndExecutions
  <2>2. SameOwner(new, row[a])
      BY <2>1 DEF SameOwner, Row
  <2>3. worker'.loaded = row[a] /\ worker'.new = new
      BY <1>4 DEF Claim
  <2> HIDE DEF new
  <2> QED
      BY <2>2, <2>3 DEF OwnerIsKept, SameOwner
<1>5. CASE CheckHash \/ Sanitize \/ Fetch
  <2>1. PICK stage \in {"sanitize", "ready", "failing"}, new \in Row :
           Continue(stage, new) /\ SameOwner(new, worker.new)
      BY <1>5, ContinueSteps
  <2>2. Executing
      BY <1>5 DEF CheckHash, Sanitize, Fetch, Executing
  <2>3. worker'.new = new /\ worker'.loaded = worker.loaded
      BY <1>2, <2>1, <2>2 DEF Continue, Execution
  <2> QED
      BY <2>1, <2>2, <2>3 DEF OwnerIsKept, SameOwner
<1>6. CASE CommitExecution \/ RollbackExecution \/ FinishJob
    BY <1>6 DEF CommitExecution, RollbackExecution, FinishJob, OwnerIsKept, Executing, Nothing
<1> QED
    BY <1>3, <1>4, <1>5, <1>6 DEF Process

\* A session that does not touch who owns a row leaves it to whom it belongs by now.
LEMMA OwnerOfWritten ==
    ASSUME TypeOK, NEW a \in Attachment, NEW loaded \in Row, NEW new \in Row,
           new.report = loaded.report, new.answer = loaded.answer,
           row' = [row EXCEPT ![a] = Written(a, loaded, new)]
    PROVE  \A b \in Attachment : row'[b].report = row[b].report /\ row'[b].answer = row[b].answer
<1>1. /\ Written(a, loaded, new)["report"] = row[a]["report"]
      /\ Written(a, loaded, new)["answer"] = row[a]["answer"]
    BY WrittenColumns DEF TypeOK
<1>2. /\ Written(a, loaded, new).report = row[a].report
      /\ Written(a, loaded, new).answer = row[a].answer
    BY <1>1
<1> QED
    BY <1>2 DEF TypeOK

LEMMA OwnerStep == OwnerInv /\ [Next]_vars => OwnerInv'
<1> SUFFICES ASSUME OwnerInv, [Next]_vars PROVE OwnerInv'
    OBVIOUS
<1>1. TypeInv /\ TypeInv' /\ TypeOK
    BY TypeStep DEF OwnerInv, TypeInv
<1>2. \A a \in Attachment : row[a] \in Row
    BY <1>1 DEF TypeOK
<1>3. ASSUME \/ UNCHANGED row
             \/ \A a \in Attachment : /\ row'[a].report = row[a].report
                                      /\ row'[a].answer = row[a].answer
      PROVE  BoundOnce'
    BY <1>3 DEF OwnerInv, BoundOnce
<1>4. ASSUME UNCHANGED worker PROVE OwnerIsKept'
    BY <1>4 DEF OwnerInv, OwnerIsKept, Executing
<1>5. CASE UNCHANGED vars
    BY <1>1, <1>3, <1>4, <1>5 DEF vars, OwnerInv
<1>6. ASSUME NEW p \in Put, NEW a \in Local, NEW body \in {"declared", "other"}, StartPut(p, a, body)
      PROVE  OwnerInv'
    BY <1>1, <1>3, <1>4, <1>6 DEF StartPut, Open, OwnerInv
<1>7. ASSUME NEW p \in Put, FinishPut(p) \/ RefusePut(p) \/ AbandonPut(p)
      PROVE  OwnerInv'
    BY <1>1, <1>3, <1>4, <1>7 DEF FinishPut, RefusePut, AbandonPut, OwnerInv
<1>8. ASSUME NEW p \in Put, CommitPut(p) PROVE OwnerInv'
  <2>1. \A a \in Attachment : row'[a].report = row[a].report /\ row'[a].answer = row[a].answer
    <3>1. row' = [row EXCEPT ![put[p].attachment] = [row[put[p].attachment] EXCEPT !.uploaded = TRUE]]
        BY <1>8 DEF CommitPut
    <3> QED
        BY <1>1, <1>2, <3>1 DEF TypeOK, Row
  <2> QED
      BY <1>1, <1>3, <1>4, <1>8, <2>1 DEF CommitPut, OwnerInv
<1>9. ASSUME NEW a \in Attachment, RequestCompletion(a) PROVE OwnerInv'
    BY <1>1, <1>3, <1>4, <1>9 DEF RequestCompletion, OwnerInv
<1>10. CASE CompleteLocal
    BY <1>1, <1>3, <1>4, <1>10 DEF CompleteLocal, OwnerInv
<1>11. CASE CompleteRemote
  <2>1. /\ request.attachment \in Attachment /\ request.loaded \in Row
        /\ Restarted(request.loaded) \in Row
      BY <1>1, <1>11, RowsOfProcessing DEF CompleteRemote, TypeOK
  <2>2. /\ Restarted(request.loaded).report = request.loaded.report
        /\ Restarted(request.loaded).answer = request.loaded.answer
      BY <2>1 DEF Restarted, Row
  <2>3. \A b \in Attachment : row'[b].report = row[b].report /\ row'[b].answer = row[b].answer
      BY <1>1, <1>11, <2>1, <2>2, OwnerOfWritten DEF CompleteRemote
  <2> QED
      BY <1>1, <1>3, <1>4, <1>11, <2>3 DEF CompleteRemote, OwnerInv
<1>12. CASE Process
  <2>1. OwnerIsKept'
      BY <1>1, <1>12, OwnerOfProcess DEF OwnerInv
  <2>2. CASE CommitExecution
    <3>1. /\ worker \in Execution /\ Executing
          /\ worker.job \in DOMAIN job
        BY <1>1, <2>2, WorkerStages DEF CommitExecution, Executing, TypeInv, JobInHand
    <3>2. Subject \in Attachment /\ worker.loaded \in Row /\ worker.new \in Row
        BY <1>1, <3>1, JobsAndExecutions
    <3>3. worker.new.report = worker.loaded.report /\ worker.new.answer = worker.loaded.answer
        BY <3>1 DEF OwnerInv, OwnerIsKept, SameOwner
    <3>4. \A b \in Attachment : row'[b].report = row[b].report /\ row'[b].answer = row[b].answer
        BY <1>1, <2>2, <3>2, <3>3, OwnerOfWritten DEF CommitExecution
    <3> QED
        BY <1>1, <1>3, <2>1, <3>4 DEF OwnerInv
  <2>3. CASE ~CommitExecution
    <3>1. UNCHANGED row
        BY <1>12, <2>3 DEF Process, ClaimUnusable, Claim, CheckHash, Sanitize, Fetch, Continue,
                           RollbackExecution, FinishJob
    <3> QED
        BY <1>1, <1>3, <2>1, <3>1 DEF OwnerInv
  <2> QED
      BY <2>2, <2>3
<1>13. ASSUME NEW t \in Report, NEW S \in SUBSET Attachment, BindReport(t, S) PROVE OwnerInv'
  <2>1. ASSUME NEW a \in Attachment PROVE row'[a].report = Nobody \/ row'[a].answer = Nobody
    <3>1. CASE a \in S
      <4>1. row'[a] = [row[a] EXCEPT !.report = t] /\ row[a].answer = Nobody
          BY <1>13, <3>1 DEF BindReport
      <4> QED
          BY <1>2, <4>1 DEF Row
    <3>2. CASE a \notin S
      <4>1. row'[a] = [row[a] EXCEPT !.report = IF @ = t THEN Nobody ELSE @]
          BY <1>13, <3>2 DEF BindReport
      <4>2. row'[a].answer = row[a].answer /\ row'[a].report \in {row[a].report, Nobody}
          BY <1>2, <4>1 DEF Row
      <4> QED
          BY <4>2 DEF OwnerInv, BoundOnce
    <3> QED
        BY <3>1, <3>2
  <2> QED
      BY <1>1, <1>4, <1>13, <2>1 DEF BindReport, OwnerInv, BoundOnce
<1>14. ASSUME NEW d \in Answer, NEW S \in SUBSET Attachment, BindAnswer(d, S) PROVE OwnerInv'
  <2>1. ASSUME NEW a \in Attachment PROVE row'[a].report = Nobody \/ row'[a].answer = Nobody
    <3>1. CASE a \in S
      <4>1. row'[a] = [row[a] EXCEPT !.answer = d] /\ row[a].report = Nobody
          BY <1>14, <3>1 DEF BindAnswer
      <4> QED
          BY <1>2, <4>1 DEF Row
    <3>2. CASE a \notin S
      <4>1. row'[a] = [row[a] EXCEPT !.answer = IF @ = d THEN Nobody ELSE @]
          BY <1>14, <3>2 DEF BindAnswer
      <4>2. row'[a].report = row[a].report /\ row'[a].answer \in {row[a].answer, Nobody}
          BY <1>2, <4>1 DEF Row
      <4> QED
          BY <4>2 DEF OwnerInv, BoundOnce
    <3> QED
        BY <3>1, <3>2
  <2> QED
      BY <1>1, <1>4, <1>14, <2>1 DEF BindAnswer, OwnerInv, BoundOnce
<1>15. CASE Expire \/ RetentionFails
    BY <1>1, <1>3, <1>4, <1>15 DEF Expire, RetentionFails, OwnerInv
<1>16. CASE RetentionPass
  <2>1. \A a \in Attachment : row'[a].report = row[a].report /\ row'[a].answer = row[a].answer
      BY <1>2, <1>16 DEF RetentionPass, Anonymised, Row
  <2> QED
      BY <1>1, <1>3, <1>4, <1>16, <2>1 DEF RetentionPass, OwnerInv
<1>17. CASE Crash
  <2>1. OwnerIsKept' /\ UNCHANGED row
      BY <1>17 DEF Crash, OwnerIsKept, Executing, Nothing
  <2> QED
      BY <1>1, <1>3, <2>1 DEF OwnerInv
<1> QED
    BY <1>5, <1>6, <1>7, <1>8, <1>9, <1>10, <1>11, <1>12, <1>13, <1>14, <1>15, <1>16, <1>17
       DEF Next

-----------------------------------------------------------------------------
(***************************************************************************)
(* Files                                                                   *)
(***************************************************************************)
FileInv == TypeInv /\ OwnerIsKept /\ Undisturbed /\ ImageIsDeclared

\* What happens to the other attachments does not matter for a.
LEMMA QuietStaysQuiet ==
    ASSUME NEW a \in Local, Quiet(a), TypeOK,
           \A p \in Put : \/ put'[p] = put[p]
                          \/ /\ put[p] = Nothing \/ put[p].attachment # a
                             /\ put'[p] = Nothing \/ put'[p].attachment # a,
           row'[a].anonymised = row[a].anonymised, row'[a].uploaded = row[a].uploaded,
           row'[a].sanitized = row[a].sanitized,
           file'[a] = file[a], image'[a] = image[a]
    PROVE  Quiet(a)'
<1>1. \A p \in Put : p \in Writers(a)' <=> p \in Writers(a)
    BY DEF Writers
<1>2. Writers(a)' = Writers(a)
    BY <1>1 DEF Writers
<1>3. \A p \in Writers(a) : put'[p] = put[p]
    BY DEF Writers
<1> QED
    BY <1>2, <1>3 DEF Quiet

\* Content requests of an attachment that has not been uploaded.
LEMMA QuietPuts ==
    ASSUME TypeInv, NEW a \in Local, Quiet(a), NEW p \in Put, a \notin overlapped',
           \/ \E b \in Local, body \in {"declared", "other"} : StartPut(p, b, body)
           \/ FinishPut(p) \/ RefusePut(p) \/ AbandonPut(p) \/ CommitPut(p)
    PROVE  Quiet(a)' /\ (row[a].uploaded => row'[a].uploaded) /\ UNCHANGED image
<1>1. TypeOK /\ row[a] \in Row
    BY DEF TypeInv, TypeOK, Attachment
<1>2. \A q \in Put : put[q] # Nothing => put[q] \in ContentRequest
    BY <1>1 DEF TypeOK
<1>3. ASSUME NEW b \in Local, NEW body \in {"declared", "other"}, StartPut(p, b, body)
      PROVE  Quiet(a)' /\ (row[a].uploaded => row'[a].uploaded) /\ UNCHANGED image
  <2>1. UNCHANGED <<row, image>>
      BY <1>3 DEF StartPut, Open
  <2>2. CASE b = a
    <3>1. Writers(a) = {} /\ ~row[a].uploaded
        BY <1>3, <2>2 DEF StartPut, Open
    <3>2. /\ put[p] = Nothing /\ \A q \in Put \ {p} : put'[q] = put[q]
          /\ put'[p] = [stage |-> "stream", attachment |-> a, body |-> body,
                        linked |-> TRUE, alone |-> TRUE]
        BY <1>3, <2>2, <3>1 DEF StartPut, Open, Linked
    <3>3. Writers(a)' = {p}
        BY <3>1, <3>2 DEF Writers, Nothing
    <3> QED
        BY <2>1, <3>1, <3>2, <3>3 DEF Quiet
  <2>3. CASE b # a
    <3>1. \A q \in Put \ Linked(b, p) : q = p \/ put'[q] = put[q]
        BY <1>3 DEF StartPut, Open
    <3>2. put[p] = Nothing /\ put'[p].attachment # a
        BY <1>3, <2>3 DEF StartPut, Open
    <3>3. ASSUME NEW q \in Linked(b, p)
          PROVE  put[q].attachment # a /\ put'[q].attachment # a
      <4>1. q \in Put /\ q # p /\ put[q] # Nothing /\ put[q].attachment = b
          BY <3>3 DEF Linked, Writers
      <4>2. put'[q] = [put[q] EXCEPT !.alone = FALSE]
          BY <1>3, <3>3, <4>1 DEF StartPut, Open
      <4> QED
          BY <1>2, <2>3, <4>1, <4>2 DEF ContentRequest
    <3>4. \A q \in Put : \/ put'[q] = put[q]
                         \/ /\ put[q] = Nothing \/ put[q].attachment # a
                            /\ put'[q] = Nothing \/ put'[q].attachment # a
        BY <3>1, <3>2, <3>3
    <3>5. file'[a] = file[a]
        BY <1>1, <1>3, <2>3 DEF StartPut, Open, TypeOK
    <3> QED
        BY <1>1, <2>1, <3>4, <3>5, QuietStaysQuiet
  <2> QED
      BY <2>2, <2>3
<1> DEFINE b == put[p].attachment
<1>4. CASE FinishPut(p) \/ RefusePut(p) \/ AbandonPut(p) \/ CommitPut(p)
  <2>1. p \in Writers(b) /\ put[p] # Nothing /\ b \in Local
      BY <1>2, <1>4 DEF FinishPut, RefusePut, AbandonPut, CommitPut, Writers, Nothing,
                        ContentRequest
  <2>2. UNCHANGED image
      BY <1>4 DEF FinishPut, RefusePut, AbandonPut, CommitPut
  <2>3. CASE b # a
    <3>1. ASSUME NEW q \in Put
          PROVE  \/ put'[q] = put[q]
                 \/ /\ put[q].attachment # a
                    /\ put'[q] = Nothing \/ put'[q].attachment # a
      <4>1. CASE FinishPut(p)
          BY <1>1, <1>2, <2>1, <2>3, <4>1 DEF FinishPut, TypeOK, ContentRequest
      <4>2. CASE RefusePut(p)
        <5>1. q \notin Writers(b) \/ q = p \/ put'[q] = [put[q] EXCEPT !.linked = FALSE]
            BY <1>1, <4>2 DEF RefusePut, Unlinked
        <5>2. q \notin Writers(b) /\ q # p => put'[q] = put[q]
            BY <1>1, <4>2 DEF RefusePut, Unlinked
        <5>3. put'[p] = Nothing
            BY <4>2 DEF RefusePut, Unlinked
        <5>4. q \in Writers(b) => put[q].attachment # a /\ put[q] # Nothing
            BY <2>3 DEF Writers
        <5> QED
            BY <1>2, <2>3, <5>1, <5>2, <5>3, <5>4 DEF ContentRequest
      <4>3. CASE AbandonPut(p) \/ CommitPut(p)
          BY <1>1, <2>1, <2>3, <4>3 DEF AbandonPut, CommitPut, TypeOK
      <4> QED
          BY <1>4, <4>1, <4>2, <4>3
    <3>2. file'[a] = file[a] /\ row'[a] = row[a]
        BY <1>1, <1>4, <2>3 DEF FinishPut, RefusePut, AbandonPut, CommitPut, TypeOK, Attachment
    <3> QED
        BY <1>1, <2>2, <3>1, <3>2, QuietStaysQuiet
  <2>4. CASE b = a
    <3>1. /\ Writers(a) = {p} /\ ~row[a].uploaded /\ ~row[a].sanitized /\ ~row[a].anonymised
          /\ put[p].linked /\ put[p].alone
          /\ put[p].stage = "commit" => file[a] = "declared"
        BY <2>1, <2>4 DEF Quiet
    <3>2. CASE FinishPut(p)
      <4>1. /\ \A q \in Put \ {p} : put'[q] = put[q]
            /\ put'[p] = [put[p] EXCEPT !.stage = "commit"]
            /\ file' = [file EXCEPT ![a] = "declared"]
            /\ UNCHANGED row
          BY <1>1, <2>4, <3>1, <3>2 DEF FinishPut, TypeOK
      <4>2. put'[p].linked /\ put'[p].alone /\ put'[p].attachment = a /\ put'[p] # Nothing
        <5>1. put[p] \in ContentRequest
            BY <1>2, <2>1
        <5>2. put'[p] \in ContentRequest /\ put'[p].linked = put[p].linked
              /\ put'[p].alone = put[p].alone /\ put'[p].attachment = put[p].attachment
            BY <4>1, <5>1 DEF ContentRequest
        <5> QED
            BY <2>4, <3>1, <5>2 DEF ContentRequest, Nothing
      <4>3. Writers(a)' = {p}
          BY <3>1, <4>1, <4>2 DEF Writers
      <4>4. file'[a] = "declared"
          BY <1>1, <4>1 DEF TypeOK
      <4> QED
          BY <2>2, <3>1, <4>1, <4>2, <4>3, <4>4 DEF Quiet
    <3>3. CASE RefusePut(p) \/ AbandonPut(p) \/ CommitPut(p)
      <4>1. put'[p] = Nothing /\ \A q \in Put \ {p} : put'[q] = put[q]
          BY <1>1, <2>4, <3>1, <3>3 DEF RefusePut, Unlinked, AbandonPut, CommitPut, TypeOK
      <4>2. Writers(a)' = {}
          BY <3>1, <4>1 DEF Writers
      <4>3. CASE CommitPut(p)
        <5>1. row' = [row EXCEPT ![a] = [row[a] EXCEPT !.uploaded = TRUE]] /\ UNCHANGED file
              /\ put[p].stage = "commit"
            BY <2>4, <4>3 DEF CommitPut
        <5>2. row'[a].uploaded /\ row'[a].anonymised = row[a].anonymised
              /\ row'[a].sanitized = row[a].sanitized
            BY <1>1, <5>1 DEF TypeOK, Row, Attachment
        <5> QED
            BY <2>2, <3>1, <4>2, <5>1, <5>2 DEF Quiet
      <4>4. CASE RefusePut(p) \/ AbandonPut(p)
        <5>1. UNCHANGED row
            BY <4>4 DEF RefusePut, AbandonPut
        <5> QED
            BY <2>2, <3>1, <4>2, <5>1 DEF Quiet
      <4> QED
          BY <3>3, <4>3, <4>4
    <3> QED
        BY <1>4, <3>2, <3>3
  <2> QED
      BY <2>3, <2>4
<1> QED
    BY <1>3, <1>4

LEMMA SanitizedIsKept ==
    ASSUME worker \in Execution, CheckHash \/ Fetch
    PROVE  UNCHANGED image /\ worker'.new.sanitized = worker.new.sanitized
<1> DEFINE old == worker.new
<1>1. old \in Row
    BY DEF Execution
<1>2. \A stage, new : Continue(stage, new) => worker'.new = new
    BY DEF Continue, Execution
<1>3. \A r \in Row : /\ [r EXCEPT !.malware = "clean"].sanitized = r.sanitized
                     /\ Rejected(r).sanitized = r.sanitized
                     /\ [r EXCEPT !.malware = "clean", !.rejection = "none"].sanitized = r.sanitized
                     /\ [r EXCEPT !.metadata = "ready"].sanitized = r.sanitized
                     /\ [r EXCEPT !.metadata = "rejected", !.rejection = "reason"].sanitized
                          = r.sanitized
    BY DEF Row, Rejected
<1> SUFFICES UNCHANGED image /\ worker'.new.sanitized = old.sanitized
    OBVIOUS
<1> HIDE DEF old
<1>4. CASE CheckHash
  <2>1. \/ Continue("failing", old)
        \/ Continue("sanitize", [old EXCEPT !.malware = "clean"])
        \/ Continue("failing", Rejected(old))
      BY <1>4 DEF CheckHash, old
  <2>2. worker'.new \in {old, [old EXCEPT !.malware = "clean"], Rejected(old)}
      BY <1>2, <2>1
  <2> QED
      BY <1>1, <1>3, <1>4, <2>2 DEF CheckHash
<1>5. CASE Fetch
  <2> DEFINE clean == [old EXCEPT !.malware = "clean", !.rejection = "none"]
  <2>1. clean \in Row /\ clean.sanitized = old.sanitized
      BY <1>1, <1>3, RowsOfProcessing
  <2>2. \/ Continue("ready", [clean EXCEPT !.metadata = "ready"])
        \/ \E r \in {old, clean} :
              \/ Continue("failing", [r EXCEPT !.metadata = "rejected", !.rejection = "reason"])
              \/ Continue("failing", r)
      BY <1>5 DEF Fetch, old
  <2> HIDE DEF clean
  <2>3. \/ worker'.new = [clean EXCEPT !.metadata = "ready"]
        \/ \E r \in {old, clean} :
              worker'.new \in {[r EXCEPT !.metadata = "rejected", !.rejection = "reason"], r}
      BY <1>2, <2>2
  <2>4. UNCHANGED image
      BY <1>5 DEF Fetch
  <2>5. CASE worker'.new = [clean EXCEPT !.metadata = "ready"]
      BY <1>3, <2>1, <2>4, <2>5
  <2>6. ASSUME NEW r \in {old, clean},
               worker'.new \in {[r EXCEPT !.metadata = "rejected", !.rejection = "reason"], r}
        PROVE  worker'.new.sanitized = old.sanitized
    <3>1. r \in Row /\ r.sanitized = old.sanitized
        BY <1>1, <2>1
    <3> QED
        BY <1>3, <2>6, <3>1
  <2> QED
      BY <2>3, <2>4, <2>5, <2>6
<1> QED
    BY <1>4, <1>5

\* An execution of a local attachment sees the file, and makes the image from it.
LEMMA QuietProcess ==
    ASSUME FileInv, Process, ~expired
    PROVE  /\ \A a \in Local \ overlapped : Quiet(a)'
           /\ ImageIsDeclared'
<1>1. TypeInv /\ TypeOK
    BY DEF FileInv, TypeInv
<1>2. \A a \in Local \ overlapped : Quiet(a)
    BY DEF FileInv, Undisturbed
<1>3. \A a \in Attachment : row[a] \in Row
    BY <1>1 DEF TypeOK
<1>4. Local \subseteq Attachment
    BY DEF Attachment
<1>5. UNCHANGED <<file, put, overlapped, expired>>
    BY DEF Process, ClaimUnusable, Claim, CheckHash, Sanitize, Fetch, Continue, CommitExecution,
           RollbackExecution, FinishJob
<1>6. ASSUME UNCHANGED <<row, image>> PROVE \A a \in Local \ overlapped : Quiet(a)'
    BY <1>1, <1>2, <1>5, <1>6, QuietStaysQuiet
<1>7. CASE \/ \E j \in DOMAIN job : ClaimUnusable(j)
           \/ RollbackExecution
           \/ FinishJob
  <2>1. UNCHANGED <<row, image>> /\ ~Executing'
      BY <1>7 DEF ClaimUnusable, RollbackExecution, FinishJob, Executing, Nothing
  <2> QED
      BY <1>6, <2>1 DEF ImageIsDeclared
<1>8. ASSUME NEW j \in DOMAIN job, Claim(j)
      PROVE  (\A a \in Local \ overlapped : Quiet(a)') /\ ImageIsDeclared'
  <2>1. UNCHANGED <<row, file, image, job, overlapped, expired>> /\ worker'.job = j
      BY <1>8 DEF Claim
  <2>2. Subject' = job[j].attachment
      BY <2>1 DEF Subject
  <2> DEFINE a == job[j].attachment
  <2>3. CASE a \in Local \ overlapped
    <3>1. row[a].uploaded /\ Quiet(a) /\ row[a] \in Row
        BY <1>2, <1>8, <2>3, JobsAndExecutions, <1>1 DEF Claim, Usable
    <3>2. worker'.new = [row[a] EXCEPT !.rejection = "none", !.metadata = "pending",
                                       !.malware = "pending"]
        BY <1>8, <2>3 DEF Claim
    <3>3. worker'.new.sanitized = row[a].sanitized
        BY <3>1, <3>2 DEF Row
    <3> QED
        BY <1>6, <2>1, <2>2, <3>1, <3>3 DEF ImageIsDeclared, Quiet
  <2>4. CASE a \notin Local \ overlapped
      BY <1>6, <2>1, <2>2, <2>4 DEF ImageIsDeclared
  <2> QED
      BY <2>3, <2>4
\* What the hash check and the object store say leaves the image alone.
<1>9. CASE CheckHash \/ Sanitize \/ Fetch
  <2> DEFINE a == Subject
  <2>1. /\ Executing /\ worker \in Execution /\ worker.new \in Row
        /\ a \in Attachment /\ UNCHANGED <<row, job>>
      BY <1>1, <1>9, JobsAndExecutions
         DEF CheckHash, Sanitize, Fetch, Executing, Continue
  <2>2. PICK stage \in {"sanitize", "ready", "failing"}, new \in Row : Continue(stage, new)
      BY <1>1, <1>9, ContinueSteps
  <2>3. worker'.new = new /\ worker'.job = worker.job /\ Subject' = a
    <3>1. worker' = [worker EXCEPT !.stage = stage, !.new = new]
        BY <2>2 DEF Continue
    <3>2. worker'.new = new /\ worker'.job = worker.job
        BY <2>1, <3>1 DEF Execution
    <3> QED
        BY <2>1, <3>2 DEF Subject
  <2>4. CASE a \in Local \ overlapped
    <3>1. /\ row[a].uploaded /\ file[a] = "declared" /\ Quiet(a)
          /\ worker.new.sanitized => a \in Image /\ image[a] = "declared"
        BY <1>2, <2>1, <2>4 DEF FileInv, ImageIsDeclared, Quiet
    <3>2. /\ new.sanitized => a \in Image /\ image'[a] = "declared"
          /\ a \in Image /\ image[a] = "declared" => image'[a] = "declared"
          /\ \A b \in Local \ {a} : image'[b] = image[b]
      <4>1. CASE CheckHash \/ Fetch
        <5>1. UNCHANGED image /\ worker'.new.sanitized = worker.new.sanitized
            BY <4>1, <2>1, SanitizedIsKept
        <5> QED
            BY <2>3, <3>1, <5>1
      <4>2. CASE Sanitize
        <5>1. CASE a \in Image
          <6>1. image' = [image EXCEPT ![a] = "declared"]
              BY <3>1, <4>2, <5>1 DEF Sanitize
          <6> QED
              BY <1>1, <2>4, <5>1, <6>1 DEF TypeOK
        <5>2. CASE a \notin Image
          <6>1. Continue("failing", Rejected(worker.new))
              BY <3>1, <4>2, <5>2 DEF Sanitize
          <6>2. worker'.new = Rejected(worker.new)
              BY <2>1, <6>1 DEF Continue, Execution
          <6>3. new.sanitized = worker.new.sanitized
              BY <2>1, <2>3, <6>2 DEF Rejected, Row
          <6>4. \E content \in {image[a], "none"} : image' = [image EXCEPT ![a] = content]
              BY <3>1, <4>2, <5>2 DEF Sanitize
          <6>5. \A b \in Local \ {a} : image'[b] = image[b]
              BY <1>1, <6>4 DEF TypeOK
          <6> QED
              BY <3>1, <5>2, <6>3, <6>5
        <5> QED
            BY <5>1, <5>2
      <4> QED
          BY <1>9, <4>1, <4>2
    <3>3. ASSUME NEW b \in Local \ overlapped PROVE Quiet(b)'
      <4>1. CASE b = a
        <5>1. Writers(b)' = Writers(b)
            BY <1>5 DEF Writers
        <5> QED
            BY <1>5, <2>1, <3>1, <3>2, <4>1, <5>1 DEF Quiet
      <4>2. CASE b # a
          BY <1>1, <1>2, <1>5, <2>1, <3>2, <4>2, QuietStaysQuiet
      <4> QED
          BY <4>1, <4>2
    <3> QED
        BY <1>5, <2>1, <2>3, <3>1, <3>2, <3>3 DEF ImageIsDeclared
  <2>5. CASE a \notin Local \ overlapped
    <3>1. \A b \in Local \ overlapped : image'[b] = image[b]
      <4>1. \/ UNCHANGED image
            \/ \E content : image' = [image EXCEPT ![a] = content]
          BY <1>9 DEF CheckHash, Sanitize, Fetch
      <4> QED
          BY <1>1, <2>5, <4>1 DEF TypeOK
    <3>2. \A b \in Local \ overlapped : Quiet(b)'
        BY <1>1, <1>2, <1>5, <2>1, <3>1, QuietStaysQuiet
    <3> QED
        BY <1>5, <2>3, <2>5, <3>2 DEF ImageIsDeclared
  <2> QED
      BY <2>4, <2>5
<1>10. CASE CommitExecution
  <2> DEFINE a == Subject
  <2>1. /\ Executing /\ worker.new \in Row /\ worker.loaded \in Row /\ a \in Attachment
      BY <1>1, <1>10, JobsAndExecutions DEF CommitExecution, Executing
  <2>2. /\ row' = [row EXCEPT ![a] = Written(a, worker.loaded, worker.new)]
        /\ UNCHANGED image /\ ~Executing'
      BY <1>10 DEF CommitExecution, Executing
  <2>3. SameOwner(worker.new, worker.loaded)
      BY <2>1 DEF FileInv, OwnerIsKept
  <2>4. /\ row'[a].uploaded = row[a].uploaded /\ row'[a].anonymised = row[a].anonymised
        /\ row'[a].sanitized \in {row[a].sanitized, worker.new.sanitized}
    <3> DEFINE w == Written(a, worker.loaded, worker.new)
    <3>1. /\ w["uploaded"] = row[a]["uploaded"] /\ w["anonymised"] = row[a]["anonymised"]
          /\ w["sanitized"] \in {row[a]["sanitized"], worker.new["sanitized"]}
        BY <1>1, <2>1, <2>3, WrittenColumns DEF SameOwner, TypeOK
    <3>2. row'[a] = w
        BY <1>1, <2>1, <2>2 DEF TypeOK
    <3> HIDE DEF w
    <3> QED
        BY <3>1, <3>2
  <2>5. ASSUME NEW b \in Local \ overlapped PROVE Quiet(b)'
    <3>1. CASE b = a
      <4>1. /\ row[a].uploaded /\ Quiet(a)
            /\ worker.new.sanitized => a \in Image /\ image[a] = "declared"
          BY <1>2, <2>1, <3>1 DEF FileInv, ImageIsDeclared
      <4>2. Writers(b)' = Writers(b)
          BY <1>5 DEF Writers
      <4> QED
          BY <1>5, <2>2, <2>4, <3>1, <4>1, <4>2 DEF Quiet
    <3>2. CASE b # a
      <4>1. row'[b] = row[b]
          BY <1>1, <1>4, <2>2, <3>2 DEF TypeOK
      <4> QED
          BY <1>1, <1>2, <1>5, <2>2, <4>1, QuietStaysQuiet
    <3> QED
        BY <3>1, <3>2
  <2> QED
      BY <2>2, <2>5 DEF ImageIsDeclared
<1> QED
    BY <1>7, <1>8, <1>9, <1>10 DEF Process

\* What does not concern the execution leaves it to its image.
LEMMA ExecutionIsLeftAlone ==
    ASSUME FileInv, ~expired, UNCHANGED <<worker, image>>, overlapped \subseteq overlapped',
           job' = job \/ \E a : job' = WithJob(a),
           \A a \in Local \ overlapped' : row[a].uploaded => row'[a].uploaded
    PROVE  ImageIsDeclared'
<1> SUFFICES ASSUME Executing', Subject' \in Local \ overlapped'
             PROVE  /\ row'[Subject'].uploaded
                    /\ worker'.new.sanitized => Subject' \in Image /\ image'[Subject'] = "declared"
    BY DEF ImageIsDeclared
<1>1. Executing
    BY DEF Executing
<1>2. worker.job \in DOMAIN job /\ TypeOK
    BY <1>1, JobsAndExecutions DEF FileInv, TypeInv
<1>3. Subject' = Subject
  <2>1. job'[worker.job] = job[worker.job]
    <3>1. CASE job' = job
        BY <3>1
    <3>2. ASSUME NEW a, job' = WithJob(a) PROVE job'[worker.job] = job[worker.job]
        BY <1>2, <3>2 DEF WithJob, TypeOK
    <3> QED
        BY <3>1, <3>2
  <2> QED
      BY <2>1 DEF Subject
<1> QED
    BY <1>1, <1>3 DEF FileInv, ImageIsDeclared

LEMMA FileStep == FileInv /\ OwnerInv /\ [Next]_vars => FileInv'
<1> SUFFICES ASSUME FileInv, OwnerInv, [Next]_vars PROVE FileInv'
    OBVIOUS
<1>1. OwnerInv' /\ TypeInv' /\ TypeInv /\ TypeOK
    BY OwnerStep DEF OwnerInv, TypeInv
<1> SUFFICES Undisturbed' /\ ImageIsDeclared'
    BY <1>1 DEF FileInv, OwnerInv
<1>2. CASE expired'
    BY <1>2 DEF Undisturbed, ImageIsDeclared
<1>3. CASE ~expired'
  <2>1. ~expired
      BY <1>3 DEF Next, vars, StartPut, Open, FinishPut, RefusePut, AbandonPut, CommitPut,
             RequestCompletion, CompleteLocal, CompleteRemote, Process, ClaimUnusable, Claim,
             CheckHash, Sanitize, Fetch, Continue, CommitExecution, RollbackExecution, FinishJob,
             BindReport, BindAnswer, Expire, RetentionPass, RetentionFails, Crash
  <2>2. \A a \in Local \ overlapped : Quiet(a)
      BY <2>1 DEF FileInv, Undisturbed
  <2>3. \A a \in Local : a \in Attachment /\ row[a] \in Row /\ a \notin Remote
      BY <1>1, OneProvider DEF TypeOK, Attachment
  \* Whatever leaves rows, files and requests alone as far as local attachments are concerned.
  <2>4. ASSUME UNCHANGED <<file, image, put, overlapped, worker>>,
               job' = job \/ \E a : job' = WithJob(a),
               \A a \in Local : /\ row'[a].anonymised = row[a].anonymised
                                /\ row'[a].uploaded = row[a].uploaded
                                /\ row'[a].sanitized = row[a].sanitized
        PROVE  Undisturbed' /\ ImageIsDeclared'
    <3>1. \A a \in Local \ overlapped : Quiet(a)'
        BY <1>1, <2>2, <2>4, QuietStaysQuiet
    <3>2. ImageIsDeclared'
        BY <2>1, <2>4, ExecutionIsLeftAlone
    <3> QED
        BY <2>4, <3>1, <3>2 DEF Undisturbed
  <2>5. CASE UNCHANGED vars
      BY <2>4, <2>5 DEF vars
  <2>6. ASSUME NEW p \in Put,
               \/ \E b \in Local, body \in {"declared", "other"} : StartPut(p, b, body)
               \/ FinishPut(p) \/ RefusePut(p) \/ AbandonPut(p) \/ CommitPut(p)
        PROVE  Undisturbed' /\ ImageIsDeclared'
    <3>1. overlapped \subseteq overlapped' /\ UNCHANGED <<worker, job, image>>
        BY <2>6 DEF StartPut, Open, FinishPut, RefusePut, AbandonPut, CommitPut
    <3>2. \A a \in Local \ overlapped' : Quiet(a)' /\ (row[a].uploaded => row'[a].uploaded)
        BY <1>1, <2>2, <2>6, <3>1, QuietPuts
    <3> QED
        BY <2>1, <3>1, <3>2, ExecutionIsLeftAlone DEF Undisturbed
  <2>7. ASSUME NEW a \in Attachment, RequestCompletion(a) PROVE Undisturbed' /\ ImageIsDeclared'
      BY <2>4, <2>7 DEF RequestCompletion
  <2>8. CASE CompleteLocal
      BY <2>4, <2>8 DEF CompleteLocal
  <2>9. CASE CompleteRemote
    <3>1. \A a \in Local : row'[a] = row[a]
        BY <1>1, <2>3, <2>9 DEF CompleteRemote, TypeOK
    <3> QED
        BY <2>4, <2>9, <3>1 DEF CompleteRemote
  <2>10. CASE Process
    <3>1. UNCHANGED overlapped
        BY <2>10 DEF Process, ClaimUnusable, Claim, CheckHash, Sanitize, Fetch, Continue,
                     CommitExecution, RollbackExecution, FinishJob
    <3> QED
        BY <2>1, <2>10, <3>1, QuietProcess DEF Undisturbed
  <2>11. ASSUME NEW t \in Report, NEW S \in SUBSET Attachment, BindReport(t, S)
         PROVE  Undisturbed' /\ ImageIsDeclared'
    <3>1. ASSUME NEW a \in Local
          PROVE  /\ row'[a].anonymised = row[a].anonymised
                 /\ row'[a].uploaded = row[a].uploaded
                 /\ row'[a].sanitized = row[a].sanitized
      <4>1. row'[a] = IF a \in S THEN [row[a] EXCEPT !.report = t]
                      ELSE [row[a] EXCEPT !.report = IF @ = t THEN Nobody ELSE @]
          BY <2>3, <2>11 DEF BindReport
      <4> QED
          BY <2>3, <4>1 DEF Row
    <3> QED
        BY <2>4, <2>11, <3>1 DEF BindReport
  <2>12. ASSUME NEW d \in Answer, NEW S \in SUBSET Attachment, BindAnswer(d, S)
         PROVE  Undisturbed' /\ ImageIsDeclared'
    <3>1. ASSUME NEW a \in Local
          PROVE  /\ row'[a].anonymised = row[a].anonymised
                 /\ row'[a].uploaded = row[a].uploaded
                 /\ row'[a].sanitized = row[a].sanitized
      <4>1. row'[a] = IF a \in S THEN [row[a] EXCEPT !.answer = d]
                      ELSE [row[a] EXCEPT !.answer = IF @ = d THEN Nobody ELSE @]
          BY <2>3, <2>12 DEF BindAnswer
      <4> QED
          BY <2>3, <4>1 DEF Row
    <3> QED
        BY <2>4, <2>12, <3>1 DEF BindAnswer
  <2>13. CASE Expire \/ RetentionPass \/ RetentionFails
      BY <1>3, <2>1, <2>13 DEF Expire, RetentionPass, RetentionFails
  <2>14. CASE Crash
    <3>1. UNCHANGED <<row, file, image, overlapped>> /\ \A p \in Put : put'[p] = Nothing
        BY <2>14 DEF Crash
    <3>2. ASSUME NEW a \in Local \ overlapped PROVE Quiet(a)'
      <4>1. Writers(a)' = {}
          BY <3>1 DEF Writers
      <4> QED
          BY <2>2, <3>1, <4>1 DEF Quiet
    <3>3. ~Executing'
        BY <2>14 DEF Crash, Executing, Nothing
    <3> QED
        BY <3>1, <3>2, <3>3 DEF Undisturbed, ImageIsDeclared
  <2> QED
      BY <2>5, <2>6, <2>7, <2>8, <2>9, <2>10, <2>11, <2>12, <2>13, <2>14 DEF Next
<1> QED
    BY <1>2, <1>3

-----------------------------------------------------------------------------
(***************************************************************************)
(* Remote attachments                                                      *)
(***************************************************************************)
WorkInv == TypeInv /\ OwnerIsKept /\ RemoteIsCurrent /\ ProcessingRemains

SameState(r, s) == SameProgress(r, s) /\ r.sanitized = s.sanitized

LEMMA ProcessingMeans ==
    ASSUME NEW a \in Remote
    PROVE  /\ AttachmentState(a) = "processing" =>
                 /\ row[a].uploaded /\ row[a].rejection = "none"
                 /\ Ready(row[a]) => row[a].anonymised
           /\ SameState(row'[a], row[a]) /\ AttachmentState(a)' = "processing" =>
                 AttachmentState(a) = "processing"
BY DEF AttachmentState, SameState, SameProgress, Ready

\* What does not concern the execution may add a job, and then does so for what it restarts.
LEMMA WorkIsLeftAlone ==
    ASSUME WorkInv, UNCHANGED worker, job' = job \/ \E a : job' = WithJob(a),
           \A a \in Remote : \/ SameState(row'[a], row[a])
                             \/ ~row'[a].uploaded
                             \/ job' = WithJob(a)
    PROVE  RemoteIsCurrent' /\ ProcessingRemains'
<1>1. TypeInv /\ TypeOK /\ job \in Seq(Job)
    BY DEF WorkInv, TypeInv, TypeOK
<1>2. \A j \in DOMAIN job : j \in DOMAIN job' /\ job'[j] = job[j]
  <2>1. CASE job' = job
      BY <2>1
  <2>2. ASSUME NEW a, job' = WithJob(a)
        PROVE  \A j \in DOMAIN job : j \in DOMAIN job' /\ job'[j] = job[j]
      BY <1>1, <2>2 DEF WithJob
  <2> QED
      BY <2>1, <2>2
<1>3. ASSUME NEW a, job' = WithJob(a)
      PROVE  \E n \in DOMAIN job' \ DOMAIN job :
                job'[n] = [attachment |-> a, status |-> "unfinished"]
  <2>1. Len(job) + 1 \in DOMAIN job' \ DOMAIN job
      BY <1>1, <1>3 DEF WithJob
  <2>2. job'[Len(job) + 1] = [attachment |-> a, status |-> "unfinished"]
      BY <1>1, <1>3 DEF WithJob
  <2> QED
      BY <2>1, <2>2
<1>4. worker # Nothing => worker.job \in DOMAIN job
    BY DEF WorkInv, TypeInv, JobInHand
<1>5. worker.stage = "succeeded" \/ Executing => worker # Nothing
    BY <1>1, WorkerStages
<1>6. ASSUME Executing', Subject' \in Remote
      PROVE  /\ worker'.stage \in {"fetch", "ready", "failing"}
             /\ worker'.loaded.uploaded /\ ~worker'.loaded.anonymised
             /\ worker'.stage = "ready" => Ready(worker'.new) /\ worker'.new.rejection = "none"
             /\ \/ Unfinished(Subject)' \ {worker'.job} # {}
                \/ ~row'[Subject'].uploaded
                \/ SameProgress(row'[Subject'], worker'.loaded)
  <2>1. Executing /\ worker.job \in DOMAIN job /\ Subject' = Subject
      BY <1>2, <1>4, <1>5, <1>6 DEF Executing, Subject
  <2>2. /\ worker.stage \in {"fetch", "ready", "failing"}
        /\ worker.loaded.uploaded /\ ~worker.loaded.anonymised
        /\ worker.stage = "ready" => Ready(worker.new) /\ worker.new.rejection = "none"
        /\ \/ Unfinished(Subject) \ {worker.job} # {}
           \/ ~row[Subject].uploaded
           \/ SameProgress(row[Subject], worker.loaded)
      BY <1>6, <2>1 DEF WorkInv, RemoteIsCurrent
  <2>3. Unfinished(Subject) \subseteq {j \in DOMAIN job' : /\ job'[j].attachment = Subject
                                                          /\ job'[j].status = "unfinished"}
      BY <1>2 DEF Unfinished
  <2>4. Unfinished(Subject)' = {j \in DOMAIN job' : /\ job'[j].attachment = Subject
                                                    /\ job'[j].status = "unfinished"}
      BY <2>1 DEF Unfinished
  <2>5. CASE job' = WithJob(Subject)
    <3>1. PICK n \in DOMAIN job' \ DOMAIN job :
             job'[n] = [attachment |-> Subject, status |-> "unfinished"]
        BY <1>3, <2>5
    <3>2. n \in Unfinished(Subject)' \ {worker'.job}
        BY <2>1, <2>4, <3>1
    <3> QED
        BY <2>2, <3>2
  <2>6. CASE ~row'[Subject].uploaded
      BY <2>1, <2>2, <2>6
  <2>7. CASE SameState(row'[Subject], row[Subject])
      BY <2>1, <2>2, <2>3, <2>4, <2>7 DEF SameState, SameProgress
  <2> QED
      BY <1>6, <2>1, <2>5, <2>6, <2>7
<1>7. ASSUME NEW a \in Remote, AttachmentState(a)' = "processing"
      PROVE  Remaining(a)' # {}
  <2>1. Remaining(a) \subseteq Remaining(a)'
      BY <1>2 DEF Remaining
  <2>2. CASE job' = WithJob(a)
    <3>1. PICK n \in DOMAIN job' \ DOMAIN job :
             job'[n] = [attachment |-> a, status |-> "unfinished"]
        BY <1>3, <2>2
    <3>2. n \in Remaining(a)'
        BY <1>4, <1>5, <3>1 DEF Remaining
    <3> QED
        BY <3>2
  <2>3. CASE job' # WithJob(a)
    <3>1. row'[a].uploaded
        BY <1>7 DEF AttachmentState
    <3>2. AttachmentState(a) = "processing"
        BY <1>7, <2>3, <3>1, ProcessingMeans
    <3> QED
        BY <2>1, <3>2 DEF WorkInv, ProcessingRemains
  <2> QED
      BY <2>2, <2>3
<1> QED
    BY <1>6, <1>7 DEF RemoteIsCurrent, ProcessingRemains

\* The step that commits what has become of a remote attachment.
LEMMA CommitLeavesWork ==
    ASSUME WorkInv, CommitExecution
    PROVE  ProcessingRemains'
<1> DEFINE s == Subject
           w == Written(s, worker.loaded, worker.new)
<1>1. TypeInv /\ TypeOK
    BY DEF WorkInv, TypeInv
<1>2. /\ Executing /\ worker.new \in Row /\ worker.loaded \in Row /\ s \in Attachment
      /\ worker.job \in DOMAIN job /\ job[worker.job].status = "unfinished"
      /\ job[worker.job].attachment = s
    BY <1>1, JobsAndExecutions DEF CommitExecution, Executing, Subject
<1>3. /\ row' = [row EXCEPT ![s] = w] /\ job' = job
      /\ worker'.stage = IF worker.stage = "ready" THEN "succeeded" ELSE "failed"
      /\ worker'.job = worker.job
    BY DEF CommitExecution
<1>4. ASSUME NEW a \in Remote, a # s, AttachmentState(a)' = "processing"
      PROVE  Remaining(a)' # {}
  <2>1. row'[a] = row[a]
      BY <1>3, <1>4
  <2>2. AttachmentState(a) = "processing"
      BY <1>4, <2>1, ProcessingMeans DEF SameState, SameProgress
  <2>3. Remaining(a) \subseteq Remaining(a)'
      BY <1>2, <1>3, <1>4 DEF Remaining
  <2> QED
      BY <2>2, <2>3 DEF WorkInv, ProcessingRemains
<1>5. ASSUME NEW a \in Remote, a = s, AttachmentState(a)' = "processing"
      PROVE  Remaining(a)' # {}
  <2>1. CASE worker.stage # "ready"
    <3>1. worker.job \in Remaining(a)'
        BY <1>2, <1>3, <1>5, <2>1 DEF Remaining
    <3> QED
        BY <3>1
  <2>2. CASE Unfinished(s) \ {worker.job} # {}
    <3>1. PICK j \in Unfinished(s) : j # worker.job
        BY <2>2
    <3>2. j \in Remaining(a)'
        BY <1>3, <1>5, <3>1 DEF Unfinished, Remaining
    <3> QED
        BY <3>2
  <2>3. CASE worker.stage = "ready" /\ Unfinished(s) \ {worker.job} = {}
    <3>1. /\ worker.loaded.uploaded /\ ~worker.loaded.anonymised
          /\ Ready(worker.new) /\ worker.new.rejection = "none"
          /\ ~row[s].uploaded \/ SameProgress(row[s], worker.loaded)
        BY <1>2, <1>5, <2>3 DEF WorkInv, RemoteIsCurrent
    <3>2. SameOwner(worker.new, worker.loaded)
        BY <1>2 DEF WorkInv, OwnerIsKept
    <3>3. \A c \in {"uploaded", "anonymised", "metadata", "malware", "rejection"} :
             w[c] = IF worker.new[c] = worker.loaded[c] THEN row[s][c] ELSE worker.new[c]
        BY <1>1, <1>2, WrittenColumns DEF TypeOK
    <3>4. row'[s] = w
        BY <1>1, <1>2, <1>3 DEF TypeOK
    <3> HIDE DEF s, w
    <3>5. w.uploaded = row[s].uploaded /\ w.anonymised = row[s].anonymised
        BY <3>2, <3>3 DEF SameOwner
    <3>6. CASE ~row[s].uploaded
        BY <1>5, <3>4, <3>5, <3>6 DEF AttachmentState
    <3>7. CASE SameProgress(row[s], worker.loaded)
      <4>1. ~w.anonymised
          BY <3>1, <3>5, <3>7 DEF SameProgress
      <4>2. w.metadata = worker.new.metadata /\ w.malware = worker.new.malware
            /\ w.rejection = worker.new.rejection
          BY <3>3, <3>7 DEF SameProgress
      <4>3. Ready(w) /\ w.rejection = "none"
          BY <3>1, <4>2 DEF Ready
      <4> QED
          BY <1>5, <3>4, <4>1, <4>3 DEF AttachmentState
    <3> QED
        BY <3>1, <3>6, <3>7
  <2> QED
      BY <2>1, <2>2, <2>3
<1> QED
    BY <1>4, <1>5 DEF ProcessingRemains

LEMMA WorkOfProcess ==
    ASSUME WorkInv, Process
    PROVE  RemoteIsCurrent' /\ ProcessingRemains'
<1>1. TypeInv /\ TypeOK
    BY DEF WorkInv, TypeInv
\* Rows and jobs stay, and the execution does not end in success.
<1>2. ASSUME UNCHANGED <<row, job>>, worker'.stage # "succeeded"
      PROVE  ProcessingRemains'
  <2> SUFFICES ASSUME NEW a \in Remote, AttachmentState(a)' = "processing"
               PROVE  Remaining(a)' # {}
      BY DEF ProcessingRemains
  <2>1. AttachmentState(a) = "processing"
      BY <1>2, ProcessingMeans DEF SameState, SameProgress
  <2>2. Remaining(a) \subseteq Remaining(a)'
      BY <1>2 DEF Remaining
  <2> QED
      BY <2>1, <2>2 DEF WorkInv, ProcessingRemains
<1>3. CASE (\E j \in DOMAIN job : ClaimUnusable(j)) \/ RollbackExecution
  <2>1. UNCHANGED <<row, job>> /\ worker'.stage = "failed" /\ ~Executing'
      BY <1>3 DEF ClaimUnusable, RollbackExecution, Executing
  <2> QED
      BY <1>2, <2>1 DEF RemoteIsCurrent
<1>4. ASSUME NEW j \in DOMAIN job, Claim(j) PROVE RemoteIsCurrent' /\ ProcessingRemains'
  <2> DEFINE a == job[j].attachment
  <2>1. UNCHANGED <<row, job>> /\ worker'.job = j /\ worker'.stage \in {"check", "fetch"}
      BY <1>4 DEF Claim
  <2>2. Subject' = job[j].attachment
      BY <2>1 DEF Subject
  <2>3. CASE a \in Remote
    <3>1. a \notin Local
        BY <2>3, OneProvider
    <3>2. worker'.stage = "fetch" /\ worker'.loaded = row[a]
        BY <1>4, <3>1 DEF Claim
    <3>3. row[a].uploaded /\ ~row[a].anonymised
        BY <1>4, <3>1 DEF Claim, Usable
    <3>4. SameProgress(row'[Subject'], worker'.loaded)
        BY <2>1, <2>2, <3>2 DEF SameProgress
    <3> QED
        BY <1>2, <2>1, <3>2, <3>3, <3>4 DEF RemoteIsCurrent
  <2>4. CASE a \notin Remote
      BY <1>2, <2>1, <2>2, <2>4 DEF RemoteIsCurrent
  <2> QED
      BY <2>3, <2>4
<1>5. CASE CheckHash \/ Sanitize \/ Fetch
  <2>1. /\ Executing /\ worker \in Execution /\ worker.new \in Row
        /\ UNCHANGED <<row, job>>
      BY <1>1, <1>5, JobsAndExecutions DEF CheckHash, Sanitize, Fetch, Executing, Continue
  <2>2. PICK stage \in {"sanitize", "ready", "failing"}, new \in Row : Continue(stage, new)
      BY <1>1, <1>5, ContinueSteps
  <2>3. \A t, n : Continue(t, n) => /\ worker'.stage = t /\ worker'.new = n
                                    /\ worker'.job = worker.job /\ worker'.loaded = worker.loaded
      BY <2>1 DEF Continue, Execution
  <2>4. Subject' = Subject
      BY <2>1, <2>2, <2>3 DEF Subject
  <2>5. ProcessingRemains'
      BY <1>2, <2>1, <2>2, <2>3
  <2>6. ASSUME Subject \in Remote PROVE RemoteIsCurrent'
    <3>1. /\ Fetch
          /\ worker.loaded.uploaded /\ ~worker.loaded.anonymised
          /\ \/ Unfinished(Subject) \ {worker.job} # {}
             \/ ~row[Subject].uploaded
             \/ SameProgress(row[Subject], worker.loaded)
        BY <1>5, <2>1, <2>6 DEF WorkInv, RemoteIsCurrent, CheckHash, Sanitize
    <3>2. /\ worker'.stage \in {"ready", "failing"}
          /\ worker'.stage = "ready" => Ready(worker'.new) /\ worker'.new.rejection = "none"
      <4> DEFINE done == [[worker.new EXCEPT !.malware = "clean", !.rejection = "none"]
                             EXCEPT !.metadata = "ready"]
      <4>1. \/ Continue("ready", done)
            \/ \E n : Continue("failing", n)
          BY <3>1 DEF Fetch
      <4>2. Ready(done) /\ done.rejection = "none"
          BY <2>1 DEF Ready, Row
      <4> HIDE DEF done
      <4>3. CASE Continue("ready", done)
          BY <2>3, <4>2, <4>3
      <4>4. CASE \E n : Continue("failing", n)
          BY <2>3, <4>4
      <4> QED
          BY <4>1, <4>3, <4>4
    <3>3. Unfinished(Subject)' = Unfinished(Subject)
        BY <2>1, <2>4 DEF Unfinished
    <3>4. worker'.job = worker.job /\ worker'.loaded = worker.loaded
        BY <2>2, <2>3
    <3> QED
        BY <2>1, <2>4, <3>1, <3>2, <3>3, <3>4 DEF RemoteIsCurrent
  <2> QED
      BY <2>4, <2>5, <2>6 DEF RemoteIsCurrent
<1>6. CASE CommitExecution
  <2>1. ~Executing'
      BY <1>6 DEF CommitExecution, Executing
  <2> QED
      BY <1>6, <2>1, CommitLeavesWork DEF RemoteIsCurrent
<1>7. CASE FinishJob
  <2>1. /\ worker' = Nothing /\ worker # Nothing /\ worker.job \in DOMAIN job /\ UNCHANGED row
        /\ ~Executing'
      BY <1>1, <1>7, WorkerStages DEF FinishJob, Executing, Nothing, TypeInv, JobInHand
  <2>2. PICK status \in {"succeeded", "unfinished", "failed"} :
           /\ job' = [job EXCEPT ![worker.job].status = status]
           /\ status = "succeeded" => worker.stage = "succeeded"
      BY <1>7 DEF FinishJob
  <2>3. /\ DOMAIN job' = DOMAIN job
        /\ \A j \in DOMAIN job : j # worker.job => job'[j] = job[j]
      BY <2>2
  <2>4. /\ job'[worker.job].status = status
        /\ job'[worker.job].attachment = job[worker.job].attachment
    <3>1. job[worker.job] \in Job
        BY <1>1, <2>1, JobsAndExecutions
    <3> QED
        BY <2>1, <2>2, <3>1 DEF Job
  <2>5. ASSUME NEW a \in Remote, AttachmentState(a)' = "processing" PROVE Remaining(a)' # {}
    <3>1. AttachmentState(a) = "processing"
        BY <2>1, <2>5, ProcessingMeans DEF SameState, SameProgress
    <3>2. PICK j \in Remaining(a) : TRUE
        BY <3>1 DEF WorkInv, ProcessingRemains
    <3>3. j \in Remaining(a)'
        BY <2>1, <2>2, <2>3, <2>4, <3>2 DEF Remaining, Nothing
    <3> QED
        BY <3>3
  <2> QED
      BY <2>1, <2>5 DEF RemoteIsCurrent, ProcessingRemains
<1> QED
    BY <1>3, <1>4, <1>5, <1>6, <1>7 DEF Process

LEMMA WorkStep == WorkInv /\ OwnerInv /\ [Next]_vars => WorkInv'
<1> SUFFICES ASSUME WorkInv, OwnerInv, [Next]_vars PROVE WorkInv'
    OBVIOUS
<1>1. OwnerInv' /\ TypeInv' /\ TypeInv /\ TypeOK
    BY OwnerStep DEF OwnerInv, TypeInv
<1> SUFFICES RemoteIsCurrent' /\ ProcessingRemains'
    BY <1>1 DEF WorkInv, OwnerInv
<1>2. \A a \in Attachment : row[a] \in Row
    BY <1>1 DEF TypeOK
<1>3. \A a \in Remote : a \in Attachment /\ a \notin Local
    BY OneProvider DEF Attachment
<1>4. CASE UNCHANGED <<row, job, worker>>
    BY <1>4, WorkIsLeftAlone DEF SameState, SameProgress
<1>5. ASSUME NEW p \in Put, NEW a \in Local, NEW body \in {"declared", "other"}, StartPut(p, a, body)
      PROVE  UNCHANGED <<row, job, worker>>
    BY <1>5 DEF StartPut, Open
<1>6. ASSUME NEW p \in Put, FinishPut(p) \/ RefusePut(p) \/ AbandonPut(p)
      PROVE  UNCHANGED <<row, job, worker>>
    BY <1>6 DEF FinishPut, RefusePut, AbandonPut
<1>7. ASSUME NEW p \in Put, CommitPut(p) PROVE RemoteIsCurrent' /\ ProcessingRemains'
  <2>1. put[p].attachment \in Local
      BY <1>1, <1>7 DEF CommitPut, TypeOK, ContentRequest, Nothing
  <2>2. \A a \in Remote : row'[a] = row[a]
      BY <1>3, <1>7, <2>1 DEF CommitPut
  <2>3. UNCHANGED <<job, worker>>
      BY <1>7 DEF CommitPut
  <2> QED
      BY <2>2, <2>3, WorkIsLeftAlone DEF SameState, SameProgress
<1>8. CASE CompleteLocal
  <2>1. UNCHANGED <<row, worker>> /\ (job' = job \/ job' = WithJob(request.attachment))
      BY <1>8 DEF CompleteLocal
  <2> QED
      BY <2>1, WorkIsLeftAlone DEF SameState, SameProgress
<1>9. CASE CompleteRemote
  <2>1. UNCHANGED worker /\ job' = WithJob(request.attachment)
      BY <1>9 DEF CompleteRemote
  <2>2. \A a \in Remote : a # request.attachment => row'[a] = row[a]
      BY <1>9 DEF CompleteRemote
  <2> QED
      BY <2>1, <2>2, WorkIsLeftAlone DEF SameState, SameProgress
<1>10. ASSUME NEW t \in Report, NEW S \in SUBSET Attachment, BindReport(t, S)
       PROVE  RemoteIsCurrent' /\ ProcessingRemains'
  <2>1. UNCHANGED <<job, worker>>
      BY <1>10 DEF BindReport
  <2>2. ASSUME NEW a \in Remote PROVE SameState(row'[a], row[a])
    <3>1. row'[a] = IF a \in S THEN [row[a] EXCEPT !.report = t]
                    ELSE [row[a] EXCEPT !.report = IF @ = t THEN Nobody ELSE @]
        BY <1>3, <1>10 DEF BindReport
    <3> QED
        BY <1>2, <1>3, <3>1 DEF SameState, SameProgress, Row
  <2> QED
      BY <2>1, <2>2, WorkIsLeftAlone
<1>11. ASSUME NEW d \in Answer, NEW S \in SUBSET Attachment, BindAnswer(d, S)
       PROVE  RemoteIsCurrent' /\ ProcessingRemains'
  <2>1. UNCHANGED <<job, worker>>
      BY <1>11 DEF BindAnswer
  <2>2. ASSUME NEW a \in Remote PROVE SameState(row'[a], row[a])
    <3>1. row'[a] = IF a \in S THEN [row[a] EXCEPT !.answer = d]
                    ELSE [row[a] EXCEPT !.answer = IF @ = d THEN Nobody ELSE @]
        BY <1>3, <1>11 DEF BindAnswer
    <3> QED
        BY <1>2, <1>3, <3>1 DEF SameState, SameProgress, Row
  <2> QED
      BY <2>1, <2>2, WorkIsLeftAlone
<1>12. CASE RetentionPass
  <2>1. UNCHANGED <<job, worker>>
      BY <1>12 DEF RetentionPass
  <2>2. ASSUME NEW a \in Remote PROVE ~row'[a].uploaded
    <3>1. row'[a] = Anonymised(row[a])
        BY <1>3, <1>12 DEF RetentionPass
    <3> QED
        BY <1>2, <1>3, <3>1 DEF Anonymised, Row
  <2> QED
      BY <2>1, <2>2, WorkIsLeftAlone
<1>13. CASE Crash
  <2>1. UNCHANGED <<row, job>> /\ ~Executing' /\ worker'.stage # "succeeded"
      BY <1>13 DEF Crash, Nothing, Executing
  <2>2. ASSUME NEW a \in Remote, AttachmentState(a)' = "processing" PROVE Remaining(a)' # {}
    <3>1. AttachmentState(a) = "processing"
        BY <2>1, <2>2, ProcessingMeans DEF SameState, SameProgress
    <3>2. Remaining(a) \subseteq Remaining(a)'
        BY <2>1 DEF Remaining
    <3> QED
        BY <3>1, <3>2 DEF WorkInv, ProcessingRemains
  <2> QED
      BY <2>1, <2>2 DEF RemoteIsCurrent, ProcessingRemains
<1>14. CASE UNCHANGED vars
    BY <1>4, <1>14 DEF vars
<1>15. CASE (\E a \in Attachment : RequestCompletion(a)) \/ Expire \/ RetentionFails
    BY <1>4, <1>15 DEF RequestCompletion, Expire, RetentionFails
<1>16. CASE Process
    BY <1>16, WorkOfProcess
<1> QED
    BY <1>4, <1>5, <1>6, <1>7, <1>8, <1>9, <1>10, <1>11, <1>12, <1>13, <1>14, <1>15, <1>16 DEF Next

-----------------------------------------------------------------------------
(***************************************************************************)
(* The theorems                                                            *)
(***************************************************************************)
LEMMA IInvInit == Init => IInv
<1> SUFFICES ASSUME Init PROVE IInv
    OBVIOUS
<1>1. TypeInv /\ ~Executing
    BY TypeInit DEF Init, Executing, Nothing
<1>2. \A a \in Attachment : /\ ~row[a].uploaded /\ ~row[a].anonymised /\ ~row[a].sanitized
                            /\ row[a].report = Nobody
    BY DEF Init
<1>3. \A a \in Local : Writers(a) = {}
    BY DEF Init, Writers
<1>4. Undisturbed
    BY <1>2, <1>3 DEF Undisturbed, Quiet, Attachment
<1>5. ProcessingRemains
    BY <1>2 DEF ProcessingRemains, AttachmentState, Attachment
<1> QED
    BY <1>1, <1>2, <1>4, <1>5 DEF IInv, OwnerIsKept, BoundOnce, ImageIsDeclared, RemoteIsCurrent

\* IInv is inductive.
LEMMA IInvHolds == Spec => []IInv
<1>1. IInv /\ [Next]_vars => IInv'
    BY OwnerStep, FileStep, WorkStep DEF IInv, OwnerInv, FileInv, WorkInv
<1> QED
    BY <1>1, IInvInit, PTL DEF Spec

\* bind_attachments and replace_answer_attachments never leave an attachment with both a report
\* and an answer, although requests and executions write back columns of rows they had loaded.
THEOREM AttachmentsHaveOneOwner == Spec => []BoundOnce
<1>1. IInv => BoundOnce
    BY DEF IInv
<1> QED
    BY <1>1, IInvHolds, PTL

\* A local attachment that attachment_state calls ready has the declared content at its path and
\* in its image, whatever streams, retries and restarts there were, if its content requests came
\* one after the other.
THEOREM ReadyIsDeclared == Spec => []ReadyIsWhatWasDeclared
<1>1. ASSUME IInv PROVE ReadyIsWhatWasDeclared
  <2> SUFFICES ASSUME NEW a \in Local \ overlapped, AttachmentState(a) = "ready", ~expired
               PROVE  file[a] = "declared" /\ image[a] = "declared"
      BY DEF ReadyIsWhatWasDeclared
  <2>1. Quiet(a)
      BY <1>1 DEF IInv, Undisturbed
  <2>2. row[a].sanitized
      BY OneProvider DEF AttachmentState
  <2> QED
      BY <2>1, <2>2 DEF Quiet
<1> QED
    BY <1>1, IInvHolds, PTL

\* complete_remote_upload and process_remote_media: while a remote attachment is "processing",
\* one of its jobs has not succeeded, although an execution writes its verdict over a row that
\* has been restarted meanwhile.
THEOREM ProcessingIsAlwaysWorkedOn == Spec => []ProcessingIsWorkedOn
<1>1. IInv => ProcessingIsWorkedOn
    BY DEF IInv, ProcessingRemains, Remaining, ProcessingIsWorkedOn
<1> QED
    BY <1>1, IInvHolds, PTL
=============================================================================
