---------------------------- MODULE Attachments -----------------------------
(***************************************************************************)
(* The attachments of one incident (routers/uploads.py,                    *)
(* services/uploads.py, the two attachment jobs of workers.py, the binding *)
(* in reports.py and questions.py, the removal in retention.py).  A local  *)
(* attachment is streamed into a file before any lock is taken and         *)
(* processed by the worker, which reads the file twice; a remote one is in *)
(* an object store.  Requests and the worker hold the row they loaded, and *)
(* the ORM writes only the columns they have changed relative to it.       *)
(***************************************************************************)
EXTENDS Naturals, FiniteSets, Sequences

CONSTANTS
    Local, Remote,   \* attachments of storage provider local_proxy, and of the others
    Image,           \* the local ones whose declared content is an image of the declared type
    Report, Answer,
    Put,             \* the content requests that may be in flight together
    MaxPuts,         \* bound: content requests
    MaxJobs          \* bound: processing jobs

ASSUME BoundsAreNaturals == MaxPuts \in Nat /\ MaxJobs \in Nat

\* storage_provider is one column.
ASSUME OneProvider == Local \cap Remote = {}

VARIABLES
    row,        \* row[a]: the report_attachments row
    file,       \* file[a]: what is at quarantine/<id>.upload
    image,      \* image[a]: what the image at sanitized/<id>.jpg was made from
    put,        \* put[p]: the content request p
    puts,       \* how many content requests there have been
    overlapped, \* local attachments that two content requests have written at once (history)
    request,    \* the completion that is waiting for the lock, with the row it loaded
    job,        \* background_jobs in the order of their creation
    worker,     \* the execution of a job
    expired     \* the incident has been closed for business_retention_days

vars == <<row, file, image, put, puts, overlapped, request, job, worker, expired>>

Attachment == Local \cup Remote
Nobody == "nobody"
Nothing == [stage |-> "none"]

\* uploaded: uploaded_at, sha256 and original_path.  anonymised: the object key and the declared
\* hash are gone, for good.
Row == [uploaded : BOOLEAN, anonymised : BOOLEAN, sanitized : BOOLEAN,
        metadata : {"pending", "ready", "rejected", "expired"},
        malware : {"pending", "clean", "failed", "expired"},
        rejection : {"none", "reason", "retention"},
        report : Report \cup {Nobody}, answer : Answer \cup {Nobody}]

Content == {"none", "declared", "other"}

\* linked: what the request writes to is still the file at the path; alone: nobody else has
\* written to it meanwhile.
ContentRequest == [stage : {"stream", "commit"}, attachment : Local,
                   body : {"declared", "other"}, linked : BOOLEAN, alone : BOOLEAN]

\* unfinished: queued, running or waiting for another attempt (JobQueue tells them apart).
Job == [attachment : Attachment, status : {"unfinished", "succeeded", "failed"}]

Execution == [stage : {"check", "sanitize", "fetch", "ready", "failing"}, job : 1..MaxJobs,
              loaded : Row, new : Row]

\* An execution that has committed what it had to, and has to finish its job.
Ended == [stage : {"succeeded", "failed"}, job : 1..MaxJobs]

TypeOK ==
    /\ row \in [Attachment -> Row]
    /\ file \in [Local -> Content]
    /\ image \in [Local -> Content]
    /\ put \in [Put -> ContentRequest \cup {Nothing}]
    /\ puts \in 0..MaxPuts
    /\ overlapped \subseteq Local
    /\ request \in [stage : {"complete"}, attachment : Attachment, loaded : Row] \cup {Nothing}
    /\ job \in Seq(Job) /\ Len(job) <= MaxJobs
    /\ worker \in Execution \cup Ended \cup {Nothing}
    /\ expired \in BOOLEAN

Init ==
    /\ row = [a \in Attachment |->
                 [uploaded |-> FALSE, anonymised |-> FALSE, sanitized |-> FALSE,
                  metadata |-> "pending", malware |-> "pending", rejection |-> "none",
                  report |-> Nobody, answer |-> Nobody]]
    /\ file = [a \in Local |-> "none"]
    /\ image = [a \in Local |-> "none"]
    /\ put = [p \in Put |-> Nothing]
    /\ puts = 0
    /\ overlapped = {}
    /\ request = Nothing
    /\ job = <<>>
    /\ worker = Nothing
    /\ expired = FALSE

\* The row of a, when a session that had loaded it commits what it has made of it.
Written(a, loaded, new) ==
    [c \in DOMAIN new |-> IF new[c] = loaded[c] THEN row[a][c] ELSE new[c]]

-----------------------------------------------------------------------------
(***************************************************************************)
(* Content requests of local attachments                                   *)
(***************************************************************************)
Writers(a) == {p \in Put : put[p] # Nothing /\ put[p].attachment = a}

\* The other writers of the file of a, with the field f set.
Linked(a, p) == {q \in Writers(a) \ {p} : put[q].linked}

\* Opening the file truncates it for whoever is writing to it.
Open(p, a, body) ==
    /\ put[p] = Nothing
    /\ puts < MaxPuts
    /\ row[a].anonymised => body = "other"
    /\ puts' = puts + 1
    /\ file' = [file EXCEPT ![a] = "other"]
    /\ put' = [q \in Put |->
                  IF q = p THEN [stage |-> "stream", attachment |-> a, body |-> body,
                                 linked |-> TRUE, alone |-> Linked(a, p) = {}]
                  ELSE IF q \in Linked(a, p) THEN [put[q] EXCEPT !.alone = FALSE]
                  ELSE put[q]]
    /\ overlapped' = IF Writers(a) = {} THEN overlapped ELSE overlapped \cup {a}
    /\ UNCHANGED <<row, image, request, job, worker, expired>>

\* Variant: content can be sent again.
StartPutAgain(p, a, body) == Open(p, a, body)

\* upload_content: the intent has not expired and there is no content yet.
StartPut(p, a, body) == ~row[a].uploaded /\ Open(p, a, body)

\* Everybody who was writing to the file at the path of a writes to a file without a name now.
Unlinked(a) ==
    [q \in Put |-> IF q \in Writers(a) THEN [put[q] EXCEPT !.linked = FALSE] ELSE put[q]]

\* stream_request_to_quarantine: the content has the declared size and hash.  The file has it,
\* too, unless somebody else has written to it.
FinishPut(p) ==
    LET a == put[p].attachment IN
    /\ put[p].stage = "stream" /\ put[p].body = "declared"
    /\ \E content \in {"declared", "other"} :
          /\ put[p].alone => content = "declared"
          /\ file' = IF put[p].linked THEN [file EXCEPT ![a] = content] ELSE file
    /\ put' = [put EXCEPT ![p].stage = "commit"]
    /\ UNCHANGED <<row, image, puts, overlapped, request, job, worker, expired>>

\* It has not: the path is unlinked, whosever file is there.
RefusePut(p) ==
    LET a == put[p].attachment IN
    /\ put[p].stage = "stream" /\ put[p].body = "other"
    /\ file' = [file EXCEPT ![a] = "none"]
    /\ put' = [Unlinked(a) EXCEPT ![p] = Nothing]
    /\ UNCHANGED <<row, image, puts, overlapped, request, job, worker, expired>>

\* The client disconnects, or the transaction fails: what has been written stays there.
AbandonPut(p) ==
    LET a == put[p].attachment IN
    /\ put[p] # Nothing
    /\ \E content \in {file[a], "other"} :
          /\ put[p].stage = "commit" => content = file[a]
          /\ file' = IF put[p].linked THEN [file EXCEPT ![a] = content] ELSE file
    /\ put' = [put EXCEPT ![p] = Nothing]
    /\ UNCHANGED <<row, image, puts, overlapped, request, job, worker, expired>>

\* The row is not read again: it is uploaded, whatever has happened to it and to the file.
CommitPut(p) ==
    /\ put[p].stage = "commit"
    /\ row' = [row EXCEPT ![put[p].attachment].uploaded = TRUE]
    /\ put' = [put EXCEPT ![p] = Nothing]
    /\ UNCHANGED <<file, image, puts, overlapped, request, job, worker, expired>>

-----------------------------------------------------------------------------
(***************************************************************************)
(* Completion                                                              *)
(***************************************************************************)
\* complete_upload and qiniu_upload_callback load the row before they wait for the lock.
RequestCompletion(a) ==
    /\ request = Nothing
    /\ Len(job) < MaxJobs
    /\ a \in Local => row[a].uploaded
    /\ request' = [stage |-> "complete", attachment |-> a, loaded |-> row[a]]
    /\ UNCHANGED <<row, file, image, put, puts, overlapped, job, worker, expired>>

Unfinished(a) ==
    {j \in DOMAIN job : job[j].attachment = a /\ job[j].status = "unfinished"}

WithJob(a) == Append(job, [attachment |-> a, status |-> "unfinished"])

\* queue_processing: one job at a time
CompleteLocal ==
    LET a == request.attachment IN
    /\ request # Nothing /\ a \in Local
    /\ job' = IF Unfinished(a) = {} THEN WithJob(a) ELSE job
    /\ request' = Nothing
    /\ UNCHANGED <<row, file, image, put, puts, overlapped, worker, expired>>

Restarted(r) == [r EXCEPT !.uploaded = TRUE, !.metadata = "pending", !.malware = "pending"]

\* Variant: one job at a time, as for a local attachment.
CompleteRemoteOnce ==
    LET a == request.attachment IN
    /\ request # Nothing /\ a \in Remote
    /\ row' = [row EXCEPT ![a] = Written(a, request.loaded, Restarted(request.loaded))]
    /\ job' = IF Unfinished(a) = {} THEN WithJob(a) ELSE job
    /\ request' = Nothing
    /\ UNCHANGED <<file, image, put, puts, overlapped, worker, expired>>

\* complete_remote_upload, whatever the state of the attachment
CompleteRemote ==
    LET a == request.attachment IN
    /\ request # Nothing /\ a \in Remote
    /\ row' = [row EXCEPT ![a] = Written(a, request.loaded, Restarted(request.loaded))]
    /\ job' = WithJob(a)
    /\ request' = Nothing
    /\ UNCHANGED <<file, image, put, puts, overlapped, worker, expired>>

-----------------------------------------------------------------------------
(***************************************************************************)
(* Processing                                                              *)
(***************************************************************************)
\* A running job that nobody executes is claimed again when its lease has expired.
Claimable(j) == worker = Nothing /\ job[j].status = "unfinished"

Usable(a) ==
    row[a].uploaded /\ IF a \in Local THEN file[a] # "none" ELSE ~row[a].anonymised

\* There is nothing to process: nothing is said of the attachment.
ClaimUnusable(j) ==
    /\ Claimable(j) /\ ~Usable(job[j].attachment)
    /\ worker' = [stage |-> "failed", job |-> j]
    /\ UNCHANGED <<row, file, image, put, puts, overlapped, request, job, expired>>

Claim(j) ==
    LET a == job[j].attachment IN
    /\ Claimable(j) /\ Usable(a)
    /\ worker' =
          [stage |-> IF a \in Local THEN "check" ELSE "fetch", job |-> j, loaded |-> row[a],
           new |-> IF a \in Local
                   THEN [row[a] EXCEPT !.rejection = "none", !.metadata = "pending",
                                       !.malware = "pending"]
                   ELSE row[a]]
    /\ UNCHANGED <<row, file, image, put, puts, overlapped, request, job, expired>>

Subject == job[worker.job].attachment

\* Variant: the scanner's verdict, too, is "rejected".
RejectedInBoth(r) ==
    [r EXCEPT !.metadata = "rejected", !.rejection = "reason", !.malware = "rejected"]

\* The checks have refused the attachment.
Rejected(r) ==
    [r EXCEPT !.metadata = "rejected", !.rejection = "reason",
              !.malware = IF @ = "pending" THEN "failed" ELSE @]

Continue(stage, new) ==
    /\ worker' = [worker EXCEPT !.stage = stage, !.new = new]
    /\ UNCHANGED <<row, file, put, puts, overlapped, request, job, expired>>

\* process_attachment hashes the file.  A file that has gone is no verdict.
CheckHash ==
    /\ worker.stage = "check"
    /\ IF file[Subject] = "none" THEN Continue("failing", worker.new)
       ELSE IF file[Subject] = "declared" /\ ~worker.loaded.anonymised
       THEN Continue("sanitize", [worker.new EXCEPT !.malware = "clean"])
       ELSE Continue("failing", Rejected(worker.new))
    /\ UNCHANGED image

\* ... and reads it once more, to decode it.
Sanitize ==
    LET a == Subject IN
    /\ worker.stage = "sanitize"
    /\ \/ /\ file[a] = "other" \/ (file[a] = "declared" /\ a \in Image)
          /\ image' = [image EXCEPT ![a] = file[a]]
          /\ Continue("ready", [worker.new EXCEPT !.sanitized = TRUE, !.metadata = "ready"])
       \/ /\ file[a] = "other" \/ (file[a] = "declared" /\ a \notin Image)
          /\ \E content \in {image[a], "none"} : image' = [image EXCEPT ![a] = content]
          /\ Continue("failing", Rejected(worker.new))
       \/ file[a] = "none" /\ Continue("failing", worker.new) /\ UNCHANGED image

\* process_remote_media asks the object store: the object is as declared, is not, or there is
\* no answer.
Fetch ==
    LET clean == [worker.new EXCEPT !.malware = "clean", !.rejection = "none"] IN
    /\ worker.stage = "fetch"
    /\ \/ Continue("ready", [clean EXCEPT !.metadata = "ready"])
       \/ \E r \in {worker.new, clean} :
             Continue("failing", [r EXCEPT !.metadata = "rejected", !.rejection = "reason"])
       \/ \E r \in {worker.new, clean} : Continue("failing", r)
    /\ UNCHANGED image

\* The execution ends: what it has made of the row is committed, whatever it has come to.
CommitExecution ==
    /\ worker.stage \in {"ready", "failing"}
    /\ row' = [row EXCEPT ![Subject] = Written(Subject, worker.loaded, worker.new)]
    /\ worker' = [stage |-> IF worker.stage = "ready" THEN "succeeded" ELSE "failed",
                  job |-> worker.job]
    /\ UNCHANGED <<file, image, put, puts, overlapped, request, job, expired>>

\* The events collide with those of another session (EventLog): nothing is written.
RollbackExecution ==
    /\ worker.stage \in {"ready", "failing"}
    /\ worker' = [stage |-> "failed", job |-> worker.job]
    /\ UNCHANGED <<row, file, image, put, puts, overlapped, request, job, expired>>

\* _finish_job, in a transaction of its own: a job that has failed may have attempts left.
FinishJob ==
    /\ worker.stage \in {"succeeded", "failed"}
    /\ \E status \in IF worker.stage = "succeeded" THEN {"succeeded"} ELSE {"unfinished", "failed"} :
          job' = [job EXCEPT ![worker.job].status = status]
    /\ worker' = Nothing
    /\ UNCHANGED <<row, file, image, put, puts, overlapped, request, expired>>

-----------------------------------------------------------------------------
(***************************************************************************)
(* Binding, retention, restarts                                            *)
(***************************************************************************)
Ready(r) == r.metadata = "ready" /\ r.malware = "clean"

\* bind_attachments and replace_attachments: S are the attachments of report t from now on.
BindReport(t, S) ==
    /\ \A a \in S : Ready(row[a]) /\ row[a].report \in {Nobody, t} /\ row[a].answer = Nobody
    /\ row' = [a \in Attachment |->
                  IF a \in S THEN [row[a] EXCEPT !.report = t]
                  ELSE [row[a] EXCEPT !.report = IF @ = t THEN Nobody ELSE @]]
    /\ UNCHANGED <<file, image, put, puts, overlapped, request, job, worker, expired>>

\* Variant: an attachment of a report may be attached to an answer.
BindAnswerToo(d, S) ==
    /\ \A a \in S : Ready(row[a]) /\ row[a].answer \in {Nobody, d}
    /\ row' = [a \in Attachment |->
                  IF a \in S THEN [row[a] EXCEPT !.answer = d]
                  ELSE [row[a] EXCEPT !.answer = IF @ = d THEN Nobody ELSE @]]
    /\ UNCHANGED <<file, image, put, puts, overlapped, request, job, worker, expired>>

\* replace_answer_attachments
BindAnswer(d, S) ==
    /\ \A a \in S : Ready(row[a]) /\ row[a].report = Nobody /\ row[a].answer \in {Nobody, d}
    /\ row' = [a \in Attachment |->
                  IF a \in S THEN [row[a] EXCEPT !.answer = d]
                  ELSE [row[a] EXCEPT !.answer = IF @ = d THEN Nobody ELSE @]]
    /\ UNCHANGED <<file, image, put, puts, overlapped, request, job, worker, expired>>

Expire ==
    /\ ~expired
    /\ expired' = TRUE
    /\ UNCHANGED <<row, file, image, put, puts, overlapped, request, job, worker>>

\* Variant: what has been anonymised is passed over.
AnonymisedOnce(r) ==
    IF r.anonymised THEN r
    ELSE [r EXCEPT !.uploaded = FALSE, !.anonymised = TRUE, !.sanitized = FALSE,
                   !.metadata = "expired", !.malware = "expired", !.rejection = "retention"]

\* _anonymize_attachment
Anonymised(r) ==
    [r EXCEPT !.uploaded = FALSE, !.anonymised = TRUE, !.sanitized = FALSE,
              !.metadata = "expired", !.malware = "expired", !.rejection = "retention"]

\* _remove_attachment_files: the image is found by the path in the row only.
RemoveFiles ==
    /\ file' = [a \in Local |-> "none"]
    /\ image' = [a \in Local |-> IF row[a].sanitized THEN "none" ELSE image[a]]
    /\ put' = [q \in Put |-> IF put[q] = Nothing THEN Nothing ELSE [put[q] EXCEPT !.linked = FALSE]]

Kept == \E a \in Attachment : row[a] # Anonymised(row[a]) \/ (a \in Local /\ file[a] # "none")

\* A retention pass, as long as there is anything left for it.
RetentionPass ==
    /\ expired /\ Kept
    /\ RemoveFiles
    /\ row' = [a \in Attachment |-> Anonymised(row[a])]
    /\ UNCHANGED <<puts, overlapped, request, job, worker, expired>>

\* The files are removed before the pass is committed, and it may fail.
RetentionFails ==
    /\ expired /\ Kept
    /\ RemoveFiles
    /\ UNCHANGED <<row, puts, overlapped, request, job, worker, expired>>

\* The process dies: the files and the jobs stay as they are.
Crash ==
    /\ put' = [p \in Put |-> Nothing]
    /\ request' = Nothing
    /\ worker' = Nothing
    /\ UNCHANGED <<row, file, image, puts, overlapped, job, expired>>

Process ==
    \/ \E j \in DOMAIN job : ClaimUnusable(j) \/ Claim(j)
    \/ CheckHash
    \/ Sanitize
    \/ Fetch
    \/ CommitExecution
    \/ RollbackExecution
    \/ FinishJob

Next ==
    \/ \E p \in Put, a \in Local, body \in {"declared", "other"} : StartPut(p, a, body)
    \/ \E p \in Put : FinishPut(p) \/ RefusePut(p) \/ AbandonPut(p) \/ CommitPut(p)
    \/ \E a \in Attachment : RequestCompletion(a)
    \/ CompleteLocal
    \/ CompleteRemote
    \/ Process
    \/ \E t \in Report, S \in SUBSET Attachment : BindReport(t, S)
    \/ \E d \in Answer, S \in SUBSET Attachment : BindAnswer(d, S)
    \/ Expire
    \/ RetentionPass
    \/ RetentionFails
    \/ Crash

\* The retention loop goes on for ever.  Nothing is asked of the others.
Spec == Init /\ [][Next]_vars /\ WF_vars(RetentionPass)

-----------------------------------------------------------------------------
(***************************************************************************)
(* Properties                                                              *)
(***************************************************************************)
\* attachment_state
AttachmentState(a) ==
    IF row[a].rejection # "none" THEN "rejected"
    ELSE IF Ready(row[a]) /\ (row[a].sanitized \/ (a \in Remote /\ ~row[a].anonymised)) THEN "ready"
    ELSE IF row[a].uploaded THEN "processing"
    ELSE "pending"

\* A local attachment that is served as ready is what was declared, the original and the image
\* made from it, if its content requests came one after the other.
ReadyIsWhatWasDeclared ==
    \A a \in Local \ overlapped :
        AttachmentState(a) = "ready" /\ ~expired => file[a] = "declared" /\ image[a] = "declared"

\* A remote attachment is not left "processing": there is a job for it, or one has failed.
ProcessingIsWorkedOn ==
    \A a \in Remote : AttachmentState(a) = "processing" =>
        \E j \in DOMAIN job : job[j].attachment = a /\ job[j].status # "succeeded"

\* An attachment belongs to one report or to one answer.
BoundOnce == \A a \in Attachment : row[a].report = Nobody \/ row[a].answer = Nobody

Forgotten(a) ==
    /\ ~row[a].uploaded /\ ~row[a].sanitized /\ row[a].rejection = "retention"
    /\ row[a].metadata = "expired" /\ row[a].malware = "expired"
    /\ a \in Local => file[a] = "none"

\* In the end the attachments of an expired incident and their originals are forgotten, although
\* requests and jobs that had loaded a row before a pass write to it afterwards.
EventuallyAnonymised == <>[](expired => \A a \in Attachment : Forgotten(a))

\* README.md:184-185: the local attachments are deleted, the images made from them included.
EventuallyDeleted == <>[](expired => \A a \in Local : image[a] = "none")
=============================================================================
