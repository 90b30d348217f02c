------------------------------ MODULE JobQueue ------------------------------
(***************************************************************************)
(* chancela-worker: the filesystem queue that carries sync and backup jobs *)
(* from the API and the command line to one worker process.                *)
(*                                                                         *)
(* A job is a file that is renamed from directory to directory; operator   *)
(* actions are marker files; every change of state is also written as a    *)
(* status event.  Renames and creations are atomic, nothing else is: a     *)
(* request may be dropped, and the worker may die, between any two of      *)
(* them.  A job stands for its idempotency key; the stream of its events   *)
(* is abstracted to the latest one and to the number of Running events.    *)
(***************************************************************************)
EXTENDS Naturals, FiniteSets, Sequences

CONSTANTS Job,         \* idempotency keys
          ApiJob,      \* those the API submits; the others come from the CLI
          NoJob,
          Client,      \* requests in progress at the same time
          Slot,        \* max_parallel_jobs
          MaxAttempts, \* max_job_attempts
          MaxSubmits,  \* bound: submissions of one job
          MaxRetries,  \* bound: operator retries of one job
          MaxCrashes   \* bound: deaths of the worker

ASSUME QueueAssumption ==
    /\ ApiJob \subseteq Job /\ NoJob \notin Job
    /\ MaxAttempts \in Nat \ {0} /\ MaxSubmits \in Nat
    /\ MaxRetries \in Nat /\ MaxCrashes \in Nat

VARIABLES
    files,        \* the directories that hold the job's file
    cancel,       \* jobs with a cancel marker
    cancelStaged, retryStaged, \* jobs with a staged operator action
    receipt,      \* the attempt whose receipt is stored, 0 for none
    event,        \* state of the latest status event
    attempts,     \* number of Running events (attempt_count)
    waiting,      \* jobs whose latest event has a not_before in the future
    worker,       \* down, recovering, claiming, joining
    unreported,   \* recover: the event owed for the file it has just moved
    slot,         \* the tasks of the current batch
    client,       \* the requests in progress
    (* history *)
    audited,      \* jobs with a connector_job event in the ledger
    uploads,      \* uploads started
    granted,      \* operator retries that requeued the job
    backoff,      \* jobs requeued behind a delay that has not passed
    submits, crashes

files_    == <<files, cancel, cancelStaged, retryStaged, receipt>>
status    == <<event, attempts, waiting>>
process   == <<worker, unreported, slot>>
history   == <<audited, uploads, granted, backoff, submits, crashes>>
vars      == <<files_, status, process, client, history>>

Terminal  == {"completed", "failed", "cancelled"}
Dir       == {"staged", "pending", "running"} \cup Terminal
ScanOrder == <<"staged", "pending", "running", "completed", "failed", "cancelled">>
JobState  == {"Queued", "Running", "RetryScheduled", "Recovered", "Succeeded", "Failed", "Cancelled"}

NoTask    == [pc |-> "idle", job |-> NoJob, attempt |-> 0, to |-> "none", doomed |-> FALSE]
NoRequest == [op |-> "none", job |-> NoJob, pc |-> "idle", at |-> 0]
Task      == [pc : {"idle", "claimed", "started", "uploading", "receipt", "move", "report",
                    "retry", "requeue", "done"},
              job : Job \cup {NoJob}, attempt : Nat, to : Terminal \cup {"none"}, doomed : BOOLEAN]
Request   == [op : {"none", "enqueue", "run", "cancel", "retry"}, job : Job \cup {NoJob},
              pc : {"idle", "scan", "create", "audit", "discard", "publish", "clear", "rename",
                    "report", "consume"},
              at : 0..Len(ScanOrder)]

TypeOK ==
    /\ files \in [Job -> SUBSET Dir]
    /\ cancel \subseteq Job /\ cancelStaged \subseteq Job /\ retryStaged \subseteq Job
    /\ receipt \in [Job -> Nat]
    /\ event \in [Job -> JobState \cup {"none"}] /\ attempts \in [Job -> Nat] /\ waiting \subseteq Job
    /\ worker \in {"down", "recovering", "claiming", "joining"}
    /\ unreported \in [job : Job \cup {NoJob}, state : JobState \cup {"none"}]
    /\ slot \in [Slot -> Task] /\ client \in [Client -> Request]
    /\ audited \subseteq Job /\ backoff \subseteq Job
    /\ uploads \in [Job -> Nat] /\ granted \in [Job -> Nat]
    /\ submits \in [Job -> Nat] /\ crashes \in Nat

NoReport == [job |-> NoJob, state |-> "none"]

Init ==
    /\ files = [j \in Job |-> {}]
    /\ cancel = {} /\ cancelStaged = {} /\ retryStaged = {}
    /\ receipt = [j \in Job |-> 0]
    /\ event = [j \in Job |-> "none"] /\ attempts = [j \in Job |-> 0] /\ waiting = {}
    /\ worker = "down" /\ unreported = NoReport
    /\ slot = [s \in Slot |-> NoTask] /\ client = [c \in Client |-> NoRequest]
    /\ audited = {} /\ backoff = {}
    /\ uploads = [j \in Job |-> 0] /\ granted = [j \in Job |-> 0]
    /\ submits = [j \in Job |-> 0] /\ crashes = 0

-----------------------------------------------------------------------------
(* Primitives of the queue.                                                *)

Exists(j) == files[j] # {}

(* Mutant: the file is linked into the new directory and left in the old.  *)
RenameByLink(j, from, to) == from \in files[j] /\ files' = [files EXCEPT ![j] = @ \cup {to}]

(* rename replaces a file of the same name and fails without the source.   *)
Rename(j, from, to) ==
    from \in files[j] /\ files' = [files EXCEPT ![j] = (@ \ {from}) \cup {to}]

(* record_event: the new event is the latest; only a Running event counts  *)
(* as an attempt.                                                          *)
Record(j, state, delayed) ==
    /\ event' = [event EXCEPT ![j] = state]
    /\ attempts' = IF state = "Running" THEN [attempts EXCEPT ![j] = @ + 1] ELSE attempts
    /\ waiting' = IF delayed THEN waiting \cup {j} ELSE waiting \ {j}

(* The clock passes the not_before of the job.                             *)
Elapse(j) ==
    /\ j \in waiting \cup backoff
    /\ waiting' = waiting \ {j} /\ backoff' = backoff \ {j}
    /\ UNCHANGED <<files_, event, attempts, process, client,
                   audited, uploads, granted, submits, crashes>>

-----------------------------------------------------------------------------
(* Requests.  Audit is the ledger append of the API handlers; it succeeds  *)
(* or it fails and the staged file is discarded.                           *)

Continue(c, pc) == client' = [client EXCEPT ![c].pc = pc]
End(c) == client' = [client EXCEPT ![c] = NoRequest]
At(c, pc) == client[c].pc = pc
Begin(c, op, j, pc) ==
    /\ At(c, "idle")
    /\ client' = [client EXCEPT ![c] = [op |-> op, job |-> j, pc |-> pc, at |-> 1]]

Submit(c, j) ==
    /\ submits[j] < MaxSubmits
    /\ Begin(c, IF j \in ApiJob THEN "run" ELSE "enqueue", j, "scan")
    /\ submits' = [submits EXCEPT ![j] = @ + 1]
    /\ UNCHANGED <<files_, status, process, audited, uploads, granted, backoff, crashes>>

(* Mutant: a replay of an API job is published without its own audit.      *)
FoundPublishes(c) == IF client[c].op = "run" THEN Continue(c, "publish") ELSE End(c)

(* A submission that meets the job's file is a replay.                     *)
Found(c) == IF client[c].op = "run" THEN Continue(c, "audit") ELSE End(c)

(* existing_job looks into one directory after the other.                  *)
Scan(c) ==
    /\ At(c, "scan")
    /\ LET at == client[c].at
       IN  IF ScanOrder[at] \in files[client[c].job] THEN Found(c)
           ELSE IF at = Len(ScanOrder) THEN Continue(c, "create")
           ELSE client' = [client EXCEPT ![c].at = at + 1]
    /\ UNCHANGED <<files_, status, process, history>>

(* write_json does not replace: a file that is there makes it a replay.    *)
Create(c) ==
    /\ At(c, "create")
    /\ LET j   == client[c].job
           dir == IF client[c].op = "run" THEN "staged" ELSE "pending"
       IN  IF dir \in files[j] THEN Found(c) /\ UNCHANGED files
           ELSE /\ files' = [files EXCEPT ![j] = @ \cup {dir}]
                /\ Continue(c, IF client[c].op = "run" THEN "audit" ELSE "report")
    /\ UNCHANGED <<cancel, cancelStaged, retryStaged, receipt, status, process, history>>

Audit(c) ==
    /\ At(c, "audit")
    /\ \/ /\ Continue(c, "publish")
          /\ audited' = IF client[c].op = "run" THEN audited \cup {client[c].job} ELSE audited
       \/ Continue(c, "discard") /\ UNCHANGED audited
    /\ UNCHANGED <<files_, status, process, uploads, granted, backoff, submits, crashes>>

(* discard_staged, discard_staged_cancel, discard_staged_retry             *)
Discard(c) ==
    /\ At(c, "discard")
    /\ LET j == client[c].job
       IN  /\ files' = IF client[c].op = "run" THEN [files EXCEPT ![j] = @ \ {"staged"}] ELSE files
           /\ cancelStaged' = IF client[c].op = "cancel" THEN cancelStaged \ {j} ELSE cancelStaged
           /\ retryStaged' = IF client[c].op = "retry" THEN retryStaged \ {j} ELSE retryStaged
    /\ End(c)
    /\ UNCHANGED <<cancel, receipt, status, process, history>>

(* publish_staged; a staged file that is gone ends the request, with an    *)
(* error unless the job is somewhere else.                                 *)
PublishJob(c) ==
    /\ At(c, "publish") /\ client[c].op = "run"
    /\ \/ Rename(client[c].job, "staged", "pending") /\ Continue(c, "report")
       \/ "staged" \notin files[client[c].job] /\ End(c) /\ UNCHANGED files
    /\ UNCHANGED <<cancel, cancelStaged, retryStaged, receipt, status, process, history>>

(* cancel_job and retry_job need the job's snapshot: a file and an event.  *)
StageCancel(c, j) ==
    /\ j \in ApiJob /\ Exists(j) /\ event[j] # "none"
    /\ Begin(c, "cancel", j, "audit")
    /\ cancelStaged' = cancelStaged \cup {j}
    /\ UNCHANGED <<files, cancel, retryStaged, receipt, status, process, history>>

PublishCancel(c) ==
    /\ At(c, "publish") /\ client[c].op = "cancel"
    /\ LET j == client[c].job
       IN  /\ cancel' = IF j \in cancelStaged THEN cancel \cup {j} ELSE cancel
           /\ cancelStaged' = cancelStaged \ {j}
    /\ End(c)
    /\ UNCHANGED <<files, retryStaged, receipt, status, process, history>>

(* The cancel subcommand writes the marker itself.                         *)
CliCancel(j) ==
    /\ Exists(j) /\ j \notin cancel
    /\ cancel' = cancel \cup {j}
    /\ UNCHANGED <<files, cancelStaged, retryStaged, receipt, status, process, client, history>>

StageRetry(c, j) ==
    /\ j \in ApiJob /\ event[j] # "none" /\ granted[j] < MaxRetries
    /\ "failed" \in files[j]
    /\ Begin(c, "retry", j, "audit")
    /\ retryStaged' = retryStaged \cup {j}
    /\ UNCHANGED <<files, cancel, cancelStaged, receipt, status, process, history>>

(* publish_staged_retry and retry_failed: the check, the removal of the    *)
(* cancel marker, the rename, the event and the removal of the staged      *)
(* marker are steps of their own.                                          *)
PublishRetry(c) ==
    /\ At(c, "publish") /\ client[c].op = "retry"
    /\ LET j == client[c].job
       IN  IF j \in retryStaged /\ "failed" \in files[j] THEN Continue(c, "clear") ELSE End(c)
    /\ UNCHANGED <<files_, status, process, history>>

ClearCancel(c) ==
    /\ At(c, "clear")
    /\ cancel' = cancel \ {client[c].job}
    /\ Continue(c, "rename")
    /\ UNCHANGED <<files, cancelStaged, retryStaged, receipt, status, process, history>>

RequeueFailed(c) ==
    /\ At(c, "rename")
    /\ LET j == client[c].job
       IN  \/ /\ Rename(j, "failed", "pending") /\ Continue(c, "report")
              /\ granted' = [granted EXCEPT ![j] = @ + 1]
           \/ "failed" \notin files[j] /\ End(c) /\ UNCHANGED <<files, granted>>
    /\ UNCHANGED <<cancel, cancelStaged, retryStaged, receipt, status, process,
                   audited, uploads, backoff, submits, crashes>>

(* The event of a published, enqueued or retried job, after its file.      *)
ReportRequest(c) ==
    /\ At(c, "report")
    /\ Record(client[c].job, IF client[c].op = "retry" THEN "Recovered" ELSE "Queued", FALSE)
    /\ IF client[c].op = "retry" THEN Continue(c, "consume") ELSE End(c)
    /\ UNCHANGED <<files_, process, history>>

ConsumeRetry(c) ==
    /\ At(c, "consume")
    /\ retryStaged' = retryStaged \ {client[c].job}
    /\ End(c)
    /\ UNCHANGED <<files, cancel, cancelStaged, receipt, status, process, history>>

(* The caller goes away, the API dies, or a file moved under a read.       *)
Drop(c) == ~At(c, "idle") /\ End(c) /\ UNCHANGED <<files_, status, process, history>>

-----------------------------------------------------------------------------
(* The worker process.                                                     *)

Step(s, pc) == slot' = [slot EXCEPT ![s].pc = pc]
On(s, pc) == worker \in {"claiming", "joining"} /\ slot[s].pc = pc
Claimable(j) == "pending" \in files[j] /\ j \notin waiting

(* An error of the queue's own storage ends run_until, and the process.    *)
Exit == worker' = "down" /\ slot' = [s \in Slot |-> NoTask] /\ unreported' = NoReport

Crash ==
    /\ worker # "down" /\ crashes < MaxCrashes
    /\ Exit /\ crashes' = crashes + 1
    /\ UNCHANGED <<files_, status, client, audited, uploads, granted, backoff, submits>>

(* Mutant: the queue is polled without recovering it first.                *)
BootWithoutRecover ==
    /\ worker = "down" /\ worker' = "claiming"
    /\ UNCHANGED <<files_, status, unreported, slot, client, history>>

Boot ==
    /\ worker = "down" /\ worker' = "recovering"
    /\ UNCHANGED <<files_, status, unreported, slot, client, history>>

(* Mutant: the cancel marker is looked at before the receipt.              *)
RecoveryCancelFirst(j) ==
    IF j \in cancel THEN [to |-> "cancelled", state |-> "Cancelled"]
    ELSE IF receipt[j] # 0 THEN [to |-> "completed", state |-> "Succeeded"]
    ELSE IF attempts[j] >= MaxAttempts THEN [to |-> "failed", state |-> "Failed"]
    ELSE [to |-> "pending", state |-> "Recovered"]

(* Where recover sends a job it finds in running.                          *)
Recovery(j) ==
    IF receipt[j] # 0 THEN [to |-> "completed", state |-> "Succeeded"]
    ELSE IF j \in cancel THEN [to |-> "cancelled", state |-> "Cancelled"]
    ELSE IF attempts[j] >= MaxAttempts THEN [to |-> "failed", state |-> "Failed"]
    ELSE [to |-> "pending", state |-> "Recovered"]

(* recover moves the file first and records the event afterwards.          *)
RecoverMove(j) ==
    /\ worker = "recovering" /\ unreported = NoReport
    /\ Rename(j, "running", Recovery(j).to)
    /\ unreported' = [job |-> j, state |-> Recovery(j).state]
    /\ IF Recovery(j).to = "pending"
       THEN backoff' = backoff \cup {j} ELSE UNCHANGED backoff
    /\ UNCHANGED <<cancel, cancelStaged, retryStaged, receipt, status, worker, slot, client,
                   audited, uploads, granted, submits, crashes>>

RecoverReport ==
    /\ unreported # NoReport
    /\ Record(unreported.job, unreported.state, unreported.state = "Recovered")
    /\ unreported' = NoReport
    /\ UNCHANGED <<files_, worker, slot, client, history>>

RecoverDone ==
    /\ worker = "recovering" /\ unreported = NoReport
    /\ \A j \in Job : "running" \notin files[j]
    /\ worker' = "claiming"
    /\ UNCHANGED <<files_, status, unreported, slot, client, history>>

(* claim_next; it reads the directory in the order of the ids, but a job   *)
(* it has passed may become claimable before it renames another one.       *)
Claim(s, j) ==
    /\ worker = "claiming" /\ slot[s].pc = "idle"
    /\ Claimable(j) /\ Rename(j, "pending", "running")
    /\ slot' = [slot EXCEPT ![s] = [pc |-> "claimed", job |-> j, attempt |-> 0, to |-> "none",
                                    doomed |-> j \in cancel]]
    /\ UNCHANGED <<cancel, cancelStaged, retryStaged, receipt, status, worker, unreported, client,
                   history>>

(* run_until: a batch is full or the queue is dry; wait for all its tasks. *)
Join ==
    /\ worker = "claiming"
    /\ \E s \in Slot : slot[s].pc # "idle"
    /\ (\A s \in Slot : slot[s].pc # "idle") \/ (\A j \in Job : ~Claimable(j))
    /\ worker' = "joining"
    /\ UNCHANGED <<files_, status, unreported, slot, client, history>>

NextBatch ==
    /\ worker = "joining"
    /\ \A s \in Slot : slot[s].pc \in {"idle", "done"}
    /\ worker' = "claiming" /\ slot' = [s \in Slot |-> NoTask]
    /\ UNCHANGED <<files_, status, unreported, client, history>>

-----------------------------------------------------------------------------
(* process_claimed, one step per file it writes.                           *)

(* The Running event comes first: it is what attempt_count counts.         *)
Start(s) ==
    /\ On(s, "claimed")
    /\ slot' = [slot EXCEPT ![s].pc = "started", ![s].attempt = attempts[slot[s].job] + 1]
    /\ Record(slot[s].job, "Running", FALSE)
    /\ UNCHANGED <<files_, worker, unreported, client, history>>

Finish(s, to) == slot' = [slot EXCEPT ![s].pc = "move", ![s].to = to]

(* Mutant: one attempt more than the configuration allows.                 *)
MayRetryOnceMore(s) == slot[s].attempt <= MaxAttempts

MayRetry(s) == slot[s].attempt < MaxAttempts

(* A retryable failure is requeued while attempts remain; any other, and   *)
(* the last one, dead-letters the job.                                     *)
Fail(s) == (MayRetry(s) /\ Step(s, "retry")) \/ Finish(s, "failed")

(* Mutant: the marker is not looked at before the work begins.             *)
StopsForNoMarker(s) == FALSE

StopsForCancel(s) == slot[s].job \in cancel

(* The cancel marker, then resolve_connector and secure_source.            *)
Resolve(s) ==
    /\ On(s, "started")
    /\ IF StopsForCancel(s) THEN Finish(s, "cancelled") /\ UNCHANGED uploads
       ELSE \/ Fail(s) /\ UNCHANGED uploads
            \/ Step(s, "uploading") /\ uploads' = [uploads EXCEPT ![slot[s].job] = @ + 1]
    /\ UNCHANGED <<files_, status, worker, unreported, client,
                   audited, granted, backoff, submits, crashes>>

(* Mutant: the job is completed before its receipt is written.             *)
UploadedMoves(s) == Finish(s, "completed")

Uploaded(s) == Step(s, "receipt")

(* The connector's answer; Cancelled only after the monitor saw a marker.  *)
UploadEnds(s) ==
    /\ On(s, "uploading")
    /\ \/ Uploaded(s)
       \/ slot[s].job \in cancel /\ Finish(s, "cancelled")
       \/ Fail(s)
    /\ UNCHANGED <<files_, status, worker, unreported, client, history>>

(* Receipts are immutable: a second one, of another attempt, is a conflict *)
(* and ends the process.                                                   *)
WriteReceipt(s) ==
    /\ On(s, "receipt")
    /\ LET j == slot[s].job
       IN  \/ /\ receipt[j] = 0
              /\ receipt' = [receipt EXCEPT ![j] = slot[s].attempt]
              /\ Finish(s, "completed") /\ UNCHANGED <<worker, unreported>>
           \/ receipt[j] # 0 /\ Exit /\ UNCHANGED receipt
    /\ UNCHANGED <<files, cancel, cancelStaged, retryStaged, status, client, history>>

(* finish_cancelled, finish_failed, success: the file, then the event.     *)
Move(s) ==
    /\ On(s, "move")
    /\ \/ Rename(slot[s].job, "running", slot[s].to) /\ Step(s, "report") /\ UNCHANGED <<worker, unreported>>
       \/ "running" \notin files[slot[s].job] /\ Exit /\ UNCHANGED files
    /\ UNCHANGED <<cancel, cancelStaged, retryStaged, receipt, status, client, history>>

(* Mutant: the event is named after the directory.                         *)
FinalStateByDir(to) == to

FinalState(to) ==
    CASE to = "completed" -> "Succeeded" [] to = "failed" -> "Failed" [] OTHER -> "Cancelled"

Report(s) ==
    /\ On(s, "report")
    /\ Record(slot[s].job, FinalState(slot[s].to), FALSE)
    /\ Step(s, "done")
    /\ UNCHANGED <<files_, worker, unreported, client, history>>

(* schedule_retry: the event with the delay, then the file.                *)
ScheduleRetry(s) ==
    /\ On(s, "retry")
    /\ Record(slot[s].job, "RetryScheduled", TRUE)
    /\ backoff' = backoff \cup {slot[s].job}
    /\ Step(s, "requeue")
    /\ UNCHANGED <<files_, worker, unreported, client,
                   audited, uploads, granted, submits, crashes>>

Requeue(s) ==
    /\ On(s, "requeue")
    /\ \/ Rename(slot[s].job, "running", "pending") /\ Step(s, "done") /\ UNCHANGED <<worker, unreported>>
       \/ "running" \notin files[slot[s].job] /\ Exit /\ UNCHANGED files
    /\ UNCHANGED <<cancel, cancelStaged, retryStaged, receipt, status, client, history>>

-----------------------------------------------------------------------------
RequestStep ==
    \/ \E c \in Client, j \in Job : Submit(c, j) \/ StageCancel(c, j) \/ StageRetry(c, j)
    \/ \E c \in Client :
          \/ Scan(c) \/ Create(c) \/ Audit(c) \/ Discard(c)
          \/ PublishJob(c) \/ PublishCancel(c) \/ PublishRetry(c)
          \/ ClearCancel(c) \/ RequeueFailed(c) \/ ReportRequest(c) \/ ConsumeRetry(c)
          \/ Drop(c)
    \/ \E j \in Job : CliCancel(j)

TaskStep(s) ==
    \/ Start(s) \/ Resolve(s) \/ UploadEnds(s) \/ WriteReceipt(s)
    \/ Move(s) \/ Report(s) \/ ScheduleRetry(s) \/ Requeue(s)

ClaimStep == \E s \in Slot, j \in Job : Claim(s, j)
RecoverStep == (\E j \in Job : RecoverMove(j)) \/ RecoverReport \/ RecoverDone
TimeStep == \E j \in Job : Elapse(j)
WorkerStep == Boot \/ RecoverStep \/ ClaimStep \/ Join \/ NextBatch \/ \E s \in Slot : TaskStep(s)

Next == RequestStep \/ WorkerStep \/ TimeStep \/ Crash

Spec == Init /\ [][Next]_vars

(* The supervisor restarts the worker, the worker keeps working and every  *)
(* delay passes.  Nothing is assumed of the requests.                      *)
Fairness ==
    /\ WF_vars(Boot) /\ WF_vars(RecoverStep) /\ WF_vars(ClaimStep)
    /\ WF_vars(Join) /\ WF_vars(NextBatch)
    /\ \A s \in Slot : WF_vars(TaskStep(s))
    /\ \A j \in Job : WF_vars(Elapse(j))

FairSpec == Spec /\ Fairness

-----------------------------------------------------------------------------
(* An API job leaves staged, where no worker looks, only once a ledger     *)
(* event names it, whatever requests overlap or are dropped.               *)
(* (run_target: stage, audit, publish)                                     *)
AuditedBeforeVisible == \A j \in ApiJob : files[j] \subseteq {"staged"} \/ j \in audited

(* A job is completed only over a stored receipt, also when the worker     *)
(* died between the two.  (process_claimed, recover)                       *)
CompletedHasReceipt == \A j \in Job : "completed" \in files[j] => receipt[j] # 0

(* A job is in one directory, or nowhere.  (rename; existing_job)          *)
OneFilePerJob == \A j \in Job : Cardinality(files[j]) <= 1

(* However often it is retried, interrupted and recovered, a job is        *)
(* uploaded at most max_job_attempts times plus once per operator retry.   *)
(* (attempt_count, schedule_retry, recover, retry_failed)                  *)
UploadsBounded == \A j \in Job : uploads[j] <= MaxAttempts + granted[j]

(* A job with a receipt is never queued again nor filed as failed or       *)
(* cancelled, whatever marker is set or attempt runs out after the upload. *)
(* (process_claimed, the order of recover's tests)                         *)
ReceiptIsFinal ==
    \A j \in Job : receipt[j] # 0 => files[j] \subseteq {"running", "completed"}

(* A job whose cancel marker is there when it is claimed is not uploaded   *)
(* by that claim.  (Cancellation check of process_claimed; retry_failed is *)
(* the only code that removes a marker)                                    *)
CancelHonoured ==
    \A s \in Slot : slot[s].doomed => slot[s].pc \notin {"uploading", "receipt"}

(* A published job ends in completed, failed or cancelled, however the     *)
(* worker dies in between.  (recover, the attempt ceiling)                 *)
Settles == \A j \in Job : ("pending" \in files[j]) ~> (files[j] \cap Terminal # {})

-----------------------------------------------------------------------------
(* What the repository says of this code and the model refutes.            *)

(* recover: "a recovered job comes back with the same exponential backoff  *)
(* a retry gets"; connectors-worker.md, rule 7: "The not-before event is   *)
(* durable before the job becomes claimable again".                        *)
BackoffHonoured == [][\A j \in backoff : Claimable(j) => "running" \notin files'[j]]_vars
=============================================================================
