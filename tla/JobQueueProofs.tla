--------------------------- MODULE JobQueueProofs ---------------------------
(***************************************************************************)
(* What the connector queue guarantees for any number of jobs, requests,   *)
(* parallel tasks, attempts and crashes.  Without any hypothesis: the      *)
(* types, no unaudited job visible to the worker, no completed job without *)
(* its receipt.  For jobs that are submitted once: one file per job, the   *)
(* upload budget, and receipts that are final; and where the operator      *)
(* retries of a job do not overlap, a claim that finds the cancel marker   *)
(* uploads nothing.                                                        *)
(***************************************************************************)
EXTENDS JobQueue, FiniteSetTheorems, TLAPS

(* Every request in progress names a job.                                  *)
RequestsTyped ==
    /\ client \in [Client -> Request]
    /\ \A c \in Client : client[c].pc # "idle" => client[c].job \in Job

(* Changing the program counter of a request, or dropping it, keeps types. *)
LEMMA RequestUpdate ==
    ASSUME RequestsTyped, NEW c \in Client
    PROVE  /\ End(c) => RequestsTyped'
           /\ \A pc \in {"create", "audit", "discard", "publish", "clear", "rename",
                         "report", "consume"} :
                 client[c].pc # "idle" /\ Continue(c, pc) => RequestsTyped'
           /\ \A op \in {"enqueue", "run", "cancel", "retry"}, pc \in {"scan", "audit"}, j \in Job :
                 Begin(c, op, j, pc) => RequestsTyped'
<1>1. End(c) => RequestsTyped'
      BY DEF RequestsTyped, End, Request, NoRequest, ScanOrder
<1>2. ASSUME NEW pc \in {"create", "audit", "discard", "publish", "clear", "rename",
                         "report", "consume"},
             client[c].pc # "idle", Continue(c, pc)
      PROVE  RequestsTyped'
      BY <1>2 DEF RequestsTyped, Continue, Request
<1>3. ASSUME NEW op \in {"enqueue", "run", "cancel", "retry"}, NEW pc \in {"scan", "audit"},
             NEW j \in Job, Begin(c, op, j, pc)
      PROVE  RequestsTyped'
      BY <1>3 DEF RequestsTyped, Begin, Request, ScanOrder
<1> QED
    BY <1>1, <1>2, <1>3

(* Every step keeps the requests typed.                                    *)
LEMMA RequestsTypedStep == RequestsTyped /\ [Next]_vars => RequestsTyped'
<1> SUFFICES ASSUME RequestsTyped, [Next]_vars PROVE RequestsTyped'
    OBVIOUS
<1>1. CASE UNCHANGED client
      BY <1>1 DEF RequestsTyped
<1>2. ASSUME NEW c \in Client, NEW j \in Job, Submit(c, j) \/ StageCancel(c, j) \/ StageRetry(c, j)
      PROVE  RequestsTyped'
      BY <1>2, RequestUpdate DEF Submit, StageCancel, StageRetry
<1>3. ASSUME NEW c \in Client, Scan(c)
      PROVE  RequestsTyped'
      <2>1. CASE Found(c)
            BY <1>3, <2>1, RequestUpdate DEF Scan, At, Found
      <2>2. CASE Continue(c, "create")
            BY <1>3, <2>2, RequestUpdate DEF Scan, At
      <2>3. CASE client[c].at # Len(ScanOrder) /\ client' = [client EXCEPT ![c].at = client[c].at + 1]
            BY <2>3 DEF RequestsTyped, Request, ScanOrder
      <2> QED
          BY <1>3, <2>1, <2>2, <2>3 DEF Scan
<1>4. ASSUME NEW c \in Client, Create(c) \/ Audit(c) \/ Discard(c)
      PROVE  RequestsTyped'
      BY <1>4, RequestUpdate DEF Create, Audit, Discard, At, Found
<1>5. ASSUME NEW c \in Client, PublishJob(c) \/ PublishCancel(c) \/ PublishRetry(c)
      PROVE  RequestsTyped'
      BY <1>5, RequestUpdate DEF PublishJob, PublishCancel, PublishRetry, At
<1>6. ASSUME NEW c \in Client, ClearCancel(c) \/ RequeueFailed(c) \/ ReportRequest(c)
      PROVE  RequestsTyped'
      BY <1>6, RequestUpdate DEF ClearCancel, RequeueFailed, ReportRequest, At
<1>7. ASSUME NEW c \in Client, ConsumeRetry(c) \/ Drop(c)
      PROVE  RequestsTyped'
      BY <1>7, RequestUpdate DEF ConsumeRetry, Drop
<1>8. RequestStep => RequestsTyped'
      <2>1. ASSUME NEW j \in Job, CliCancel(j) PROVE UNCHANGED client
            BY <2>1 DEF CliCancel
      <2> QED
          BY <2>1, <1>1, <1>2, <1>3, <1>4, <1>5, <1>6, <1>7 DEF RequestStep
<1>9. WorkerStep \/ TimeStep \/ Crash => UNCHANGED client
      BY DEF WorkerStep, TimeStep, Elapse, Crash, Boot, RecoverStep, RecoverMove, RecoverReport,
             RecoverDone, ClaimStep, Claim, Join, NextBatch, TaskStep, Start, Resolve, UploadEnds,
             WriteReceipt, Move, Report, ScheduleRetry, Requeue
<1> QED
    BY <1>1, <1>8, <1>9 DEF Next, vars

-----------------------------------------------------------------------------
(* Every task names a job, counts from one once it has started, and is     *)
(* bound for a terminal directory when it moves its file.                  *)
TasksTyped ==
    /\ attempts \in [Job -> Nat]
    /\ slot \in [Slot -> Task]
    /\ \A s \in Slot :
          /\ slot[s].pc # "idle" => slot[s].job \in Job
          /\ slot[s].pc \in {"move", "report"} => slot[s].to \in Terminal
          /\ slot[s].pc \in {"started", "uploading", "receipt"} => slot[s].attempt # 0

(* The event recover owes is one of the four it records.                   *)
StatusTyped ==
    /\ unreported \in [job : Job \cup {NoJob}, state : JobState \cup {"none"}]
    /\ unreported # NoReport => /\ unreported.job \in Job
                               /\ unreported.state \in {"Recovered", "Succeeded", "Failed", "Cancelled"}

(* What a step of a task does to its slot keeps the tasks typed.           *)
LEMMA TaskUpdate ==
    ASSUME TasksTyped, UNCHANGED attempts, NEW s \in Slot
    PROVE  /\ \A pc \in {"retry", "requeue", "done"} :
                 slot[s].pc # "idle" /\ Step(s, pc) => TasksTyped'
           /\ slot[s].pc \in {"started", "uploading"} /\ Step(s, "uploading") => TasksTyped'
           /\ slot[s].pc = "uploading" /\ Step(s, "receipt") => TasksTyped'
           /\ slot[s].pc = "move" /\ Step(s, "report") => TasksTyped'
           /\ \A to \in Terminal : slot[s].pc # "idle" /\ Finish(s, to) => TasksTyped'
           /\ Exit => TasksTyped'
<1>1. ASSUME NEW pc \in {"retry", "requeue", "done"}, slot[s].pc # "idle", Step(s, pc)
      PROVE  TasksTyped'
      BY <1>1 DEF TasksTyped, Task, Step
<1>2. ASSUME slot[s].pc \in {"started", "uploading"}, Step(s, "uploading")
      PROVE  TasksTyped'
      BY <1>2 DEF TasksTyped, Task, Step
<1>3. ASSUME slot[s].pc = "uploading", Step(s, "receipt")
      PROVE  TasksTyped'
      BY <1>3 DEF TasksTyped, Task, Step
<1>4. ASSUME slot[s].pc = "move", Step(s, "report")
      PROVE  TasksTyped'
      BY <1>4 DEF TasksTyped, Task, Step
<1>5. ASSUME NEW to \in Terminal, slot[s].pc # "idle", Finish(s, to)
      PROVE  TasksTyped'
      BY <1>5 DEF TasksTyped, Task, Finish
<1>6. ASSUME Exit PROVE TasksTyped'
      BY <1>6 DEF TasksTyped, Task, Exit, NoTask
<1> QED
    BY <1>1, <1>2, <1>3, <1>4, <1>5, <1>6

(* Every step keeps the tasks typed.                                       *)
LEMMA TasksTypedStep ==
    ASSUME TasksTyped, RequestsTyped, StatusTyped, [Next]_vars
    PROVE  TasksTyped'
<1>0. CASE UNCHANGED <<slot, attempts>>
      BY <1>0 DEF TasksTyped
<1>1. ASSUME NEW j, NEW state, NEW d, Record(j, state, d), state # "Running", UNCHANGED slot
      PROVE  TasksTyped'
      BY <1>0, <1>1 DEF Record
<1>2. ASSUME NEW s \in Slot, NEW j \in Job, Claim(s, j)
      PROVE  TasksTyped'
      BY <1>2 DEF TasksTyped, Task, Claim, status
<1>3. ASSUME NEW s \in Slot, Start(s)
      PROVE  TasksTyped'
      <2>1. slot[s].pc = "claimed" /\ slot[s].job \in Job
            BY <1>3 DEF Start, On, TasksTyped
      <2>2. attempts' \in [Job -> Nat]
            BY <1>3, <2>1 DEF Start, Record, TasksTyped
      <2>3. attempts[slot[s].job] + 1 \in Nat /\ attempts[slot[s].job] + 1 # 0
            BY <2>1 DEF TasksTyped
      <2>4. slot' = [slot EXCEPT ![s].pc = "started", ![s].attempt = attempts[slot[s].job] + 1]
            BY <1>3 DEF Start
      <2> QED
          BY <2>1, <2>2, <2>3, <2>4 DEF TasksTyped, Task
<1>4. ASSUME NEW s \in Slot, Fail(s), slot[s].pc # "idle", UNCHANGED attempts
      PROVE  TasksTyped'
      BY <1>4, TaskUpdate DEF Fail, Terminal
<1>5. ASSUME NEW s \in Slot, Resolve(s) \/ UploadEnds(s)
      PROVE  TasksTyped'
      BY <1>4, <1>5, TaskUpdate DEF Resolve, UploadEnds, On, Terminal, Uploaded, status
<1>6. ASSUME NEW s \in Slot, WriteReceipt(s) \/ Move(s) \/ Requeue(s)
      PROVE  TasksTyped'
      BY <1>6, TaskUpdate DEF WriteReceipt, Move, Requeue, On, Terminal, status
<1>7. ASSUME NEW s \in Slot, Report(s) \/ ScheduleRetry(s)
      PROVE  TasksTyped'
      <2>1. UNCHANGED attempts
            BY <1>7 DEF Report, ScheduleRetry, Record, FinalState
      <2> QED
          BY <1>7, <2>1, TaskUpdate DEF Report, ScheduleRetry, On
<1>8. CASE NextBatch \/ Crash
      <2>1. slot' = [s \in Slot |-> NoTask] /\ UNCHANGED attempts
            BY <1>8 DEF NextBatch, Crash, Exit, status
      <2> QED
          BY <2>1 DEF TasksTyped, Task, NoTask
<1>9. CASE RequestStep
      <2>1. ASSUME NEW c \in Client, ReportRequest(c) PROVE TasksTyped'
            BY <1>1, <2>1 DEF ReportRequest, process
      <2> QED
          BY <1>0, <1>9, <2>1 DEF RequestStep, Submit, StageCancel, StageRetry, Scan, Create, Audit,
              Discard, PublishJob, PublishCancel, PublishRetry, ClearCancel, RequeueFailed,
              ConsumeRetry, Drop, CliCancel, status, process
<1>10. CASE RecoverStep
      <2>1. CASE RecoverReport
            BY <1>1, <2>1 DEF RecoverReport, StatusTyped
      <2> QED
          BY <1>0, <1>10, <2>1 DEF RecoverStep, RecoverMove, RecoverDone, status
<1>11. CASE Boot \/ Join \/ TimeStep
      BY <1>0, <1>11 DEF Boot, Join, TimeStep, Elapse, status, process
<1> QED
    BY <1>0, <1>2, <1>3, <1>5, <1>6, <1>7, <1>8, <1>9, <1>10, <1>11
    DEF Next, WorkerStep, ClaimStep, TaskStep, vars, status, process

(* Every step keeps the event recover owes typed.                          *)
LEMMA StatusTypedStep ==
    ASSUME StatusTyped, [Next]_vars
    PROVE  StatusTyped'
<1>1. CASE UNCHANGED unreported
      BY <1>1 DEF StatusTyped
<1>2. CASE unreported' = NoReport
      BY <1>2 DEF StatusTyped, NoReport
<1>3. ASSUME NEW j \in Job, RecoverMove(j) PROVE StatusTyped'
      <2>1. Recovery(j).state \in {"Recovered", "Succeeded", "Failed", "Cancelled"}
            BY DEF Recovery
      <2> QED
          BY <1>3, <2>1 DEF RecoverMove, StatusTyped, JobState
<1>4. RequestStep => UNCHANGED unreported
      BY DEF RequestStep, Submit, StageCancel, StageRetry, Scan, Create, Audit, Discard, PublishJob,
             PublishCancel, PublishRetry, ClearCancel, RequeueFailed, ReportRequest, ConsumeRetry,
             Drop, CliCancel, process
<1>5. ASSUME NEW s \in Slot, TaskStep(s) PROVE unreported' = NoReport \/ UNCHANGED unreported
      BY <1>5 DEF TaskStep, Start, Resolve, UploadEnds, WriteReceipt, Move, Report, ScheduleRetry,
                  Requeue, Exit
<1>6. Boot \/ ClaimStep \/ Join \/ NextBatch \/ TimeStep \/ RecoverDone => UNCHANGED unreported
      BY DEF Boot, ClaimStep, Claim, Join, NextBatch, TimeStep, Elapse, RecoverDone, process
<1>7. Crash \/ RecoverReport => unreported' = NoReport
      BY DEF Crash, Exit, RecoverReport
<1> QED
    BY <1>1, <1>2, <1>3, <1>4, <1>5, <1>6, <1>7 DEF Next, WorkerStep, RecoverStep, vars, process

-----------------------------------------------------------------------------
(* Which directories a step can put a job into.                            *)

FilesTyped == files \in [Job -> SUBSET Dir] /\ receipt \in [Job -> Nat]

QueueTypes == RequestsTyped /\ TasksTyped /\ StatusTyped /\ FilesTyped

(* Any step that only moves files of job k between directories a worker    *)
(* sees, or out of them, leaves the other jobs alone.                      *)
MovesVisible(k, from, to) ==
    /\ k \in Job /\ from \in files[k] /\ from # "staged" /\ to \in Dir
    /\ files' = [files EXCEPT ![k] = (@ \ {from}) \cup {to}]

(* The steps of the worker move files that have already left staged; a     *)
(* move to completed is recover's over a receipt, or a task's.             *)
LEMMA WorkerMoves ==
    ASSUME QueueTypes, WorkerStep \/ TimeStep \/ Crash
    PROVE  \/ UNCHANGED files
           \/ \E k \in Job, from, to \in Dir :
                 /\ MovesVisible(k, from, to)
                 /\ to = "completed" => \/ receipt[k] # 0
                                        \/ \E s \in Slot : /\ slot[s].pc = "move" /\ slot[s].job = k
                                                           /\ slot[s].to = "completed"
<1>1. ASSUME NEW j \in Job, RecoverMove(j)
      PROVE  /\ MovesVisible(j, "running", Recovery(j).to)
             /\ Recovery(j).to = "completed" => receipt[j] # 0
      BY <1>1 DEF RecoverMove, Rename, Recovery, MovesVisible, Dir, Terminal
<1>2. ASSUME NEW s \in Slot, NEW j \in Job, Claim(s, j)
      PROVE  MovesVisible(j, "pending", "running")
      BY <1>2 DEF Claim, Rename, MovesVisible, Dir
<1>3. ASSUME NEW s \in Slot, Move(s)
      PROVE  \/ UNCHANGED files
             \/ /\ slot[s].pc = "move"
                /\ MovesVisible(slot[s].job, "running", slot[s].to)
      BY <1>3 DEF Move, On, Rename, MovesVisible, QueueTypes, TasksTyped, Dir
<1>4. ASSUME NEW s \in Slot, Requeue(s)
      PROVE  UNCHANGED files \/ MovesVisible(slot[s].job, "running", "pending")
      BY <1>4 DEF Requeue, On, Rename, MovesVisible, QueueTypes, TasksTyped, Dir
<1>5. ASSUME NEW s \in Slot, TaskStep(s), ~Move(s), ~Requeue(s)
      PROVE  UNCHANGED files
      BY <1>5 DEF TaskStep, Start, Resolve, UploadEnds, WriteReceipt, Report, ScheduleRetry, files_
<1>6. Boot \/ Join \/ NextBatch \/ TimeStep \/ Crash \/ RecoverReport \/ RecoverDone => UNCHANGED files
      BY DEF Boot, Join, NextBatch, TimeStep, Elapse, Crash, RecoverReport, RecoverDone, files_
<1>8. \A k, from, to : MovesVisible(k, from, to) => k \in Job /\ from \in Dir /\ to \in Dir
      BY DEF MovesVisible, QueueTypes, FilesTyped
<1>9. CASE \E j \in Job : RecoverMove(j)
      BY <1>1, <1>8, <1>9
<1>10. CASE ClaimStep
      BY <1>2, <1>8, <1>10 DEF ClaimStep
<1>11. CASE \E s \in Slot : TaskStep(s)
      BY <1>3, <1>4, <1>5, <1>8, <1>11
<1> QED
    BY <1>6, <1>9, <1>10, <1>11 DEF WorkerStep, RecoverStep

(* The steps of the requests: a file appears in staged or, for a job that  *)
(* is not of the API, in pending; it leaves staged by its publication; or  *)
(* a failed job is requeued.                                               *)
LEMMA RequestMoves ==
    ASSUME QueueTypes, RequestStep
    PROVE  \/ UNCHANGED files
           \/ \E k \in Job, to \in Dir : MovesVisible(k, "failed", to) /\ to # "completed"
           \/ \E c \in Client :
                 LET k == client[c].job IN
                 /\ k \in Job
                 /\ \/ files' = [files EXCEPT ![k] = @ \ {"staged"}]
                    \/ files' = [files EXCEPT ![k] = @ \cup {"staged"}]
                    \/ /\ client[c].pc = "create" /\ client[c].op # "run"
                       /\ files' = [files EXCEPT ![k] = @ \cup {"pending"}]
                    \/ /\ client[c].pc = "publish" /\ client[c].op = "run"
                       /\ files' = [files EXCEPT ![k] = (@ \ {"staged"}) \cup {"pending"}]
<1>1. ASSUME NEW c \in Client, ~At(c, "idle") PROVE client[c].job \in Job
      BY <1>1 DEF At, QueueTypes, RequestsTyped
<1>2. CASE \E c \in Client : Create(c)
      BY <1>1, <1>2 DEF Create, At
<1>3. CASE \E c \in Client : Discard(c)
      BY <1>1, <1>3 DEF Discard, At
<1>4. CASE \E c \in Client : PublishJob(c)
      BY <1>1, <1>4 DEF PublishJob, At, Rename
<1>5. CASE \E c \in Client : RequeueFailed(c)
      <2>1. "pending" \in Dir
            BY DEF Dir
      <2> QED
          BY <1>1, <1>5, <2>1 DEF RequeueFailed, At, Rename, MovesVisible
<1>6. CASE \E c \in Client : \/ Scan(c) \/ Audit(c) \/ PublishCancel(c) \/ PublishRetry(c)
                             \/ ClearCancel(c) \/ ReportRequest(c) \/ ConsumeRetry(c) \/ Drop(c)
      BY <1>6 DEF Scan, Audit, PublishCancel, PublishRetry, ClearCancel, ReportRequest,
                  ConsumeRetry, Drop, files_
<1>7. CASE \/ \E c \in Client, j \in Job : Submit(c, j) \/ StageCancel(c, j) \/ StageRetry(c, j)
           \/ \E j \in Job : CliCancel(j)
      BY <1>7 DEF Submit, StageCancel, StageRetry, CliCancel, files_
<1> QED
    BY <1>2, <1>3, <1>4, <1>5, <1>6, <1>7 DEF RequestStep

(* Every step keeps the types.                                             *)
LEMMA QueueTypesStep == QueueTypes /\ [Next]_vars => QueueTypes'
<1> SUFFICES ASSUME QueueTypes, [Next]_vars PROVE QueueTypes'
    OBVIOUS
<1>1. RequestsTyped' /\ TasksTyped' /\ StatusTyped'
      BY RequestsTypedStep, TasksTypedStep, StatusTypedStep DEF QueueTypes
<1>2. files' \in [Job -> SUBSET Dir]
      <2>1. ASSUME NEW k \in Job, NEW S \in SUBSET Dir, files' = [files EXCEPT ![k] = S]
            PROVE  files' \in [Job -> SUBSET Dir]
            BY <2>1 DEF QueueTypes, FilesTyped
      <2>2. {"staged", "pending"} \subseteq Dir /\ \A k \in Job : files[k] \subseteq Dir
            BY DEF Dir, QueueTypes, FilesTyped
      <2>3. ASSUME NEW k, NEW from, NEW to, MovesVisible(k, from, to)
            PROVE  files' \in [Job -> SUBSET Dir]
            <3>1. (files[k] \ {from}) \cup {to} \in SUBSET Dir
                  BY <2>2, <2>3 DEF MovesVisible
            <3>2. k \in Job /\ files' = [files EXCEPT ![k] = (files[k] \ {from}) \cup {to}]
                  BY <2>3 DEF MovesVisible
            <3> QED
                BY <2>1, <3>1, <3>2
      <2>4. CASE UNCHANGED files
            BY <2>4 DEF QueueTypes, FilesTyped
      <2>5. CASE RequestStep
            <3>1. ASSUME NEW k \in Job, NEW S,
                         \/ S = files[k] \ {"staged"}
                         \/ S = files[k] \cup {"staged"}
                         \/ S = files[k] \cup {"pending"}
                         \/ S = (files[k] \ {"staged"}) \cup {"pending"},
                         files' = [files EXCEPT ![k] = S]
                  PROVE  files' \in [Job -> SUBSET Dir]
                  <4>1. S \in SUBSET Dir
                        BY <2>2, <3>1
                  <4> QED
                      BY <2>1, <3>1, <4>1
            <3>2. ASSUME NEW c \in Client, client[c].job \in Job,
                         \/ files' = [files EXCEPT ![client[c].job] = @ \ {"staged"}]
                         \/ files' = [files EXCEPT ![client[c].job] = @ \cup {"staged"}]
                         \/ files' = [files EXCEPT ![client[c].job] = @ \cup {"pending"}]
                         \/ files' = [files EXCEPT ![client[c].job] = (@ \ {"staged"}) \cup {"pending"}]
                  PROVE  files' \in [Job -> SUBSET Dir]
                  BY <3>1, <3>2
            <3> QED
                BY <2>3, <2>4, <2>5, <3>2, RequestMoves
      <2>6. CASE WorkerStep \/ TimeStep \/ Crash
            BY <2>3, <2>4, <2>6, WorkerMoves
      <2> QED
          BY <2>4, <2>5, <2>6 DEF Next, vars, files_
<1>3. receipt' \in [Job -> Nat]
      <2>1. CASE UNCHANGED receipt
            BY <2>1 DEF QueueTypes, FilesTyped
      <2>2. ASSUME NEW s \in Slot, WriteReceipt(s) PROVE receipt' \in [Job -> Nat]
            BY <2>2 DEF WriteReceipt, On, QueueTypes, TasksTyped, Task, FilesTyped
      <2>3. RequestStep => UNCHANGED receipt
            BY DEF RequestStep, Submit, StageCancel, StageRetry, Scan, Create, Audit, Discard,
                   PublishJob, PublishCancel, PublishRetry, ClearCancel, RequeueFailed,
                   ReportRequest, ConsumeRetry, Drop, CliCancel, files_
      <2>4. ASSUME NEW s \in Slot, TaskStep(s), ~WriteReceipt(s) PROVE UNCHANGED receipt
            BY <2>4
               DEF TaskStep, Start, Resolve, UploadEnds, Move, Report, ScheduleRetry, Requeue, files_
      <2>5. Boot \/ RecoverStep \/ ClaimStep \/ Join \/ NextBatch \/ TimeStep \/ Crash
              => UNCHANGED receipt
            BY DEF Boot, RecoverStep, RecoverMove, RecoverReport, RecoverDone, ClaimStep, Claim,
                   Join, NextBatch, TimeStep, Elapse, Crash, files_
      <2> QED
          BY <2>1, <2>2, <2>3, <2>4, <2>5 DEF Next, WorkerStep, vars, files_
<1> QED
    BY <1>1, <1>2, <1>3 DEF QueueTypes, FilesTyped

-----------------------------------------------------------------------------
(* The inductive strengthening of AuditedBeforeVisible: a request that is  *)
(* about to publish has audited, and what is put straight into pending is  *)
(* not an API job.                                                         *)
AuditInv ==
    /\ AuditedBeforeVisible
    /\ \A c \in Client :
          /\ client[c].op = "run" /\ client[c].pc = "publish" => client[c].job \in audited
          /\ client[c].op = "enqueue" => client[c].job \notin ApiJob
          /\ client[c].pc \in {"scan", "create"} => client[c].op \in {"run", "enqueue"}

(* Every step keeps what requests know about the audit.                    *)
LEMMA AuditInvStep == QueueTypes /\ AuditInv /\ [Next]_vars => AuditInv'
<1> SUFFICES ASSUME QueueTypes, AuditInv, [Next]_vars PROVE AuditInv'
    OBVIOUS
<1>1. audited \subseteq audited'
      BY DEF Next, RequestStep, Submit, StageCancel, StageRetry, Scan, Create, Audit, Discard,
             PublishJob, PublishCancel, PublishRetry, ClearCancel, RequeueFailed,
             ReportRequest, ConsumeRetry, Drop, CliCancel, WorkerStep, TimeStep, Elapse, Crash,
             Boot, RecoverStep, RecoverMove, RecoverReport, RecoverDone, ClaimStep, Claim, Join,
             NextBatch, TaskStep, Start, Resolve, UploadEnds, WriteReceipt, Move, Report,
             ScheduleRetry, Requeue, history, vars
<1>2. AuditedBeforeVisible'
      <2>1. CASE UNCHANGED files
            BY <1>1, <2>1 DEF AuditInv, AuditedBeforeVisible
      <2>2. ASSUME NEW k, NEW from, NEW to, MovesVisible(k, from, to)
            PROVE  AuditedBeforeVisible'
            BY <1>1, <2>2, QueueAssumption
            DEF MovesVisible, AuditInv, AuditedBeforeVisible, QueueTypes, FilesTyped
      <2>3. ASSUME NEW c \in Client, client[c].job \in Job,
                   \/ files' = [files EXCEPT ![client[c].job] = @ \ {"staged"}]
                   \/ files' = [files EXCEPT ![client[c].job] = @ \cup {"staged"}]
            PROVE  AuditedBeforeVisible'
            BY <1>1, <2>3, QueueAssumption
               DEF AuditInv, AuditedBeforeVisible, QueueTypes, FilesTyped
      <2>4. ASSUME NEW c \in Client, client[c].job \in Job,
                   client[c].job \in audited \/ client[c].job \notin ApiJob,
                   \/ files' = [files EXCEPT ![client[c].job] = @ \cup {"pending"}]
                   \/ files' = [files EXCEPT ![client[c].job] = (@ \ {"staged"}) \cup {"pending"}]
            PROVE  AuditedBeforeVisible'
            BY <1>1, <2>4, QueueAssumption
               DEF AuditInv, AuditedBeforeVisible, QueueTypes, FilesTyped
      <2>5. CASE RequestStep
            <3>1. \A c \in Client :
                     /\ client[c].pc = "create" /\ client[c].op # "run" => client[c].job \notin ApiJob
                     /\ client[c].pc = "publish" /\ client[c].op = "run" => client[c].job \in audited
                  BY DEF AuditInv
            <3> QED
                BY <2>1, <2>2, <2>3, <2>4, <2>5, <3>1, RequestMoves
      <2>6. CASE WorkerStep \/ TimeStep \/ Crash
            BY <2>1, <2>2, <2>6, WorkerMoves
      <2> QED
          BY <2>1, <2>5, <2>6 DEF Next, vars, files_
<1> DEFINE Knows(r, known) ==
              /\ r.op = "run" /\ r.pc = "publish" => r.job \in known
              /\ r.op = "enqueue" => r.job \notin ApiJob
              /\ r.pc \in {"scan", "create"} => r.op \in {"run", "enqueue"}
<1>3. \A c \in Client : Knows(client[c], audited')
      BY <1>1 DEF AuditInv
<1> HIDE DEF Knows
<1>4. ASSUME UNCHANGED client
      PROVE  \A d \in Client : Knows(client'[d], audited')
      BY <1>3, <1>4
<1>5. ASSUME NEW c \in Client, NEW r, client' = [client EXCEPT ![c] = r], Knows(r, audited')
      PROVE  \A d \in Client : Knows(client'[d], audited')
      BY <1>3, <1>5 DEF QueueTypes, RequestsTyped
<1>6. Knows(NoRequest, audited')
      BY DEF Knows, NoRequest
<1>7. ASSUME NEW c \in Client, End(c) PROVE \A d \in Client : Knows(client'[d], audited')
      BY <1>5, <1>6, <1>7 DEF End
<1>8. ASSUME NEW c \in Client, NEW pc \in {"audit", "discard", "clear", "rename", "report", "consume"},
             Continue(c, pc)
      PROVE  \A d \in Client : Knows(client'[d], audited')
      <2>1. client[c] \in Request
            BY DEF QueueTypes, RequestsTyped
      <2>2. Knows([client[c] EXCEPT !.pc = pc], audited')
            BY <1>3, <2>1 DEF Knows, Request
      <2> QED
          BY <1>5, <1>8, <2>2 DEF Continue
<1>9. ASSUME NEW c \in Client, NEW j \in Job, Submit(c, j) \/ StageCancel(c, j) \/ StageRetry(c, j)
      PROVE  \A d \in Client : Knows(client'[d], audited')
      <2>1. ASSUME NEW op, NEW pc, Begin(c, op, j, pc),
                   \/ pc = "audit" /\ op # "enqueue"
                   \/ pc = "scan" /\ op = (IF j \in ApiJob THEN "run" ELSE "enqueue")
            PROVE  \A d \in Client : Knows(client'[d], audited')
            <3>1. Knows([op |-> op, job |-> j, pc |-> pc, at |-> 1], audited')
                  BY <2>1 DEF Knows
            <3> QED
                BY <1>5, <2>1, <3>1 DEF Begin
      <2> QED
          BY <1>9, <2>1 DEF Submit, StageCancel, StageRetry
<1>10. ASSUME NEW c \in Client, Scan(c) PROVE \A d \in Client : Knows(client'[d], audited')
      <2>0. client[c] \in Request /\ client[c].pc = "scan" /\ Knows(client[c], audited')
            BY <1>3, <1>10 DEF QueueTypes, RequestsTyped, Scan, At
      <2>1. CASE Found(c)
            BY <1>7, <1>8, <2>1 DEF Found
      <2>2. ASSUME NEW r, r = [client[c] EXCEPT !.pc = "create"] \/ r = [client[c] EXCEPT !.at = client[c].at + 1]
            PROVE  Knows(r, audited')
            BY <2>0, <2>2 DEF Knows, Request
      <2>3. CASE Continue(c, "create")
            BY <1>5, <2>2, <2>3 DEF Continue
      <2>4. CASE client' = [client EXCEPT ![c].at = client[c].at + 1]
            BY <1>5, <2>2, <2>4
      <2> QED
          BY <1>10, <2>1, <2>3, <2>4 DEF Scan
<1>11. ASSUME NEW c \in Client, Audit(c) PROVE \A d \in Client : Knows(client'[d], audited')
      <2>0. client[c] \in Request /\ Knows(client[c], audited')
            BY <1>3 DEF QueueTypes, RequestsTyped
      <2>1. CASE Continue(c, "discard")
            BY <1>8, <2>1
      <2>2. CASE /\ Continue(c, "publish")
                 /\ audited' = IF client[c].op = "run" THEN audited \cup {client[c].job} ELSE audited
            <3>1. Knows([client[c] EXCEPT !.pc = "publish"], audited')
                  BY <2>0, <2>2 DEF Knows, Request
            <3> QED
                BY <1>5, <2>2, <3>1 DEF Continue
      <2> QED
          BY <1>11, <2>1, <2>2 DEF Audit
<1>12. ASSUME NEW c \in Client,
              \/ Create(c) \/ Discard(c) \/ PublishJob(c) \/ PublishCancel(c) \/ PublishRetry(c)
              \/ ClearCancel(c) \/ RequeueFailed(c) \/ ReportRequest(c) \/ ConsumeRetry(c) \/ Drop(c)
       PROVE  \A d \in Client : Knows(client'[d], audited')
       BY <1>7, <1>8, <1>12 DEF Create, Found, Discard, PublishJob, PublishCancel, PublishRetry,
              ClearCancel, RequeueFailed, ReportRequest, ConsumeRetry, Drop
<1>13. WorkerStep \/ TimeStep \/ Crash \/ (\E j \in Job : CliCancel(j)) => UNCHANGED client
      BY DEF WorkerStep, TimeStep, Elapse, Crash, Boot, RecoverStep, RecoverMove, RecoverReport,
             RecoverDone, ClaimStep, Claim, Join, NextBatch, TaskStep, Start, Resolve, UploadEnds,
             WriteReceipt, Move, Report, ScheduleRetry, Requeue, CliCancel
<1>14. \A d \in Client : Knows(client'[d], audited')
      BY <1>4, <1>9, <1>10, <1>11, <1>12, <1>13 DEF Next, RequestStep, vars
<1> QED
    BY <1>2, <1>14 DEF AuditInv, Knows

-----------------------------------------------------------------------------
(* The inductive strengthening of CompletedHasReceipt: a task that is      *)
(* about to complete a job has written the receipt.                        *)
ReceiptInv ==
    /\ CompletedHasReceipt
    /\ \A s \in Slot : slot[s].pc = "move" /\ slot[s].to = "completed" => receipt[slot[s].job] # 0

(* No step takes a receipt away.                                           *)
LEMMA ReceiptStays ==
    ASSUME QueueTypes, [Next]_vars, NEW j \in Job, receipt[j] # 0
    PROVE  receipt'[j] # 0
<1>1. ASSUME NEW s \in Slot, WriteReceipt(s) PROVE receipt'[j] # 0
      BY <1>1 DEF WriteReceipt, On, QueueTypes, TasksTyped, FilesTyped
<1>2. ASSUME NEW s \in Slot, TaskStep(s), ~WriteReceipt(s) PROVE UNCHANGED receipt
      BY <1>2 DEF TaskStep, Start, Resolve, UploadEnds, Move, Report, ScheduleRetry, Requeue, files_
<1>3. RequestStep => UNCHANGED receipt
      BY DEF RequestStep, Submit, StageCancel, StageRetry, Scan, Create, Audit, Discard,
             PublishJob, PublishCancel, PublishRetry, ClearCancel, RequeueFailed,
             ReportRequest, ConsumeRetry, Drop, CliCancel, files_
<1>4. Boot \/ RecoverStep \/ ClaimStep \/ Join \/ NextBatch \/ TimeStep \/ Crash => UNCHANGED receipt
      BY DEF Boot, RecoverStep, RecoverMove, RecoverReport, RecoverDone, ClaimStep, Claim,
             Join, NextBatch, TimeStep, Elapse, Crash, files_
<1> QED
    BY <1>1, <1>2, <1>3, <1>4 DEF Next, WorkerStep, vars, files_

(* Every step keeps the receipts ahead of the completions.                 *)
LEMMA ReceiptInvStep == QueueTypes /\ ReceiptInv /\ [Next]_vars => ReceiptInv'
<1> SUFFICES ASSUME QueueTypes, ReceiptInv, [Next]_vars PROVE ReceiptInv'
    OBVIOUS
<1>1. \A j \in Job : receipt[j] # 0 => receipt'[j] # 0
      BY ReceiptStays
<1>2. CompletedHasReceipt'
      <2>1. CASE UNCHANGED files
            BY <1>1, <2>1 DEF ReceiptInv, CompletedHasReceipt
      <2>2. ASSUME NEW k, NEW from, NEW to, MovesVisible(k, from, to),
                   to = "completed" => receipt[k] # 0
            PROVE  CompletedHasReceipt'
            BY <1>1, <2>2 DEF MovesVisible, ReceiptInv, CompletedHasReceipt, QueueTypes, FilesTyped
      <2>3. ASSUME NEW c \in Client, client[c].job \in Job,
                   \/ files' = [files EXCEPT ![client[c].job] = @ \ {"staged"}]
                   \/ files' = [files EXCEPT ![client[c].job] = @ \cup {"staged"}]
                   \/ files' = [files EXCEPT ![client[c].job] = @ \cup {"pending"}]
                   \/ files' = [files EXCEPT ![client[c].job] = (@ \ {"staged"}) \cup {"pending"}]
            PROVE  CompletedHasReceipt'
            BY <1>1, <2>3 DEF ReceiptInv, CompletedHasReceipt, QueueTypes, FilesTyped
      <2>4. CASE RequestStep
            BY <2>1, <2>2, <2>3, <2>4, RequestMoves
      <2>5. CASE WorkerStep \/ TimeStep \/ Crash
            <3>1. \A s \in Slot : slot[s].pc = "move" /\ slot[s].to = "completed"
                                     => receipt[slot[s].job] # 0
                  BY DEF ReceiptInv
            <3> QED
                BY <2>1, <2>2, <2>5, <3>1, WorkerMoves
      <2> QED
          BY <2>1, <2>4, <2>5 DEF Next, vars, files_
<1> DEFINE Backed(t, kept) == t.pc = "move" /\ t.to = "completed" => kept[t.job] # 0
<1>3. \A s \in Slot : Backed(slot[s], receipt')
      BY <1>1 DEF ReceiptInv, QueueTypes, TasksTyped
<1> HIDE DEF Backed
<1>4. ASSUME UNCHANGED slot PROVE \A s \in Slot : Backed(slot'[s], receipt')
      BY <1>3, <1>4
<1>5. ASSUME NEW s \in Slot, NEW t, slot' = [slot EXCEPT ![s] = t], Backed(t, receipt')
      PROVE  \A u \in Slot : Backed(slot'[u], receipt')
      BY <1>3, <1>5 DEF QueueTypes, TasksTyped
<1>6. ASSUME slot' = [s \in Slot |-> NoTask] PROVE \A s \in Slot : Backed(slot'[s], receipt')
      BY <1>6 DEF Backed, NoTask
<1>7. ASSUME NEW s \in Slot, NEW pc, pc # "move", Step(s, pc)
      PROVE  \A u \in Slot : Backed(slot'[u], receipt')
      <2>1. Backed([slot[s] EXCEPT !.pc = pc], receipt')
            BY <1>7 DEF Backed, QueueTypes, TasksTyped, Task
      <2> QED
          BY <1>5, <1>7, <2>1 DEF Step
<1>8. ASSUME NEW s \in Slot, NEW to, Finish(s, to), to = "completed" => receipt'[slot[s].job] # 0
      PROVE  \A u \in Slot : Backed(slot'[u], receipt')
      <2>1. Backed([slot[s] EXCEPT !.pc = "move", !.to = to], receipt')
            BY <1>8 DEF Backed, QueueTypes, TasksTyped, Task
      <2> QED
          BY <1>5, <1>8, <2>1 DEF Finish
<1>9. ASSUME NEW s \in Slot, NEW j \in Job, Claim(s, j)
      PROVE  \A u \in Slot : Backed(slot'[u], receipt')
      <2>1. Backed([pc |-> "claimed", job |-> j, attempt |-> 0, to |-> "none",
                    doomed |-> j \in cancel], receipt')
            BY DEF Backed
      <2> QED
          BY <1>5, <1>9, <2>1 DEF Claim
<1>10. ASSUME NEW s \in Slot, Start(s)
      PROVE  \A u \in Slot : Backed(slot'[u], receipt')
      <2>1. Backed([slot[s] EXCEPT !.pc = "started", !.attempt = attempts[slot[s].job] + 1], receipt')
            BY DEF Backed, QueueTypes, TasksTyped, Task
      <2> QED
          BY <1>5, <1>10, <2>1 DEF Start
<1>11. ASSUME NEW s \in Slot, Fail(s)
      PROVE  \A u \in Slot : Backed(slot'[u], receipt')
      BY <1>7, <1>8, <1>11 DEF Fail
<1>12. ASSUME NEW s \in Slot, Resolve(s) \/ UploadEnds(s)
      PROVE  \A u \in Slot : Backed(slot'[u], receipt')
      BY <1>7, <1>8, <1>11, <1>12 DEF Resolve, UploadEnds, Uploaded
<1>13. ASSUME NEW s \in Slot, WriteReceipt(s)
      PROVE  \A u \in Slot : Backed(slot'[u], receipt')
      <2>1. slot[s].job \in Job /\ slot[s].attempt # 0
            BY <1>13 DEF WriteReceipt, On, QueueTypes, TasksTyped
      <2>2. CASE receipt' = [receipt EXCEPT ![slot[s].job] = slot[s].attempt] /\ Finish(s, "completed")
            BY <1>8, <2>1, <2>2 DEF QueueTypes, FilesTyped
      <2> QED
          BY <1>6, <1>13, <2>2 DEF WriteReceipt, Exit
<1>14. ASSUME NEW s \in Slot, Move(s) \/ Report(s) \/ ScheduleRetry(s) \/ Requeue(s)
      PROVE  \A u \in Slot : Backed(slot'[u], receipt')
      BY <1>6, <1>7, <1>14 DEF Move, Report, ScheduleRetry, Requeue, Exit
<1>15. RequestStep \/ TimeStep \/ Boot \/ Join \/ RecoverStep => UNCHANGED slot
      BY DEF RequestStep, Submit, StageCancel, StageRetry, Scan, Create, Audit, Discard, PublishJob,
             PublishCancel, PublishRetry, ClearCancel, RequeueFailed, ReportRequest, ConsumeRetry,
             Drop, CliCancel, TimeStep, Elapse, Boot, Join, RecoverStep, RecoverMove, RecoverReport,
             RecoverDone, process
<1>16. NextBatch \/ Crash => slot' = [s \in Slot |-> NoTask]
      BY DEF NextBatch, Crash, Exit
<1>17. \A s \in Slot : Backed(slot'[s], receipt')
      BY <1>4, <1>6, <1>9, <1>10, <1>12, <1>13, <1>14, <1>15, <1>16
      DEF Next, WorkerStep, ClaimStep, TaskStep, vars, process
<1> QED
    BY <1>2, <1>17 DEF ReceiptInv, Backed

-----------------------------------------------------------------------------
(* The initial states satisfy the three invariants.                        *)
LEMMA QueueInit == Init => QueueTypes /\ AuditInv /\ ReceiptInv
<1> SUFFICES ASSUME Init PROVE QueueTypes /\ AuditInv /\ ReceiptInv
    OBVIOUS
<1>1. RequestsTyped /\ StatusTyped /\ FilesTyped
      BY DEF Init, RequestsTyped, StatusTyped, FilesTyped, NoRequest, Request, ScanOrder, NoReport
<1>2. TasksTyped
      BY DEF Init, TasksTyped, Task, NoTask
<1>3. AuditInv
      BY QueueAssumption DEF Init, AuditInv, AuditedBeforeVisible, NoRequest
<1>4. ReceiptInv
      BY DEF Init, ReceiptInv, CompletedHasReceipt, NoTask
<1> QED
    BY <1>1, <1>2, <1>3, <1>4 DEF QueueTypes

(* run_target: a job of the API is never visible to the worker before a    *)
(* ledger event names it, for any number of overlapping requests.          *)
THEOREM AuditFirst == Spec => []AuditedBeforeVisible
<1>1. QueueTypes /\ AuditInv /\ [Next]_vars => (QueueTypes /\ AuditInv)'
      BY QueueTypesStep, AuditInvStep
<1>2. AuditInv => AuditedBeforeVisible
      BY DEF AuditInv
<1> QED
    BY <1>1, <1>2, QueueInit, PTL DEF Spec

(* process_claimed, recover: a job is never in completed without a         *)
(* receipt, however many tasks run and however often the worker dies.      *)
THEOREM ReceiptFirst == Spec => []CompletedHasReceipt
<1>1. QueueTypes /\ ReceiptInv /\ [Next]_vars => (QueueTypes /\ ReceiptInv)'
      BY QueueTypesStep, ReceiptInvStep
<1>2. ReceiptInv => CompletedHasReceipt
      BY DEF ReceiptInv
<1> QED
    BY <1>1, <1>2, QueueInit, PTL DEF Spec

-----------------------------------------------------------------------------
(* The rest of the type invariant: markers, events and counters.           *)

USE DEF files_, status, process, history

(* The marker files and the ledger's audits name jobs.                     *)
MarkersTyped ==
    /\ cancel \subseteq Job /\ cancelStaged \subseteq Job /\ retryStaged \subseteq Job
    /\ audited \subseteq Job

(* The latest status event of each job.                                    *)
EventsTyped ==
    event \in [Job -> JobState \cup {"none"}] /\ waiting \subseteq Job /\ backoff \subseteq Job

(* The worker process and the counters.                                    *)
CountsTyped ==
    /\ worker \in {"down", "recovering", "claiming", "joining"}
    /\ uploads \in [Job -> Nat] /\ granted \in [Job -> Nat]
    /\ submits \in [Job -> Nat] /\ crashes \in Nat

(* Markers and audits name jobs.                                           *)
LEMMA MarkersTypedStep ==
    ASSUME MarkersTyped, RequestsTyped, [Next]_vars
    PROVE  MarkersTyped'
<1>1. ASSUME NEW c \in Client, NEW j \in Job, StageCancel(c, j) \/ StageRetry(c, j)
      PROVE  MarkersTyped'
      BY <1>1 DEF StageCancel, StageRetry, MarkersTyped
<1>2. ASSUME NEW c \in Client, Audit(c) PROVE MarkersTyped'
      BY <1>2 DEF Audit, At, MarkersTyped, RequestsTyped
<1>3. ASSUME NEW c \in Client, Discard(c) PROVE MarkersTyped'
      BY <1>3 DEF Discard, MarkersTyped
<1>4. ASSUME NEW c \in Client, PublishCancel(c) PROVE MarkersTyped'
      BY <1>4 DEF PublishCancel, At, MarkersTyped, RequestsTyped
<1>5. ASSUME NEW c \in Client, ClearCancel(c) \/ ConsumeRetry(c) PROVE MarkersTyped'
      BY <1>5 DEF ClearCancel, ConsumeRetry, MarkersTyped
<1>6. ASSUME NEW j \in Job, CliCancel(j) PROVE MarkersTyped'
      BY <1>6 DEF CliCancel, MarkersTyped
<1>7. CASE UNCHANGED <<cancel, cancelStaged, retryStaged, audited>>
      BY <1>7 DEF MarkersTyped
<1> QED
    BY <1>1, <1>2, <1>3, <1>4, <1>5, <1>6, <1>7
    DEF Next, RequestStep, WorkerStep, RecoverStep, ClaimStep, TaskStep, TimeStep, vars,
        Submit, Scan, Create, PublishJob, PublishRetry, RequeueFailed, ReportRequest, Drop,
        Boot, RecoverMove, RecoverReport, RecoverDone, Claim, Join, NextBatch, Start, Resolve,
        UploadEnds, WriteReceipt, Move, Report, ScheduleRetry, Requeue, Elapse, Crash

(* record_event keeps the events typed.                                    *)
LEMMA RecordTyped ==
    ASSUME EventsTyped, NEW j \in Job, NEW state \in JobState, NEW d \in BOOLEAN,
           Record(j, state, d), backoff' \subseteq Job
    PROVE  EventsTyped'
    BY DEF EventsTyped, Record

(* Events are of known states and delays of jobs.                          *)
LEMMA EventsTypedStep ==
    ASSUME EventsTyped, RequestsTyped, TasksTyped, StatusTyped, [Next]_vars
    PROVE  EventsTyped'
<1>1. ASSUME NEW c \in Client, ReportRequest(c) PROVE EventsTyped'
      <2>1. client[c].job \in Job
            BY <1>1 DEF ReportRequest, At, RequestsTyped
      <2> QED
          BY <1>1, <2>1, RecordTyped DEF ReportRequest, JobState, EventsTyped
<1>2. ASSUME NEW j \in Job, RecoverMove(j) PROVE EventsTyped'
      BY <1>2 DEF RecoverMove, EventsTyped
<1>3. CASE RecoverReport
      <2>1. unreported.job \in Job /\ unreported.state \in JobState
            BY <1>3 DEF RecoverReport, StatusTyped, JobState
      <2> QED
          BY <1>3, <2>1, RecordTyped DEF RecoverReport, EventsTyped
<1>4. ASSUME NEW s \in Slot, Start(s) PROVE EventsTyped'
      <2>1. slot[s].job \in Job
            BY <1>4 DEF Start, On, TasksTyped
      <2> QED
          BY <1>4, <2>1, RecordTyped DEF Start, JobState, EventsTyped
<1>5. ASSUME NEW s \in Slot, Report(s) PROVE EventsTyped'
      <2>1. slot[s].job \in Job /\ FinalState(slot[s].to) \in JobState
            BY <1>5 DEF Report, On, TasksTyped, FinalState, JobState, Terminal
      <2> QED
          BY <1>5, <2>1, RecordTyped DEF Report, EventsTyped
<1>6. ASSUME NEW s \in Slot, ScheduleRetry(s) PROVE EventsTyped'
      <2>1. slot[s].job \in Job
            BY <1>6 DEF ScheduleRetry, On, TasksTyped
      <2>2. backoff' \subseteq Job
            BY <1>6, <2>1 DEF ScheduleRetry, EventsTyped
      <2> QED
          BY <1>6, <2>1, <2>2, RecordTyped DEF ScheduleRetry, JobState
<1>7. ASSUME NEW j \in Job, Elapse(j) PROVE EventsTyped'
      BY <1>7 DEF Elapse, EventsTyped
<1>8. CASE UNCHANGED <<event, waiting, backoff>>
      BY <1>8 DEF EventsTyped
<1> QED
    BY <1>1, <1>2, <1>3, <1>4, <1>5, <1>6, <1>7, <1>8
    DEF Next, RequestStep, WorkerStep, RecoverStep, ClaimStep, TaskStep, TimeStep, vars,
        Submit, StageCancel, StageRetry, Scan, Create, Audit, Discard, PublishJob,
        PublishCancel, PublishRetry, ClearCancel, RequeueFailed, ConsumeRetry, Drop, CliCancel,
        Boot, RecoverDone, Claim, Join, NextBatch, Resolve, UploadEnds, WriteReceipt, Move,
        Requeue, Crash

(* The process state and the history counters stay typed.                  *)
LEMMA CountsTypedStep ==
    ASSUME CountsTyped, RequestsTyped, TasksTyped, [Next]_vars
    PROVE  CountsTyped'
<1>1. ASSUME NEW c \in Client, NEW j \in Job, Submit(c, j) PROVE CountsTyped'
      BY <1>1 DEF Submit, CountsTyped
<1>2. ASSUME NEW c \in Client, RequeueFailed(c) PROVE CountsTyped'
      BY <1>2 DEF RequeueFailed, At, CountsTyped, RequestsTyped
<1>3. CASE Boot \/ RecoverDone \/ Join \/ NextBatch
      BY <1>3 DEF Boot, RecoverDone, Join, NextBatch, CountsTyped
<1>4. ASSUME NEW s \in Slot, Resolve(s) PROVE CountsTyped'
      BY <1>4 DEF Resolve, On, CountsTyped, TasksTyped
<1>5. ASSUME NEW s \in Slot, WriteReceipt(s) \/ Move(s) \/ Requeue(s) PROVE CountsTyped'
      BY <1>5 DEF WriteReceipt, Move, Requeue, Exit, CountsTyped
<1>6. CASE Crash
      BY <1>6 DEF Crash, Exit, CountsTyped
<1>7. CASE UNCHANGED <<worker, uploads, granted, submits, crashes>>
      BY <1>7 DEF CountsTyped
<1> QED
    BY <1>1, <1>2, <1>3, <1>4, <1>5, <1>6, <1>7
    DEF Next, RequestStep, WorkerStep, RecoverStep, ClaimStep, TaskStep, TimeStep, vars,
        StageCancel, StageRetry, Scan, Create, Audit, Discard, PublishJob, PublishCancel,
        PublishRetry, ClearCancel, ReportRequest, ConsumeRetry, Drop, CliCancel, RecoverMove,
        RecoverReport, Claim, Start, UploadEnds, Report, ScheduleRetry, Elapse

(* All types together.                                                     *)
QueueTypesAll == QueueTypes /\ MarkersTyped /\ EventsTyped /\ CountsTyped

(* Every step keeps all the types.                                         *)
LEMMA QueueTypesAllStep == QueueTypesAll /\ [Next]_vars => QueueTypesAll'
    BY QueueTypesStep, MarkersTypedStep, EventsTypedStep, CountsTypedStep
    DEF QueueTypesAll, QueueTypes

(* The initial states are well typed.                                      *)
LEMMA QueueTypesAllInit == Init => QueueTypesAll
<1>1. Init => QueueTypes
      BY QueueInit
<1>2. Init => MarkersTyped /\ EventsTyped /\ CountsTyped
      BY DEF Init, MarkersTyped, EventsTyped, CountsTyped
<1> QED
    BY <1>1, <1>2 DEF QueueTypesAll

(* So the types hold throughout.                                           *)
LEMMA QueueTypesAllAlways == Spec => []QueueTypesAll
    BY QueueTypesAllInit, QueueTypesAllStep, PTL DEF Spec

(* Every state of the queue is well typed: files are in known directories, *)
(* every request, task and owed event names a job that exists, and no      *)
(* interleaving of requests, tasks, recovery and crashes leaves another.   *)
THEOREM TypeCorrect == Spec => []TypeOK
<1>1. QueueTypesAll => TypeOK
      BY DEF QueueTypesAll, QueueTypes, RequestsTyped, TasksTyped, StatusTyped, FilesTyped,
             MarkersTyped, EventsTyped, CountsTyped, TypeOK
<1> QED
    BY <1>1, QueueTypesAllAlways, PTL

-----------------------------------------------------------------------------
(* Jobs that are submitted once.  Two overlapping submissions of one key   *)
(* can leave two files (existing_job and write_json are not one step), so  *)
(* what follows is about behaviours without them.                          *)

(* The hypothesis: no job has been submitted twice.                        *)
SubmittedOnce == \A j \in Job : submits[j] <= 1

(* A submission that has not created its file yet.                         *)
Looking(c, j) == client[c].pc \in {"scan", "create"} /\ client[c].job = j

(* A job of which there is no file, receipt or attempt.                    *)
Untouched(j) == files[j] = {} /\ receipt[j] = 0 /\ attempts[j] = 0

(* Nothing is there of a job until its one submission creates the file.    *)
SubmitInv ==
    \A j \in Job :
        /\ submits[j] = 0 => Untouched(j) /\ \A c \in Client : ~Looking(c, j)
        /\ \A c \in Client : Looking(c, j) =>
                               Untouched(j) /\ \A d \in Client : Looking(d, j) => d = c

(* What is true of a job with files f, receipt r, a attempts counted, u    *)
(* uploads and g operator retries.                                         *)
GoodJob(f, r, a, u, g) ==
    /\ \A x, y \in f : x = y
    /\ "staged" \in f => a = 0
    /\ r # 0 => f \subseteq {"running", "completed"}
    /\ a <= MaxAttempts + g
    /\ "pending" \in f => a < MaxAttempts + g
    /\ u <= a

(* It is true of every job.                                                *)
JobInv == \A j \in Job : GoodJob(files[j], receipt[j], attempts[j], uploads[j], granted[j])

(* The task has claimed its job and not yet moved it on: it owns the file  *)
(* in running.                                                             *)
Held(t) == t.pc \in {"claimed", "started", "uploading", "receipt", "move", "retry", "requeue"}

(* What such a task knows of its job.                                      *)
GoodTask(t, f, r, a, u, g) ==
    /\ "running" \in f
    /\ (t.pc = "move" /\ t.to = "completed") \/ r = 0
    /\ t.pc = "claimed" => a < MaxAttempts + g
    /\ t.pc # "claimed" => t.attempt = a
    /\ t.pc \in {"retry", "requeue"} => t.attempt < MaxAttempts
    /\ t.pc = "started" => u < a

(* The same, of the task in slot s.                                        *)
Owns(s) ==
    LET j == slot[s].job
    IN  GoodTask(slot[s], files[j], receipt[j], attempts[j], uploads[j], granted[j])

(* Every claimed job has one owner, and a dead worker owns none.           *)
TaskInv ==
    /\ \A s \in Slot : Held(slot[s]) => Owns(s)
    /\ \A s, t \in Slot : Held(slot[s]) /\ Held(slot[t]) /\ slot[s].job = slot[t].job => s = t
    /\ worker \in {"down", "recovering"} => \A s \in Slot : slot[s].pc = "idle"

(* The inductive invariant for jobs submitted once.                        *)
OnceInv == QueueTypesAll /\ SubmitInv /\ JobInv /\ TaskInv

(* The values of a job have their types.                                   *)
LEMMA JobTypes ==
    ASSUME QueueTypesAll, NEW j \in Job
    PROVE  /\ files[j] \subseteq Dir /\ receipt[j] \in Nat /\ attempts[j] \in Nat
           /\ uploads[j] \in Nat /\ granted[j] \in Nat /\ submits[j] \in Nat
    BY DEF QueueTypesAll, QueueTypes, FilesTyped, TasksTyped, CountsTyped

(* A step about one job k.                                                 *)
OnlyJob(k) ==
    \A j \in Job : j # k =>
        /\ files'[j] = files[j] /\ receipt'[j] = receipt[j] /\ attempts'[j] = attempts[j]
        /\ uploads'[j] = uploads[j] /\ granted'[j] = granted[j]

(* Nobody else owns the file a step moves, unless it was not in running.   *)
LEMMA OwnerAlone ==
    ASSUME TaskInv, NEW s \in Slot, Held(slot[s])
    PROVE  Owns(s) /\ \A t \in Slot : t # s /\ Held(slot[t]) => slot[t].job # slot[s].job
    BY DEF TaskInv

(* No task owns a job whose file is not in running.                        *)
LEMMA NotRunningFree ==
    ASSUME TaskInv, NEW k, "running" \notin files[k]
    PROVE  \A t \in Slot : Held(slot[t]) => slot[t].job # k
    BY DEF TaskInv, Owns, GoodTask

(* A step about job k that leaves k good leaves every job good.            *)
LEMMA JobsKept ==
    ASSUME JobInv, NEW k, OnlyJob(k),
           k \in Job => GoodJob(files'[k], receipt'[k], attempts'[k], uploads'[k], granted'[k])
    PROVE  JobInv'
    BY DEF JobInv, OnlyJob

(* The tasks that do not own job k do not notice a step about it.          *)
LEMMA OthersKept ==
    ASSUME QueueTypesAll, TaskInv, NEW k, OnlyJob(k), NEW t \in Slot,
           slot'[t] = slot[t], Held(slot[t]), slot[t].job # k
    PROVE  Owns(t)'
<1>1. slot[t].job \in Job
      BY DEF QueueTypesAll, QueueTypes, TasksTyped, Held
<1>2. Owns(t)
      BY DEF TaskInv
<1> QED
    BY <1>1, <1>2 DEF Owns, OnlyJob

(* A step of task s about the job k it has after the step.                 *)
LEMMA TaskKept ==
    ASSUME QueueTypesAll, TaskInv, NEW s \in Slot, NEW k, OnlyJob(k),
           \A t \in Slot : t # s => slot'[t] = slot[t],
           \A t \in Slot : t # s /\ Held(slot[t]) => slot[t].job # k,
           Held(slot'[s]) => Owns(s)' /\ slot'[s].job = k,
           worker' \notin {"down", "recovering"}
    PROVE  TaskInv'
<1>1. ASSUME NEW t \in Slot, Held(slot'[t]) PROVE Owns(t)'
      BY <1>1, OthersKept
<1>2. ASSUME NEW t \in Slot, NEW u \in Slot, Held(slot'[t]), Held(slot'[u]),
             slot'[t].job = slot'[u].job
      PROVE  t = u
      BY <1>2 DEF TaskInv
<1> QED
    BY <1>1, <1>2 DEF TaskInv

(* A step of a request, or of recover, about a job k that no task owns.    *)
LEMMA RequestKept ==
    ASSUME QueueTypesAll, TaskInv, NEW k, OnlyJob(k), UNCHANGED <<slot, worker>>,
           \A t \in Slot : Held(slot[t]) => slot[t].job # k
    PROVE  TaskInv'
<1>1. ASSUME NEW t \in Slot, Held(slot'[t]) PROVE Owns(t)'
      BY <1>1, OthersKept
<1> QED
    BY <1>1 DEF TaskInv

(* Without tasks there is nothing to own.                                  *)
LEMMA NoTasksKept ==
    ASSUME slot' = [s \in Slot |-> NoTask] PROVE TaskInv'
    BY DEF TaskInv, Held, NoTask

(* What Step and Finish do to the slots.                                   *)
LEMMA SlotUpdate ==
    ASSUME QueueTypesAll, NEW s \in Slot
    PROVE  /\ \A pc : Step(s, pc) =>
                 /\ slot'[s].pc = pc /\ slot'[s].job = slot[s].job
                 /\ slot'[s].attempt = slot[s].attempt /\ slot'[s].to = slot[s].to
                 /\ slot'[s].doomed = slot[s].doomed
                 /\ \A t \in Slot : t # s => slot'[t] = slot[t]
           /\ \A to : Finish(s, to) =>
                 /\ slot'[s].pc = "move" /\ slot'[s].job = slot[s].job
                 /\ slot'[s].attempt = slot[s].attempt /\ slot'[s].to = to
                 /\ slot'[s].doomed = slot[s].doomed
                 /\ \A t \in Slot : t # s => slot'[t] = slot[t]
    BY DEF QueueTypesAll, QueueTypes, TasksTyped, Task, Step, Finish

(* A task that holds its job and changes nothing but its own slot, to go   *)
(* on, to finish or to fail.                                               *)
LEMMA TaskGoesOn ==
    ASSUME QueueTypesAll, TaskInv, NEW s \in Slot, Held(slot[s]),
           worker' \notin {"down", "recovering"},
           UNCHANGED <<files, receipt, attempts, uploads, granted>>,
           \/ slot[s].pc = "uploading" /\ Step(s, "receipt")
           \/ slot[s].pc = "retry" /\ Step(s, "requeue")
           \/ slot[s].pc \in {"started", "uploading"} /\ Finish(s, "cancelled")
           \/ slot[s].pc \in {"started", "uploading"} /\ Fail(s)
    PROVE  TaskInv'
<1> DEFINE k == slot[s].job
<1>1. Owns(s) /\ \A t \in Slot : t # s /\ Held(slot[t]) => slot[t].job # k
      BY OwnerAlone
<1>2. OnlyJob(k)
      BY DEF OnlyJob
<1>3. /\ slot'[s].job = k /\ slot'[s].attempt = slot[s].attempt
      /\ \A t \in Slot : t # s => slot'[t] = slot[t]
      /\ \/ slot'[s].pc = "receipt" /\ slot[s].pc = "uploading"
         \/ slot'[s].pc = "requeue" /\ slot[s].pc = "retry"
         \/ slot'[s].pc = "move" /\ slot[s].pc \in {"started", "uploading"}
         \/ slot'[s].pc = "retry" /\ slot[s].pc \in {"started", "uploading"} /\ MayRetry(s)
      BY SlotUpdate DEF Fail
<1>4. Owns(s)'
      BY <1>1, <1>3 DEF Owns, GoodTask, MayRetry
<1> HIDE DEF k
<1> QED
    BY <1>1, <1>2, <1>3, <1>4, TaskKept

(* Every step keeps the jobs good and the tasks the owners of their files. *)
LEMMA OnceStep ==
    ASSUME OnceInv, [Next]_vars
    PROVE  JobInv' /\ TaskInv'
<1>t. \A k \in Job : /\ attempts[k] \in Nat /\ uploads[k] \in Nat
                     /\ granted[k] \in Nat /\ receipt[k] \in Nat
      BY JobTypes DEF OnceInv
<1>j. ASSUME UNCHANGED <<files, receipt, attempts, uploads, granted>> PROVE JobInv'
      BY <1>j DEF OnceInv, JobInv
<1>u. ASSUME UNCHANGED <<files, receipt, attempts, uploads, granted, slot, worker>>
      PROVE  JobInv' /\ TaskInv'
      BY <1>u DEF OnceInv, JobInv, TaskInv, Owns
<1>1. ASSUME NEW c \in Client, Create(c) PROVE JobInv' /\ TaskInv'
      <2> DEFINE k == client[c].job
                 dir == IF client[c].op = "run" THEN "staged" ELSE "pending"
      <2>1. k \in Job /\ Looking(c, k)
            BY <1>1 DEF Create, At, Looking, OnceInv, QueueTypesAll, QueueTypes, RequestsTyped
      <2>2. Untouched(k)
            BY <2>1 DEF OnceInv, SubmitInv
      <2>3. files' = [files EXCEPT ![k] = {dir}]
            BY <1>1, <2>2 DEF Create, Untouched
      <2>4. OnlyJob(k) /\ files'[k] = {dir}
            BY <1>1, <2>1, <2>3 DEF Create, OnlyJob, OnceInv, QueueTypesAll, QueueTypes, FilesTyped
      <2>5. GoodJob(files[k], 0, 0, uploads[k], granted[k])
            BY <2>1, <2>2 DEF OnceInv, JobInv, Untouched
      <2>6. GoodJob({dir}, 0, 0, uploads[k], granted[k])
            BY <2>1, <2>5, <1>t, QueueAssumption DEF GoodJob
      <2> HIDE DEF k, dir
      <2>7. JobInv'
            BY <1>1, <2>2, <2>4, <2>6, JobsKept DEF Create, OnceInv, Untouched
      <2>8. TaskInv'
            BY <1>1, <2>2, <2>4, NotRunningFree, RequestKept DEF Create, OnceInv, Untouched
      <2> QED
          BY <2>7, <2>8
<1>2. ASSUME NEW c \in Client, Discard(c) PROVE JobInv' /\ TaskInv'
      <2> DEFINE k == client[c].job
      <2>1. k \in Job
            BY <1>2 DEF Discard, At, OnceInv, QueueTypesAll, QueueTypes, RequestsTyped
      <2>2. CASE UNCHANGED files
            BY <1>2, <1>u, <2>2 DEF Discard
      <2>3. CASE files' = [files EXCEPT ![k] = files[k] \ {"staged"}] /\ "staged" \in files[k]
        <3>1. OnlyJob(k) /\ files'[k] = files[k] \ {"staged"}
              BY <1>2, <2>1, <2>3
                 DEF Discard, OnlyJob, OnceInv, QueueTypesAll, QueueTypes, FilesTyped
        <3>2. GoodJob(files[k], receipt[k], attempts[k], uploads[k], granted[k])
              BY <2>1 DEF OnceInv, JobInv
        <3>3. "running" \notin files[k]
              BY <2>3, <3>2 DEF GoodJob
        <3>4. GoodJob(files[k] \ {"staged"}, receipt[k], attempts[k], uploads[k], granted[k])
              BY <3>2 DEF GoodJob
        <3> HIDE DEF k
        <3>5. JobInv'
              BY <1>2, <3>1, <3>4, JobsKept DEF Discard, OnceInv
        <3> QED
            BY <1>2, <3>1, <3>3, <3>5, NotRunningFree, RequestKept DEF Discard, OnceInv
      <2>4. ASSUME files' = [files EXCEPT ![k] = files[k] \ {"staged"}], "staged" \notin files[k]
            PROVE  UNCHANGED files
        <3>1. files[k] \ {"staged"} = files[k]
              BY <2>4
        <3> QED
            BY <2>1, <2>4, <3>1 DEF OnceInv, QueueTypesAll, QueueTypes, FilesTyped
      <2> QED
          BY <1>2, <2>2, <2>3, <2>4 DEF Discard
<1>3. ASSUME NEW c \in Client, PublishJob(c) PROVE JobInv' /\ TaskInv'
      <2> DEFINE k == client[c].job
      <2>1. k \in Job
            BY <1>3 DEF PublishJob, At, OnceInv, QueueTypesAll, QueueTypes, RequestsTyped
      <2>2. CASE UNCHANGED files
            BY <1>3, <1>u, <2>2 DEF PublishJob
      <2>3. CASE Rename(k, "staged", "pending")
        <3>1. OnlyJob(k) /\ files'[k] = (files[k] \ {"staged"}) \cup {"pending"} /\ "staged" \in files[k]
              BY <1>3, <2>1, <2>3
                 DEF PublishJob, Rename, OnlyJob, OnceInv, QueueTypesAll, QueueTypes, FilesTyped
        <3>2. GoodJob(files[k], receipt[k], attempts[k], uploads[k], granted[k])
              BY <2>1 DEF OnceInv, JobInv
        <3>3. "running" \notin files[k] /\ files'[k] = {"pending"} /\ receipt[k] = 0 /\ attempts[k] = 0
              BY <3>1, <3>2 DEF GoodJob
        <3>4. GoodJob({"pending"}, receipt[k], attempts[k], uploads[k], granted[k])
              BY <2>1, <3>2, <3>3, <1>t, QueueAssumption DEF GoodJob
        <3> HIDE DEF k
        <3>5. JobInv'
              BY <1>3, <3>1, <3>3, <3>4, JobsKept DEF PublishJob, OnceInv
        <3> QED
            BY <1>3, <3>1, <3>3, <3>5, NotRunningFree, RequestKept DEF PublishJob, OnceInv
      <2> QED
          BY <1>3, <2>2, <2>3 DEF PublishJob
<1>4. ASSUME NEW c \in Client, RequeueFailed(c) PROVE JobInv' /\ TaskInv'
      <2> DEFINE k == client[c].job
      <2>1. k \in Job
            BY <1>4 DEF RequeueFailed, At, OnceInv, QueueTypesAll, QueueTypes, RequestsTyped
      <2>2. CASE UNCHANGED <<files, granted>>
            BY <1>4, <1>u, <2>2 DEF RequeueFailed
      <2>3. CASE Rename(k, "failed", "pending") /\ granted' = [granted EXCEPT ![k] = granted[k] + 1]
        <3>1. /\ OnlyJob(k) /\ files'[k] = (files[k] \ {"failed"}) \cup {"pending"}
              /\ "failed" \in files[k] /\ granted'[k] = granted[k] + 1
              BY <1>4, <2>1, <2>3
              DEF RequeueFailed, Rename, OnlyJob, OnceInv, QueueTypesAll, QueueTypes, FilesTyped,
                  CountsTyped
        <3>2. GoodJob(files[k], receipt[k], attempts[k], uploads[k], granted[k])
              BY <2>1 DEF OnceInv, JobInv
        <3>3. "running" \notin files[k] /\ files'[k] = {"pending"} /\ receipt[k] = 0
              BY <3>1, <3>2 DEF GoodJob
        <3>4. GoodJob({"pending"}, receipt[k], attempts[k], uploads[k], granted[k] + 1)
              BY <2>1, <3>2, <3>3, <1>t, QueueAssumption DEF GoodJob
        <3> HIDE DEF k
        <3>5. JobInv'
              BY <1>4, <3>1, <3>3, <3>4, JobsKept DEF RequeueFailed, OnceInv
        <3> QED
            BY <1>4, <3>1, <3>3, <3>5, NotRunningFree, RequestKept DEF RequeueFailed, OnceInv
      <2> HIDE DEF k
      <2>4. \/ Rename(k, "failed", "pending") /\ granted' = [granted EXCEPT ![k] = granted[k] + 1]
            \/ UNCHANGED <<files, granted>>
            BY <1>4 DEF RequeueFailed, k
      <2> QED
          BY <2>2, <2>3, <2>4
<1>5. ASSUME NEW c \in Client, ReportRequest(c) PROVE JobInv' /\ TaskInv'
          BY <1>5, <1>u DEF ReportRequest, Record
<1>6. ASSUME NEW j \in Job, RecoverMove(j) PROVE JobInv' /\ TaskInv'
      <2> DEFINE to == Recovery(j).to
      <2>1. OnlyJob(j) /\ files'[j] = (files[j] \ {"running"}) \cup {to} /\ "running" \in files[j]
            BY <1>6 DEF RecoverMove, Rename, OnlyJob, OnceInv, QueueTypesAll, QueueTypes, FilesTyped
      <2>2. GoodJob(files[j], receipt[j], attempts[j], uploads[j], granted[j])
            BY DEF OnceInv, JobInv
      <2>3. files'[j] = {to}
            BY <2>1, <2>2 DEF GoodJob
      <2>4. /\ to \in {"completed", "cancelled", "failed", "pending"}
            /\ receipt[j] # 0 => to = "completed"
            /\ to = "pending" => ~(attempts[j] >= MaxAttempts)
            BY DEF Recovery
      <2> HIDE DEF to
      <2>5. GoodJob({to}, receipt[j], attempts[j], uploads[j], granted[j])
            BY <2>2, <2>4, <1>t, QueueAssumption DEF GoodJob
      <2>6. JobInv'
            BY <1>6, <2>1, <2>3, <2>5, JobsKept DEF RecoverMove, OnceInv
      <2>7. \A x \in Slot : ~Held(slot[x])
            BY <1>6 DEF RecoverMove, OnceInv, TaskInv, Held
      <2> QED
          BY <1>6, <2>1, <2>6, <2>7, RequestKept DEF RecoverMove, OnceInv
<1>7. CASE RecoverReport
          BY <1>7, <1>u DEF RecoverReport, Record, OnceInv, QueueTypesAll, QueueTypes, StatusTyped
<1>8. CASE Boot \/ RecoverDone \/ Join
      <2>1. UNCHANGED <<files, receipt, attempts, uploads, granted, slot>>
            BY <1>8 DEF Boot, RecoverDone, Join
      <2>2. worker' \in {"down", "recovering"} => worker \in {"down", "recovering"}
            BY <1>8 DEF Boot, RecoverDone, Join
      <2> QED
          BY <2>1, <2>2 DEF OnceInv, JobInv, TaskInv, Owns
<1>9. ASSUME NEW s \in Slot, NEW j \in Job, Claim(s, j) PROVE JobInv' /\ TaskInv'
      <2>1. /\ OnlyJob(j) /\ "pending" \in files[j]
            /\ files'[j] = (files[j] \ {"pending"}) \cup {"running"}
            BY <1>9 DEF Claim, Rename, OnlyJob, OnceInv, QueueTypesAll, QueueTypes, FilesTyped
      <2>2. GoodJob(files[j], receipt[j], attempts[j], uploads[j], granted[j])
            BY DEF OnceInv, JobInv
      <2>3. /\ "running" \notin files[j] /\ files'[j] = {"running"}
            /\ receipt[j] = 0 /\ attempts[j] < MaxAttempts + granted[j]
            BY <2>1, <2>2 DEF GoodJob
      <2>4. GoodJob({"running"}, receipt[j], attempts[j], uploads[j], granted[j])
            BY <2>2 DEF GoodJob
      <2>5. JobInv'
            BY <1>9, <2>1, <2>3, <2>4, JobsKept DEF Claim, OnceInv
      <2>6. /\ slot'[s] = [pc |-> "claimed", job |-> j, attempt |-> 0, to |-> "none",
                           doomed |-> j \in cancel]
            /\ \A x \in Slot : x # s => slot'[x] = slot[x]
            BY <1>9 DEF Claim, OnceInv, QueueTypesAll, QueueTypes, TasksTyped
      <2>7. slot'[s].pc = "claimed" /\ slot'[s].job = j
            BY <2>6
      <2>8. Owns(s)'
            BY <1>9, <2>3, <2>7 DEF Claim, Owns, GoodTask
      <2>9. \A x \in Slot : Held(slot[x]) => slot[x].job # j
            BY <2>3, NotRunningFree DEF OnceInv
      <2> QED
          BY <1>9, <2>1, <2>5, <2>6, <2>7, <2>8, <2>9, TaskKept DEF Claim, OnceInv
<1>10. CASE NextBatch \/ Crash
          BY <1>10, <1>j, NoTasksKept DEF NextBatch, Crash, Exit
<1>11. ASSUME NEW s \in Slot, Start(s) PROVE JobInv' /\ TaskInv'
      <2> DEFINE k == slot[s].job
      <2>0. Held(slot[s]) /\ slot[s].pc = "claimed" /\ k \in Job /\ worker' \notin {"down", "recovering"}
            BY <1>11 DEF Start, On, Held, OnceInv, QueueTypesAll, QueueTypes, TasksTyped
      <2>1. OnlyJob(k) /\ attempts'[k] = attempts[k] + 1
            BY <1>11, <2>0
               DEF Start, Record, OnlyJob, OnceInv, QueueTypesAll, QueueTypes, TasksTyped
      <2>2. GoodJob(files[k], receipt[k], attempts[k], uploads[k], granted[k])
            BY <2>0 DEF OnceInv, JobInv
      <2>3. Owns(s) /\ \A x \in Slot : x # s /\ Held(slot[x]) => slot[x].job # k
            BY <2>0, OwnerAlone DEF OnceInv
      <2>4. /\ "running" \in files[k] /\ "staged" \notin files[k] /\ "pending" \notin files[k]
            /\ receipt[k] = 0 /\ attempts[k] < MaxAttempts + granted[k]
            BY <2>0, <2>2, <2>3 DEF Owns, GoodTask, GoodJob
      <2>5. GoodJob(files[k], receipt[k], attempts[k] + 1, uploads[k], granted[k])
            BY <2>0, <2>2, <2>4, <1>t, QueueAssumption DEF GoodJob
      <2>6. JobInv'
        <3> HIDE DEF k
        <3> QED
            BY <1>11, <2>1, <2>5, JobsKept DEF Start, OnceInv
      <2>7. /\ slot'[s].pc = "started" /\ slot'[s].job = k /\ slot'[s].attempt = attempts[k] + 1
            /\ \A x \in Slot : x # s => slot'[x] = slot[x]
            BY <1>11 DEF Start, OnceInv, QueueTypesAll, QueueTypes, TasksTyped, Task
      <2>8. uploads[k] < attempts[k] + 1
            BY <2>0, <2>2, <1>t DEF GoodJob
      <2>9. Owns(s)'
            BY <1>11, <2>1, <2>4, <2>7, <2>8 DEF Start, Owns, GoodTask
      <2> HIDE DEF k
      <2> QED
          BY <2>0, <2>1, <2>3, <2>6, <2>7, <2>9, TaskKept DEF OnceInv
<1>12. ASSUME NEW s \in Slot, Resolve(s) PROVE JobInv' /\ TaskInv'
      <2> DEFINE k == slot[s].job
      <2>0. Held(slot[s]) /\ slot[s].pc = "started" /\ k \in Job /\ worker' \notin {"down", "recovering"}
            BY <1>12 DEF Resolve, On, Held, OnceInv, QueueTypesAll, QueueTypes, TasksTyped
      <2>1. CASE UNCHANGED uploads /\ (Finish(s, "cancelled") \/ Fail(s))
            BY <1>12, <1>j, <2>0, <2>1, TaskGoesOn DEF Resolve, OnceInv
      <2>2. CASE Step(s, "uploading") /\ uploads' = [uploads EXCEPT ![k] = uploads[k] + 1]
        <3>1. OnlyJob(k) /\ uploads'[k] = uploads[k] + 1
              BY <1>12, <2>0, <2>2
                 DEF Resolve, OnlyJob, OnceInv, QueueTypesAll, CountsTyped, QueueTypes
        <3>2. GoodJob(files[k], receipt[k], attempts[k], uploads[k], granted[k])
              BY <2>0 DEF OnceInv, JobInv
        <3>3. Owns(s) /\ \A x \in Slot : x # s /\ Held(slot[x]) => slot[x].job # k
              BY <2>0, OwnerAlone DEF OnceInv
        <3>4. uploads[k] < attempts[k]
              BY <2>0, <3>3 DEF Owns, GoodTask
        <3>5. GoodJob(files[k], receipt[k], attempts[k], uploads[k] + 1, granted[k])
              BY <2>0, <3>2, <3>4, <1>t DEF GoodJob
        <3>6. JobInv'
          <4> HIDE DEF k
          <4> QED
              BY <1>12, <3>1, <3>5, JobsKept DEF Resolve, OnceInv
        <3>7. /\ slot'[s].pc = "uploading" /\ slot'[s].job = k /\ slot'[s].attempt = slot[s].attempt
              /\ \A x \in Slot : x # s => slot'[x] = slot[x]
              BY <2>2, SlotUpdate DEF OnceInv
        <3>8. Owns(s)'
              BY <1>12, <2>0, <3>3, <3>7 DEF Resolve, Owns, GoodTask
        <3> HIDE DEF k
        <3> QED
            BY <2>0, <3>1, <3>3, <3>6, <3>7, <3>8, TaskKept DEF OnceInv
      <2>3. \/ UNCHANGED uploads /\ (Finish(s, "cancelled") \/ Fail(s))
            \/ Step(s, "uploading") /\ uploads' = [uploads EXCEPT ![k] = uploads[k] + 1]
            BY <1>12 DEF Resolve
      <2> QED
          BY <2>1, <2>2, <2>3
<1>13. ASSUME NEW s \in Slot, UploadEnds(s) PROVE JobInv' /\ TaskInv'
      <2>1. Held(slot[s]) /\ slot[s].pc = "uploading" /\ worker' \notin {"down", "recovering"}
            BY <1>13 DEF UploadEnds, On, Held
      <2> QED
          BY <1>13, <1>j, <2>1, TaskGoesOn DEF UploadEnds, Uploaded, OnceInv
<1>14. ASSUME NEW s \in Slot, WriteReceipt(s) PROVE JobInv' /\ TaskInv'
      <2> DEFINE k == slot[s].job
      <2>0. Held(slot[s]) /\ slot[s].pc = "receipt" /\ k \in Job /\ worker \notin {"down", "recovering"}
            BY <1>14 DEF WriteReceipt, On, Held, OnceInv, QueueTypesAll, QueueTypes, TasksTyped
      <2>1. CASE Exit /\ UNCHANGED receipt
            BY <1>14, <1>j, <2>1, NoTasksKept DEF WriteReceipt, Exit
      <2>2. CASE /\ receipt' = [receipt EXCEPT ![k] = slot[s].attempt]
                 /\ Finish(s, "completed") /\ UNCHANGED worker
        <3>1. OnlyJob(k) /\ receipt'[k] = slot[s].attempt
              BY <1>14, <2>0, <2>2
                 DEF WriteReceipt, OnlyJob, OnceInv, QueueTypesAll, QueueTypes, FilesTyped
        <3>2. GoodJob(files[k], receipt[k], attempts[k], uploads[k], granted[k])
              BY <2>0 DEF OnceInv, JobInv
        <3>3. Owns(s) /\ \A x \in Slot : x # s /\ Held(slot[x]) => slot[x].job # k
              BY <2>0, OwnerAlone DEF OnceInv
        <3>4. "running" \in files[k]
              BY <3>3 DEF Owns, GoodTask
        <3>5. GoodJob(files[k], slot[s].attempt, attempts[k], uploads[k], granted[k])
              BY <3>2, <3>4 DEF GoodJob
        <3>6. JobInv'
          <4> HIDE DEF k
          <4> QED
              BY <1>14, <3>1, <3>5, JobsKept DEF WriteReceipt, OnceInv
        <3>7. /\ slot'[s].pc = "move" /\ slot'[s].job = k /\ slot'[s].attempt = slot[s].attempt
              /\ slot'[s].to = "completed" /\ \A x \in Slot : x # s => slot'[x] = slot[x]
              BY <2>2, SlotUpdate DEF OnceInv
        <3>8. Owns(s)'
              BY <1>14, <2>0, <3>3, <3>7 DEF WriteReceipt, Owns, GoodTask
        <3> HIDE DEF k
        <3> QED
            BY <2>0, <2>2, <3>1, <3>3, <3>6, <3>7, <3>8, TaskKept DEF OnceInv
      <2> QED
          BY <1>14, <2>1, <2>2 DEF WriteReceipt
<1>15. ASSUME NEW s \in Slot, Move(s) PROVE JobInv' /\ TaskInv'
      <2> DEFINE k == slot[s].job
                 to == slot[s].to
      <2>0. /\ Held(slot[s]) /\ slot[s].pc = "move" /\ k \in Job /\ to \in Terminal
            /\ worker \notin {"down", "recovering"}
            BY <1>15 DEF Move, On, Held, OnceInv, QueueTypesAll, QueueTypes, TasksTyped
      <2>1. CASE Exit /\ UNCHANGED files
            BY <1>15, <1>j, <2>1, NoTasksKept DEF Move, Exit
      <2>2. CASE Rename(k, "running", to) /\ Step(s, "report") /\ UNCHANGED worker
        <3>1. OnlyJob(k) /\ files'[k] = (files[k] \ {"running"}) \cup {to} /\ "running" \in files[k]
              BY <1>15, <2>0, <2>2
                 DEF Move, Rename, OnlyJob, OnceInv, QueueTypesAll, QueueTypes, FilesTyped
        <3>2. GoodJob(files[k], receipt[k], attempts[k], uploads[k], granted[k])
              BY <2>0 DEF OnceInv, JobInv
        <3>3. Owns(s) /\ \A x \in Slot : x # s /\ Held(slot[x]) => slot[x].job # k
              BY <2>0, OwnerAlone DEF OnceInv
        <3>4. receipt[k] # 0 => to = "completed"
              BY <2>0, <3>3 DEF Owns, GoodTask
        <3>5. files'[k] = {to}
              BY <3>1, <3>2 DEF GoodJob
        <3>6. /\ slot'[s].pc = "report" /\ \A x \in Slot : x # s => slot'[x] = slot[x]
              BY <2>2, SlotUpdate DEF OnceInv
        <3> HIDE DEF k, to
        <3>7. GoodJob({to}, receipt[k], attempts[k], uploads[k], granted[k])
              BY <2>0, <3>2, <3>4 DEF GoodJob, Terminal
        <3>8. JobInv'
              BY <1>15, <3>1, <3>5, <3>7, JobsKept DEF Move, OnceInv
        <3>9. ~Held(slot'[s])
              BY <3>6 DEF Held
        <3> QED
            BY <2>0, <2>2, <3>1, <3>3, <3>6, <3>8, <3>9, TaskKept DEF OnceInv
      <2> QED
          BY <1>15, <2>1, <2>2 DEF Move
<1>16. ASSUME NEW s \in Slot, Report(s) PROVE JobInv' /\ TaskInv'
      <2>1. /\ UNCHANGED <<files, receipt, attempts, uploads, granted, worker>>
            /\ Step(s, "done") /\ worker \notin {"down", "recovering"}
            BY <1>16 DEF Report, On, Record, FinalState
      <2>2. slot'[s].pc = "done" /\ \A x \in Slot : x # s => slot'[x] = slot[x]
            BY <2>1, SlotUpdate DEF OnceInv
      <2>3. ~Held(slot'[s]) /\ OnlyJob(NoJob) /\ \A x \in Slot : Held(slot[x]) => slot[x].job # NoJob
            BY <2>1, <2>2, QueueAssumption
            DEF Held, OnlyJob, OnceInv, QueueTypesAll, QueueTypes, TasksTyped
      <2> QED
          BY <1>j, <2>1, <2>2, <2>3, TaskKept DEF OnceInv
<1>17. ASSUME NEW s \in Slot, ScheduleRetry(s) PROVE JobInv' /\ TaskInv'
      <2>1. /\ UNCHANGED <<files, receipt, attempts, uploads, granted, worker>>
            /\ Step(s, "requeue") /\ slot[s].pc = "retry" /\ worker \notin {"down", "recovering"}
            BY <1>17 DEF ScheduleRetry, On, Record
      <2>2. Held(slot[s])
            BY <2>1 DEF Held
      <2> QED
          BY <1>j, <2>1, <2>2, TaskGoesOn DEF OnceInv
<1>18. ASSUME NEW s \in Slot, Requeue(s) PROVE JobInv' /\ TaskInv'
      <2> DEFINE k == slot[s].job
      <2>0. /\ Held(slot[s]) /\ slot[s].pc = "requeue" /\ k \in Job
            /\ worker \notin {"down", "recovering"}
            BY <1>18 DEF Requeue, On, Held, OnceInv, QueueTypesAll, QueueTypes, TasksTyped
      <2>1. CASE Exit /\ UNCHANGED files
            BY <1>18, <1>j, <2>1, NoTasksKept DEF Requeue, Exit
      <2>2. CASE Rename(k, "running", "pending") /\ Step(s, "done") /\ UNCHANGED worker
        <3>1. /\ OnlyJob(k) /\ files'[k] = (files[k] \ {"running"}) \cup {"pending"}
              /\ "running" \in files[k]
              BY <1>18, <2>0, <2>2
              DEF Requeue, Rename, OnlyJob, OnceInv, QueueTypesAll, QueueTypes, FilesTyped
        <3>2. GoodJob(files[k], receipt[k], attempts[k], uploads[k], granted[k])
              BY <2>0 DEF OnceInv, JobInv
        <3>3. Owns(s) /\ \A x \in Slot : x # s /\ Held(slot[x]) => slot[x].job # k
              BY <2>0, OwnerAlone DEF OnceInv
        <3>4. receipt[k] = 0 /\ attempts[k] < MaxAttempts
              BY <2>0, <3>3 DEF Owns, GoodTask
        <3>5. files'[k] = {"pending"}
              BY <3>1, <3>2 DEF GoodJob
        <3>6. slot'[s].pc = "done" /\ \A x \in Slot : x # s => slot'[x] = slot[x]
              BY <2>2, SlotUpdate DEF OnceInv
        <3> HIDE DEF k
        <3>7. GoodJob({"pending"}, receipt[k], attempts[k], uploads[k], granted[k])
              BY <2>0, <3>2, <3>4, <1>t, QueueAssumption DEF GoodJob
        <3>8. JobInv'
              BY <1>18, <3>1, <3>5, <3>7, JobsKept DEF Requeue, OnceInv
        <3>9. ~Held(slot'[s])
              BY <3>6 DEF Held
        <3> QED
            BY <2>0, <2>2, <3>1, <3>3, <3>6, <3>8, <3>9, TaskKept DEF OnceInv
      <2> QED
          BY <1>18, <2>1, <2>2 DEF Requeue
<1>19. CASE UNCHANGED <<files, receipt, attempts, uploads, granted, slot, worker>>
      BY <1>19, <1>u
<1> QED
    BY <1>1, <1>2, <1>3, <1>4, <1>5, <1>6, <1>7, <1>8, <1>9, <1>10, <1>11, <1>12, <1>13, <1>14,
        <1>15, <1>16, <1>17, <1>18, <1>19
    DEF Next, RequestStep, WorkerStep, RecoverStep, ClaimStep, TaskStep, TimeStep, vars,
        Submit, StageCancel, StageRetry, Scan, Audit, PublishCancel, PublishRetry, ClearCancel,
        ConsumeRetry, Drop, CliCancel, Elapse

(* Only the creation of its file touches a job.                            *)
LEMMA UntouchedStep ==
    ASSUME OnceInv, NEW j \in Job, Untouched(j),
           \A c \in Client : ~(Looking(c, j) /\ Create(c)), [Next]_vars
    PROVE  Untouched(j)'
<1>1. ASSUME NEW c \in Client, Create(c) PROVE Untouched(j)'
      <2>1. client[c].job \in Job /\ client[c].job # j
            BY <1>1 DEF Create, At, Looking, OnceInv, QueueTypesAll, QueueTypes, RequestsTyped
      <2> QED
          BY <1>1, <2>1 DEF Create, Untouched, OnceInv, QueueTypesAll, QueueTypes, FilesTyped
<1>2. ASSUME NEW c \in Client, Discard(c) PROVE Untouched(j)'
      <2>1. client[c].job \in Job
            BY <1>2 DEF Discard, At, OnceInv, QueueTypesAll, QueueTypes, RequestsTyped
      <2> QED
          BY <1>2, <2>1 DEF Discard, Untouched, OnceInv, QueueTypesAll, QueueTypes, FilesTyped
<1>3. ASSUME NEW c \in Client, PublishJob(c) PROVE Untouched(j)'
      BY <1>3 DEF PublishJob, Rename, Untouched, OnceInv, QueueTypesAll, QueueTypes, FilesTyped
<1>4. ASSUME NEW c \in Client, RequeueFailed(c) PROVE Untouched(j)'
      BY <1>4 DEF RequeueFailed, Rename, Untouched, OnceInv, QueueTypesAll, QueueTypes, FilesTyped
<1>5. ASSUME NEW c \in Client, ReportRequest(c) PROVE Untouched(j)'
      BY <1>5 DEF ReportRequest, Record, Untouched
<1>6. ASSUME NEW k \in Job, RecoverMove(k) PROVE Untouched(j)'
          BY <1>6 DEF RecoverMove, Rename, Untouched, OnceInv, QueueTypesAll, QueueTypes, FilesTyped
<1>7. CASE RecoverReport
      BY <1>7
      DEF RecoverReport, Record, StatusTyped, Untouched, OnceInv, QueueTypesAll, QueueTypes,
          FilesTyped
<1>8. ASSUME NEW s \in Slot, NEW k \in Job, Claim(s, k) PROVE Untouched(j)'
          BY <1>8 DEF Claim, Rename, Untouched, OnceInv, QueueTypesAll, QueueTypes, FilesTyped
<1>9. ASSUME NEW s \in Slot, Start(s) PROVE Untouched(j)'
      <2>1. Held(slot[s]) /\ slot[s].job \in Job
            BY <1>9 DEF Start, On, Held, OnceInv, QueueTypesAll, QueueTypes, TasksTyped
      <2>2. slot[s].job # j
            BY <2>1 DEF OnceInv, TaskInv, Owns, GoodTask, Untouched
      <2> QED
          BY <1>9, <2>1, <2>2
             DEF Start, Record, Untouched, OnceInv, QueueTypesAll, QueueTypes, TasksTyped
<1>10. ASSUME NEW s \in Slot, WriteReceipt(s) PROVE Untouched(j)'
      <2>1. Held(slot[s]) /\ slot[s].job \in Job
            BY <1>10 DEF WriteReceipt, On, Held, OnceInv, QueueTypesAll, QueueTypes, TasksTyped
      <2>2. slot[s].job # j
            BY <2>1 DEF OnceInv, TaskInv, Owns, GoodTask, Untouched
      <2> QED
          BY <1>10, <2>1, <2>2
             DEF WriteReceipt, Untouched, OnceInv, QueueTypesAll, QueueTypes, FilesTyped
<1>11. ASSUME NEW s \in Slot, Move(s) PROVE Untouched(j)'
      BY <1>11 DEF Move, Rename, Untouched, OnceInv, QueueTypesAll, QueueTypes, FilesTyped
<1>12. ASSUME NEW s \in Slot, Report(s) \/ ScheduleRetry(s) PROVE Untouched(j)'
      BY <1>12 DEF Report, ScheduleRetry, Record, FinalState, Untouched
<1>13. ASSUME NEW s \in Slot, Requeue(s) PROVE Untouched(j)'
      BY <1>13 DEF Requeue, Rename, Untouched, OnceInv, QueueTypesAll, QueueTypes, FilesTyped
<1>14. CASE UNCHANGED <<files, receipt, attempts>>
      BY <1>14 DEF Untouched
<1> QED
    BY <1>1, <1>2, <1>3, <1>4, <1>5, <1>6, <1>7, <1>8, <1>9, <1>10, <1>11, <1>12, <1>13, <1>14
    DEF Next, RequestStep, WorkerStep, RecoverStep, ClaimStep, TaskStep, TimeStep, vars,
        Submit, StageCancel, StageRetry, Scan, Audit, PublishCancel, PublishRetry, ClearCancel,
        ConsumeRetry, Drop, CliCancel, Boot, RecoverDone, Join, NextBatch, Resolve, UploadEnds,
        Elapse, Crash

(* What Begin, Continue and End do to the requests.                        *)
LEMMA RequestFields ==
    ASSUME QueueTypesAll, NEW c \in Client
    PROVE  /\ \A pc : Continue(c, pc) =>
                 /\ client'[c].pc = pc /\ client'[c].job = client[c].job
                 /\ client'[c].op = client[c].op
                 /\ \A d \in Client : d # c => client'[d] = client[d]
           /\ End(c) =>
                 /\ client'[c].pc = "idle" /\ client'[c].op = "none"
                 /\ \A d \in Client : d # c => client'[d] = client[d]
           /\ \A op, j, pc : Begin(c, op, j, pc) =>
                 /\ client[c].pc = "idle"
                 /\ client'[c].pc = pc /\ client'[c].job = j /\ client'[c].op = op
                 /\ \A d \in Client : d # c => client'[d] = client[d]
           /\ \A n : client' = [client EXCEPT ![c].at = n] =>
                 /\ client'[c].pc = client[c].pc /\ client'[c].job = client[c].job
                 /\ client'[c].op = client[c].op
                 /\ \A d \in Client : d # c => client'[d] = client[d]
<1>1. client \in [Client -> Request]
      BY DEF QueueTypesAll, QueueTypes, RequestsTyped
<1>2. \A pc : Continue(c, pc) =>
         /\ client'[c].pc = pc /\ client'[c].job = client[c].job /\ client'[c].op = client[c].op
         /\ \A d \in Client : d # c => client'[d] = client[d]
      BY <1>1 DEF Continue, Request
<1>3. End(c) =>
         /\ client'[c].pc = "idle" /\ client'[c].op = "none"
         /\ \A d \in Client : d # c => client'[d] = client[d]
      BY <1>1 DEF End, NoRequest
<1>4. \A op, j, pc : Begin(c, op, j, pc) =>
         /\ client[c].pc = "idle"
         /\ client'[c].pc = pc /\ client'[c].job = j /\ client'[c].op = op
         /\ \A d \in Client : d # c => client'[d] = client[d]
      BY <1>1 DEF Begin, At
<1>5. \A n : client' = [client EXCEPT ![c].at = n] =>
         /\ client'[c].pc = client[c].pc /\ client'[c].job = client[c].job
         /\ client'[c].op = client[c].op
         /\ \A d \in Client : d # c => client'[d] = client[d]
      BY <1>1 DEF Request
<1> QED
    BY <1>2, <1>3, <1>4, <1>5

(* What a step can make of request d: nothing, or one of these changes.    *)
RequestMay(d) ==
    \/ client'[d].pc = client[d].pc /\ client'[d].job = client[d].job /\ client'[d].op = client[d].op
    \/ client[d].pc = "scan" /\ client'[d].pc = "create" /\ client'[d].job = client[d].job
    \/ client'[d].pc \in {"idle", "audit", "discard", "publish", "report", "consume"}
    \/ \E j \in Job : Submit(d, j)
    \/ /\ PublishRetry(d) /\ client'[d].pc = "clear"
       /\ client'[d].op = client[d].op /\ client'[d].job = client[d].job
    \/ /\ client[d].pc = "clear" /\ client'[d].pc = "rename"
       /\ client'[d].op = client[d].op /\ client'[d].job = client[d].job


(* Every step changes a request in one of these ways.                      *)
LEMMA RequestsMay ==
    ASSUME QueueTypesAll, NEW d \in Client, [Next]_vars
    PROVE  RequestMay(d)
<1>1. ASSUME NEW c \in Client, NEW j \in Job, Submit(c, j) PROVE RequestMay(d)
      BY <1>1, RequestFields DEF Submit, RequestMay
<1>2. ASSUME NEW c \in Client, NEW j \in Job, StageCancel(c, j) \/ StageRetry(c, j)
      PROVE  RequestMay(d)
      BY <1>2, RequestFields DEF StageCancel, StageRetry, RequestMay
<1>3. ASSUME NEW c \in Client, Scan(c) PROVE RequestMay(d)
      <2>1. CASE Found(c)
            BY <2>1, RequestFields DEF Found, RequestMay
      <2>2. CASE Continue(c, "create")
            BY <1>3, <2>2, RequestFields DEF Scan, At, RequestMay
      <2>3. CASE client' = [client EXCEPT ![c].at = client[c].at + 1]
            BY <2>3, RequestFields DEF RequestMay
      <2> QED
          BY <1>3, <2>1, <2>2, <2>3 DEF Scan
<1>4. ASSUME NEW c \in Client, Create(c) PROVE RequestMay(d)
      BY <1>4, RequestFields DEF Create, RequestMay, Found
<1>5. ASSUME NEW c \in Client, Audit(c) PROVE RequestMay(d)
      BY <1>5, RequestFields DEF Audit, RequestMay
<1>6. ASSUME NEW c \in Client, Discard(c) \/ PublishCancel(c) \/ ConsumeRetry(c) \/ Drop(c)
      PROVE  RequestMay(d)
      BY <1>6, RequestFields DEF Discard, PublishCancel, ConsumeRetry, Drop, RequestMay
<1>7. ASSUME NEW c \in Client, PublishJob(c) PROVE RequestMay(d)
      BY <1>7, RequestFields DEF PublishJob, RequestMay
<1>8. ASSUME NEW c \in Client, PublishRetry(c) PROVE RequestMay(d)
      BY <1>8, RequestFields DEF PublishRetry, RequestMay
<1>9. ASSUME NEW c \in Client, ClearCancel(c) PROVE RequestMay(d)
      BY <1>9, RequestFields DEF ClearCancel, RequestMay, At
<1>10. ASSUME NEW c \in Client, RequeueFailed(c) PROVE RequestMay(d)
      BY <1>10, RequestFields DEF RequeueFailed, RequestMay
<1>11. ASSUME NEW c \in Client, ReportRequest(c) PROVE RequestMay(d)
      BY <1>11, RequestFields DEF ReportRequest, RequestMay
<1>12. CASE UNCHANGED client
      BY <1>12 DEF RequestMay
<1> QED
    BY <1>1, <1>2, <1>3, <1>4, <1>5, <1>6, <1>7, <1>8, <1>9, <1>10, <1>11, <1>12
    DEF Next, RequestStep, WorkerStep, RecoverStep, ClaimStep, TaskStep, TimeStep, vars,
        CliCancel, Boot, RecoverMove, RecoverReport, RecoverDone, Claim, Join, NextBatch,
        Start, Resolve, UploadEnds, WriteReceipt, Move, Report, ScheduleRetry, Requeue, Elapse,
        Crash

(* The step of a submission that creates the file ends its search.         *)
LEMMA CreateEnds ==
    ASSUME QueueTypesAll, NEW c \in Client, Create(c)
    PROVE  client'[c].pc \notin {"scan", "create"}
    BY RequestFields DEF Create, Found

(* Only a submission starts to look for its job.                           *)
LEMMA LookingStep ==
    ASSUME QueueTypesAll, [Next]_vars, NEW c \in Client, NEW j \in Job, Looking(c, j)'
    PROVE  Looking(c, j) \/ Submit(c, j)
<1>1. RequestMay(c)
      BY RequestsMay
<1>2. ASSUME NEW k \in Job, Submit(c, k) PROVE k = j
      BY <1>2, RequestFields DEF Submit, Looking
<1> QED
    BY <1>1, <1>2 DEF RequestMay, Looking

(* Submissions are counted.                                                *)
LEMMA SubmitsStep ==
    ASSUME QueueTypesAll, NEW j \in Job, [Next]_vars
    PROVE  submits'[j] >= submits[j] /\ submits'[j] \in Nat
<1>1. ASSUME NEW c \in Client, NEW k \in Job, Submit(c, k)
      PROVE  submits'[j] >= submits[j] /\ submits'[j] \in Nat
      BY <1>1, JobTypes DEF Submit, QueueTypesAll, CountsTyped
<1>2. CASE UNCHANGED submits
      BY <1>2 DEF QueueTypesAll, CountsTyped
<1> QED
    BY <1>1, <1>2
    DEF Next, RequestStep, WorkerStep, RecoverStep, ClaimStep, TaskStep, TimeStep, vars,
        StageCancel, StageRetry, Scan, Create, Audit, Discard, PublishJob, PublishCancel,
        PublishRetry, ClearCancel, RequeueFailed, ReportRequest, ConsumeRetry, Drop, CliCancel,
        Boot, RecoverMove, RecoverReport, RecoverDone, Claim, Join, NextBatch, Start, Resolve,
        UploadEnds, WriteReceipt, Move, Report, ScheduleRetry, Requeue, Elapse, Crash

(* Submit is the first submission of its job.                              *)
LEMMA FirstSubmit ==
    ASSUME QueueTypesAll, SubmittedOnce', NEW c \in Client, NEW j \in Job, Submit(c, j)
    PROVE  submits[j] = 0 /\ submits'[j] # 0
<1>1. submits[j] \in Nat /\ submits'[j] = submits[j] + 1
      BY DEF Submit, QueueTypesAll, CountsTyped
<1>2. submits'[j] <= 1
      BY DEF SubmittedOnce
<1> QED
    BY <1>1, <1>2

(* Every step keeps a job untouched while its one submission looks for it. *)
LEMMA SubmitInvStep ==
    ASSUME OnceInv, SubmittedOnce', [Next]_vars
    PROVE  SubmitInv'
<1>0. QueueTypesAll /\ SubmitInv
      BY DEF OnceInv
<1>1. ASSUME NEW j \in Job, submits'[j] = 0
      PROVE  Untouched(j)' /\ \A c \in Client : ~Looking(c, j)'
      <2>1. submits[j] = 0
            BY <1>0, <1>1, SubmitsStep, JobTypes
      <2>2. Untouched(j) /\ \A c \in Client : ~Looking(c, j)
            BY <1>0, <2>1 DEF SubmitInv
      <2>3. \A c \in Client : ~Submit(c, j)
            BY <1>0, <1>1, FirstSubmit
      <2> QED
          BY <1>0, <2>2, <2>3, UntouchedStep, LookingStep
<1>2. ASSUME NEW j \in Job, NEW c \in Client, Looking(c, j)'
      PROVE  Untouched(j)' /\ \A d \in Client : Looking(d, j)' => d = c
      <2>1. CASE Looking(c, j)
            <3>1. Untouched(j) /\ \A d \in Client : Looking(d, j) => d = c
                  BY <1>0, <2>1 DEF SubmitInv
            <3>2. ~Create(c)
                  BY <1>0, <1>2, CreateEnds DEF Looking
            <3>3. Untouched(j)'
                  BY <3>1, <3>2, UntouchedStep
            <3>4. \A d \in Client : ~Submit(d, j)
                  BY <1>0, <2>1, FirstSubmit DEF SubmitInv
            <3> QED
                BY <1>0, <3>1, <3>3, <3>4, LookingStep
      <2>2. CASE ~Looking(c, j)
            <3>1. Submit(c, j)
                  BY <1>0, <1>2, <2>2, LookingStep
            <3>2. Untouched(j) /\ \A d \in Client : ~Looking(d, j)
                  BY <1>0, <3>1, FirstSubmit DEF SubmitInv
            <3>3. Untouched(j)'
                  BY <3>2, UntouchedStep
            <3>4. ASSUME NEW d \in Client, Looking(d, j)', d # c PROVE FALSE
                  <4>1. client'[d] = client[d]
                        BY <1>0, <3>1, <3>4, RequestFields DEF Submit
                  <4> QED
                      BY <3>2, <3>4, <4>1 DEF Looking
            <3> QED
                BY <3>3, <3>4
      <2> QED
          BY <2>1, <2>2
<1> QED
    BY <1>1, <1>2 DEF SubmitInv

(* The initial states satisfy the invariant of single submissions.         *)
LEMMA OnceInit == Init => OnceInv
<1> SUFFICES ASSUME Init PROVE OnceInv
    OBVIOUS
<1>1. SubmitInv
      BY DEF Init, SubmitInv, Untouched, Looking, NoRequest
<1>2. JobInv
      BY QueueAssumption DEF Init, JobInv, GoodJob
<1>3. TaskInv
      BY DEF Init, TaskInv, Held, NoTask
<1> QED
    BY <1>1, <1>2, <1>3, QueueTypesAllInit DEF OnceInv

(* The invariant holds throughout a behaviour that submits no job twice.   *)
LEMMA OnceAlways == Spec /\ []SubmittedOnce => []OnceInv
<1>1. OnceInv /\ SubmittedOnce' /\ [Next]_vars => OnceInv'
      <2> SUFFICES ASSUME OnceInv, SubmittedOnce', [Next]_vars PROVE OnceInv'
          OBVIOUS
      <2>1. QueueTypesAll'
            BY QueueTypesAllStep DEF OnceInv
      <2> QED
          BY <2>1, SubmitInvStep, OnceStep DEF OnceInv
<1> QED
    BY <1>1, OnceInit, PTL DEF Spec

(* rename, existing_job: a job that is submitted once is in one directory  *)
(* or nowhere, whatever requests, tasks, retries and crashes move it.      *)
THEOREM FilesNeverSplit == Spec /\ []SubmittedOnce => []OneFilePerJob
<1>1. ASSUME OnceInv PROVE OneFilePerJob
      <2> SUFFICES ASSUME NEW j \in Job PROVE Cardinality(files[j]) <= 1
          BY DEF OneFilePerJob
      <2>1. \A x, y \in files[j] : x = y
            BY <1>1 DEF OnceInv, JobInv, GoodJob
      <2>2. CASE files[j] = {}
            BY <2>2, FS_EmptySet
      <2>3. CASE files[j] # {}
            <3>1. PICK x \in files[j] : TRUE
                  BY <2>3
            <3>2. files[j] = {x}
                  BY <2>1, <3>1
            <3> QED
                BY <3>2, FS_Singleton
      <2> QED
          BY <2>2, <2>3
<1> QED
    BY <1>1, OnceAlways, PTL

(* attempt_count, schedule_retry, recover, retry_failed: a job submitted   *)
(* once is uploaded at most max_job_attempts times plus once per operator  *)
(* retry, however often the worker dies and recovers it.                   *)
THEOREM UploadsWithinBudget == Spec /\ []SubmittedOnce => []UploadsBounded
<1>1. ASSUME OnceInv PROVE UploadsBounded
      <2> SUFFICES ASSUME NEW j \in Job PROVE uploads[j] <= MaxAttempts + granted[j]
          BY DEF UploadsBounded
      <2>1. uploads[j] <= attempts[j] /\ attempts[j] <= MaxAttempts + granted[j]
            BY <1>1 DEF OnceInv, JobInv, GoodJob
      <2>2. uploads[j] \in Nat /\ attempts[j] \in Nat /\ granted[j] \in Nat
            BY <1>1, JobTypes DEF OnceInv
      <2> QED
          BY <2>1, <2>2, QueueAssumption
<1> QED
    BY <1>1, OnceAlways, PTL

(* process_claimed, the order of recover's tests: a job submitted once     *)
(* that has a receipt is never queued again nor filed as failed or         *)
(* cancelled.                                                              *)
THEOREM ReceiptsFinal == Spec /\ []SubmittedOnce => []ReceiptIsFinal
<1>1. OnceInv => ReceiptIsFinal
      BY DEF OnceInv, JobInv, GoodJob, ReceiptIsFinal
<1> QED
    BY <1>1, OnceAlways, PTL

-----------------------------------------------------------------------------
(* Cancellation, where operator retries of one job do not overlap: of two  *)
(* that do, the slower removes the marker of a job already claimed again.  *)

(* The hypothesis: no two operator retries of one job at a time.           *)
RetryAlone ==
    \A c, d \in Client :
        client[c].op = "retry" /\ client[d].op = "retry" /\ client[c].job = client[d].job => c = d

(* A claim that met the marker keeps meeting it, because the only code     *)
(* that removes markers runs while the job is in failed.                   *)
Dooms(t, marked) ==
    t.doomed => /\ t.pc \in {"claimed", "started"} => t.job \in marked
                /\ t.pc \notin {"uploading", "receipt"}

(* A retry that removes the marker has the job in failed.                  *)
RetryHolds(c) ==
    client[c].pc \in {"clear", "rename"} =>
        client[c].op = "retry" /\ "failed" \in files[client[c].job]

(* Both, for every task and every request.                                 *)
CancelInv == (\A s \in Slot : Dooms(slot[s], cancel)) /\ (\A c \in Client : RetryHolds(c))

(* A failed job is in failed only.                                         *)
LEMMA FailedAlone ==
    ASSUME OnceInv, NEW k \in Job, "failed" \in files[k]
    PROVE  \A x \in files[k] : x = "failed"
    BY DEF OnceInv, JobInv, GoodJob

(* Only retry_failed takes a job out of failed.                            *)
LEMMA FailedStays ==
    ASSUME OnceInv, NEW k \in Job, "failed" \in files[k], [Next]_vars
    PROVE  "failed" \in files'[k] \/ \E e \in Client : RequeueFailed(e) /\ client[e].job = k
<1>1. ASSUME NEW c \in Client, Create(c)
      PROVE  "failed" \in files'[k] \/ \E e \in Client : RequeueFailed(e) /\ client[e].job = k
      <2>1. client[c].job \in Job
            BY <1>1 DEF Create, At, OnceInv, QueueTypesAll, QueueTypes, RequestsTyped
      <2> QED
          BY <1>1, <2>1 DEF Create, OnceInv, QueueTypesAll, QueueTypes, FilesTyped
<1>2. ASSUME NEW c \in Client, Discard(c)
      PROVE  "failed" \in files'[k] \/ \E e \in Client : RequeueFailed(e) /\ client[e].job = k
      <2>1. client[c].job \in Job
            BY <1>2 DEF Discard, At, OnceInv, QueueTypesAll, QueueTypes, RequestsTyped
      <2> QED
          BY <1>2, <2>1 DEF Discard, OnceInv, QueueTypesAll, QueueTypes, FilesTyped
<1>3. ASSUME NEW c \in Client, PublishJob(c)
      PROVE  "failed" \in files'[k] \/ \E e \in Client : RequeueFailed(e) /\ client[e].job = k
      BY <1>3, FailedAlone DEF PublishJob, Rename, OnceInv, QueueTypesAll, QueueTypes, FilesTyped
<1>4. ASSUME NEW c \in Client, RequeueFailed(c)
      PROVE  "failed" \in files'[k] \/ \E e \in Client : RequeueFailed(e) /\ client[e].job = k
      <2>1. client[c].job \in Job
            BY <1>4 DEF RequeueFailed, At, OnceInv, QueueTypesAll, QueueTypes, RequestsTyped
      <2> QED
          BY <1>4, <2>1 DEF RequeueFailed, Rename, OnceInv, QueueTypesAll, QueueTypes, FilesTyped
<1>5. ASSUME NEW j \in Job, RecoverMove(j)
      PROVE  "failed" \in files'[k] \/ \E e \in Client : RequeueFailed(e) /\ client[e].job = k
      BY <1>5, FailedAlone DEF RecoverMove, Rename, OnceInv, QueueTypesAll, QueueTypes, FilesTyped
<1>6. ASSUME NEW s \in Slot, NEW j \in Job, Claim(s, j)
      PROVE  "failed" \in files'[k] \/ \E e \in Client : RequeueFailed(e) /\ client[e].job = k
      BY <1>6, FailedAlone DEF Claim, Rename, OnceInv, QueueTypesAll, QueueTypes, FilesTyped
<1>7. ASSUME NEW s \in Slot, Move(s)
      PROVE  "failed" \in files'[k] \/ \E e \in Client : RequeueFailed(e) /\ client[e].job = k
      BY <1>7, FailedAlone DEF Move, Rename, OnceInv, QueueTypesAll, QueueTypes, FilesTyped
<1>8. ASSUME NEW s \in Slot, Requeue(s)
      PROVE  "failed" \in files'[k] \/ \E e \in Client : RequeueFailed(e) /\ client[e].job = k
      BY <1>8, FailedAlone DEF Requeue, Rename, OnceInv, QueueTypesAll, QueueTypes, FilesTyped
<1>9. CASE UNCHANGED files
      BY <1>9
<1> QED
    BY <1>1, <1>2, <1>3, <1>4, <1>5, <1>6, <1>7, <1>8, <1>9
    DEF Next, RequestStep, WorkerStep, RecoverStep, ClaimStep, TaskStep, TimeStep, vars,
        Submit, StageCancel, StageRetry, Scan, Audit, PublishCancel, PublishRetry, ClearCancel,
        ReportRequest, ConsumeRetry, Drop, CliCancel, Boot, RecoverReport, RecoverDone, Join,
        NextBatch, Start, Resolve, UploadEnds, WriteReceipt, Report, ScheduleRetry, Elapse,
        Crash

(* A retry that is to clear the marker still has its job in failed.        *)
LEMMA RetryHoldsStep ==
    ASSUME OnceInv, CancelInv, RetryAlone, [Next]_vars, NEW d \in Client
    PROVE  RetryHolds(d)'
<1> SUFFICES ASSUME client'[d].pc \in {"clear", "rename"}
             PROVE  client'[d].op = "retry" /\ "failed" \in files'[client'[d].job]
    BY DEF RetryHolds
<1>0. QueueTypesAll
      BY DEF OnceInv
<1>1. CASE PublishRetry(d) /\ client'[d].pc = "clear"
      <2>1. /\ client[d].op = "retry" /\ "failed" \in files[client[d].job] /\ UNCHANGED files
            /\ client'[d].op = client[d].op /\ client'[d].job = client[d].job
            BY <1>0, <1>1, RequestFields DEF PublishRetry
      <2> QED
          BY <2>1
<1>2. CASE /\ client[d].pc \in {"clear", "rename"}
           /\ client'[d].op = client[d].op /\ client'[d].job = client[d].job
      <2>1. client[d].op = "retry" /\ "failed" \in files[client[d].job] /\ client[d].job \in Job
            BY <1>0, <1>2 DEF CancelInv, RetryHolds, QueueTypesAll, QueueTypes, RequestsTyped
      <2>2. ASSUME NEW e \in Client, RequeueFailed(e), client[e].job = client[d].job PROVE FALSE
            <3>1. client[e].pc = "rename" /\ client[e].op = "retry"
                  BY <2>2 DEF RequeueFailed, At, CancelInv, RetryHolds
            <3>2. e = d
                  BY <2>1, <2>2, <3>1 DEF RetryAlone
            <3>3. client'[e].pc \in {"report", "idle"}
                  BY <1>0, <2>2, RequestFields DEF RequeueFailed
            <3> QED
                BY <3>2, <3>3
      <2>3. "failed" \in files'[client[d].job]
            BY <2>1, <2>2, FailedStays
      <2> QED
          BY <1>2, <2>1, <2>3
<1>3. RequestMay(d)
      BY <1>0, RequestsMay
<1>4. ~\E j \in Job : Submit(d, j)
      BY <1>0, RequestFields DEF Submit
<1> QED
    BY <1>1, <1>2, <1>3, <1>4 DEF RequestMay

(* The marker of a claimed job is not removed.                             *)
LEMMA MarkerStays ==
    ASSUME OnceInv, CancelInv, [Next]_vars, NEW s \in Slot, Held(slot[s]), slot[s].job \in cancel
    PROVE  slot[s].job \in cancel'
<1>1. ASSUME NEW c \in Client, ClearCancel(c) PROVE slot[s].job \in cancel'
      <2>1. client[c].pc = "clear" /\ client[c].job \in Job
            BY <1>1 DEF ClearCancel, At, OnceInv, QueueTypesAll, QueueTypes, RequestsTyped
      <2>2. "failed" \in files[client[c].job]
            BY <2>1 DEF CancelInv, RetryHolds
      <2>3. "running" \in files[slot[s].job]
            BY DEF OnceInv, TaskInv, Owns, GoodTask
      <2>4. client[c].job # slot[s].job
            BY <2>1, <2>2, <2>3, FailedAlone
      <2> QED
          BY <1>1, <2>4 DEF ClearCancel
<1>2. ASSUME NEW c \in Client, PublishCancel(c) PROVE slot[s].job \in cancel'
      BY <1>2 DEF PublishCancel
<1>3. ASSUME NEW j \in Job, CliCancel(j) PROVE slot[s].job \in cancel'
      BY <1>3 DEF CliCancel
<1>4. CASE UNCHANGED cancel
      BY <1>4
<1> QED
    BY <1>1, <1>2, <1>3, <1>4
    DEF Next, RequestStep, WorkerStep, RecoverStep, ClaimStep, TaskStep, TimeStep, vars,
        Submit, StageCancel, StageRetry, Scan, Create, Audit, Discard, PublishJob,
        PublishRetry, RequeueFailed, ReportRequest, ConsumeRetry, Drop, Boot, RecoverMove,
        RecoverReport, RecoverDone, Claim, Join, NextBatch, Start, Resolve, UploadEnds,
        WriteReceipt, Move, Report, ScheduleRetry, Requeue, Elapse, Crash

(* A slot that keeps its task, or moves it past the upload, dooms nothing. *)
LEMMA DoomsKept ==
    ASSUME OnceInv, CancelInv, [Next]_vars, NEW s \in Slot,
           slot'[s].doomed = slot[s].doomed, slot'[s].job = slot[s].job,
           \/ slot'[s].pc = slot[s].pc
           \/ slot'[s].pc = "started" /\ slot[s].pc = "claimed"
           \/ slot'[s].pc \notin {"claimed", "started", "uploading", "receipt"}
    PROVE  Dooms(slot'[s], cancel')
<1>1. Dooms(slot[s], cancel)
      BY DEF CancelInv
<1>2. slot[s].pc \in {"claimed", "started"} /\ slot[s].job \in cancel => slot[s].job \in cancel'
      BY MarkerStays DEF Held
<1> QED
    BY <1>1, <1>2 DEF Dooms

(* Every step leaves a claim that met the marker bound to stop.            *)
LEMMA DoomsStep ==
    ASSUME OnceInv, CancelInv, [Next]_vars
    PROVE  \A u \in Slot : Dooms(slot'[u], cancel')
<1>0. QueueTypesAll
      BY DEF OnceInv
<1>1. ASSUME slot' = [s \in Slot |-> NoTask] PROVE \A u \in Slot : Dooms(slot'[u], cancel')
      BY <1>1 DEF Dooms, NoTask
<1>2. ASSUME NEW u \in Slot, slot'[u] = slot[u] PROVE Dooms(slot'[u], cancel')
      BY <1>2, DoomsKept
<1>3. ASSUME NEW s \in Slot, NEW pc, Step(s, pc), pc \in {"report", "retry", "requeue", "done"}
      PROVE  \A u \in Slot : Dooms(slot'[u], cancel')
      <2>1. Dooms(slot'[s], cancel')
            BY <1>0, <1>3, SlotUpdate, DoomsKept
      <2> QED
          BY <1>0, <1>2, <1>3, <2>1, SlotUpdate
<1>4. ASSUME NEW s \in Slot, NEW to, Finish(s, to) PROVE \A u \in Slot : Dooms(slot'[u], cancel')
      <2>1. Dooms(slot'[s], cancel')
            BY <1>0, <1>4, SlotUpdate, DoomsKept
      <2> QED
          BY <1>0, <1>2, <1>4, <2>1, SlotUpdate
<1>5. ASSUME NEW s \in Slot, Fail(s) PROVE \A u \in Slot : Dooms(slot'[u], cancel')
      BY <1>3, <1>4, <1>5 DEF Fail
<1>6. ASSUME NEW s \in Slot, NEW j \in Job, Claim(s, j)
      PROVE  \A u \in Slot : Dooms(slot'[u], cancel')
      <2>1. /\ slot'[s] = [pc |-> "claimed", job |-> j, attempt |-> 0, to |-> "none",
                           doomed |-> j \in cancel]
            /\ \A x \in Slot : x # s => slot'[x] = slot[x]
            BY <1>0, <1>6 DEF Claim, QueueTypesAll, QueueTypes, TasksTyped
      <2>2. UNCHANGED cancel
            BY <1>6 DEF Claim
      <2>3. slot'[s].pc = "claimed" /\ slot'[s].job = j
            BY <2>1
      <2>4. "claimed" \notin {"uploading", "receipt"}
            OBVIOUS
      <2>5. ASSUME j \in cancel PROVE Dooms(slot'[s], cancel')
            BY <2>2, <2>3, <2>4, <2>5, Zenon DEF Dooms
      <2>6. ASSUME j \notin cancel PROVE Dooms(slot'[s], cancel')
            <3>1. (j \in cancel) = FALSE
                  BY <2>6, SMT
            <3>2. slot'[s] = [pc |-> "claimed", job |-> j, attempt |-> 0, to |-> "none",
                              doomed |-> FALSE]
                  BY <2>1, <3>1, Zenon
            <3>3. slot'[s].doomed = FALSE
                  BY <3>2
            <3> QED
                BY <3>3, Zenon DEF Dooms
      <2> QED
          BY <1>2, <2>1, <2>5, <2>6
<1>7. ASSUME NEW s \in Slot, Start(s) PROVE \A u \in Slot : Dooms(slot'[u], cancel')
      <2>1. /\ slot[s].pc = "claimed" /\ slot'[s].pc = "started" /\ slot'[s].job = slot[s].job
            /\ slot'[s].doomed = slot[s].doomed
            /\ \A x \in Slot : x # s => slot'[x] = slot[x]
            BY <1>0, <1>7 DEF Start, On, QueueTypesAll, QueueTypes, TasksTyped, Task
      <2>2. Dooms(slot'[s], cancel')
            BY <2>1, DoomsKept
      <2> QED
          BY <1>2, <2>1, <2>2
<1>8. ASSUME NEW s \in Slot, Resolve(s) PROVE \A u \in Slot : Dooms(slot'[u], cancel')
      <2>1. CASE Step(s, "uploading") /\ slot[s].job \notin cancel
            <3>1. slot[s].pc = "started" /\ Dooms(slot[s], cancel)
                  BY <1>8 DEF Resolve, On, CancelInv
            <3>2. ~slot[s].doomed
                  BY <2>1, <3>1 DEF Dooms
            <3>3. Dooms(slot'[s], cancel')
                  BY <1>0, <2>1, <3>2, SlotUpdate DEF Dooms
            <3> QED
                BY <1>0, <1>2, <2>1, <3>3, SlotUpdate
      <2> QED
          BY <1>4, <1>5, <1>8, <2>1 DEF Resolve, StopsForCancel
<1>9. ASSUME NEW s \in Slot, UploadEnds(s) PROVE \A u \in Slot : Dooms(slot'[u], cancel')
      <2>1. CASE Step(s, "receipt")
            <3>1. slot[s].pc = "uploading" /\ Dooms(slot[s], cancel)
                  BY <1>9 DEF UploadEnds, On, CancelInv
            <3>2. ~slot[s].doomed
                  BY <3>1 DEF Dooms
            <3>3. Dooms(slot'[s], cancel')
                  BY <1>0, <2>1, <3>2, SlotUpdate DEF Dooms
            <3> QED
                BY <1>0, <1>2, <2>1, <3>3, SlotUpdate
      <2> QED
          BY <1>4, <1>5, <1>9, <2>1 DEF UploadEnds, Uploaded
<1>10. ASSUME NEW s \in Slot, WriteReceipt(s) \/ Move(s) \/ Report(s) \/ ScheduleRetry(s) \/ Requeue(s)
      PROVE  \A u \in Slot : Dooms(slot'[u], cancel')
      BY <1>1, <1>3, <1>4, <1>10 DEF WriteReceipt, Move, Report, ScheduleRetry, Requeue, Exit
<1>11. CASE NextBatch \/ Crash
      BY <1>1, <1>11 DEF NextBatch, Crash, Exit
<1>12. CASE UNCHANGED slot
      BY <1>2, <1>12
<1> QED
    BY <1>6, <1>7, <1>8, <1>9, <1>10, <1>11, <1>12
    DEF Next, RequestStep, WorkerStep, RecoverStep, ClaimStep, TaskStep, TimeStep, vars,
        Submit, StageCancel, StageRetry, Scan, Create, Audit, Discard, PublishJob,
        PublishCancel, PublishRetry, ClearCancel, RequeueFailed, ReportRequest, ConsumeRetry,
        Drop, CliCancel, Boot, RecoverMove, RecoverReport, RecoverDone, Join, Elapse

(* The cancellation check of process_claimed: where a job is submitted     *)
(* once and its operator retries do not overlap, a claim that finds the    *)
(* cancel marker never uploads, whatever else runs or dies.                *)
THEOREM CancelWins == Spec /\ []SubmittedOnce /\ []RetryAlone => []CancelHonoured
<1>1. OnceInv /\ CancelInv /\ RetryAlone /\ [Next]_vars => CancelInv'
      BY RetryHoldsStep, DoomsStep DEF CancelInv
<1>2. Init => CancelInv
      BY DEF Init, CancelInv, Dooms, RetryHolds, NoTask, NoRequest
<1>3. CancelInv => CancelHonoured
      BY DEF CancelInv, Dooms, CancelHonoured
<1> QED
    BY <1>1, <1>2, <1>3, OnceAlways, PTL DEF Spec

=============================================================================
