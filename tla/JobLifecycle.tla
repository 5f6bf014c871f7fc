---------------------------- MODULE JobLifecycle ----------------------------
(***************************************************************************)
(* The life of comparison jobs on the shared data volume: AuditService in  *)
(* src/src/excel_auditor/service.py, driven by the HTTP handlers of api.py,*)
(* by one worker run per job (worker.py) and by the retention process      *)
(* (retention.py).                                                         *)
(*                                                                         *)
(* Nothing serialises these processes.  Each of them changes a job by      *)
(* reading status.json, building a whole new payload from what it read,    *)
(* writing it to the one status.tmp of the job, renaming that file over    *)
(* status.json, and then copying the payload to the database row: four     *)
(* atomic steps between which any other process may run.                   *)
(***************************************************************************)
EXTENDS Naturals, FiniteSets

CONSTANTS Jobs,        \* job identifiers
          Submitters,  \* API threads that serve the submission of a job
          Clients,     \* API threads that serve cancellations and deletions
          Kinds        \* which of the two the clients ask for

ASSUME JobsAssumption == IsFiniteSet(Jobs) /\ Jobs # {}
ASSUME KindsAssumption == Kinds \subseteq {"cancel", "delete"}

Requests == Submitters \cup Clients

VARIABLES
    file,     \* file[j]: what status.json of job j holds
    tmp,      \* tmp[j]: what its status.tmp holds
    marker,   \* marker[j]: the file cancel.requested exists
    row,      \* row[j]: the status column of the job's database row
    objects,  \* objects[j]: what the object store holds for the job
    elapsed,  \* elapsed[j]: which of the job's two deadlines have passed
    wpc,      \* wpc[j]: where the worker run of the job stands
    wcopy,    \* wcopy[j]: the status the worker read last
    wgoal,    \* wgoal[j]: the status the worker is about to write
    wkeys,    \* wkeys[j]: the object keys the worker is about to record
    req,      \* req[r]: the request that thread r serves
    cpc,      \* where the retention process stands
    ctodo,    \* jobs its current pass has still to look at
    cjob,     \* the job it is purging
    ckeys,    \* object keys of that job still to be deleted
    raced,    \* history: a status of j was published across another's write
    early     \* history: cancelled before the run decided on the outcome

disk        == <<file, tmp, marker>>
stores      == <<row, objects>>
history     == <<raced, early>>
workerVars  == <<wpc, wcopy, wgoal, wkeys>>
cleanerVars == <<cpc, ctodo, cjob, ckeys>>
vars == <<disk, stores, elapsed, history, workerVars, req, cleanerVars>>

-----------------------------------------------------------------------------
(* Status payloads.  A payload with st = "none" stands for a missing file.  *)

Active   == {"queued", "validating", "comparing", "rendering"}
Terminal == {"completed", "failed", "cancelled", "manual_review"}

\* What a job puts in the object store: the standard snapshot and, as one
\* element, the report and workbook files that _upload_artifacts sends.
ObjectKeys == {"snapshot", "artifacts"}

Status == [st : Active \cup Terminal \cup {"none"}, cancel : BOOLEAN,
           del : BOOLEAN, keys : SUBSET ObjectKeys]

NoStatus == [st |-> "none", cancel |-> FALSE, del |-> FALSE, keys |-> {}]

Queued == [NoStatus EXCEPT !.st = "queued"]

Exists(j) == file[j] # NoStatus

\* A fault to test EventuallyPurged with: only deleted jobs are ever due.
FaultyDeadline(s) == "delete_delay"

\* The deadline purge_expired compares with the clock: purge_after once the
\* job is deleted, retention_until before.
Deadline(s) == IF s.del THEN "delete_delay" ELSE "retention"

-----------------------------------------------------------------------------
(* Worker locations.                                                        *)

Checkpoints == {"check_start", "check_load", "check_report", "check_render"}
Stages      == {"load", "snapshot", "save_snapshot", "compare", "report",
                "collect", "put", "render", "repairs"}
Writing     == {"read", "stage", "replace", "mirror"}
Pipeline    == Checkpoints \cup Stages
Ended       == {"done", "raised", "crashed"}
Locations   == {"absent", "waiting"} \cup Pipeline \cup Writing \cup Ended

\* A fault to test TypeOK with: a status taken for a location of the run.
FaultyAfter(goal) == goal

\* Where the run goes on once the given status is published and mirrored.
After(goal) == CASE goal = "validating" -> "load"
                 [] goal = "comparing"  -> "compare"
                 [] goal = "rendering"  -> "check_render"
                 [] OTHER               -> "done"

\* The statuses that are written together with a new object_keys entry.
Recording == {"comparing", "completed", "manual_review"}

\* The run has still to pass the checkpoint after which it decides whether
\* the job is completed, goes to manual review or is rendered.
Undecided(j) ==
    \/ wpc[j] \in {"absent", "waiting", "check_start", "load", "check_load",
                   "snapshot", "save_snapshot", "compare", "check_report"}
    \/ wpc[j] \in Writing /\ wgoal[j] \in {"validating", "comparing"}

WorkerPayload(j) ==
    [wcopy[j] EXCEPT !.st = wgoal[j],
                     !.keys = IF wgoal[j] \in Recording THEN wkeys[j] ELSE @]

-----------------------------------------------------------------------------
(* Requests.                                                                *)

SomeJob == CHOOSE j \in Jobs : TRUE

\* No request: every thread serves one request after the other.
Idle == [pc |-> "idle", kind |-> "none", job |-> SomeJob, copy |-> NoStatus]

RequestType ==
    [pc   : {"idle", "insert", "authorize", "read", "mark", "stage",
             "replace", "mirror", "enqueue"},
     kind : {"none", "submit", "cancel", "delete"},
     job  : Jobs,
     copy : Status]

RequestPayload(q) ==
    CASE q.kind = "cancel" -> [q.copy EXCEPT !.cancel = TRUE]
      [] q.kind = "delete" -> [q.copy EXCEPT !.del = TRUE]
      [] OTHER             -> q.copy

\* A cancel or delete request that has read the status of j and is not finished.
RequestPending(j) ==
    \E r \in Requests : /\ req[r].kind \in {"cancel", "delete"}
                        /\ req[r].job = j
                        /\ req[r].pc \in {"mark", "stage", "replace", "mirror"}

\* The history variable after a process has renamed the status.tmp of j: set
\* when a request was pending under a write of the run, and when the process
\* published the payload of another one, or lost its own.
RacedAfter(j, overlap) == [raced EXCEPT ![j] = @ \/ (overlap /\ Exists(j))]

-----------------------------------------------------------------------------
Init ==
    /\ file    = [j \in Jobs |-> NoStatus]
    /\ tmp     = [j \in Jobs |-> NoStatus]
    /\ marker  = [j \in Jobs |-> FALSE]
    /\ row     = [j \in Jobs |-> "none"]
    /\ objects = [j \in Jobs |-> {}]
    /\ elapsed = [j \in Jobs |-> {}]
    /\ wpc     = [j \in Jobs |-> "absent"]
    /\ wcopy   = [j \in Jobs |-> NoStatus]
    /\ wgoal   = [j \in Jobs |-> "none"]
    /\ wkeys   = [j \in Jobs |-> {}]
    /\ req     = [r \in Requests |-> Idle]
    /\ cpc     = "idle"
    /\ ctodo   = {}
    /\ cjob    = SomeJob
    /\ ckeys   = {}
    /\ raced   = [j \in Jobs |-> FALSE]
    /\ early   = [j \in Jobs |-> FALSE]

-----------------------------------------------------------------------------
(* API requests.  A request that meets an error answers and is forgotten.   *)

Step(r, pc) == req' = [req EXCEPT ![r].pc = pc]

Answer(r) == req' = [req EXCEPT ![r] = Idle]

Receive(r, kind, pc, j) ==
    /\ req[r] = Idle
    /\ req' = [req EXCEPT ![r] = [pc |-> pc, kind |-> kind, job |-> j,
                                  copy |-> NoStatus]]

\* create_job under the quota lock: mkdir of the job directory and the first
\* status file.  No other process can write the job yet.
SubmitCreates(r, j) ==
    /\ wpc[j] = "absent"
    /\ ~Exists(j)
    /\ \A q \in Requests : ~(req[q].kind = "submit" /\ req[q].job = j)
    /\ Receive(r, "submit", "insert", j)
    /\ file' = [file EXCEPT ![j] = Queued]
    /\ UNCHANGED <<tmp, marker, stores, elapsed, history, workerVars, cleanerVars>>

\* DatabaseRepository.create_job and the update_job after it; when it raises
\* the request is answered and the queued job stays behind without a run.
SubmitInserts(r) ==
    /\ req[r].pc = "insert"
    /\ \/ row' = [row EXCEPT ![req[r].job] = "queued"] /\ Step(r, "read")
       \/ row' \in {row, [row EXCEPT ![req[r].job] = "queued"]} /\ Answer(r)
    /\ UNCHANGED <<disk, objects, elapsed, history, workerVars, cleanerVars>>

\* A client asks for the cancellation or the deletion of a job.
ClientAsks(r, kind, j) ==
    /\ Receive(r, kind, "authorize", j)
    /\ UNCHANGED <<disk, stores, elapsed, history, workerVars, cleanerVars>>

\* _authorize_job: a missing or a deleted job is a 404.
Authorizes(r) ==
    /\ req[r].pc = "authorize"
    /\ IF Exists(req[r].job) /\ ~file[req[r].job].del
       THEN Step(r, "read") ELSE Answer(r)
    /\ UNCHANGED <<disk, stores, elapsed, history, workerVars, cleanerVars>>

\* The read at the head of request_cancel, soft_delete and
\* record_input_metadata, with the terminality test of the first two.
RequestReads(r) ==
    LET j == req[r].job
        s == file[j]
        allowed == /\ req[r].kind = "cancel" => s.st \notin Terminal
                   /\ req[r].kind = "delete" => s.st \in Terminal
        next == IF req[r].kind = "cancel" THEN "mark" ELSE "stage"
    IN  /\ req[r].pc = "read"
        /\ IF Exists(j) /\ allowed
           THEN req' = [req EXCEPT ![r].pc = next, ![r].copy = s]
           ELSE Answer(r)
        /\ UNCHANGED <<disk, stores, elapsed, history, workerVars, cleanerVars>>

\* request_cancel drops the marker file before it writes the status.
CancelMarks(r) ==
    LET j == req[r].job
    IN  /\ req[r].pc = "mark"
        /\ IF Exists(j)
           THEN /\ marker' = [marker EXCEPT ![j] = TRUE]
                /\ early' = [early EXCEPT ![j] = @ \/ Undecided(j)]
                /\ Step(r, "stage")
           ELSE Answer(r) /\ UNCHANGED <<marker, early>>
        /\ UNCHANGED <<file, tmp, stores, elapsed, raced, workerVars, cleanerVars>>

\* _write_status, first half: the payload goes to status.tmp.
RequestStages(r) ==
    LET j == req[r].job
    IN  /\ req[r].pc = "stage"
        /\ IF Exists(j)
           THEN tmp' = [tmp EXCEPT ![j] = RequestPayload(req[r])]
                /\ Step(r, "replace")
           ELSE tmp' = tmp /\ Answer(r)
        /\ UNCHANGED <<file, marker, stores, elapsed, history, workerVars, cleanerVars>>

\* _write_status, the rename: it publishes whatever status.tmp holds now and
\* raises FileNotFoundError when another writer has renamed it already.
Publish(j) ==
    /\ file' = [file EXCEPT ![j] = tmp[j]]
    /\ tmp'  = [tmp EXCEPT ![j] = NoStatus]

\* Publishing a deletion gives the job a new purge_after in the future.
RequestReplaces(r) ==
    LET j == req[r].job
    IN  /\ req[r].pc = "replace"
        /\ IF tmp[j] # NoStatus
           THEN /\ Publish(j)
                /\ Step(r, "mirror")
                /\ elapsed' = IF tmp[j].del
                              THEN [elapsed EXCEPT ![j] = @ \ {"delete_delay"}]
                              ELSE elapsed
           ELSE Answer(r) /\ UNCHANGED <<file, tmp, elapsed>>
        /\ raced' = RacedAfter(j, tmp[j] # RequestPayload(req[r]))
        /\ UNCHANGED <<marker, stores, early, workerVars, cleanerVars>>

\* A fault to test RowGoesBeforeTree with: update_job inserts a missing row.
FaultyMirrored(j, st) == [row EXCEPT ![j] = st]

\* update_job: nothing happens to a row that is not there (any more).
Mirrored(j, st) == [row EXCEPT ![j] = IF @ = "none" THEN @ ELSE st]

\* _write_status, last part, and the answer to the request; when the database
\* raises, a cancel or a delete has taken effect although it answers 500.
RequestMirrors(r) ==
    LET j == req[r].job
    IN  /\ req[r].pc = "mirror"
        /\ \/ /\ row' = Mirrored(j, req[r].copy.st)
              /\ IF req[r].kind = "submit" THEN Step(r, "enqueue") ELSE Answer(r)
           \/ row' = row /\ Answer(r)
        /\ UNCHANGED <<disk, objects, elapsed, history, workerVars, cleanerVars>>

\* The queue takes the job, or raises: 503, and the job stays queued.
SubmitEnqueues(r) ==
    /\ req[r].pc = "enqueue"
    /\ \/ wpc' = [wpc EXCEPT ![req[r].job] = "waiting"]
       \/ wpc' = wpc
    /\ Answer(r)
    /\ UNCHANGED <<disk, stores, elapsed, history, wcopy, wgoal, wkeys, cleanerVars>>

RequestStep(r) ==
    \/ SubmitInserts(r)
    \/ Authorizes(r)
    \/ RequestReads(r)
    \/ CancelMarks(r)
    \/ RequestStages(r)
    \/ RequestReplaces(r)
    \/ RequestMirrors(r)
    \/ SubmitEnqueues(r)

-----------------------------------------------------------------------------
(* The worker run of a job: AuditService.run.                               *)

Goto(j, pc) == wpc' = [wpc EXCEPT ![j] = pc]

\* {**self.status(job_id), ...} starts by reading the status.
Update(j, goal) == Goto(j, "read") /\ wgoal' = [wgoal EXCEPT ![j] = goal]

\* A fault to test CancelIsHonoured with: the flag in status.json, which the
\* run may overwrite, stands for the marker file.
FaultyCancelRequested(j) == file[j].cancel

CancelRequested(j) == marker[j]

\* _check_cancelled at its four places.
WorkerChecks(j) ==
    /\ wpc[j] \in Checkpoints
    /\ \/ CancelRequested(j) /\ Update(j, "cancelled")
       \/ ~CancelRequested(j) /\ wpc[j] = "check_start" /\ Update(j, "validating")
       \/ /\ ~CancelRequested(j)
          /\ \/ wpc[j] = "check_load"   /\ Goto(j, "snapshot")
             \/ wpc[j] = "check_report" /\ Goto(j, "report")
             \/ wpc[j] = "check_render" /\ Goto(j, "render")
          /\ UNCHANGED wgoal
    /\ UNCHANGED <<disk, stores, elapsed, history, wcopy, wkeys, req, cleanerVars>>

\* The queue starts the run; workbook inspection, loading and validation of
\* the standard data; the comparison; the renderer: private files only.
WorkerComputes(j) ==
    /\ \/ wpc[j] = "waiting" /\ Goto(j, "check_start")
       \/ wpc[j] = "load"    /\ Goto(j, "check_load")
       \/ wpc[j] = "compare" /\ Goto(j, "check_report")
       \/ wpc[j] = "render"  /\ Goto(j, "repairs")
    /\ UNCHANGED <<disk, stores, elapsed, history, wcopy, wgoal, wkeys, req, cleanerVars>>

\* The frozen standard snapshot is sent to the object store ...
WorkerPutsSnapshot(j) ==
    /\ wpc[j] = "snapshot"
    /\ objects' = [objects EXCEPT ![j] = @ \cup {"snapshot"}]
    /\ Goto(j, "save_snapshot")
    /\ UNCHANGED <<disk, row, elapsed, history, wcopy, wgoal, wkeys, req, cleanerVars>>

\* ... registered in the database, and its key is added to the keys that the
\* status holds at this moment.
WorkerSavesSnapshot(j) ==
    /\ wpc[j] = "save_snapshot"
    /\ wkeys' = [wkeys EXCEPT ![j] = file[j].keys \cup {"snapshot"}]
    /\ Update(j, "comparing")
    /\ UNCHANGED <<disk, stores, elapsed, history, wcopy, req, cleanerVars>>

\* save_differences and the first reports; the outcome of the comparison then
\* decides between manual review, report only and rendering.  After rendering
\* the repairs are audited and marked and the final reports are written.
WorkerReports(j) ==
    /\ \/ /\ wpc[j] = "report"
          /\ \E goal \in {"manual_review", "completed"} :
                wgoal' = [wgoal EXCEPT ![j] = goal]
          /\ Goto(j, "collect")
       \/ wpc[j] = "report" /\ Update(j, "rendering")
       \/ /\ wpc[j] = "repairs"
          /\ wgoal' = [wgoal EXCEPT ![j] = "completed"]
          /\ Goto(j, "collect")
    /\ UNCHANGED <<disk, stores, elapsed, history, wcopy, wkeys, req, cleanerVars>>

\* A fault to test NoOrphanObjects with: the keys start from an empty dict.
FaultyRecordedKeys(j) == {}

RecordedKeys(j) == file[j].keys

\* _upload_artifacts first copies the recorded object keys ...
WorkerCollectsKeys(j) ==
    /\ wpc[j] = "collect"
    /\ wkeys' = [wkeys EXCEPT ![j] = RecordedKeys(j)]
    /\ Goto(j, "put")
    /\ UNCHANGED <<disk, stores, elapsed, history, wcopy, wgoal, req, cleanerVars>>

\* ... and adds what it puts into the store.
WorkerPutsArtifacts(j) ==
    /\ wpc[j] = "put"
    /\ objects' = [objects EXCEPT ![j] = @ \cup {"artifacts"}]
    /\ wkeys' = [wkeys EXCEPT ![j] = @ \cup {"artifacts"}]
    /\ Goto(j, "read")
    /\ UNCHANGED <<disk, row, elapsed, history, wcopy, wgoal, req, cleanerVars>>

\* A fault to test RunSettlesUnlessRaced with: run lets every exception out.
FaultyRaise(j) == Goto(j, "raised") /\ UNCHANGED wgoal

\* An exception inside run leads to its handler, which writes "failed"; an
\* exception inside a handler leaves run.
Raise(j) ==
    IF wpc[j] \in Writing /\ wgoal[j] \in {"cancelled", "failed"}
    THEN Goto(j, "raised") /\ UNCHANGED wgoal
    ELSE Update(j, "failed")

\* Invalid input, a failing renderer, store or database, or the job timeout.
\* An upload of several files may have stored some of them when it raises.
WorkerStageRaises(j) ==
    /\ wpc[j] \in Stages
    /\ Raise(j)
    /\ \/ objects' = objects
       \/ wpc[j] = "put" /\ objects' = [objects EXCEPT ![j] = @ \cup {"artifacts"}]
    /\ UNCHANGED <<disk, row, elapsed, history, wcopy, wkeys, req, cleanerVars>>

WorkerReads(j) ==
    /\ wpc[j] = "read"
    /\ IF Exists(j)
       THEN /\ wcopy' = [wcopy EXCEPT ![j] = file[j]]
            /\ Goto(j, "stage")
            /\ UNCHANGED wgoal
       ELSE Raise(j) /\ UNCHANGED wcopy
    /\ UNCHANGED <<disk, stores, elapsed, history, wkeys, req, cleanerVars>>

\* The payload is built from the copy, which is not used again.
WorkerStages(j) ==
    /\ wpc[j] = "stage"
    /\ IF Exists(j)
       THEN /\ tmp' = [tmp EXCEPT ![j] = WorkerPayload(j)]
            /\ wcopy' = [wcopy EXCEPT ![j] = NoStatus]
            /\ wkeys' = [wkeys EXCEPT ![j] = {}]
            /\ Goto(j, "replace")
            /\ UNCHANGED wgoal
       ELSE Raise(j) /\ UNCHANGED <<tmp, wcopy, wkeys>>
    /\ UNCHANGED <<file, marker, stores, elapsed, history, req, cleanerVars>>

WorkerReplaces(j) ==
    /\ wpc[j] = "replace"
    /\ IF tmp[j] # NoStatus
       THEN Publish(j) /\ Goto(j, "mirror") /\ UNCHANGED wgoal
       ELSE Raise(j) /\ UNCHANGED <<file, tmp>>
    /\ raced' = RacedAfter(j, RequestPending(j) \/ tmp[j].st # wgoal[j])
    /\ UNCHANGED <<marker, stores, elapsed, early, wcopy, wkeys, req, cleanerVars>>

WorkerMirrors(j) ==
    /\ wpc[j] = "mirror"
    /\ \/ /\ row' = Mirrored(j, wgoal[j])
          /\ Goto(j, After(wgoal[j]))
          /\ UNCHANGED wgoal
       \/ Raise(j) /\ UNCHANGED row
    /\ UNCHANGED <<disk, objects, elapsed, history, wcopy, wkeys, req, cleanerVars>>

WorkerStep(j) ==
    \/ WorkerChecks(j)
    \/ WorkerComputes(j)
    \/ WorkerPutsSnapshot(j)
    \/ WorkerSavesSnapshot(j)
    \/ WorkerReports(j)
    \/ WorkerCollectsKeys(j)
    \/ WorkerPutsArtifacts(j)
    \/ WorkerStageRaises(j)
    \/ WorkerReads(j)
    \/ WorkerStages(j)
    \/ WorkerReplaces(j)
    \/ WorkerMirrors(j)

\* A fault to test KeepsPromise with: the queue runs the job of a dead worker
\* again.
FaultyAbandon(j) == Goto(j, "waiting")

Abandon(j) == Goto(j, "crashed")

\* The worker process dies; the queue does not run the job again.
WorkerCrashes(j) ==
    /\ wpc[j] \in Pipeline \cup Writing
    /\ Abandon(j)
    /\ wcopy' = [wcopy EXCEPT ![j] = NoStatus]
    /\ wgoal' = [wgoal EXCEPT ![j] = "none"]
    /\ wkeys' = [wkeys EXCEPT ![j] = {}]
    /\ UNCHANGED <<disk, stores, elapsed, history, req, cleanerVars>>

-----------------------------------------------------------------------------
(* The retention process: one pass of purge_expired after another.          *)

PassBegins ==
    /\ cpc = "idle"
    /\ cpc' = "scan"
    /\ ctodo' = {j \in Jobs : Exists(j)}
    /\ UNCHANGED <<disk, stores, elapsed, history, workerVars, req, cjob, ckeys>>

\* A fault to test RetentionSparesRuns with: the status is not looked at.
FaultyPurgeable(j) == Exists(j) /\ Deadline(file[j]) \in elapsed[j]

Purgeable(j) ==
    /\ Exists(j)
    /\ file[j].st \in Terminal
    /\ Deadline(file[j]) \in elapsed[j]

\* Skips a job that is unreadable, not terminal or not due.
PassExamines(j) ==
    /\ cpc = "scan"
    /\ j \in ctodo
    /\ ctodo' = ctodo \ {j}
    /\ IF Purgeable(j)
       THEN cpc' = "objects" /\ cjob' = j /\ ckeys' = file[j].keys
       ELSE UNCHANGED <<cpc, cjob, ckeys>>
    /\ UNCHANGED <<disk, stores, elapsed, history, workerVars, req>>

\* In the order of the recorded keys, the snapshot first.
PassDeletesObject(k) ==
    /\ cpc = "objects"
    /\ k \in ckeys
    /\ k = "artifacts" => "snapshot" \notin ckeys
    /\ ckeys' = ckeys \ {k}
    /\ objects' = [objects EXCEPT ![cjob] = @ \ {k}]
    /\ UNCHANGED <<disk, row, elapsed, history, workerVars, req, cpc, ctodo, cjob>>

PassPurgesRow ==
    /\ cpc = "objects"
    /\ ckeys = {}
    /\ row' = [row EXCEPT ![cjob] = "none"]
    /\ cpc' = "tree"
    /\ UNCHANGED <<disk, objects, elapsed, history, workerVars, req, ctodo, cjob, ckeys>>

\* _remove_tree, taken as one step.
PassRemovesTree ==
    /\ cpc = "tree"
    /\ file'   = [file EXCEPT ![cjob] = NoStatus]
    /\ tmp'    = [tmp EXCEPT ![cjob] = NoStatus]
    /\ marker' = [marker EXCEPT ![cjob] = FALSE]
    /\ cpc' = "scan"
    /\ UNCHANGED <<stores, elapsed, history, workerVars, req, ctodo, cjob, ckeys>>

PassEnds ==
    /\ cpc = "scan"
    /\ ctodo = {}
    /\ cpc' = "idle"
    /\ UNCHANGED <<disk, stores, elapsed, history, workerVars, req, ctodo, cjob, ckeys>>

\* The store or the database raises, or the process dies: the exception ends
\* the whole pass, and the jobs after this one wait for the next.
PassAborts ==
    /\ cpc # "idle"
    /\ cpc' = "idle"
    /\ ctodo' = {}
    /\ ckeys' = {}
    /\ UNCHANGED <<disk, stores, elapsed, history, workerVars, req, cjob>>

PassStep ==
    \/ PassBegins
    \/ \E j \in Jobs : PassExamines(j)
    \/ \E k \in ObjectKeys : PassDeletesObject(k)
    \/ PassPurgesRow
    \/ PassRemovesTree
    \/ PassEnds

-----------------------------------------------------------------------------
(* The clock passes a deadline.  The delay of a deletion starts with it.    *)

RetentionElapses(j) ==
    /\ Exists(j)
    /\ elapsed' = [elapsed EXCEPT ![j] = @ \cup {"retention"}]
    /\ UNCHANGED <<disk, stores, history, workerVars, req, cleanerVars>>

DeleteDelayElapses(j) ==
    /\ file[j].del
    /\ elapsed' = [elapsed EXCEPT ![j] = @ \cup {"delete_delay"}]
    /\ UNCHANGED <<disk, stores, history, workerVars, req, cleanerVars>>

ClockStep(j) == RetentionElapses(j) \/ DeleteDelayElapses(j)

-----------------------------------------------------------------------------
Next ==
    \/ \E r \in Requests : RequestStep(r)
    \/ \E r \in Submitters, j \in Jobs : SubmitCreates(r, j)
    \/ \E r \in Clients, kind \in Kinds, j \in Jobs : ClientAsks(r, kind, j)
    \/ \E j \in Jobs : WorkerStep(j) \/ WorkerCrashes(j) \/ ClockStep(j)
    \/ PassStep
    \/ PassAborts

Spec == Init /\ [][Next]_vars

-----------------------------------------------------------------------------
(* Properties.                                                              *)

\* Every variable stays in its type: the values the processes exchange
\* through status.json, status.tmp and their own copies are statuses.
TypeOK ==
    /\ file \in [Jobs -> Status]
    /\ tmp \in [Jobs -> Status]
    /\ marker \in [Jobs -> BOOLEAN]
    /\ row \in [Jobs -> Active \cup Terminal \cup {"none"}]
    /\ objects \in [Jobs -> SUBSET ObjectKeys]
    /\ elapsed \in [Jobs -> SUBSET {"retention", "delete_delay"}]
    /\ wpc \in [Jobs -> Locations]
    /\ wcopy \in [Jobs -> Status]
    /\ wgoal \in [Jobs -> Active \cup Terminal \cup {"none"}]
    /\ wkeys \in [Jobs -> SUBSET ObjectKeys]
    /\ req \in [Requests -> RequestType]
    /\ cpc \in {"idle", "scan", "objects", "tree"}
    /\ ctodo \subseteq Jobs
    /\ cjob \in Jobs
    /\ ckeys \subseteq ObjectKeys
    /\ raced \in [Jobs -> BOOLEAN]
    /\ early \in [Jobs -> BOOLEAN]

\* The run of j has come to the write of its final status, or is over.
Finishing(j) == wpc[j] \in Ended \/ (wpc[j] \in Writing /\ wgoal[j] \in Terminal)

\* purge_expired never takes a job apart, and never removes its directory,
\* while the run of the job has a stage before it: retention looks only at the
\* status, and the status a run leaves behind is what protects its files.
RetentionSparesRuns ==
    /\ cpc \in {"objects", "tree"} => Finishing(cjob)
    /\ \A j \in Jobs : wpc[j] # "absent" /\ ~Exists(j) => Finishing(j)

\* However often a pass of purge_expired is interrupted, a job directory goes
\* after the database row of the job: no row is left without its directory.
RowGoesBeforeTree ==
    \A j \in Jobs : wpc[j] # "absent" /\ ~Exists(j) => row[j] = "none"

\* A run that is over, and was not killed, left a terminal status, and if
\* it returned the database row agrees with it, unless it published a status
\* while a cancel or delete request was between reading the status and
\* finishing: the lost update of request_cancel.
RunSettlesUnlessRaced ==
    \A j \in Jobs : wpc[j] \in {"done", "raised"} /\ Exists(j) /\ ~raced[j] =>
        /\ file[j].st \in Terminal
        /\ wpc[j] = "done" => row[j] \in {file[j].st, "none"}

\* A cancel request that has left its marker before the run decides on its
\* outcome keeps that run from ever recording a result, whatever the request
\* and the run do to each other's status.
CancelIsHonoured ==
    \A j \in Jobs : early[j] => file[j].st \notin {"completed", "manual_review"}

\* The object keys recorded in a completed job name everything the run put in
\* the store, the snapshot of an earlier phase included, so that removing the
\* directory leaves no object behind that nothing refers to.
NoOrphanObjects ==
    [][\A j \in Jobs :
         /\ Exists(j) /\ ~Exists(j)'
         /\ file[j].st \in {"completed", "manual_review"}
         /\ ~raced[j]
         => objects[j] = {}]_vars

\* What a client sees of a job through GET /comparisons/{job_id} follows the
\* promise: forward through the phases, settled for good, then purged, unless
\* two processes wrote the status at the same time.
Promise == INSTANCE JobPromise WITH
    phase <- [j \in Jobs |-> IF Exists(j) THEN file[j].st
                             ELSE IF wpc[j] = "absent" THEN "none" ELSE "purged"],
    void  <- raced

KeepsPromise == Promise!Spec

\* A run that returned left a terminal status, whatever requests came in:
\* what the cancellation test asserts of a cancelled job.
RunSettlesJob ==
    \A j \in Jobs : wpc[j] = "done" /\ Exists(j) => file[j].st \in Terminal

-----------------------------------------------------------------------------
(* Fairness: requests, worker and retention process keep running; the store *)
(* and the database do not fail a pass for ever; deadlines come.            *)

Fairness ==
    /\ \A r \in Requests : WF_vars(RequestStep(r))
    /\ \A j \in Jobs : WF_vars(WorkerStep(j)) /\ WF_vars(ClockStep(j))
    /\ WF_vars(PassBegins) /\ WF_vars(PassEnds)
    /\ \A j \in Jobs : SF_vars(PassExamines(j))
    /\ \A k \in ObjectKeys : SF_vars(PassDeletesObject(k))
    /\ SF_vars(PassPurgesRow)
    /\ SF_vars(PassRemovesTree)

FairSpec == Spec /\ Fairness

\* Every job the queue has taken and no worker crash hits is settled and in
\* the end purged, however often store or database interrupt a pass, as long
\* as nobody cancels (a cancel request may bring it back to a status that no
\* process leaves again).
EventuallyPurged ==
    \A j \in Jobs : (wpc[j] = "waiting") ~>
        (wpc[j] = "crashed" \/ ~Exists(j))

=============================================================================
