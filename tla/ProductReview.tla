----------------------------- MODULE ProductReview -----------------------------
(***************************************************************************)
(* The review rounds of one product-normalization job: the runs and reruns *)
(* of ProductWorkflowService (product_workflow/service.py), started by the *)
(* worker entry points of worker.py, and the HTTP handlers of api.py that  *)
(* decide reviews and ask for revisions.                                   *)
(*                                                                         *)
(* A status write whose payload is read in the same expression is one step *)
(* here (module JobLifecycle opens that window); a payload read earlier in *)
(* a handler and written later is two. An error that a handler does not    *)
(* catch leaves the handler where it is, as the death of its process does. *)
(***************************************************************************)
EXTENDS Naturals, FiniteSets

CONSTANTS Workers,      \* processes that take jobs from the task queue
          Clients,      \* API threads that serve reviewers
          Rows,         \* product rows whose category is ambiguous
          Categories,   \* platform categories
          Candidates,   \* Candidates[r]: the categories suggested for row r
          Settled,      \* the categories of all other rows
          Asking,       \* categories with a header that needs a reviewer
          MaxRevision,  \* bound: revisions of the job
          MaxQueued     \* bound: revisions waiting in the queue

ASSUME CandidatesAssumption == Candidates \in [Rows -> SUBSET Categories]
ASSUME CategoriesAssumption == Settled \subseteq Categories /\ Asking \subseteq Categories
\* The model writes the choice of a category as the category.
ASSUME NamesAssumption ==
    {"none", "pending", "confirm_mapping", "reject"} \cap Categories = {}
ASSUME WorkersAssumption == "nobody" \notin Workers
ASSUME BoundsAssumption == MaxRevision \in Nat \ {0} /\ MaxQueued \in Nat

VARIABLES
    database,  \* a DatabaseRepository is configured
    status,    \* what status.json holds
    marker,    \* the file cancel.requested exists
    flow,      \* what product-workflow.json holds
    rows,      \* rows[n]: the review items of revision n in the database
    lastRow,   \* the number of the newest revision in the database
    frozen,    \* frozen[n]: the schemas in product-result-rN.json
    lock,      \* the directory .revision.lock: who made it, if it is old
    queue,     \* runs in the task queue, by kind
    run,       \* run[w]: the run worker w executes
    req,       \* req[c]: the request thread c serves
    history    \* what went wrong so far (HistoryType)

vars == <<database, status, marker, flow, rows, lastRow, frozen, lock, queue,
          run, req, history>>

-----------------------------------------------------------------------------
(* Questions, decisions and what the normalizer makes of them.              *)

Revisions == 1..MaxRevision

\* review_key: "row:N" for a category, "category:C:column:N" for a header.
Questions == ({"row"} \X Rows) \cup ({"column"} \X Asking)

\* A thread that serves no decision.
NoQuestion == <<"none", "none">>

\* keep_extra closes a question as confirm_mapping does.
Offered(q) == {"reject"} \cup (IF q[1] = "row" THEN Candidates[q[2]]
                               ELSE {"confirm_mapping"})

Decisions == Categories \cup {"confirm_mapping", "reject"}

\* The reviews of one revision: "none" is a question it does not ask.
Reviews   == [Questions -> Decisions \cup {"none", "pending"}]
NoReviews == [q \in Questions |-> "none"]

AllResolved(rv) == \A q \in Questions : rv[q] # "pending"
Rejected(rv)    == \E q \in Questions : rv[q] = "reject"

\* Rows left ambiguous by the category overrides taken from rv.
OpenRows(rv) == {r \in Rows : rv[<<"row", r>>] \in {"none", "pending"}}

Grouped(rv) == Settled \cup {rv[<<"row", r>>] : r \in Rows \ OpenRows(rv)}

\* The categories whose schemas a normalization applying rv fetches.
Needed(rv) == Grouped(rv) \cup UNION {Candidates[r] : r \in OpenRows(rv)}

\* The review items a normalization applying rv produces.
AskedBy(rv) ==
    [q \in Questions |->
        IF \/ q[1] = "row" /\ q[2] \in OpenRows(rv)
           \/ q[1] = "column" /\ q[2] \in Grouped(rv) /\ rv[q] = "none"
        THEN "pending" ELSE "none"]

-----------------------------------------------------------------------------
(* State.                                                                   *)

Terminal == {"completed", "failed", "cancelled", "manual_review"}
Statuses == Terminal \cup {"queued", "validating", "catalog_resolving",
                           "rendering", "review_resolved", "revision_queued"}

StatusType  == [st : Statuses, cancel : BOOLEAN, del : BOOLEAN,
                rev : 0..MaxRevision]
FlowType    == [rev : 0..MaxRevision, rv : Reviews]
FrozenType  == [made : BOOLEAN, schemas : SUBSET Categories]
HistoryType == [early : BOOLEAN,   \* decided before the run of the revision ended
                stolen : BOOLEAN,  \* the lock of a live run was removed
                raced : BOOLEAN,   \* a decision was written over another write
                stale : BOOLEAN,   \* a handler wrote a status back over another
                crashed : BOOLEAN, \* a process died, or a request broke off
                reopened : BOOLEAN,\* a decision changed a job that had ended
                revived : BOOLEAN, \* a cancellation or a deletion did what stale says
                unfrozen : BOOLEAN]\* a run failed to write its frozen result

Disturbances == {"early", "stolen", "raced", "stale", "crashed", "reopened", "revived"}

\* Inside: the run is between its first and its last status.
Inside == {"start", "inspect", "normalize", "save", "record", "freeze",
           "render", "finish", "publish"}

RunType == [pc : Inside \cup {"idle", "read", "lock", "steal", "relock", "release",
                              "abandon", "refuse"},
            kind : {"initial", "revision"},
            rv : Reviews,                  \* the decisions it applies
            parent : 0..MaxRevision,
            schemas : SUBSET Categories,   \* what its catalog can answer
            rev : 0..MaxRevision,          \* the revision it has made
            doomed : BOOLEAN]              \* cancelled before it started

IdleRun == [pc |-> "idle", kind |-> "initial", rv |-> NoReviews, parent |-> 0,
            schemas |-> {}, rev |-> 0, doomed |-> FALSE]

NoStatus == [st |-> "queued", cancel |-> FALSE, del |-> FALSE, rev |-> 0]
NoFlow   == [rev |-> 0, rv |-> NoReviews]

ReqType == [pc : {"idle", "decide", "write", "settle", "queue", "enqueue",
                  "mark", "cancel", "delete"},
            q : Questions \cup {NoQuestion}, d : Decisions,
            flow : FlowType, status : StatusType]

IdleReq == [pc |-> "idle", q |-> NoQuestion, d |-> "reject",
            flow |-> NoFlow, status |-> NoStatus]

LockType == [by : Workers \cup {"nobody"}, held : BOOLEAN, old : BOOLEAN]
NoLock   == [by |-> "nobody", held |-> FALSE, old |-> FALSE]

Init ==
    /\ database \in BOOLEAN
    /\ status = NoStatus
    /\ marker = FALSE
    /\ flow = NoFlow
    /\ rows = [n \in Revisions |-> NoReviews]
    /\ lastRow = 0
    /\ frozen = [n \in Revisions |-> [made |-> FALSE, schemas |-> {}]]
    /\ lock = NoLock
    /\ queue = [initial |-> 1, revision |-> 0]
    /\ run = [w \in Workers |-> IdleRun]
    /\ req = [c \in Clients |-> IdleReq]
    /\ history = [early |-> FALSE, stolen |-> FALSE, raced |-> FALSE,
                  stale |-> FALSE, crashed |-> FALSE, reopened |-> FALSE,
                  revived |-> FALSE, unfrozen |-> FALSE]

Note(flag, happened) == history' = [history EXCEPT ![flag] = @ \/ happened]

-----------------------------------------------------------------------------
(* Runs.                                                                    *)

Go(w, pc) == run' = [run EXCEPT ![w].pc = pc]

\* A fault to test TypeOK with: a step that no action leaves.
FaultyLastStep(w) == IF run[w].kind = "revision" THEN "unlock" ELSE "idle"

\* rerun_after_reviews removes its lock whatever the run did.
LastStep(w) == IF run[w].kind = "revision" THEN "release" ELSE "idle"

LeaveRun(w) == run' = [run EXCEPT ![w] = [IdleRun EXCEPT !.pc = LastStep(w),
                                                        !.kind = run[w].kind]]

\* run ends, with the status st.
EndRun(w, st) == LeaveRun(w) /\ status' = [status EXCEPT !.st = st]

\* rerun_after_reviews_safe turns an error before the run into a failed job.
Refuse(w) ==
    /\ status' = [status EXCEPT !.st = "failed"]
    /\ run' = [run EXCEPT ![w] = IdleRun]

\* run_product_job and run_product_revision.
Dequeue(w, kind) ==
    /\ run[w].pc = "idle" /\ queue[kind] > 0
    /\ queue' = [queue EXCEPT ![kind] = @ - 1]
    /\ run' = [run EXCEPT ![w] =
                  IF kind = "initial"
                  THEN [IdleRun EXCEPT !.pc = "start", !.schemas = Categories]
                  ELSE [IdleRun EXCEPT !.pc = "read", !.kind = "revision"]]
    /\ UNCHANGED <<database, status, marker, flow, rows, lastRow, frozen, lock,
                   req, history>>

\* What rerun_after_reviews demands of product-workflow.json and of the frozen
\* result of its current revision.
Applicable(f) == /\ f.rev > 0 /\ frozen[f.rev].made
                 /\ AllResolved(f.rv) /\ ~Rejected(f.rv)

\* The decisions applied are those of the current revision only.
ReadReviews(w) ==
    /\ run[w].pc = "read"
    /\ \/ /\ Applicable(flow)
          /\ run' = [run EXCEPT ![w].pc = "lock",
                                ![w].rv = flow.rv,
                                ![w].parent = flow.rev,
                                ![w].schemas = frozen[flow.rev].schemas]
          /\ UNCHANGED status
       \/ ~Applicable(flow) /\ Refuse(w)
    /\ UNCHANGED <<database, marker, flow, rows, lastRow, frozen, lock, queue,
                   req, history>>

\* A fault to test OneRunAtATime with: mkdir accepts a directory that exists.
FaultyLockFree(w) == TRUE

\* mkdir succeeds.
LockFree(w) == ~lock.held

\* mkdir of the lock directory; a directory that is too old is to be replaced.
TakeLock(w) ==
    /\ run[w].pc = "lock"
    /\ \/ /\ LockFree(w)
          /\ lock' = [by |-> w, held |-> TRUE, old |-> FALSE]
          /\ Go(w, "start") /\ UNCHANGED status
       \/ ~LockFree(w) /\ lock.old /\ Go(w, "steal") /\ UNCHANGED <<lock, status>>
       \/ ~LockFree(w) /\ ~lock.old /\ Refuse(w) /\ UNCHANGED lock
    /\ UNCHANGED <<database, marker, flow, rows, lastRow, frozen, queue, req, history>>

LockHolderAlive == lock.by # "nobody" /\ run[lock.by].pc \in Inside

\* rmdir of the old lock, as another worker may have renewed it meanwhile.
DropStaleLock(w) ==
    /\ run[w].pc = "steal"
    /\ lock' = NoLock /\ Go(w, "relock")
    /\ Note("stolen", LockHolderAlive)
    /\ UNCHANGED <<database, status, marker, flow, rows, lastRow, frozen, queue, req>>

\* The second mkdir; FileExistsError is not caught there.
RemakeLock(w) ==
    /\ run[w].pc = "relock"
    /\ \/ /\ LockFree(w)
          /\ lock' = [by |-> w, held |-> TRUE, old |-> FALSE]
          /\ Go(w, "start") /\ UNCHANGED status
       \/ ~LockFree(w) /\ Refuse(w) /\ UNCHANGED lock
    /\ UNCHANGED <<database, marker, flow, rows, lastRow, frozen, queue, req, history>>

\* processing_timeout_seconds + 60 have passed since the lock was made.
LockAges ==
    /\ lock.held /\ ~lock.old
    /\ lock' = [lock EXCEPT !.old = TRUE]
    /\ UNCHANGED <<database, status, marker, flow, rows, lastRow, frozen, queue,
                   run, req, history>>

\* rmdir in the finally of rerun_after_reviews; an error from the run goes on.
ReleaseLock(w) ==
    /\ run[w].pc \in {"release", "abandon"}
    /\ lock' = NoLock
    /\ \/ run[w].pc = "release" /\ run' = [run EXCEPT ![w] = IdleRun]
       \/ run[w].pc = "abandon" /\ Go(w, "refuse")
    /\ Note("stolen", lock.by # w /\ LockHolderAlive)
    /\ UNCHANGED <<database, status, marker, flow, rows, lastRow, frozen, queue, req>>

\* run writes validating over whatever the status is.
StartRun(w) ==
    /\ run[w].pc = "start"
    /\ status' = [status EXCEPT !.st = "validating"]
    /\ run' = [run EXCEPT ![w].pc = "inspect", ![w].doomed = marker]
    /\ UNCHANGED <<database, marker, flow, rows, lastRow, frozen, lock, queue,
                   req, history>>

\* A fault to test CancelledRunMakesNoRevision with: only the last checkpoint
\* looks for the marker.
FaultyCancelSeen(w) == marker /\ run[w].pc = "finish"

\* _check_cancelled.
CancelSeen(w) == marker

\* checkpoint: _check_cancelled, then the timeout, which is one of the errors
\* of FailRun. JobCancelled ends the run.
CancelRun(w) ==
    /\ run[w].pc \in {"inspect", "normalize", "render", "finish"}
    /\ CancelSeen(w)
    /\ EndRun(w, "cancelled")
    /\ UNCHANGED <<database, marker, flow, rows, lastRow, frozen, lock, queue,
                   req, history>>

\* A workbook, a catalog, a timeout, a renderer, the database, the object store
\* or a write that fails, anywhere in run's try. The last status may be on disk
\* already when the database refuses it.
FailRun(w) ==
    /\ run[w].pc \in Inside \ {"start"}
    /\ \E n \in {status.rev, run[w].rev} :
          /\ n # status.rev => run[w].pc = "publish"
          /\ status' = [status EXCEPT !.st = "failed", !.rev = n]
    /\ LeaveRun(w)
    /\ Note("unfrozen", run[w].pc = "freeze")
    /\ UNCHANGED <<database, marker, flow, rows, lastRow, frozen, lock, queue, req>>

\* The first status write comes before the try: its error leaves the lock to
\* rerun_after_reviews and the status to rerun_after_reviews_safe. The error of
\* a first run is caught nowhere, as if the worker died.
FailStart(w) ==
    /\ run[w].pc = "start" /\ run[w].kind = "revision"
    /\ status' \in {status, [status EXCEPT !.st = "validating"]}
    /\ Go(w, "abandon")
    /\ UNCHANGED <<database, marker, flow, rows, lastRow, frozen, lock, queue,
                   req, history>>

RefuseRun(w) ==
    /\ run[w].pc = "refuse" /\ Refuse(w)
    /\ UNCHANGED <<database, marker, flow, rows, lastRow, frozen, lock, queue,
                   req, history>>

Inspect(w) ==
    /\ run[w].pc = "inspect" /\ ~CancelSeen(w)
    /\ status' = [status EXCEPT !.st = "catalog_resolving"]
    /\ Go(w, "normalize")
    /\ UNCHANGED <<database, marker, flow, rows, lastRow, frozen, lock, queue,
                   req, history>>

\* normalize_product_workbook: a category missing from the catalog is an error.
Normalize(w) ==
    /\ run[w].pc = "normalize" /\ ~CancelSeen(w)
    /\ Needed(run[w].rv) \subseteq run[w].schemas
    /\ Go(w, "save")
    /\ UNCHANGED <<database, status, marker, flow, rows, lastRow, frozen, lock,
                   queue, req, history>>

\* The revision that follows: the newest row's, or the file's, plus one.
NextNumber == (IF database THEN lastRow ELSE flow.rev) + 1

\* create_product_revision: the revision and its reviews in one transaction.
SaveRevision(w) ==
    /\ run[w].pc = "save" /\ NextNumber \in Revisions
    /\ IF database
       THEN /\ lastRow' = NextNumber
            /\ rows' = [rows EXCEPT ![NextNumber] = AskedBy(run[w].rv)]
       ELSE UNCHANGED <<lastRow, rows>>
    /\ run' = [run EXCEPT ![w].pc = "record", ![w].rev = NextNumber]
    /\ UNCHANGED <<database, status, marker, flow, frozen, lock, queue, req, history>>

\* product-workflow.json now holds this revision and its pending reviews.
RecordRevision(w) ==
    /\ run[w].pc = "record"
    /\ flow' = [rev |-> run[w].rev, rv |-> AskedBy(run[w].rv)]
    /\ Go(w, "freeze")
    /\ UNCHANGED <<database, status, marker, rows, lastRow, frozen, lock, queue,
                   req, history>>

\* A fault to test CurrentRevisionIsFrozen with: one file for all revisions.
FaultyFrozenNumber(w) == 1

FrozenNumber(w) == run[w].rev

\* product-result-rN.json, for the next revision to rerun from.
FreezeResult(w) ==
    /\ run[w].pc = "freeze"
    /\ frozen' = [frozen EXCEPT ![FrozenNumber(w)] =
                     [made |-> TRUE, schemas |-> Needed(run[w].rv)]]
    /\ Go(w, "render")
    /\ UNCHANGED <<database, status, marker, flow, rows, lastRow, lock, queue,
                   req, history>>

\* A report-only workbook is not rendered.
Render(w) ==
    /\ run[w].pc = "render"
    /\ \/ ~CancelSeen(w) /\ status' = [status EXCEPT !.st = "rendering"]
       \/ UNCHANGED status
    /\ Go(w, "finish")
    /\ UNCHANGED <<database, marker, flow, rows, lastRow, frozen, lock, queue,
                   req, history>>

\* A fault to test StatusMatchesReviews with: open questions are ignored.
FaultyOutcome(w) == "completed"

\* requires_manual_review: a question is open.
Outcome(w) == IF AskedBy(run[w].rv) = NoReviews THEN "completed" ELSE "manual_review"

\* _upload_artifacts and the last checkpoint.
Upload(w) ==
    /\ run[w].pc = "finish" /\ ~CancelSeen(w)
    /\ Go(w, "publish")
    /\ UNCHANGED <<database, status, marker, flow, rows, lastRow, frozen, lock,
                   queue, req, history>>

PublishOutcome(w) ==
    /\ run[w].pc = "publish"
    /\ status' = [status EXCEPT !.st = Outcome(w), !.rev = run[w].rev]
    /\ LeaveRun(w)
    /\ UNCHANGED <<database, marker, flow, rows, lastRow, frozen, lock, queue,
                   req, history>>

\* The worker process dies; its files stay as they are.
Crash(w) ==
    /\ run[w].pc # "idle"
    /\ run' = [run EXCEPT ![w] = IdleRun]
    /\ Note("crashed", TRUE)
    /\ UNCHANGED <<database, status, marker, flow, rows, lastRow, frozen, lock,
                   queue, req>>

-----------------------------------------------------------------------------
(* Requests.                                                                *)

Idle(c) == req[c].pc = "idle"
Answer(c) == req' = [req EXCEPT ![c] = IdleReq]

\* _authorize_job: a deleted job is not found.
Authorized == ~status.del

\* decide_review reads the workflow file; the file's own status is checked in
\* the configuration without a database only.
OpenReview(c, q, d) ==
    /\ Idle(c) /\ Authorized /\ flow.rev > 0
    /\ flow.rv[q] # "none" /\ d \in Offered(q)
    /\ ~database => flow.rv[q] = "pending"
    /\ req' = [req EXCEPT ![c] = [IdleReq EXCEPT
                  !.pc = IF database THEN "decide" ELSE "write",
                  !.q = q, !.d = d, !.flow = flow]]
    /\ history' = [history EXCEPT
          !.early = @ \/ \E w \in Workers : run[w].pc \in Inside,
          !.reopened = @ \/ status.st \in {"failed", "cancelled"}]
    /\ UNCHANGED <<database, status, marker, flow, rows, lastRow, frozen, lock,
                   queue, run>>

\* A fault to test DecidedOnce and AppliedDecisionsWereRecorded with: the row is
\* not checked.
FaultyUndecided(c) == TRUE

Undecided(c) == rows[req[c].flow.rev][req[c].q] = "pending"

\* decide_product_review: one transaction on the review's row.
DecideRow(c) ==
    /\ req[c].pc = "decide"
    /\ \/ /\ Undecided(c)
          /\ rows' = [rows EXCEPT ![req[c].flow.rev][req[c].q] = req[c].d]
          /\ req' = [req EXCEPT ![c].pc = "write"]
       \/ ~Undecided(c) /\ Answer(c) /\ UNCHANGED rows
    /\ UNCHANGED <<database, status, marker, flow, lastRow, frozen, lock, queue,
                   run, history>>

\* The whole file is written from the copy read at the start.
WriteReviews(c) ==
    /\ req[c].pc = "write"
    /\ flow' = [req[c].flow EXCEPT !.rv[req[c].q] = req[c].d]
    /\ IF AllResolved(flow'.rv) THEN req' = [req EXCEPT ![c].pc = "settle"]
                                ELSE Answer(c)
    /\ Note("raced", flow # req[c].flow)
    /\ UNCHANGED <<database, status, marker, rows, lastRow, frozen, lock, queue, run>>

SettleReviews(c) ==
    /\ req[c].pc = "settle"
    /\ status' = [status EXCEPT !.st = "review_resolved"]
    /\ Answer(c)
    /\ Note("early", \E w \in Workers : run[w].pc \in Inside)
    /\ UNCHANGED <<database, marker, flow, rows, lastRow, frozen, lock, queue, run>>

\* list_reviews: the newest revision in the database, or the file.
Listed == IF database THEN rows[lastRow] ELSE flow.rv

\* POST /revisions: the status is read once, and written back below.
AskRevision(c) ==
    /\ Idle(c) /\ Authorized /\ status.st = "review_resolved"
    /\ database => lastRow > 0
    /\ AllResolved(Listed) /\ ~Rejected(Listed)
    /\ req' = [req EXCEPT ![c] = [IdleReq EXCEPT !.pc = "queue", !.status = status]]
    /\ UNCHANGED <<database, status, marker, flow, rows, lastRow, frozen, lock,
                   queue, run, history>>

MarkQueued(c) ==
    /\ req[c].pc = "queue"
    /\ status' = [req[c].status EXCEPT !.st = "revision_queued"]
    /\ req' = [req EXCEPT ![c].pc = "enqueue"]
    /\ Note("stale", status # req[c].status)
    /\ UNCHANGED <<database, marker, flow, rows, lastRow, frozen, lock, queue, run>>

\* A fault to test RevisionIsServed with: the job is taken for one already queued.
FaultyQueued(q) == q

Queued(q) == [q EXCEPT !.revision = @ + 1]

\* enqueue_product_revision, or the background task without a queue.
Enqueue(c) ==
    /\ req[c].pc = "enqueue" /\ queue.revision < MaxQueued
    /\ queue' = Queued(queue)
    /\ Answer(c)
    /\ UNCHANGED <<database, status, marker, flow, rows, lastRow, frozen, lock,
                   run, history>>

\* The queue is unreachable: the status read first is written back.
EnqueueFails(c) ==
    /\ req[c].pc = "enqueue"
    /\ status' = req[c].status
    /\ Answer(c)
    /\ Note("stale", status # [req[c].status EXCEPT !.st = "revision_queued"])
    /\ UNCHANGED <<database, marker, flow, rows, lastRow, frozen, lock, queue, run>>

\* request_cancel reads the status, writes the marker, and then the status with
\* the flag. review_resolved and revision_queued are not terminal.
ReadForCancel(c) ==
    /\ Idle(c) /\ Authorized /\ status.st \notin Terminal
    /\ req' = [req EXCEPT ![c] = [IdleReq EXCEPT !.pc = "mark", !.status = status]]
    /\ UNCHANGED <<database, status, marker, flow, rows, lastRow, frozen, lock,
                   queue, run, history>>

WriteMarker(c) ==
    /\ req[c].pc = "mark"
    /\ marker' = TRUE
    /\ req' = [req EXCEPT ![c].pc = "cancel"]
    /\ UNCHANGED <<database, status, flow, rows, lastRow, frozen, lock, queue,
                   run, history>>

WriteCancel(c) ==
    /\ req[c].pc = "cancel"
    /\ status' = [req[c].status EXCEPT !.cancel = TRUE]
    /\ Answer(c)
    /\ Note("revived", status # req[c].status)
    /\ UNCHANGED <<database, marker, flow, rows, lastRow, frozen, lock, queue, run>>

\* soft_delete reads the status, and writes it back with the flag.
ReadForDelete(c) ==
    /\ Idle(c) /\ Authorized /\ status.st \in Terminal
    /\ req' = [req EXCEPT ![c] = [IdleReq EXCEPT !.pc = "delete", !.status = status]]
    /\ UNCHANGED <<database, status, marker, flow, rows, lastRow, frozen, lock,
                   queue, run, history>>

WriteDelete(c) ==
    /\ req[c].pc = "delete"
    /\ status' = [req[c].status EXCEPT !.del = TRUE]
    /\ Answer(c)
    /\ Note("revived", status # req[c].status)
    /\ UNCHANGED <<database, marker, flow, rows, lastRow, frozen, lock, queue, run>>

\* The API process dies, or a write of the request fails: what it has written
\* so far stays.
BreakOff(c) ==
    /\ ~Idle(c) /\ Answer(c)
    /\ Note("crashed", TRUE)
    /\ UNCHANGED <<database, status, marker, flow, rows, lastRow, frozen, lock,
                   queue, run>>

-----------------------------------------------------------------------------
RunStep(w) ==
    \/ \E kind \in {"initial", "revision"} : Dequeue(w, kind)
    \/ ReadReviews(w) \/ TakeLock(w) \/ DropStaleLock(w) \/ RemakeLock(w)
    \/ ReleaseLock(w) \/ StartRun(w) \/ CancelRun(w) \/ FailRun(w)
    \/ FailStart(w) \/ RefuseRun(w)
    \/ Inspect(w) \/ Normalize(w) \/ SaveRevision(w) \/ RecordRevision(w)
    \/ FreezeResult(w) \/ Render(w) \/ Upload(w) \/ PublishOutcome(w)

ServeStep(c) ==
    \/ DecideRow(c) \/ WriteReviews(c) \/ SettleReviews(c)
    \/ MarkQueued(c) \/ Enqueue(c) \/ EnqueueFails(c)
    \/ WriteMarker(c) \/ WriteCancel(c) \/ WriteDelete(c)

Next ==
    \/ \E w \in Workers : RunStep(w) \/ Crash(w)
    \/ \E c \in Clients : \/ ServeStep(c) \/ AskRevision(c) \/ BreakOff(c)
                          \/ ReadForCancel(c) \/ ReadForDelete(c)
                          \/ \E q \in Questions : \E d \in Offered(q) : OpenReview(c, q, d)
    \/ LockAges

\* Workers and API threads go on with what they have started; nothing is
\* assumed of the reviewers' requests.
Spec == /\ Init /\ [][Next]_vars
        /\ \A w \in Workers : WF_vars(RunStep(w))
        /\ \A c \in Clients : WF_vars(ServeStep(c))

-----------------------------------------------------------------------------
(* Properties.                                                              *)

TypeOK ==
    /\ database \in BOOLEAN /\ marker \in BOOLEAN
    /\ status \in StatusType /\ flow \in FlowType
    /\ rows \in [Revisions -> Reviews] /\ lastRow \in 0..MaxRevision
    /\ frozen \in [Revisions -> FrozenType]
    /\ lock \in LockType
    /\ queue \in [{"initial", "revision"} -> Nat]
    /\ run \in [Workers -> RunType]
    /\ req \in [Clients -> ReqType]
    /\ history \in HistoryType

\* One run at a time works on the job, unless a review was decided before the
\* run that asked it had ended or the lock of a live run was removed as stale.
OneRunAtATime ==
    ~history.early /\ ~history.stolen =>
        \A v, w \in Workers : run[v].pc \in Inside /\ run[w].pc \in Inside => v = w

\* With a database, a revision applies exactly the decisions recorded there for
\* its parent, however the workflow file was raced over.
AppliedDecisionsWereRecorded ==
    database => \A w \in Workers :
        run[w].parent > 0 => run[w].rv = rows[run[w].parent]

\* Nobody got in another's way, and nobody died.
Undisturbed == \A flag \in Disturbances : ~history[flag]

\* The revision that the status announces has its frozen result. So has the one
\* that reviewers look at, unless a process died: or the run that made it is
\* about to write it, or failed to, and then the job says that it failed.
CurrentRevisionIsFrozen ==
    /\ status.rev > 0 => frozen[status.rev].made
    /\ flow.rev > 0 /\ ~history.crashed /\ ~frozen[flow.rev].made =>
          \/ \E w \in Workers : run[w].pc = "freeze" /\ run[w].rev = flow.rev
          \/ history.unfrozen /\ (Undisturbed => status.st = "failed")

\* A run that starts after the cancellation was requested makes no revision.
CancelledRunMakesNoRevision ==
    \A w \in Workers : run[w].doomed => run[w].pc \in {"inspect", "release", "idle"}

Quiet == /\ \A w \in Workers : run[w].pc = "idle"
         /\ \A c \in Clients : req[c].pc = "idle"
         /\ queue.initial = 0 /\ queue.revision = 0

\* Once nothing is under way, the status says what the reviews say, and no job
\* is left in a status only a run could take it out of: unless the job was
\* disturbed, by an old status written back over a newer one among others.
StatusMatchesReviews ==
    Quiet /\ Undisturbed =>
        /\ status.st \in Terminal \cup {"review_resolved"}
        /\ status.st = "completed" => flow.rv = NoReviews
        /\ status.st = "manual_review" => ~AllResolved(flow.rv)
        /\ status.st = "review_resolved" => AllResolved(flow.rv) /\ flow.rv # NoReviews
        /\ status.st \in {"completed", "manual_review", "review_resolved"} =>
               status.rev = flow.rev

\* A decision recorded in the database is never replaced by another.
DecidedOnce ==
    [][\A n \in Revisions : \A q \in Questions :
          rows[n][q] \in Decisions => rows'[n][q] = rows[n][q]]_vars

\* A queued revision leads to another status, unless a process dies or a
\* cancellation writes the old status back after the run.
RevisionIsServed ==
    status.st = "revision_queued" ~>
        status.st # "revision_queued" \/ history.crashed \/ history.revived

\* A rerun never asks its catalog for a category the parent's result lacks.
FrozenCatalogSuffices ==
    Undisturbed => \A w \in Workers :
        run[w].pc = "normalize" => Needed(run[w].rv) \subseteq run[w].schemas

=============================================================================
