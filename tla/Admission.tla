------------------------------ MODULE Admission ------------------------------
(***************************************************************************)
(* Admission of comparison jobs: POST /api/v1/comparisons in api.py down to*)
(* AuditService.create_or_get_job, create_job and _tenant_quota_lock in    *)
(* service.py, for the requests of one tenant.                             *)
(*                                                                         *)
(* The threads of all API replicas share one data volume.  An idempotency  *)
(* registry of files made with O_EXCL decides which job a key stands for;  *)
(* a directory made with mkdir is the lock under which a thread counts the *)
(* active jobs and creates its own.  The lock has no owner: whoever finds  *)
(* it older than 30 seconds removes it, and so does whoever releases it.   *)
(***************************************************************************)
EXTENDS Naturals, FiniteSets

CONSTANTS Threads,  \* API threads, of one or more replicas
          Jobs,     \* the job identifiers new_ulid will give: a bound
          Keys,     \* idempotency keys
          NoKey,    \* a request without one
          Prints,   \* fingerprints of request bodies
          Limit,    \* EXCEL_AUDITOR_MAX_ACTIVE_JOBS_PER_TENANT
          Faults,   \* what can go wrong: see FaultKinds
          Nobody

ASSUME ThreadsAssumption == IsFiniteSet(Threads) /\ Nobody \notin Threads
ASSUME AdmissionJobsAssumption == IsFiniteSet(Jobs) /\ Jobs # {}
ASSUME KeysAssumption == NoKey \notin Keys /\ Prints # {}
ASSUME LimitAssumption == Limit \in Nat

\* A live thread holds the lock for over 30 seconds; a replica dies; database,
\* disk or queue reject a call.
FaultKinds == {"stall", "death", "outage"}
ASSUME FaultsAssumption == Faults \subseteq FaultKinds

VARIABLES
    holder,    \* history: the thread that made the lock directory, or Nobody
    old,       \* the lock directory was made more than 30 seconds ago
    registry,  \* registry[k]: what the registry file of key k holds
    status,    \* status[j]: what a scan of the job directories sees of job j
    queued,    \* the jobs that were given to the queue
    used,      \* the job identifiers given so far
    th,        \* th[r]: the submission that thread r serves
    thefts,    \* history: how many locks of live threads others have removed
    readmitted,\* history: jobs that a review brought back among the active
    origin,    \* history: the key under which the directory of j was made
    promised   \* history: jobs that an answer 200 or 202 has named

lockVars == <<holder, old, thefts>>
jobVars  == <<status, queued, used, readmitted, origin>>
vars     == <<lockVars, registry, jobVars, th, promised>>

-----------------------------------------------------------------------------
Absent == [state |-> "absent"]
Empty  == [state |-> "empty"]

\* A fault to test TypeOK with: the record is written without the fingerprint.
FaultyRecord(print, job) == [state |-> "record", job |-> job]

Record(print, job) == [state |-> "record", print |-> print, job |-> job]

Registrations ==
    {Absent, Empty} \cup [state : {"record"}, print : Prints, job : Jobs]

SomeJobId == CHOOSE j \in Jobs : TRUE
SomePrint == CHOOSE p \in Prints : TRUE

Idle == [pc |-> "idle", key |-> NoKey, print |-> SomePrint, job |-> SomeJobId,
         replay |-> FALSE, admitted |-> FALSE]

\* Where a thread stands while it relies on holding the lock.
Inside == {"count", "mkdir", "write", "release"}

Submission ==
    [pc : {"idle", "open", "record", "lock", "stat", "steal", "enqueue"} \cup Inside,
     key : Keys \cup {NoKey}, print : Prints, job : Jobs,
     replay : BOOLEAN, admitted : BOOLEAN]

\* The jobs create_job counts: their status is none of the four terminal ones.
Active == {j \in Jobs : status[j] = "active"}

Init ==
    /\ holder = Nobody /\ old = FALSE /\ thefts = 0
    /\ registry = [k \in Keys |-> Absent]
    /\ status = [j \in Jobs |-> "none"]
    /\ queued = {} /\ used = {} /\ readmitted = {}
    /\ origin = [j \in Jobs |-> NoKey]
    /\ th = [r \in Threads |-> Idle]
    /\ promised = {}

-----------------------------------------------------------------------------
(* The idempotency registry: create_or_get_job.                             *)

Step(r, pc) == th' = [th EXCEPT ![r].pc = pc]

Refuse(r) == th' = [th EXCEPT ![r] = Idle] /\ UNCHANGED promised

Accept(r) ==
    /\ th' = [th EXCEPT ![r] = Idle]
    /\ promised' = promised \cup {th[r].job}

\* A submission arrives; new_ulid gives an identifier for the job.
Receive(r, k, p, j) ==
    /\ th[r] = Idle
    /\ j \notin used
    /\ used' = used \cup {j}
    /\ th' = [th EXCEPT ![r] = [Idle EXCEPT
                 !.pc = IF k = NoKey THEN "lock" ELSE "open",
                 !.key = k, !.print = p, !.job = j]]
    /\ UNCHANGED <<lockVars, registry, status, queued, readmitted, origin, promised>>

\* A fault to test OneJobPerKey with: the file is opened without O_EXCL, and
\* only one with a record counts as existing.
FaultyIsNew(k) == registry[k].state # "record"

IsNew(k) == registry[k] = Absent

\* os.open with O_EXCL makes an empty registry file ...
OpensNew(r) ==
    /\ th[r].pc = "open"
    /\ IsNew(th[r].key)
    /\ registry' = [registry EXCEPT ![th[r].key] = Empty]
    /\ Step(r, "record")
    /\ UNCHANGED <<lockVars, jobVars, promised>>

\* A fault to test AnswersTheSameRequest with: the fingerprint is not looked at.
FaultySameRequest(r, found) == found.state = "record"

SameRequest(r, found) == found.state = "record" /\ found.print = th[r].print

\* ... or fails, and the record of the first request is read: 422 when it is
\* not written yet, 409 when it is for another body.  The job directory that
\* the record names decides: its status is the answer (500 without a status
\* file), and one that is missing is made, under the same name.
OpensExisting(r) ==
    LET found == registry[th[r].key]
    IN  /\ th[r].pc = "open"
        /\ ~IsNew(th[r].key)
        /\ \/ /\ SameRequest(r, found) /\ status[found.job] = "none"
              /\ th' = [th EXCEPT ![r].pc = "lock", ![r].job = found.job,
                                  ![r].replay = TRUE]
              /\ UNCHANGED promised
           \/ /\ SameRequest(r, found) /\ status[found.job] \in {"active", "terminal"}
              /\ th' = [th EXCEPT ![r] = Idle]
              /\ promised' = promised \cup {found.job}
           \/ /\ SameRequest(r, found) => status[found.job] = "dir"
              /\ Refuse(r)
        /\ UNCHANGED <<lockVars, registry, jobVars>>

WritesRecord(r) ==
    /\ th[r].pc = "record"
    /\ registry' = [registry EXCEPT ![th[r].key] = Record(th[r].print, th[r].job)]
    /\ Step(r, "lock")
    /\ UNCHANGED <<lockVars, jobVars, promised>>

-----------------------------------------------------------------------------
(* The lock: _tenant_quota_lock.  Every way round the loop is one of its    *)
(* 200 attempts, and any of them may be the last: 429.                      *)

Retry(r) == (Step(r, "lock") /\ UNCHANGED promised) \/ Refuse(r)

\* A fault to test QuotaBounded with: the lock is made with exist_ok.
FaultyLockIsFree == TRUE

LockIsFree == holder = Nobody

MakesLock(r) ==
    /\ th[r].pc = "lock"
    /\ IF LockIsFree
       THEN holder' = r /\ old' = FALSE /\ Step(r, "count")
       ELSE UNCHANGED <<holder, old>> /\ Step(r, "stat")
    /\ UNCHANGED <<thefts, registry, jobVars, promised>>

\* lock.stat(), which fails when the lock is gone; a young lock is slept on.
LooksAtAge(r) ==
    /\ th[r].pc = "stat"
    /\ IF holder # Nobody /\ old
       THEN Step(r, "steal") /\ UNCHANGED promised
       ELSE Retry(r)
    /\ UNCHANGED <<lockVars, registry, jobVars>>

\* rmdir: it removes the lock directory that is there now, if any.
RemoveLock(r) ==
    /\ holder' = Nobody
    /\ old' = FALSE
    /\ thefts' = IF holder \in Threads \ {r} /\ th[holder].pc \in Inside
                 THEN thefts + 1 ELSE thefts

RemovesOldLock(r) ==
    /\ th[r].pc = "steal"
    /\ RemoveLock(r)
    /\ Retry(r)
    /\ UNCHANGED <<registry, jobVars>>

ReleasesLock(r) ==
    /\ th[r].pc = "release"
    /\ RemoveLock(r)
    /\ IF ~th[r].admitted THEN Refuse(r)
       ELSE IF th[r].replay THEN Accept(r) \/ ("outage" \in Faults /\ Refuse(r))
       ELSE Step(r, "enqueue") /\ UNCHANGED promised
    /\ UNCHANGED <<registry, jobVars>>

-----------------------------------------------------------------------------
(* The critical section of create_job.                                      *)

\* The scan of the status files, and 429 at the limit.
Counts(r) ==
    /\ th[r].pc = "count"
    /\ Step(r, IF Cardinality(Active) >= Limit THEN "release" ELSE "mkdir")
    /\ UNCHANGED <<lockVars, registry, jobVars, promised>>

\* directory.mkdir(exist_ok=False): 409 when it is there.
MakesDirectory(r) ==
    LET j == th[r].job
    IN  /\ th[r].pc = "mkdir"
        /\ IF status[j] = "none"
           THEN /\ status' = [status EXCEPT ![j] = "dir"]
                /\ origin' = [origin EXCEPT ![j] = th[r].key]
                /\ Step(r, "write")
           ELSE UNCHANGED <<status, origin>> /\ Step(r, "release")
        /\ UNCHANGED <<lockVars, registry, queued, used, readmitted, promised>>

WritesStatus(r) ==
    /\ th[r].pc = "write"
    /\ status' = [status EXCEPT ![th[r].job] = "active"]
    /\ th' = [th EXCEPT ![r].pc = "release", ![r].admitted = TRUE]
    /\ UNCHANGED <<lockVars, registry, queued, used, readmitted, origin, promised>>

\* The input files are written and the job is given to the queue: 202; or the
\* database, the disk or the queue fails: 5xx, and the active job stays.
Enqueues(r) ==
    /\ th[r].pc = "enqueue"
    /\ \/ queued' = queued \cup {th[r].job} /\ Accept(r)
       \/ "outage" \in Faults /\ queued' = queued /\ Refuse(r)
    /\ UNCHANGED <<lockVars, registry, status, used, readmitted, origin>>

\* The replica of the thread dies; its lock directory stays.
Dies(r) ==
    /\ "death" \in Faults
    /\ th[r].pc # "idle"
    /\ Refuse(r)
    /\ UNCHANGED <<lockVars, registry, jobVars>>

ThreadStep(r) ==
    \/ OpensNew(r)
    \/ OpensExisting(r)
    \/ WritesRecord(r)
    \/ MakesLock(r)
    \/ LooksAtAge(r)
    \/ RemovesOldLock(r)
    \/ ReleasesLock(r)
    \/ Counts(r)
    \/ MakesDirectory(r)
    \/ WritesStatus(r)
    \/ Enqueues(r)
    \/ Dies(r)

-----------------------------------------------------------------------------
(* The rest of the system.                                                  *)

\* Thirty seconds pass for the lock.
LockAges ==
    /\ holder # Nobody /\ ~old
    /\ "stall" \in Faults \/ th[holder].pc \notin Inside
    /\ old' = TRUE
    /\ UNCHANGED <<holder, thefts, registry, jobVars, th, promised>>

\* The run of a queued job settles it.
Settles(j) ==
    /\ j \in queued /\ status[j] = "active"
    /\ status' = [status EXCEPT ![j] = "terminal"]
    /\ UNCHANGED <<lockVars, registry, queued, used, readmitted, origin, th, promised>>

\* The last review of a job in manual review is decided: its status becomes
\* review_resolved, which counts as active, and nobody asks the quota.
Readmits(j) ==
    /\ status[j] = "terminal"
    /\ status' = [status EXCEPT ![j] = "active"]
    /\ readmitted' = readmitted \cup {j}
    /\ UNCHANGED <<lockVars, registry, queued, used, origin, th, promised>>

\* Retention removes the directory of a settled job, but no registry file.
Purges(j) ==
    /\ status[j] = "terminal"
    /\ status' = [status EXCEPT ![j] = "none"]
    /\ readmitted' = readmitted \ {j}
    /\ queued' = queued \ {j}
    /\ UNCHANGED <<lockVars, registry, used, origin, th, promised>>

Next ==
    \/ \E r \in Threads : ThreadStep(r)
    \/ \E r \in Threads, k \in Keys \cup {NoKey}, p \in Prints, j \in Jobs :
          Receive(r, k, p, j)
    \/ \E j \in Jobs : Settles(j) \/ Readmits(j) \/ Purges(j)
    \/ LockAges

Spec == Init /\ [][Next]_vars

-----------------------------------------------------------------------------
(* Properties.                                                              *)

\* Every variable stays in its type: a registry file is absent, empty or a whole
\* record, whichever thread opens, writes or reads it.
TypeOK ==
    /\ holder \in Threads \cup {Nobody}
    /\ old \in BOOLEAN
    /\ thefts \in Nat
    /\ registry \in [Keys -> Registrations]
    /\ status \in [Jobs -> {"none", "dir", "active", "terminal"}]
    /\ queued \subseteq Jobs /\ used \subseteq Jobs
    /\ readmitted \subseteq Jobs /\ promised \subseteq Jobs
    /\ origin \in [Jobs -> Keys \cup {NoKey}]
    /\ th \in [Threads -> Submission]

\* Every time the lock of a live thread is removed under it, at most one job
\* more than the limit can become active: the lock keeps count and creation
\* together, and a job that was counted late is never admitted.
QuotaBounded == Cardinality(Active \ readmitted) <= Limit + thefts

\* However requests with the same key meet, fail, die and are repeated, before
\* and after the job is purged, the key stands for one job directory.
OneJobPerKey ==
    \A i, j \in Jobs :
        /\ status[i] # "none" /\ status[j] # "none"
        /\ origin[i] = origin[j] /\ origin[i] # NoKey
        => i = j

\* A thread on its way to the job of a key works for the request body, and on
\* the job, that the registry holds for good.
AnswersTheSameRequest ==
    \A r \in Threads :
        th[r].pc \notin {"idle", "open", "record"} /\ th[r].key # NoKey
        => registry[th[r].key] = Record(th[r].print, th[r].job)

\* The limit on active jobs holds, whatever the concurrent creations: what
\* the quota test asserts.
QuotaHolds == Cardinality(Active \ readmitted) <= Limit

\* A job that is active because a client was told its name is in the hands of
\* the queue, or of the request that will give it to the queue.
PromisedJobsRun ==
    \A j \in promised :
        status[j] = "active" =>
            \/ j \in queued
            \/ \E r \in Threads : /\ th[r].pc \in {"release", "enqueue"}
                                  /\ th[r].job = j /\ ~th[r].replay

=============================================================================
