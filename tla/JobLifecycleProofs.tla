-------------------------- MODULE JobLifecycleProofs --------------------------
(***************************************************************************)
(* Proofs about JobLifecycle, for every number of jobs and threads: types, *)
(* quota and retention; what a cancellation, a run that is over and the    *)
(* purge of a job guarantee; and that the job keeps the promise of         *)
(* JobPromise.                                                             *)
(***************************************************************************)
EXTENDS JobLifecycle, TLAPS

LEMMA SomeJobIsJob == SomeJob \in Jobs
  BY JobsAssumption, Zenon DEF SomeJob

\* A thread without a request, and the payloads that processes write, are
\* well typed.
LEMMA PayloadTypes ==
    /\ NoStatus \in Status /\ Queued \in Status
    /\ Idle \in RequestType
    /\ \A q \in RequestType : RequestPayload(q) \in Status
<1>1. NoStatus \in Status /\ Queued \in Status
  BY DEF NoStatus, Queued, Status, Active
<1>2. Idle \in RequestType
  BY <1>1, SomeJobIsJob DEF Idle, RequestType
<1>3. \A q \in RequestType : RequestPayload(q) \in Status
  BY DEF RequestPayload, RequestType, Status
<1>. QED  BY <1>1, <1>2, <1>3

LEMMA WorkerPayloadType ==
    ASSUME TypeOK, NEW j \in Jobs
    PROVE  WorkerPayload(j) \in Status
<1>1. /\ wcopy[j] \in Status
      /\ wgoal[j] \in Active \cup Terminal \cup {"none"}
      /\ wkeys[j] \in SUBSET ObjectKeys
  BY DEF TypeOK
<1>2. (IF wgoal[j] \in Recording THEN wkeys[j] ELSE wcopy[j].keys) \in SUBSET ObjectKeys
  BY <1>1 DEF Status
<1>. QED  BY <1>1, <1>2 DEF WorkerPayload, Status

\* What a request step does to the thread keeps the thread well typed.
LEMMA ThreadTypes ==
    ASSUME TypeOK, NEW r \in Requests
    PROVE  /\ req[r] \in RequestType
           /\ req[r].job \in Jobs /\ req[r].copy \in Status
           /\ Answer(r) => req' \in [Requests -> RequestType]
           /\ \A pc \in {"read", "mark", "stage", "replace", "mirror", "enqueue"} :
                 Step(r, pc) => req' \in [Requests -> RequestType]
<1>1. req[r] \in RequestType
  BY DEF TypeOK
<1>2. Answer(r) => req' \in [Requests -> RequestType]
  BY PayloadTypes DEF TypeOK, Answer
<1>3. ASSUME NEW pc \in {"read", "mark", "stage", "replace", "mirror", "enqueue"},
             Step(r, pc)
      PROVE  req' \in [Requests -> RequestType]
  <2>1. [req[r] EXCEPT !.pc = pc] \in RequestType
    BY <1>1 DEF RequestType
  <2>. QED  BY <2>1, <1>3 DEF TypeOK, Step
<1>. QED  BY <1>1, <1>2, <1>3 DEF RequestType

LEMMA RequestStepTypeOK ==
    ASSUME TypeOK, NEW r \in Requests, RequestStep(r)
    PROVE  TypeOK'
<1>. USE ThreadTypes DEF TypeOK
<1>1. CASE SubmitInserts(r)
  BY <1>1 DEF SubmitInserts, disk, history, workerVars, cleanerVars, Active
<1>2. CASE Authorizes(r)
  BY <1>2 DEF Authorizes, disk, stores, history, workerVars, cleanerVars
<1>3. CASE RequestReads(r)
  <2>1. req' \in [Requests -> RequestType]
    <3>1. \A pc \in {"mark", "stage"} :
             [req[r] EXCEPT !.pc = pc, !.copy = file[req[r].job]] \in RequestType
      BY DEF RequestType
    <3>. QED  BY <1>3, <3>1 DEF RequestReads
  <2>. QED  BY <1>3, <2>1 DEF RequestReads, disk, stores, history, workerVars, cleanerVars
<1>4. CASE CancelMarks(r)
  BY <1>4 DEF CancelMarks, stores, workerVars, cleanerVars
<1>5. CASE RequestStages(r)
  BY <1>5, PayloadTypes DEF RequestStages, stores, history, workerVars, cleanerVars
<1>6. CASE RequestReplaces(r)
  <2>1. elapsed' \in [Jobs -> SUBSET {"retention", "delete_delay"}]
    BY <1>6 DEF RequestReplaces
  <2>2. raced' \in [Jobs -> BOOLEAN]
    BY <1>6, Zenon DEF RequestReplaces, RacedAfter
  <2>3. file' \in [Jobs -> Status] /\ tmp' \in [Jobs -> Status]
    BY <1>6, PayloadTypes DEF RequestReplaces, Publish
  <2>4. req' \in [Requests -> RequestType]
    BY <1>6 DEF RequestReplaces
  <2>. QED
    BY <1>6, <2>1, <2>2, <2>3, <2>4 DEF RequestReplaces, stores, workerVars, cleanerVars
<1>7. CASE RequestMirrors(r)
  <2>1. row' \in [Jobs -> Active \cup Terminal \cup {"none"}]
    BY <1>7 DEF RequestMirrors, Mirrored, Status
  <2>. QED
    BY <1>7, <2>1 DEF RequestMirrors, disk, history, workerVars, cleanerVars
<1>8. CASE SubmitEnqueues(r)
  BY <1>8 DEF SubmitEnqueues, Locations, disk, stores, history, cleanerVars
<1>. QED
  BY <1>1, <1>2, <1>3, <1>4, <1>5, <1>6, <1>7, <1>8 DEF RequestStep

LEMMA LocationTypes ==
    /\ {"absent", "waiting", "done", "raised", "crashed"} \subseteq Locations
    /\ Checkpoints \cup Stages \cup Writing \subseteq Locations
    /\ \A goal : After(goal) \in Locations
  BY DEF Locations, Pipeline, Checkpoints, Stages, Writing, Ended, After

Goals == Active \cup Terminal \cup {"none"}

\* What a worker step does to its location and goal keeps them well typed.
LEMMA MoveTypes ==
    ASSUME TypeOK, NEW j \in Jobs
    PROVE  /\ \A pc \in Locations : Goto(j, pc) => wpc' \in [Jobs -> Locations]
           /\ \A goal \in Goals : Update(j, goal) =>
                 wpc' \in [Jobs -> Locations] /\ wgoal' \in [Jobs -> Goals]
           /\ Raise(j) =>
                 wpc' \in [Jobs -> Locations] /\ wgoal' \in [Jobs -> Goals]
<1>1. \A pc \in Locations : Goto(j, pc) => wpc' \in [Jobs -> Locations]
  BY DEF TypeOK, Goto
<1>2. \A goal \in Goals : Update(j, goal) =>
         wpc' \in [Jobs -> Locations] /\ wgoal' \in [Jobs -> Goals]
  BY <1>1, LocationTypes DEF TypeOK, Update, Goals, Writing
<1>3. Raise(j) => wpc' \in [Jobs -> Locations] /\ wgoal' \in [Jobs -> Goals]
  <2>1. "failed" \in Goals /\ "raised" \in Locations
    BY LocationTypes DEF Goals, Terminal
  <2>2. wgoal \in [Jobs -> Goals]
    BY DEF TypeOK, Goals
  <2>. QED  BY <1>1, <1>2, <2>1, <2>2 DEF Raise
<1>. QED  BY <1>1, <1>2, <1>3

LEMMA WorkerStepTypeOK ==
    ASSUME TypeOK, NEW j \in Jobs, WorkerStep(j)
    PROVE  TypeOK'
<1>. USE MoveTypes, LocationTypes DEF TypeOK, Goals
<1>1. CASE WorkerChecks(j)
  BY <1>1 DEF WorkerChecks, Checkpoints, Stages, Active, Terminal, disk, stores, history, cleanerVars
<1>2. CASE WorkerComputes(j)
  BY <1>2 DEF WorkerComputes, Checkpoints, Stages, disk, stores, history, cleanerVars
<1>3. CASE WorkerPutsSnapshot(j)
  BY <1>3 DEF WorkerPutsSnapshot, Stages, ObjectKeys, disk, history, cleanerVars
<1>4. CASE WorkerSavesSnapshot(j)
  <2>1. wkeys' \in [Jobs -> SUBSET ObjectKeys]
    BY <1>4 DEF WorkerSavesSnapshot, RecordedKeys, Status, ObjectKeys
  <2>. QED
    BY <1>4, <2>1 DEF WorkerSavesSnapshot, Active, disk, stores, history, cleanerVars
<1>5. CASE WorkerReports(j)
  BY <1>5 DEF WorkerReports, Stages, Active, Terminal, disk, stores, history, cleanerVars
<1>6. CASE WorkerCollectsKeys(j)
  <2>1. wkeys' \in [Jobs -> SUBSET ObjectKeys]
    BY <1>6 DEF WorkerCollectsKeys, RecordedKeys, Status
  <2>. QED
    BY <1>6, <2>1 DEF WorkerCollectsKeys, Stages, disk, stores, history, cleanerVars
<1>7. CASE WorkerPutsArtifacts(j)
  BY <1>7 DEF WorkerPutsArtifacts, Writing, ObjectKeys, disk, history, cleanerVars
<1>8. CASE WorkerStageRaises(j)
  BY <1>8 DEF WorkerStageRaises, ObjectKeys, disk, history, cleanerVars
<1>9. CASE WorkerReads(j)
  BY <1>9 DEF WorkerReads, Writing, disk, stores, history, cleanerVars
<1>10. CASE WorkerStages(j)
  BY <1>10, WorkerPayloadType, PayloadTypes DEF WorkerStages, Writing, stores, history, cleanerVars
<1>11. CASE WorkerReplaces(j)
  <2>1. raced' \in [Jobs -> BOOLEAN]
    BY <1>11, Zenon DEF WorkerReplaces, RacedAfter
  <2>2. file' \in [Jobs -> Status] /\ tmp' \in [Jobs -> Status]
    BY <1>11, PayloadTypes DEF WorkerReplaces, Publish
  <2>. QED  BY <1>11, <2>1, <2>2 DEF WorkerReplaces, Writing, stores, cleanerVars
<1>12. CASE WorkerMirrors(j)
  <2>1. row' \in [Jobs -> Active \cup Terminal \cup {"none"}]
    BY <1>12 DEF WorkerMirrors, Mirrored
  <2>. QED  BY <1>12, <2>1 DEF WorkerMirrors, disk, history, cleanerVars
<1>. QED
  BY <1>1, <1>2, <1>3, <1>4, <1>5, <1>6, <1>7, <1>8, <1>9, <1>10, <1>11, <1>12
     DEF WorkerStep

LEMMA PassTypeOK ==
    ASSUME TypeOK, PassStep \/ PassAborts
    PROVE  TypeOK'
<1>. USE PayloadTypes DEF TypeOK
<1>1. CASE PassBegins
  BY <1>1 DEF PassBegins, disk, stores, history, workerVars
<1>2. ASSUME NEW j \in Jobs, PassExamines(j) PROVE TypeOK'
  BY <1>2 DEF PassExamines, Status, disk, stores, history, workerVars
<1>3. ASSUME NEW k \in ObjectKeys, PassDeletesObject(k) PROVE TypeOK'
  BY <1>3 DEF PassDeletesObject, disk, history, workerVars
<1>4. CASE PassPurgesRow
  BY <1>4 DEF PassPurgesRow, disk, history, workerVars
<1>5. CASE PassRemovesTree
  BY <1>5 DEF PassRemovesTree, stores, history, workerVars
<1>6. CASE PassEnds
  BY <1>6 DEF PassEnds, disk, stores, history, workerVars
<1>7. CASE PassAborts
  BY <1>7 DEF PassAborts, disk, stores, history, workerVars
<1>. QED  BY <1>1, <1>2, <1>3, <1>4, <1>5, <1>6, <1>7 DEF PassStep

\* Every value that the processes exchange through the files of a job, the
\* database row and their own copies of the status is of its type.
THEOREM TypeCorrect == Spec => []TypeOK
<1>1. Init => TypeOK
  BY PayloadTypes, LocationTypes, SomeJobIsJob DEF Init, TypeOK
<1>2. TypeOK /\ [Next]_vars => TypeOK'
  <2>. SUFFICES ASSUME TypeOK, [Next]_vars PROVE TypeOK'
    OBVIOUS
  <2>1. ASSUME NEW r \in Requests, RequestStep(r) PROVE TypeOK'
    BY <2>1, RequestStepTypeOK
  <2>2. ASSUME NEW r \in Submitters, NEW j \in Jobs, SubmitCreates(r, j) PROVE TypeOK'
    BY <2>2, PayloadTypes DEF TypeOK, SubmitCreates, Receive, Requests, RequestType,
       stores, history, workerVars, cleanerVars
  <2>3. ASSUME NEW r \in Clients, NEW kind \in Kinds, NEW j \in Jobs,
               ClientAsks(r, kind, j)
        PROVE  TypeOK'
    BY <2>3, PayloadTypes, KindsAssumption DEF TypeOK, ClientAsks, Receive, Requests,
       RequestType, disk, stores, history, workerVars, cleanerVars
  <2>4. ASSUME NEW j \in Jobs, WorkerStep(j) PROVE TypeOK'
    BY <2>4, WorkerStepTypeOK
  <2>5. ASSUME NEW j \in Jobs, WorkerCrashes(j) PROVE TypeOK'
    BY <2>5, MoveTypes, LocationTypes, PayloadTypes DEF TypeOK, WorkerCrashes, Abandon,
       disk, stores, history, cleanerVars
  <2>6. ASSUME NEW j \in Jobs, ClockStep(j) PROVE TypeOK'
    BY <2>6 DEF TypeOK, ClockStep, RetentionElapses, DeleteDelayElapses,
       disk, stores, history, workerVars, cleanerVars
  <2>7. CASE PassStep \/ PassAborts
    BY <2>7, PassTypeOK
  <2>8. CASE UNCHANGED vars
    BY <2>8 DEF TypeOK, vars, disk, stores, history, workerVars, cleanerVars
  <2>. QED  BY <2>1, <2>2, <2>3, <2>4, <2>5, <2>6, <2>7, <2>8 DEF Next
<1>. QED  BY <1>1, <1>2, PTL DEF Spec

-----------------------------------------------------------------------------
(* Retention.  The inductive invariant says where a terminal status can come*)
(* from: no file, request or purge has one before the run of the job has    *)
(* come to its final write.                                                 *)

\* Somebody holds a terminal status of j, or works on its removal.
Settling(j) ==
    \/ file[j].st \in Terminal
    \/ tmp[j].st \in Terminal
    \/ \E r \in Requests : req[r].job = j /\ req[r].copy.st \in Terminal
    \/ cpc \in {"objects", "tree"} /\ cjob = j
    \/ wpc[j] # "absent" /\ ~Exists(j)

SettlingIsLast == \A j \in Jobs : Settling(j) => Finishing(j)

\* A job is submitted by one thread, which alone can see it before its run.
SubmitsOnce ==
    \A r \in Requests :
        /\ req[r].pc \in {"insert", "enqueue"} => req[r].kind = "submit"
        /\ req[r].kind = "submit" =>
              /\ wpc[req[r].job] = "absent"
              /\ Exists(req[r].job)
              /\ \A q \in Requests :
                    req[q].kind = "submit" /\ req[q].job = req[r].job => q = r

PurgedRow ==
    /\ cpc = "tree" => row[cjob] = "none"
    /\ RowGoesBeforeTree

RetentionInv == TypeOK /\ SettlingIsLast /\ SubmitsOnce /\ PurgedRow

LEMMA AbsentIsNotFinishing ==
    \A j \in Jobs : wpc[j] = "absent" => ~Finishing(j)
  BY DEF Finishing, Ended, Writing

\* A run that has come to its final write stays there or ends.
LEMMA FinishingKept ==
    ASSUME TypeOK, NEW j \in Jobs, WorkerStep(j) \/ WorkerCrashes(j),
           NEW i \in Jobs, Finishing(i)
    PROVE  Finishing(i)'
<1>1. CASE i # j
  <2>1. wpc'[i] = wpc[i] /\ wgoal'[i] = wgoal[i]
    BY <1>1 DEF TypeOK, WorkerStep, WorkerCrashes, Abandon, WorkerChecks, WorkerComputes,
       WorkerPutsSnapshot, WorkerSavesSnapshot, WorkerReports, WorkerCollectsKeys,
       WorkerPutsArtifacts, WorkerStageRaises, WorkerReads, WorkerStages, WorkerReplaces,
       WorkerMirrors, Raise, Update, Goto
  <2>. QED  BY <2>1 DEF Finishing
<1>2. CASE i = j
  <2>1. wpc[j] \in Ended \/ (wpc[j] \in Writing /\ wgoal[j] \in Terminal)
    BY <1>2 DEF Finishing
  <2>2. CASE WorkerCrashes(j)
    BY <1>2, <2>2 DEF TypeOK, WorkerCrashes, Abandon, Goto, Finishing, Ended
  <2>3. CASE WorkerReads(j) \/ WorkerStages(j) \/ WorkerReplaces(j)
    BY <1>2, <2>1, <2>3 DEF TypeOK, WorkerReads, WorkerStages, WorkerReplaces, Raise,
       Update, Goto, Finishing, Ended, Writing, Terminal
  <2>4. CASE WorkerMirrors(j)
    BY <1>2, <2>1, <2>4 DEF TypeOK, WorkerMirrors, After, Raise, Update, Goto,
       Finishing, Ended, Writing, Terminal
  <2>5. wpc[j] \notin Checkpoints \cup Stages \cup {"waiting"}
    BY <2>1 DEF Checkpoints, Stages, Ended, Writing
  <2>. QED
    BY <2>2, <2>3, <2>4, <2>5 DEF WorkerStep, WorkerChecks, WorkerComputes,
       WorkerPutsSnapshot, WorkerSavesSnapshot, WorkerReports, WorkerCollectsKeys,
       WorkerPutsArtifacts, WorkerStageRaises, Checkpoints, Stages
<1>. QED  BY <1>1, <1>2

\* All that a request does to the files and the threads, enqueueing apart.
LEMMA RequestFrame ==
    ASSUME TypeOK, SubmitsOnce, NEW r \in Requests, RequestStep(r), ~SubmitEnqueues(r)
    PROVE  /\ UNCHANGED <<workerVars, cleanerVars>>
           /\ \A j \in Jobs : file'[j] # file[j] => file'[j] = tmp[j] /\ tmp[j] # NoStatus
           /\ \A j \in Jobs : tmp'[j].st \in Terminal /\ tmp'[j] # tmp[j] =>
                 req[r].job = j /\ req[r].copy.st \in Terminal
           /\ \A q \in Requests : q # r => req'[q] = req[q]
           /\ \/ req'[r] = Idle
              \/ /\ req'[r].kind = req[r].kind /\ req'[r].job = req[r].job
                 /\ req'[r].copy \in {req[r].copy, file[req[r].job]}
                 /\ req'[r].pc # "insert"
                 /\ req'[r].pc = "enqueue" => req[r].kind = "submit"
           /\ \A j \in Jobs : row'[j] # "none" /\ row[j] = "none" =>
                 req[r].job = j /\ req[r].kind = "submit"
<1>. USE ThreadTypes DEF TypeOK, workerVars, cleanerVars
<1>1. CASE SubmitInserts(r)
  BY <1>1 DEF SubmitInserts, Step, Answer, disk, history, SubmitsOnce, RequestType
<1>2. CASE Authorizes(r)
  BY <1>2 DEF Authorizes, Step, Answer, disk, stores, history, RequestType
<1>3. CASE RequestReads(r)
  BY <1>3 DEF RequestReads, Answer, disk, stores, history, RequestType
<1>4. CASE CancelMarks(r)
  BY <1>4 DEF CancelMarks, Step, Answer, stores, history, RequestType
<1>5. CASE RequestStages(r)
  <2>1. RequestPayload(req[r]).st = req[r].copy.st
    BY DEF RequestPayload, Status
  <2>. QED
    BY <1>5, <2>1 DEF RequestStages, Step, Answer, stores, history, RequestType
<1>6. CASE RequestReplaces(r)
  <2>1. \A j \in Jobs : tmp'[j].st \in Terminal => tmp'[j] = tmp[j]
    BY <1>6 DEF RequestReplaces, Publish, NoStatus, Terminal
  <2>. QED
    BY <1>6, <2>1 DEF RequestReplaces, Publish, Step, Answer, stores, RequestType
<1>7. CASE RequestMirrors(r)
  BY <1>7 DEF RequestMirrors, Mirrored, Step, Answer, disk, history, RequestType
<1>. QED
  BY <1>1, <1>2, <1>3, <1>4, <1>5, <1>6, <1>7 DEF RequestStep

\* All that a worker step does to the files, the rows and the location.
LEMMA WorkerFrame ==
    ASSUME TypeOK, NEW j \in Jobs, WorkerStep(j) \/ WorkerCrashes(j)
    PROVE  /\ UNCHANGED <<req, cleanerVars>>
           /\ \A i \in Jobs : file'[i] # file[i] => file'[i] = tmp[i] /\ tmp[i] # NoStatus
           /\ \A i \in Jobs : tmp'[i].st \in Terminal /\ tmp'[i] # tmp[i] =>
                 Finishing(i)
           /\ wpc[j] # "absent" /\ wpc'[j] # "absent"
           /\ \A i \in Jobs : i # j => wpc'[i] = wpc[i]
           /\ \A i \in Jobs : row[i] = "none" => row'[i] = "none"
<1>. USE DEF TypeOK, cleanerVars
<1>1. CASE WorkerChecks(j) \/ WorkerComputes(j)
  BY <1>1 DEF WorkerChecks, WorkerComputes, Update, Goto, Checkpoints, disk, stores
<1>2. CASE WorkerPutsSnapshot(j) \/ WorkerSavesSnapshot(j) \/ WorkerReports(j)
  BY <1>2 DEF WorkerPutsSnapshot, WorkerSavesSnapshot, WorkerReports, Update, Goto, disk, stores
<1>3. CASE WorkerCollectsKeys(j) \/ WorkerPutsArtifacts(j) \/ WorkerCrashes(j)
  BY <1>3 DEF WorkerCollectsKeys, WorkerPutsArtifacts, WorkerCrashes, Abandon, Goto,
     Pipeline, Checkpoints, Stages, Writing, disk, stores
<1>4. CASE WorkerStageRaises(j) \/ WorkerReads(j)
  BY <1>4 DEF WorkerStageRaises, WorkerReads, Raise, Update, Goto, Stages, disk, stores
<1>5. CASE WorkerStages(j)
  <2>1. WorkerPayload(j).st = wgoal[j]
    BY DEF WorkerPayload, Status
  <2>. QED
    BY <1>5, <2>1 DEF WorkerStages, Raise, Update, Goto, Finishing, Writing, stores
<1>6. CASE WorkerReplaces(j)
  <2>1. \A i \in Jobs : tmp'[i].st \in Terminal => tmp'[i] = tmp[i]
    BY <1>6 DEF WorkerReplaces, Publish, NoStatus, Terminal
  <2>. QED
    BY <1>6, <2>1 DEF WorkerReplaces, Publish, Raise, Update, Goto, stores
<1>7. CASE WorkerMirrors(j)
  <2>1. \A goal : After(goal) # "absent"
    BY DEF After
  <2>. QED
    BY <1>7, <2>1 DEF WorkerMirrors, Mirrored, Raise, Update, Goto, disk
<1>. QED
  BY <1>1, <1>2, <1>3, <1>4, <1>5, <1>6, <1>7 DEF WorkerStep

\* Enqueueing starts the run of a job that nobody has settled.
LEMMA EnqueueKeepsRetention ==
    ASSUME RetentionInv, NEW r \in Requests, SubmitEnqueues(r)
    PROVE  SettlingIsLast' /\ SubmitsOnce' /\ PurgedRow'
<1>. PICK k \in Jobs : k = req[r].job
  BY ThreadTypes DEF RetentionInv
<1>1. /\ wpc[k] = "absent" /\ Exists(k)
      /\ \A q \in Requests : req[q].kind = "submit" /\ req[q].job = k => q = r
  BY ThreadTypes DEF RetentionInv, SubmitsOnce, SubmitEnqueues
<1>2. ~Settling(k)
  BY <1>1, AbsentIsNotFinishing DEF RetentionInv, SettlingIsLast
<1>3. /\ UNCHANGED <<file, tmp, row, wgoal, cpc, cjob>>
      /\ \A q \in Requests : req'[q] = IF q = r THEN Idle ELSE req[q]
      /\ \A j \in Jobs : j # k => wpc'[j] = wpc[j]
      /\ wpc'[k] \in {"absent", "waiting"}
  BY <1>1, ThreadTypes DEF RetentionInv, TypeOK, SubmitEnqueues, Answer, disk, stores, cleanerVars
<1>4. \A j \in Jobs : Settling(j)' /\ j # k => Settling(j)
  BY <1>3 DEF Settling, Exists, Idle, NoStatus, Terminal
<1>5. ~Settling(k)'
  BY <1>1, <1>2, <1>3 DEF Settling, Exists, Idle, NoStatus, Terminal
<1>6. SettlingIsLast'
  BY <1>3, <1>4, <1>5 DEF RetentionInv, SettlingIsLast, Finishing
<1>7. SubmitsOnce'
  <2>1. \A q \in Requests : req[q].job \in Jobs
    BY DEF RetentionInv, TypeOK, RequestType
  <2>2. Idle.kind # "submit" /\ Idle.pc = "idle"
    BY DEF Idle
  <2>3. \A q \in Requests : req[q].kind = "submit" /\ q # r => req[q].job # k
    BY <1>1
  <2>. QED
    BY <1>3, <2>1, <2>2, <2>3 DEF RetentionInv, SubmitsOnce, Exists
<1>8. PurgedRow'
  BY <1>1, <1>3 DEF RetentionInv, PurgedRow, RowGoesBeforeTree, Exists
<1>. QED  BY <1>6, <1>7, <1>8

LEMMA RequestKeepsRetention ==
    ASSUME RetentionInv, NEW r \in Requests, RequestStep(r)
    PROVE  SettlingIsLast' /\ SubmitsOnce' /\ PurgedRow'
<1>1. CASE SubmitEnqueues(r)
  BY <1>1, EnqueueKeepsRetention
<1>2. CASE ~SubmitEnqueues(r)
  <2>. USE <1>2, RequestFrame DEF RetentionInv
  <2>1. UNCHANGED <<wpc, wgoal, cpc, cjob>>
    BY DEF workerVars, cleanerVars
  <2>2. \A j \in Jobs : Exists(j) => Exists(j)'
    BY DEF Exists
  <2>3. ASSUME NEW j \in Jobs, Settling(j)' PROVE Settling(j)
    <3>1. CASE file'[j].st \in Terminal \/ tmp'[j].st \in Terminal
      BY <3>1 DEF Settling
    <3>2. ASSUME NEW q \in Requests, req'[q].job = j, req'[q].copy.st \in Terminal
          PROVE  Settling(j)
      <4>1. Idle.copy.st \notin Terminal
        BY DEF Idle, NoStatus, Terminal
      <4>2. CASE q # r
        BY <3>2, <4>2 DEF Settling
      <4>3. CASE q = r
        BY <3>2, <4>1, <4>3 DEF Settling
      <4>. QED  BY <4>2, <4>3
    <3>3. CASE \/ cpc' \in {"objects", "tree"} /\ cjob' = j
               \/ wpc'[j] # "absent" /\ ~Exists(j)'
      BY <2>1, <2>2, <3>3 DEF Settling
    <3>. QED  BY <2>3, <3>1, <3>2, <3>3 DEF Settling
  <2>4. SettlingIsLast'
    BY <2>1, <2>3 DEF SettlingIsLast, Finishing
  <2>5. SubmitsOnce'
    <3>1. Idle.kind # "submit" /\ Idle.pc = "idle"
      BY DEF Idle
    <3>2. \A q \in Requests : req[q].job \in Jobs
      BY DEF TypeOK, RequestType
    <3>3. \A q \in Requests : req'[q].kind = "submit" =>
             req[q].kind = "submit" /\ req'[q].job = req[q].job
      BY <3>1
    <3>4. \A q \in Requests : req'[q].pc \in {"insert", "enqueue"} =>
             req'[q].kind = "submit"
      BY <3>1 DEF SubmitsOnce
    <3>. QED  BY <2>1, <2>2, <3>2, <3>3, <3>4 DEF SubmitsOnce
  <2>6. PurgedRow'
    <3>1. ASSUME NEW j \in Jobs, row[j] = "none", wpc[j] # "absent"
          PROVE  row'[j] = "none"
      BY <3>1 DEF SubmitsOnce
    <3>2. cpc = "tree" => wpc[cjob] # "absent" /\ cjob \in Jobs
      BY AbsentIsNotFinishing DEF SettlingIsLast, Settling, TypeOK
    <3>. QED
      BY <2>1, <2>2, <3>1, <3>2 DEF PurgedRow, RowGoesBeforeTree
  <2>. QED  BY <2>4, <2>5, <2>6
<1>. QED  BY <1>1, <1>2

LEMMA WorkerKeepsRetention ==
    ASSUME RetentionInv, NEW j \in Jobs, WorkerStep(j) \/ WorkerCrashes(j)
    PROVE  SettlingIsLast' /\ SubmitsOnce' /\ PurgedRow'
<1>. USE WorkerFrame DEF RetentionInv
<1>1. \A i \in Jobs : Exists(i) => Exists(i)'
  BY DEF Exists
<1>2. UNCHANGED <<req, cpc, cjob>>
  BY DEF cleanerVars
<1>3. \A i \in Jobs : wpc'[i] # "absent" <=> wpc[i] # "absent"
  OBVIOUS
<1>4. \A i \in Jobs : Settling(i)' => Settling(i) \/ Finishing(i)
  BY <1>1, <1>2, <1>3 DEF Settling
<1>5. SettlingIsLast'
  BY <1>4, FinishingKept DEF SettlingIsLast
<1>6. SubmitsOnce'
  BY <1>1, <1>2, <1>3, ThreadTypes DEF SubmitsOnce
<1>7. PurgedRow'
  BY <1>1, <1>2, <1>3 DEF PurgedRow, RowGoesBeforeTree, TypeOK
<1>. QED  BY <1>5, <1>6, <1>7

LEMMA PassKeepsRetention ==
    ASSUME RetentionInv, PassStep \/ PassAborts
    PROVE  SettlingIsLast' /\ SubmitsOnce' /\ PurgedRow'
<1>. USE DEF RetentionInv, TypeOK
<1>1. UNCHANGED <<wpc, wgoal, req>>
  BY DEF PassStep, PassAborts, PassBegins, PassExamines, PassDeletesObject, PassPurgesRow,
     PassRemovesTree, PassEnds, workerVars
<1>2. \A i \in Jobs : Finishing(i)' <=> Finishing(i)
  BY <1>1 DEF Finishing
<1>3. CASE PassRemovesTree
  <2>1. /\ cpc = "tree" /\ cpc' = "scan" /\ row' = row
        /\ \A i \in Jobs : file'[i] = IF i = cjob THEN NoStatus ELSE file[i]
        /\ \A i \in Jobs : tmp'[i] = IF i = cjob THEN NoStatus ELSE tmp[i]
    BY <1>3 DEF PassRemovesTree, stores
  <2>2. Finishing(cjob) /\ wpc[cjob] # "absent"
    BY <2>1, AbsentIsNotFinishing DEF SettlingIsLast, Settling
  <2>3. SettlingIsLast'
    BY <1>1, <1>2, <2>1, <2>2 DEF SettlingIsLast, Settling, Exists, NoStatus, Terminal
  <2>4. SubmitsOnce'
    BY <1>1, <2>1, <2>2 DEF SubmitsOnce, Exists, RequestType
  <2>5. PurgedRow'
    BY <1>1, <2>1 DEF PurgedRow, RowGoesBeforeTree, Exists
  <2>. QED  BY <2>3, <2>4, <2>5
<1>4. CASE ~PassRemovesTree
  <2>1. UNCHANGED <<file, tmp>>
    BY <1>4 DEF PassStep, PassAborts, PassBegins, PassExamines, PassDeletesObject,
       PassPurgesRow, PassEnds, disk
  <2>2. \/ cpc' \notin {"objects", "tree"}
        \/ cpc \in {"objects", "tree"} /\ cjob' = cjob
        \/ file[cjob'].st \in Terminal
    BY <1>4 DEF PassStep, PassAborts, PassBegins, PassExamines, PassDeletesObject,
       PassPurgesRow, PassEnds, Purgeable
  <2>3. \A i \in Jobs : Settling(i)' => Settling(i)
    BY <1>1, <2>1, <2>2 DEF Settling, Exists
  <2>4. /\ \A i \in Jobs : row[i] = "none" => row'[i] = "none"
        /\ cpc' = "tree" => cjob' = cjob /\ (cpc = "tree" \/ row'[cjob] = "none")
    BY <1>4 DEF PassStep, PassAborts, PassBegins, PassExamines, PassDeletesObject,
       PassPurgesRow, PassEnds, stores
  <2>5. PurgedRow'
    BY <1>1, <2>1, <2>4 DEF PurgedRow, RowGoesBeforeTree, Exists
  <2>6. SubmitsOnce'
    BY <1>1, <2>1 DEF SubmitsOnce, Exists
  <2>. QED  BY <1>2, <2>3, <2>5, <2>6 DEF SettlingIsLast
<1>. QED  BY <1>3, <1>4

\* Submissions, client requests and the clock.
LEMMA OutsideKeepsRetention ==
    ASSUME RetentionInv,
           \/ \E r \in Submitters, j \in Jobs : SubmitCreates(r, j)
           \/ \E r \in Clients, kind \in Kinds, j \in Jobs : ClientAsks(r, kind, j)
           \/ \E j \in Jobs : ClockStep(j)
           \/ UNCHANGED vars
    PROVE  SettlingIsLast' /\ SubmitsOnce' /\ PurgedRow'
<1>. USE DEF RetentionInv, TypeOK
<1>1. ASSUME NEW r \in Submitters, NEW j \in Jobs, SubmitCreates(r, j)
      PROVE  SettlingIsLast' /\ SubmitsOnce' /\ PurgedRow'
  <2>1. /\ UNCHANGED <<tmp, row, wpc, wgoal, cpc, cjob>>
        /\ wpc[j] = "absent"
        /\ \A i \in Jobs : file'[i] = IF i = j THEN Queued ELSE file[i]
        /\ \A q \in Requests : ~(req[q].kind = "submit" /\ req[q].job = j)
        /\ \A q \in Requests :
              req'[q] = IF q = r THEN [pc |-> "insert", kind |-> "submit", job |-> j,
                                       copy |-> NoStatus]
                                 ELSE req[q]
    BY <1>1 DEF SubmitCreates, Receive, Requests, stores, workerVars, cleanerVars
  <2>2. Queued # NoStatus /\ Queued.st \notin Terminal /\ NoStatus.st \notin Terminal
    BY DEF Queued, NoStatus, Terminal
  <2>3. \A i \in Jobs : Exists(i) => Exists(i)'
    BY <2>1, <2>2 DEF Exists
  <2>4. \A i \in Jobs : Settling(i)' => Settling(i)
    BY <2>1, <2>2, <2>3 DEF Settling
  <2>5. SettlingIsLast'
    BY <2>1, <2>4 DEF SettlingIsLast, Finishing
  <2>6. SubmitsOnce'
    <3>1. Exists(j)'
      BY <2>1, <2>2 DEF Exists
    <3>2. \A q \in Requests : q # r => req'[q] = req[q]
      BY <2>1
    <3>3. req'[r].pc = "insert" /\ req'[r].kind = "submit" /\ req'[r].job = j
      BY <1>1, <2>1 DEF Requests
    <3>4. \A q \in Requests : req[q].job \in Jobs
      BY DEF RequestType
    <3>. QED  BY <2>1, <2>3, <3>1, <3>2, <3>3, <3>4 DEF SubmitsOnce
  <2>7. PurgedRow'
    BY <2>1, <2>3 DEF PurgedRow, RowGoesBeforeTree
  <2>. QED  BY <2>5, <2>6, <2>7
<1>2. ASSUME NEW r \in Clients, NEW kind \in Kinds, NEW j \in Jobs,
             ClientAsks(r, kind, j)
      PROVE  SettlingIsLast' /\ SubmitsOnce' /\ PurgedRow'
  <2>1. /\ UNCHANGED <<file, tmp, row, wpc, wgoal, cpc, cjob>>
        /\ \A q \in Requests :
              req'[q] = IF q = r THEN [pc |-> "authorize", kind |-> kind, job |-> j,
                                       copy |-> NoStatus]
                                 ELSE req[q]
    BY <1>2 DEF ClientAsks, Receive, Requests, disk, stores, workerVars, cleanerVars
  <2>2. kind # "submit" /\ NoStatus.st \notin Terminal
    BY KindsAssumption DEF NoStatus, Terminal
  <2>3. \A i \in Jobs : Settling(i)' => Settling(i)
    BY <2>1, <2>2 DEF Settling, Exists
  <2>4. SettlingIsLast'
    BY <2>1, <2>3 DEF SettlingIsLast, Finishing
  <2>5. SubmitsOnce'
    BY <2>1, <2>2 DEF SubmitsOnce, Exists
  <2>6. PurgedRow'
    BY <2>1 DEF PurgedRow, RowGoesBeforeTree, Exists
  <2>. QED  BY <2>4, <2>5, <2>6
<1>3. CASE (\E j \in Jobs : ClockStep(j)) \/ UNCHANGED vars
  <2>1. UNCHANGED <<file, tmp, row, wpc, wgoal, req, cpc, cjob>>
    BY <1>3 DEF ClockStep, RetentionElapses, DeleteDelayElapses, vars, disk, stores,
       workerVars, cleanerVars
  <2>. QED
    BY <2>1 DEF SettlingIsLast, Settling, Finishing, SubmitsOnce, PurgedRow,
       RowGoesBeforeTree, Exists
<1>. QED  BY <1>1, <1>2, <1>3

\* The invariant that protects a running job from retention: nobody holds a
\* terminal status of a job, in a file, a copy or a request, before its run has
\* come to the final write, and a job is submitted by one thread.
THEOREM RetentionInvariant == Spec => []RetentionInv
<1>1. Init => SettlingIsLast /\ SubmitsOnce /\ PurgedRow
  BY DEF Init, SettlingIsLast, Settling, SubmitsOnce, PurgedRow, RowGoesBeforeTree,
     NoStatus, Idle, Terminal
<1>2. TypeOK /\ TypeOK' /\ (SettlingIsLast /\ SubmitsOnce /\ PurgedRow) /\ [Next]_vars
      => (SettlingIsLast /\ SubmitsOnce /\ PurgedRow)'
  <2>. SUFFICES ASSUME RetentionInv, [Next]_vars
                PROVE  SettlingIsLast' /\ SubmitsOnce' /\ PurgedRow'
    BY DEF RetentionInv
  <2>. QED
    BY RequestKeepsRetention, WorkerKeepsRetention, PassKeepsRetention,
       OutsideKeepsRetention DEF Next
<1>. QED  BY <1>1, <1>2, TypeCorrect, PTL DEF Spec, RetentionInv

\* For any number of jobs, clients and threads, and however often the passes
\* of purge_expired are interrupted: retention takes nothing away from a run
\* that has a stage before it.
THEOREM RetentionSafe == Spec => []RetentionSparesRuns
<1>1. RetentionInv => RetentionSparesRuns
  BY DEF RetentionInv, TypeOK, SettlingIsLast, Settling, RetentionSparesRuns
<1>. QED  BY <1>1, RetentionInvariant, PTL

\* ... and no job directory goes before the database row of its job.
THEOREM RowBeforeTree == Spec => []RowGoesBeforeTree
<1>1. RetentionInv => RowGoesBeforeTree
  BY DEF RetentionInv, PurgedRow
<1>. QED  BY <1>1, RetentionInvariant, PTL

Results == {"completed", "manual_review"}

-----------------------------------------------------------------------------
(* Cancellation.  Once the marker has come in time, the run either has its  *)
(* checkpoint before it, where it finds the marker, or writes "cancelled"   *)
(* or "failed"; and nobody holds a result of the job.                       *)

Stopping(j) ==
    \/ Undecided(j) /\ marker[j] /\ Exists(j)
    \/ wpc[j] \in Ended
    \/ wpc[j] \in Writing /\ wgoal[j] \in {"cancelled", "failed"}

ResultHeld(j) ==
    \/ file[j].st \in Results
    \/ tmp[j].st \in Results
    \/ \E r \in Requests : req[r].job = j /\ req[r].copy.st \in Results

CancelInv == \A j \in Jobs : early[j] => Stopping(j) /\ ~ResultHeld(j)

-----------------------------------------------------------------------------
(* Status files.  A status is written over an existing one only, and it is  *)
(* a real one, whatever two writers do to each other.                       *)

Holding == {"mark", "stage", "replace", "mirror"}

RequestsAreReal ==
    \A r \in Requests :
        /\ req[r].pc # "idle" => req[r].kind # "none"
        /\ req[r].pc \in Holding =>
              /\ req[r].copy.st # "none"
              /\ Exists(req[r].job) \/ wpc[req[r].job] # "absent"

FilesAreReal ==
    \A j \in Jobs :
        /\ tmp[j] # NoStatus => tmp[j].st # "none" /\ Exists(j)
        /\ Exists(j) => file[j].st # "none"
        /\ wpc[j] \in Writing \cup {"collect", "put"} => wgoal[j] # "none"

RealInv == RequestsAreReal /\ FilesAreReal

-----------------------------------------------------------------------------
(* As long as no two writers have met over the status of a job, every       *)
(* pending request holds the status of the file, the file shows how far the *)
(* run has come, and the keys it records are those of the stored objects.   *)

Alone(j) == Exists(j) /\ ~raced[j]

Follows(st, goal) == st \in Promise!Statuses /\ goal \in Promise!Successors[st]

CopiesAgree ==
    \A r \in Requests :
        Alone(req[r].job) /\ req[r].pc \in Holding =>
            /\ req[r].copy.st = file[req[r].job].st
            /\ req[r].copy.keys = file[req[r].job].keys

Shows(j) ==
    /\ wpc[j] \in {"absent", "waiting", "check_start"} => file[j].st = "queued"
    /\ wpc[j] \in {"load", "check_load", "snapshot", "save_snapshot"} =>
          file[j].st = "validating"
    /\ wpc[j] \in {"compare", "check_report", "report"} => file[j].st = "comparing"
    /\ wpc[j] \in {"check_render", "render", "repairs"} => file[j].st = "rendering"
    /\ wpc[j] \in {"collect", "put", "read", "stage", "replace"} =>
          Follows(file[j].st, wgoal[j])
    /\ wpc[j] = "mirror" => file[j].st = wgoal[j] /\ wgoal[j] # "queued"
    /\ wpc[j] \in {"done", "raised"} => file[j].st \in Terminal
    /\ wpc[j] = "done" => row[j] \in {file[j].st, "none"}

\* The keys that a payload with the status goal has to record.
Needed(goal) == IF goal \in {"comparing", "rendering"} THEN {"snapshot"}
                ELSE IF goal \in Results THEN ObjectKeys ELSE {}

Records(j) ==
    /\ Needed(file[j].st) \subseteq file[j].keys
    /\ wpc[j] \in {"collect", "put"} => wgoal[j] \in Results
    /\ wpc[j] = "put" => "snapshot" \in wkeys[j]
    /\ wpc[j] \in {"read", "stage"} /\ wgoal[j] \in Recording =>
          Needed(wgoal[j]) \subseteq wkeys[j]
    /\ wpc[j] = "stage" /\ wgoal[j] = "rendering" => "snapshot" \in wcopy[j].keys
    /\ wpc[j] = "replace" /\ tmp[j].st = wgoal[j] => Needed(wgoal[j]) \subseteq tmp[j].keys

PurgeFits ==
    cpc \in {"objects", "tree"} /\ Alone(cjob) =>
        /\ file[cjob].st \in Terminal
        /\ file[cjob].st \in Results =>
              objects[cjob] \subseteq (IF cpc = "tree" THEN {} ELSE ckeys)

AloneInv ==
    /\ CopiesAgree
    /\ \A j \in Jobs : Alone(j) => Shows(j) /\ Records(j)
    /\ PurgeFits

-----------------------------------------------------------------------------
(* What a step leaves alone.                                                *)

\* A worker step changes nothing of another job, no marker and no request.
LEMMA WorkerLocal ==
    ASSUME TypeOK, NEW j \in Jobs, WorkerStep(j) \/ WorkerCrashes(j)
    PROVE  /\ UNCHANGED <<marker, early, req, cleanerVars>>
           /\ \A i \in Jobs : i # j =>
                 /\ wpc'[i] = wpc[i] /\ wgoal'[i] = wgoal[i]
                 /\ wcopy'[i] = wcopy[i] /\ wkeys'[i] = wkeys[i]
                 /\ file'[i] = file[i] /\ tmp'[i] = tmp[i]
                 /\ row'[i] = row[i] /\ objects'[i] = objects[i] /\ raced'[i] = raced[i]
<1>. USE DEF TypeOK, cleanerVars
<1>1. CASE WorkerChecks(j) \/ WorkerComputes(j)
  BY <1>1 DEF WorkerChecks, WorkerComputes, Update, Goto, disk, stores, history
<1>2. CASE WorkerPutsSnapshot(j) \/ WorkerSavesSnapshot(j) \/ WorkerReports(j)
  BY <1>2 DEF WorkerPutsSnapshot, WorkerSavesSnapshot, WorkerReports, Update, Goto,
     disk, stores, history
<1>3. CASE WorkerCollectsKeys(j) \/ WorkerPutsArtifacts(j) \/ WorkerCrashes(j)
  BY <1>3 DEF WorkerCollectsKeys, WorkerPutsArtifacts, WorkerCrashes, Abandon, Goto,
     disk, stores, history
<1>4. CASE WorkerStageRaises(j) \/ WorkerReads(j)
  BY <1>4 DEF WorkerStageRaises, WorkerReads, Raise, Update, Goto, disk, stores, history
<1>5. CASE WorkerStages(j)
  BY <1>5 DEF WorkerStages, Raise, Update, Goto, stores, history
<1>6. CASE WorkerReplaces(j)
  BY <1>6 DEF WorkerReplaces, RacedAfter, Publish, Raise, Update, Goto, stores
<1>7. CASE WorkerMirrors(j)
  BY <1>7 DEF WorkerMirrors, Mirrored, Raise, Update, Goto, disk, history
<1>. QED
  BY <1>1, <1>2, <1>3, <1>4, <1>5, <1>6, <1>7 DEF WorkerStep

\* A request step changes nothing of another job or of another thread, and of
\* the run of its job only that the queue takes it.
LEMMA RequestLocal ==
    ASSUME TypeOK, NEW r \in Requests, RequestStep(r)
    PROVE  /\ UNCHANGED <<objects, wcopy, wgoal, wkeys, cleanerVars>>
           /\ \A i \in Jobs : i # req[r].job =>
                 /\ wpc'[i] = wpc[i] /\ file'[i] = file[i] /\ tmp'[i] = tmp[i]
                 /\ row'[i] = row[i] /\ marker'[i] = marker[i]
                 /\ raced'[i] = raced[i] /\ early'[i] = early[i]
           /\ ~SubmitEnqueues(r) => wpc' = wpc
           /\ \A q \in Requests : q # r => req'[q] = req[q]
<1>. USE ThreadTypes DEF TypeOK, cleanerVars, workerVars
<1>1. CASE SubmitInserts(r)
  BY <1>1 DEF SubmitInserts, Step, Answer, disk, history
<1>2. CASE Authorizes(r) \/ RequestReads(r)
  BY <1>2 DEF Authorizes, RequestReads, Step, Answer, disk, stores, history
<1>3. CASE CancelMarks(r)
  BY <1>3 DEF CancelMarks, Step, Answer, stores
<1>4. CASE RequestStages(r)
  BY <1>4 DEF RequestStages, Step, Answer, stores, history
<1>5. CASE RequestReplaces(r)
  BY <1>5 DEF RequestReplaces, RacedAfter, Publish, Step, Answer, stores
<1>6. CASE RequestMirrors(r)
  BY <1>6 DEF RequestMirrors, Mirrored, Step, Answer, disk, history
<1>7. CASE SubmitEnqueues(r)
  BY <1>7 DEF SubmitEnqueues, Answer, disk, stores, history
<1>. QED
  BY <1>1, <1>2, <1>3, <1>4, <1>5, <1>6, <1>7 DEF RequestStep

\* The retention process takes the files of a job away, objects and a row; it
\* touches no run and no request.
LEMMA PassLocal ==
    ASSUME TypeOK, PassStep \/ PassAborts
    PROVE  /\ UNCHANGED <<workerVars, req, history>>
           /\ \/ UNCHANGED disk
              \/ PassRemovesTree
           /\ \A i \in Jobs : objects'[i] \subseteq objects[i]
           /\ \A i \in Jobs : row'[i] \in {row[i], "none"}
  BY DEF TypeOK, PassStep, PassAborts, PassBegins, PassExamines, PassDeletesObject,
     PassPurgesRow, PassRemovesTree, PassEnds, stores, disk

-----------------------------------------------------------------------------
(* Cancellation.                                                            *)

LEMMA UndecidedIsUnsettled ==
    ASSUME RetentionInv, NEW j \in Jobs, Undecided(j)
    PROVE  ~ResultHeld(j) /\ (wpc[j] # "absent" => Exists(j))
<1>1. ~Finishing(j)
  BY DEF Undecided, Finishing, Ended, Writing, Terminal
<1>2. ~Settling(j)
  BY <1>1 DEF RetentionInv, SettlingIsLast
<1>. QED  BY <1>2 DEF Settling, ResultHeld, Results, Terminal

\* The run of a job that is cancelled in time stays on its way to the end.
LEMMA StoppingKept ==
    ASSUME TypeOK, NEW j \in Jobs, WorkerStep(j) \/ WorkerCrashes(j),
           NEW i \in Jobs, Stopping(i)
    PROVE  Stopping(i)'
<1>1. Exists(i) => Exists(i)'
  BY WorkerFrame DEF Exists
<1>2. marker'[i] = marker[i]
  BY WorkerLocal
<1>3. CASE i # j
  <2>1. wpc'[i] = wpc[i] /\ wgoal'[i] = wgoal[i]
    BY <1>3, WorkerLocal
  <2>. QED  BY <1>1, <1>2, <2>1 DEF Stopping, Undecided
<1>4. CASE i = j
  <2>. DEFINE Ending(pc, goal) == pc \in Ended \/ (pc \in Writing /\ goal \in {"cancelled", "failed"})
  <2>1. ASSUME NEW pc, Goto(j, pc) PROVE wpc'[j] = pc
    BY <2>1 DEF Goto, TypeOK
  <2>2. ASSUME NEW goal, Update(j, goal) PROVE wpc'[j] = "read" /\ wgoal'[j] = goal
    BY <2>2 DEF Update, Goto, TypeOK
  <2>3. Raise(j) => Ending(wpc'[j], wgoal'[j])
    BY <2>1, <2>2 DEF Raise, Ended, Writing
  <2>4. Ending(wpc'[j], wgoal'[j]) => Stopping(i)'
    BY <1>4 DEF Stopping
  <2>5. CASE WorkerCrashes(j)
    BY <2>5, <2>1, <2>4 DEF WorkerCrashes, Abandon, Ended
  <2>6. CASE Ending(wpc[j], wgoal[j])
    <3>1. ASSUME WorkerReads(j) \/ WorkerStages(j) \/ WorkerReplaces(j) \/ WorkerMirrors(j)
          PROVE  Ending(wpc'[j], wgoal'[j])
      BY <3>1, <2>1, <2>3, <2>6 DEF WorkerReads, WorkerStages, WorkerReplaces,
         WorkerMirrors, After, Ended, Writing
    <3>2. WorkerReads(j) \/ WorkerStages(j) \/ WorkerReplaces(j) \/ WorkerMirrors(j)
             \/ WorkerCrashes(j)
      BY <2>6 DEF WorkerStep, WorkerChecks, WorkerComputes, WorkerPutsSnapshot,
         WorkerSavesSnapshot, WorkerReports, WorkerCollectsKeys, WorkerPutsArtifacts,
         WorkerStageRaises, Ended, Writing, Checkpoints, Stages
    <3>. QED  BY <2>4, <2>5, <3>1, <3>2
  <2>7. CASE Undecided(j) /\ marker[j] /\ Exists(j)
    <3>1. Undecided(j)' => Stopping(i)'
      BY <1>1, <1>2, <1>4, <2>7 DEF Stopping
    <3>2. CASE WorkerChecks(j) \/ WorkerComputes(j)
      BY <3>1, <3>2, <2>1, <2>2, <2>4, <2>7 DEF WorkerChecks, WorkerComputes,
         CancelRequested, Undecided, Writing, Ended
    <3>3. CASE WorkerPutsSnapshot(j) \/ WorkerSavesSnapshot(j)
      BY <3>1, <3>3, <2>1, <2>2 DEF WorkerPutsSnapshot, WorkerSavesSnapshot,
         Undecided, Writing
    <3>4. CASE WorkerReports(j) \/ WorkerCollectsKeys(j) \/ WorkerPutsArtifacts(j)
      BY <3>4, <2>7 DEF WorkerReports, WorkerCollectsKeys, WorkerPutsArtifacts,
         Undecided, Writing
    <3>5. CASE WorkerStageRaises(j)
      BY <3>5, <2>3, <2>4 DEF WorkerStageRaises
    <3>6. CASE WorkerReads(j) \/ WorkerStages(j) \/ WorkerReplaces(j) \/ WorkerMirrors(j)
      <4>1. wgoal[j] \in {"validating", "comparing"}
        BY <3>6, <2>7 DEF WorkerReads, WorkerStages, WorkerReplaces, WorkerMirrors, Undecided
      <4>. QED
        BY <3>1, <3>6, <4>1, <2>1, <2>3, <2>4 DEF WorkerReads, WorkerStages, WorkerReplaces,
           WorkerMirrors, Undecided, Writing, After
    <3>. QED  BY <2>4, <2>5, <3>2, <3>3, <3>4, <3>5, <3>6 DEF WorkerStep
  <2>. QED  BY <1>4, <2>6, <2>7 DEF Stopping
<1>. QED  BY <1>3, <1>4

LEMMA WorkerKeepsCancel ==
    ASSUME TypeOK, CancelInv, NEW j \in Jobs, WorkerStep(j) \/ WorkerCrashes(j)
    PROVE  CancelInv'
<1>. SUFFICES ASSUME NEW i \in Jobs, early[i], Stopping(i), ~ResultHeld(i)
              PROVE  Stopping(i)' /\ ~ResultHeld(i)'
  BY WorkerLocal DEF CancelInv
<1>1. Stopping(i)'
  BY StoppingKept
<1>2. req' = req
  BY WorkerLocal
<1>3. file'[i].st \notin Results
  BY WorkerFrame DEF ResultHeld
<1>4. tmp'[i].st \notin Results
  <2>1. CASE tmp'[i] = tmp[i]
    BY <2>1 DEF ResultHeld
  <2>2. CASE tmp'[i] # tmp[i]
    <3>1. i = j
      BY <2>2, WorkerLocal
    <3>2. WorkerStages(j) \/ WorkerReplaces(j)
      BY <2>2, <3>1 DEF WorkerStep, WorkerCrashes, WorkerChecks, WorkerComputes,
         WorkerPutsSnapshot, WorkerSavesSnapshot, WorkerReports, WorkerCollectsKeys,
         WorkerPutsArtifacts, WorkerStageRaises, WorkerReads, WorkerMirrors, disk
    <3>3. tmp'[j].st \in {wgoal[j], "none"}
      <4>1. WorkerPayload(j).st = wgoal[j]
        BY DEF WorkerPayload, TypeOK, Status
      <4>. QED
        BY <4>1, <2>2, <3>1, <3>2 DEF WorkerStages, WorkerReplaces, Publish, NoStatus, TypeOK
    <3>4. wpc[j] \in {"stage", "replace"}
      BY <3>2 DEF WorkerStages, WorkerReplaces
    <3>5. wgoal[j] \notin Results
      BY <3>1, <3>4 DEF Stopping, Undecided, Ended, Writing, Results
    <3>. QED  BY <3>1, <3>3, <3>5 DEF Results
  <2>. QED  BY <2>1, <2>2
<1>. QED  BY <1>1, <1>2, <1>3, <1>4 DEF ResultHeld

\* What a request step does to the files of its job and to its own copy.
LEMMA RequestWrites ==
    ASSUME TypeOK, NEW r \in Requests, RequestStep(r), NEW j \in Jobs, j = req[r].job
    PROVE  /\ file'[j] # file[j] =>
                 /\ RequestReplaces(r)
                 /\ file'[j] = tmp[j] /\ tmp[j] # NoStatus /\ tmp'[j] = NoStatus
           /\ tmp'[j] # tmp[j] =>
                 \/ RequestReplaces(r) /\ tmp'[j] = NoStatus
                 \/ RequestStages(r) /\ Exists(j) /\ tmp'[j] = RequestPayload(req[r])
           /\ \/ req'[r] = Idle
              \/ RequestReads(r) /\ Exists(j) /\ req'[r].copy = file[j]
                 /\ req'[r].job = j /\ req'[r].kind = req[r].kind
                 /\ req'[r].pc \in {"mark", "stage"}
              \/ /\ req'[r].copy = req[r].copy
                 /\ req'[r].job = j /\ req'[r].kind = req[r].kind
                 /\ req'[r].pc \in Holding =>
                       req[r].pc \in {"mark", "stage", "replace"}
                 /\ req'[r].pc # "mark"
<1>. USE ThreadTypes DEF TypeOK, RequestType, Holding
<1>1. CASE SubmitInserts(r)
  BY <1>1 DEF SubmitInserts, Step, Answer, disk
<1>2. CASE Authorizes(r)
  BY <1>2 DEF Authorizes, Step, Answer, disk
<1>3. CASE RequestReads(r)
  BY <1>3 DEF RequestReads, Answer, disk
<1>4. CASE CancelMarks(r)
  BY <1>4 DEF CancelMarks, Step, Answer
<1>5. CASE RequestStages(r)
  BY <1>5 DEF RequestStages, Step, Answer
<1>6. CASE RequestReplaces(r)
  BY <1>6 DEF RequestReplaces, Publish, Step, Answer
<1>7. CASE RequestMirrors(r)
  BY <1>7 DEF RequestMirrors, Step, Answer, disk
<1>8. CASE SubmitEnqueues(r)
  BY <1>8 DEF SubmitEnqueues, Answer, disk
<1>. QED
  BY <1>1, <1>2, <1>3, <1>4, <1>5, <1>6, <1>7, <1>8 DEF RequestStep

\* A request writes its own flag over the status it has read, nothing else.
LEMMA PayloadKeeps ==
    ASSUME NEW q \in RequestType
    PROVE  /\ RequestPayload(q).st = q.copy.st
           /\ RequestPayload(q).keys = q.copy.keys
  BY DEF RequestPayload, RequestType, Status

\* The queue starts a run that has not begun; no other request moves one.
LEMMA EnqueueStarts ==
    ASSUME RetentionInv, NEW r \in Requests, RequestStep(r), NEW i \in Jobs
    PROVE  \/ wpc'[i] = wpc[i]
           \/ wpc[i] = "absent" /\ wpc'[i] = "waiting"
<1>1. CASE SubmitEnqueues(r)
  <2>1. wpc[req[r].job] = "absent" /\ req[r].job \in Jobs
    BY <1>1, ThreadTypes DEF RetentionInv, SubmitsOnce, SubmitEnqueues
  <2>. QED  BY <1>1, <2>1 DEF SubmitEnqueues, RetentionInv, TypeOK
<1>2. CASE ~SubmitEnqueues(r)
  BY <1>2, RequestLocal DEF RetentionInv
<1>. QED  BY <1>1, <1>2

LEMMA RequestKeepsCancel ==
    ASSUME RetentionInv, CancelInv, NEW r \in Requests, RequestStep(r)
    PROVE  CancelInv'
<1>. USE DEF RetentionInv
<1>. PICK k \in Jobs : k = req[r].job
  BY ThreadTypes
<1>1. ASSUME NEW i \in Jobs, ~ResultHeld(i)
      PROVE  ~ResultHeld(i)'
  <2>1. ASSUME NEW q \in Requests, req'[q].job = i PROVE req'[q].copy.st \notin Results
    <3>1. Idle.copy.st \notin Results
      BY DEF Idle, NoStatus, Results
    <3>2. CASE q # r
      BY <1>1, <2>1, <3>2, RequestLocal DEF ResultHeld
    <3>3. CASE q = r
      BY <1>1, <2>1, <3>1, <3>3, RequestWrites DEF ResultHeld
    <3>. QED  BY <3>2, <3>3
  <2>2. file'[i].st \notin Results /\ tmp'[i].st \notin Results
    <3>1. NoStatus.st \notin Results
      BY DEF NoStatus, Results
    <3>2. RequestPayload(req[r]).st = req[r].copy.st
      BY PayloadKeeps, ThreadTypes
    <3>3. CASE i # k
      BY <1>1, <3>3, RequestLocal DEF ResultHeld
    <3>4. CASE i = k
      BY <1>1, <3>1, <3>2, <3>4, RequestWrites DEF ResultHeld
    <3>. QED  BY <3>3, <3>4
  <2>. QED  BY <2>1, <2>2 DEF ResultHeld
<1>2. \A i \in Jobs : Exists(i) => Exists(i)'
  BY RequestLocal, RequestWrites DEF Exists
<1>3. ASSUME NEW i \in Jobs, Stopping(i) PROVE Stopping(i)'
  <2>1. wgoal' = wgoal
    BY RequestLocal
  <2>2. marker[i] => marker'[i]
    BY DEF RequestStep, SubmitInserts, Authorizes, RequestReads, CancelMarks, RequestStages,
       RequestReplaces, RequestMirrors, SubmitEnqueues, disk, TypeOK
  <2>3. CASE wpc'[i] = wpc[i]
    BY <1>2, <1>3, <2>1, <2>2, <2>3 DEF Stopping, Undecided
  <2>4. CASE wpc[i] = "absent" /\ wpc'[i] = "waiting"
    BY <1>2, <1>3, <2>2, <2>4 DEF Stopping, Undecided, Ended, Writing
  <2>. QED  BY <2>3, <2>4, EnqueueStarts
<1>4. ASSUME NEW i \in Jobs, early'[i], ~early[i] PROVE Stopping(i)' /\ ~ResultHeld(i)
  <2>1. /\ i = k /\ CancelMarks(r)
        /\ Exists(i) /\ Undecided(i) /\ marker'[i] /\ UNCHANGED <<file, wpc, wgoal>>
    <3>1. CancelMarks(r)
      BY <1>4 DEF RequestStep, SubmitInserts, Authorizes, RequestReads, RequestStages,
         RequestReplaces, RequestMirrors, SubmitEnqueues, history
    <3>2. i = k
      BY <1>4, RequestLocal
    <3>3. Exists(i) /\ marker' = [marker EXCEPT ![i] = TRUE]
          /\ early' = [early EXCEPT ![i] = @ \/ Undecided(i)]
          /\ UNCHANGED <<file, wpc, wgoal>>
      BY <1>4, <3>1, <3>2 DEF CancelMarks, workerVars
    <3>4. Undecided(i)
      BY <1>4, <3>3, Zenon DEF TypeOK
    <3>. QED  BY <3>1, <3>2, <3>3, <3>4 DEF TypeOK
  <2>. QED
    BY <2>1, UndecidedIsUnsettled DEF Stopping, Undecided, Exists
<1>. QED  BY <1>1, <1>3, <1>4 DEF CancelInv

LEMMA OtherKeepsCancel ==
    ASSUME RetentionInv, CancelInv,
           \/ \E r \in Submitters, j \in Jobs : SubmitCreates(r, j)
           \/ \E r \in Clients, kind \in Kinds, j \in Jobs : ClientAsks(r, kind, j)
           \/ \E j \in Jobs : ClockStep(j)
           \/ PassStep \/ PassAborts
           \/ UNCHANGED vars
    PROVE  CancelInv'
<1>. USE DEF RetentionInv
<1>1. ASSUME NEW r \in Submitters, NEW j \in Jobs, SubmitCreates(r, j) PROVE CancelInv'
  <2>1. /\ UNCHANGED <<tmp, marker, early, wpc, wgoal>>
        /\ \A i \in Jobs : file'[i] = IF i = j THEN Queued ELSE file[i]
        /\ \A q \in Requests : req'[q] = req[q] \/ req'[q].copy = NoStatus
    BY <1>1 DEF SubmitCreates, Receive, stores, history, workerVars, TypeOK
  <2>2. NoStatus.st \notin Results /\ Queued.st \notin Results /\ Queued # NoStatus
    BY DEF NoStatus, Queued, Results
  <2>. QED  BY <2>1, <2>2 DEF CancelInv, Stopping, Undecided, ResultHeld, Exists
<1>2. ASSUME NEW r \in Clients, NEW kind \in Kinds, NEW j \in Jobs, ClientAsks(r, kind, j)
      PROVE  CancelInv'
  <2>1. /\ UNCHANGED <<file, tmp, marker, early, wpc, wgoal>>
        /\ \A q \in Requests : req'[q] = req[q] \/ req'[q].copy = NoStatus
    BY <1>2 DEF ClientAsks, Receive, disk, history, workerVars, TypeOK
  <2>2. NoStatus.st \notin Results
    BY DEF NoStatus, Results
  <2>. QED  BY <2>1, <2>2 DEF CancelInv, Stopping, Undecided, ResultHeld, Exists
<1>3. CASE PassRemovesTree
  <2>1. /\ UNCHANGED <<early, wpc, wgoal, req, cjob>>
        /\ \A i \in Jobs : file'[i] = IF i = cjob THEN NoStatus ELSE file[i]
        /\ \A i \in Jobs : tmp'[i] = IF i = cjob THEN NoStatus ELSE tmp[i]
        /\ \A i \in Jobs : i # cjob => marker'[i] = marker[i]
        /\ cpc = "tree" /\ cjob \in Jobs
    BY <1>3 DEF PassRemovesTree, stores, history, workerVars, TypeOK
  <2>2. Finishing(cjob)
    BY <2>1 DEF SettlingIsLast, Settling
  <2>3. early[cjob] => Stopping(cjob)'
    BY <2>1, <2>2 DEF CancelInv, Stopping, Undecided, Finishing, Ended, Writing, Terminal
  <2>4. NoStatus.st \notin Results
    BY DEF NoStatus, Results
  <2>. QED
    BY <2>1, <2>3, <2>4 DEF CancelInv, Stopping, Undecided, ResultHeld, Exists
<1>4. CASE \/ \E j \in Jobs : ClockStep(j)
           \/ (PassStep \/ PassAborts) /\ ~PassRemovesTree
           \/ UNCHANGED vars
  <2>1. UNCHANGED <<file, tmp, marker, early, wpc, wgoal, req>>
    BY <1>4, PassLocal DEF ClockStep, RetentionElapses, DeleteDelayElapses, vars, disk,
       history, workerVars
  <2>. QED  BY <2>1 DEF CancelInv, Stopping, Undecided, ResultHeld, Exists
<1>. QED  BY <1>1, <1>2, <1>3, <1>4

\* A run that was told to stop before it decided on its outcome finds the
\* marker at its next checkpoint or fails, and nobody ever holds a result of
\* its job, in a file or in a copy that could still be written.
THEOREM CancelInvariant == Spec => []CancelInv
<1>1. Init => CancelInv
  BY DEF Init, CancelInv
<1>2. RetentionInv /\ CancelInv /\ [Next]_vars => CancelInv'
  BY RequestKeepsCancel, WorkerKeepsCancel, OtherKeepsCancel DEF Next, RetentionInv
<1>. QED  BY <1>1, <1>2, RetentionInvariant, PTL DEF Spec

\* For any number of jobs and clients: no lost update and no order of requests,
\* run and retention lets a run that is cancelled in time record a result.
THEOREM CancelHonoured == Spec => []CancelIsHonoured
<1>1. CancelInv => CancelIsHonoured
  BY DEF CancelInv, ResultHeld, CancelIsHonoured, Results
<1>. QED  BY <1>1, CancelInvariant, PTL

-----------------------------------------------------------------------------
(* Status files are real.                                                   *)

\* What a worker step does to the files of its job.
LEMMA WorkerWrites ==
    ASSUME TypeOK, NEW j \in Jobs, WorkerStep(j) \/ WorkerCrashes(j)
    PROVE  /\ file'[j] # file[j] =>
                 /\ WorkerReplaces(j)
                 /\ file'[j] = tmp[j] /\ tmp[j] # NoStatus /\ tmp'[j] = NoStatus
           /\ tmp'[j] # tmp[j] =>
                 \/ WorkerReplaces(j) /\ tmp'[j] = NoStatus
                 \/ WorkerStages(j) /\ Exists(j) /\ tmp'[j] = WorkerPayload(j)
<1>1. CASE WorkerStages(j) \/ WorkerReplaces(j)
  BY <1>1 DEF WorkerStages, WorkerReplaces, Publish, TypeOK
<1>2. CASE ~WorkerStages(j) /\ ~WorkerReplaces(j)
  BY <1>2 DEF WorkerStep, WorkerCrashes, WorkerChecks, WorkerComputes,
     WorkerPutsSnapshot, WorkerSavesSnapshot, WorkerReports, WorkerCollectsKeys,
     WorkerPutsArtifacts, WorkerStageRaises, WorkerReads, WorkerMirrors, disk
<1>. QED  BY <1>1, <1>2

\* A run that is about to write a status knows which.
LEMMA WorkerGoalIsReal ==
    ASSUME TypeOK, NEW j \in Jobs, WorkerStep(j) \/ WorkerCrashes(j),
           wpc[j] \in Writing \cup {"collect", "put"} => wgoal[j] # "none",
           wpc'[j] \in Writing \cup {"collect", "put"}
    PROVE  wgoal'[j] # "none"
<1>. USE DEF TypeOK, Goto, Update, Raise
<1>1. CASE WorkerChecks(j) \/ WorkerComputes(j)
  BY <1>1 DEF WorkerChecks, WorkerComputes, Writing
<1>2. CASE WorkerPutsSnapshot(j) \/ WorkerSavesSnapshot(j) \/ WorkerReports(j)
  BY <1>2 DEF WorkerPutsSnapshot, WorkerSavesSnapshot, WorkerReports, Writing
<1>3. CASE WorkerCollectsKeys(j) \/ WorkerPutsArtifacts(j) \/ WorkerCrashes(j)
  BY <1>3 DEF WorkerCollectsKeys, WorkerPutsArtifacts, WorkerCrashes, Abandon, Writing
<1>4. CASE WorkerStageRaises(j) \/ WorkerReads(j) \/ WorkerStages(j) \/ WorkerReplaces(j)
  BY <1>4 DEF WorkerStageRaises, WorkerReads, WorkerStages, WorkerReplaces, Writing
<1>5. CASE WorkerMirrors(j)
  BY <1>5 DEF WorkerMirrors, After, Writing
<1>. QED  BY <1>1, <1>2, <1>3, <1>4, <1>5 DEF WorkerStep

LEMMA WorkerKeepsReal ==
    ASSUME RetentionInv, RealInv, NEW j \in Jobs, WorkerStep(j) \/ WorkerCrashes(j)
    PROVE  RealInv'
<1>. USE DEF RetentionInv, RealInv
<1>1. \A i \in Jobs : Exists(i) => Exists(i)'
  BY WorkerFrame DEF Exists
<1>2. RequestsAreReal'
  BY <1>1, WorkerLocal, WorkerFrame, ThreadTypes DEF RequestsAreReal
<1>3. ASSUME NEW i \in Jobs, i # j
      PROVE  /\ tmp'[i] # NoStatus => tmp'[i].st # "none" /\ Exists(i)'
             /\ Exists(i)' => file'[i].st # "none"
             /\ wpc'[i] \in Writing \cup {"collect", "put"} => wgoal'[i] # "none"
  BY <1>3, WorkerLocal DEF FilesAreReal, Exists
<1>4. tmp'[j] # NoStatus => tmp'[j].st # "none" /\ Exists(j)'
  <2>1. WorkerPayload(j).st = wgoal[j]
    BY DEF WorkerPayload, TypeOK, Status
  <2>2. WorkerStages(j) => wgoal[j] # "none"
    BY DEF WorkerStages, FilesAreReal, Writing
  <2>. QED  BY <1>1, <2>1, <2>2, WorkerWrites DEF FilesAreReal
<1>5. Exists(j)' => file'[j].st # "none"
  BY WorkerWrites DEF FilesAreReal, Exists
<1>6. wpc'[j] \in Writing \cup {"collect", "put"} => wgoal'[j] # "none"
  BY WorkerGoalIsReal DEF FilesAreReal
<1>. QED  BY <1>2, <1>3, <1>4, <1>5, <1>6 DEF FilesAreReal

LEMMA RequestKeepsReal ==
    ASSUME RetentionInv, RealInv, NEW r \in Requests, RequestStep(r)
    PROVE  RealInv'
<1>. USE DEF RetentionInv, RealInv
<1>. PICK k \in Jobs : k = req[r].job
  BY ThreadTypes
<1>1. \A i \in Jobs : Exists(i) => Exists(i)'
  BY RequestLocal, RequestWrites DEF Exists
<1>2. \A i \in Jobs : wpc[i] # "absent" => wpc'[i] # "absent"
  BY EnqueueStarts
<1>3. RequestsAreReal'
  <2>1. \A q \in Requests : req[q].job \in Jobs
    BY ThreadTypes
  <2>2. Idle.pc = "idle"
    BY DEF Idle
  <2>3. req[r].pc # "idle"
    BY DEF RequestStep, SubmitInserts, Authorizes, RequestReads, CancelMarks, RequestStages,
       RequestReplaces, RequestMirrors, SubmitEnqueues
  <2>4. ASSUME NEW q \in Requests, q # r
        PROVE  /\ req'[q].pc # "idle" => req'[q].kind # "none"
               /\ req'[q].pc \in Holding =>
                     /\ req'[q].copy.st # "none"
                     /\ Exists(req[q].job)' \/ wpc'[req'[q].job] # "absent"
    BY <1>1, <1>2, <2>1, <2>4, RequestLocal DEF RequestsAreReal
  <2>5. /\ req'[r].pc # "idle" => req'[r].kind # "none"
        /\ req'[r].pc \in Holding =>
              /\ req'[r].copy.st # "none"
              /\ Exists(req[r].job)' \/ wpc'[req'[r].job] # "absent"
    <3>1. CASE req'[r] = Idle
      BY <2>2, <3>1 DEF Holding
    <3>2. CASE /\ RequestReads(r) /\ Exists(k) /\ req'[r].copy = file[k]
               /\ req'[r].job = k /\ req'[r].kind = req[r].kind
      BY <1>1, <2>3, <3>2 DEF RequestsAreReal, FilesAreReal
    <3>3. CASE /\ req'[r].copy = req[r].copy
               /\ req'[r].job = k /\ req'[r].kind = req[r].kind
               /\ req'[r].pc \in Holding => req[r].pc \in {"mark", "stage", "replace"}
      BY <1>1, <1>2, <2>3, <3>3 DEF RequestsAreReal, Holding
    <3>. QED  BY <3>1, <3>2, <3>3, RequestWrites
  <2>. QED  BY <2>4, <2>5 DEF RequestsAreReal
<1>4. ASSUME NEW i \in Jobs
      PROVE  /\ tmp'[i] # NoStatus => tmp'[i].st # "none" /\ Exists(i)'
             /\ Exists(i)' => file'[i].st # "none"
  <2>1. CASE i # k
    BY <2>1, RequestLocal DEF FilesAreReal, Exists
  <2>2. CASE i = k
    <3>1. RequestStages(r) => RequestPayload(req[r]).st # "none"
      BY PayloadKeeps, ThreadTypes DEF RequestStages, RequestsAreReal, Holding
    <3>. QED  BY <1>1, <2>2, <3>1, RequestWrites DEF FilesAreReal, Exists
  <2>. QED  BY <2>1, <2>2
<1>5. \A i \in Jobs : wpc'[i] \in Writing \cup {"collect", "put"} => wgoal'[i] # "none"
  BY EnqueueStarts, RequestLocal DEF FilesAreReal, Writing
<1>. QED  BY <1>3, <1>4, <1>5 DEF FilesAreReal

\* A directory that is gone belongs to a run that has begun.
LEMMA TreeGoesAfterRun ==
    ASSUME RetentionInv, PassRemovesTree
    PROVE  /\ cjob \in Jobs /\ Finishing(cjob) /\ wpc[cjob] # "absent"
           /\ UNCHANGED <<row, objects, raced, early, wpc, wcopy, wgoal, wkeys, req, cjob>>
           /\ cpc' = "scan"
           /\ \A i \in Jobs : file'[i] = IF i = cjob THEN NoStatus ELSE file[i]
           /\ \A i \in Jobs : tmp'[i] = IF i = cjob THEN NoStatus ELSE tmp[i]
<1>1. cpc = "tree" /\ cjob \in Jobs
  BY DEF RetentionInv, TypeOK, PassRemovesTree
<1>2. Finishing(cjob)
  BY <1>1 DEF RetentionInv, SettlingIsLast, Settling
<1>. QED
  BY <1>1, <1>2, AbsentIsNotFinishing DEF PassRemovesTree, RetentionInv, TypeOK, stores,
     history, workerVars

\* What a submission does.
LEMMA SubmitFrame ==
    ASSUME RetentionInv, NEW r \in Submitters, NEW j \in Jobs, SubmitCreates(r, j)
    PROVE  /\ UNCHANGED <<tmp, marker, stores, history, workerVars, cleanerVars>>
           /\ wpc[j] = "absent" /\ ~Exists(j) /\ Exists(j)'
           /\ file'[j] = Queued
           /\ \A i \in Jobs : i # j => file'[i] = file[i]
           /\ \A q \in Requests : q # r => req'[q] = req[q]
           /\ req'[r].pc = "insert" /\ req'[r].kind = "submit" /\ req'[r].job = j
<1>1. Queued # NoStatus
  BY DEF Queued, NoStatus
<1>. QED
  BY <1>1 DEF SubmitCreates, Receive, RetentionInv, TypeOK, Requests, Exists

\* What a client's question does.
LEMMA AskFrame ==
    ASSUME TypeOK, NEW r \in Clients, NEW kind \in Kinds, NEW j \in Jobs,
           ClientAsks(r, kind, j)
    PROVE  /\ UNCHANGED <<disk, stores, history, workerVars, cleanerVars>>
           /\ \A q \in Requests : q # r => req'[q] = req[q]
           /\ req'[r].pc = "authorize" /\ req'[r].kind \in {"cancel", "delete"}
  BY KindsAssumption DEF ClientAsks, Receive, TypeOK, Requests

LEMMA OtherKeepsReal ==
    ASSUME RetentionInv, RealInv,
           \/ \E r \in Submitters, j \in Jobs : SubmitCreates(r, j)
           \/ \E r \in Clients, kind \in Kinds, j \in Jobs : ClientAsks(r, kind, j)
           \/ \E j \in Jobs : ClockStep(j)
           \/ PassStep \/ PassAborts
           \/ UNCHANGED vars
    PROVE  RealInv'
<1>. USE DEF RetentionInv, RealInv, RequestsAreReal, FilesAreReal
<1>1. ASSUME NEW r \in Submitters, NEW j \in Jobs, SubmitCreates(r, j) PROVE RealInv'
  <2>1. Queued.st # "none"
    BY DEF Queued, NoStatus
  <2>2. \A q \in Requests : req[q].job \in Jobs
    BY ThreadTypes
  <2>3. RequestsAreReal'
    <3>1. req'[r].pc = "insert" /\ req'[r].kind = "submit"
      BY <1>1, SubmitFrame
    <3>2. \A q \in Requests : q # r => req'[q] = req[q]
      BY <1>1, SubmitFrame
    <3>3. wpc' = wpc /\ \A i \in Jobs : Exists(i) => Exists(i)'
      BY <1>1, SubmitFrame DEF workerVars, Exists
    <3>. QED  BY <2>2, <3>1, <3>2, <3>3 DEF Holding
  <2>4. FilesAreReal'
    BY <1>1, <2>1, SubmitFrame DEF workerVars, Exists
  <2>. QED  BY <2>3, <2>4
<1>2. ASSUME NEW r \in Clients, NEW kind \in Kinds, NEW j \in Jobs, ClientAsks(r, kind, j)
      PROVE  RealInv'
  <2>1. req'[r].pc = "authorize" /\ req'[r].kind # "none"
    BY <1>2, AskFrame
  <2>2. \A q \in Requests : q # r => req'[q] = req[q]
    BY <1>2, AskFrame
  <2>3. UNCHANGED <<file, tmp, wpc, wgoal>>
    BY <1>2, AskFrame DEF disk, workerVars
  <2>. QED  BY <2>1, <2>2, <2>3 DEF Exists, Holding
<1>3. CASE PassRemovesTree
  <2>1. \A q \in Requests : req[q].job \in Jobs
    BY ThreadTypes
  <2>. QED  BY <1>3, <2>1, TreeGoesAfterRun DEF Exists
<1>4. CASE \/ \E j \in Jobs : ClockStep(j)
           \/ (PassStep \/ PassAborts) /\ ~PassRemovesTree
           \/ UNCHANGED vars
  <2>1. UNCHANGED <<file, tmp, wpc, wgoal, req>>
    BY <1>4, PassLocal DEF ClockStep, RetentionElapses, DeleteDelayElapses, vars, disk,
       workerVars
  <2>. QED  BY <2>1 DEF Exists
<1>. QED  BY <1>1, <1>2, <1>3, <1>4

LEMMA RealInvariant == Spec => []RealInv
<1>1. Init => RealInv
  BY DEF Init, RealInv, RequestsAreReal, FilesAreReal, Exists, Idle, Holding, Writing
<1>2. RetentionInv /\ RealInv /\ [Next]_vars => RealInv'
  BY RequestKeepsReal, WorkerKeepsReal, OtherKeepsReal DEF Next
<1>. QED  BY <1>1, <1>2, RetentionInvariant, PTL DEF Spec

-----------------------------------------------------------------------------
(* A job whose writers have not met.                                        *)

\* The successors of a status, read off the promise.
LEMMA FollowTable ==
    ASSUME NEW st, NEW goal
    PROVE  Follows(st, goal) <=>
             \/ st = "queued" /\ goal \in {"validating", "cancelled", "failed"}
             \/ st = "validating" /\ goal \in {"comparing", "cancelled", "failed"}
             \/ st = "comparing" /\ goal \in {"rendering", "completed", "manual_review",
                                              "cancelled", "failed"}
             \/ st = "rendering" /\ goal \in {"completed", "cancelled", "failed"}
             \/ st \in Results /\ goal = "failed"
  BY DEF Follows, Promise!Statuses, Promise!Successors, Results

\* An unraced job was unraced before the step, and a status that a worker or a
\* request has published over another one is the one it meant to publish.
LEMMA WorkerAlone ==
    ASSUME RetentionInv, RealInv, NEW j \in Jobs, WorkerStep(j) \/ WorkerCrashes(j),
           Alone(j)'
    PROVE  /\ Alone(j)
           /\ WorkerReplaces(j) => /\ ~RequestPending(j)
                                   /\ tmp[j] # NoStatus /\ tmp[j].st = wgoal[j]
<1>. USE DEF RetentionInv, TypeOK
<1>1. Exists(j)
  BY WorkerWrites DEF Alone, RealInv, FilesAreReal, Exists
<1>2. CASE WorkerReplaces(j)
  <2>. DEFINE met == RequestPending(j) \/ tmp[j].st # wgoal[j]
  <2>1. raced' = [raced EXCEPT ![j] = raced[j] \/ (met /\ Exists(j))]
    BY <1>2 DEF WorkerReplaces, RacedAfter
  <2>. HIDE DEF met
  <2>2. ~raced[j] /\ ~met
    BY <1>1, <2>1, Zenon DEF Alone
  <2>3. tmp[j] # NoStatus
    <3>1. wgoal[j] # "none"
      BY <1>2 DEF WorkerReplaces, RealInv, FilesAreReal, Writing
    <3>. QED  BY <2>2, <3>1 DEF met, NoStatus
  <2>. QED  BY <1>1, <2>2, <2>3 DEF met, Alone
<1>3. CASE ~WorkerReplaces(j)
  <2>1. raced' = raced
    BY <1>3 DEF WorkerStep, WorkerCrashes, WorkerChecks, WorkerComputes,
       WorkerPutsSnapshot, WorkerSavesSnapshot, WorkerReports, WorkerCollectsKeys,
       WorkerPutsArtifacts, WorkerStageRaises, WorkerReads, WorkerStages, WorkerMirrors,
       history
  <2>. QED  BY <1>1, <1>3, <2>1 DEF Alone
<1>. QED  BY <1>2, <1>3

LEMMA RequestAlone ==
    ASSUME RetentionInv, RealInv, CopiesAgree, NEW r \in Requests, RequestStep(r),
           NEW j \in Jobs, Alone(j)'
    PROVE  /\ Alone(j)
           /\ file'[j].st = file[j].st /\ file'[j].keys = file[j].keys
<1>. USE DEF RetentionInv, TypeOK
<1>. PICK k \in Jobs : k = req[r].job
  BY ThreadTypes
<1>1. Exists(j)
  BY RequestLocal, RequestWrites DEF Alone, RealInv, FilesAreReal, Exists
<1>2. CASE RequestReplaces(r) /\ j = k
  <2>. DEFINE met == tmp[j] # RequestPayload(req[r])
  <2>1. raced' = [raced EXCEPT ![j] = raced[j] \/ (met /\ Exists(j))]
    BY <1>2 DEF RequestReplaces, RacedAfter
  <2>. HIDE DEF met
  <2>2. ~raced[j] /\ ~met
    BY <1>1, <2>1, Zenon DEF Alone
  <2>3. req[r].pc = "replace"
    BY <1>2 DEF RequestReplaces
  <2>4. /\ tmp[j].st = req[r].copy.st /\ tmp[j].keys = req[r].copy.keys
    BY <2>2, PayloadKeeps, ThreadTypes DEF met
  <2>5. Alone(j)
    BY <1>1, <2>2 DEF Alone
  <2>6. req[r].copy.st = file[j].st /\ req[r].copy.keys = file[j].keys
    BY <1>2, <2>3, <2>5 DEF CopiesAgree, Holding
  <2>7. file'[j] \in {file[j], tmp[j]}
    BY <1>2, RequestWrites
  <2>. QED  BY <2>4, <2>5, <2>6, <2>7
<1>3. CASE ~(RequestReplaces(r) /\ j = k)
  <2>1. raced'[j] = raced[j]
    <3>1. CASE j # k
      BY <3>1, RequestLocal
    <3>2. CASE j = k
      BY <1>3, <3>2 DEF RequestStep, SubmitInserts, Authorizes, RequestReads, CancelMarks,
         RequestStages, RequestMirrors, SubmitEnqueues, history
    <3>. QED  BY <3>1, <3>2
  <2>2. file'[j] = file[j]
    BY <1>3, RequestLocal, RequestWrites
  <2>. QED  BY <1>1, <2>1, <2>2 DEF Alone
<1>. QED  BY <1>2, <1>3

\* The file shows how far the run has come.
LEMMA WorkerKeepsShows ==
    ASSUME RetentionInv, RealInv, NEW j \in Jobs, WorkerStep(j) \/ WorkerCrashes(j),
           Alone(j)', Shows(j)
    PROVE  Shows(j)'
<1>. USE DEF RetentionInv, TypeOK, Goto, Update, Raise
<1>. DEFINE st == file[j].st
<1>1. CASE WorkerChecks(j) \/ WorkerComputes(j)
  BY <1>1, FollowTable DEF WorkerChecks, WorkerComputes, Shows, Checkpoints, disk, stores
<1>2. CASE WorkerPutsSnapshot(j) \/ WorkerSavesSnapshot(j) \/ WorkerReports(j)
  BY <1>2, FollowTable DEF WorkerPutsSnapshot, WorkerSavesSnapshot, WorkerReports, Shows,
     disk, stores
<1>3. CASE WorkerCollectsKeys(j) \/ WorkerPutsArtifacts(j)
  BY <1>3 DEF WorkerCollectsKeys, WorkerPutsArtifacts, Shows, disk, stores
<1>4. CASE WorkerCrashes(j)
  BY <1>4 DEF WorkerCrashes, Abandon, Shows
<1>5. CASE WorkerStageRaises(j)
  <2>1. Follows(st, "failed")
    BY <1>5, FollowTable DEF WorkerStageRaises, Shows, Stages, Results
  <2>. QED  BY <1>5, <2>1 DEF WorkerStageRaises, Shows, Stages, Writing, disk, stores
<1>6. CASE WorkerReads(j) \/ WorkerStages(j)
  <2>1. Exists(j)
    BY WorkerAlone DEF Alone
  <2>. QED  BY <1>6, <2>1 DEF WorkerReads, WorkerStages, Shows, disk, stores
<1>7. CASE WorkerReplaces(j)
  <2>1. tmp[j] # NoStatus /\ tmp[j].st = wgoal[j]
    BY <1>7, WorkerAlone
  <2>2. Follows(st, wgoal[j])
    BY <1>7 DEF WorkerReplaces, Shows
  <2>3. wgoal[j] # "queued"
    BY <2>2, FollowTable
  <2>. QED  BY <1>7, <2>1, <2>3 DEF WorkerReplaces, Publish, Shows
<1>8. CASE WorkerMirrors(j)
  <2>1. st = wgoal[j] /\ wgoal[j] \notin {"queued", "none"} /\ wpc[j] = "mirror"
    BY <1>8 DEF WorkerMirrors, Shows, RealInv, FilesAreReal, Writing
  <2>2. UNCHANGED <<file, wgoal>> \/ Raise(j)
    BY <1>8 DEF WorkerMirrors, disk
  <2>3. CASE Goto(j, After(wgoal[j])) /\ row' = Mirrored(j, wgoal[j]) /\ UNCHANGED wgoal
    <3>1. file' = file /\ wpc'[j] = After(st) /\ row'[j] \in {st, "none"}
      BY <1>8, <2>1, <2>3 DEF WorkerMirrors, Mirrored, disk
    <3>2. st \in {"validating", "comparing", "rendering"} \cup Terminal
      BY <2>1 DEF Active, Terminal
    <3>. QED  BY <3>1, <3>2 DEF After, Shows, Terminal
  <2>4. CASE Raise(j)
    <3>1. file' = file
      BY <1>8 DEF WorkerMirrors, disk
    <3>2. CASE wgoal[j] \in {"cancelled", "failed"}
      BY <2>1, <2>4, <3>1, <3>2 DEF Writing, Shows, Terminal
    <3>3. CASE wgoal[j] \notin {"cancelled", "failed"}
      <4>1. Follows(st, "failed")
        BY <2>1, <3>3, FollowTable DEF Active, Terminal, Results
      <4>. QED  BY <2>4, <3>1, <3>3, <4>1 DEF Writing, Shows
    <3>. QED  BY <3>2, <3>3
  <2>. QED  BY <1>8, <2>3, <2>4 DEF WorkerMirrors
<1>. QED
  BY <1>1, <1>2, <1>3, <1>4, <1>5, <1>6, <1>7, <1>8 DEF WorkerStep

\* The keys that a run is about to record are those of what it has stored.
LEMMA WorkerKeepsRecords ==
    ASSUME RetentionInv, RealInv, NEW j \in Jobs, WorkerStep(j) \/ WorkerCrashes(j),
           Alone(j)', Shows(j), Records(j)
    PROVE  Records(j)'
<1>. USE DEF RetentionInv, TypeOK, Goto, Update, Raise
<1>1. CASE WorkerChecks(j) \/ WorkerComputes(j)
  BY <1>1 DEF WorkerChecks, WorkerComputes, Records, Recording, Checkpoints, disk
<1>2. CASE WorkerPutsSnapshot(j)
  BY <1>2 DEF WorkerPutsSnapshot, Records, disk
<1>3. CASE WorkerSavesSnapshot(j)
  <2>1. /\ file' = file /\ wpc'[j] = "read" /\ wgoal'[j] = "comparing"
        /\ wkeys'[j] = file[j].keys \cup {"snapshot"}
    BY <1>3 DEF WorkerSavesSnapshot, disk
  <2>. QED  BY <2>1 DEF Records, Needed
<1>4. CASE WorkerReports(j)
  BY <1>4 DEF WorkerReports, Records, Results, Recording, disk
<1>5. CASE WorkerCollectsKeys(j)
  <2>1. Follows(file[j].st, wgoal[j]) /\ wgoal[j] \in Results
    BY <1>5 DEF WorkerCollectsKeys, Shows, Records
  <2>2. "snapshot" \in file[j].keys
    BY <2>1, FollowTable DEF Records, Needed, Results
  <2>. QED
    BY <1>5, <2>1, <2>2 DEF WorkerCollectsKeys, RecordedKeys, Records, disk
<1>6. CASE WorkerPutsArtifacts(j)
  <2>1. wgoal[j] \in Results /\ "snapshot" \in wkeys[j]
    BY <1>6 DEF WorkerPutsArtifacts, Records
  <2>2. /\ UNCHANGED <<file, tmp, wgoal>> /\ wpc'[j] = "read"
        /\ wkeys'[j] = wkeys[j] \cup {"artifacts"}
    BY <1>6 DEF WorkerPutsArtifacts, disk
  <2>3. Needed(wgoal[j]) \subseteq wkeys'[j]
    BY <2>1, <2>2 DEF Needed, ObjectKeys
  <2>. QED  BY <2>2, <2>3 DEF Records
<1>7. CASE WorkerStageRaises(j) \/ WorkerCrashes(j)
  BY <1>7 DEF WorkerStageRaises, WorkerCrashes, Abandon, Records, Recording, Stages, Writing,
     disk
<1>8. CASE WorkerReads(j)
  <2>1. Exists(j)
    BY WorkerAlone DEF Alone
  <2>2. wgoal[j] = "rendering" => "snapshot" \in file[j].keys
    BY <1>8, FollowTable DEF WorkerReads, Shows, Records, Needed, Results
  <2>3. /\ UNCHANGED <<file, tmp, wgoal, wkeys>> /\ wpc'[j] = "stage" /\ wpc[j] = "read"
        /\ wcopy'[j] = file[j]
    BY <1>8, <2>1 DEF WorkerReads, disk
  <2>. QED  BY <2>2, <2>3 DEF Records
<1>9. CASE WorkerStages(j)
  <2>1. Exists(j)
    BY WorkerAlone DEF Alone
  <2>2. /\ UNCHANGED <<file, wgoal>> /\ wpc'[j] = "replace" /\ wpc[j] = "stage"
        /\ tmp'[j] = WorkerPayload(j)
    BY <1>9, <2>1 DEF WorkerStages
  <2>3. WorkerPayload(j).keys = IF wgoal[j] \in Recording THEN wkeys[j] ELSE wcopy[j].keys
    BY DEF WorkerPayload, Status
  <2>4. wgoal[j] \notin Recording /\ wgoal[j] # "rendering" => Needed(wgoal[j]) = {}
    BY DEF Needed, Recording, Results
  <2>5. wgoal[j] = "rendering" => Needed(wgoal[j]) = {"snapshot"} /\ wgoal[j] \notin Recording
    BY DEF Needed, Recording
  <2>6. Needed(wgoal[j]) \subseteq tmp'[j].keys
    BY <2>2, <2>3, <2>4, <2>5 DEF Records
  <2>. QED  BY <2>2, <2>6 DEF Records
<1>10. CASE WorkerReplaces(j)
  <2>1. tmp[j] # NoStatus /\ tmp[j].st = wgoal[j]
    BY <1>10, WorkerAlone
  <2>2. file'[j] = tmp[j] /\ wpc'[j] = "mirror" /\ wpc[j] = "replace"
    BY <1>10, <2>1 DEF WorkerReplaces, Publish
  <2>. QED  BY <2>1, <2>2 DEF Records
<1>11. CASE WorkerMirrors(j)
  BY <1>11 DEF WorkerMirrors, After, Records, Recording, Writing, disk
<1>. QED
  BY <1>1, <1>2, <1>3, <1>4, <1>5, <1>6, <1>7, <1>8, <1>9, <1>10, <1>11 DEF WorkerStep

LEMMA WorkerKeepsAlone ==
    ASSUME RetentionInv, RealInv, AloneInv,
           NEW j \in Jobs, WorkerStep(j) \/ WorkerCrashes(j)
    PROVE  AloneInv'
<1>. USE DEF RetentionInv, AloneInv
<1>1. ASSUME NEW i \in Jobs, Alone(i)'
      PROVE  /\ Alone(i)
             /\ Shows(i)' /\ Records(i)'
  <2>1. CASE i # j
    <3>1. Alone(i)
      BY <1>1, <2>1, WorkerLocal DEF Alone, Exists
    <3>2. Shows(i) /\ Records(i)
      BY <3>1
    <3>. QED  BY <2>1, <3>1, <3>2, WorkerLocal DEF Shows, Records
  <2>2. CASE i = j
    BY <1>1, <2>2, WorkerAlone, WorkerKeepsShows, WorkerKeepsRecords
  <2>. QED  BY <2>1, <2>2
<1>2. CopiesAgree'
  <2>. SUFFICES ASSUME NEW r \in Requests, NEW i \in Jobs, i = req[r].job,
                       Alone(i)', req[r].pc \in Holding
                PROVE  /\ req[r].copy.st = file'[i].st
                       /\ req[r].copy.keys = file'[i].keys
    BY WorkerLocal, ThreadTypes DEF CopiesAgree
  <2>1. Alone(i)
    BY <1>1
  <2>2. req[r].copy.st = file[i].st /\ req[r].copy.keys = file[i].keys
    BY <2>1 DEF CopiesAgree
  <2>3. CASE file'[i] = file[i]
    BY <2>2, <2>3
  <2>4. CASE file'[i] # file[i]
    <3>1. i = j /\ WorkerReplaces(j)
      BY <2>4, WorkerLocal, WorkerWrites
    <3>2. ~RequestPending(j) /\ wpc[j] # "absent"
      BY <3>1, WorkerAlone DEF WorkerReplaces
    <3>3. req[r].kind \notin {"cancel", "delete"}
      BY <3>1, <3>2 DEF RequestPending, Holding
    <3>4. req[r].kind # "none"
      BY DEF RealInv, RequestsAreReal, Holding
    <3>5. req[r].kind = "submit"
      BY <3>3, <3>4, ThreadTypes DEF RequestType
    <3>. QED  BY <3>1, <3>2, <3>5 DEF SubmitsOnce
  <2>. QED  BY <2>3, <2>4
<1>3. PurgeFits'
  <2>. PICK c \in Jobs : c = cjob
    BY DEF TypeOK
  <2>1. UNCHANGED <<cpc, cjob, ckeys>>
    BY WorkerLocal DEF cleanerVars
  <2>. SUFFICES ASSUME cpc \in {"objects", "tree"}, Alone(c)'
                PROVE  /\ file'[c].st \in Terminal
                       /\ file'[c].st \in Results =>
                             objects'[c] \subseteq (IF cpc = "tree" THEN {} ELSE ckeys)
    BY <2>1 DEF PurgeFits, Alone, Exists
  <2>2. Alone(c) /\ Finishing(c)
    BY <1>1, <2>1 DEF SettlingIsLast, Settling
  <2>3. /\ file[c].st \in Terminal
        /\ file[c].st \in Results =>
              objects[c] \subseteq (IF cpc = "tree" THEN {} ELSE ckeys)
    BY <2>2 DEF PurgeFits
  <2>4. objects'[c] = objects[c]
    <3>1. CASE c # j
      BY <3>1, WorkerLocal
    <3>2. CASE c = j
      BY <2>2, <3>2 DEF Finishing, Ended, Writing, WorkerStep, WorkerCrashes, WorkerChecks,
         WorkerComputes, WorkerPutsSnapshot, WorkerSavesSnapshot, WorkerReports,
         WorkerCollectsKeys, WorkerPutsArtifacts, WorkerStageRaises, Stages, WorkerReads,
         WorkerStages, WorkerReplaces, WorkerMirrors, stores
    <3>. QED  BY <3>1, <3>2
  <2>5. CASE file'[c] = file[c]
    BY <2>3, <2>4, <2>5
  <2>6. CASE file'[c] # file[c]
    <3>1. c = j /\ WorkerReplaces(j) /\ file'[j] = tmp[j]
      BY <2>6, WorkerLocal, WorkerWrites
    <3>2. tmp[j].st = wgoal[j]
      BY <3>1, WorkerAlone
    <3>3. Follows(file[j].st, wgoal[j])
      BY <2>2, <3>1 DEF WorkerReplaces, Shows
    <3>4. wgoal[j] = "failed"
      BY <2>3, <3>1, <3>3, FollowTable DEF Terminal
    <3>. QED  BY <3>1, <3>2, <3>4 DEF Terminal, Results
  <2>. QED  BY <2>5, <2>6
<1>. QED  BY <1>1, <1>2, <1>3

LEMMA RequestKeepsAlone ==
    ASSUME RetentionInv, RealInv, AloneInv, NEW r \in Requests, RequestStep(r)
    PROVE  AloneInv'
<1>. USE DEF RetentionInv, AloneInv
<1>. PICK k \in Jobs : k = req[r].job
  BY ThreadTypes
<1>1. \A i \in Jobs : Alone(i)' =>
         Alone(i) /\ file'[i].st = file[i].st /\ file'[i].keys = file[i].keys
  BY RequestAlone
<1>2. CopiesAgree'
  <2>1. ASSUME NEW q \in Requests, q # r, NEW i \in Jobs, i = req[q].job, Alone(i)',
               req[q].pc \in Holding
        PROVE  req[q].copy.st = file'[i].st /\ req[q].copy.keys = file'[i].keys
    BY <1>1, <2>1 DEF CopiesAgree
  <2>2. ASSUME NEW i \in Jobs, i = req'[r].job, Alone(i)', req'[r].pc \in Holding
        PROVE  req'[r].copy.st = file'[i].st /\ req'[r].copy.keys = file'[i].keys
    <3>1. req'[r] # Idle
      BY <2>2 DEF Idle, Holding
    <3>2. CASE RequestReads(r) /\ req'[r].copy = file[k] /\ req'[r].job = k
      BY <1>1, <2>2, <3>2
    <3>3. CASE /\ req'[r].copy = req[r].copy /\ req'[r].job = k
               /\ req'[r].pc \in Holding => req[r].pc \in {"mark", "stage", "replace"}
      BY <1>1, <2>2, <3>3 DEF CopiesAgree, Holding
    <3>. QED  BY <3>1, <3>2, <3>3, RequestWrites
  <2>3. \A q \in Requests : req'[q].job \in Jobs
    BY RequestStepTypeOK DEF TypeOK, RequestType
  <2>4. \A q \in Requests : q # r => req'[q] = req[q]
    BY RequestLocal
  <2>. QED  BY <2>1, <2>2, <2>3, <2>4 DEF CopiesAgree, Alone, Exists
<1>3. ASSUME NEW i \in Jobs, Alone(i)'
      PROVE  Shows(i)' /\ Records(i)'
  <2>1. Alone(i) /\ Shows(i) /\ Records(i)
    BY <1>1, <1>3
  <2>2. UNCHANGED <<wcopy, wgoal, wkeys>>
    BY RequestLocal
  <2>3. /\ file'[i].st = file[i].st /\ file'[i].keys = file[i].keys
        /\ wpc'[i] = wpc[i] \/ (wpc[i] = "absent" /\ wpc'[i] = "waiting")
    BY <1>1, <1>3, EnqueueStarts
  <2>4. row[i] \in {file[i].st, "none"} => wpc[i] = "absent" \/ row'[i] \in {file[i].st, "none"}
    <3>1. CASE SubmitInserts(r)
      <4>1. wpc[k] = "absent"
        BY <3>1 DEF SubmitInserts, SubmitsOnce
      <4>. QED  BY <4>1, RequestLocal
    <3>2. CASE RequestMirrors(r)
      <4>1. i = k => req[r].copy.st = file[i].st
        BY <2>1, <3>2 DEF RequestMirrors, CopiesAgree, Holding
      <4>2. i = k => row'[i] \in {row[i], "none", req[r].copy.st}
        BY <3>2 DEF RequestMirrors, Mirrored, TypeOK
      <4>. QED  BY <4>1, <4>2, RequestLocal
    <3>3. CASE ~SubmitInserts(r) /\ ~RequestMirrors(r)
      BY <3>3 DEF RequestStep, Authorizes, RequestReads, CancelMarks, RequestStages,
         RequestReplaces, SubmitEnqueues, stores
    <3>. QED  BY <3>1, <3>2, <3>3
  <2>5. Shows(i)'
    <3>1. row'[i] \in {file[i].st, "none"} \/ wpc[i] # "done"
      BY <2>1, <2>4 DEF Shows
    <3>. QED  BY <2>1, <2>2, <2>3, <3>1 DEF Shows
  <2>6. wpc[i] = "replace" /\ tmp'[i].st = wgoal[i] => tmp'[i] = tmp[i]
    <3>1. SUFFICES ASSUME wpc[i] = "replace", tmp'[i].st = wgoal[i], tmp'[i] # tmp[i]
                   PROVE  FALSE
      OBVIOUS
    <3>2. i = k
      BY <3>1, RequestLocal
    <3>3. CASE tmp'[i] = NoStatus
      BY <3>1, <3>3 DEF NoStatus, RealInv, FilesAreReal, Writing
    <3>4. CASE RequestStages(r) /\ tmp'[i] = RequestPayload(req[r])
      <4>1. tmp'[i].st = req[r].copy.st
        BY <3>4, PayloadKeeps, ThreadTypes
      <4>2. req[r].copy.st = file[i].st
        BY <2>1, <3>2, <3>4 DEF RequestStages, CopiesAgree, Holding
      <4>3. Follows(file[i].st, wgoal[i])
        BY <2>1, <3>1 DEF Shows
      <4>. QED  BY <3>1, <4>1, <4>2, <4>3, FollowTable DEF Results
    <3>. QED  BY <3>1, <3>2, <3>3, <3>4, RequestWrites
  <2>7. Records(i)'
    BY <2>1, <2>2, <2>3, <2>6 DEF Records
  <2>. QED  BY <2>5, <2>7
<1>4. PurgeFits'
  <2>1. UNCHANGED <<cpc, cjob, ckeys, objects>>
    BY RequestLocal DEF cleanerVars
  <2>2. cjob \in Jobs
    BY DEF TypeOK
  <2>3. Alone(cjob)' => Alone(cjob) /\ file'[cjob].st = file[cjob].st
    <3>1. \A i \in Jobs : i = cjob => (Alone(i)' => Alone(i) /\ file'[i].st = file[i].st)
      BY <1>1
    <3>. QED  BY <2>1, <2>2, <3>1 DEF Alone, Exists
  <2>. QED  BY <2>1, <2>3 DEF PurgeFits
<1>. QED  BY <1>2, <1>3, <1>4

LEMMA SubmitKeepsAlone ==
    ASSUME RetentionInv, RealInv, AloneInv,
           NEW r \in Submitters, NEW j \in Jobs, SubmitCreates(r, j)
    PROVE  AloneInv'
<1>. USE DEF RetentionInv, AloneInv
<1>0. r \in Requests
  BY DEF Requests
<1>1. /\ UNCHANGED <<tmp, row, objects, raced, wpc, wcopy, wgoal, wkeys, cpc, cjob, ckeys>>
      /\ wpc[j] = "absent" /\ ~Exists(j) /\ file'[j] = Queued
      /\ \A i \in Jobs : i # j => file'[i] = file[i]
      /\ \A q \in Requests : q # r => req'[q] = req[q]
      /\ req'[r].pc = "insert"
  BY SubmitFrame DEF stores, history, workerVars, cleanerVars
<1>2. \A i \in Jobs : i # j => (Alone(i)' <=> Alone(i))
  BY <1>1 DEF Alone, Exists
<1>3. CopiesAgree'
  <2>1. \A q \in Requests : req[q].job \in Jobs
    BY ThreadTypes
  <2>2. \A q \in Requests : req[q].pc \in Holding => req[q].job # j
    BY <1>1 DEF RealInv, RequestsAreReal
  <2>3. ASSUME NEW q \in Requests, q # r, NEW i \in Jobs, i = req[q].job, Alone(i)',
               req[q].pc \in Holding
        PROVE  req[q].copy.st = file'[i].st /\ req[q].copy.keys = file'[i].keys
    BY <1>1, <1>2, <2>2, <2>3 DEF CopiesAgree
  <2>. QED  BY <1>1, <2>1, <2>3 DEF CopiesAgree, Holding, Alone, Exists
<1>4. ASSUME NEW i \in Jobs, Alone(i)' PROVE Shows(i)' /\ Records(i)'
  <2>1. CASE i # j
    BY <1>1, <1>2, <1>4, <2>1 DEF Shows, Records
  <2>2. CASE i = j
    <3>1. Queued.st = "queued" /\ Needed("queued") = {}
      BY DEF Queued, NoStatus, Needed, Results
    <3>. QED  BY <1>1, <2>2, <3>1 DEF Shows, Records
  <2>. QED  BY <2>1, <2>2
<1>5. PurgeFits'
  <2>1. cpc \in {"objects", "tree"} => cjob \in Jobs /\ Finishing(cjob)
    BY DEF TypeOK, SettlingIsLast, Settling
  <2>2. cpc \in {"objects", "tree"} => cjob \in Jobs /\ cjob # j
    BY <1>1, <2>1, AbsentIsNotFinishing
  <2>3. cpc \in {"objects", "tree"} =>
           file'[cjob] = file[cjob] /\ (Alone(cjob)' => Alone(cjob))
    BY <1>1, <2>2 DEF Alone, Exists
  <2>. QED  BY <1>1, <2>3 DEF PurgeFits
<1>. QED  BY <1>3, <1>4, <1>5

LEMMA PassKeepsAlone ==
    ASSUME RetentionInv, RealInv, AloneInv, PassStep \/ PassAborts
    PROVE  AloneInv'
<1>. USE DEF RetentionInv, AloneInv
<1>1. /\ UNCHANGED <<raced, wpc, wcopy, wgoal, wkeys, req>>
      /\ \A i \in Jobs : row'[i] \in {row[i], "none"}
  BY PassLocal DEF workerVars, history
<1>2. \A i \in Jobs : Alone(i)' => Alone(i) /\ file'[i] = file[i] /\ tmp'[i] = tmp[i]
  BY <1>1, PassLocal, TreeGoesAfterRun DEF Alone, Exists, disk
<1>3. CopiesAgree'
  <2>1. \A q \in Requests : req[q].job \in Jobs
    BY ThreadTypes
  <2>. QED  BY <1>1, <1>2, <2>1 DEF CopiesAgree, Alone, Exists
<1>4. \A i \in Jobs : Alone(i)' => Shows(i)' /\ Records(i)'
  BY <1>1, <1>2 DEF Shows, Records
<1>5. PurgeFits'
  <2>1. CASE PassBegins \/ PassEnds \/ PassAborts \/ PassRemovesTree
    BY <2>1 DEF PassBegins, PassEnds, PassAborts, PassRemovesTree, PurgeFits
  <2>2. ASSUME NEW j \in Jobs, PassExamines(j) PROVE PurgeFits'
    <3>1. CASE Purgeable(j)
      <4>1. /\ cpc' = "objects" /\ cjob' = j /\ ckeys' = file[j].keys
            /\ UNCHANGED <<file, raced, objects>>
        BY <2>2, <3>1 DEF PassExamines, disk, stores, history
      <4>2. Alone(j) /\ file[j].st \in Results => file[j].keys = ObjectKeys
        <5>1. file[j].keys \subseteq ObjectKeys
          BY DEF TypeOK, Status
        <5>2. file[j].st \in Results => Needed(file[j].st) = ObjectKeys
          BY DEF Needed, Results
        <5>. QED  BY <5>1, <5>2 DEF Records
      <4>3. objects[j] \subseteq ObjectKeys /\ file[j].st \in Terminal
        BY <3>1 DEF TypeOK, Purgeable
      <4>. QED  BY <4>1, <4>2, <4>3 DEF PurgeFits, Alone, Exists
    <3>2. CASE ~Purgeable(j)
      BY <2>2, <3>2 DEF PassExamines, PurgeFits
    <3>. QED  BY <3>1, <3>2
  <2>3. ASSUME NEW key \in ObjectKeys, PassDeletesObject(key) PROVE PurgeFits'
    <3>1. /\ UNCHANGED <<file, raced, cpc, cjob>> /\ cpc = "objects"
          /\ objects'[cjob] = objects[cjob] \ {key} /\ ckeys' = ckeys \ {key}
      BY <2>3 DEF PassDeletesObject, TypeOK, disk, history
    <3>. QED  BY <3>1 DEF PurgeFits, Alone, Exists
  <2>4. CASE PassPurgesRow
    <3>1. /\ UNCHANGED <<file, raced, objects, cjob, ckeys>>
          /\ cpc = "objects" /\ cpc' = "tree" /\ ckeys = {}
      BY <2>4 DEF PassPurgesRow, disk, history
    <3>. QED  BY <3>1 DEF PurgeFits, Alone, Exists
  <2>. QED  BY <2>1, <2>2, <2>3, <2>4 DEF PassStep
<1>. QED  BY <1>3, <1>4, <1>5

\* Client questions and the clock.
LEMMA QuietKeepsAlone ==
    ASSUME RetentionInv, AloneInv,
           \/ \E r \in Clients, kind \in Kinds, j \in Jobs : ClientAsks(r, kind, j)
           \/ \E j \in Jobs : ClockStep(j)
           \/ UNCHANGED vars
    PROVE  AloneInv'
<1>. USE DEF RetentionInv, AloneInv
<1>1. UNCHANGED <<file, tmp, row, objects, raced, wpc, wcopy, wgoal, wkeys, cpc, cjob, ckeys>>
  BY AskFrame DEF ClockStep, RetentionElapses, DeleteDelayElapses, vars, disk, stores,
     history, workerVars, cleanerVars
<1>2. \A q \in Requests : req'[q] = req[q] \/ req'[q].pc = "authorize"
  BY AskFrame DEF ClockStep, RetentionElapses, DeleteDelayElapses, vars
<1>3. CopiesAgree'
  BY <1>1, <1>2 DEF CopiesAgree, Holding, Alone, Exists
<1>. QED  BY <1>1, <1>3 DEF Shows, Records, PurgeFits, Alone, Exists

\* As long as no two writers have met over the status of a job, its status,
\* keys and row agree with the run, with every pending request and with the
\* purge.
THEOREM AloneInvariant == Spec => []AloneInv
<1>1. Init => AloneInv
  BY DEF Init, AloneInv, CopiesAgree, PurgeFits, Alone, Exists, Idle, Holding
<1>2. RetentionInv /\ RealInv /\ AloneInv /\ [Next]_vars => AloneInv'
  BY RequestKeepsAlone, WorkerKeepsAlone, SubmitKeepsAlone, PassKeepsAlone, QuietKeepsAlone
     DEF Next
<1>. QED  BY <1>1, <1>2, RetentionInvariant, RealInvariant, PTL DEF Spec

\* A run that is over, and was not killed, leaves a settled status and a row
\* that agrees with it, unless two writers have met over the status.
THEOREM RunSettles == Spec => []RunSettlesUnlessRaced
<1>1. TypeOK /\ AloneInv => RunSettlesUnlessRaced
  BY DEF AloneInv, Shows, Alone, RunSettlesUnlessRaced
<1>. QED  BY <1>1, TypeCorrect, AloneInvariant, PTL

\* When the directory of a job with a result goes, all its objects have gone.
THEOREM NoOrphans == Spec => NoOrphanObjects
<1>. DEFINE Goes(j) == /\ Exists(j) /\ ~Exists(j)'
                       /\ file[j].st \in {"completed", "manual_review"}
                       /\ ~raced[j]
                       => objects[j] = {}
<1>1. RetentionInv /\ RealInv /\ AloneInv /\ [Next]_vars => \A j \in Jobs : Goes(j)
  <2>. SUFFICES ASSUME RetentionInv, RealInv, AloneInv, [Next]_vars,
                       NEW j \in Jobs, Exists(j), ~Exists(j)',
                       file[j].st \in Results, ~raced[j]
                PROVE  objects[j] = {}
    BY DEF Results
  <2>. USE DEF RetentionInv
  <2>1. \A r \in Requests : ~RequestStep(r)
    BY RequestLocal, RequestWrites DEF Exists
  <2>2. \A i \in Jobs : ~WorkerStep(i) /\ ~WorkerCrashes(i)
    BY WorkerFrame DEF Exists
  <2>3. \A r \in Submitters, i \in Jobs : ~SubmitCreates(r, i)
    BY SubmitFrame DEF Exists
  <2>4. file' # file
    BY DEF Exists
  <2>5. PassStep \/ PassAborts
    BY <2>1, <2>2, <2>3, <2>4, AskFrame DEF Next, ClockStep, RetentionElapses,
       DeleteDelayElapses, vars, disk
  <2>6. PassRemovesTree
    BY <2>4, <2>5, PassLocal DEF disk
  <2>7. j = cjob /\ cpc = "tree"
    BY <2>6, TreeGoesAfterRun DEF PassRemovesTree, Exists
  <2>. QED  BY <2>7 DEF AloneInv, PurgeFits, Alone
<1>. QED  BY <1>1, RetentionInvariant, RealInvariant, AloneInvariant, PTL DEF Spec, NoOrphanObjects

-----------------------------------------------------------------------------
(* The promise.  A step changes what a client sees of one job at most: along *)
(* the phases, as a purge, or as a race that voids the promise of that job.  *)

PhaseOf(j) == IF Exists(j) THEN file[j].st
              ELSE IF wpc[j] = "absent" THEN "none" ELSE "purged"

Phase == [j \in Jobs |-> IF Exists(j) THEN file[j].st
                         ELSE IF wpc[j] = "absent" THEN "none" ELSE "purged"]

Visible == {"queued", "validating", "comparing", "rendering",
            "completed", "manual_review", "cancelled", "failed"}

LEMMA VisibleStatuses == Visible = Promise!Statuses /\ Visible = Active \cup Terminal
  BY DEF Visible, Promise!Statuses, Promise!Successors, Active, Terminal

\* What a step may do to the job that it changes.
Moves(j) ==
    \/ PhaseOf(j)' = PhaseOf(j) /\ raced'[j] = raced[j]
    \/ PhaseOf(j) = "none" /\ PhaseOf(j)' = "queued" /\ raced'[j] = raced[j]
    \/ Follows(PhaseOf(j), PhaseOf(j)') /\ raced'[j] = raced[j]
    \/ PhaseOf(j) \in Terminal /\ PhaseOf(j)' = "purged" /\ raced'[j] = raced[j]
    \/ PhaseOf(j) \in Visible /\ raced'[j] = TRUE
          /\ PhaseOf(j)' \in Visible \cup {"purged"}

LEMMA MoveIsPromised ==
    ASSUME TypeOK, TypeOK', NEW j \in Jobs, Moves(j),
           \A i \in Jobs : i # j => PhaseOf(i)' = PhaseOf(i) /\ raced'[i] = raced[i]
    PROVE  [Promise!Next]_<<Phase, raced>>
<1>1. /\ Phase' = [Phase EXCEPT ![j] = PhaseOf(j)']
      /\ Phase[j] = PhaseOf(j)
  BY DEF Phase, PhaseOf, Exists
<1>2. raced' = [raced EXCEPT ![j] = raced'[j]]
  BY DEF TypeOK
<1>3. raced'[j] = raced[j] => raced' = raced
  BY <1>2 DEF TypeOK
<1>4. CASE PhaseOf(j)' = PhaseOf(j) /\ raced'[j] = raced[j]
  BY <1>1, <1>3, <1>4 DEF Phase
<1>5. CASE PhaseOf(j) = "none" /\ PhaseOf(j)' = "queued" /\ raced'[j] = raced[j]
  <2>1. Promise!Submit(j)
    BY <1>1, <1>3, <1>5 DEF Promise!Submit, Phase
  <2>. QED  BY <2>1 DEF Promise!Next
<1>6. CASE Follows(PhaseOf(j), PhaseOf(j)') /\ raced'[j] = raced[j]
  <2>1. Promise!Advance(j)
    BY <1>1, <1>3, <1>6 DEF Promise!Advance, Phase, Follows
  <2>. QED  BY <2>1 DEF Promise!Next
<1>7. CASE PhaseOf(j) \in Terminal /\ PhaseOf(j)' = "purged" /\ raced'[j] = raced[j]
  <2>1. Promise!Purge(j)
    BY <1>1, <1>3, <1>7 DEF Promise!Purge, Promise!Settled, Phase, Terminal
  <2>. QED  BY <2>1 DEF Promise!Next
<1>8. CASE /\ PhaseOf(j) \in Visible /\ raced'[j] = TRUE
           /\ PhaseOf(j)' \in Visible \cup {"purged"}
  <2>1. Promise!Race(j)
    BY <1>1, <1>2, <1>8, VisibleStatuses DEF Promise!Race, Phase
  <2>. QED  BY <2>1 DEF Promise!Next
<1>. QED  BY <1>4, <1>5, <1>6, <1>7, <1>8 DEF Moves

LEMMA StillIsPromised ==
    ASSUME UNCHANGED <<file, wpc, raced>>
    PROVE  [Promise!Next]_<<Phase, raced>>
  BY DEF Phase, Exists

\* The status of a file that exists is one that a client can see.
LEMMA FilesAreVisible ==
    ASSUME TypeOK, RealInv, NEW j \in Jobs, Exists(j)
    PROVE  file[j].st \in Visible
  BY VisibleStatuses DEF TypeOK, Status, RealInv, FilesAreReal

\* The history variable is set for existing jobs only.
LEMMA RacedWhileThere ==
    ASSUME TypeOK, NEW j \in Jobs, ~Exists(j),
           \/ \E i \in Jobs : WorkerStep(i) \/ WorkerCrashes(i)
           \/ \E r \in Requests : RequestStep(r)
    PROVE  raced'[j] = raced[j]
<1>1. ASSUME NEW i \in Jobs, WorkerReplaces(i) PROVE raced'[j] = raced[j]
  BY <1>1, Zenon DEF WorkerReplaces, RacedAfter, TypeOK
<1>2. ASSUME NEW r \in Requests, RequestReplaces(r) PROVE raced'[j] = raced[j]
  BY <1>2, ThreadTypes, Zenon DEF RequestReplaces, RacedAfter, TypeOK
<1>3. ASSUME NEW i \in Jobs, WorkerStep(i) \/ WorkerCrashes(i) PROVE raced'[j] = raced[j]
  BY <1>1, <1>3 DEF WorkerStep, WorkerCrashes, WorkerChecks, WorkerComputes,
     WorkerPutsSnapshot, WorkerSavesSnapshot, WorkerReports, WorkerCollectsKeys,
     WorkerPutsArtifacts, WorkerStageRaises, WorkerReads, WorkerStages, WorkerMirrors,
     history
<1>4. ASSUME NEW r \in Requests, RequestStep(r) PROVE raced'[j] = raced[j]
  BY <1>2, <1>4 DEF RequestStep, SubmitInserts, Authorizes, RequestReads, CancelMarks,
     RequestStages, RequestMirrors, SubmitEnqueues, history
<1>. QED  BY <1>3, <1>4

PromiseInv == RetentionInv /\ RealInv /\ AloneInv

LEMMA WorkerKeepsPromise ==
    ASSUME PromiseInv, TypeOK', RealInv', NEW j \in Jobs, WorkerStep(j) \/ WorkerCrashes(j)
    PROVE  [Promise!Next]_<<Phase, raced>>
<1>. USE DEF PromiseInv, RetentionInv
<1>1. \A i \in Jobs : i # j => PhaseOf(i)' = PhaseOf(i) /\ raced'[i] = raced[i]
  BY WorkerLocal DEF PhaseOf, Exists
<1>2. CASE ~Exists(j)
  <2>1. ~Exists(j)'
    BY <1>2, WorkerWrites DEF RealInv, FilesAreReal, Exists
  <2>2. wpc[j] # "absent" /\ wpc'[j] # "absent"
    BY WorkerFrame
  <2>3. Moves(j)
    BY <1>2, <2>1, <2>2, RacedWhileThere DEF Moves, PhaseOf
  <2>. QED  BY <1>1, <2>3, MoveIsPromised
<1>3. CASE Exists(j)
  <2>1. Exists(j)'
    BY <1>3, WorkerFrame DEF Exists
  <2>2. file[j].st \in Visible /\ file'[j].st \in Visible
    <3>1. \A i \in Jobs : Exists(i)' => file'[i].st \in Visible
      BY VisibleStatuses DEF TypeOK, Status, RealInv, FilesAreReal
    <3>. QED  BY <1>3, <2>1, <3>1, FilesAreVisible
  <2>3. PhaseOf(j) = file[j].st /\ PhaseOf(j)' = file'[j].st
    BY <1>3, <2>1 DEF PhaseOf
  <2>4. CASE raced'[j] = TRUE
    BY <1>1, <2>2, <2>3, <2>4, MoveIsPromised DEF Moves
  <2>5. CASE raced'[j] = FALSE
    <3>1. Alone(j)'
      BY <2>1, <2>5 DEF Alone
    <3>2. Alone(j) /\ raced[j] = FALSE
      BY <3>1, WorkerAlone DEF Alone, TypeOK
    <3>3. CASE file'[j] = file[j]
      BY <1>1, <2>3, <2>5, <3>2, <3>3, MoveIsPromised DEF Moves
    <3>4. CASE file'[j] # file[j]
      <4>1. WorkerReplaces(j) /\ file'[j] = tmp[j]
        BY <3>4, WorkerWrites
      <4>2. tmp[j].st = wgoal[j]
        BY <3>1, <4>1, WorkerAlone
      <4>3. Follows(file[j].st, wgoal[j])
        BY <3>2, <4>1 DEF WorkerReplaces, AloneInv, Shows
      <4>4. Moves(j)
        BY <2>3, <2>5, <3>2, <4>1, <4>2, <4>3 DEF Moves
      <4>. QED  BY <1>1, <4>4, MoveIsPromised
    <3>. QED  BY <3>3, <3>4
  <2>. QED  BY <2>4, <2>5 DEF TypeOK
<1>. QED  BY <1>2, <1>3

LEMMA RequestKeepsPromise ==
    ASSUME PromiseInv, TypeOK', RealInv', NEW r \in Requests, RequestStep(r)
    PROVE  [Promise!Next]_<<Phase, raced>>
<1>. USE DEF PromiseInv, RetentionInv
<1>. PICK k \in Jobs : k = req[r].job
  BY ThreadTypes
<1>1. \A i \in Jobs : i # k => PhaseOf(i)' = PhaseOf(i) /\ raced'[i] = raced[i]
  BY RequestLocal DEF PhaseOf, Exists
<1>2. CASE ~Exists(k)
  <2>1. ~Exists(k)'
    BY <1>2, RequestWrites DEF RealInv, FilesAreReal, Exists
  <2>2. ~SubmitEnqueues(r)
    BY <1>2 DEF SubmitEnqueues, SubmitsOnce
  <2>3. Moves(k)
    BY <1>2, <2>1, <2>2, RequestLocal, RacedWhileThere DEF Moves, PhaseOf
  <2>. QED  BY <1>1, <2>3, MoveIsPromised
<1>3. CASE Exists(k)
  <2>1. Exists(k)'
    BY <1>3, RequestWrites DEF Exists
  <2>2. file[k].st \in Visible /\ file'[k].st \in Visible
    <3>1. \A i \in Jobs : Exists(i)' => file'[i].st \in Visible
      BY VisibleStatuses DEF TypeOK, Status, RealInv, FilesAreReal
    <3>. QED  BY <1>3, <2>1, <3>1, FilesAreVisible
  <2>3. PhaseOf(k) = file[k].st /\ PhaseOf(k)' = file'[k].st
    BY <1>3, <2>1 DEF PhaseOf
  <2>4. CASE raced'[k] = TRUE
    BY <1>1, <2>2, <2>3, <2>4, MoveIsPromised DEF Moves
  <2>5. CASE raced'[k] = FALSE
    <3>1. Alone(k)'
      BY <2>1, <2>5 DEF Alone
    <3>2. Alone(k) /\ raced[k] = FALSE /\ file'[k].st = file[k].st
      BY <3>1, RequestAlone DEF Alone, AloneInv, TypeOK
    <3>. QED  BY <1>1, <2>3, <2>5, <3>2, MoveIsPromised DEF Moves
  <2>. QED  BY <2>4, <2>5 DEF TypeOK
<1>. QED  BY <1>2, <1>3

LEMMA PurgeKeepsPromise ==
    ASSUME PromiseInv, TypeOK', PassRemovesTree
    PROVE  [Promise!Next]_<<Phase, raced>>
<1>. USE DEF PromiseInv, RetentionInv
<1>. PICK k \in Jobs : k = cjob
  BY TreeGoesAfterRun
<1>1. /\ UNCHANGED <<wpc, raced>> /\ wpc[k] # "absent"
      /\ \A i \in Jobs : file'[i] = IF i = k THEN NoStatus ELSE file[i]
  BY TreeGoesAfterRun
<1>2. \A i \in Jobs : i # k => PhaseOf(i)' = PhaseOf(i) /\ raced'[i] = raced[i]
  BY <1>1 DEF PhaseOf, Exists
<1>3. PhaseOf(k)' = "purged"
  BY <1>1 DEF PhaseOf, Exists
<1>4. CASE ~Exists(k)
  BY <1>1, <1>2, <1>3, <1>4, MoveIsPromised DEF Moves, PhaseOf
<1>5. CASE Exists(k) /\ raced[k] = TRUE
  BY <1>1, <1>2, <1>3, <1>5, FilesAreVisible, MoveIsPromised DEF Moves, PhaseOf
<1>6. CASE Exists(k) /\ raced[k] = FALSE
  <2>1. file[k].st \in Terminal
    BY <1>6 DEF PassRemovesTree, AloneInv, PurgeFits, Alone
  <2>. QED  BY <1>1, <1>2, <1>3, <1>6, <2>1, MoveIsPromised DEF Moves, PhaseOf
<1>. QED  BY <1>4, <1>5, <1>6 DEF TypeOK

LEMMA SubmitKeepsPromise ==
    ASSUME PromiseInv, TypeOK', NEW r \in Submitters, NEW j \in Jobs, SubmitCreates(r, j)
    PROVE  [Promise!Next]_<<Phase, raced>>
<1>. USE DEF PromiseInv, RetentionInv
<1>1. /\ UNCHANGED <<wpc, raced>> /\ wpc[j] = "absent"
      /\ ~Exists(j) /\ Exists(j)' /\ file'[j] = Queued
      /\ \A i \in Jobs : i # j => file'[i] = file[i]
  BY SubmitFrame DEF workerVars, history
<1>2. \A i \in Jobs : i # j => PhaseOf(i)' = PhaseOf(i) /\ raced'[i] = raced[i]
  BY <1>1 DEF PhaseOf, Exists
<1>3. PhaseOf(j) = "none" /\ PhaseOf(j)' = "queued"
  BY <1>1 DEF PhaseOf, Queued, NoStatus
<1>. QED  BY <1>1, <1>2, <1>3, MoveIsPromised DEF Moves

\* What any number of clients see of any number of jobs follows the promise:
\* the detailed specification, with its four atomic steps per status, its
\* crashes and its interrupted purges, implements JobPromise.
THEOREM PromiseKept == Spec => KeepsPromise
<1>1. Init => Promise!Init
  BY DEF Init, Promise!Init, Exists
<1>2. PromiseInv /\ TypeOK' /\ RealInv' /\ [Next]_vars => [Promise!Next]_<<Phase, raced>>
  <2>. SUFFICES ASSUME PromiseInv, TypeOK', RealInv', [Next]_vars
                PROVE  [Promise!Next]_<<Phase, raced>>
    OBVIOUS
  <2>1. CASE \E r \in Requests : RequestStep(r)
    BY <2>1, RequestKeepsPromise
  <2>2. CASE \E r \in Submitters, j \in Jobs : SubmitCreates(r, j)
    BY <2>2, SubmitKeepsPromise
  <2>3. CASE \E j \in Jobs : WorkerStep(j) \/ WorkerCrashes(j)
    BY <2>3, WorkerKeepsPromise
  <2>4. CASE PassRemovesTree
    BY <2>4, PurgeKeepsPromise
  <2>5. CASE \/ \E r \in Clients, kind \in Kinds, j \in Jobs : ClientAsks(r, kind, j)
             \/ \E j \in Jobs : ClockStep(j)
             \/ (PassStep \/ PassAborts) /\ ~PassRemovesTree
             \/ UNCHANGED vars
    <3>1. UNCHANGED <<file, wpc, raced>>
      BY <2>5, AskFrame, PassLocal DEF PromiseInv, RetentionInv, ClockStep, RetentionElapses,
         DeleteDelayElapses, vars, disk, history, workerVars
    <3>. QED  BY <3>1, StillIsPromised
  <2>. QED  BY <2>1, <2>2, <2>3, <2>4, <2>5 DEF Next
<1>. QED
  BY <1>1, <1>2, TypeCorrect, RetentionInvariant, RealInvariant, AloneInvariant, PTL
     DEF Spec, KeepsPromise, Promise!Spec, PromiseInv, Phase

=============================================================================
