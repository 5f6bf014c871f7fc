-------------------------- MODULE ProductReviewProofs --------------------------
(***************************************************************************)
(* Proofs about ProductReview, for every set of workers, clients, rows and *)
(* categories.                                                             *)
(***************************************************************************)
EXTENDS ProductReview, TLAPS

\* Each question is answered with one of the decisions offered for it.
Sound(rv) == \A q \in Questions : rv[q] \in Offered(q) \cup {"none", "pending"}

Deciding(c) == req[c].pc \in {"decide", "write"}

\* The steps of a run after it has numbered its revision.
Numbered == {"record", "freeze", "render", "finish", "publish"}
Unlocked == {"read", "lock", "steal", "relock", "abandon", "refuse"}

SoundInv ==
    /\ Sound(flow.rv)
    /\ \A n \in Revisions : Sound(rows[n])
    /\ \A w \in Workers : Sound(run[w].rv) /\ ~Rejected(run[w].rv)
    /\ \A c \in Clients :
          /\ Sound(req[c].flow.rv)
          /\ Deciding(c) => /\ req[c].q \in Questions
                            /\ req[c].d \in Offered(req[c].q)
                            /\ req[c].flow.rev > 0

RunInv ==
    \A w \in Workers :
        /\ run[w].pc \in Numbered => run[w].rev > 0
        /\ run[w].pc \in Unlocked \cup {"release"} => run[w].kind = "revision"
        /\ run[w].doomed => marker /\ run[w].pc = "inspect"

-----------------------------------------------------------------------------
\* A copy rv of the reviews is what was recorded, or was before decisions came.
Behind(rv, recorded) == \A q \in Questions : rv[q] \in {recorded[q], "pending"}

\* The copies of the workflow file are behind the database.
FileBehind ==
    /\ \A n \in Revisions : n > lastRow => rows[n] = NoReviews
    /\ flow.rev <= lastRow
    /\ flow.rev > 0 => Behind(flow.rv, rows[flow.rev])

CopyBehind(c) ==
    /\ Deciding(c) => /\ req[c].flow.rev <= lastRow
                      /\ Behind(req[c].flow.rv, rows[req[c].flow.rev])
    /\ req[c].pc = "write" => /\ rows[req[c].flow.rev][req[c].q] = req[c].d
                              /\ req[c].flow.rv[req[c].q] = "pending"

RunBehind(w) ==
    /\ run[w].parent <= lastRow
    /\ run[w].parent > 0 => AllResolved(run[w].rv) /\ run[w].rv = rows[run[w].parent]
    /\ run[w].pc = "record" => /\ run[w].rev <= lastRow
                               /\ Behind(AskedBy(run[w].rv), rows[run[w].rev])

BehindInv ==
    IF database
    THEN FileBehind /\ (\A c \in Clients : CopyBehind(c)) /\ (\A w \in Workers : RunBehind(w))
    ELSE \A c \in Clients :
            /\ req[c].pc # "decide"
            /\ req[c].pc = "write" => req[c].flow.rv[req[c].q] = "pending"

\* The frozen result of a revision that reviewers may look at.
Backed(n) == n > 0 => \/ frozen[n].made
                      \/ \E w \in Workers : run[w].pc = "freeze" /\ run[w].rev = n

BackedInv ==
    ~history.crashed /\ ~history.unfrozen =>
        Backed(flow.rev) /\ \A c \in Clients : Backed(req[c].flow.rev)

Kept(n) == n > 0 => frozen[n].made

\* The steps of a run after it has written its frozen result.
Thawed == {"render", "finish", "publish"}

AnnouncedInv ==
    /\ Kept(status.rev)
    /\ \A c \in Clients : Kept(req[c].status.rev)
    /\ \A w \in Workers : run[w].pc \in Thawed => Kept(run[w].rev)

-----------------------------------------------------------------------------
\* The first run works before any request to decide or to rerun.
Shelving(c) == req[c].pc \in {"mark", "cancel", "delete"}

NoRequests == /\ queue.revision = 0 /\ status.st # "review_resolved"
              /\ \A c \in Clients : \/ Idle(c)
                                    \/ Shelving(c) /\ req[c].status.st # "review_resolved"

FirstRunInv ==
    ~history.early =>
        /\ queue.initial > 0 => /\ queue.initial = 1 /\ flow.rev = 0 /\ NoRequests
                                /\ \A w \in Workers : run[w].pc = "idle"
        /\ \A w \in Workers : run[w].kind = "initial" /\ run[w].pc # "idle" =>
              /\ queue.initial = 0 /\ NoRequests
              /\ \A v \in Workers \ {w} : run[v].pc = "idle"

LockInv ==
    ~history.stolen => \A w \in Workers :
        run[w].kind = "revision" /\ run[w].pc \in Inside => lock.held /\ lock.by = w

-----------------------------------------------------------------------------
\* A run is under way, or on its way through the queue.
Busy(w) == run[w].pc \notin {"idle", "release"}
Pending == \/ queue.initial > 0 \/ queue.revision > 0
           \/ \E w \in Workers : Busy(w)
           \/ \E c \in Clients : req[c].pc = "enqueue"

OneRunPending ==
    /\ queue.initial + queue.revision <= 1
    /\ \A v, w \in Workers : Busy(v) /\ Busy(w) => v = w
    /\ \A b, c \in Clients : req[b].pc = "enqueue" /\ req[c].pc = "enqueue" => b = c
    /\ \A w \in Workers : Busy(w) =>
          /\ queue.initial = 0 /\ queue.revision = 0
          /\ \A c \in Clients : req[c].pc # "enqueue"
    /\ \A c \in Clients : req[c].pc = "enqueue" => queue.initial = 0 /\ queue.revision = 0

\* No request in flight can change the reviews without being noticed.
Closed == AllResolved(flow.rv) \/ \A c \in Clients : Deciding(c) => req[c].flow # flow

Recorded(w) == run[w].pc \in {"freeze", "render", "finish", "publish"}

WhilePending ==
    /\ Pending => Closed /\ status.st # "review_resolved"
    /\ queue.initial > 0 \/ queue.revision > 0 => AllResolved(flow.rv)
    /\ \A w \in Workers : Busy(w) =>
          /\ ~Recorded(w) => AllResolved(flow.rv)
          /\ Recorded(w) => flow = [rev |-> run[w].rev, rv |-> AskedBy(run[w].rv)]
          /\ run[w].pc = "record" => run[w].rev > flow.rev
    /\ \A c \in Clients : req[c].flow.rev <= flow.rev

\* What the status says of the reviews, when no run will change it.
Matches ==
    /\ status.st \in Terminal \cup {"review_resolved"}
    /\ status.st \in {"failed", "cancelled"} => Closed
    /\ status.st = "completed" => flow.rv = NoReviews
    /\ status.st = "manual_review" => ~AllResolved(flow.rv)
    /\ status.st = "review_resolved" => AllResolved(flow.rv) /\ flow.rv # NoReviews
    /\ status.st \in {"completed", "manual_review", "review_resolved"} =>
           status.rev = flow.rev

Settling == \E c \in Clients : req[c].pc = "settle"

WhileSettling ==
    /\ ~Pending /\ status.st = "manual_review" /\ status.rev = flow.rev
    /\ AllResolved(flow.rv) /\ flow.rv # NoReviews
    /\ \A b, c \in Clients : req[b].pc = "settle" /\ req[c].pc = "settle" => b = c

Asked ==
    \A c \in Clients :
        /\ req[c].pc \in {"queue", "enqueue"} => req[c].status.st = "review_resolved"
        /\ req[c].pc = "enqueue" => /\ status.st = "revision_queued"
                                    /\ status.rev = flow.rev
                                    /\ AllResolved(flow.rv) /\ flow.rv # NoReviews

Phases ==
    /\ OneRunPending /\ WhilePending /\ Asked
    /\ Settling => WhileSettling
    /\ ~Pending /\ ~Settling => Matches

PhaseInv == Undisturbed => Phases

\* The current revision has no frozen result, and no run will write it.
Unfrozen == /\ flow.rev > 0 /\ ~frozen[flow.rev].made
            /\ \A w \in Workers : ~(run[w].pc = "freeze" /\ run[w].rev = flow.rev)

UnfrozenInv == Undisturbed /\ Unfrozen => status.st = "failed" /\ ~Pending

-----------------------------------------------------------------------------
(* Types.                                                                   *)

LEMMA OfferedTypes ==
    /\ \A q \in Questions : Offered(q) \subseteq Decisions
    /\ \A r \in Rows : /\ <<"row", r>> \in Questions
                       /\ Offered(<<"row", r>>) = {"reject"} \cup Candidates[r]
                       /\ Candidates[r] \subseteq Categories
<1>1. \A r \in Rows : Candidates[r] \subseteq Categories
  BY CandidatesAssumption
<1>2. ASSUME NEW q \in Questions
      PROVE  Offered(q) \subseteq Decisions
  BY <1>1 DEF Questions, Offered, Decisions
<1>3. ASSUME NEW r \in Rows
      PROVE  <<"row", r>> \in Questions /\ Offered(<<"row", r>>) = {"reject"} \cup Candidates[r]
  BY DEF Questions, Offered
<1>. QED  BY <1>1, <1>2, <1>3

\* What a normalization asks is typed, open, and asks for platform categories.
LEMMA NormalizedTypes ==
    ASSUME NEW rv \in Reviews
    PROVE  /\ AskedBy(rv) \in Reviews
           /\ Sound(AskedBy(rv))
           /\ \A q \in Questions : AskedBy(rv)[q] \in {"none", "pending"}
           /\ Sound(rv) /\ ~Rejected(rv) => Needed(rv) \subseteq Categories
<1>1. \A q \in Questions : AskedBy(rv)[q] \in {"none", "pending"}
  BY DEF AskedBy
<1>2. AskedBy(rv) \in Reviews /\ Sound(AskedBy(rv))
  BY <1>1 DEF AskedBy, Reviews, Sound
<1>3. ASSUME Sound(rv), ~Rejected(rv)
      PROVE  Needed(rv) \subseteq Categories
  <2>1. \A r \in Rows \ OpenRows(rv) : rv[<<"row", r>>] \in Categories
    BY <1>3, OfferedTypes DEF OpenRows, Sound, Rejected
  <2>2. Grouped(rv) \subseteq Categories
    BY <2>1, CategoriesAssumption DEF Grouped
  <2>3. UNION {Candidates[r] : r \in OpenRows(rv)} \subseteq Categories
    BY OfferedTypes DEF OpenRows
  <2>. QED  BY <2>2, <2>3 DEF Needed
<1>. QED  BY <1>1, <1>2, <1>3

\* The records an idle thread holds are typed.
LEMMA IdleTypes ==
    /\ NoReviews \in Reviews /\ Sound(NoReviews) /\ ~Rejected(NoReviews) /\ AllResolved(NoReviews)
    /\ NoFlow \in FlowType /\ NoStatus \in StatusType /\ NoLock \in LockType
    /\ IdleRun \in RunType /\ IdleReq \in ReqType
<1>1. NoReviews \in Reviews /\ Sound(NoReviews) /\ ~Rejected(NoReviews) /\ AllResolved(NoReviews)
  BY DEF NoReviews, Reviews, Sound, Rejected, AllResolved
<1>2. 0 \in 0..MaxRevision
  BY BoundsAssumption
<1>3. NoFlow \in FlowType /\ NoStatus \in StatusType /\ NoLock \in LockType
  BY <1>1, <1>2 DEF NoFlow, FlowType, NoStatus, StatusType, Statuses, NoLock, LockType
<1>4. IdleRun \in RunType
  BY <1>1, <1>2 DEF IdleRun, RunType
<1>5. IdleReq \in ReqType
  BY <1>3 DEF IdleReq, ReqType, Decisions
<1>. QED  BY <1>1, <1>3, <1>4, <1>5

-----------------------------------------------------------------------------
(* What the steps do to run and to req, field by field.                     *)

WorkerStep(w) == RunStep(w) \/ Crash(w)
ClientStep(c) == \/ ServeStep(c) \/ AskRevision(c) \/ BreakOff(c)
                 \/ ReadForCancel(c) \/ ReadForDelete(c)
                 \/ \E q \in Questions : \E d \in Offered(q) : OpenReview(c, q, d)

OtherRuns(w) == \A v \in Workers \ {w} : run'[v] = run[v]
OtherRequests(c) == \A b \in Clients \ {c} : req'[b] = req[b]

\* The run moves on with what it knows.
Moves(w, pc) ==
    /\ run'[w].pc = pc /\ run'[w].kind = run[w].kind /\ run'[w].rv = run[w].rv
    /\ run'[w].parent = run[w].parent /\ run'[w].schemas = run[w].schemas

Forgets(w) == /\ run'[w].rv = NoReviews /\ run'[w].parent = 0
              /\ run'[w].rev = 0 /\ run'[w].doomed = FALSE

LEMMA RunIsSet ==
    ASSUME TypeOK, NEW w \in Workers, NEW r, run' = [run EXCEPT ![w] = r]
    PROVE  /\ OtherRuns(w) /\ run'[w] = r
           /\ r \in RunType => run' \in [Workers -> RunType]
  BY DEF TypeOK, OtherRuns

LEMMA GoMoves ==
    ASSUME TypeOK, NEW w \in Workers,
           NEW pc \in Inside \cup {"idle", "read", "lock", "steal", "relock", "release",
                             "abandon", "refuse"},
           Go(w, pc)
    PROVE  /\ OtherRuns(w) /\ Moves(w, pc) /\ run'[w].rev = run[w].rev
           /\ run'[w].doomed = run[w].doomed /\ run' \in [Workers -> RunType]
<1>1. run[w] \in RunType
  BY DEF TypeOK
<1>2. run' = [run EXCEPT ![w] = [run[w] EXCEPT !.pc = pc]]
  BY DEF Go
<1>3. [run[w] EXCEPT !.pc = pc] \in RunType
  BY <1>1 DEF RunType
<1>. QED  BY <1>1, <1>2, <1>3, RunIsSet DEF Moves, RunType

\* A run that ends goes on to release its lock, or is idle.
LEMMA EndRunMoves ==
    ASSUME TypeOK, NEW w \in Workers, LeaveRun(w)
    PROVE  /\ OtherRuns(w) /\ Forgets(w) /\ run' \in [Workers -> RunType]
           /\ run'[w].pc = LastStep(w) /\ run'[w].kind = run[w].kind
           /\ LastStep(w) = IF run[w].kind = "revision" THEN "release" ELSE "idle"
<1>1. run[w].kind \in {"initial", "revision"} /\ IdleRun \in RunType
  BY IdleTypes DEF TypeOK, RunType
<1>2. LastStep(w) = IF run[w].kind = "revision" THEN "release" ELSE "idle"
  BY DEF LastStep
<1>3. [IdleRun EXCEPT !.pc = LastStep(w), !.kind = run[w].kind] \in RunType
  BY <1>1, <1>2 DEF RunType
<1>. QED  BY <1>1, <1>2, <1>3, RunIsSet DEF LeaveRun, Forgets, IdleRun, RunType

LEMMA IdleMoves ==
    ASSUME TypeOK, NEW w \in Workers, run' = [run EXCEPT ![w] = IdleRun]
    PROVE  /\ OtherRuns(w) /\ Forgets(w) /\ run' \in [Workers -> RunType]
           /\ run'[w].pc = "idle" /\ run'[w].kind = "initial"
  BY IdleTypes, RunIsSet DEF Forgets, IdleRun

LEMMA DequeueMoves ==
    ASSUME TypeOK, NEW w \in Workers, NEW kind \in {"initial", "revision"}, Dequeue(w, kind)
    PROVE  /\ OtherRuns(w) /\ Forgets(w) /\ run' \in [Workers -> RunType]
           /\ run'[w].pc = IF kind = "initial" THEN "start" ELSE "read"
           /\ run'[w].kind = kind
<1>1. /\ IdleRun \in RunType
      /\ [IdleRun EXCEPT !.pc = "start", !.schemas = Categories] \in RunType
      /\ [IdleRun EXCEPT !.pc = "read", !.kind = "revision"] \in RunType
  BY IdleTypes DEF RunType, Inside
<1>2. CASE kind = "initial"
  <2>1. run' = [run EXCEPT ![w] = [IdleRun EXCEPT !.pc = "start", !.schemas = Categories]]
    BY <1>2 DEF Dequeue
  <2>. QED  BY <1>1, <1>2, <2>1, RunIsSet DEF Forgets, IdleRun
<1>3. CASE kind = "revision"
  <2>1. run' = [run EXCEPT ![w] = [IdleRun EXCEPT !.pc = "read", !.kind = "revision"]]
    BY <1>3 DEF Dequeue
  <2>. QED  BY <1>1, <1>3, <2>1, RunIsSet DEF Forgets, IdleRun
<1>. QED  BY <1>2, <1>3

\* A rerun takes the reviews of the workflow file and its frozen catalog.
LEMMA ReadReviewsMoves ==
    ASSUME TypeOK, NEW w \in Workers, ReadReviews(w)
    PROVE  \/ /\ Applicable(flow) /\ status' = status
              /\ OtherRuns(w) /\ run' \in [Workers -> RunType]
              /\ run'[w].pc = "lock" /\ run'[w].kind = run[w].kind
              /\ run'[w].rv = flow.rv /\ run'[w].parent = flow.rev
              /\ run'[w].rev = run[w].rev /\ run'[w].doomed = run[w].doomed
           \/ ~Applicable(flow) /\ Refuse(w)
<1>. SUFFICES ASSUME Applicable(flow)
     PROVE  /\ status' = status
            /\ OtherRuns(w) /\ run' \in [Workers -> RunType]
            /\ run'[w].pc = "lock" /\ run'[w].kind = run[w].kind
            /\ run'[w].rv = flow.rv /\ run'[w].parent = flow.rev
            /\ run'[w].rev = run[w].rev /\ run'[w].doomed = run[w].doomed
  BY DEF ReadReviews
<1>1. run[w] \in RunType /\ flow.rev \in Revisions /\ flow \in FlowType
  BY BoundsAssumption DEF TypeOK, Applicable, FlowType, Revisions
<1>2. frozen[flow.rev].schemas \in SUBSET Categories
  BY <1>1 DEF TypeOK, FrozenType
<1> DEFINE r == [run[w] EXCEPT !.pc = "lock", !.rv = flow.rv, !.parent = flow.rev,
                               !.schemas = frozen[flow.rev].schemas]
<1>3. run' = [run EXCEPT ![w] = r] /\ status' = status
  BY DEF ReadReviews
<1>4. /\ r \in RunType /\ r.pc = "lock" /\ r.kind = run[w].kind /\ r.rv = flow.rv
      /\ r.parent = flow.rev /\ r.rev = run[w].rev /\ r.doomed = run[w].doomed
  BY <1>1, <1>2 DEF RunType, FlowType
<1>. QED  BY <1>3, <1>4, RunIsSet

LEMMA StartRunMoves ==
    ASSUME TypeOK, NEW w \in Workers, StartRun(w)
    PROVE  /\ OtherRuns(w) /\ Moves(w, "inspect") /\ run'[w].rev = run[w].rev
           /\ run'[w].doomed = marker /\ run' \in [Workers -> RunType]
<1>1. run[w] \in RunType /\ marker \in BOOLEAN
  BY DEF TypeOK
<1> DEFINE r == [run[w] EXCEPT !.pc = "inspect", !.doomed = marker]
<1>2. run' = [run EXCEPT ![w] = r]
  BY DEF StartRun
<1>3. /\ r \in RunType /\ r.pc = "inspect" /\ r.kind = run[w].kind /\ r.rv = run[w].rv
      /\ r.parent = run[w].parent /\ r.schemas = run[w].schemas
      /\ r.rev = run[w].rev /\ r.doomed = marker
  BY <1>1 DEF RunType, Inside
<1>. QED  BY <1>2, <1>3, RunIsSet DEF Moves

LEMMA SaveRevisionMoves ==
    ASSUME TypeOK, NEW w \in Workers, SaveRevision(w)
    PROVE  /\ OtherRuns(w) /\ Moves(w, "record") /\ run'[w].rev = NextNumber
           /\ run'[w].doomed = run[w].doomed /\ run' \in [Workers -> RunType]
<1>1. run[w] \in RunType /\ NextNumber \in 0..MaxRevision
  BY BoundsAssumption DEF TypeOK, SaveRevision, Revisions
<1> DEFINE r == [run[w] EXCEPT !.pc = "record", !.rev = NextNumber]
<1>2. run' = [run EXCEPT ![w] = r]
  BY DEF SaveRevision
<1>3. /\ r \in RunType /\ r.pc = "record" /\ r.kind = run[w].kind /\ r.rv = run[w].rv
      /\ r.parent = run[w].parent /\ r.schemas = run[w].schemas
      /\ r.rev = NextNumber /\ r.doomed = run[w].doomed
  BY <1>1 DEF RunType, Inside
<1>. QED  BY <1>2, <1>3, RunIsSet DEF Moves

LEMMA RequestIsSet ==
    ASSUME TypeOK, NEW c \in Clients, NEW r, req' = [req EXCEPT ![c] = r]
    PROVE  /\ OtherRequests(c) /\ req'[c] = r
           /\ r \in ReqType => req' \in [Clients -> ReqType]
  BY DEF TypeOK, OtherRequests

LEMMA AnswerMoves ==
    ASSUME TypeOK, NEW c \in Clients, Answer(c)
    PROVE  /\ OtherRequests(c) /\ req' \in [Clients -> ReqType]
           /\ req'[c].pc = "idle" /\ req'[c].flow = NoFlow
  BY IdleTypes, RequestIsSet DEF Answer, IdleReq

\* A request that goes on keeps what it has read.
LEMMA RequestMoves ==
    ASSUME TypeOK, NEW c \in Clients, NEW pc \in {"write", "settle", "enqueue", "cancel"},
           req' = [req EXCEPT ![c].pc = pc]
    PROVE  /\ OtherRequests(c) /\ req' \in [Clients -> ReqType]
           /\ req'[c].pc = pc /\ req'[c].q = req[c].q /\ req'[c].d = req[c].d
           /\ req'[c].flow = req[c].flow /\ req'[c].status = req[c].status
<1>1. req[c] \in ReqType
  BY DEF TypeOK
<1> DEFINE r == [req[c] EXCEPT !.pc = pc]
<1>2. req' = [req EXCEPT ![c] = r]
  OBVIOUS
<1>3. /\ r \in ReqType /\ r.pc = pc /\ r.q = req[c].q /\ r.d = req[c].d
      /\ r.flow = req[c].flow /\ r.status = req[c].status
  BY <1>1 DEF ReqType
<1>. QED  BY <1>2, <1>3, RequestIsSet

LEMMA OpenReviewMoves ==
    ASSUME TypeOK, NEW c \in Clients, NEW q \in Questions, NEW d \in Offered(q),
           OpenReview(c, q, d)
    PROVE  /\ OtherRequests(c) /\ req' \in [Clients -> ReqType]
           /\ req'[c].pc = IF database THEN "decide" ELSE "write"
           /\ req'[c].q = q /\ req'[c].d = d /\ req'[c].flow = flow
<1>1. IdleReq \in ReqType /\ flow \in FlowType /\ d \in Decisions
  BY IdleTypes, OfferedTypes DEF TypeOK
<1> DEFINE r == [IdleReq EXCEPT !.pc = IF database THEN "decide" ELSE "write",
                                !.q = q, !.d = d, !.flow = flow]
<1>2. req' = [req EXCEPT ![c] = r]
  BY DEF OpenReview
<1>3. /\ r \in ReqType /\ r.pc = IF database THEN "decide" ELSE "write"
      /\ r.q = q /\ r.d = d /\ r.flow = flow
  BY <1>1 DEF ReqType
<1>. QED  BY <1>2, <1>3, RequestIsSet

\* A request that reads the status keeps a copy of it.
LEMMA ReadStatusMoves ==
    ASSUME TypeOK, NEW c \in Clients, NEW pc \in {"queue", "mark", "delete"},
           req' = [req EXCEPT ![c] = [IdleReq EXCEPT !.pc = pc, !.status = status]]
    PROVE  /\ OtherRequests(c) /\ req' \in [Clients -> ReqType]
           /\ req'[c].pc = pc /\ req'[c].status = status /\ req'[c].flow = NoFlow
<1>1. IdleReq \in ReqType /\ IdleReq.flow = NoFlow /\ status \in StatusType
  BY IdleTypes DEF TypeOK, IdleReq
<1> DEFINE r == [IdleReq EXCEPT !.pc = pc, !.status = status]
<1>2. r \in ReqType /\ r.pc = pc /\ r.status = status /\ r.flow = NoFlow
  BY <1>1 DEF ReqType
<1>. QED  BY <1>2, RequestIsSet

LEMMA AskRevisionMoves ==
    ASSUME TypeOK, NEW c \in Clients, AskRevision(c)
    PROVE  /\ OtherRequests(c) /\ req' \in [Clients -> ReqType]
           /\ req'[c].pc = "queue" /\ req'[c].status = status /\ req'[c].flow = NoFlow
  BY ReadStatusMoves DEF AskRevision

LEMMA ShelveMoves ==
    ASSUME TypeOK, NEW c \in Clients, ReadForCancel(c) \/ ReadForDelete(c)
    PROVE  /\ OtherRequests(c) /\ req' \in [Clients -> ReqType]
           /\ req'[c].pc \in {"mark", "delete"} /\ req'[c].status = status
           /\ req'[c].flow = NoFlow
  BY ReadStatusMoves DEF ReadForCancel, ReadForDelete

\* The written file is the copy with one more decision.
LEMMA WrittenFlow ==
    ASSUME TypeOK, NEW c \in Clients, WriteReviews(c)
    PROVE  /\ flow' \in FlowType /\ flow'.rev = req[c].flow.rev
           /\ \A q \in Questions :
                 flow'.rv[q] = IF q = req[c].q THEN req[c].d ELSE req[c].flow.rv[q]
<1>1. /\ req[c].flow \in FlowType /\ req[c].flow.rv \in Reviews
      /\ req[c].d \in Decisions
  BY DEF TypeOK, ReqType, FlowType
<1>2. flow' = [req[c].flow EXCEPT !.rv = [req[c].flow.rv EXCEPT ![req[c].q] = req[c].d]]
  BY DEF WriteReviews
<1>3. [req[c].flow.rv EXCEPT ![req[c].q] = req[c].d] \in Reviews
  BY <1>1 DEF Reviews
<1>4. flow' \in FlowType /\ flow'.rev = req[c].flow.rev
      /\ flow'.rv = [req[c].flow.rv EXCEPT ![req[c].q] = req[c].d]
  BY <1>1, <1>2, <1>3 DEF FlowType
<1>. QED  BY <1>1, <1>4 DEF Reviews

LEMMA WriteReviewsMoves ==
    ASSUME TypeOK, NEW c \in Clients, WriteReviews(c)
    PROVE  \/ /\ AllResolved(flow'.rv) /\ OtherRequests(c) /\ req' \in [Clients -> ReqType]
              /\ req'[c].pc = "settle" /\ req'[c].flow = req[c].flow
              /\ req'[c].q = req[c].q /\ req'[c].d = req[c].d
           \/ ~AllResolved(flow'.rv) /\ Answer(c)
  BY RequestMoves DEF WriteReviews

\* The row decided takes the decision; the others keep theirs.
LEMMA DecideRowMoves ==
    ASSUME TypeOK, NEW c \in Clients, DecideRow(c), Undecided(c),
           req[c].flow.rev \in Revisions
    PROVE  /\ rows' \in [Revisions -> Reviews]
           /\ OtherRequests(c) /\ req' \in [Clients -> ReqType]
           /\ req'[c].pc = "write" /\ req'[c].q = req[c].q /\ req'[c].d = req[c].d
           /\ req'[c].flow = req[c].flow
           /\ \A n \in Revisions : \A q \in Questions :
                 rows'[n][q] = IF n = req[c].flow.rev /\ q = req[c].q
                               THEN req[c].d ELSE rows[n][q]
           /\ \A n \in Revisions : n # req[c].flow.rev => rows'[n] = rows[n]
<1>1. req[c].d \in Decisions /\ rows \in [Revisions -> Reviews]
  BY DEF TypeOK, ReqType
<1> DEFINE n0 == req[c].flow.rev
           rv == [rows[n0] EXCEPT ![req[c].q] = req[c].d]
<1>2. rows' = [rows EXCEPT ![n0] = rv] /\ req' = [req EXCEPT ![c].pc = "write"]
  BY DEF DecideRow
<1>3. rv \in Reviews /\ \A q \in Questions :
          rv[q] = IF q = req[c].q THEN req[c].d ELSE rows[n0][q]
  BY <1>1 DEF Reviews
<1>4. /\ rows' \in [Revisions -> Reviews] /\ rows'[n0] = rv
      /\ \A n \in Revisions : n # n0 => rows'[n] = rows[n]
  BY <1>1, <1>2, <1>3
<1>5. ASSUME NEW n \in Revisions, NEW q \in Questions
      PROVE  rows'[n][q] = IF n = n0 /\ q = req[c].q THEN req[c].d ELSE rows[n][q]
  <2>1. CASE n = n0
    BY <1>3, <1>4, <2>1
  <2>2. CASE n # n0
    BY <1>4, <2>2
  <2>. QED  BY <2>1, <2>2
<1>6. /\ OtherRequests(c) /\ req' \in [Clients -> ReqType]
      /\ req'[c].pc = "write" /\ req'[c].q = req[c].q /\ req'[c].d = req[c].d
      /\ req'[c].flow = req[c].flow
  BY <1>2, RequestMoves
<1>. QED  BY <1>4, <1>5, <1>6

-----------------------------------------------------------------------------
(* Type correctness.                                                        *)

LEMMA StatusIsSet ==
    ASSUME TypeOK, NEW s \in StatusType, NEW st \in Statuses
    PROVE  /\ [s EXCEPT !.st = st] \in StatusType /\ [s EXCEPT !.st = st].st = st
           /\ [s EXCEPT !.st = st].rev = s.rev
  BY DEF StatusType

Flags == {"early", "stolen", "raced", "stale", "crashed", "reopened", "revived", "unfrozen"}

\* What has happened stays noted.
Remembered == \A flag \in Flags : history[flag] => history'[flag]

LEMMA FlagIsSet ==
    ASSUME TypeOK, NEW flag \in Flags, NEW h \in BOOLEAN, history[flag] => h,
           history' = [history EXCEPT ![flag] = h]
    PROVE  history' \in HistoryType /\ Remembered /\ history'[flag] = h
<1>1. history \in HistoryType
  BY DEF TypeOK
<1>2. history' \in HistoryType
  BY <1>1 DEF HistoryType, Flags
<1>3. history'[flag] = h
  BY <1>1 DEF HistoryType, Flags
<1>4. \A f \in Flags : f # flag => history'[f] = history[f]
  BY <1>1 DEF HistoryType, Flags
<1>. QED  BY <1>2, <1>3, <1>4 DEF Remembered

\* What the steps of a worker note.
LEMMA WorkerHistory ==
    ASSUME TypeOK, NEW w \in Workers
    PROVE  /\ \/ DropStaleLock(w) \/ ReleaseLock(w) \/ Crash(w) \/ FailRun(w)
                 => history' \in HistoryType /\ Remembered
           /\ DropStaleLock(w) /\ LockHolderAlive => history'["stolen"]
           /\ ReleaseLock(w) /\ (lock.by # w /\ LockHolderAlive) => history'["stolen"]
           /\ Crash(w) => history'["crashed"]
           /\ FailRun(w) /\ run[w].pc = "freeze" => history'["unfrozen"]
<1>. USE DEF Note, Flags
<1>1. ASSUME DropStaleLock(w)
      PROVE  history' \in HistoryType /\ Remembered /\ (LockHolderAlive => history'["stolen"])
  <2> DEFINE it == LockHolderAlive
             h == history["stolen"] \/ it
  <2>1. h \in BOOLEAN /\ (history["stolen"] => h) /\ (it => h)
    OBVIOUS
  <2>2. history' = [history EXCEPT !["stolen"] = h]
    BY <1>1 DEF DropStaleLock
  <2>. HIDE DEF h
  <2>. QED  BY <2>1, <2>2, FlagIsSet
<1>2. ASSUME ReleaseLock(w)
      PROVE  history' \in HistoryType /\ Remembered /\ ((lock.by # w /\ LockHolderAlive) => history'["stolen"])
  <2> DEFINE it == (lock.by # w /\ LockHolderAlive)
             h == history["stolen"] \/ it
  <2>1. h \in BOOLEAN /\ (history["stolen"] => h) /\ (it => h)
    OBVIOUS
  <2>2. history' = [history EXCEPT !["stolen"] = h]
    BY <1>2 DEF ReleaseLock
  <2>. HIDE DEF h
  <2>. QED  BY <2>1, <2>2, FlagIsSet
<1>3. ASSUME Crash(w)
      PROVE  history' \in HistoryType /\ Remembered /\ (TRUE => history'["crashed"])
  <2> DEFINE it == TRUE
             h == history["crashed"] \/ it
  <2>1. h \in BOOLEAN /\ (history["crashed"] => h) /\ (it => h)
    OBVIOUS
  <2>2. history' = [history EXCEPT !["crashed"] = h]
    BY <1>3 DEF Crash
  <2>. HIDE DEF h
  <2>. QED  BY <2>1, <2>2, FlagIsSet
<1>4. ASSUME FailRun(w)
      PROVE  history' \in HistoryType /\ Remembered /\ (run[w].pc = "freeze" => history'["unfrozen"])
  <2> DEFINE it == run[w].pc = "freeze"
             h == history["unfrozen"] \/ it
  <2>1. h \in BOOLEAN /\ (history["unfrozen"] => h) /\ (it => h)
    OBVIOUS
  <2>2. history' = [history EXCEPT !["unfrozen"] = h]
    BY <1>4 DEF FailRun
  <2>. HIDE DEF h
  <2>. QED  BY <2>1, <2>2, FlagIsSet
<1>. QED  BY <1>1, <1>2, <1>3, <1>4

\* What the steps of a request note.
LEMMA ClientHistory ==
    ASSUME TypeOK, NEW c \in Clients
    PROVE  /\ (\/ WriteReviews(c) \/ SettleReviews(c) \/ MarkQueued(c) \/ EnqueueFails(c)
               \/ WriteCancel(c) \/ WriteDelete(c) \/ BreakOff(c))
                 => history' \in HistoryType /\ Remembered
           /\ WriteReviews(c) /\ flow # req[c].flow => history'["raced"]
           /\ SettleReviews(c) /\ (\E v \in Workers : run[v].pc \in Inside) => history'["early"]
           /\ MarkQueued(c) /\ status # req[c].status => history'["stale"]
           /\ EnqueueFails(c) /\ status # [req[c].status EXCEPT !.st = "revision_queued"] => history'["stale"]
           /\ WriteCancel(c) \/ WriteDelete(c) => (status # req[c].status => history'["revived"])
           /\ BreakOff(c) => history'["crashed"]
<1>. USE DEF Note, Flags
<1>1. ASSUME WriteReviews(c)
      PROVE  history' \in HistoryType /\ Remembered /\ (flow # req[c].flow => history'["raced"])
  <2> DEFINE it == flow # req[c].flow
             h == history["raced"] \/ it
  <2>1. h \in BOOLEAN /\ (history["raced"] => h) /\ (it => h)
    OBVIOUS
  <2>2. history' = [history EXCEPT !["raced"] = h]
    BY <1>1 DEF WriteReviews
  <2>. HIDE DEF h
  <2>. QED  BY <2>1, <2>2, FlagIsSet
<1>2. ASSUME SettleReviews(c)
      PROVE  history' \in HistoryType /\ Remembered /\ ((\E v \in Workers : run[v].pc \in Inside) => history'["early"])
  <2> DEFINE it == (\E v \in Workers : run[v].pc \in Inside)
             h == history["early"] \/ it
  <2>1. h \in BOOLEAN /\ (history["early"] => h) /\ (it => h)
    OBVIOUS
  <2>2. history' = [history EXCEPT !["early"] = h]
    BY <1>2 DEF SettleReviews
  <2>. HIDE DEF h
  <2>. QED  BY <2>1, <2>2, FlagIsSet
<1>3. ASSUME MarkQueued(c)
      PROVE  history' \in HistoryType /\ Remembered /\ (status # req[c].status => history'["stale"])
  <2> DEFINE it == status # req[c].status
             h == history["stale"] \/ it
  <2>1. h \in BOOLEAN /\ (history["stale"] => h) /\ (it => h)
    OBVIOUS
  <2>2. history' = [history EXCEPT !["stale"] = h]
    BY <1>3 DEF MarkQueued
  <2>. HIDE DEF h
  <2>. QED  BY <2>1, <2>2, FlagIsSet
<1>4. ASSUME EnqueueFails(c)
      PROVE  history' \in HistoryType /\ Remembered /\ (status # [req[c].status EXCEPT !.st = "revision_queued"] => history'["stale"])
  <2> DEFINE it == status # [req[c].status EXCEPT !.st = "revision_queued"]
             h == history["stale"] \/ it
  <2>1. h \in BOOLEAN /\ (history["stale"] => h) /\ (it => h)
    OBVIOUS
  <2>2. history' = [history EXCEPT !["stale"] = h]
    BY <1>4 DEF EnqueueFails
  <2>. HIDE DEF h
  <2>. QED  BY <2>1, <2>2, FlagIsSet
<1>5. ASSUME WriteCancel(c)
      PROVE  history' \in HistoryType /\ Remembered /\ (status # req[c].status => history'["revived"])
  <2> DEFINE it == status # req[c].status
             h == history["revived"] \/ it
  <2>1. h \in BOOLEAN /\ (history["revived"] => h) /\ (it => h)
    OBVIOUS
  <2>2. history' = [history EXCEPT !["revived"] = h]
    BY <1>5 DEF WriteCancel
  <2>. HIDE DEF h
  <2>. QED  BY <2>1, <2>2, FlagIsSet
<1>6. ASSUME WriteDelete(c)
      PROVE  history' \in HistoryType /\ Remembered /\ (status # req[c].status => history'["revived"])
  <2> DEFINE it == status # req[c].status
             h == history["revived"] \/ it
  <2>1. h \in BOOLEAN /\ (history["revived"] => h) /\ (it => h)
    OBVIOUS
  <2>2. history' = [history EXCEPT !["revived"] = h]
    BY <1>6 DEF WriteDelete
  <2>. HIDE DEF h
  <2>. QED  BY <2>1, <2>2, FlagIsSet
<1>7. ASSUME BreakOff(c)
      PROVE  history' \in HistoryType /\ Remembered /\ (TRUE => history'["crashed"])
  <2> DEFINE it == TRUE
             h == history["crashed"] \/ it
  <2>1. h \in BOOLEAN /\ (history["crashed"] => h) /\ (it => h)
    OBVIOUS
  <2>2. history' = [history EXCEPT !["crashed"] = h]
    BY <1>7 DEF BreakOff
  <2>. HIDE DEF h
  <2>. QED  BY <2>1, <2>2, FlagIsSet
<1>. QED  BY <1>1, <1>2, <1>3, <1>4, <1>5, <1>6, <1>7

LEMMA WorkerStepTypeOK ==
    ASSUME TypeOK, SoundInv, RunInv, NEW w \in Workers, WorkerStep(w)
    PROVE  TypeOK'
<1>. USE DEF TypeOK
<1>1. run[w] \in RunType /\ run[w].rv \in Reviews
  BY DEF RunType
<1>2. \A st \in Statuses : [status EXCEPT !.st = st] \in StatusType
  BY StatusIsSet
<1>3. {"failed", "cancelled", "validating", "catalog_resolving", "rendering",
       "completed", "manual_review"} \subseteq Statuses
  BY DEF Statuses, Terminal
<1>4. ASSUME NEW kind \in {"initial", "revision"}, Dequeue(w, kind) PROVE TypeOK'
  <2>1. queue' \in [{"initial", "revision"} -> Nat]
    BY <1>4 DEF Dequeue
  <2>. QED  BY <2>1, <1>4, DequeueMoves DEF Dequeue
<1>5. CASE ReadReviews(w)
  <2>1. run' \in [Workers -> RunType] /\ status' \in StatusType
    BY <1>5, <1>2, <1>3, ReadReviewsMoves, IdleMoves DEF Refuse
  <2>. QED  BY <2>1, <1>5 DEF ReadReviews
<1>6. CASE TakeLock(w)
  <2>1. run' \in [Workers -> RunType] /\ status' \in StatusType
    BY <1>6, <1>2, <1>3, GoMoves, IdleMoves DEF TakeLock, Refuse, Inside
  <2>2. [by |-> w, held |-> TRUE, old |-> FALSE] \in LockType
    BY DEF LockType
  <2>3. lock' \in LockType
    BY <2>2, <1>6 DEF TakeLock
  <2>. QED  BY <2>1, <2>3, <1>6 DEF TakeLock
<1>7. CASE DropStaleLock(w)
  <2>1. run' \in [Workers -> RunType]
    BY <1>7, GoMoves DEF DropStaleLock
  <2>2. history' \in HistoryType
    BY <1>7, WorkerHistory
  <2>. QED  BY <2>1, <2>2, <1>7, IdleTypes DEF DropStaleLock
<1>8. CASE RemakeLock(w)
  <2>1. run' \in [Workers -> RunType] /\ status' \in StatusType
    BY <1>8, <1>2, <1>3, GoMoves, IdleMoves DEF RemakeLock, Refuse, Inside
  <2>2. [by |-> w, held |-> TRUE, old |-> FALSE] \in LockType
    BY DEF LockType
  <2>3. lock' \in LockType
    BY <2>2, <1>8 DEF RemakeLock
  <2>. QED  BY <2>1, <2>3, <1>8 DEF RemakeLock
<1>9. CASE ReleaseLock(w)
  <2>1. run' \in [Workers -> RunType]
    BY <1>9, IdleMoves, GoMoves DEF ReleaseLock
  <2>2. history' \in HistoryType
    BY <1>9, WorkerHistory
  <2>. QED  BY <2>1, <2>2, <1>9, IdleTypes DEF ReleaseLock
<1>10. CASE StartRun(w)
  BY <1>10, <1>2, <1>3, StartRunMoves DEF StartRun
<1>11. CASE CancelRun(w)
  <2>1. run' \in [Workers -> RunType] /\ status' \in StatusType
    BY <1>11, <1>2, <1>3, EndRunMoves DEF CancelRun, EndRun
  <2>. QED  BY <2>1, <1>11 DEF CancelRun
<1>12. CASE FailRun(w)
  <2>1. run' \in [Workers -> RunType] /\ history' \in HistoryType
    BY <1>12, EndRunMoves, WorkerHistory DEF FailRun
  <2>2. run[w].rev \in 0..MaxRevision /\ status.rev \in 0..MaxRevision
    BY <1>1 DEF RunType, StatusType
  <2>3. \A n \in 0..MaxRevision : [status EXCEPT !.st = "failed", !.rev = n] \in StatusType
    BY <1>3 DEF StatusType
  <2>4. status' \in StatusType
    BY <2>2, <2>3, <1>12 DEF FailRun
  <2>. QED  BY <2>1, <2>4, <1>12 DEF FailRun
<1>22. CASE FailStart(w)
  BY <1>22, <1>2, <1>3, GoMoves DEF FailStart
<1>23. CASE RefuseRun(w)
  BY <1>23, <1>2, <1>3, IdleMoves DEF RefuseRun, Refuse
<1>13. CASE Inspect(w)
  BY <1>13, <1>2, <1>3, GoMoves DEF Inspect, Inside
<1>14. CASE Normalize(w)
  BY <1>14, GoMoves DEF Normalize, Inside
<1>15. CASE SaveRevision(w)
  <2>1. NextNumber \in 0..MaxRevision
    BY <1>15, BoundsAssumption DEF SaveRevision, Revisions
  <2>2. rows' \in [Revisions -> Reviews] /\ lastRow' \in 0..MaxRevision
    BY <2>1, <1>1, <1>15, NormalizedTypes DEF SaveRevision
  <2>. QED  BY <2>2, <1>15, SaveRevisionMoves DEF SaveRevision
<1>16. CASE RecordRevision(w)
  <2>1. flow' \in FlowType
    BY <1>1, <1>16, NormalizedTypes DEF RecordRevision, FlowType, RunType
  <2>. QED  BY <2>1, <1>16, GoMoves DEF RecordRevision, Inside
<1>17. CASE FreezeResult(w)
  <2>1. Needed(run[w].rv) \subseteq Categories
    BY <1>1, NormalizedTypes DEF SoundInv
  <2>2. frozen' \in [Revisions -> FrozenType]
    BY <2>1, <1>17 DEF FreezeResult, FrozenType
  <2>. QED  BY <2>2, <1>17, GoMoves DEF FreezeResult, Inside
<1>18. CASE Render(w)
  BY <1>18, <1>2, <1>3, GoMoves DEF Render, Inside
<1>19. CASE Upload(w)
  BY <1>19, GoMoves DEF Upload, Inside
<1>20. CASE PublishOutcome(w)
  <2>1. Outcome(w) \in Statuses /\ run[w].rev \in 0..MaxRevision
    BY <1>1, <1>3 DEF Outcome, RunType
  <2>2. status' \in StatusType
    BY <2>1, <1>20 DEF PublishOutcome, StatusType
  <2>. QED  BY <2>2, <1>20, EndRunMoves DEF PublishOutcome
<1>21. CASE Crash(w)
  <2>1. run' \in [Workers -> RunType] /\ history' \in HistoryType
    BY <1>21, IdleMoves, WorkerHistory DEF Crash
  <2>. QED  BY <2>1, <1>21 DEF Crash
<1>. QED
  BY <1>4, <1>5, <1>6, <1>7, <1>8, <1>9, <1>10, <1>11, <1>12, <1>13, <1>14, <1>15,
     <1>16, <1>17, <1>18, <1>19, <1>20, <1>21, <1>22, <1>23 DEF WorkerStep, RunStep

\* A decision is about a revision that was made.
LEMMA DecidingRevision ==
    ASSUME TypeOK, SoundInv, NEW c \in Clients, Deciding(c)
    PROVE  req[c].flow.rev \in Revisions /\ req[c].q \in Questions /\ req[c].d \in Offered(req[c].q)
<1>1. req[c].flow.rev \in 0..MaxRevision
  BY DEF TypeOK, ReqType, FlowType
<1>2. /\ req[c].flow.rev > 0 /\ req[c].q \in Questions
      /\ req[c].d \in Offered(req[c].q)
  BY DEF SoundInv
<1>. QED  BY <1>1, <1>2, BoundsAssumption DEF Revisions

LEMMA ClientStepTypeOK ==
    ASSUME TypeOK, SoundInv, NEW c \in Clients, ClientStep(c)
    PROVE  TypeOK'
<1>. USE DEF TypeOK
<1>1. req[c] \in ReqType /\ req[c].status \in StatusType
  BY DEF ReqType
<1>2. {"review_resolved", "revision_queued"} \subseteq Statuses
  BY DEF Statuses
<1>3. CASE DecideRow(c)
  <2>1. req[c].flow.rev \in Revisions
    BY <1>3, DecidingRevision DEF DecideRow, Deciding
  <2>2. rows' \in [Revisions -> Reviews] /\ req' \in [Clients -> ReqType]
    BY <2>1, <1>3, DecideRowMoves, AnswerMoves DEF DecideRow
  <2>. QED  BY <2>2, <1>3 DEF DecideRow
<1>4. CASE WriteReviews(c)
  <2>1. flow' \in FlowType /\ req' \in [Clients -> ReqType]
    BY <1>4, WrittenFlow, WriteReviewsMoves, AnswerMoves
  <2>2. history' \in HistoryType
    BY <1>4, ClientHistory
  <2>. QED  BY <2>1, <2>2, <1>4 DEF WriteReviews
<1>5. CASE SettleReviews(c)
  <2>1. status' \in StatusType /\ req' \in [Clients -> ReqType]
    BY <1>2, <1>5, StatusIsSet, AnswerMoves DEF SettleReviews
  <2>2. history' \in HistoryType
    BY <1>5, ClientHistory
  <2>. QED  BY <2>1, <2>2, <1>5 DEF SettleReviews
<1>6. CASE MarkQueued(c)
  <2>1. status' \in StatusType /\ req' \in [Clients -> ReqType] /\ history' \in HistoryType
    BY <1>1, <1>2, <1>6, StatusIsSet, RequestMoves, ClientHistory DEF MarkQueued
  <2>. QED  BY <2>1, <1>6 DEF MarkQueued
<1>7. CASE Enqueue(c)
  <2>1. queue' \in [{"initial", "revision"} -> Nat]
    BY <1>7 DEF Enqueue, Queued
  <2>. QED  BY <2>1, <1>7, AnswerMoves DEF Enqueue
<1>8. CASE EnqueueFails(c)
  <2>1. req' \in [Clients -> ReqType] /\ history' \in HistoryType
    BY <1>8, AnswerMoves, ClientHistory DEF EnqueueFails
  <2>. QED  BY <2>1, <1>1, <1>8 DEF EnqueueFails
<1>9. CASE AskRevision(c)
  BY <1>9, AskRevisionMoves DEF AskRevision
<1>10. ASSUME NEW q \in Questions, NEW d \in Offered(q), OpenReview(c, q, d)
       PROVE  TypeOK'
  <2>1. history' \in HistoryType
    <3>1. history \in HistoryType
      OBVIOUS
    <3>. QED  BY <3>1, <1>10 DEF OpenReview, HistoryType
  <2>. QED  BY <2>1, <1>10, OpenReviewMoves DEF OpenReview
<1>11. CASE ReadForCancel(c) \/ ReadForDelete(c)
  BY <1>11, ShelveMoves DEF ReadForCancel, ReadForDelete
<1>12. CASE WriteMarker(c)
  BY <1>12, RequestMoves DEF WriteMarker
<1>13. CASE WriteCancel(c) \/ WriteDelete(c)
  <2>1. status' \in StatusType
    BY <1>1, <1>13 DEF WriteCancel, WriteDelete, StatusType
  <2>2. req' \in [Clients -> ReqType] /\ history' \in HistoryType
    BY <1>13, AnswerMoves, ClientHistory DEF WriteCancel, WriteDelete
  <2>. QED  BY <2>1, <2>2, <1>13 DEF WriteCancel, WriteDelete
<1>14. CASE BreakOff(c)
  <2>1. req' \in [Clients -> ReqType] /\ history' \in HistoryType
    BY <1>14, AnswerMoves, ClientHistory DEF BreakOff
  <2>. QED  BY <2>1, <1>14 DEF BreakOff
<1>. QED
  BY <1>3, <1>4, <1>5, <1>6, <1>7, <1>8, <1>9, <1>10, <1>11, <1>12, <1>13, <1>14
     DEF ClientStep, ServeStep

LEMMA OutsideStepTypeOK ==
    ASSUME TypeOK, LockAges \/ UNCHANGED vars
    PROVE  TypeOK'
<1>. USE DEF TypeOK
<1>1. CASE LockAges
  BY <1>1 DEF LockAges, LockType
<1>2. CASE UNCHANGED vars
  BY <1>2 DEF vars
<1>. QED  BY <1>1, <1>2

-----------------------------------------------------------------------------

(* What is the same in all steps.                                           *)

\* A step of a run leaves the requests alone, and works on the reviews it has.
WorkerFrame(w) ==
    /\ req' = req /\ marker' = marker /\ database' = database
    /\ OtherRuns(w)
    /\ RecordRevision(w) \/ flow' = flow
    /\ SaveRevision(w) \/ (rows' = rows /\ lastRow' = lastRow)
    /\ FreezeResult(w) \/ frozen' = frozen
    /\ \/ Forgets(w)
       \/ run'[w].rv = run[w].rv /\ run'[w].parent = run[w].parent
       \/ Applicable(flow) /\ run'[w].rv = flow.rv /\ run'[w].parent = flow.rev
    /\ history' = history \/ (history' \in HistoryType /\ Remembered)

LEMMA WorkerStepFrame ==
    ASSUME TypeOK, NEW w \in Workers, WorkerStep(w)
    PROVE  WorkerFrame(w)
<1>. USE DEF WorkerFrame
<1>1. ASSUME NEW kind \in {"initial", "revision"}, Dequeue(w, kind) PROVE WorkerFrame(w)
  BY <1>1, DequeueMoves DEF Dequeue
<1>2. CASE ReadReviews(w)
  BY <1>2, ReadReviewsMoves, IdleMoves DEF ReadReviews, Refuse
<1>3. CASE TakeLock(w)
  BY <1>3, GoMoves, IdleMoves DEF TakeLock, Refuse, Moves, Inside
<1>4. CASE DropStaleLock(w)
  BY <1>4, GoMoves, WorkerHistory DEF DropStaleLock, Moves
<1>5. CASE RemakeLock(w)
  BY <1>5, GoMoves, IdleMoves DEF RemakeLock, Refuse, Moves, Inside
<1>6. CASE ReleaseLock(w)
  BY <1>6, IdleMoves, GoMoves, WorkerHistory DEF ReleaseLock, Moves
<1>7. CASE StartRun(w)
  BY <1>7, StartRunMoves DEF StartRun, Moves
<1>8. CASE CancelRun(w)
  BY <1>8, EndRunMoves DEF CancelRun, EndRun
<1>9. CASE FailRun(w)
  BY <1>9, EndRunMoves, WorkerHistory DEF FailRun
<1>19. CASE FailStart(w)
  BY <1>19, GoMoves DEF FailStart, Moves
<1>20. CASE RefuseRun(w)
  BY <1>20, IdleMoves DEF RefuseRun, Refuse
<1>10. CASE Inspect(w)
  BY <1>10, GoMoves DEF Inspect, Moves, Inside
<1>11. CASE Normalize(w)
  BY <1>11, GoMoves DEF Normalize, Moves, Inside
<1>12. CASE SaveRevision(w)
  BY <1>12, SaveRevisionMoves DEF SaveRevision, Moves
<1>13. CASE RecordRevision(w)
  BY <1>13, GoMoves DEF RecordRevision, Moves, Inside
<1>14. CASE FreezeResult(w)
  BY <1>14, GoMoves DEF FreezeResult, Moves, Inside
<1>15. CASE Render(w)
  BY <1>15, GoMoves DEF Render, Moves, Inside
<1>16. CASE Upload(w)
  BY <1>16, GoMoves DEF Upload, Moves, Inside
<1>17. CASE PublishOutcome(w)
  BY <1>17, EndRunMoves DEF PublishOutcome
<1>18. CASE Crash(w)
  BY <1>18, IdleMoves, WorkerHistory DEF Crash
<1>. QED
  BY <1>1, <1>2, <1>3, <1>4, <1>5, <1>6, <1>7, <1>8, <1>9, <1>10, <1>11, <1>12, <1>13,
     <1>14, <1>15, <1>16, <1>17, <1>18, <1>19, <1>20 DEF WorkerStep, RunStep

\* Where a step of a run leads from, and to; a run that is numbered stays so.
PlaceFrame(w) ==
    /\ run'[w].pc \in Numbered => run'[w].rev > 0
    /\ run'[w].pc \in Unlocked \cup {"release"} => run'[w].kind = "revision"
    /\ run'[w].doomed => marker /\ run'[w].pc = "inspect"

LEMMA WorkerStepPlace ==
    ASSUME TypeOK, RunInv, NEW w \in Workers, WorkerStep(w)
    PROVE  PlaceFrame(w)
<1>. USE DEF PlaceFrame, Numbered, Unlocked
<1>a. /\ run[w].pc \in Numbered => run[w].rev > 0
      /\ run[w].pc \in Unlocked \cup {"release"} => run[w].kind = "revision"
      /\ run[w].doomed => marker /\ run[w].pc = "inspect"
  BY DEF RunInv
<1>1. ASSUME NEW kind \in {"initial", "revision"}, Dequeue(w, kind) PROVE PlaceFrame(w)
  BY <1>1, DequeueMoves DEF Forgets
<1>2. CASE ReadReviews(w)
  BY <1>2, <1>a, ReadReviewsMoves, IdleMoves DEF ReadReviews, Refuse, Forgets
<1>3. CASE TakeLock(w)
  BY <1>3, <1>a, GoMoves, IdleMoves DEF TakeLock, Refuse, Forgets, Moves, Inside
<1>4. CASE DropStaleLock(w)
  BY <1>4, <1>a, GoMoves DEF DropStaleLock, Moves
<1>5. CASE RemakeLock(w)
  BY <1>5, <1>a, GoMoves, IdleMoves DEF RemakeLock, Refuse, Forgets, Moves, Inside
<1>6. CASE Crash(w) \/ RefuseRun(w)
  BY <1>6, IdleMoves DEF Crash, RefuseRun, Refuse, Forgets
<1>14. CASE ReleaseLock(w)
  BY <1>14, <1>a, IdleMoves, GoMoves DEF ReleaseLock, Forgets, Moves
<1>15. CASE FailStart(w)
  BY <1>15, <1>a, GoMoves DEF FailStart, Moves
<1>7. CASE StartRun(w)
  BY <1>7, StartRunMoves DEF Moves
<1>8. CASE CancelRun(w) \/ FailRun(w) \/ PublishOutcome(w)
  BY <1>8, EndRunMoves DEF CancelRun, FailRun, EndRun, PublishOutcome, Forgets
<1>9. CASE Inspect(w) \/ Normalize(w)
  BY <1>9, <1>a, GoMoves DEF Inspect, Normalize, CancelSeen, Moves, Inside
<1>10. CASE SaveRevision(w)
  <2>1. NextNumber > 0
    BY <1>10, BoundsAssumption DEF SaveRevision, Revisions
  <2>2. run'[w].pc = "record" /\ run'[w].rev = NextNumber /\ run'[w].doomed = run[w].doomed
    BY <1>10, SaveRevisionMoves DEF Moves
  <2>. QED  BY <2>1, <2>2, <1>10, <1>a DEF SaveRevision
<1>11. CASE RecordRevision(w)
  BY <1>11, <1>a, GoMoves DEF RecordRevision, Moves, Inside
<1>12. CASE FreezeResult(w)
  BY <1>12, <1>a, GoMoves DEF FreezeResult, Moves, Inside
<1>13. CASE Render(w) \/ Upload(w)
  BY <1>13, <1>a, GoMoves DEF Render, Upload, Moves, Inside
<1>. QED
  BY <1>1, <1>2, <1>3, <1>4, <1>5, <1>6, <1>7, <1>8, <1>9, <1>10, <1>11, <1>12, <1>13,
     <1>14, <1>15 DEF WorkerStep, RunStep

\* A step of a request leaves the runs alone; what it holds is the copy it had,
\* the current file, or nothing.
ClientFrame(c) ==
    /\ run' = run /\ (marker => marker') /\ database' = database
    /\ lastRow' = lastRow /\ frozen' = frozen /\ lock' = lock
    /\ OtherRequests(c)
    /\ WriteReviews(c) \/ flow' = flow
    /\ (DecideRow(c) /\ Undecided(c)) \/ rows' = rows
    /\ \/ req'[c].flow = NoFlow /\ req'[c].pc \in {"idle", "queue", "mark", "delete"}
       \/ /\ req'[c].flow = req[c].flow /\ req'[c].q = req[c].q /\ req'[c].d = req[c].d
          /\ req'[c].pc \in {"write", "settle", "enqueue", "cancel"}
          /\ req'[c].pc = "write" => Deciding(c)
       \/ \E q \in Questions : \E d \in Offered(q) :
             /\ OpenReview(c, q, d)
             /\ req'[c].flow = flow /\ req'[c].q = q /\ req'[c].d = d
    /\ history' = history \/ (history' \in HistoryType /\ Remembered)

LEMMA ClientStepFrame ==
    ASSUME TypeOK, SoundInv, NEW c \in Clients, ClientStep(c)
    PROVE  ClientFrame(c)
<1>. USE DEF ClientFrame
<1>1. CASE DecideRow(c) /\ Undecided(c)
  <2>1. Deciding(c) /\ req[c].flow.rev \in Revisions
    BY <1>1, DecidingRevision DEF DecideRow, Deciding
  <2>. QED  BY <2>1, <1>1, DecideRowMoves DEF DecideRow
<1>2. CASE DecideRow(c) /\ ~Undecided(c)
  BY <1>2, AnswerMoves DEF DecideRow
<1>3. CASE WriteReviews(c)
  BY <1>3, WriteReviewsMoves, AnswerMoves, ClientHistory DEF WriteReviews
<1>4. CASE SettleReviews(c)
  BY <1>4, AnswerMoves, ClientHistory DEF SettleReviews
<1>5. CASE MarkQueued(c)
  BY <1>5, RequestMoves, ClientHistory DEF MarkQueued
<1>6. CASE Enqueue(c)
  BY <1>6, AnswerMoves DEF Enqueue
<1>7. CASE EnqueueFails(c)
  BY <1>7, AnswerMoves, ClientHistory DEF EnqueueFails
<1>8. CASE AskRevision(c)
  BY <1>8, AskRevisionMoves DEF AskRevision
<1>9. ASSUME NEW q \in Questions, NEW d \in Offered(q), OpenReview(c, q, d)
      PROVE  ClientFrame(c)
  <2>1. history' \in HistoryType /\ Remembered
    <3>1. history \in HistoryType
      BY DEF TypeOK
    <3>2. history' \in HistoryType
      BY <3>1, <1>9 DEF OpenReview, HistoryType
    <3>3. \A f \in Flags : history[f] => history'[f]
      BY <3>1, <1>9 DEF OpenReview, HistoryType, Flags
    <3>. QED  BY <3>2, <3>3 DEF Remembered
  <2>2. /\ run' = run /\ (marker => marker') /\ database' = database /\ lastRow' = lastRow
        /\ frozen' = frozen /\ lock' = lock /\ flow' = flow /\ rows' = rows
    BY <1>9 DEF OpenReview
  <2>3. OtherRequests(c) /\ req'[c].flow = flow /\ req'[c].q = q /\ req'[c].d = d
    BY <1>9, OpenReviewMoves
  <2>. QED  BY <2>1, <2>2, <2>3, <1>9
<1>10. CASE ReadForCancel(c) \/ ReadForDelete(c)
  BY <1>10, ShelveMoves DEF ReadForCancel, ReadForDelete
<1>11. CASE WriteMarker(c)
  BY <1>11, RequestMoves DEF WriteMarker
<1>12. CASE WriteCancel(c) \/ WriteDelete(c)
  BY <1>12, AnswerMoves, ClientHistory DEF WriteCancel, WriteDelete
<1>13. CASE BreakOff(c)
  BY <1>13, AnswerMoves, ClientHistory DEF BreakOff
<1>. QED
  BY <1>1, <1>2, <1>3, <1>4, <1>5, <1>6, <1>7, <1>8, <1>9, <1>10, <1>11, <1>12, <1>13
     DEF ClientStep, ServeStep

\* The ageing of the lock changes nothing else.
LEMMA OutsideStepFrame ==
    ASSUME LockAges \/ UNCHANGED vars
    PROVE  /\ run' = run /\ req' = req /\ flow' = flow /\ rows' = rows
           /\ lastRow' = lastRow /\ frozen' = frozen /\ database' = database
           /\ queue' = queue /\ history' = history /\ marker' = marker
           /\ status' = status
  BY DEF LockAges, vars

\* Every step is one of a worker, or of a request, or the lock ages.
LEMMA Steps ==
    ASSUME [Next]_vars
    PROVE  \/ \E w \in Workers : WorkerStep(w)
           \/ \E c \in Clients : ClientStep(c)
           \/ LockAges \/ UNCHANGED vars
  BY DEF Next, WorkerStep, ClientStep

LEMMA WorkerStepSound ==
    ASSUME TypeOK, SoundInv, NEW w \in Workers, WorkerStep(w)
    PROVE  SoundInv'
<1>1. WorkerFrame(w) /\ run[w].rv \in Reviews
  BY WorkerStepFrame DEF TypeOK, RunType
<1>2. Sound(flow'.rv)
  <2>1. CASE RecordRevision(w)
    BY <2>1, <1>1, NormalizedTypes DEF RecordRevision
  <2>2. CASE flow' = flow
    BY <2>2 DEF SoundInv
  <2>. QED  BY <1>1, <2>1, <2>2 DEF WorkerFrame
<1>3. ASSUME NEW n \in Revisions PROVE Sound(rows'[n])
  <2>1. CASE SaveRevision(w)
    <3>1. rows'[n] = AskedBy(run[w].rv) \/ rows'[n] = rows[n]
      BY <2>1 DEF SaveRevision, TypeOK
    <3>. QED  BY <3>1, <1>1, NormalizedTypes DEF SoundInv
  <2>2. CASE rows' = rows
    BY <2>2 DEF SoundInv
  <2>. QED  BY <1>1, <2>1, <2>2 DEF WorkerFrame
<1>4. ASSUME NEW v \in Workers PROVE Sound(run'[v].rv) /\ ~Rejected(run'[v].rv)
  BY <1>1, IdleTypes DEF WorkerFrame, OtherRuns, Forgets, SoundInv, Applicable
<1>5. req' = req
  BY <1>1 DEF WorkerFrame
<1>. QED  BY <1>2, <1>3, <1>4, <1>5 DEF SoundInv, Deciding

LEMMA ClientStepSound ==
    ASSUME TypeOK, SoundInv, NEW c \in Clients, ClientStep(c)
    PROVE  SoundInv'
<1>1. ClientFrame(c)
  BY ClientStepFrame
<1>2. Sound(flow'.rv)
  <2>1. CASE WriteReviews(c)
    <3>1. req[c].d \in Offered(req[c].q) /\ Sound(req[c].flow.rv)
      BY <2>1, DecidingRevision DEF WriteReviews, Deciding, SoundInv
    <3>. QED  BY <2>1, <3>1, WrittenFlow DEF Sound
  <2>2. CASE flow' = flow
    BY <2>2 DEF SoundInv
  <2>. QED  BY <1>1, <2>1, <2>2 DEF ClientFrame
<1>3. ASSUME NEW n \in Revisions PROVE Sound(rows'[n])
  <2>1. CASE DecideRow(c) /\ Undecided(c)
    <3>1. req[c].flow.rev \in Revisions /\ req[c].d \in Offered(req[c].q)
      BY <2>1, DecidingRevision DEF DecideRow, Deciding
    <3>2. \A q \in Questions :
              rows'[n][q] = IF n = req[c].flow.rev /\ q = req[c].q THEN req[c].d ELSE rows[n][q]
      BY <2>1, <3>1, DecideRowMoves
    <3>. QED  BY <3>1, <3>2 DEF Sound, SoundInv
  <2>2. CASE rows' = rows
    BY <2>2 DEF SoundInv
  <2>. QED  BY <1>1, <2>1, <2>2 DEF ClientFrame
<1>4. ASSUME NEW b \in Clients
      PROVE  /\ Sound(req'[b].flow.rv)
             /\ Deciding(b)' => /\ req'[b].q \in Questions
                                /\ req'[b].d \in Offered(req'[b].q)
                                /\ req'[b].flow.rev > 0
  <2>1. CASE b # c
    BY <1>1, <2>1 DEF ClientFrame, OtherRequests, SoundInv, Deciding
  <2>2. CASE b = c
    <3>1. CASE req'[c].flow = NoFlow /\ req'[c].pc \in {"idle", "queue", "mark", "delete"}
      BY <2>2, <3>1, IdleTypes DEF NoFlow, Deciding
    <3>2. CASE /\ req'[c].flow = req[c].flow /\ req'[c].q = req[c].q /\ req'[c].d = req[c].d
               /\ req'[c].pc \in {"write", "settle", "enqueue", "cancel"}
               /\ req'[c].pc = "write" => Deciding(c)
      BY <2>2, <3>2 DEF SoundInv, Deciding
    <3>3. ASSUME NEW q \in Questions, NEW d \in Offered(q), OpenReview(c, q, d),
                 req'[c].flow = flow, req'[c].q = q, req'[c].d = d
          PROVE  /\ Sound(req'[c].flow.rv) /\ req'[c].flow.rev > 0
                 /\ req'[c].q \in Questions /\ req'[c].d \in Offered(req'[c].q)
      BY <3>3 DEF OpenReview, SoundInv
    <3>. QED  BY <1>1, <2>2, <3>1, <3>2, <3>3 DEF ClientFrame
  <2>. QED  BY <2>1, <2>2
<1>5. run' = run
  BY <1>1 DEF ClientFrame
<1>. QED  BY <1>2, <1>3, <1>4, <1>5 DEF SoundInv

\* The inductive invariant behind the types.
TypeInv == TypeOK /\ SoundInv /\ RunInv

LEMMA InitTypeInv == Init => TypeInv
<1>. SUFFICES ASSUME Init PROVE TypeInv
  OBVIOUS
<1>1. TypeOK
  <2>1. frozen \in [Revisions -> FrozenType]
    BY DEF Init, FrozenType
  <2>2. queue \in [{"initial", "revision"} -> Nat]
    BY DEF Init
  <2>3. history \in HistoryType
    BY DEF Init, HistoryType
  <2>4. rows \in [Revisions -> Reviews] /\ run \in [Workers -> RunType] /\ req \in [Clients -> ReqType]
    BY IdleTypes DEF Init
  <2>5. database \in BOOLEAN /\ marker \in BOOLEAN
    BY Zenon DEF Init
  <2>6. lastRow \in 0..MaxRevision
    BY BoundsAssumption DEF Init
  <2>7. status \in StatusType /\ flow \in FlowType /\ lock \in LockType
    BY IdleTypes DEF Init
  <2>. QED  BY <2>1, <2>2, <2>3, <2>4, <2>5, <2>6, <2>7 DEF TypeOK
<1>2. SoundInv
  BY IdleTypes DEF Init, SoundInv, NoFlow, IdleRun, IdleReq, Deciding
<1>3. RunInv
  BY DEF Init, RunInv, IdleRun, Numbered, Unlocked
<1>. QED  BY <1>1, <1>2, <1>3 DEF TypeInv

LEMMA StepTypeInv ==
    ASSUME TypeInv, [Next]_vars
    PROVE  TypeInv'
<1>. USE DEF TypeInv
<1>1. ASSUME NEW w \in Workers, WorkerStep(w) PROVE TypeInv'
  <2>1. WorkerFrame(w) /\ PlaceFrame(w)
    BY <1>1, WorkerStepFrame, WorkerStepPlace
  <2>2. RunInv'
    BY <2>1 DEF WorkerFrame, PlaceFrame, OtherRuns, RunInv
  <2>. QED  BY <1>1, <2>2, WorkerStepTypeOK, WorkerStepSound
<1>2. ASSUME NEW c \in Clients, ClientStep(c) PROVE TypeInv'
  <2>1. ClientFrame(c)
    BY <1>2, ClientStepFrame
  <2>2. RunInv'
    BY <2>1 DEF ClientFrame, RunInv
  <2>. QED  BY <1>2, <2>2, ClientStepTypeOK, ClientStepSound
<1>3. CASE LockAges \/ UNCHANGED vars
  BY <1>3, OutsideStepTypeOK, OutsideStepFrame DEF SoundInv, RunInv, Deciding
<1>. QED  BY <1>1, <1>2, <1>3, Steps

LEMMA TypeInvariant == Spec => []TypeInv
  BY InitTypeInv, StepTypeInv, PTL DEF Spec

\* Every variable keeps its type; in particular the catalogs frozen for reruns hold
\* platform categories only, because a rerun never applies a rejected review.
THEOREM ReviewTypeCorrect == Spec => []TypeOK
<1>1. TypeInv => TypeOK
  BY DEF TypeInv
<1>. QED  BY <1>1, TypeInvariant, PTL

\* A run that starts after the cancellation was requested goes no further than its
\* first checkpoint: it makes no revision.
THEOREM CancelStopsRuns == Spec => []CancelledRunMakesNoRevision
<1>1. TypeInv => CancelledRunMakesNoRevision
  BY DEF TypeInv, RunInv, CancelledRunMakesNoRevision
<1>. QED  BY <1>1, TypeInvariant, PTL

-----------------------------------------------------------------------------
(* The decisions a rerun applies, and the ones the database holds.          *)

\* Which step leads to the places where a revision is made.
Arrives(w) ==
    /\ run'[w].pc = "record" => SaveRevision(w)
    /\ run'[w].pc = "freeze" => RecordRevision(w)
    /\ run[w].pc = "record" => RecordRevision(w) \/ FailRun(w) \/ Crash(w)
    /\ run[w].pc = "freeze" => FreezeResult(w) \/ FailRun(w) \/ Crash(w)

LEMMA WorkerStepArrives ==
    ASSUME TypeOK, NEW w \in Workers, WorkerStep(w)
    PROVE  Arrives(w)
<1>. USE DEF Arrives
<1>1. ASSUME NEW kind \in {"initial", "revision"}, Dequeue(w, kind) PROVE Arrives(w)
  BY <1>1, DequeueMoves DEF Dequeue
<1>2. CASE ReadReviews(w)
  BY <1>2, ReadReviewsMoves, IdleMoves DEF ReadReviews, Refuse
<1>3. CASE TakeLock(w)
  BY <1>3, GoMoves, IdleMoves DEF TakeLock, Refuse, Moves, Inside
<1>4. CASE DropStaleLock(w)
  BY <1>4, GoMoves DEF DropStaleLock, Moves
<1>5. CASE RemakeLock(w)
  BY <1>5, GoMoves, IdleMoves DEF RemakeLock, Refuse, Moves, Inside
<1>6. CASE Crash(w) \/ RefuseRun(w)
  BY <1>6, IdleMoves DEF Crash, RefuseRun, Refuse
<1>14. CASE ReleaseLock(w)
  BY <1>14, IdleMoves, GoMoves DEF ReleaseLock, Moves
<1>15. CASE FailStart(w)
  BY <1>15, GoMoves DEF FailStart, Moves
<1>7. CASE StartRun(w)
  BY <1>7, StartRunMoves DEF StartRun, Moves
<1>8. CASE CancelRun(w) \/ FailRun(w) \/ PublishOutcome(w)
  BY <1>8, EndRunMoves DEF CancelRun, FailRun, EndRun, PublishOutcome
<1>9. CASE Inspect(w) \/ Normalize(w)
  BY <1>9, GoMoves DEF Inspect, Normalize, Moves, Inside
<1>10. CASE SaveRevision(w)
  BY <1>10, SaveRevisionMoves DEF SaveRevision, Moves
<1>11. CASE RecordRevision(w)
  BY <1>11, GoMoves DEF RecordRevision, Moves, Inside
<1>12. CASE FreezeResult(w)
  BY <1>12, GoMoves DEF FreezeResult, Moves, Inside
<1>13. CASE Render(w) \/ Upload(w)
  BY <1>13, GoMoves DEF Render, Upload, Moves, Inside
<1>. QED
  BY <1>1, <1>2, <1>3, <1>4, <1>5, <1>6, <1>7, <1>8, <1>9, <1>10, <1>11, <1>12, <1>13,
     <1>14, <1>15 DEF WorkerStep, RunStep

\* With a database, a run changes the newest rows only.
LEMMA WorkerRows ==
    ASSUME TypeOK, FileBehind, database, NEW w \in Workers, WorkerStep(w)
    PROVE  /\ lastRow <= lastRow'
           /\ \A n \in Revisions : n <= lastRow => rows'[n] = rows[n]
           /\ \A n \in Revisions : n > lastRow' => rows'[n] = NoReviews
           /\ SaveRevision(w) => /\ NextNumber \in Revisions /\ lastRow' = NextNumber
                                 /\ rows'[NextNumber] = AskedBy(run[w].rv)
<1>1. lastRow \in Nat /\ \A n \in Revisions : n \in Nat
  BY BoundsAssumption DEF TypeOK, Revisions
<1>2. CASE SaveRevision(w)
  <2>1. NextNumber = lastRow + 1 /\ NextNumber \in Revisions /\ lastRow' = NextNumber
    BY <1>2 DEF SaveRevision, NextNumber
  <2>2. rows' = [rows EXCEPT ![NextNumber] = AskedBy(run[w].rv)]
    BY <1>2 DEF SaveRevision
  <2>3. /\ rows'[NextNumber] = AskedBy(run[w].rv)
        /\ \A n \in Revisions : n # NextNumber => rows'[n] = rows[n]
    BY <2>1, <2>2 DEF TypeOK
  <2>4. \A n \in Revisions : n <= lastRow => rows'[n] = rows[n]
    BY <1>1, <2>1, <2>3
  <2>5. \A n \in Revisions : n > lastRow' => rows'[n] = NoReviews
    BY <1>1, <2>1, <2>3 DEF FileBehind
  <2>. QED  BY <1>1, <2>1, <2>3, <2>4, <2>5
<1>3. CASE ~SaveRevision(w)
  <2>1. rows' = rows /\ lastRow' = lastRow
    BY <1>3, WorkerStepFrame DEF WorkerFrame
  <2>. QED  BY <1>1, <1>3, <2>1 DEF FileBehind
<1>. QED  BY <1>2, <1>3

\* Reviews that are all resolved are the ones recorded.
LEMMA ResolvedIsRecorded ==
    ASSUME NEW rv \in Reviews, NEW recorded \in Reviews, Behind(rv, recorded), AllResolved(rv)
    PROVE  rv = recorded
  BY DEF Reviews, Behind, AllResolved

LEMMA WorkerStepBehind ==
    ASSUME TypeInv, BehindInv, NEW w \in Workers, WorkerStep(w)
    PROVE  BehindInv'
<1>1. WorkerFrame(w) /\ Arrives(w)
  BY WorkerStepFrame, WorkerStepArrives DEF TypeInv
<1>2. TypeOK /\ TypeOK' /\ SoundInv /\ database' = database /\ req' = req /\ OtherRuns(w)
  BY <1>1, StepTypeInv DEF TypeInv, WorkerFrame, WorkerStep, Next
<1>3. CASE ~database
  BY <1>2, <1>3 DEF BehindInv
<1>4. CASE database
  <2>. USE <1>4
  <2>1. /\ FileBehind /\ \A c \in Clients : CopyBehind(c)
        /\ \A v \in Workers : RunBehind(v)
    BY DEF BehindInv
  <2>2. /\ lastRow <= lastRow'
        /\ \A n \in Revisions : n <= lastRow => rows'[n] = rows[n]
        /\ \A n \in Revisions : n > lastRow' => rows'[n] = NoReviews
        /\ SaveRevision(w) => /\ NextNumber \in Revisions /\ lastRow' = NextNumber
                              /\ rows'[NextNumber] = AskedBy(run[w].rv)
    BY <1>2, <2>1, WorkerRows
  <2>3. lastRow \in Nat /\ lastRow' \in Nat /\ lastRow <= MaxRevision
    BY <1>2, BoundsAssumption DEF TypeOK
  <2>4. \A n \in Nat : n > 0 /\ n <= lastRow => n \in Revisions /\ rows'[n] = rows[n] /\ n <= lastRow'
    BY <2>2, <2>3, BoundsAssumption DEF Revisions
  <2>5. FileBehind'
    <3>1. CASE flow' = flow
      <4>1. flow.rev \in Nat
        BY <1>2 DEF TypeOK, FlowType
      <4>. QED  BY <2>1, <2>2, <2>3, <2>4, <3>1, <4>1 DEF FileBehind
    <3>2. CASE RecordRevision(w)
      <4>1. RunBehind(w) /\ run[w].pc = "record" /\ run[w].rev \in Nat
        BY <1>2, <2>1, <3>2 DEF RecordRevision, TypeOK, RunType
      <4>2. /\ run[w].rev > 0 /\ run[w].rev <= lastRow
            /\ Behind(AskedBy(run[w].rv), rows[run[w].rev])
        BY <4>1 DEF RunBehind, TypeInv, RunInv, Numbered
      <4>3. flow'.rev = run[w].rev /\ flow'.rv = AskedBy(run[w].rv)
        BY <3>2 DEF RecordRevision
      <4>. QED  BY <2>2, <2>3, <2>4, <4>1, <4>2, <4>3 DEF FileBehind
    <3>. QED  BY <1>1, <3>1, <3>2 DEF WorkerFrame
  <2>6. ASSUME NEW c \in Clients PROVE CopyBehind(c)'
    <3>1. CopyBehind(c) /\ req'[c] = req[c]
      BY <1>2, <2>1
    <3>2. CASE Deciding(c)
      <4>1. req[c].flow.rev \in Nat /\ req[c].flow.rev > 0 /\ req[c].flow.rev <= lastRow
        BY <1>2, <3>1, <3>2, DecidingRevision, BoundsAssumption DEF CopyBehind, Revisions
      <4>. QED  BY <2>4, <3>1, <3>2, <4>1 DEF CopyBehind, Deciding
    <3>3. CASE ~Deciding(c)
      BY <3>1, <3>3 DEF CopyBehind, Deciding
    <3>. QED  BY <3>2, <3>3
  <2>7. ASSUME NEW v \in Workers, v # w PROVE RunBehind(v)'
    <3>1. RunBehind(v) /\ run'[v] = run[v]
      BY <1>2, <2>1, <2>7 DEF OtherRuns
    <3>2. run[v].parent \in Nat /\ run[v].rev \in Nat /\ (run[v].pc = "record" => run[v].rev > 0)
      BY <1>2 DEF TypeOK, RunType, TypeInv, RunInv, Numbered
    <3>. QED  BY <2>3, <2>4, <2>2, <3>1, <3>2 DEF RunBehind
  <2>8. RunBehind(w)'
    <3>1. RunBehind(w) /\ run[w].parent \in Nat /\ flow.rev \in Nat /\ flow.rv \in Reviews
      BY <1>2, <2>1 DEF TypeOK, RunType, FlowType
    <3>2. run'[w].pc = "record" =>
              run'[w].rev <= lastRow' /\ Behind(AskedBy(run'[w].rv), rows'[run'[w].rev])
      <4>. SUFFICES ASSUME SaveRevision(w)
                    PROVE  run'[w].rev <= lastRow' /\ Behind(AskedBy(run'[w].rv), rows'[run'[w].rev])
        BY <1>1 DEF Arrives
      <4>1. run'[w].rev = NextNumber /\ run'[w].rv = run[w].rv
        BY <1>2, SaveRevisionMoves DEF Moves
      <4>. QED  BY <2>2, <2>3, <4>1 DEF Behind
    <3>3. /\ run'[w].parent <= lastRow'
          /\ run'[w].parent > 0 => AllResolved(run'[w].rv) /\ run'[w].rv = rows'[run'[w].parent]
      <4>1. CASE Forgets(w)
        BY <2>3, <4>1 DEF Forgets
      <4>2. CASE run'[w].rv = run[w].rv /\ run'[w].parent = run[w].parent
        BY <2>2, <2>3, <2>4, <3>1, <4>2 DEF RunBehind
      <4>3. CASE Applicable(flow) /\ run'[w].rv = flow.rv /\ run'[w].parent = flow.rev
        <5>1. flow.rev > 0 /\ AllResolved(flow.rv) /\ flow.rev <= lastRow
              /\ Behind(flow.rv, rows[flow.rev])
          BY <2>1, <4>3 DEF FileBehind, Applicable
        <5>2. flow.rev \in Revisions /\ rows'[flow.rev] = rows[flow.rev] /\ flow.rev <= lastRow'
          BY <2>4, <3>1, <5>1
        <5>3. rows[flow.rev] \in Reviews
          BY <1>2, <5>2 DEF TypeOK
        <5>. QED  BY <3>1, <4>3, <5>1, <5>2, <5>3, ResolvedIsRecorded
      <4>. QED  BY <1>1, <4>1, <4>2, <4>3 DEF WorkerFrame
    <3>. QED  BY <3>2, <3>3 DEF RunBehind
  <2>. QED  BY <1>2, <2>5, <2>6, <2>7, <2>8 DEF BehindInv
<1>. QED  BY <1>3, <1>4

\* A decision recorded leaves every copy of the reviews behind the database.
LEMMA DecidedStaysBehind ==
    ASSUME TypeOK, NEW c \in Clients, DecideRow(c), Undecided(c), req[c].flow.rev \in Revisions,
           NEW n \in Revisions, NEW rv, Behind(rv, rows[n])
    PROVE  Behind(rv, rows'[n])
<1>1. \A q \in Questions :
          rows'[n][q] = IF n = req[c].flow.rev /\ q = req[c].q THEN req[c].d ELSE rows[n][q]
  BY DecideRowMoves
<1>2. \A q \in Questions : n = req[c].flow.rev /\ q = req[c].q => rv[q] = "pending"
  BY DEF Behind, Undecided
<1>. QED  BY <1>1, <1>2 DEF Behind

LEMMA ClientStepBehind ==
    ASSUME TypeInv, BehindInv, NEW c \in Clients, ClientStep(c)
    PROVE  BehindInv'
<1>1. ClientFrame(c) /\ TypeOK /\ SoundInv
  BY ClientStepFrame DEF TypeInv
<1>2. /\ database' = database /\ run' = run /\ lastRow' = lastRow /\ OtherRequests(c)
  BY <1>1 DEF ClientFrame
<1>3. CASE ~database
  <2>1. /\ req[c].pc # "decide"
        /\ req[c].pc = "write" => req[c].flow.rv[req[c].q] = "pending"
    BY <1>3 DEF BehindInv
  <2>2. \A q \in Questions : \A d \in Offered(q) : OpenReview(c, q, d) =>
            req'[c].pc = "write" /\ flow.rv[q] = "pending"
    BY <1>1, <1>3, OpenReviewMoves DEF OpenReview
  <2>3. /\ req'[c].pc # "decide"
        /\ req'[c].pc = "write" => req'[c].flow.rv[req'[c].q] = "pending"
    BY <1>1, <2>1, <2>2 DEF ClientFrame, Deciding
  <2>. QED  BY <1>2, <1>3, <2>3 DEF BehindInv, OtherRequests
<1>4. CASE database
  <2>. USE <1>4
  <2>1. /\ FileBehind /\ \A b \in Clients : CopyBehind(b)
        /\ \A w \in Workers : RunBehind(w)
    BY DEF BehindInv
  <2>2. lastRow \in Nat /\ flow.rev \in Nat /\ \A n \in Revisions : n \in Nat /\ n > 0
    BY <1>1, BoundsAssumption DEF TypeOK, FlowType, Revisions
  <2>3. \A n \in Nat : n > 0 /\ n <= lastRow => n \in Revisions
    BY <1>1, BoundsAssumption DEF TypeOK, Revisions
  <2>4. ASSUME NEW n \in Revisions, NEW rv, Behind(rv, rows[n]) PROVE Behind(rv, rows'[n])
    <3>1. CASE DecideRow(c) /\ Undecided(c)
      BY <1>1, <2>4, <3>1, DecidedStaysBehind, DecidingRevision DEF DecideRow, Deciding
    <3>. QED  BY <1>1, <2>4, <3>1 DEF ClientFrame
  <2>5. \A n \in Revisions : n > lastRow => rows'[n] = NoReviews
    <3>1. CASE DecideRow(c) /\ Undecided(c)
      <4>1. req[c].flow.rev \in Revisions /\ req[c].flow.rev <= lastRow
        BY <1>1, <2>1, <3>1, DecidingRevision DEF DecideRow, Deciding, CopyBehind
      <4>2. \A n \in Revisions : n # req[c].flow.rev => rows'[n] = rows[n]
        BY <1>1, <3>1, <4>1, DecideRowMoves
      <4>. QED  BY <2>1, <2>2, <4>1, <4>2 DEF FileBehind
    <3>2. CASE rows' = rows
      BY <2>1, <3>2 DEF FileBehind
    <3>. QED  BY <1>1, <3>1, <3>2 DEF ClientFrame
  <2>6. FileBehind'
    <3>1. CASE flow' = flow
      BY <1>2, <2>1, <2>2, <2>3, <2>4, <2>5, <3>1 DEF FileBehind
    <3>2. CASE WriteReviews(c)
      <4>1. Deciding(c) /\ CopyBehind(c) /\ req[c].pc = "write" /\ req[c].flow.rev \in Revisions
        BY <1>1, <2>1, <3>2, DecidingRevision DEF WriteReviews, Deciding
      <4>2. rows' = rows
        BY <3>2 DEF WriteReviews
      <4>3. Behind(flow'.rv, rows[flow'.rev]) /\ flow'.rev <= lastRow
        BY <1>1, <3>2, <4>1, WrittenFlow DEF CopyBehind, Behind
      <4>. QED  BY <1>2, <2>5, <4>2, <4>3 DEF FileBehind
    <3>. QED  BY <1>1, <3>1, <3>2 DEF ClientFrame
  <2>7. ASSUME NEW b \in Clients, b # c PROVE CopyBehind(b)'
    <3>1. CopyBehind(b) /\ req'[b] = req[b]
      BY <1>2, <2>1, <2>7 DEF OtherRequests
    <3>2. CASE Deciding(b)
      <4>1. req[b].flow.rev \in Revisions /\ req[b].q \in Questions
        BY <1>1, <3>2, DecidingRevision
      <4>2. req[b].pc = "write" =>
                rows'[req[b].flow.rev][req[b].q] = rows[req[b].flow.rev][req[b].q]
        <5>1. CASE DecideRow(c) /\ Undecided(c)
          <6>1. req[c].flow.rev \in Revisions /\ req[b].d \in Offered(req[b].q)
            BY <1>1, <3>2, <5>1, DecidingRevision DEF DecideRow, Deciding
          <6>2. req[b].d # "pending"
            BY <4>1, <6>1, OfferedTypes, NamesAssumption DEF Decisions
          <6>. QED  BY <1>1, <3>1, <4>1, <5>1, <6>1, <6>2, DecideRowMoves
                    DEF Undecided, CopyBehind
        <5>. QED  BY <1>1, <5>1 DEF ClientFrame
      <4>. QED  BY <1>2, <2>4, <3>1, <3>2, <4>1, <4>2 DEF CopyBehind, Deciding
    <3>3. CASE ~Deciding(b)
      BY <3>1, <3>3 DEF CopyBehind, Deciding
    <3>. QED  BY <3>2, <3>3
  <2>8. CopyBehind(c)'
    <3>1. CASE DecideRow(c) /\ Undecided(c)
      <4>1. /\ Deciding(c) /\ CopyBehind(c)
            /\ req[c].flow.rev \in Revisions /\ req[c].q \in Questions
        BY <1>1, <2>1, <3>1, DecidingRevision DEF DecideRow, Deciding
      <4>2. /\ req'[c].pc = "write" /\ req'[c].flow = req[c].flow
            /\ req'[c].q = req[c].q /\ req'[c].d = req[c].d
            /\ rows'[req[c].flow.rev][req[c].q] = req[c].d
        BY <1>1, <3>1, <4>1, DecideRowMoves
      <4>3. req[c].flow.rv[req[c].q] = "pending"
        BY <3>1, <4>1 DEF CopyBehind, Behind, Undecided
      <4>. QED  BY <1>2, <2>4, <4>1, <4>2, <4>3 DEF CopyBehind
    <3>2. ASSUME NEW q \in Questions, NEW d \in Offered(q), OpenReview(c, q, d)
          PROVE  CopyBehind(c)'
      <4>1. req'[c].pc = "decide" /\ req'[c].flow = flow /\ rows' = rows /\ flow.rev > 0
        BY <1>1, <3>2, OpenReviewMoves DEF OpenReview
      <4>. QED  BY <1>2, <2>1, <4>1 DEF CopyBehind, FileBehind
    <3>3. CASE req'[c].pc \notin {"decide", "write"}
      BY <3>3 DEF CopyBehind, Deciding
    <3>4. CASE DecideRow(c) /\ ~Undecided(c)
      BY <1>1, <3>4, AnswerMoves DEF DecideRow, CopyBehind, Deciding
    <3>5. req'[c].pc \in {"decide", "write"} =>
             DecideRow(c) \/ \E q \in Questions : \E d \in Offered(q) : OpenReview(c, q, d)
      BY <1>1, WriteReviewsMoves, AnswerMoves, RequestMoves, AskRevisionMoves, ShelveMoves
         DEF ClientStep, ServeStep, SettleReviews, MarkQueued, Enqueue, EnqueueFails,
             WriteMarker, WriteCancel, WriteDelete, BreakOff
    <3>. QED  BY <3>1, <3>2, <3>3, <3>4, <3>5
  <2>9. ASSUME NEW w \in Workers PROVE RunBehind(w)'
    <3>1. RunBehind(w) /\ run'[w] = run[w] /\ run[w].parent \in Nat /\ run[w].rev \in Nat
      BY <1>1, <1>2, <2>1 DEF TypeOK, RunType
    <3>2. run[w].parent > 0 => rows'[run[w].parent] = rows[run[w].parent]
      <4>1. CASE DecideRow(c) /\ Undecided(c)
        <5>1. req[c].flow.rev \in Revisions /\ req[c].q \in Questions
          BY <1>1, <4>1, DecidingRevision DEF DecideRow, Deciding
        <5>2. run[w].parent > 0 => run[w].parent \in Revisions /\ run[w].parent # req[c].flow.rev
          BY <2>3, <3>1, <4>1, <5>1 DEF RunBehind, AllResolved, Undecided
        <5>. QED  BY <1>1, <4>1, <5>1, <5>2, DecideRowMoves
      <4>. QED  BY <1>1, <4>1 DEF ClientFrame
    <3>3. run[w].pc = "record" => run[w].rev \in Revisions
      BY <2>3, <3>1 DEF RunBehind, TypeInv, RunInv, Numbered
    <3>. QED  BY <1>2, <2>4, <3>1, <3>2, <3>3 DEF RunBehind
  <2>. QED  BY <1>2, <2>6, <2>7, <2>8, <2>9 DEF BehindInv
<1>. QED  BY <1>3, <1>4

LEMMA BehindInvariant == Spec => []BehindInv
<1>1. Init => BehindInv
  <2>. SUFFICES ASSUME Init PROVE BehindInv
    OBVIOUS
  <2>1. FileBehind /\ (\A c \in Clients : CopyBehind(c)) /\ (\A w \in Workers : RunBehind(w))
    BY BoundsAssumption
       DEF Init, FileBehind, CopyBehind, RunBehind, NoFlow, IdleReq, IdleRun, Deciding
  <2>2. \A c \in Clients : req[c].pc = "idle"
    BY DEF Init, IdleReq
  <2>. QED  BY <2>1, <2>2 DEF BehindInv
<1>2. TypeInv /\ BehindInv /\ [Next]_vars => BehindInv'
  <2>. SUFFICES ASSUME TypeInv, BehindInv, [Next]_vars PROVE BehindInv'
    OBVIOUS
  <2>1. CASE LockAges \/ UNCHANGED vars
    BY <2>1, OutsideStepFrame DEF BehindInv, FileBehind, CopyBehind, RunBehind, Deciding
  <2>. QED  BY <2>1, Steps, WorkerStepBehind, ClientStepBehind
<1>. QED  BY <1>1, <1>2, TypeInvariant, PTL DEF Spec

\* With a database, the decisions a rerun applies are those recorded for its parent
\* revision, whatever the writers of the shared workflow file did to each other.
THEOREM DecisionsAreRecorded == Spec => []AppliedDecisionsWereRecorded
<1>1. TypeInv /\ BehindInv => AppliedDecisionsWereRecorded
  BY DEF BehindInv, RunBehind, AppliedDecisionsWereRecorded
<1>. QED  BY <1>1, TypeInvariant, BehindInvariant, PTL

\* A decision recorded in the database is never replaced: deciding takes a pending
\* row, and a run writes the rows of a revision that nobody has seen yet.
THEOREM DecisionsAreFinal == Spec => DecidedOnce
<1> DEFINE Stay == \A n \in Revisions : \A q \in Questions :
                      rows[n][q] \in Decisions => rows'[n][q] = rows[n][q]
<1>1. TypeInv /\ BehindInv /\ [Next]_vars => Stay
  <2>. SUFFICES ASSUME TypeInv, BehindInv, [Next]_vars,
                       NEW n \in Revisions, NEW q \in Questions, rows[n][q] \in Decisions
                PROVE  rows'[n][q] = rows[n][q]
    OBVIOUS
  <2>1. ASSUME NEW w \in Workers, WorkerStep(w) PROVE rows'[n][q] = rows[n][q]
    <3>1. CASE SaveRevision(w)
      <4>1. CASE database
        <5>1. FileBehind /\ lastRow \in Nat /\ n \in Nat
          BY <4>1, BoundsAssumption DEF BehindInv, TypeInv, TypeOK, Revisions
        <5>2. n <= lastRow
          BY <5>1, NamesAssumption DEF FileBehind, NoReviews, Decisions
        <5>. QED  BY <2>1, <4>1, <5>1, <5>2, WorkerRows DEF TypeInv
      <4>. QED  BY <3>1, <4>1 DEF SaveRevision
    <3>. QED  BY <2>1, <3>1, WorkerStepFrame DEF TypeInv, WorkerFrame
  <2>2. ASSUME NEW c \in Clients, ClientStep(c) PROVE rows'[n][q] = rows[n][q]
    <3>1. CASE DecideRow(c) /\ Undecided(c)
      <4>1. req[c].flow.rev \in Revisions
        BY <3>1, DecidingRevision DEF TypeInv, DecideRow, Deciding
      <4>2. rows[n][q] # "pending"
        BY NamesAssumption DEF Decisions
      <4>. QED  BY <3>1, <4>1, <4>2, DecideRowMoves DEF TypeInv, Undecided
    <3>. QED  BY <2>2, <3>1, ClientStepFrame DEF TypeInv, ClientFrame
  <2>. QED  BY <2>1, <2>2, Steps, OutsideStepFrame
<1>. QED  BY <1>1, TypeInvariant, BehindInvariant, PTL DEF Spec, DecidedOnce

-----------------------------------------------------------------------------
(* The frozen results reruns start from.                                    *)

\* A frozen result stays, and the one that a run is about to freeze will be made.
LEMMA StaysBacked ==
    ASSUME TypeInv, NEW w \in Workers, WorkerStep(w), ~Crash(w),
           ~(FailRun(w) /\ run[w].pc = "freeze"),
           NEW n \in Revisions, Backed(n)
    PROVE  Backed(n)'
<1>1. TypeOK /\ WorkerFrame(w) /\ Arrives(w) /\ n > 0
  BY WorkerStepFrame, WorkerStepArrives, BoundsAssumption DEF TypeInv, Revisions
<1>2. CASE frozen[n].made
  <2>1. CASE FreezeResult(w)
    <3>1. \/ frozen'[n] = frozen[n]
          \/ frozen'[n] = [made |-> TRUE, schemas |-> Needed(run[w].rv)]
      BY <1>1, <2>1 DEF FreezeResult, TypeOK
    <3>. QED  BY <1>2, <3>1 DEF Backed
  <2>. QED  BY <1>1, <1>2, <2>1 DEF WorkerFrame, Backed
<1>3. ASSUME NEW v \in Workers, run[v].pc = "freeze", run[v].rev = n PROVE Backed(n)'
  <2>1. CASE v = w
    <3>1. FreezeResult(w)
      BY <1>1, <1>3, <2>1 DEF Arrives
    <3>2. frozen'[n] = [made |-> TRUE, schemas |-> Needed(run[w].rv)]
      BY <1>1, <1>3, <2>1, <3>1 DEF FreezeResult, FrozenNumber, TypeOK
    <3>. QED  BY <3>2 DEF Backed
  <2>2. CASE v # w
    BY <1>1, <1>3, <2>2 DEF WorkerFrame, OtherRuns, Backed
  <2>. QED  BY <2>1, <2>2
<1>. QED  BY <1>1, <1>2, <1>3 DEF Backed

LEMMA BackedInvariant == Spec => []BackedInv
<1>1. Init => BackedInv
  BY DEF Init, BackedInv, Backed, NoFlow, IdleReq
<1>2. TypeInv /\ BackedInv /\ [Next]_vars => BackedInv'
  <2>. SUFFICES ASSUME TypeInv, BackedInv, [Next]_vars, ~history'.crashed, ~history'.unfrozen
                PROVE  BackedInv'
    BY DEF BackedInv
  <2>1. TypeOK /\ \A n \in 0..MaxRevision : n = 0 \/ n \in Revisions
    BY BoundsAssumption DEF TypeInv, Revisions
  <2>2. flow.rev \in 0..MaxRevision /\ \A c \in Clients : req[c].flow.rev \in 0..MaxRevision
    BY <2>1 DEF TypeOK, FlowType, ReqType
  <2>3. ASSUME NEW w \in Workers, WorkerStep(w) PROVE BackedInv'
    <3>1. /\ WorkerFrame(w) /\ ~Crash(w) /\ ~history.crashed
          /\ ~(FailRun(w) /\ run[w].pc = "freeze") /\ ~history.unfrozen
      BY <2>1, <2>3, WorkerStepFrame, WorkerHistory DEF WorkerFrame, Remembered, Flags
    <3>2. \A n \in 0..MaxRevision : Backed(n) => Backed(n)'
      BY <2>1, <2>3, <3>1, StaysBacked DEF Backed

    <3>3. Backed(flow.rev)'
      <4>1. CASE flow' = flow
        BY <2>2, <3>1, <3>2, <4>1 DEF BackedInv, Backed
      <4>2. CASE RecordRevision(w)
        <5>1. Go(w, "freeze") /\ flow'.rev = run[w].rev
          BY <4>2 DEF RecordRevision
        <5>2. run'[w].pc = "freeze" /\ run'[w].rev = run[w].rev
          BY <2>1, <5>1, GoMoves DEF Moves, Inside
        <5>. QED  BY <5>1, <5>2 DEF Backed
      <4>. QED  BY <3>1, <4>1, <4>2 DEF WorkerFrame
    <3>4. \A c \in Clients : Backed(req[c].flow.rev)'
      BY <2>2, <3>1, <3>2 DEF BackedInv, WorkerFrame, Backed
    <3>. QED  BY <3>3, <3>4 DEF BackedInv
  <2>4. ASSUME NEW c \in Clients, ClientStep(c) PROVE BackedInv'
    <3>1. ClientFrame(c) /\ ~history.crashed /\ ~history.unfrozen
      BY <2>1, <2>4, ClientStepFrame DEF TypeInv, ClientFrame, Remembered, Flags
    <3>2. frozen' = frozen /\ run' = run /\ OtherRequests(c)
      BY <3>1 DEF ClientFrame
    <3>3. Backed(flow.rev) /\ \A b \in Clients : Backed(req[b].flow.rev)
      BY <3>1 DEF BackedInv
    <3>4. Backed(flow.rev)'
      <4>1. flow' = flow \/ flow'.rev = req[c].flow.rev
        BY <2>1, <3>1, WrittenFlow DEF ClientFrame
      <4>. QED  BY <3>2, <3>3, <4>1 DEF Backed
    <3>5. req'[c].flow \in {NoFlow, req[c].flow, flow}
      BY <3>1 DEF ClientFrame
    <3>6. ASSUME NEW b \in Clients PROVE Backed(req[b].flow.rev)'
      BY <3>2, <3>3, <3>5 DEF OtherRequests, Backed, NoFlow
    <3>. QED  BY <3>4, <3>6 DEF BackedInv
  <2>5. CASE LockAges \/ UNCHANGED vars
    BY <2>5, OutsideStepFrame DEF BackedInv, Backed
  <2>. QED  BY <2>3, <2>4, <2>5, Steps
<1>. QED  BY <1>1, <1>2, TypeInvariant, PTL DEF Spec

\* A request writes and copies revisions that the status or its copy announces.
ClientCopies(c) ==
    /\ status'.rev \in {status.rev, req[c].status.rev}
    /\ req'[c].status.rev \in {0, status.rev, req[c].status.rev}

LEMMA ClientStepCopies ==
    ASSUME TypeOK, NEW c \in Clients, ClientStep(c)
    PROVE  ClientCopies(c)
<1>. USE DEF ClientCopies
<1>1. /\ \A st \in Statuses : /\ [status EXCEPT !.st = st].rev = status.rev
                              /\ [req[c].status EXCEPT !.st = st].rev = req[c].status.rev
      /\ {"review_resolved", "revision_queued"} \subseteq Statuses
  BY StatusIsSet DEF TypeOK, ReqType, Statuses
<1>2. IdleReq.status.rev = 0 /\ (Answer(c) => req'[c] = IdleReq)
  BY RequestIsSet DEF Answer, IdleReq, NoStatus
<1>3. CASE DecideRow(c) \/ WriteReviews(c)
  BY <1>2, <1>3, RequestMoves DEF DecideRow, WriteReviews
<1>4. CASE SettleReviews(c)
  BY <1>1, <1>2, <1>4 DEF SettleReviews
<1>5. CASE MarkQueued(c)
  BY <1>1, <1>5, RequestMoves DEF MarkQueued
<1>6. CASE Enqueue(c) \/ EnqueueFails(c) \/ BreakOff(c)
  BY <1>2, <1>6 DEF Enqueue, EnqueueFails, BreakOff
<1>7. CASE AskRevision(c) \/ ReadForCancel(c) \/ ReadForDelete(c)
  BY <1>7, AskRevisionMoves, ShelveMoves DEF AskRevision, ReadForCancel, ReadForDelete
<1>8. CASE WriteMarker(c)
  BY <1>8, RequestMoves DEF WriteMarker
<1>9. CASE WriteCancel(c) \/ WriteDelete(c)
  <2>1. status'.rev = req[c].status.rev
    BY <1>9 DEF WriteCancel, WriteDelete, TypeOK, ReqType, StatusType
  <2>. QED  BY <1>2, <1>9, <2>1 DEF WriteCancel, WriteDelete
<1>10. ASSUME NEW q \in Questions, NEW d \in Offered(q), OpenReview(c, q, d)
       PROVE  ClientCopies(c)
  <2>1. req'[c] = [IdleReq EXCEPT !.pc = IF database THEN "decide" ELSE "write",
                                  !.q = q, !.d = d, !.flow = flow]
    BY <1>10, RequestIsSet DEF OpenReview
  <2>2. req'[c].status = IdleReq.status
    BY <2>1 DEF IdleReq
  <2>. QED  BY <1>2, <1>10, <2>2 DEF OpenReview
<1>. QED
  BY <1>3, <1>4, <1>5, <1>6, <1>7, <1>8, <1>9, <1>10 DEF ClientStep, ServeStep

\* What a worker writes of the revision in the status, and where it stands then.
Announces(w) ==
    /\ \/ status'.rev = status.rev
       \/ run[w].pc = "publish" /\ status'.rev = run[w].rev
    /\ run'[w].pc \in Thawed => /\ run'[w].rev = run[w].rev
                                /\ run[w].pc \in Thawed \/ FreezeResult(w)

LEMMA WorkerStepAnnounces ==
    ASSUME TypeOK, NEW w \in Workers, WorkerStep(w)
    PROVE  Announces(w)
<1>. USE DEF Announces, Thawed
<1>a. \A st \in Statuses : [status EXCEPT !.st = st].rev = status.rev
  BY StatusIsSet DEF TypeOK
<1>b. {"failed", "cancelled", "validating", "catalog_resolving", "rendering"} \subseteq Statuses
  BY DEF Statuses, Terminal
<1>c. Refuse(w) => status'.rev = status.rev /\ run'[w].pc = "idle"
  BY <1>a, <1>b, IdleMoves DEF Refuse
<1>1. ASSUME NEW kind \in {"initial", "revision"}, Dequeue(w, kind) PROVE Announces(w)
  BY <1>1, DequeueMoves DEF Dequeue
<1>2. CASE ReadReviews(w)
  BY <1>2, <1>c, ReadReviewsMoves DEF ReadReviews
<1>3. CASE TakeLock(w) \/ RemakeLock(w)
  <2>1. \/ run'[w].pc \in {"start", "steal"} /\ status' = status
        \/ run'[w].pc = "idle" /\ status' = [status EXCEPT !.st = "failed"]
    BY <1>3, GoMoves, IdleMoves DEF TakeLock, RemakeLock, Refuse, Moves, Inside
  <2>. QED  BY <1>a, <1>b, <2>1
<1>4. CASE DropStaleLock(w) \/ ReleaseLock(w)
  BY <1>4, GoMoves, IdleMoves DEF DropStaleLock, ReleaseLock, Moves
<1>5. CASE StartRun(w)
  BY <1>5, <1>a, <1>b, StartRunMoves DEF StartRun, Moves
<1>6. CASE CancelRun(w)
  BY <1>6, <1>a, <1>b, EndRunMoves DEF CancelRun, EndRun
<1>7. CASE FailRun(w)
  <2>1. run'[w].pc \notin Thawed
    BY <1>7, EndRunMoves DEF FailRun
  <2>2. PICK n \in {status.rev, run[w].rev} :
            /\ n # status.rev => run[w].pc = "publish"
            /\ status' = [status EXCEPT !.st = "failed", !.rev = n]
    BY <1>7 DEF FailRun
  <2>3. status'.rev = n
    BY <2>2 DEF TypeOK, StatusType
  <2>. QED  BY <2>1, <2>2, <2>3
<1>8. CASE FailStart(w)
  <2>1. status' = status \/ status' = [status EXCEPT !.st = "validating"]
    BY <1>8 DEF FailStart
  <2>2. run'[w].pc = "abandon"
    BY <1>8, GoMoves DEF FailStart, Moves
  <2>. QED  BY <1>a, <1>b, <2>1, <2>2
<1>9. CASE RefuseRun(w) \/ Crash(w)
  BY <1>9, <1>c, IdleMoves DEF RefuseRun, Crash
<1>10. CASE Inspect(w)
  BY <1>10, <1>a, <1>b, GoMoves DEF Inspect, Moves, Inside
<1>11. CASE Normalize(w) \/ RecordRevision(w) \/ Upload(w)
  BY <1>11, GoMoves DEF Normalize, RecordRevision, Upload, Moves, Inside
<1>12. CASE SaveRevision(w)
  BY <1>12, SaveRevisionMoves DEF SaveRevision, Moves
<1>13. CASE FreezeResult(w)
  BY <1>13, GoMoves DEF FreezeResult, Moves, Inside
<1>14. CASE Render(w)
  BY <1>14, <1>a, <1>b, GoMoves DEF Render, Moves, Inside
<1>15. CASE PublishOutcome(w)
  <2>1. status'.rev = run[w].rev
    BY <1>15 DEF PublishOutcome, TypeOK, StatusType
  <2>. QED  BY <1>15, <2>1, EndRunMoves DEF PublishOutcome
<1>. QED
  BY <1>1, <1>2, <1>3, <1>4, <1>5, <1>6, <1>7, <1>8, <1>9, <1>10, <1>11, <1>12, <1>13,
     <1>14, <1>15 DEF WorkerStep, RunStep

LEMMA AnnouncedInvariant == Spec => []AnnouncedInv
<1>1. Init => AnnouncedInv
  BY DEF Init, AnnouncedInv, Kept, Thawed, NoStatus, IdleReq, IdleRun
<1>2. TypeInv /\ AnnouncedInv /\ [Next]_vars => AnnouncedInv'
  <2>. SUFFICES ASSUME TypeInv, AnnouncedInv, [Next]_vars PROVE AnnouncedInv'
    OBVIOUS
  <2>1. TypeOK /\ SoundInv /\ \A n \in 0..MaxRevision : n = 0 \/ n \in Revisions
    BY BoundsAssumption DEF TypeInv, Revisions
  <2>2. /\ status.rev \in 0..MaxRevision
        /\ \A c \in Clients : req[c].status.rev \in 0..MaxRevision
        /\ \A w \in Workers : run[w].rev \in 0..MaxRevision
    BY <2>1 DEF TypeOK, StatusType, ReqType, RunType
  <2>3. ASSUME NEW w \in Workers, WorkerStep(w) PROVE AnnouncedInv'
    <3>1. WorkerFrame(w) /\ Announces(w)
      BY <2>1, <2>3, WorkerStepFrame, WorkerStepAnnounces
    <3>2. ASSUME NEW n \in 0..MaxRevision, Kept(n) PROVE Kept(n)'
      <4>1. CASE FreezeResult(w) /\ n > 0
        <5>1. \/ frozen'[n] = frozen[n]
              \/ frozen'[n] = [made |-> TRUE, schemas |-> Needed(run[w].rv)]
          BY <2>1, <4>1 DEF FreezeResult, TypeOK
        <5>. QED  BY <3>2, <5>1 DEF Kept
      <4>. QED  BY <3>1, <3>2, <4>1 DEF WorkerFrame, Kept
    <3>3. FreezeResult(w) => Kept(run[w].rev)'
      <4>3. FreezeResult(w) => run'[w].rev = run[w].rev
        BY <2>1, GoMoves DEF FreezeResult, Moves, Inside
      <4>. SUFFICES ASSUME FreezeResult(w), run[w].rev > 0 PROVE frozen'[run[w].rev].made
        BY <4>3 DEF Kept
      <4>1. run[w].rev \in Revisions
        BY <2>1, <2>2, BoundsAssumption
      <4>2. frozen'[run[w].rev] = [made |-> TRUE, schemas |-> Needed(run[w].rv)]
        BY <2>1, <4>1 DEF FreezeResult, FrozenNumber, TypeOK
      <4>. QED  BY <4>2
    <3>4. Kept(status.rev)'
      BY <2>2, <3>1, <3>2 DEF Announces, AnnouncedInv, Thawed, Kept
    <3>5. ASSUME NEW c \in Clients PROVE Kept(req[c].status.rev)'
      BY <2>2, <3>1, <3>2 DEF WorkerFrame, AnnouncedInv, Kept
    <3>6. ASSUME NEW v \in Workers, run'[v].pc \in Thawed PROVE Kept(run[v].rev)'
      <4>1. CASE v = w
        BY <2>2, <3>1, <3>2, <3>3, <3>6, <4>1 DEF Announces, AnnouncedInv, Kept
      <4>2. CASE v # w
        BY <2>2, <3>1, <3>2, <3>6, <4>2 DEF WorkerFrame, OtherRuns, AnnouncedInv, Kept
      <4>. QED  BY <4>1, <4>2
    <3>. QED  BY <3>4, <3>5, <3>6 DEF AnnouncedInv
  <2>4. ASSUME NEW c \in Clients, ClientStep(c) PROVE AnnouncedInv'
    <3>1. run' = run /\ frozen' = frozen /\ OtherRequests(c)
      BY <2>1, <2>4, ClientStepFrame DEF ClientFrame
    <3>2. ClientCopies(c)
      BY <2>1, <2>4, ClientStepCopies
    <3>3. Kept(status.rev)' /\ Kept(req[c].status.rev)'
      BY <3>1, <3>2 DEF ClientCopies, AnnouncedInv, Kept
    <3>. QED  BY <3>1, <3>3 DEF AnnouncedInv, OtherRequests, Kept
  <2>5. CASE LockAges \/ UNCHANGED vars
    BY <2>5, OutsideStepFrame DEF AnnouncedInv, Kept
  <2>. QED  BY <2>3, <2>4, <2>5, Steps
<1>. QED  BY <1>1, <1>2, TypeInvariant, PTL DEF Spec

-----------------------------------------------------------------------------
(* One run at a time.                                                       *)

\* How a step of a run uses the queue, the lock and the status.
Goes(w) ==
    /\ \/ \E kind \in {"initial", "revision"} : Dequeue(w, kind)
       \/ /\ queue' = queue /\ run[w].pc # "idle"
          /\ run'[w].pc # "idle" => run'[w].kind = run[w].kind
    /\ status' = status \/ status'.st # "review_resolved"
    /\ \/ lock' = lock
       \/ ~lock.held
       \/ DropStaleLock(w) \/ ReleaseLock(w)
    /\ run'[w].pc \in Inside /\ run'[w].kind = "revision" =>
          \/ run[w].pc \in Inside /\ run[w].kind = "revision" /\ lock' = lock
          \/ lock'.held /\ lock'.by = w

LEMMA WorkerStepGoes ==
    ASSUME TypeOK, RunInv, NEW w \in Workers, WorkerStep(w)
    PROVE  Goes(w)
<1>. USE DEF Goes
<1>a. run[w].pc \in Unlocked \cup {"release"} => run[w].kind = "revision"
  BY DEF RunInv
<1>b. \A st \in Statuses : [status EXCEPT !.st = st].st = st
  BY StatusIsSet DEF TypeOK
<1>c. {"failed", "cancelled", "validating", "catalog_resolving", "rendering",
       "completed", "manual_review"} \subseteq Statuses
  BY DEF Statuses, Terminal
<1>1. ASSUME NEW kind \in {"initial", "revision"}, Dequeue(w, kind) PROVE Goes(w)
  <2>1. status' = status /\ lock' = lock
    BY <1>1 DEF Dequeue
  <2>2. ~(run'[w].pc \in Inside /\ run'[w].kind = "revision")
    BY <1>1, DequeueMoves DEF Inside
  <2>. QED  BY <1>1, <2>1, <2>2
<1>2. CASE ReadReviews(w)
  BY <1>2, <1>b, <1>c, ReadReviewsMoves, IdleMoves DEF ReadReviews, Refuse, Inside
<1>3. CASE TakeLock(w)
  <2>1. run[w].kind = "revision" /\ queue' = queue /\ run[w].pc = "lock"
    BY <1>3, <1>a DEF TakeLock, Unlocked
  <2>2. CASE ~lock.held /\ lock' = [by |-> w, held |-> TRUE, old |-> FALSE]
             /\ Go(w, "start") /\ status' = status
    <3>1. run'[w].pc = "start" /\ run'[w].kind = run[w].kind
      BY <2>2, GoMoves DEF Moves, Inside
    <3>. QED  BY <2>1, <2>2, <3>1
  <2>3. CASE Go(w, "steal") /\ lock' = lock /\ status' = status
    <3>1. run'[w].pc = "steal" /\ run'[w].kind = run[w].kind
      BY <2>3, GoMoves DEF Moves
    <3>. QED  BY <2>1, <2>3, <3>1 DEF Inside
  <2>4. CASE Refuse(w) /\ lock' = lock
    <3>1. run'[w].pc = "idle" /\ status'.st = "failed"
      BY <2>4, <1>b, <1>c, IdleMoves DEF Refuse
    <3>. QED  BY <2>1, <2>4, <3>1 DEF Inside
  <2>. QED  BY <1>3, <2>2, <2>3, <2>4 DEF TakeLock, LockFree
<1>4. CASE DropStaleLock(w)
  BY <1>4, GoMoves DEF DropStaleLock, Moves, Inside
<1>5. CASE RemakeLock(w)
  <2>1. run[w].kind = "revision" /\ queue' = queue /\ run[w].pc = "relock"
    BY <1>5, <1>a DEF RemakeLock, Unlocked
  <2>2. CASE ~lock.held /\ lock' = [by |-> w, held |-> TRUE, old |-> FALSE]
             /\ Go(w, "start") /\ status' = status
    <3>1. run'[w].pc = "start" /\ run'[w].kind = run[w].kind
      BY <2>2, GoMoves DEF Moves, Inside
    <3>. QED  BY <2>1, <2>2, <3>1
  <2>3. CASE Go(w, "steal") /\ lock' = lock /\ status' = status
    <3>1. run'[w].pc = "steal" /\ run'[w].kind = run[w].kind
      BY <2>3, GoMoves DEF Moves
    <3>. QED  BY <2>1, <2>3, <3>1 DEF Inside
  <2>4. CASE Refuse(w) /\ lock' = lock
    <3>1. run'[w].pc = "idle" /\ status'.st = "failed"
      BY <2>4, <1>b, <1>c, IdleMoves DEF Refuse
    <3>. QED  BY <2>1, <2>4, <3>1 DEF Inside
  <2>. QED  BY <1>5, <2>2, <2>3, <2>4 DEF RemakeLock, LockFree
<1>6. CASE ReleaseLock(w)
  BY <1>6, IdleMoves, GoMoves DEF ReleaseLock, Moves, Inside
<1>19. CASE FailStart(w)
  BY <1>19, <1>b, <1>c, GoMoves DEF FailStart, Moves, Inside
<1>20. CASE RefuseRun(w)
  BY <1>20, <1>b, <1>c, IdleMoves DEF RefuseRun, Refuse, Inside
<1>7. CASE Crash(w)
  BY <1>7, IdleMoves DEF Crash, Inside
<1>8. CASE StartRun(w)
  BY <1>8, <1>b, <1>c, StartRunMoves DEF StartRun, Moves, Inside
<1>9. CASE CancelRun(w)
  BY <1>9, <1>b, <1>c, EndRunMoves DEF CancelRun, EndRun, Inside
<1>10. CASE FailRun(w)
  <2>1. status'.st = "failed"
    BY <1>10 DEF FailRun, TypeOK, StatusType
  <2>. QED  BY <1>10, <2>1, EndRunMoves DEF FailRun, Inside
<1>11. CASE Inspect(w)
  BY <1>11, <1>b, <1>c, GoMoves DEF Inspect, Moves, Inside
<1>12. CASE Normalize(w)
  BY <1>12, GoMoves DEF Normalize, Moves, Inside
<1>13. CASE SaveRevision(w)
  BY <1>13, SaveRevisionMoves DEF SaveRevision, Moves, Inside
<1>14. CASE RecordRevision(w)
  BY <1>14, GoMoves DEF RecordRevision, Moves, Inside
<1>15. CASE FreezeResult(w)
  BY <1>15, GoMoves DEF FreezeResult, Moves, Inside
<1>16. CASE Render(w)
  BY <1>16, <1>b, <1>c, GoMoves DEF Render, Moves, Inside
<1>17. CASE Upload(w)
  BY <1>17, GoMoves DEF Upload, Moves, Inside
<1>18. CASE PublishOutcome(w)
  <2>1. status'.st = Outcome(w)
    BY <1>18 DEF PublishOutcome, TypeOK, StatusType
  <2>2. Outcome(w) # "review_resolved"
    BY DEF Outcome
  <2>. QED  BY <1>18, <2>1, <2>2, EndRunMoves DEF PublishOutcome, Inside
<1>. QED
  BY <1>1, <1>2, <1>3, <1>4, <1>5, <1>6, <1>7, <1>8, <1>9, <1>10, <1>11, <1>12, <1>13,
     <1>14, <1>15, <1>16, <1>17, <1>18, <1>19, <1>20 DEF WorkerStep, RunStep

\* A run starts from the queue, one at a time.
LEMMA DequeueTakesOne ==
    ASSUME TypeOK, NEW w \in Workers, NEW kind \in {"initial", "revision"}, Dequeue(w, kind)
    PROVE  /\ run[w].pc = "idle" /\ queue[kind] > 0 /\ queue[kind] \in Nat
           /\ queue'[kind] = queue[kind] - 1
           /\ \A k \in {"initial", "revision"} \ {kind} : queue'[k] = queue[k]
           /\ status' = status /\ flow' = flow
  BY DEF TypeOK, Dequeue

\* While nothing can be decided or asked, requests only cancel or delete the job.
LEMMA ShelvingStaysOut ==
    ASSUME TypeOK, NoRequests, NEW c \in Clients, ClientStep(c)
    PROVE  NoRequests' \/ \E q \in Questions : \E d \in Offered(q) : OpenReview(c, q, d)
<1>. USE DEF NoRequests, Idle, Shelving
<1>1. \/ Idle(c)
      \/ Shelving(c) /\ req[c].status.st # "review_resolved"
  OBVIOUS
<1>2. Answer(c) => OtherRequests(c) /\ req'[c].pc = "idle" /\ req'[c].status.st = "queued"
  <2>1. Answer(c) => req'[c] = IdleReq
    BY RequestIsSet DEF Answer
  <2>2. IdleReq.status.st = "queued"
    BY DEF IdleReq, NoStatus
  <2>. QED  BY <2>1, <2>2, AnswerMoves
<1>3. CASE ReadForCancel(c) \/ ReadForDelete(c)
  <2>1. status' = status /\ queue' = queue
    BY <1>3 DEF ReadForCancel, ReadForDelete
  <2>2. OtherRequests(c) /\ req'[c].pc \in {"mark", "delete"} /\ req'[c].status = status
    BY <1>3, ShelveMoves
  <2>. QED  BY <2>1, <2>2 DEF OtherRequests
<1>4. CASE WriteMarker(c)
  <2>1. status' = status /\ queue' = queue
    BY <1>4 DEF WriteMarker
  <2>2. OtherRequests(c) /\ req'[c].pc = "cancel" /\ req'[c].status = req[c].status
    BY <1>4, RequestMoves DEF WriteMarker
  <2>. QED  BY <1>1, <1>4, <2>1, <2>2 DEF OtherRequests, WriteMarker
<1>5. CASE WriteCancel(c) \/ WriteDelete(c)
  <2>1. queue' = queue /\ Answer(c) /\ req[c].pc # "idle"
    BY <1>5 DEF WriteCancel, WriteDelete
  <2>2. status'.st = req[c].status.st
    BY <1>5 DEF WriteCancel, WriteDelete, TypeOK, ReqType, StatusType
  <2>. QED  BY <1>1, <1>2, <2>1, <2>2 DEF OtherRequests
<1>6. CASE BreakOff(c)
  BY <1>2, <1>6 DEF BreakOff, OtherRequests
<1>. QED
  BY <1>1, <1>3, <1>4, <1>5, <1>6 DEF ClientStep, ServeStep, DecideRow, WriteReviews,
     SettleReviews, MarkQueued, Enqueue, EnqueueFails, AskRevision

LEMMA FirstRunInvariant == Spec => []FirstRunInv
<1>1. Init => FirstRunInv
  BY DEF Init, FirstRunInv, NoRequests, Idle, NoStatus, NoFlow, IdleRun, IdleReq
<1>2. TypeInv /\ FirstRunInv /\ [Next]_vars => FirstRunInv'
  <2>. SUFFICES ASSUME TypeInv, FirstRunInv, [Next]_vars, ~history'.early PROVE FirstRunInv'
    BY DEF FirstRunInv
  <2>1. TypeOK /\ SoundInv /\ RunInv /\ queue.initial \in Nat /\ queue.revision \in Nat
    BY DEF TypeInv, TypeOK
  <2>2. ASSUME NEW w \in Workers, WorkerStep(w) PROVE FirstRunInv'
    <3>1. WorkerFrame(w) /\ Goes(w) /\ ~history.early
      BY <2>1, <2>2, WorkerStepFrame, WorkerStepGoes DEF WorkerFrame, Remembered, Flags
    <3>2. CASE Dequeue(w, "initial")
      <4>1. queue.initial > 0 /\ queue'.initial = queue.initial - 1
            /\ queue'.revision = queue.revision /\ status' = status
        BY <2>1, <3>2, DequeueTakesOne
      <4>2. /\ queue.initial = 1 /\ NoRequests
            /\ \A v \in Workers : run[v].pc = "idle"
        BY <3>1, <4>1 DEF FirstRunInv
      <4>. QED  BY <3>1, <4>1, <4>2
                DEF FirstRunInv, NoRequests, Idle, Shelving, WorkerFrame, OtherRuns
    <3>3. CASE Dequeue(w, "revision")
      <4>1. run[w].pc = "idle" /\ queue.revision > 0 /\ run'[w].kind = "revision"
            /\ queue'.initial = queue.initial
        BY <2>1, <3>3, DequeueTakesOne, DequeueMoves
      <4>2. /\ queue.initial = 0
            /\ \A v \in Workers : ~(run[v].kind = "initial" /\ run[v].pc # "idle")
        BY <2>1, <3>1, <4>1 DEF FirstRunInv, NoRequests
      <4>. QED  BY <3>1, <4>1, <4>2 DEF FirstRunInv, WorkerFrame, OtherRuns
    <3>4. CASE /\ queue' = queue /\ run[w].pc # "idle"
               /\ run'[w].pc # "idle" => run'[w].kind = run[w].kind
      <4>1. queue.initial = 0
        BY <2>1, <3>1, <3>4 DEF FirstRunInv
      <4>2. ASSUME NEW v \in Workers, run'[v].kind = "initial", run'[v].pc # "idle"
            PROVE  NoRequests' /\ \A u \in Workers \ {v} : run'[u].pc = "idle"
        <5>1. run[v].kind = "initial" /\ run[v].pc # "idle"
          BY <3>1, <3>4, <4>2 DEF WorkerFrame, OtherRuns
        <5>2. NoRequests /\ \A u \in Workers \ {v} : run[u].pc = "idle"
          BY <3>1, <5>1 DEF FirstRunInv
        <5>3. v = w
          BY <3>4, <5>2
        <5>. QED  BY <3>1, <3>4, <5>2, <5>3
                  DEF Goes, WorkerFrame, OtherRuns, NoRequests, Idle, Shelving
      <4>. QED  BY <3>4, <4>1, <4>2 DEF FirstRunInv
    <3>. QED  BY <3>1, <3>2, <3>3, <3>4 DEF Goes
  <2>3. ASSUME NEW c \in Clients, ClientStep(c) PROVE FirstRunInv'
    <3>1. ClientFrame(c) /\ ~history.early
      BY <2>1, <2>3, ClientStepFrame DEF ClientFrame, Remembered, Flags
    <3>2. queue'.initial = queue.initial
      BY <2>1, <2>3 DEF ClientStep, ServeStep, DecideRow, WriteReviews, SettleReviews,
         MarkQueued, Enqueue, Queued, EnqueueFails, AskRevision, OpenReview, ReadForCancel,
         ReadForDelete, WriteMarker, WriteCancel, WriteDelete, BreakOff, TypeOK
    <3>3. ASSUME NoRequests
          PROVE  NoRequests' \/ \E q \in Questions : \E d \in Offered(q) : OpenReview(c, q, d)
      BY <2>1, <2>3, <3>3, ShelvingStaysOut
    <3>4. queue.initial > 0 => NoRequests' /\ flow' = flow
      <4>1. \A q \in Questions : \A d \in Offered(q) : OpenReview(c, q, d) => flow.rev # 0
        BY DEF OpenReview
      <4>2. NoRequests => ~WriteReviews(c)
        BY DEF NoRequests, Idle, Shelving, WriteReviews
      <4>. QED  BY <2>1, <3>1, <3>3, <4>1, <4>2 DEF FirstRunInv, ClientFrame
    <3>5. ASSUME NEW w \in Workers, run[w].kind = "initial", run[w].pc # "idle"
          PROVE  NoRequests'
      <4>1. NoRequests
        BY <3>1, <3>5 DEF FirstRunInv
      <4>2. run[w].pc \in Inside
        BY <2>1, <3>5 DEF RunInv, TypeOK, RunType, Unlocked
      <4>3. \A q \in Questions : \A d \in Offered(q) : OpenReview(c, q, d) => history'.early
        BY <2>1, <4>2 DEF OpenReview, TypeOK, HistoryType
      <4>. QED  BY <3>3, <4>1, <4>3
    <3>. QED  BY <3>1, <3>2, <3>4, <3>5 DEF FirstRunInv, ClientFrame
  <2>4. CASE LockAges \/ UNCHANGED vars
    BY <2>4, OutsideStepFrame DEF FirstRunInv, NoRequests, Idle, Shelving
  <2>. QED  BY <2>2, <2>3, <2>4, Steps
<1>. QED  BY <1>1, <1>2, TypeInvariant, PTL DEF Spec

LEMMA LockInvariant == Spec => []LockInv
<1>1. Init => LockInv
  BY DEF Init, LockInv, IdleRun, Inside
<1>2. TypeInv /\ LockInv /\ [Next]_vars => LockInv'
  <2>. SUFFICES ASSUME TypeInv, LockInv, [Next]_vars, ~history'.stolen PROVE LockInv'
    BY DEF LockInv
  <2>1. TypeOK /\ SoundInv /\ RunInv
    BY DEF TypeInv
  <2>2. ASSUME NEW w \in Workers, WorkerStep(w) PROVE LockInv'
    <3>1. WorkerFrame(w) /\ Goes(w) /\ ~history.stolen
      BY <2>1, <2>2, WorkerStepFrame, WorkerStepGoes DEF WorkerFrame, Remembered, Flags
    <3>2. ASSUME NEW v \in Workers \ {w}, run'[v].kind = "revision", run'[v].pc \in Inside
          PROVE  lock'.held /\ lock'.by = v
      <4>1. run[v] = run'[v]
        BY <3>1 DEF WorkerFrame, OtherRuns
      <4>2. lock.held /\ lock.by = v /\ LockHolderAlive
        BY <3>1, <3>2, <4>1, WorkersAssumption DEF LockInv, LockHolderAlive
      <4>3. ~DropStaleLock(w) /\ ~ReleaseLock(w)
        BY <2>1, <4>2, WorkerHistory
      <4>. QED  BY <3>1, <4>2, <4>3 DEF Goes
    <3>3. run'[w].kind = "revision" /\ run'[w].pc \in Inside => lock'.held /\ lock'.by = w
      BY <3>1 DEF Goes, LockInv
    <3>. QED  BY <3>2, <3>3 DEF LockInv
  <2>3. ASSUME NEW c \in Clients, ClientStep(c) PROVE LockInv'
    BY <2>1, <2>3, ClientStepFrame DEF ClientFrame, Remembered, Flags, LockInv
  <2>4. CASE LockAges \/ UNCHANGED vars
    <3>1. lock'.held = lock.held /\ lock'.by = lock.by
      BY <2>1, <2>4 DEF LockAges, vars, TypeOK, LockType
    <3>. QED  BY <2>4, <3>1, OutsideStepFrame DEF LockInv
  <2>. QED  BY <2>2, <2>3, <2>4, Steps
<1>. QED  BY <1>1, <1>2, TypeInvariant, PTL DEF Spec

\* One run at a time works on the job, unless a review was decided before the run
\* that asked it had ended or the lock of a live run was taken for a stale one: the
\* first run is alone because nothing can be decided yet, reruns hold the lock.
THEOREM RunsAreAlone == Spec => []OneRunAtATime
<1>1. TypeInv /\ FirstRunInv /\ LockInv => OneRunAtATime
  <2>. SUFFICES ASSUME TypeInv, FirstRunInv, LockInv, ~history.early, ~history.stolen,
                       NEW v \in Workers, NEW w \in Workers,
                       run[v].pc \in Inside, run[w].pc \in Inside
                PROVE  v = w
    BY DEF OneRunAtATime
  <2>1. run[v].pc # "idle" /\ run[w].pc # "idle"
    BY DEF Inside
  <2>2. CASE run[v].kind = "initial" \/ run[w].kind = "initial"
    BY <2>1, <2>2 DEF FirstRunInv
  <2>3. CASE run[v].kind = "revision" /\ run[w].kind = "revision"
    BY <2>3 DEF LockInv
  <2>. QED  BY <2>2, <2>3 DEF TypeInv, TypeOK, RunType
<1>. QED  BY <1>1, TypeInvariant, FirstRunInvariant, LockInvariant, PTL

-----------------------------------------------------------------------------
(* What the status says, once nothing is under way.                         *)

\* A run gets on, and keeps the revision it has recorded.
GetsOn(w) ==
    /\ Busy(w) /\ Busy(w)' /\ queue' = queue
    /\ \/ /\ ~Recorded(w) /\ ~Recorded(w)' /\ flow' = flow
          /\ run'[w].pc = "record" => run'[w].rev = NextNumber
       \/ /\ RecordRevision(w) /\ Recorded(w)'
          /\ run'[w].rev = run[w].rev /\ run'[w].rv = run[w].rv
       \/ /\ Recorded(w) /\ Recorded(w)' /\ flow' = flow
          /\ run'[w].rev = run[w].rev /\ run'[w].rv = run[w].rv

\* A run ends with its outcome, or without one.
Ends(w) ==
    /\ Busy(w) /\ ~Busy(w)' /\ queue' = queue /\ flow' = flow
    /\ \/ status'.st \in {"failed", "cancelled"}
       \/ Recorded(w) /\ status'.st = Outcome(w) /\ status'.rev = run[w].rev

Unlocks(w) == /\ ~Busy(w) /\ ~Busy(w)'
              /\ queue' = queue /\ flow' = flow /\ status' = status

Progress(w) == \/ \E kind \in {"initial", "revision"} : Dequeue(w, kind)
               \/ GetsOn(w) \/ Ends(w) \/ Unlocks(w) \/ Crash(w)

LEMMA WorkerStepProgress ==
    ASSUME TypeOK, NEW w \in Workers, WorkerStep(w)
    PROVE  Progress(w)
<1>. USE DEF Progress, Busy, Recorded
<1>b. \A st \in Statuses : [status EXCEPT !.st = st].st = st
  BY StatusIsSet DEF TypeOK
<1>c. {"failed", "cancelled"} \subseteq Statuses
  BY DEF Statuses, Terminal
<1>2. CASE ReadReviews(w)
  <2>1. CASE Refuse(w)
    BY <1>2, <1>b, <1>c, <2>1, IdleMoves DEF ReadReviews, Refuse, Ends
  <2>. QED  BY <1>2, <2>1, ReadReviewsMoves DEF ReadReviews, GetsOn
<1>3. CASE TakeLock(w)
  <2>1. CASE Refuse(w)
    BY <1>3, <1>b, <1>c, <2>1, IdleMoves DEF TakeLock, Refuse, Ends
  <2>. QED  BY <1>3, <2>1, GoMoves DEF TakeLock, Moves, Inside, GetsOn
<1>4. CASE DropStaleLock(w)
  BY <1>4, GoMoves DEF DropStaleLock, Moves, GetsOn
<1>5. CASE RemakeLock(w)
  <2>1. CASE Refuse(w)
    BY <1>5, <1>b, <1>c, <2>1, IdleMoves DEF RemakeLock, Refuse, Ends
  <2>. QED  BY <1>5, <2>1, GoMoves DEF RemakeLock, Moves, Inside, GetsOn
<1>6. CASE ReleaseLock(w)
  BY <1>6, IdleMoves, GoMoves DEF ReleaseLock, Unlocks, Moves, GetsOn
<1>7. CASE FailStart(w)
  BY <1>7, GoMoves DEF FailStart, Moves, GetsOn
<1>12. CASE RefuseRun(w)
  BY <1>12, <1>b, <1>c, IdleMoves DEF RefuseRun, Refuse, Ends
<1>8. CASE StartRun(w)
  BY <1>8, StartRunMoves DEF StartRun, Moves, GetsOn
<1>9. CASE CancelRun(w)
  BY <1>9, <1>b, <1>c, EndRunMoves DEF CancelRun, EndRun, Ends
<1>10. CASE FailRun(w)
  <2>1. status'.st = "failed"
    BY <1>10 DEF FailRun, TypeOK, StatusType
  <2>. QED  BY <1>10, <2>1, EndRunMoves DEF FailRun, Inside, Ends
<1>11. CASE Inspect(w) \/ Normalize(w)
  BY <1>11, GoMoves DEF Inspect, Normalize, Moves, Inside, GetsOn
<1>13. CASE SaveRevision(w)
  BY <1>13, SaveRevisionMoves DEF SaveRevision, Moves, GetsOn
<1>14. CASE RecordRevision(w)
  BY <1>14, GoMoves DEF RecordRevision, Moves, Inside, GetsOn
<1>15. CASE FreezeResult(w)
  BY <1>15, GoMoves DEF FreezeResult, Moves, Inside, GetsOn
<1>16. CASE Render(w) \/ Upload(w)
  BY <1>16, GoMoves DEF Render, Upload, Moves, Inside, GetsOn
<1>18. CASE PublishOutcome(w)
  <2>1. status'.st = Outcome(w) /\ status'.rev = run[w].rev
    BY <1>18 DEF PublishOutcome, TypeOK, StatusType
  <2>. QED  BY <1>18, <2>1, EndRunMoves DEF PublishOutcome, Ends
<1>. QED
  BY <1>2, <1>3, <1>4, <1>5, <1>6, <1>7, <1>8, <1>9, <1>10, <1>11, <1>12, <1>13, <1>14,
     <1>15, <1>16, <1>18 DEF WorkerStep, RunStep

\* An open question that a normalization asks is one that is not resolved.
LEMMA OutcomeMatches ==
    ASSUME TypeOK, NEW w \in Workers
    PROVE  \/ Outcome(w) = "completed" /\ AskedBy(run[w].rv) = NoReviews
           \/ Outcome(w) = "manual_review" /\ ~AllResolved(AskedBy(run[w].rv))
<1>1. AskedBy(run[w].rv) # NoReviews => ~AllResolved(AskedBy(run[w].rv))
  BY DEF AskedBy, NoReviews, AllResolved
<1>. QED  BY <1>1 DEF Outcome

LEMMA WorkerStepPhases ==
    ASSUME TypeInv, BehindInv, Phases, NEW w \in Workers, WorkerStep(w), ~Crash(w)
    PROVE  Phases'
<1>1. TypeOK /\ WorkerFrame(w) /\ Progress(w) /\ Goes(w) /\ Arrives(w)
  BY WorkerStepFrame, WorkerStepProgress, WorkerStepGoes, WorkerStepArrives DEF TypeInv
<1>2. req' = req /\ OtherRuns(w) /\ \A v \in Workers \ {w} : Busy(v)' <=> Busy(v)
  BY <1>1 DEF WorkerFrame, OtherRuns, Busy
<1>3. OneRunPending /\ WhilePending /\ Asked /\ (Settling => WhileSettling)
      /\ (~Pending /\ ~Settling => Matches)
  BY DEF Phases
<1>4. /\ queue.initial \in Nat /\ queue.revision \in Nat /\ flow.rev \in Nat
      /\ \A c \in Clients : req[c].flow.rev \in Nat
  BY <1>1, BoundsAssumption DEF TypeOK, FlowType, ReqType
<1>5. ASSUME NEW kind \in {"initial", "revision"}, Dequeue(w, kind) PROVE Phases'
  <2>1. /\ ~Busy(w) /\ queue[kind] > 0 /\ queue'[kind] = queue[kind] - 1
        /\ \A k \in {"initial", "revision"} \ {kind} : queue'[k] = queue[k]
        /\ status' = status /\ flow' = flow
    BY <1>1, <1>5, DequeueTakesOne DEF Busy
  <2>2. Busy(w)' /\ ~Recorded(w)' /\ run'[w].pc # "record"
    BY <1>1, <1>5, DequeueMoves DEF Busy, Recorded
  <2>3. queue.initial > 0 \/ queue.revision > 0
    BY <1>4, <2>1
  <2>4. /\ queue'.initial = 0 /\ queue'.revision = 0
        /\ \A c \in Clients : req[c].pc # "enqueue"
        /\ \A v \in Workers : ~Busy(v)
        /\ AllResolved(flow.rv) /\ Pending /\ Closed /\ status.st # "review_resolved"
    BY <1>3, <1>4, <2>1, <2>3 DEF OneRunPending, WhilePending, Pending
  <2>5. OneRunPending' /\ Pending'
    BY <1>2, <2>2, <2>4 DEF OneRunPending, Pending
  <2>6. WhilePending'
    BY <1>2, <1>3, <2>1, <2>2, <2>4 DEF WhilePending, Closed, Deciding
  <2>7. Asked' /\ ~Settling'
    BY <1>2, <1>3, <2>1, <2>4 DEF Asked, Settling, WhileSettling
  <2>. QED  BY <2>5, <2>6, <2>7 DEF Phases
<1>6. ASSUME Busy(w)
      PROVE  /\ Pending /\ Closed /\ ~Settling /\ status'.st # "review_resolved"
             /\ queue.initial = 0 /\ queue.revision = 0
             /\ \A c \in Clients : req[c].pc # "enqueue"
             /\ \A v \in Workers \ {w} : ~Busy(v)
  BY <1>1, <1>3, <1>6 DEF Pending, WhilePending, WhileSettling, OneRunPending, Goes
<1>7. CASE GetsOn(w)
  <2>1. Busy(w) /\ Busy(w)' /\ queue' = queue
    BY <1>7 DEF GetsOn
  <2>2. OneRunPending' /\ Pending' /\ Asked' /\ ~Settling'
    BY <1>2, <1>3, <1>6, <2>1 DEF OneRunPending, Pending, Asked, Settling
  <2>3. WhilePending'
    <3>1. CASE /\ ~Recorded(w) /\ ~Recorded(w)' /\ flow' = flow
               /\ run'[w].pc = "record" => run'[w].rev = NextNumber
      <4>1. AllResolved(flow.rv)
        BY <1>3, <2>1, <3>1 DEF WhilePending
      <4>2. NextNumber > flow.rev
        BY <1>1, <1>4, BoundsAssumption DEF NextNumber, BehindInv, FileBehind, TypeOK
      <4>. QED  BY <1>2, <1>3, <1>6, <2>1, <3>1, <4>1, <4>2 DEF WhilePending, Closed
    <3>2. CASE /\ RecordRevision(w) /\ Recorded(w)'
               /\ run'[w].rev = run[w].rev /\ run'[w].rv = run[w].rv
      <4>1. flow' = [rev |-> run[w].rev, rv |-> AskedBy(run[w].rv)] /\ run[w].pc = "record"
        BY <3>2 DEF RecordRevision
      <4>2. run[w].rev > flow.rev /\ run[w].rev \in Nat /\ flow'.rev = run[w].rev
        BY <1>1, <1>3, <2>1, <4>1, BoundsAssumption DEF WhilePending, TypeOK, RunType
      <4>3. \A c \in Clients : req'[c].flow.rev < flow'.rev /\ req'[c].flow # flow'
        BY <1>2, <1>3, <1>4, <4>2 DEF WhilePending
      <4>4. Closed' /\ \A c \in Clients : req'[c].flow.rev <= flow'.rev
        BY <1>2, <1>4, <4>2, <4>3 DEF Closed
      <4>5. run'[w].pc # "record" /\ flow' = [rev |-> run'[w].rev, rv |-> AskedBy(run'[w].rv)]
        BY <3>2, <4>1 DEF Recorded
      <4>. QED  BY <1>2, <1>6, <2>1, <3>2, <4>4, <4>5 DEF WhilePending
    <3>3. CASE /\ Recorded(w) /\ Recorded(w)' /\ flow' = flow
               /\ run'[w].rev = run[w].rev /\ run'[w].rv = run[w].rv
      <4>1. run'[w].pc # "record" /\ flow' = [rev |-> run'[w].rev, rv |-> AskedBy(run'[w].rv)]
        BY <1>3, <2>1, <3>3 DEF WhilePending, Recorded
      <4>2. Closed' /\ \A c \in Clients : req'[c].flow.rev <= flow'.rev
        BY <1>2, <1>3, <1>6, <2>1, <3>3 DEF WhilePending, Closed, Deciding
      <4>. QED  BY <1>2, <1>6, <2>1, <3>3, <4>1, <4>2 DEF WhilePending
    <3>. QED  BY <1>7, <3>1, <3>2, <3>3 DEF GetsOn
  <2>. QED  BY <2>2, <2>3 DEF Phases
<1>8. CASE Ends(w)
  <2>1. Busy(w) /\ ~Busy(w)' /\ queue' = queue /\ flow' = flow
    BY <1>8 DEF Ends
  <2>2. ~Pending' /\ ~Settling' /\ \A v \in Workers : ~Busy(v)'
    BY <1>2, <1>6, <1>4, <2>1 DEF Pending, Settling
  <2>3. OneRunPending' /\ WhilePending' /\ Asked'
    BY <1>2, <1>3, <1>6, <2>1, <2>2 DEF OneRunPending, WhilePending, Asked
  <2>4. Closed'
    BY <1>2, <1>6, <2>1 DEF Closed, Deciding
  <2>5. Matches'
    <3>1. CASE status'.st \in {"failed", "cancelled"}
      BY <2>4, <3>1 DEF Matches, Terminal
    <3>2. CASE Recorded(w) /\ status'.st = Outcome(w) /\ status'.rev = run[w].rev
      <4>1. flow.rev = run[w].rev /\ flow.rv = AskedBy(run[w].rv)
        BY <1>3, <2>1, <3>2 DEF WhilePending
      <4>. QED  BY <1>1, <2>1, <3>2, <4>1, OutcomeMatches DEF Matches, Terminal
    <3>. QED  BY <1>8, <3>1, <3>2 DEF Ends
  <2>. QED  BY <2>2, <2>3, <2>5 DEF Phases
<1>9. CASE Unlocks(w)
  <2>1. ~Busy(w) /\ ~Busy(w)' /\ queue' = queue /\ flow' = flow /\ status' = status
    BY <1>9 DEF Unlocks
  <2>2. \A v \in Workers : (Busy(v)' <=> Busy(v)) /\ (Busy(v) => run'[v] = run[v])
    BY <1>2, <2>1 DEF OtherRuns
  <2>3. /\ Pending' <=> Pending
        /\ Settling' <=> Settling
        /\ Closed' <=> Closed
    BY <1>2, <2>1, <2>2 DEF Pending, Settling, Closed, Deciding
  <2>4. OneRunPending' /\ WhilePending' /\ Asked'
    BY <1>2, <1>3, <2>1, <2>2, <2>3 DEF OneRunPending, WhilePending, Asked, Recorded
  <2>. QED  BY <1>2, <1>3, <2>1, <2>3, <2>4 DEF Phases, WhileSettling, Matches
<1>. QED  BY <1>1, <1>5, <1>7, <1>8, <1>9 DEF Progress

\* A step of a request that touches neither file nor queue, keeps the status but for
\* its flags, and neither settles nor enqueues, changes no phase.
LEMMA QuietStepPhases ==
    ASSUME TypeInv, Phases, NEW c \in Clients, ClientFrame(c),
           status'.st = status.st, status'.rev = status.rev,
           flow' = flow, queue' = queue,
           req[c].pc \notin {"settle", "enqueue"}, req'[c].pc \notin {"settle", "enqueue"},
           req'[c].pc = "queue" => req'[c].status.st = "review_resolved",
           req'[c].flow.rev <= flow.rev, Closed => Closed'
    PROVE  Phases'
<1>1. run' = run /\ OtherRequests(c)
  BY DEF ClientFrame
<1>2. \A b \in Clients : /\ (req'[b].pc = "enqueue") <=> (req[b].pc = "enqueue")
                         /\ (req'[b].pc = "settle") <=> (req[b].pc = "settle")
                         /\ req[b].pc = "enqueue" => req'[b] = req[b]
  BY <1>1 DEF OtherRequests
<1>3. (Pending' <=> Pending) /\ (Settling' <=> Settling)
  BY <1>1, <1>2 DEF Pending, Settling, Busy
<1>4. OneRunPending'
  BY <1>1, <1>2 DEF Phases, OneRunPending, Busy
<1>5. WhilePending'
  BY <1>1, <1>3 DEF Phases, WhilePending, Busy, Recorded, OtherRequests
<1>6. Asked'
  BY <1>1, <1>2 DEF Phases, Asked, OtherRequests
<1>7. Settling' => WhileSettling'
  BY <1>2, <1>3 DEF Phases, WhileSettling
<1>8. ~Pending' /\ ~Settling' => Matches'
  BY <1>3 DEF Phases, Matches
<1>. QED  BY <1>4, <1>5, <1>6, <1>7, <1>8 DEF Phases

LEMMA ClientStepPhases ==
    ASSUME TypeInv, BehindInv, Phases, NEW c \in Clients, ClientStep(c),
           Undisturbed'
    PROVE  Phases'
<1>1. TypeOK /\ SoundInv /\ ClientFrame(c)
  BY ClientStepFrame DEF TypeInv
<1>2. run' = run /\ OtherRequests(c) /\ database' = database
  BY <1>1 DEF ClientFrame
<1>3. OneRunPending /\ WhilePending /\ Asked /\ (Settling => WhileSettling)
      /\ (~Pending /\ ~Settling => Matches)
  BY DEF Phases
<1>4. /\ queue.initial \in Nat /\ queue.revision \in Nat /\ flow.rev \in Nat
      /\ \A b \in Clients : req[b].flow.rev \in Nat
  BY <1>1, BoundsAssumption DEF TypeOK, FlowType, ReqType
<1>5. ASSUME NEW q \in Questions, NEW d \in Offered(q), OpenReview(c, q, d) PROVE Phases'
  <2>1. /\ req[c].pc = "idle" /\ status' = status /\ flow' = flow /\ queue' = queue
        /\ req'[c].pc \in {"decide", "write"} /\ req'[c].flow = flow
    BY <1>1, <1>5, OpenReviewMoves DEF OpenReview, Idle
  <2>2. ~(\E w \in Workers : run[w].pc \in Inside)
    <3>1. history'.early = (history.early \/ \E w \in Workers : run[w].pc \in Inside)
      BY <1>1, <1>5 DEF OpenReview, TypeOK, HistoryType
    <3>. QED  BY <3>1 DEF Undisturbed, Disturbances
  <2>3. status.st \notin {"failed", "cancelled"}
    <3>1. history'.reopened = (history.reopened \/ status.st \in {"failed", "cancelled"})
      BY <1>1, <1>5 DEF OpenReview, TypeOK, HistoryType
    <3>. QED  BY <3>1 DEF Undisturbed, Disturbances
  <2>4. Pending => AllResolved(flow.rv)
    BY <1>3, <2>2 DEF Pending, WhilePending, Asked, Recorded, Inside
  <2>5. \A b \in Clients : req'[b].pc \notin {"idle", "decide", "write"} => req'[b] = req[b]
    BY <1>2, <2>1 DEF OtherRequests
  <2>6. (Pending' <=> Pending) /\ (Settling' <=> Settling)
    BY <1>2, <2>1 DEF Pending, Settling, Busy, OtherRequests
  <2>7. OneRunPending'
    BY <1>2, <1>3, <2>1 DEF OneRunPending, Busy, OtherRequests
  <2>8. WhilePending'
    BY <1>2, <1>3, <1>4, <2>1, <2>4, <2>6
       DEF WhilePending, Closed, Busy, Recorded, OtherRequests
  <2>9. Asked'
    BY <1>2, <1>3, <2>1 DEF Asked, OtherRequests
  <2>10. Settling' => WhileSettling'
    BY <1>2, <1>3, <2>1, <2>6 DEF WhileSettling, OtherRequests
  <2>11. ~Pending' /\ ~Settling' => Matches'
    BY <1>3, <2>1, <2>3, <2>6 DEF Matches
  <2>. QED  BY <2>7, <2>8, <2>9, <2>10, <2>11 DEF Phases
<1>6. CASE DecideRow(c)
  <2>1. req[c].pc = "decide" /\ status' = status /\ flow' = flow /\ queue' = queue
    BY <1>6 DEF DecideRow
  <2>2. \/ req'[c].pc = "write" /\ req'[c].flow = req[c].flow
        \/ req'[c].pc = "idle" /\ req'[c].flow = NoFlow
    <3>1. CASE Undecided(c)
      BY <1>1, <1>6, <3>1, DecideRowMoves, DecidingRevision DEF DecideRow, Deciding
    <3>2. CASE ~Undecided(c)
      BY <1>1, <1>6, <3>2, AnswerMoves DEF DecideRow
    <3>. QED  BY <3>1, <3>2
  <2>3. req'[c].flow.rev <= flow.rev
    BY <1>3, <1>4, <2>2 DEF WhilePending, NoFlow
  <2>4. Closed => Closed'
    BY <1>2, <2>1, <2>2 DEF Closed, Deciding, OtherRequests
  <2>. QED  BY <1>1, <2>1, <2>2, <2>3, <2>4, QuietStepPhases
<1>7. CASE AskRevision(c)
  <2>1. /\ req[c].pc = "idle" /\ status' = status /\ flow' = flow /\ queue' = queue
        /\ status.st = "review_resolved"
    BY <1>7 DEF AskRevision, Idle
  <2>2. req'[c].pc = "queue" /\ req'[c].status = status /\ req'[c].flow = NoFlow
    BY <1>1, <1>7, AskRevisionMoves
  <2>3. Closed => Closed'
    BY <1>2, <2>1, <2>2 DEF Closed, Deciding, OtherRequests
  <2>. QED  BY <1>1, <1>4, <2>1, <2>2, <2>3, QuietStepPhases DEF NoFlow
<1>8. CASE WriteReviews(c)
  <2>1. req[c].pc = "write" /\ req[c].flow = flow /\ status' = status /\ queue' = queue
    BY <1>1, <1>8, ClientHistory DEF WriteReviews, Undisturbed, Disturbances
  <2>2. Deciding(c) /\ req[c].q \in Questions /\ req[c].d \in Offered(req[c].q)
    BY <1>1, <2>1, DecidingRevision DEF Deciding
  <2>3. flow.rv[req[c].q] = "pending"
    BY <2>1, <2>2 DEF BehindInv, CopyBehind
  <2>4. ~AllResolved(flow.rv) /\ ~Closed /\ flow.rv # NoReviews
    BY <2>1, <2>2, <2>3 DEF AllResolved, Closed, NoReviews
  <2>5. ~Pending /\ ~Settling /\ status.st = "manual_review" /\ status.rev = flow.rev
    BY <1>3, <2>4 DEF WhilePending, WhileSettling, Matches, Terminal
  <2>6. /\ flow'.rev = flow.rev
        /\ flow'.rv[req[c].q] = req[c].d
    BY <1>1, <1>8, <2>1, <2>2, WrittenFlow
  <2>7. flow'.rv # NoReviews
    BY <2>2, <2>6, OfferedTypes, NamesAssumption DEF NoReviews, Decisions
  <2>8. \/ AllResolved(flow'.rv) /\ req'[c].pc = "settle" /\ req'[c].flow = req[c].flow
        \/ ~AllResolved(flow'.rv) /\ req'[c].pc = "idle" /\ req'[c].flow = NoFlow
    BY <1>1, <1>8, WriteReviewsMoves, AnswerMoves
  <2>9. ~Pending' /\ OneRunPending'
    BY <1>2, <1>3, <2>1, <2>5, <2>8 DEF Pending, OneRunPending, Busy, OtherRequests
  <2>10. WhilePending'
    BY <1>2, <1>3, <1>4, <2>6, <2>8, <2>9 DEF WhilePending, Pending, OtherRequests, NoFlow
  <2>11. Asked'
    BY <1>2, <1>3, <2>5, <2>8, <2>9 DEF Asked, Pending, OtherRequests
  <2>12. Settling' => WhileSettling'
    BY <1>2, <2>1, <2>5, <2>6, <2>7, <2>8, <2>9 DEF WhileSettling, Settling, OtherRequests
  <2>13. ~Settling' => Matches'
    BY <2>1, <2>5, <2>6, <2>8 DEF Settling, Matches, Terminal
  <2>. QED  BY <2>9, <2>10, <2>11, <2>12, <2>13 DEF Phases
<1>9. CASE SettleReviews(c)
  <2>1. req[c].pc = "settle" /\ flow' = flow /\ queue' = queue
    BY <1>9 DEF SettleReviews
  <2>2. status'.st = "review_resolved" /\ status'.rev = status.rev
    BY <1>1, <1>9 DEF SettleReviews, TypeOK, StatusType
  <2>3. WhileSettling
    BY <1>3, <2>1 DEF Settling
  <2>4. req'[c].pc = "idle" /\ req'[c].flow = NoFlow
    BY <1>1, <1>9, AnswerMoves DEF SettleReviews
  <2>5. ~Settling' /\ ~Pending' /\ OneRunPending'
    BY <1>2, <1>3, <2>1, <2>3, <2>4
       DEF WhileSettling, Settling, Pending, OneRunPending, Busy, OtherRequests
  <2>6. WhilePending' /\ Asked'
    BY <1>2, <1>3, <1>4, <2>1, <2>4, <2>5 DEF WhilePending, Asked, Pending, OtherRequests, NoFlow
  <2>7. Matches'
    BY <2>1, <2>2, <2>3 DEF WhileSettling, Matches, Terminal
  <2>. QED  BY <2>5, <2>6, <2>7 DEF Phases
<1>10. CASE MarkQueued(c)
  <2>1. /\ req[c].pc = "queue" /\ status = req[c].status /\ flow' = flow /\ queue' = queue
        /\ status' = [status EXCEPT !.st = "revision_queued"]
    BY <1>1, <1>10, ClientHistory DEF MarkQueued, Undisturbed, Disturbances
  <2>2. status.st = "review_resolved" /\ ~Pending /\ ~Settling
    BY <1>3, <2>1 DEF Asked, WhilePending, WhileSettling
  <2>3. AllResolved(flow.rv) /\ flow.rv # NoReviews /\ status.rev = flow.rev
    BY <1>3, <2>2 DEF Matches
  <2>4. status'.st = "revision_queued" /\ status'.rev = status.rev
    BY <1>1, <2>1 DEF TypeOK, StatusType
  <2>5. req'[c].pc = "enqueue" /\ req'[c].status = req[c].status /\ req'[c].flow = req[c].flow
    BY <1>1, <1>10, RequestMoves DEF MarkQueued
  <2>6. OneRunPending' /\ Pending' /\ ~Settling'
    BY <1>2, <1>3, <1>4, <2>1, <2>2, <2>5
       DEF OneRunPending, Pending, Settling, Busy, OtherRequests
  <2>7. WhilePending'
    BY <1>2, <1>3, <2>1, <2>2, <2>3, <2>4, <2>5
       DEF WhilePending, Closed, Pending, Busy, OtherRequests
  <2>8. Asked'
    BY <1>2, <1>3, <2>1, <2>2, <2>3, <2>4, <2>5 DEF Asked, Pending, OtherRequests
  <2>. QED  BY <2>6, <2>7, <2>8 DEF Phases
<1>11. CASE Enqueue(c)
  <2>1. req[c].pc = "enqueue" /\ status' = status /\ flow' = flow
    BY <1>11 DEF Enqueue
  <2>2. /\ queue.initial = 0 /\ queue.revision = 0 /\ Pending
        /\ \A w \in Workers : ~Busy(w)
        /\ \A b \in Clients \ {c} : req[b].pc # "enqueue"
        /\ AllResolved(flow.rv)
    BY <1>3, <2>1 DEF OneRunPending, Pending, Asked
  <2>3. queue'.initial = 0 /\ queue'.revision = 1
    BY <1>1, <1>11, <2>2 DEF Enqueue, Queued, TypeOK
  <2>4. req'[c].pc = "idle" /\ req'[c].flow = NoFlow
    BY <1>1, <1>11, AnswerMoves DEF Enqueue
  <2>5. OneRunPending' /\ Pending'
    BY <1>2, <2>2, <2>3, <2>4 DEF OneRunPending, Pending, Busy, OtherRequests
  <2>6. WhilePending'
    BY <1>2, <1>3, <1>4, <2>1, <2>2, <2>4
       DEF WhilePending, Closed, Busy, OtherRequests, NoFlow
  <2>7. Asked' /\ ~Settling'
    BY <1>2, <1>3, <2>1, <2>2, <2>4 DEF Asked, Settling, WhileSettling, OtherRequests
  <2>. QED  BY <2>5, <2>6, <2>7 DEF Phases
<1>12. CASE EnqueueFails(c)
  <2>1. /\ req[c].pc = "enqueue" /\ flow' = flow /\ queue' = queue
        /\ status = [req[c].status EXCEPT !.st = "revision_queued"]
        /\ status' = req[c].status
    BY <1>1, <1>12, ClientHistory DEF EnqueueFails, Undisturbed, Disturbances
  <2>2. /\ queue.initial = 0 /\ queue.revision = 0 /\ Pending
        /\ \A w \in Workers : ~Busy(w)
        /\ \A b \in Clients \ {c} : req[b].pc # "enqueue"
        /\ AllResolved(flow.rv) /\ flow.rv # NoReviews
        /\ req[c].status.st = "review_resolved" /\ status.rev = flow.rev
    BY <1>3, <2>1 DEF OneRunPending, Pending, Asked
  <2>3. status'.st = "review_resolved" /\ status'.rev = flow.rev
    BY <1>1, <2>1, <2>2 DEF TypeOK, ReqType, StatusType
  <2>4. req'[c].pc = "idle" /\ req'[c].flow = NoFlow
    BY <1>1, <1>12, AnswerMoves DEF EnqueueFails
  <2>5. OneRunPending' /\ ~Pending' /\ ~Settling'
    BY <1>2, <1>3, <2>1, <2>2, <2>4
       DEF OneRunPending, Pending, Settling, WhileSettling, Busy, OtherRequests
  <2>6. WhilePending' /\ Asked'
    BY <1>2, <1>3, <1>4, <2>1, <2>2, <2>4, <2>5
       DEF WhilePending, Asked, Pending, OtherRequests, NoFlow
  <2>7. Matches'
    BY <2>1, <2>2, <2>3 DEF Matches, Terminal
  <2>. QED  BY <2>5, <2>6, <2>7 DEF Phases
<1>13. CASE ReadForCancel(c) \/ ReadForDelete(c)
  <2>1. req[c].pc = "idle" /\ status' = status /\ flow' = flow /\ queue' = queue
    BY <1>13 DEF ReadForCancel, ReadForDelete, Idle
  <2>2. req'[c].pc \in {"mark", "delete"} /\ req'[c].flow = NoFlow
    BY <1>1, <1>13, ShelveMoves
  <2>3. Closed => Closed'
    BY <1>2, <2>1, <2>2 DEF Closed, Deciding, OtherRequests
  <2>. QED  BY <1>1, <1>4, <2>1, <2>2, <2>3, QuietStepPhases DEF NoFlow
<1>14. CASE WriteMarker(c)
  <2>1. req[c].pc = "mark" /\ status' = status /\ flow' = flow /\ queue' = queue
    BY <1>14 DEF WriteMarker
  <2>2. req'[c].pc = "cancel" /\ req'[c].flow = req[c].flow
    BY <1>1, <1>14, RequestMoves DEF WriteMarker
  <2>3. Closed => Closed'
    BY <1>2, <2>1, <2>2 DEF Closed, Deciding, OtherRequests
  <2>4. req'[c].flow.rev <= flow.rev
    BY <1>3, <2>2 DEF WhilePending
  <2>. QED  BY <1>1, <2>1, <2>2, <2>3, <2>4, QuietStepPhases
<1>15. CASE WriteCancel(c) \/ WriteDelete(c)
  <2>1. req[c].pc \in {"cancel", "delete"} /\ flow' = flow /\ queue' = queue
    BY <1>15 DEF WriteCancel, WriteDelete
  <2>2. status = req[c].status
    BY <1>1, <1>15, ClientHistory DEF Undisturbed, Disturbances
  <2>3. status'.st = status.st /\ status'.rev = status.rev
    BY <1>1, <1>15, <2>2 DEF WriteCancel, WriteDelete, TypeOK, StatusType
  <2>4. req'[c].pc = "idle" /\ req'[c].flow = NoFlow
    BY <1>1, <1>15, AnswerMoves DEF WriteCancel, WriteDelete
  <2>5. Closed => Closed'
    BY <1>2, <2>1, <2>4 DEF Closed, Deciding, OtherRequests
  <2>. QED  BY <1>1, <1>4, <2>1, <2>3, <2>4, <2>5, QuietStepPhases DEF NoFlow
<1>16. CASE BreakOff(c)
  BY <1>1, <1>16, ClientHistory DEF Undisturbed, Disturbances
<1>. QED
  BY <1>5, <1>6, <1>7, <1>8, <1>9, <1>10, <1>11, <1>12, <1>13, <1>14, <1>15, <1>16
     DEF ClientStep, ServeStep

LEMMA PhaseInvariant == Spec => []PhaseInv
<1>1. Init => PhaseInv
  <2>. SUFFICES ASSUME Init PROVE Phases
    BY DEF PhaseInv
  <2>1. /\ queue.initial = 1 /\ queue.revision = 0 /\ flow = NoFlow /\ status.st = "queued"
        /\ \A w \in Workers : run[w].pc = "idle"
        /\ \A c \in Clients : req[c].pc = "idle" /\ req[c].flow = NoFlow
    BY DEF Init, NoStatus, IdleRun, IdleReq
  <2>2. OneRunPending /\ Asked /\ ~Settling /\ Pending
    BY <2>1 DEF OneRunPending, Asked, Settling, Pending, Busy
  <2>3. WhilePending
    BY <2>1, IdleTypes DEF WhilePending, Closed, Busy, NoFlow
  <2>. QED  BY <2>2, <2>3 DEF Phases
<1>2. TypeInv /\ BehindInv /\ PhaseInv /\ [Next]_vars => PhaseInv'
  <2>. SUFFICES ASSUME TypeInv, BehindInv, PhaseInv, [Next]_vars, Undisturbed'
                PROVE  Phases'
    BY DEF PhaseInv
  <2>1. TypeOK /\ SoundInv /\ TypeOK'
    BY StepTypeInv DEF TypeInv
  <2>3. ASSUME history' = history \/ Remembered PROVE Phases
    BY <2>3 DEF Remembered, Flags, Undisturbed, Disturbances, PhaseInv
  <2>4. ASSUME NEW w \in Workers, WorkerStep(w) PROVE Phases'
    <3>1. Phases
      BY <2>1, <2>3, <2>4, WorkerStepFrame DEF WorkerFrame
    <3>2. ~Crash(w)
      BY <2>1, <2>4, WorkerHistory DEF Undisturbed, Disturbances
    <3>. QED  BY <2>4, <3>1, <3>2, WorkerStepPhases
  <2>5. ASSUME NEW c \in Clients, ClientStep(c) PROVE Phases'
    <3>1. Phases
      BY <2>1, <2>3, <2>5, ClientStepFrame DEF ClientFrame
    <3>. QED  BY <2>5, <3>1, ClientStepPhases
  <2>6. CASE LockAges \/ UNCHANGED vars
    <3>1. Phases
      BY <2>3, <2>6, OutsideStepFrame
    <3>. QED  BY <2>6, <3>1, OutsideStepFrame
              DEF Phases, OneRunPending, WhilePending, Asked, Settling, WhileSettling,
                  Matches, Pending, Closed, Busy, Recorded, Deciding
  <2>. QED  BY <2>4, <2>5, <2>6, Steps
<1>. QED  BY <1>1, <1>2, TypeInvariant, BehindInvariant, PTL DEF Spec

\* Without a disturbance, no request changes the status of a job that has failed.
LEMMA ClientLeavesFailed ==
    ASSUME TypeInv, Phases, NEW c \in Clients, ClientStep(c), Undisturbed',
           status.st = "failed", ~Pending
    PROVE  status'.st = "failed" /\ ~Pending'
<1>1. TypeOK /\ ClientFrame(c) /\ Asked /\ (Settling => WhileSettling)
  BY ClientStepFrame DEF TypeInv, Phases
<1>2. run' = run /\ OtherRequests(c)
  BY <1>1 DEF ClientFrame
<1>3. ~Settling /\ req[c].pc \notin {"settle", "enqueue"}
  BY <1>1 DEF WhileSettling, Settling, Pending
<1>4. ~MarkQueued(c)
  <2>. SUFFICES ASSUME MarkQueued(c) PROVE FALSE
    OBVIOUS
  <2>1. req[c].status.st = "review_resolved" /\ status = req[c].status
    BY <1>1, ClientHistory DEF Asked, MarkQueued, Undisturbed, Disturbances
  <2>. QED  BY <2>1
<1>5. status'.st = status.st /\ queue' = queue /\ req'[c].pc # "enqueue"
  <2>1. CASE WriteCancel(c) \/ WriteDelete(c)
    <3>1. status = req[c].status
      BY <1>1, <2>1, ClientHistory DEF Undisturbed, Disturbances
    <3>. QED  BY <1>1, <2>1, <3>1, AnswerMoves DEF WriteCancel, WriteDelete, TypeOK, StatusType
  <2>2. CASE ReadForCancel(c) \/ ReadForDelete(c) \/ AskRevision(c)
    BY <1>1, <2>2, ShelveMoves, AskRevisionMoves DEF ReadForCancel, ReadForDelete, AskRevision
  <2>3. CASE WriteMarker(c) \/ DecideRow(c) \/ WriteReviews(c)
    BY <1>1, <2>3, RequestMoves, AnswerMoves DEF WriteMarker, DecideRow, WriteReviews
  <2>4. CASE BreakOff(c)
    BY <1>1, <2>4, AnswerMoves DEF BreakOff
  <2>5. ASSUME NEW q \in Questions, NEW d \in Offered(q), OpenReview(c, q, d)
        PROVE  status' = status /\ queue' = queue /\ req'[c].pc # "enqueue"
    <3>1. status' = status /\ queue' = queue
      BY <2>5 DEF OpenReview
    <3>2. req'[c].pc = IF database THEN "decide" ELSE "write"
      BY <1>1, <2>5, OpenReviewMoves
    <3>. QED  BY <3>1, <3>2
  <2>. QED  BY <1>3, <1>4, <2>1, <2>2, <2>3, <2>4, <2>5
            DEF ClientStep, ServeStep, SettleReviews, Enqueue, EnqueueFails
<1>. QED  BY <1>2, <1>5 DEF Pending, Busy, OtherRequests

\* A run that leaves the current revision without its frozen result has failed.
LEMMA WorkerLeavesFailed ==
    ASSUME TypeInv, Phases, NEW w \in Workers, WorkerStep(w), ~Crash(w),
           Unfrozen => status.st = "failed" /\ ~Pending,
           Unfrozen'
    PROVE  status'.st = "failed" /\ ~Pending'
<1>1. /\ TypeOK /\ WorkerFrame(w) /\ Progress(w) /\ Arrives(w)
      /\ OneRunPending /\ flow.rev \in Nat
  BY WorkerStepFrame, WorkerStepProgress, WorkerStepArrives
     DEF TypeInv, Phases, TypeOK, FlowType
<1>2. req' = req /\ OtherRuns(w)
  BY <1>1 DEF WorkerFrame
<1>3. flow' = flow
  <2>1. CASE RecordRevision(w)
    <3>1. Go(w, "freeze") /\ flow'.rev = run[w].rev
      BY <2>1 DEF RecordRevision
    <3>2. run'[w].pc = "freeze" /\ run'[w].rev = run[w].rev
      BY <1>1, <3>1, GoMoves DEF Moves, Inside
    <3>. QED  BY <3>1, <3>2 DEF Unfrozen
  <2>. QED  BY <1>1, <2>1 DEF WorkerFrame
<1>4. flow.rev > 0 /\ flow.rev \in Revisions /\ ~frozen'[flow.rev].made
  BY <1>1, <1>3, BoundsAssumption DEF Unfrozen, TypeOK, FlowType, Revisions
<1>5. ~frozen[flow.rev].made
  <2>1. CASE FreezeResult(w)
    <3>1. \/ frozen'[flow.rev] = frozen[flow.rev]
          \/ frozen'[flow.rev] = [made |-> TRUE, schemas |-> Needed(run[w].rv)]
      BY <1>1, <1>4, <2>1 DEF FreezeResult, TypeOK
    <3>. QED  BY <1>4, <3>1
  <2>. QED  BY <1>1, <1>4, <2>1 DEF WorkerFrame
<1>6. CASE Unfrozen
  <2>1. /\ status.st = "failed" /\ ~Busy(w)
        /\ ~(queue.initial > 0) /\ ~(queue.revision > 0)
        /\ \A v \in Workers : ~Busy(v)
        /\ \A c \in Clients : req[c].pc # "enqueue"
    BY <1>6 DEF Pending
  <2>2. ~(\E kind \in {"initial", "revision"} : Dequeue(w, kind))
    BY <2>1 DEF Dequeue
  <2>3. Unlocks(w)
    BY <1>1, <2>1, <2>2 DEF Progress, GetsOn, Ends
  <2>. QED  BY <1>2, <2>1, <2>3 DEF Unlocks, Pending, Busy, OtherRuns
<1>7. CASE ~Unfrozen
  <2>1. PICK v \in Workers : run[v].pc = "freeze" /\ run[v].rev = flow.rev
    BY <1>4, <1>5, <1>7 DEF Unfrozen
  <2>2. v = w
    BY <1>2, <1>3, <2>1 DEF OtherRuns, Unfrozen
  <2>3. ~FreezeResult(w)
    <3>. SUFFICES ASSUME FreezeResult(w) PROVE FALSE
      OBVIOUS
    <3>1. frozen'[flow.rev] = [made |-> TRUE, schemas |-> Needed(run[w].rv)]
      BY <1>1, <1>4, <2>1, <2>2 DEF FreezeResult, FrozenNumber, TypeOK
    <3>. QED  BY <1>4, <3>1
  <2>4. FailRun(w)
    BY <1>1, <2>1, <2>2, <2>3 DEF Arrives
  <2>5. status'.st = "failed" /\ queue' = queue
    BY <1>1, <2>4 DEF FailRun, TypeOK, StatusType
  <2>6. ~Busy(w)'
    BY <1>1, <2>4, EndRunMoves DEF FailRun, Busy
  <2>7. /\ queue.initial = 0 /\ queue.revision = 0
        /\ \A c \in Clients : req[c].pc # "enqueue"
        /\ \A u \in Workers : Busy(u) => u = w
    BY <1>1, <2>1, <2>2 DEF OneRunPending, Busy
  <2>8. ASSUME NEW u \in Workers PROVE ~Busy(u)'
    BY <1>2, <2>6, <2>7 DEF OtherRuns, Busy
  <2>. QED  BY <1>2, <2>5, <2>7, <2>8 DEF Pending
<1>. QED  BY <1>6, <1>7

LEMMA UnfrozenInvariant == Spec => []UnfrozenInv
<1>1. Init => UnfrozenInv
  BY DEF Init, UnfrozenInv, Unfrozen, NoFlow
<1>2. TypeInv /\ TypeInv' /\ PhaseInv /\ UnfrozenInv /\ [Next]_vars => UnfrozenInv'
  <2>. SUFFICES ASSUME TypeInv, PhaseInv, UnfrozenInv, [Next]_vars, Undisturbed', Unfrozen'
                PROVE  status'.st = "failed" /\ ~Pending'
    BY DEF UnfrozenInv
  <2>1. TypeOK /\ SoundInv
    BY DEF TypeInv
  <2>2. ASSUME history' = history \/ Remembered
        PROVE  Phases /\ (Unfrozen => status.st = "failed" /\ ~Pending)
    BY <2>2 DEF Remembered, Flags, Undisturbed, Disturbances, PhaseInv, UnfrozenInv
  <2>3. ASSUME NEW w \in Workers, WorkerStep(w) PROVE status'.st = "failed" /\ ~Pending'
    <3>1. Phases /\ (Unfrozen => status.st = "failed" /\ ~Pending)
      BY <2>1, <2>2, <2>3, WorkerStepFrame DEF WorkerFrame
    <3>2. ~Crash(w)
      BY <2>1, <2>3, WorkerHistory DEF Undisturbed, Disturbances
    <3>. QED  BY <2>3, <3>1, <3>2, WorkerLeavesFailed
  <2>4. ASSUME NEW c \in Clients, ClientStep(c) PROVE status'.st = "failed" /\ ~Pending'
    <3>1. ClientFrame(c) /\ Phases /\ (Unfrozen => status.st = "failed" /\ ~Pending)
      BY <2>1, <2>2, <2>4, ClientStepFrame DEF ClientFrame
    <3>2. flow'.rev = flow.rev
      <4>1. CASE WriteReviews(c)
        <5>1. flow = req[c].flow
          BY <2>1, <4>1, ClientHistory DEF Undisturbed, Disturbances
        <5>. QED  BY <2>1, <4>1, <5>1, WrittenFlow
      <4>. QED  BY <3>1, <4>1 DEF ClientFrame
    <3>3. Unfrozen
      BY <3>1, <3>2 DEF Unfrozen, ClientFrame
    <3>. QED  BY <2>4, <3>1, <3>3, ClientLeavesFailed
  <2>5. CASE LockAges \/ UNCHANGED vars
    <3>1. Unfrozen /\ Phases /\ status.st = "failed" /\ ~Pending
      BY <2>2, <2>5, OutsideStepFrame DEF Unfrozen
    <3>. QED  BY <2>5, <3>1, OutsideStepFrame DEF Pending, Busy
  <2>. QED  BY <2>3, <2>4, <2>5, Steps
<1>. QED  BY <1>1, <1>2, TypeInvariant, PhaseInvariant, PTL DEF Spec

\* The revision that the status announces has the frozen result the next rerun needs.
\* So has the one that reviewers look at, unless a process died; or the run that made
\* it is about to write it, or failed to, and then, if nobody got in another's way,
\* the job says that it failed.
THEOREM FrozenBeforeRerun == Spec => []CurrentRevisionIsFrozen
<1>1. AnnouncedInv /\ BackedInv /\ UnfrozenInv => CurrentRevisionIsFrozen
  BY DEF AnnouncedInv, Kept, BackedInv, Backed, UnfrozenInv, Unfrozen, CurrentRevisionIsFrozen
<1>. QED  BY <1>1, AnnouncedInvariant, BackedInvariant, UnfrozenInvariant, PTL

\* Once nothing is under way, and if nobody got in another's way, the status says what
\* the reviews say: completed without an open question, manual_review with one,
\* review_resolved with the decisions that answer the current revision.
THEOREM StatusTellsTheReviews == Spec => []StatusMatchesReviews
<1>1. TypeInv /\ PhaseInv => StatusMatchesReviews
  <2>. SUFFICES ASSUME TypeInv, PhaseInv, Quiet, Undisturbed PROVE Matches
    BY DEF StatusMatchesReviews, Matches
  <2>1. ~Pending /\ ~Settling
    BY DEF Quiet, Pending, Settling, Busy
  <2>. QED  BY <2>1 DEF PhaseInv, Phases
<1>. QED  BY <1>1, TypeInvariant, PhaseInvariant, PTL

=============================================================================
