---------------------------- MODULE AdmissionProofs ----------------------------
(***************************************************************************)
(* Proofs about Admission, for every number of threads, jobs and keys,     *)
(* every limit and every set of faults.                                    *)
(***************************************************************************)
EXTENDS Admission, FiniteSetTheorems, TLAPS

-----------------------------------------------------------------------------
(* The inductive invariants.                                                *)

\* Only a thread with a key looks into the registry.
KeyedInv ==
    /\ TypeOK
    /\ \A r \in Threads :
          th[r].pc \in {"open", "record"} => th[r].key \in Keys

\* The thread that made a registry file is the only one to write its record,
\* a record stays, the thread that made a job directory is the only one to
\* write its first status, and a directory made for a key is the one that the
\* record of the key names.
RegistryInv ==
    /\ \A r \in Threads :
          th[r].pc = "record" => registry[th[r].key] = Empty
    /\ \A r, s \in Threads :
          /\ th[r].pc = "record" /\ th[s].pc = "record"
          /\ th[r].key = th[s].key
          => r = s
    /\ AnswersTheSameRequest
    /\ \A r \in Threads :
          th[r].pc = "write" => status[th[r].job] = "dir"
    /\ \A r, s \in Threads :
          /\ th[r].pc = "write" /\ th[s].pc = "write"
          /\ th[r].job = th[s].job
          => r = s
    /\ \A j \in Jobs :
          status[j] # "none" /\ origin[j] # NoKey =>
              \E p \in Prints : registry[origin[j]] = Record(p, j)

\* The threads whose lock another has removed, and those that have found a
\* free place and not taken it yet.
Strays  == {r \in Threads : th[r].pc \in Inside /\ holder # r}
Pending == {r \in Threads : th[r].pc \in {"mkdir", "write"}}

\* There is no stray without a theft, and a place is taken or spoken for once
\* within the limit, but for one place for each theft.
QuotaInv ==
    /\ Cardinality(Strays) <= thefts
    /\ Cardinality(Active \ readmitted) + Cardinality(Pending) <= Limit + thefts

-----------------------------------------------------------------------------
(* Types.                                                                   *)

Locations == {"idle", "open", "record", "lock", "stat", "steal", "enqueue"} \cup Inside

LEMMA IdleType == Idle \in Submission
<1>1. SomeJobId \in Jobs
  BY AdmissionJobsAssumption, Zenon DEF SomeJobId
<1>2. SomePrint \in Prints
  BY KeysAssumption, Zenon DEF SomePrint
<1>. QED  BY <1>1, <1>2 DEF Idle, Submission

\* What a step does to its thread keeps the thread well typed.
LEMMA ThreadTypes ==
    ASSUME TypeOK, NEW r \in Threads
    PROVE  /\ th[r] \in Submission
           /\ \A pc \in Locations : Step(r, pc) => th' \in [Threads -> Submission]
           /\ Refuse(r) => th' \in [Threads -> Submission] /\ promised' \subseteq Jobs
           /\ Accept(r) => th' \in [Threads -> Submission] /\ promised' \subseteq Jobs
           /\ Retry(r) => th' \in [Threads -> Submission] /\ promised' \subseteq Jobs
<1>1. th[r] \in Submission
  BY DEF TypeOK
<1>2. ASSUME NEW pc \in Locations, Step(r, pc)
      PROVE  th' \in [Threads -> Submission]
  <2>1. [th[r] EXCEPT !.pc = pc] \in Submission
    BY <1>1 DEF Submission, Locations, Inside
  <2>. QED  BY <2>1, <1>2 DEF TypeOK, Step
<1>3. Refuse(r) => th' \in [Threads -> Submission] /\ promised' \subseteq Jobs
  BY IdleType DEF TypeOK, Refuse
<1>4. Accept(r) => th' \in [Threads -> Submission] /\ promised' \subseteq Jobs
  <2>1. th[r].job \in Jobs
    BY <1>1 DEF Submission
  <2>. QED  BY <2>1, IdleType DEF TypeOK, Accept
<1>5. Retry(r) => th' \in [Threads -> Submission] /\ promised' \subseteq Jobs
  BY <1>2, <1>3 DEF Retry, Locations, TypeOK
<1>. QED  BY <1>1, <1>2, <1>3, <1>4, <1>5

LEMMA RemoveLockTypes ==
    ASSUME TypeOK, NEW r \in Threads, RemoveLock(r)
    PROVE  holder' = Nobody /\ old' \in BOOLEAN /\ thefts' \in Nat
<1>1. thefts \in Nat
  BY DEF TypeOK
<1>2. thefts' = thefts + 1 \/ thefts' = thefts
  BY DEF RemoveLock
<1>3. thefts' \in Nat
  BY <1>1, <1>2
<1>. QED  BY <1>3 DEF RemoveLock

LEMMA ThreadStepTypeOK ==
    ASSUME KeyedInv, NEW r \in Threads, ThreadStep(r)
    PROVE  TypeOK'
<1>1. /\ th[r] \in Submission
      /\ th[r].key \in Keys \cup {NoKey}
      /\ th[r].print \in Prints /\ th[r].job \in Jobs
      /\ th[r].pc = "open" => registry[th[r].key] \in Registrations
  <2>1. th[r] \in Submission
    BY ThreadTypes DEF KeyedInv
  <2>2. th[r].pc = "open" => registry[th[r].key] \in Registrations
    BY DEF KeyedInv, TypeOK
  <2>. QED  BY <2>1, <2>2 DEF Submission
<1>. TypeOK
  BY DEF KeyedInv
<1>. USE DEF TypeOK, lockVars, jobVars, Locations, Inside
<1>2. CASE OpensNew(r)
  BY <1>2, ThreadTypes DEF OpensNew, Registrations
<1>3. CASE OpensExisting(r)
  <2>1. CASE /\ SameRequest(r, registry[th[r].key])
             /\ th' = [th EXCEPT ![r].pc = "lock", ![r].job = registry[th[r].key].job,
                                 ![r].replay = TRUE]
             /\ promised' = promised
    <3>1. registry[th[r].key].job \in Jobs
      BY <1>1, <1>3, <2>1
      DEF OpensExisting, SameRequest, Registrations, Absent, Empty
    <3>2. [th[r] EXCEPT !.pc = "lock", !.job = registry[th[r].key].job,
                        !.replay = TRUE] \in Submission
      BY <1>1, <3>1 DEF Submission
    <3>. QED  BY <1>3, <2>1, <3>2 DEF OpensExisting
  <2>2. CASE /\ SameRequest(r, registry[th[r].key])
             /\ th' = [th EXCEPT ![r] = Idle]
             /\ promised' = promised \cup {registry[th[r].key].job}
    <3>1. registry[th[r].key].job \in Jobs
      BY <1>1, <1>3, <2>2
      DEF OpensExisting, SameRequest, Registrations, Absent, Empty
    <3>. QED  BY <1>3, <2>2, <3>1, IdleType DEF OpensExisting
  <2>3. CASE Refuse(r)
    BY <1>3, <2>3, ThreadTypes DEF OpensExisting
  <2>. QED  BY <1>3, <2>1, <2>2, <2>3 DEF OpensExisting
<1>4. CASE WritesRecord(r)
  BY <1>1, <1>4, ThreadTypes DEF WritesRecord, Registrations, Record
<1>5. CASE MakesLock(r)
  BY <1>5, ThreadTypes DEF MakesLock
<1>6. CASE LooksAtAge(r)
  BY <1>6, ThreadTypes DEF LooksAtAge
<1>7. CASE RemovesOldLock(r)
  BY <1>7, ThreadTypes, RemoveLockTypes DEF RemovesOldLock
<1>8. CASE ReleasesLock(r)
  BY <1>8, ThreadTypes, RemoveLockTypes DEF ReleasesLock
<1>9. CASE Counts(r)
  BY <1>9, ThreadTypes DEF Counts
<1>10. CASE MakesDirectory(r)
  BY <1>1, <1>10, ThreadTypes DEF MakesDirectory
<1>11. CASE WritesStatus(r)
  <2>1. [th[r] EXCEPT !.pc = "release", !.admitted = TRUE] \in Submission
    BY <1>1 DEF Submission
  <2>. QED  BY <1>1, <1>11, <2>1 DEF WritesStatus
<1>12. CASE Enqueues(r)
  BY <1>1, <1>12, ThreadTypes DEF Enqueues
<1>13. CASE Dies(r)
  BY <1>13, ThreadTypes DEF Dies
<1>. QED
  BY <1>2, <1>3, <1>4, <1>5, <1>6, <1>7, <1>8, <1>9, <1>10, <1>11, <1>12,
     <1>13 DEF ThreadStep

\* What a submission starts with.
LEMMA ReceiveTypes ==
    ASSUME NEW k \in Keys \cup {NoKey}, NEW p \in Prints, NEW j \in Jobs
    PROVE  [Idle EXCEPT !.pc = IF k = NoKey THEN "lock" ELSE "open",
                        !.key = k, !.print = p, !.job = j] \in Submission
  BY IdleType DEF Submission

LEMMA TypesStart == Init => KeyedInv
<1>. SUFFICES ASSUME Init PROVE KeyedInv
  OBVIOUS
<1>1. th = [r \in Threads |-> Idle]
  BY DEF Init
<1>2. \A r \in Threads : th[r].pc = "idle"
  BY <1>1 DEF Idle
<1>3. registry \in [Keys -> Registrations]
  BY DEF Init, Registrations
<1>. QED  BY <1>1, <1>2, <1>3, IdleType DEF Init, TypeOK, KeyedInv

\* A step of one thread leaves the others where they are.
LEMMA OthersStay ==
    ASSUME TypeOK, NEW r \in Threads, ThreadStep(r)
    PROVE  \A s \in Threads \ {r} : th'[s] = th[s]
  BY DEF TypeOK, ThreadStep, OpensNew, OpensExisting, WritesRecord, MakesLock, LooksAtAge,
     RemovesOldLock, ReleasesLock, Counts, MakesDirectory, WritesStatus, Enqueues,
     Dies, Step, Refuse, Accept, Retry

LEMMA KeyedStays ==
    ASSUME KeyedInv, NEW r \in Threads, ThreadStep(r)
    PROVE  \A s \in Threads :
              th'[s].pc \in {"open", "record"} => th'[s].key \in Keys
<1>. USE DEF KeyedInv, TypeOK
<1>1. th[r] \in Submission
  OBVIOUS
<1>2. \A s \in Threads \ {r} : th'[s] = th[s]
  BY OthersStay
<1>3. th'[r].pc \in {"open", "record"} => th'[r].key \in Keys
  <2>1. CASE OpensNew(r)
    BY <1>1, <2>1 DEF OpensNew, Step, Submission
  <2>2. CASE ~OpensNew(r)
    <3>1. th'[r].pc \notin {"open", "record"}
      BY <1>1, <2>2 DEF ThreadStep, OpensExisting, WritesRecord, MakesLock, LooksAtAge,
         RemovesOldLock, ReleasesLock, Counts, MakesDirectory, WritesStatus, Enqueues,
         Dies, Step, Refuse, Accept, Retry, Idle, Submission
    <3>. QED  BY <3>1
  <2>. QED  BY <2>1, <2>2
<1>. QED  BY <1>2, <1>3

LEMMA TypesStay == KeyedInv /\ [Next]_vars => KeyedInv'
<1>. SUFFICES ASSUME KeyedInv, [Next]_vars PROVE KeyedInv'
  OBVIOUS
<1>1. ASSUME NEW r \in Threads, ThreadStep(r) PROVE KeyedInv'
  BY <1>1, ThreadStepTypeOK, KeyedStays DEF KeyedInv
<1>2. ASSUME NEW r \in Threads, NEW k \in Keys \cup {NoKey}, NEW p \in Prints,
             NEW j \in Jobs, Receive(r, k, p, j)
      PROVE  KeyedInv'
  <2>1. th'[r].pc = "open" => th'[r].key \in Keys
    BY <1>2 DEF Receive, Idle, KeyedInv, TypeOK
  <2>2. th'[r].pc # "record"
    BY <1>2 DEF Receive, Idle, KeyedInv, TypeOK
  <2>3. \A s \in Threads \ {r} : th'[s] = th[s]
    BY <1>2 DEF Receive
  <2>4. TypeOK'
    BY <1>2, ReceiveTypes DEF Receive, KeyedInv, TypeOK, lockVars
  <2>. QED  BY <2>1, <2>2, <2>3, <2>4 DEF KeyedInv
<1>3. ASSUME NEW j \in Jobs, Settles(j) \/ Readmits(j) \/ Purges(j)
      PROVE  KeyedInv'
  BY <1>3 DEF Settles, Readmits, Purges, KeyedInv, TypeOK, lockVars
<1>4. CASE LockAges
  BY <1>4 DEF LockAges, KeyedInv, TypeOK, jobVars
<1>5. CASE UNCHANGED vars
  BY <1>5 DEF vars, lockVars, jobVars, KeyedInv, TypeOK
<1>. QED  BY <1>1, <1>2, <1>3, <1>4, <1>5 DEF Next

\* Only requests with a key look into the registry, and every variable stays in
\* its type, whatever the instance: a registry file is absent, empty or a whole
\* record, never one without a fingerprint or a job.
THEOREM AdmissionTypeCorrect == Spec => []TypeOK
<1>1. KeyedInv => TypeOK
  BY DEF KeyedInv
<1>. QED  BY <1>1, TypesStart, TypesStay, PTL DEF Spec

-----------------------------------------------------------------------------
(* The registry.                                                            *)

\* Once a thread has left the registry, it keeps its key, body and job until
\* the request is over, and does not touch the registry.
LEMMA LaterSteps ==
    ASSUME TypeOK, NEW r \in Threads, ThreadStep(r),
           th[r].pc \notin {"open", "record"}
    PROVE  /\ registry' = registry
           /\ th[r].pc # "idle"
           /\ \/ th'[r].pc = "idle"
              \/ /\ th'[r].pc \notin {"idle", "open", "record"}
                 /\ th'[r].key = th[r].key
                 /\ th'[r].print = th[r].print
                 /\ th'[r].job = th[r].job
<1>1. th[r] \in Submission /\ th \in [Threads -> Submission]
  BY DEF TypeOK
<1>. QED
  BY <1>1 DEF ThreadStep, OpensNew, OpensExisting, WritesRecord, MakesLock, LooksAtAge,
     RemovesOldLock, ReleasesLock, Counts, MakesDirectory, WritesStatus, Enqueues,
     Dies, Step, Refuse, Accept, Retry, Idle, Submission

\* A record of the registry is a whole one, and other than a new file.
LEMMA RegistryValues ==
    /\ Absent # Empty
    /\ \A p, j : Record(p, j) # Absent /\ Record(p, j) # Empty
    /\ \A p, q, i, j : Record(p, i) = Record(q, j) => p = q /\ i = j
    /\ \A x \in Registrations : x.state = "record" => x = Record(x.print, x.job)
<1>1. \A p, j : Record(p, j).state = "record" /\ Record(p, j).print = p
                                            /\ Record(p, j).job = j
  BY DEF Record
<1>2. Absent.state = "absent" /\ Empty.state = "empty"
  BY DEF Absent, Empty
<1>3. ASSUME NEW x \in Registrations, x.state = "record"
      PROVE  x = Record(x.print, x.job)
  <2>1. x \in [state : {"record"}, print : Prints, job : Jobs]
    BY <1>2, <1>3 DEF Registrations
  <2>. QED  BY <2>1, <1>3 DEF Record
<1>. QED
  <2>1. Absent # Empty
    BY <1>2
  <2>2. \A p, j : Record(p, j) # Absent /\ Record(p, j) # Empty
    BY <1>1, <1>2
  <2>3. \A p, q, i, j : Record(p, i) = Record(q, j) => p = q /\ i = j
    BY <1>1
  <2>. QED  BY <2>1, <2>2, <2>3, <1>3

\* A registry file whose content a step changes was absent, or empty and of the
\* thread that takes the step.
LEMMA RegistrySteps ==
    ASSUME KeyedInv, RegistryInv, NEW r \in Threads, ThreadStep(r)
    PROVE  /\ \A k \in Keys :
                 registry'[k] # registry[k] =>
                    /\ k = th[r].key
                    /\ \/ OpensNew(r) /\ registry[k] = Absent
                       \/ WritesRecord(r) /\ registry[k] = Empty
           /\ \A k \in Keys, p \in Prints, j \in Jobs :
                 registry[k] = Record(p, j) => registry'[k] = Record(p, j)
<1>. USE DEF KeyedInv, TypeOK
<1>1. \A k \in Keys :
         registry'[k] # registry[k] =>
            /\ k = th[r].key
            /\ \/ OpensNew(r) /\ registry[k] = Absent
               \/ WritesRecord(r) /\ registry[k] = Empty
  <2>1. CASE OpensNew(r)
    BY <2>1 DEF OpensNew, IsNew
  <2>2. CASE WritesRecord(r)
    <3>1. registry[th[r].key] = Empty
      BY <2>2 DEF WritesRecord, RegistryInv
    <3>. QED  BY <2>2, <3>1 DEF WritesRecord
  <2>3. CASE ~OpensNew(r) /\ ~WritesRecord(r)
    <3>1. registry' = registry
      BY <2>3 DEF ThreadStep, OpensExisting, MakesLock, LooksAtAge, RemovesOldLock,
         ReleasesLock, Counts, MakesDirectory, WritesStatus, Enqueues, Dies
    <3>. QED  BY <3>1
  <2>. QED  BY <2>1, <2>2, <2>3
<1>. QED  BY <1>1, RegistryValues

LEMMA RegistersOnce ==
    ASSUME KeyedInv, RegistryInv, NEW r \in Threads, ThreadStep(r)
    PROVE  /\ \A s \in Threads :
                 th'[s].pc = "record" => registry'[th'[s].key] = Empty
           /\ \A s, q \in Threads :
                 /\ th'[s].pc = "record" /\ th'[q].pc = "record"
                 /\ th'[s].key = th'[q].key
                 => s = q
<1>. USE DEF KeyedInv, TypeOK
<1>0. th[r] \in Submission /\ th \in [Threads -> Submission]
  OBVIOUS
<1>1. \A s \in Threads \ {r} : th'[s] = th[s]
  BY OthersStay
<1>2. \A s \in Threads \ {r} :
         th[s].pc = "record" => /\ registry[th[s].key] = Empty
                                /\ th[s].key \in Keys
  BY DEF RegistryInv
<1>3. CASE OpensNew(r)
  <2>1. /\ registry[th[r].key] = Absent /\ registry'[th[r].key] = Empty
        /\ th'[r].key = th[r].key
    BY <1>0, <1>3 DEF OpensNew, IsNew, Step
  <2>2. \A s \in Threads \ {r} : th[s].pc = "record" => th[s].key # th[r].key
    BY <1>2, <2>1, RegistryValues
  <2>3. \A s \in Threads \ {r} : th[s].pc = "record" => registry'[th[s].key] = Empty
    BY <1>2, <1>3, <2>2 DEF OpensNew
  <2>. QED  BY <1>1, <2>1, <2>2, <2>3 DEF RegistryInv
<1>4. CASE WritesRecord(r)
  <2>1. th'[r].pc = "lock" /\ th[r].pc = "record"
    BY <1>0, <1>4 DEF WritesRecord, Step
  <2>2. \A s \in Threads \ {r} : th[s].pc = "record" => th[s].key # th[r].key
    BY <2>1 DEF RegistryInv
  <2>3. \A s \in Threads \ {r} : th[s].pc = "record" => registry'[th[s].key] = Empty
    BY <1>2, <1>4, <2>2 DEF WritesRecord
  <2>. QED  BY <1>1, <2>1, <2>3 DEF RegistryInv
<1>5. CASE ~OpensNew(r) /\ ~WritesRecord(r)
  <2>1. th'[r].pc # "record"
    BY <1>0, <1>5 DEF ThreadStep, OpensExisting, MakesLock, LooksAtAge,
       RemovesOldLock, ReleasesLock, Counts, MakesDirectory, WritesStatus, Enqueues,
       Dies, Step, Refuse, Accept, Retry, Idle, Submission
  <2>2. \A s \in Threads \ {r} : th[s].pc = "record" => registry'[th[s].key] = Empty
    BY <1>2, <1>5, RegistrySteps
  <2>. QED  BY <1>1, <2>1, <2>2 DEF RegistryInv
<1>. QED  BY <1>3, <1>4, <1>5

LEMMA AnswersStay ==
    ASSUME KeyedInv, RegistryInv, NEW r \in Threads, ThreadStep(r)
    PROVE  AnswersTheSameRequest'
<1>. USE DEF KeyedInv, TypeOK
<1>0. th[r] \in Submission /\ th \in [Threads -> Submission]
  OBVIOUS
<1>1. \A s \in Threads \ {r} : th'[s] = th[s]
  BY OthersStay
<1>2. ASSUME NEW s \in Threads,
             th[s].pc \notin {"idle", "open", "record"}, th[s].key # NoKey
      PROVE  registry'[th[s].key] = Record(th[s].print, th[s].job)
  <2>1. /\ th[s].key \in Keys /\ th[s].print \in Prints /\ th[s].job \in Jobs
        /\ registry[th[s].key] = Record(th[s].print, th[s].job)
    BY <1>2 DEF RegistryInv, AnswersTheSameRequest, Submission
  <2>. QED  BY <2>1, RegistrySteps
<1>3. ASSUME th'[r].pc \notin {"idle", "open", "record"}, th'[r].key # NoKey
      PROVE  registry'[th'[r].key] = Record(th'[r].print, th'[r].job)
  <2>1. CASE th[r].pc \notin {"open", "record"}
    BY <1>2, <1>3, <2>1, LaterSteps
  <2>2. CASE th[r].pc = "open"
    <3>1. /\ SameRequest(r, registry[th[r].key])
          /\ th'[r].key = th[r].key /\ th'[r].print = th[r].print
          /\ th'[r].job = registry[th[r].key].job
          /\ registry' = registry
      BY <1>0, <1>3, <2>2 DEF ThreadStep, OpensNew, OpensExisting, WritesRecord, MakesLock,
         LooksAtAge, RemovesOldLock, ReleasesLock, Counts, MakesDirectory, WritesStatus,
         Enqueues, Dies, Step, Refuse, Idle, Submission, Inside
    <3>2. registry[th[r].key] \in Registrations
      BY <2>2
    <3>. QED  BY <3>1, <3>2, RegistryValues DEF SameRequest
  <2>3. CASE th[r].pc = "record"
    <3>1. /\ th'[r].key = th[r].key /\ th'[r].print = th[r].print
          /\ th'[r].job = th[r].job /\ th[r].key \in Keys
          /\ registry' = [registry EXCEPT ![th[r].key] = Record(th[r].print, th[r].job)]
      BY <1>0, <1>3, <2>3 DEF ThreadStep, OpensNew, OpensExisting, WritesRecord, MakesLock,
         LooksAtAge, RemovesOldLock, ReleasesLock, Counts, MakesDirectory, WritesStatus,
         Enqueues, Dies, Step, Refuse, Idle, Submission, Inside
    <3>. QED  BY <3>1
  <2>. QED  BY <2>1, <2>2, <2>3
<1>. QED  BY <1>1, <1>2, <1>3 DEF AnswersTheSameRequest

\* The thread that made the job directory of j is the only one to write its
\* status, and the directory of a job stands under the key of its record.
LEMMA DirectoriesStay ==
    ASSUME KeyedInv, RegistryInv, NEW r \in Threads, ThreadStep(r)
    PROVE  /\ \A s \in Threads : th'[s].pc = "write" => status'[th'[s].job] = "dir"
           /\ \A s, q \in Threads :
                 /\ th'[s].pc = "write" /\ th'[q].pc = "write"
                 /\ th'[s].job = th'[q].job
                 => s = q
           /\ \A j \in Jobs :
                 status'[j] # "none" /\ origin'[j] # NoKey =>
                     \E p \in Prints : registry'[origin'[j]] = Record(p, j)
<1>. USE DEF KeyedInv, TypeOK
<1>0. th[r] \in Submission /\ th \in [Threads -> Submission]
  OBVIOUS
<1>1. \A s \in Threads \ {r} : th'[s] = th[s]
  BY OthersStay
<1>2. \A s \in Threads : th[s].pc = "write" => status[th[s].job] = "dir"
  BY DEF RegistryInv
<1>3. \A s, q \in Threads :
         th[s].pc = "write" /\ th[q].pc = "write" /\ th[s].job = th[q].job => s = q
  BY DEF RegistryInv
<1>4. ASSUME NEW j \in Jobs, status[j] # "none", origin[j] # NoKey
      PROVE  \E p \in Prints : registry'[origin[j]] = Record(p, j)
  <2>1. PICK p \in Prints : registry[origin[j]] = Record(p, j)
    BY <1>4 DEF RegistryInv
  <2>2. origin[j] \in Keys
    BY <1>4
  <2>. QED  BY <2>1, <2>2, RegistrySteps
<1>5. CASE MakesDirectory(r) /\ status[th[r].job] = "none"
  <2>. DEFINE j == th[r].job
  <2>1. /\ j \in Jobs /\ status' = [status EXCEPT ![j] = "dir"]
        /\ origin' = [origin EXCEPT ![j] = th[r].key]
        /\ th'[r].pc = "write" /\ th'[r].job = j /\ th[r].pc = "mkdir"
        /\ registry' = registry
    BY <1>0, <1>5 DEF MakesDirectory, Step, Submission
  <2>2. \A s \in Threads \ {r} : th[s].pc = "write" => th[s].job # j
    BY <1>2, <1>5
  <2>3. \A s \in Threads \ {r} : th[s].pc = "write" => status'[th[s].job] = "dir"
    BY <1>2, <2>1, <2>2
  <2>4. status'[th'[r].job] = "dir"
    BY <2>1
  <2>5. th[r].key # NoKey => \E p \in Prints : registry'[th[r].key] = Record(p, j)
    BY <1>0, <2>1 DEF RegistryInv, AnswersTheSameRequest, Submission
  <2>6. ASSUME NEW i \in Jobs, status'[i] # "none", origin'[i] # NoKey
        PROVE  \E p \in Prints : registry'[origin'[i]] = Record(p, i)
    BY <1>4, <2>1, <2>5, <2>6
  <2>. QED  BY <1>1, <1>3, <2>1, <2>2, <2>3, <2>4, <2>6
<1>6. CASE WritesStatus(r)
  <2>1. /\ th[r].job \in Jobs /\ th[r].pc = "write" /\ th'[r].pc = "release"
        /\ status' = [status EXCEPT ![th[r].job] = "active"]
        /\ origin' = origin
    BY <1>0, <1>6 DEF WritesStatus, Submission
  <2>2. \A s \in Threads \ {r} : th[s].pc = "write" => th[s].job # th[r].job
    BY <1>3, <2>1
  <2>3. \A s \in Threads \ {r} : th[s].pc = "write" => status'[th[s].job] = "dir"
    BY <1>2, <2>1, <2>2
  <2>4. \A i \in Jobs : status'[i] # "none" => status[i] # "none"
    BY <1>2, <2>1
  <2>. QED  BY <1>1, <1>3, <1>4, <2>1, <2>3, <2>4
<1>7. CASE /\ ~WritesStatus(r)
           /\ ~(MakesDirectory(r) /\ status[th[r].job] = "none")
  <2>1. th'[r].pc # "write" /\ status' = status /\ origin' = origin
    BY <1>0, <1>7 DEF ThreadStep, OpensNew, OpensExisting, WritesRecord, MakesLock,
       LooksAtAge, RemovesOldLock, ReleasesLock, Counts, MakesDirectory, Enqueues, Dies,
       Step, Refuse, Accept, Retry, Idle, Submission, lockVars, jobVars
  <2>. QED  BY <1>1, <1>2, <1>3, <1>4, <2>1
<1>. QED  BY <1>5, <1>6, <1>7

\* What others do with the jobs: the status of a job without a directory, or
\* with a directory that is being made, is left alone.
LEMMA JobStepsKeepRegistryInv ==
    ASSUME KeyedInv, RegistryInv, NEW j \in Jobs,
           Settles(j) \/ Readmits(j) \/ Purges(j)
    PROVE  RegistryInv'
<1>. USE DEF KeyedInv, TypeOK
<1>1. /\ th' = th /\ registry' = registry /\ origin' = origin
      /\ status[j] \in {"active", "terminal"}
      /\ \A i \in Jobs \ {j} : status'[i] = status[i]
  BY DEF Settles, Readmits, Purges
<1>2. \A r \in Threads : th[r].pc = "write" => status'[th[r].job] = "dir"
  <2>1. \A r \in Threads : th[r].job \in Jobs
    BY DEF Submission
  <2>. QED  BY <1>1, <2>1 DEF RegistryInv
<1>3. \A i \in Jobs :
         status'[i] # "none" /\ origin[i] # NoKey =>
             \E p \in Prints : registry[origin[i]] = Record(p, i)
  BY <1>1 DEF RegistryInv
<1>4. AnswersTheSameRequest'
  BY <1>1 DEF RegistryInv, AnswersTheSameRequest
<1>. QED  BY <1>1, <1>2, <1>3, <1>4 DEF RegistryInv

LEMMA ReceiveKeepsRegistryInv ==
    ASSUME KeyedInv, RegistryInv, NEW r \in Threads, NEW k \in Keys \cup {NoKey},
           NEW p \in Prints, NEW j \in Jobs, Receive(r, k, p, j)
    PROVE  RegistryInv'
<1>. USE DEF KeyedInv, TypeOK
<1>1. /\ th'[r].pc \in {"lock", "open"}
      /\ th'[r].pc = "lock" => th'[r].key = NoKey
      /\ \A s \in Threads \ {r} : th'[s] = th[s]
      /\ registry' = registry /\ origin' = origin /\ status' = status
  BY DEF Receive, Idle
<1>2. AnswersTheSameRequest'
  BY <1>1 DEF RegistryInv, AnswersTheSameRequest
<1>. QED  BY <1>1, <1>2 DEF RegistryInv

LEMMA RegistryStarts == Init => RegistryInv
<1>. SUFFICES ASSUME Init PROVE RegistryInv
  OBVIOUS
<1>1. \A r \in Threads : th[r].pc = "idle"
  BY DEF Init, Idle
<1>2. \A j \in Jobs : status[j] = "none"
  BY DEF Init
<1>. QED  BY <1>1, <1>2 DEF RegistryInv, AnswersTheSameRequest

LEMMA RegistryStays == KeyedInv /\ RegistryInv /\ [Next]_vars => RegistryInv'
<1>. SUFFICES ASSUME KeyedInv, RegistryInv, [Next]_vars PROVE RegistryInv'
  OBVIOUS
<1>1. ASSUME NEW r \in Threads, ThreadStep(r) PROVE RegistryInv'
  BY <1>1, RegistersOnce, AnswersStay, DirectoriesStay DEF RegistryInv
<1>2. CASE LockAges
  BY <1>2 DEF LockAges, jobVars, RegistryInv, AnswersTheSameRequest
<1>3. CASE UNCHANGED vars
  BY <1>3 DEF vars, lockVars, jobVars, RegistryInv, AnswersTheSameRequest
<1>. QED
  BY <1>1, <1>2, <1>3, ReceiveKeepsRegistryInv, JobStepsKeepRegistryInv DEF Next

\* A key has one registry file, its record never changes, and a job directory
\* made for the key is that of the record.
THEOREM RegistryInvariant == Spec => [](KeyedInv /\ RegistryInv)
  BY TypesStart, TypesStay, RegistryStarts, RegistryStays, PTL DEF Spec

\* However many requests with the same key meet, whatever fails, and whatever
\* has been purged, two job directories never stand under one key.
THEOREM KeyHasOneJob == Spec => []OneJobPerKey
<1>1. KeyedInv /\ RegistryInv => OneJobPerKey
  <2>. SUFFICES ASSUME KeyedInv, RegistryInv,
                       NEW i \in Jobs, NEW j \in Jobs,
                       status[i] # "none", status[j] # "none",
                       origin[i] = origin[j], origin[i] # NoKey
                PROVE  i = j
    BY DEF OneJobPerKey
  <2>1. PICK p \in Prints : registry[origin[i]] = Record(p, i)
    BY DEF RegistryInv
  <2>2. PICK q \in Prints : registry[origin[i]] = Record(q, j)
    BY DEF RegistryInv
  <2>3. Record(p, i) = Record(q, j)
    BY <2>1, <2>2
  <2>4. Record(p, i).job = i /\ Record(q, j).job = j
    BY DEF Record
  <2>. QED  BY <2>3, <2>4
<1>. QED  BY <1>1, RegistryInvariant, PTL

\* No request is given the job of another key or of another body, in whichever
\* order the registry file is made, written and read.
THEOREM SameRequestAnswered == Spec => []AnswersTheSameRequest
<1>1. RegistryInv => AnswersTheSameRequest
  BY DEF RegistryInv
<1>. QED  BY <1>1, RegistryInvariant, PTL

-----------------------------------------------------------------------------
(* The quota.                                                               *)

LEMMA OneMore ==
    ASSUME NEW S, IsFiniteSet(S), NEW T, NEW x, T \subseteq S \cup {x}
    PROVE  Cardinality(T) \in Nat /\ Cardinality(T) <= Cardinality(S) + 1
<1>1. /\ IsFiniteSet(S \cup {x})
      /\ Cardinality(S \cup {x}) = (IF x \in S THEN Cardinality(S) ELSE Cardinality(S) + 1)
  BY FS_AddElement
<1>2. Cardinality(T) <= Cardinality(S \cup {x})
  BY <1>1, FS_Subset
<1>3. Cardinality(S) \in Nat /\ Cardinality(S \cup {x}) \in Nat
  BY <1>1, FS_CardinalityType
<1>4. IsFiniteSet(T) /\ Cardinality(T) \in Nat
  BY <1>1, FS_Subset, FS_CardinalityType
<1>. QED  BY <1>1, <1>2, <1>3, <1>4

LEMMA CountsAreFinite ==
    /\ IsFiniteSet(Strays) /\ Cardinality(Strays) \in Nat
    /\ IsFiniteSet(Pending) /\ Cardinality(Pending) \in Nat
    /\ IsFiniteSet(Active) /\ Cardinality(Active) \in Nat
    /\ IsFiniteSet(Active \ readmitted) /\ Cardinality(Active \ readmitted) \in Nat
    /\ Cardinality(Active \ readmitted) <= Cardinality(Active)
<1>1. /\ IsFiniteSet(Strays) /\ IsFiniteSet(Pending) /\ IsFiniteSet(Active)
  BY FS_Subset, ThreadsAssumption, AdmissionJobsAssumption DEF Strays, Pending, Active
<1>2. IsFiniteSet(Active \ readmitted) /\ Cardinality(Active \ readmitted) <= Cardinality(Active)
  BY <1>1, FS_Subset
<1>. QED  BY <1>1, <1>2, FS_CardinalityType

\* Removing the lock of a thread that relies on it makes one stray and one
\* theft; the thread that removes it, or its own, does not rely on it any more.
LEMMA RemovalMakesStrays ==
    ASSUME KeyedInv, QuotaInv, NEW r \in Threads,
           RemovesOldLock(r) \/ ReleasesLock(r)
    PROVE  QuotaInv'
<1>. USE DEF KeyedInv, TypeOK
<1>1. /\ th'[r].pc \notin Inside
      /\ \A s \in Threads \ {r} : th'[s] = th[s]
      /\ RemoveLock(r)
      /\ status' = status /\ readmitted' = readmitted
  <2>1. CASE RemovesOldLock(r)
    BY <2>1 DEF RemovesOldLock, Retry, Step, Refuse, Idle, Inside, Submission, jobVars
  <2>2. CASE ReleasesLock(r)
    <3>1. Refuse(r) \/ Accept(r) \/ Step(r, "enqueue")
      BY <2>2, Zenon DEF ReleasesLock
    <3>2. th' \in {[th EXCEPT ![r] = Idle], [th EXCEPT ![r].pc = "enqueue"]}
      BY <3>1 DEF Refuse, Accept, Step
    <3>3. RemoveLock(r) /\ UNCHANGED <<registry, jobVars>>
      BY <2>2, Zenon DEF ReleasesLock
    <3>. QED  BY <3>2, <3>3 DEF Idle, Inside, Submission, jobVars
  <2>. QED  BY <2>1, <2>2
<1>2. Pending' \subseteq Pending /\ Active' = Active
  BY <1>1 DEF Pending, Active, Inside
<1>3. Cardinality(Pending') <= Cardinality(Pending) /\ Cardinality(Pending') \in Nat
  BY <1>2, CountsAreFinite, FS_Subset, FS_CardinalityType
<1>4. thefts \in Nat /\ (thefts' = thefts \/ thefts' = thefts + 1)
  BY <1>1 DEF RemoveLock
<1>5. Cardinality(Strays') <= thefts'
  <2>1. CASE holder \in Threads \ {r} /\ th[holder].pc \in Inside
    <3>1. thefts' = thefts + 1
      BY <1>1, <2>1 DEF RemoveLock
    <3>2. Strays' \subseteq Strays \cup {holder}
      BY <1>1 DEF Strays
    <3>3. Cardinality(Strays') \in Nat /\ Cardinality(Strays') <= Cardinality(Strays) + 1
      BY <3>2, CountsAreFinite, OneMore
    <3>. QED  BY <1>4, <3>1, <3>3, CountsAreFinite DEF QuotaInv
  <2>2. CASE ~(holder \in Threads \ {r} /\ th[holder].pc \in Inside)
    <3>1. thefts' = thefts
      BY <1>1, <2>2 DEF RemoveLock
    <3>2. Strays' \subseteq Strays
      BY <1>1, <2>2 DEF Strays
    <3>3. Cardinality(Strays') <= Cardinality(Strays) /\ Cardinality(Strays') \in Nat
      BY <3>2, CountsAreFinite, FS_Subset, FS_CardinalityType
    <3>. QED  BY <1>4, <3>1, <3>3, CountsAreFinite DEF QuotaInv
  <2>. QED  BY <2>1, <2>2
<1>6. /\ Cardinality((Active \ readmitted)') = Cardinality(Active \ readmitted)
      /\ Cardinality(Active \ readmitted)' = Cardinality(Active \ readmitted)
  BY <1>1, <1>2
<1>7. Cardinality(Active \ readmitted)' + Cardinality(Pending)' <= Limit + thefts'
  <2>1. Cardinality(Active \ readmitted) + Cardinality(Pending) <= Limit + thefts
    BY DEF QuotaInv
  <2>2. Limit \in Nat
    BY LimitAssumption
  <2>. QED  BY <1>3, <1>4, <1>6, <2>1, <2>2, CountsAreFinite
<1>. QED  BY <1>5, <1>7 DEF QuotaInv

\* The steps that take no lock, no place and no decision.
LEMMA QuotaFrame ==
    ASSUME KeyedInv, QuotaInv, thefts' = thefts,
           Strays' \subseteq Strays, Pending' \subseteq Pending,
           (Active \ readmitted)' \subseteq Active \ readmitted
    PROVE  QuotaInv'
<1>1. /\ Cardinality(Strays)' <= Cardinality(Strays)
      /\ Cardinality(Strays)' \in Nat
      /\ Cardinality(Pending)' <= Cardinality(Pending)
      /\ Cardinality(Pending)' \in Nat
      /\ Cardinality(Active \ readmitted)' <= Cardinality(Active \ readmitted)
      /\ Cardinality(Active \ readmitted)' \in Nat
  BY CountsAreFinite, FS_Subset, FS_CardinalityType
<1>2. thefts \in Nat /\ Limit \in Nat
  BY LimitAssumption DEF KeyedInv, TypeOK
<1>. QED  BY <1>1, <1>2, CountsAreFinite DEF QuotaInv

LEMMA ThreadStepQuota ==
    ASSUME KeyedInv, QuotaInv, NEW r \in Threads, ThreadStep(r)
    PROVE  QuotaInv'
<1>. USE DEF KeyedInv, TypeOK
<1>0. /\ thefts \in Nat /\ Limit \in Nat
      /\ th \in [Threads -> Submission] /\ th[r] \in Submission
  BY LimitAssumption
<1>1. \A s \in Threads \ {r} : th'[s] = th[s]
  BY OthersStay
<1>2. CASE Counts(r) /\ Cardinality(Active) < Limit
  <2>1. /\ th[r].pc = "count" /\ th'[r].pc = "mkdir"
        /\ holder' = holder /\ thefts' = thefts
        /\ status' = status /\ readmitted' = readmitted
    <3>1. Step(r, "mkdir")
      BY <1>0, <1>2, CountsAreFinite DEF Counts
    <3>. QED  BY <1>0, <1>2, <3>1 DEF Counts, Step, Submission, lockVars, jobVars
  <2>2. Strays' \subseteq Strays
    BY <1>1, <2>1 DEF Strays, Inside
  <2>3. Cardinality(Strays') <= thefts'
    BY <1>0, <2>1, <2>2, CountsAreFinite, FS_Subset, FS_CardinalityType DEF QuotaInv
  \* Of the threads that rely on the lock, all but its holder are strays; and
  \* this one had no place yet.
  <2>4. Cardinality(Pending') <= thefts + 1 /\ Cardinality(Pending') \in Nat
    <3>1. CASE holder = r
      <4>1. Pending' \subseteq Strays \cup {r}
        BY <1>1, <2>1, <3>1 DEF Pending, Strays, Inside
      <4>2. Cardinality(Pending') \in Nat /\ Cardinality(Pending') <= Cardinality(Strays) + 1
        BY <4>1, CountsAreFinite, OneMore
      <4>. QED  BY <1>0, <4>2, CountsAreFinite DEF QuotaInv
    <3>2. CASE holder # r
      <4>1. Pending' \subseteq Strays \cup {holder}
        BY <1>1, <2>1, <3>2 DEF Pending, Strays, Inside
      <4>2. Cardinality(Pending') \in Nat /\ Cardinality(Pending') <= Cardinality(Strays) + 1
        BY <4>1, CountsAreFinite, OneMore
      <4>. QED  BY <1>0, <4>2, CountsAreFinite DEF QuotaInv
    <3>. QED  BY <3>1, <3>2
  <2>5. Cardinality(Active \ readmitted)' = Cardinality(Active \ readmitted)
    BY <2>1 DEF Active
  <2>6. Cardinality(Active \ readmitted)' + Cardinality(Pending)' <= Limit + thefts'
    BY <1>0, <1>2, <2>1, <2>4, <2>5, CountsAreFinite
  <2>. QED  BY <2>3, <2>6 DEF QuotaInv
<1>3. CASE WritesStatus(r)
  <2>1. /\ th[r].pc = "write" /\ th'[r].pc = "release"
        /\ holder' = holder /\ thefts' = thefts /\ readmitted' = readmitted
        /\ status' = [status EXCEPT ![th[r].job] = "active"]
    BY <1>0, <1>3 DEF WritesStatus, lockVars, jobVars
  <2>2. Strays' \subseteq Strays
    BY <1>1, <2>1 DEF Strays, Inside
  <2>3. Cardinality(Strays') <= thefts'
    BY <1>0, <2>1, <2>2, CountsAreFinite, FS_Subset, FS_CardinalityType DEF QuotaInv
  <2>4. /\ Pending' = Pending \ {r} /\ r \in Pending
    BY <1>1, <2>1 DEF Pending
  <2>5. Cardinality(Pending)' = Cardinality(Pending) - 1
    BY <2>4, CountsAreFinite, FS_RemoveElement
  <2>6. (Active \ readmitted)' \subseteq (Active \ readmitted) \cup {th[r].job}
    BY <2>1 DEF Active
  <2>7. /\ Cardinality(Active \ readmitted)' \in Nat
        /\ Cardinality(Active \ readmitted)' <= Cardinality(Active \ readmitted) + 1
    BY <2>6, CountsAreFinite, OneMore
  <2>. QED
    BY <1>0, <2>1, <2>3, <2>5, <2>7, CountsAreFinite DEF QuotaInv
<1>4. CASE MakesLock(r)
  <2>1. /\ th'[r].pc \in {"count", "stat"} /\ thefts' = thefts
        /\ status' = status /\ readmitted' = readmitted
        /\ \/ holder = Nobody /\ holder' = r
           \/ holder' = holder /\ th'[r].pc = "stat"
    BY <1>0, <1>4 DEF MakesLock, LockIsFree, Step, Submission, lockVars, jobVars
  <2>2. Strays' \subseteq Strays /\ Pending' \subseteq Pending
    BY <1>1, <2>1, ThreadsAssumption DEF Strays, Pending, Inside
  <2>. QED  BY <2>1, <2>2, QuotaFrame DEF Active
<1>5. CASE /\ ~(Counts(r) /\ Cardinality(Active) < Limit)
           /\ ~WritesStatus(r) /\ ~MakesLock(r)
           /\ ~RemovesOldLock(r) /\ ~ReleasesLock(r)
  <2>1. /\ holder' = holder /\ thefts' = thefts /\ readmitted' = readmitted
        /\ th'[r].pc \in Inside => th[r].pc \in Inside
        /\ th'[r].pc \in {"mkdir", "write"} => th[r].pc \in {"mkdir", "write"}
    BY <1>0, <1>5, CountsAreFinite DEF ThreadStep, OpensNew, OpensExisting, WritesRecord,
       LooksAtAge, Counts, MakesDirectory, Enqueues, Dies, Step, Refuse, Accept,
       Retry, Idle, Submission, Inside, lockVars, jobVars
  <2>2. \A j \in Jobs : status'[j] = "active" => status[j] = "active"
    BY <1>0, <1>5 DEF ThreadStep, OpensNew, OpensExisting, WritesRecord,
       LooksAtAge, Counts, MakesDirectory, Enqueues, Dies, jobVars
  <2>3. Strays' \subseteq Strays /\ Pending' \subseteq Pending
    BY <1>1, <2>1 DEF Strays, Pending
  <2>4. (Active \ readmitted)' \subseteq Active \ readmitted
    BY <2>1, <2>2 DEF Active
  <2>. QED  BY <2>1, <2>3, <2>4, QuotaFrame
<1>. QED  BY <1>2, <1>3, <1>4, <1>5, RemovalMakesStrays

LEMMA QuotaStarts == Init => QuotaInv
<1>. SUFFICES ASSUME Init PROVE QuotaInv
  OBVIOUS
<1>1. Strays = {} /\ Pending = {} /\ Active \ readmitted = {}
  BY DEF Init, Idle, Inside, Strays, Pending, Active
<1>2. Cardinality({}) = 0
  BY FS_EmptySet
<1>. QED  BY <1>1, <1>2, LimitAssumption DEF QuotaInv, Init

LEMMA QuotaStays == KeyedInv /\ QuotaInv /\ [Next]_vars => QuotaInv'
<1>. SUFFICES ASSUME KeyedInv, QuotaInv, [Next]_vars PROVE QuotaInv'
  OBVIOUS
<1>. USE DEF KeyedInv, TypeOK
<1>1. ASSUME NEW r \in Threads, ThreadStep(r) PROVE QuotaInv'
  BY <1>1, ThreadStepQuota
<1>2. ASSUME NEW r \in Threads, NEW k \in Keys \cup {NoKey}, NEW p \in Prints,
             NEW j \in Jobs, Receive(r, k, p, j)
      PROVE  QuotaInv'
  <2>1. /\ th'[r].pc \in {"lock", "open"}
        /\ \A s \in Threads \ {r} : th'[s] = th[s]
        /\ holder' = holder /\ thefts' = thefts
        /\ status' = status /\ readmitted' = readmitted
    BY <1>2 DEF Receive, Idle, lockVars
  <2>2. Strays' \subseteq Strays /\ Pending' \subseteq Pending
    BY <2>1 DEF Strays, Pending, Inside
  <2>. QED  BY <2>1, <2>2, QuotaFrame DEF Active
<1>3. ASSUME NEW j \in Jobs, Settles(j) \/ Readmits(j) \/ Purges(j)
      PROVE  QuotaInv'
  <2>1. th' = th /\ holder' = holder /\ thefts' = thefts
    BY <1>3 DEF Settles, Readmits, Purges, lockVars
  <2>2. Strays' \subseteq Strays /\ Pending' \subseteq Pending
    BY <2>1 DEF Strays, Pending
  <2>3. (Active \ readmitted)' \subseteq Active \ readmitted
    BY <1>3 DEF Settles, Readmits, Purges, Active
  <2>. QED  BY <2>1, <2>2, <2>3, QuotaFrame
<1>4. CASE LockAges \/ UNCHANGED vars
  <2>1. /\ th' = th /\ holder' = holder /\ thefts' = thefts
        /\ status' = status /\ readmitted' = readmitted
    BY <1>4 DEF LockAges, vars, lockVars, jobVars
  <2>. QED  BY <2>1, QuotaFrame DEF Strays, Pending, Active
<1>. QED  BY <1>1, <1>2, <1>3, <1>4 DEF Next

\* Whatever stalls and dies, the number of active jobs that a request created
\* exceeds the limit by at most one for each lock that was removed under a live
\* thread: counting and creating are one step but for these thefts.
THEOREM QuotaIsBounded == Spec => []QuotaBounded
<1>1. KeyedInv /\ QuotaInv => QuotaBounded
  BY CountsAreFinite, LimitAssumption DEF QuotaInv, QuotaBounded, KeyedInv, TypeOK
<1>. QED
  BY <1>1, TypesStart, TypesStay, QuotaStarts, QuotaStays, PTL DEF Spec

=============================================================================
