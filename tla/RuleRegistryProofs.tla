------------------------- MODULE RuleRegistryProofs -------------------------
(***************************************************************************)
(* Proofs about RuleRegistry, for every set of threads, of versions and of *)
(* documents.                                                              *)
(***************************************************************************)
EXTENDS RuleRegistry, FiniteSetTheorems, TLAPS

\* A step of one thread, with what is the same in all proofs by cases.
ThreadStep(t) ==
    \/ PublishDraft(t) \/ CheckFile(t) \/ TruncateFile(t) \/ FillFile(t)
    \/ SaveRow(t) \/ MarkPublished(t) \/ SaveDraft(t) \/ RenameDraft(t)
    \/ \E c \in Contents : PublishSchema(t, c)
    \/ \E c \in Contents \cup {Unfit} : EditDraft(t, c)

Publishing == {"truncate", "fill", "row", "mark"}

-----------------------------------------------------------------------------
(* What a step leaves in the thread that takes it; the others keep theirs.  *)

Others(t) == \A u \in Threads \ {t} : thread'[u] = thread[u]
Typed     == thread' \in [Threads -> ThreadType]

LEMMA IdleType ==
    /\ SomeContent \in Contents
    /\ IdleThread \in ThreadType /\ IdleThread.pc = "idle"
    /\ IdleThread.copy.status = "draft"
<1>1. SomeContent \in Contents
  BY ContentsAssumption DEF SomeContent
<1>. QED  BY <1>1 DEF IdleThread, ThreadType, DraftType

LEMMA ThreadIsSet ==
    ASSUME TypeOK, NEW t \in Threads, NEW r, thread' = [thread EXCEPT ![t] = r]
    PROVE  Others(t) /\ thread'[t] = r /\ (r \in ThreadType => Typed)
  BY DEF TypeOK, Others, Typed

LEMMA GoMoves ==
    ASSUME TypeOK, NEW t \in Threads, NEW pc \in Publishing, Go(t, pc)
    PROVE  /\ Others(t) /\ Typed
           /\ thread'[t].pc = pc /\ thread'[t].rules = thread[t].rules
           /\ thread'[t].copy = thread[t].copy
<1>1. thread[t] \in ThreadType
  BY DEF TypeOK
<1> DEFINE r == [thread[t] EXCEPT !.pc = pc]
<1>2. thread' = [thread EXCEPT ![t] = r]
  BY DEF Go
<1>3. r \in ThreadType /\ r.pc = pc /\ r.rules = thread[t].rules /\ r.copy = thread[t].copy
  BY <1>1 DEF ThreadType, Publishing
<1>. QED  BY <1>2, <1>3, ThreadIsSet

LEMMA EndMoves ==
    ASSUME TypeOK, NEW t \in Threads, End(t)
    PROVE  /\ Others(t) /\ Typed
           /\ thread'[t].pc = "idle" /\ thread'[t].copy.status = "draft"
  BY IdleType, ThreadIsSet DEF End

LEMMA WriteMoves ==
    ASSUME TypeOK, NEW t \in Threads, NEW d \in DraftType, Write(t, d)
    PROVE  Others(t) /\ Typed /\ thread'[t].pc = "save_draft" /\ thread'[t].copy = d
<1> DEFINE r == [IdleThread EXCEPT !.pc = "save_draft", !.copy = d]
<1>1. r \in ThreadType /\ r.pc = "save_draft" /\ r.copy = d
  BY IdleType DEF ThreadType
<1>. QED  BY <1>1, ThreadIsSet DEF Write

LEMMA SaveDraftMoves ==
    ASSUME TypeOK, NEW t \in Threads, SaveDraft(t)
    PROVE  /\ Others(t) /\ Typed
           /\ thread'[t].pc = "rename" /\ thread'[t].copy.status = "draft"
<1> DEFINE r == [IdleThread EXCEPT !.pc = "rename"]
<1>1. r \in ThreadType /\ r.pc = "rename" /\ r.copy = IdleThread.copy
  BY IdleType DEF ThreadType
<1>2. thread' = [thread EXCEPT ![t] = r]
  BY DEF SaveDraft
<1>. QED  BY <1>1, <1>2, IdleType, ThreadIsSet

LEMMA PublishMoves ==
    ASSUME TypeOK, NEW t \in Threads,
           PublishDraft(t) \/ \E c \in Contents : PublishSchema(t, c)
    PROVE  /\ Others(t) /\ Typed
           /\ thread'[t].pc = "check" /\ thread'[t].copy.status = "draft"
<1>1. draft.config \in Contents \cup {Unfit}
  BY DEF TypeOK, DraftType
<1>3. CASE PublishDraft(t)
  <2> DEFINE r == [IdleThread EXCEPT !.pc = "check", !.rules = draft.config,
                                     !.fromDraft = TRUE]
  <2>0. draft.config \in Contents
    BY <1>1, <1>3 DEF PublishDraft
  <2>1. r \in ThreadType /\ r.pc = "check" /\ r.copy = IdleThread.copy
    BY <2>0, IdleType DEF ThreadType
  <2>2. thread' = [thread EXCEPT ![t] = r]
    BY <1>3 DEF PublishDraft
  <2>. QED  BY <2>1, <2>2, IdleType, ThreadIsSet
<1>4. ASSUME NEW c \in Contents, PublishSchema(t, c)
      PROVE  /\ Others(t) /\ Typed
             /\ thread'[t].pc = "check" /\ thread'[t].copy.status = "draft"
  <2> DEFINE r == [IdleThread EXCEPT !.pc = "check", !.rules = c]
  <2>1. r \in ThreadType /\ r.pc = "check" /\ r.copy = IdleThread.copy
    BY IdleType DEF ThreadType
  <2>2. thread' = [thread EXCEPT ![t] = r]
    BY <1>4 DEF PublishSchema
  <2>. QED  BY <2>1, <2>2, IdleType, ThreadIsSet
<1>. QED  BY <1>3, <1>4

\* The two ways a publication goes on, and its end.
LEMMA NextMoves ==
    ASSUME TypeOK, NEW t \in Threads, NextStep(t) \/ MarkNext(t)
    PROVE  /\ Others(t) /\ Typed
           /\ \/ thread'[t].pc = "idle" /\ thread'[t].copy.status = "draft"
              \/ /\ thread'[t].pc \in {"row", "mark"}
                 /\ thread'[t].pc = "row" => database
                 /\ thread'[t].rules = thread[t].rules
                 /\ thread'[t].copy = thread[t].copy
           /\ ~MarkNext(t) => thread'[t].pc = "row" /\ database
<1>1. \/ End(t) \/ Go(t, "mark")
      \/ Go(t, "row") /\ database
  BY DEF NextStep, MarkNext
<1>2. ~MarkNext(t) => Go(t, "row") /\ database
  BY DEF NextStep
<1>. QED  BY <1>1, <1>2, GoMoves, EndMoves DEF Publishing

-----------------------------------------------------------------------------
(* Types.                                                                   *)

\* Each thread's version is one of the versions.
LEMMA VersionType ==
    ASSUME TypeOK, NEW t \in Threads
    PROVE  thread[t].rules \in Contents /\ Version(t) \in Versions
  BY VersionsAssumption DEF TypeOK, ThreadType, Version

LEMMA ThreadStepTypeOK ==
    ASSUME TypeOK, NEW t \in Threads, ThreadStep(t)
    PROVE  TypeOK'
<1>. USE DEF TypeOK
<1>1. /\ thread[t].rules \in Contents /\ Version(t) \in Versions
      /\ thread[t].copy \in DraftType
  BY VersionType DEF ThreadType
<1>2. CASE PublishDraft(t)
  BY <1>2, PublishMoves DEF PublishDraft, Typed
<1>3. CASE CheckFile(t)
  <2>1. Typed
    BY <1>3, GoMoves, EndMoves, NextMoves DEF CheckFile, Publishing
  <2>2. raced' \in [Versions -> BOOLEAN]
    BY <1>1, <1>3 DEF CheckFile
  <2>. QED  BY <2>1, <2>2, <1>3 DEF CheckFile, Typed
<1>4. CASE TruncateFile(t)
  <2>1. Typed
    BY <1>4, GoMoves DEF TruncateFile, Publishing
  <2>. QED  BY <1>1, <2>1, <1>4 DEF TruncateFile, Typed
<1>5. CASE FillFile(t)
  <2>1. Typed
    BY <1>5, NextMoves DEF FillFile
  <2>. QED  BY <1>1, <2>1, <1>5 DEF FillFile, Typed
<1>6. CASE SaveRow(t)
  <2>1. Typed
    BY <1>6, NextMoves, EndMoves DEF SaveRow
  <2>2. row' \in [Versions -> Contents \cup {Absent}]
    BY <1>1, <1>6 DEF SaveRow
  <2>. QED  BY <2>1, <2>2, <1>6 DEF SaveRow, Typed
<1>7. CASE MarkPublished(t)
  <2>1. [draft EXCEPT !.status = "published"] \in DraftType
    BY DEF DraftType
  <2>2. Typed
    BY <1>7, <2>1, WriteMoves DEF MarkPublished
  <2>3. overtaken' \in BOOLEAN
    BY <1>7 DEF MarkPublished
  <2>. QED  BY <2>2, <2>3, <1>7 DEF MarkPublished, Typed
<1>8. CASE SaveDraft(t)
  BY <1>1, <1>8, SaveDraftMoves DEF SaveDraft, Typed
<1>9. CASE RenameDraft(t)
  <2>1. draft' \in DraftType /\ tmp' \in DraftType \cup {NoDraft}
    BY <1>9 DEF RenameDraft
  <2>. QED  BY <2>1, <1>9, EndMoves DEF RenameDraft, Typed
<1>10. ASSUME NEW c \in Contents, PublishSchema(t, c)
       PROVE  TypeOK'
  BY <1>10, PublishMoves DEF PublishSchema, Typed
<1>11. ASSUME NEW c \in Contents \cup {Unfit}, EditDraft(t, c)
       PROVE  TypeOK'
  <2>1. Edited(c) \in DraftType
    BY DEF Edited, DraftType
  <2>. QED  BY <2>1, <1>11, WriteMoves DEF EditDraft, Typed
<1>. QED
  BY <1>2, <1>3, <1>4, <1>5, <1>6, <1>7, <1>8, <1>9, <1>10, <1>11 DEF ThreadStep

\* Every variable keeps its type: no request writes a draft or a version that is
\* not what the registries keep.
THEOREM RulesTypeCorrect == Spec => []TypeOK
<1>1. Init => TypeOK
  BY IdleType DEF Init, TypeOK, DraftType, NoDraft
<1>2. TypeOK /\ [Next]_vars => TypeOK'
  <2>1. SUFFICES ASSUME TypeOK, [Next]_vars
                 PROVE  TypeOK'
    OBVIOUS
  <2>2. ASSUME NEW t \in Threads, ThreadStep(t) PROVE TypeOK'
    BY <2>1, <2>2, ThreadStepTypeOK
  <2>3. ASSUME NEW v \in Versions, GetRule(v) PROVE TypeOK'
    BY <2>1, <2>3 DEF GetRule, TypeOK
  <2>4. CASE Restart
    BY <2>1, <2>4, IdleType DEF Restart, TypeOK
  <2>5. CASE UNCHANGED vars
    BY <2>1, <2>5 DEF vars, TypeOK
  <2>. QED  BY <2>1, <2>2, <2>3, <2>4, <2>5 DEF Next, ThreadStep
<1>. QED  BY <1>1, <1>2, PTL DEF Spec

-----------------------------------------------------------------------------
(* The row of a version.                                                    *)

\* What readers have been given is what the row holds: a row is made once.
ServedInv ==
    database => \A v \in Versions :
        /\ row[v] = Absent => served[v] = {}
        /\ row[v] # Absent => served[v] \subseteq {row[v]}

LEMMA ServedInductive ==
    ASSUME TypeOK, ServedInv, [Next]_vars
    PROVE  ServedInv'
<1>1. ASSUME NEW t \in Threads, ThreadStep(t), ~SaveRow(t)
      PROVE  ServedInv'
  <2>1. UNCHANGED <<database, row, served>>
    BY <1>1 DEF ThreadStep, PublishDraft, CheckFile, TruncateFile, FillFile,
                MarkPublished, SaveDraft, RenameDraft, PublishSchema, EditDraft
  <2>. QED  BY <2>1 DEF ServedInv
<1>2. ASSUME NEW t \in Threads, SaveRow(t)
      PROVE  ServedInv'
  <2>1. database' = database /\ served' = served
    BY <1>2 DEF SaveRow
  <2>2. \A v \in Versions : row'[v] = row[v] \/ row[v] = Absent
    BY <1>2, VersionType DEF SaveRow, TypeOK
  <2>. QED  BY <2>1, <2>2 DEF ServedInv
<1>3. ASSUME NEW v \in Versions, GetRule(v)
      PROVE  ServedInv'
  <2>1. database' = database /\ row' = row
    BY <1>3 DEF GetRule
  <2>2. \A u \in Versions : served'[u] = IF u = v THEN served[v] \cup {Stored(v)} ELSE served[u]
    BY <1>3 DEF GetRule, TypeOK
  <2>3. database => Stored(v) = row[v] /\ row[v] # Absent
    BY <1>3, ContentsAssumption DEF GetRule, Stored
  <2>. QED  BY <2>1, <2>2, <2>3 DEF ServedInv
<1>4. CASE Restart
  BY <1>4 DEF Restart, ServedInv
<1>5. CASE UNCHANGED vars
  BY <1>5 DEF vars, ServedInv
<1>. QED  BY <1>1, <1>2, <1>3, <1>4, <1>5 DEF Next, ThreadStep

\* A set with one document at most.
LEMMA OneAtMost ==
    ASSUME NEW s, NEW e, s \subseteq {e}
    PROVE  Cardinality(s) <= 1
<1>1. s = {} \/ s = {e}
  OBVIOUS
<1>2. Cardinality({}) = 0 /\ Cardinality({e}) = 1
  BY FS_EmptySet, FS_Singleton
<1>. QED  BY <1>1, <1>2

\* With a database, readers of a version are only ever given one document
\* (_get_rule of api.py, publish_rule of persistence.py).
THEOREM DatabaseIsWriteOnce == Spec => []DatabaseServesOneContent
<1>1. Init => ServedInv
  BY DEF Init, ServedInv
<1>2. ServedInv => DatabaseServesOneContent
  BY OneAtMost DEF ServedInv, DatabaseServesOneContent
<1>3. TypeOK /\ ServedInv /\ [Next]_vars => ServedInv'
  BY ServedInductive
<1>. QED  BY <1>1, <1>2, <1>3, RulesTypeCorrect, PTL DEF Spec

-----------------------------------------------------------------------------
(* The file of a version.                                                   *)

\* A publication that is past the file finds it there, and one that is past the
\* row finds in the row what it publishes.
StoredInv ==
    /\ \A v \in Versions : row[v] # Absent => file[v] # Absent
    /\ \A t \in Threads :
          /\ thread[t].pc \in Publishing \ {"truncate"} => file[Version(t)] # Absent
          /\ thread[t].pc = "mark" /\ database => row[Version(t)] = thread[t].rules

\* Unless raced, one thread makes the file of v, and nothing is behind it: no
\* row, no thread that goes on with another document, and no reader.
Making(t, v) == thread[t].pc \in {"truncate", "fill"} /\ Version(t) = v

FileOf(v) ==
    ~raced[v] =>
        /\ \A t, u \in Threads : Making(t, v) /\ Making(u, v) => t = u
        /\ \A t \in Threads : Version(t) = v =>
              /\ thread[t].pc = "truncate" => file[v] = Absent
              /\ thread[t].pc = "fill" => file[v] = Torn
              /\ thread[t].pc \in {"row", "mark"} => file[v] = thread[t].rules
        /\ row[v] # Absent => file[v] = row[v]
        /\ ~database => served[v] \subseteq {file[v]}
        /\ ~database /\ file[v] \in {Absent, Torn} => served[v] = {}

FileInv == StoredInv /\ \A v \in Versions : FileOf(v)

\* A step that touches no store takes its thread out of the publication, or
\* leaves it where it finds what it needs.
Finds(t) ==
    /\ thread'[t].pc \notin {"truncate", "fill"}
    /\ thread'[t].pc \in {"row", "mark"} =>
          /\ thread'[t].rules = thread[t].rules
          /\ file[Version(t)] = thread[t].rules
          /\ thread'[t].pc = "mark" /\ database => row[Version(t)] = thread[t].rules

LEMMA QuietStep ==
    ASSUME TypeOK, FileInv, NEW t \in Threads, Others(t), Finds(t),
           UNCHANGED <<database, file, row, served>>,
           \A v \in Versions : raced[v] => raced'[v]
    PROVE  FileInv'
<1>. USE DEF FileInv
<1>1. \A u \in Threads \ {t} : thread'[u] = thread[u] /\ Version(u)' = Version(u)
  BY DEF Others, Version
<1>2. thread'[t].pc \in {"row", "mark"} => Version(t)' = Version(t)
  BY DEF Finds, Version
<1>3. thread[t].rules # Absent /\ Version(t) \in Versions
  BY VersionType, ContentsAssumption
<1>4. StoredInv'
  BY <1>1, <1>2, <1>3 DEF StoredInv, Finds, Publishing
<1>5. ASSUME NEW v \in Versions, ~raced'[v] PROVE FileOf(v)'
  <2>1. ~raced[v] /\ FileOf(v)
    BY <1>5
  <2>. QED  BY <1>1, <1>2, <2>1 DEF FileOf, Making, Finds
<1>6. \A v \in Versions : FileOf(v)'
  BY <1>5 DEF FileOf
<1>. QED  BY <1>4, <1>6

LEMMA CheckFileInductive ==
    ASSUME TypeOK, FileInv, NEW t \in Threads, CheckFile(t)
    PROVE  FileInv'
<1> DEFINE w == Version(t)
<1>0. /\ UNCHANGED <<database, file, row, served>>
      /\ w \in Versions /\ thread[t].rules # Absent
      /\ \A v \in Versions : raced[v] => raced'[v]
      /\ ~raced'[w] /\ file[w] = Absent => \A u \in Threads : ~Making(u, w)
      /\ \A v \in Versions \ {w} : raced'[v] = raced[v]
  BY VersionType, ContentsAssumption DEF CheckFile, TypeOK, Making
<1>1. CASE Missing(w) /\ Go(t, "truncate")
  <2>1. /\ Others(t) /\ thread'[t].pc = "truncate"
        /\ Version(t)' = w /\ file[w] = Absent
    BY <1>1, GoMoves DEF Publishing, Missing, Version
  <2>2. \A u \in Threads \ {t} : thread'[u] = thread[u] /\ Version(u)' = Version(u)
    BY <2>1 DEF Others, Version
  <2>3. StoredInv'
    BY <1>0, <2>1, <2>2 DEF FileInv, StoredInv, Publishing
  <2>4. ASSUME NEW v \in Versions, ~raced'[v] PROVE FileOf(v)'
    <3>1. ~raced[v] /\ FileOf(v)
      BY <1>0, <2>4 DEF FileInv
    <3>. HIDE DEF w
    <3>. QED  BY <1>0, <2>1, <2>2, <2>4, <3>1 DEF FileOf, Making
  <2>5. \A v \in Versions : FileOf(v)'
    BY <2>4 DEF FileOf
  <2>. QED  BY <2>3, <2>5 DEF FileInv
<1>2. CASE SameContent(file[w], thread[t].rules) /\ NextStep(t)
  <2>1. /\ Others(t)
        /\ \/ thread'[t].pc = "idle"
           \/ /\ thread'[t].pc \in {"row", "mark"} /\ thread'[t].rules = thread[t].rules
              /\ thread'[t].pc = "mark" => ~database
    BY <1>2, NextMoves, GoMoves DEF NextStep, Publishing
  <2>2. Finds(t)
    BY <1>2, <2>1 DEF Finds, SameContent
  <2>. QED  BY <1>0, <2>1, <2>2, QuietStep
<1>3. CASE End(t)
  <2>1. Others(t) /\ Finds(t)
    BY <1>3, EndMoves DEF Finds
  <2>. QED  BY <1>0, <2>1, QuietStep
<1>. QED  BY <1>1, <1>2, <1>3 DEF CheckFile

LEMMA TruncateFileInductive ==
    ASSUME TypeOK, FileInv, NEW t \in Threads, TruncateFile(t)
    PROVE  FileInv'
<1> DEFINE w == Version(t)
<1>1. /\ UNCHANGED <<database, row, served, raced>> /\ w \in Versions
      /\ file'[w] = Torn /\ \A v \in Versions \ {w} : file'[v] = file[v]
      /\ thread[t].pc = "truncate" /\ Torn # Absent
  BY VersionType DEF TruncateFile, TypeOK, Torn, Absent
<1>2. Others(t) /\ thread'[t].pc = "fill" /\ Version(t)' = w
  BY GoMoves DEF TruncateFile, Publishing, Version
<1>3. \A u \in Threads \ {t} : thread'[u] = thread[u] /\ Version(u)' = Version(u)
  BY <1>2 DEF Others, Version
<1>. HIDE DEF w
<1>4. StoredInv'
  BY <1>1, <1>2, <1>3, VersionType DEF FileInv, StoredInv, Publishing
<1>5. ASSUME NEW v \in Versions, ~raced[v] PROVE FileOf(v)'
  <2>1. FileOf(v) /\ StoredInv
    BY DEF FileInv
  <2>2. CASE v = w
    \* The file was missing, so there is no row and no thread on its way to it.
    <3>1. file[w] = Absent /\ row[w] = Absent
      BY <1>1, <1>5, <2>1, <2>2 DEF FileOf, StoredInv, w
    <3>2. \A u \in Threads \ {t} : Version(u) = w => thread[u].pc \notin Publishing
      BY <1>1, <1>5, <2>1, <2>2, <3>1 DEF FileOf, StoredInv, Making, Publishing, w
    <3>. QED  BY <1>1, <1>2, <1>3, <1>5, <2>1, <2>2, <3>1, <3>2
              DEF FileOf, Making, Publishing
  <2>3. CASE v # w
    BY <1>1, <1>2, <1>3, <1>5, <2>1, <2>3 DEF FileOf, Making
  <2>. QED  BY <2>2, <2>3
<1>6. \A v \in Versions : FileOf(v)'
  BY <1>1, <1>5 DEF FileOf
<1>. QED  BY <1>4, <1>6 DEF FileInv

LEMMA FillFileInductive ==
    ASSUME TypeOK, FileInv, NEW t \in Threads, FillFile(t)
    PROVE  FileInv'
<1> DEFINE w == Version(t)
<1>1. /\ UNCHANGED <<database, row, served, raced>> /\ w \in Versions
      /\ file'[w] = thread[t].rules /\ \A v \in Versions \ {w} : file'[v] = file[v]
      /\ thread[t].pc = "fill" /\ thread[t].rules \notin {Absent, Torn}
      /\ row[w] # Torn /\ Torn # Absent
  BY VersionType, ContentsAssumption DEF FillFile, TypeOK, Torn, Absent
<1>2. /\ Others(t)
      /\ \/ thread'[t].pc = "idle"
         \/ /\ thread'[t].pc \in {"row", "mark"}
            /\ thread'[t].rules = thread[t].rules /\ Version(t)' = w
            /\ thread'[t].pc = "mark" => ~database
  BY NextMoves, GoMoves DEF FillFile, NextStep, Publishing, Version
<1>3. \A u \in Threads \ {t} : thread'[u] = thread[u] /\ Version(u)' = Version(u)
  BY <1>2 DEF Others, Version
<1>. HIDE DEF w
<1>4. StoredInv'
  BY <1>1, <1>2, <1>3, VersionType DEF FileInv, StoredInv, Publishing
<1>5. ASSUME NEW v \in Versions, ~raced[v] PROVE FileOf(v)'
  <2>1. FileOf(v) /\ StoredInv
    BY DEF FileInv
  <2>2. CASE v = w
    <3>1. /\ file[w] = Torn /\ row[w] = Absent
          /\ ~database => served[w] = {}
      BY <1>1, <1>5, <2>1, <2>2 DEF FileOf, w
    <3>2. \A u \in Threads : thread[u].rules # Torn
      BY VersionType, ContentsAssumption
    <3>3. \A u \in Threads \ {t} : Version(u) = w => thread[u].pc \notin Publishing
      BY <1>1, <1>5, <2>1, <2>2, <3>1, <3>2 DEF FileOf, Making, Publishing, w
    <3>. QED  BY <1>1, <1>2, <1>3, <1>5, <2>1, <2>2, <3>1, <3>3
              DEF FileOf, Making, Publishing
  <2>3. CASE v # w
    BY <1>1, <1>2, <1>3, <1>5, <2>1, <2>3 DEF FileOf, Making
  <2>. QED  BY <2>2, <2>3
<1>6. \A v \in Versions : FileOf(v)'
  BY <1>1, <1>5 DEF FileOf
<1>. QED  BY <1>4, <1>6 DEF FileInv

LEMMA SaveRowInductive ==
    ASSUME TypeOK, FileInv, NEW t \in Threads, SaveRow(t)
    PROVE  FileInv'
<1> DEFINE w == Version(t)
<1>1. /\ UNCHANGED <<database, file, served, raced>> /\ w \in Versions
      /\ thread[t].pc = "row" /\ thread[t].rules # Absent
  BY VersionType, ContentsAssumption DEF SaveRow
<1>2. CASE End(t) /\ row' = row
  <2>1. Others(t) /\ Finds(t)
    BY <1>2, EndMoves DEF Finds
  <2>. QED  BY <1>1, <1>2, <2>1, QuietStep
<1>3. CASE /\ row[w] = Absent \/ row[w] = thread[t].rules
           /\ row' = [row EXCEPT ![w] = IF @ = Absent THEN thread[t].rules ELSE @]
           /\ MarkNext(t)
  <2>1. row'[w] = thread[t].rules /\ \A v \in Versions \ {w} : row'[v] = row[v]
    BY <1>1, <1>3 DEF TypeOK
  <2>2. /\ Others(t)
        /\ \/ thread'[t].pc = "idle"
           \/ /\ thread'[t].pc = "mark"
              /\ thread'[t].rules = thread[t].rules /\ Version(t)' = w
    BY <1>3, EndMoves, GoMoves DEF MarkNext, Publishing, Version
  <2>3. \A u \in Threads \ {t} : thread'[u] = thread[u] /\ Version(u)' = Version(u)
    BY <2>2 DEF Others, Version
  <2>4. file[w] # Absent
    BY <1>1 DEF FileInv, StoredInv, Publishing
  <2>5. ASSUME NEW u \in Threads \ {t}, thread[u].pc = "mark", Version(u) = w, database
        PROVE  row'[w] = thread[u].rules
    <3>1. row[w] = thread[u].rules /\ thread[u].rules # Absent
      BY <2>5, VersionType, ContentsAssumption DEF FileInv, StoredInv
    <3>. QED  BY <1>3, <2>1, <3>1
  <2>. HIDE DEF w
  <2>6. StoredInv'
    BY <1>1, <2>1, <2>2, <2>3, <2>4, <2>5, VersionType DEF FileInv, StoredInv, Publishing
  <2>7. ASSUME NEW v \in Versions, ~raced[v] PROVE FileOf(v)'
    <3>1. FileOf(v) /\ (v = w => file[v] = thread[t].rules)
      BY <1>1, <2>7 DEF FileInv, FileOf, w
    <3>. QED  BY <1>1, <2>1, <2>2, <2>3, <2>7, <3>1 DEF FileOf, Making
  <2>8. \A v \in Versions : FileOf(v)'
    BY <1>1, <2>7 DEF FileOf
  <2>. QED  BY <2>6, <2>8 DEF FileInv
<1>. QED  BY <1>2, <1>3 DEF SaveRow, SameContent

LEMMA FileInductive ==
    ASSUME TypeOK, FileInv, [Next]_vars
    PROVE  FileInv'
<1>1. ASSUME NEW t \in Threads, ThreadStep(t)
      PROVE  FileInv'
  <2>1. CASE \/ PublishDraft(t) \/ \E c \in Contents : PublishSchema(t, c)
    <3>1. Others(t) /\ Finds(t)
      BY <2>1, PublishMoves DEF Finds
    <3>2. UNCHANGED <<database, file, row, served, raced>>
      BY <2>1 DEF PublishDraft, PublishSchema
    <3>. QED  BY <3>1, <3>2, QuietStep
  <2>2. CASE MarkPublished(t)
    <3>1. [draft EXCEPT !.status = "published"] \in DraftType
      BY DEF TypeOK, DraftType
    <3>2. Others(t) /\ Finds(t)
      BY <2>2, <3>1, WriteMoves DEF MarkPublished, Finds
    <3>. QED  BY <2>2, <3>2, QuietStep DEF MarkPublished
  <2>3. ASSUME NEW c \in Contents \cup {Unfit}, EditDraft(t, c) PROVE FileInv'
    <3>1. Edited(c) \in DraftType
      BY DEF Edited, TypeOK, DraftType
    <3>2. Others(t) /\ Finds(t)
      BY <2>3, <3>1, WriteMoves DEF EditDraft, Finds
    <3>. QED  BY <2>3, <3>2, QuietStep DEF EditDraft
  <2>4. CASE SaveDraft(t) \/ RenameDraft(t)
    <3>1. Others(t) /\ Finds(t)
      BY <2>4, SaveDraftMoves, EndMoves DEF RenameDraft, Finds
    <3>2. UNCHANGED <<database, file, row, served, raced>>
      BY <2>4 DEF SaveDraft, RenameDraft
    <3>. QED  BY <3>1, <3>2, QuietStep
  <2>. QED
    BY <1>1, <2>1, <2>2, <2>3, <2>4, CheckFileInductive, TruncateFileInductive,
       FillFileInductive, SaveRowInductive DEF ThreadStep
<1>2. ASSUME NEW v \in Versions, GetRule(v) PROVE FileInv'
  <2>1. UNCHANGED <<database, file, row, thread, raced>>
    BY <1>2 DEF GetRule
  <2>2. \A u \in Versions : served'[u] = IF u = v THEN served[v] \cup {Stored(v)} ELSE served[u]
    BY <1>2 DEF GetRule, TypeOK
  <2>3. ~database => Stored(v) = file[v] /\ file[v] \notin {Absent, Torn}
    BY <1>2, ContentsAssumption DEF GetRule, Stored
  <2>. QED  BY <2>1, <2>2, <2>3 DEF FileInv, FileOf, StoredInv, Making, Version
<1>3. CASE Restart
  <2>1. \A t \in Threads : thread'[t].pc = "idle"
    BY <1>3, IdleType DEF Restart
  <2>2. UNCHANGED <<database, file, row, served, raced>>
    BY <1>3 DEF Restart
  <2>. QED  BY <2>1, <2>2 DEF FileInv, FileOf, StoredInv, Making, Publishing
<1>4. CASE UNCHANGED vars
  BY <1>4 DEF vars, FileInv, FileOf, StoredInv, Making, Version
<1>. QED  BY <1>1, <1>2, <1>3, <1>4 DEF Next, ThreadStep

LEMMA FileInvariant == Spec => []FileInv
<1>1. Init => FileInv
  <2>1. SUFFICES ASSUME Init PROVE FileInv
    OBVIOUS
  <2>2. \A v \in Versions : row[v] = Absent /\ file[v] = Absent /\ served[v] = {}
    BY <2>1 DEF Init
  <2>3. \A t \in Threads : thread[t].pc = "idle"
    BY <2>1, IdleType DEF Init
  <2>. QED  BY <2>2, <2>3 DEF FileInv, FileOf, StoredInv, Making, Publishing
<1>2. TypeOK /\ FileInv /\ [Next]_vars => FileInv'
  BY FileInductive
<1>. QED  BY <1>1, <1>2, RulesTypeCorrect, PTL DEF Spec

\* The row and the file of a version hold the same document, unless two
\* publishers have both found the file missing (publish of rules.py).
THEOREM FileAgreesWithRow == Spec => []StoresAgree
<1>1. FileInv => StoresAgree
  BY DEF FileInv, FileOf, StoresAgree
<1>. QED  BY <1>1, FileInvariant, PTL

\* Without a database, readers are only ever given one document, under the same
\* condition.
THEOREM FileIsWriteOnce == Spec => []FileServesOneContent
<1>1. FileInv => FileServesOneContent
  BY OneAtMost DEF FileInv, FileOf, FileServesOneContent
<1>. QED  BY <1>1, FileInvariant, PTL

-----------------------------------------------------------------------------
(* Drafts marked published.                                                 *)

\* A record that says published has what PublishedDraftHasVersion asks for.
Backed(d) == d.status = "published" =>
                 \E c \in Contents : InStores(c) /\ (~overtaken => c = d.config)

\* So have the copies of it that are on their way to the draft's file.
BackedInv == /\ Backed(draft) /\ Backed(tmp)
             /\ \A t \in Threads : Backed(thread[t].copy)

\* What is in the stores stays there: the row is written once, and the file only
\* by the one thread that found it missing.
LEMMA StoresStay ==
    ASSUME TypeOK, FileInv, [Next]_vars, NEW c \in Contents, InStores(c)
    PROVE  InStores(c)'
<1> DEFINE v == VersionOf[c]
<1>0. /\ v \in Versions /\ c \notin {Absent, Torn} /\ Absent # Torn
      /\ file[v] # Absent /\ (~raced[v] => file[v] = c) /\ (database => row[v] = c)
  BY VersionsAssumption, ContentsAssumption DEF InStores, Absent, Torn
<1>1. database' = database
  BY DEF Next, vars, PublishDraft, CheckFile, TruncateFile, FillFile, SaveRow,
         MarkPublished, SaveDraft, RenameDraft, PublishSchema, EditDraft, GetRule, Restart
<1>. HIDE DEF v
<1>2. raced[v] => raced'[v]
  BY <1>0, VersionType
     DEF TypeOK, Next, vars, PublishDraft, CheckFile, TruncateFile, FillFile, SaveRow,
         MarkPublished, SaveDraft, RenameDraft, PublishSchema, EditDraft, GetRule, Restart
<1>3. row'[v] = row[v] \/ row[v] = Absent
  BY <1>0, VersionType
     DEF TypeOK, Next, vars, PublishDraft, CheckFile, TruncateFile, FillFile, SaveRow,
         MarkPublished, SaveDraft, RenameDraft, PublishSchema, EditDraft, GetRule, Restart
<1>4. file'[v] # Absent /\ (~raced[v] => file'[v] = file[v])
  <2>1. ASSUME NEW t \in Threads, TruncateFile(t) \/ FillFile(t)
        PROVE  file'[v] # Absent /\ (~raced[v] => file'[v] = file[v])
    <3>1. /\ thread[t].pc \in {"truncate", "fill"} /\ Version(t) \in Versions
          /\ thread[t].rules # Absent
          /\ \/ file' = [file EXCEPT ![Version(t)] = Torn]
             \/ file' = [file EXCEPT ![Version(t)] = thread[t].rules]
      BY <2>1, VersionType, ContentsAssumption DEF TruncateFile, FillFile
    <3>2. CASE Version(t) = v
      <4>1. raced[v]
        BY <1>0, <3>1, <3>2 DEF FileInv, FileOf
      <4>2. file'[v] # Absent
        BY <1>0, <3>1, <3>2 DEF TypeOK
      <4>. QED  BY <4>1, <4>2
    <3>3. CASE Version(t) # v
      BY <1>0, <3>1, <3>3 DEF TypeOK
    <3>. QED  BY <3>2, <3>3
  <2>2. CASE ~\E t \in Threads : TruncateFile(t) \/ FillFile(t)
    <3>1. file' = file
      BY <2>2 DEF Next, vars, PublishDraft, CheckFile, SaveRow, MarkPublished, SaveDraft,
                  RenameDraft, PublishSchema, EditDraft, GetRule, Restart
    <3>. QED  BY <1>0, <3>1
  <2>. QED  BY <2>1, <2>2
<1>. QED  BY <1>0, <1>1, <1>2, <1>3, <1>4 DEF InStores, v

LEMMA BackedInductive ==
    ASSUME TypeOK, FileInv, BackedInv, [Next]_vars
    PROVE  BackedInv'
<1>1. overtaken => overtaken'
  BY DEF Next, vars, PublishDraft, CheckFile, TruncateFile, FillFile, SaveRow,
         MarkPublished, SaveDraft, RenameDraft, PublishSchema, EditDraft, GetRule, Restart
\* A record that was backed is backed after the step.
<1>2. ASSUME NEW d, Backed(d)
      PROVE  d.status = "published" =>
                \E c \in Contents : InStores(c)' /\ (~overtaken' => c = d.config)
  BY <1>1, <1>2, StoresStay DEF Backed
<1>3. \A t \in Threads : /\ thread[t].copy.status = "draft" \/ Backed(thread[t].copy)
                         /\ thread[t].copy \in DraftType
  BY DEF BackedInv, TypeOK, ThreadType
<1>4. ASSUME NEW t \in Threads, ThreadStep(t)
      PROVE  BackedInv'
  <2>1. CASE /\ Others(t) /\ draft' \in {draft, tmp}
             /\ tmp' \in {tmp, NoDraft, thread[t].copy}
             /\ thread'[t].copy.status = "draft" \/ thread'[t].copy = thread[t].copy
    <3>1. Backed(draft)'
      BY <1>2, <2>1 DEF BackedInv, Backed
    <3>2. Backed(tmp)'
      BY <1>2, <2>1 DEF BackedInv, Backed, NoDraft
    <3>3. ASSUME NEW u \in Threads PROVE Backed(thread[u].copy)'
      BY <1>2, <2>1 DEF BackedInv, Backed, Others
    <3>. QED  BY <3>1, <3>2, <3>3 DEF BackedInv
  <2>2. CASE \/ PublishDraft(t) \/ \E c \in Contents : PublishSchema(t, c)
    <3>1. draft' = draft /\ tmp' = tmp
      BY <2>2 DEF PublishDraft, PublishSchema
    <3>. QED  BY <2>1, <2>2, <3>1, PublishMoves
  <2>3. CASE CheckFile(t) \/ TruncateFile(t) \/ FillFile(t) \/ SaveRow(t)
    <3>1. draft' = draft /\ tmp' = tmp
      BY <2>3 DEF CheckFile, TruncateFile, FillFile, SaveRow
    <3>2. \/ \E pc \in Publishing : Go(t, pc)
          \/ End(t) \/ NextStep(t) \/ MarkNext(t)
      BY <2>3 DEF CheckFile, TruncateFile, FillFile, SaveRow, Publishing
    <3>3. /\ Others(t)
          /\ thread'[t].copy.status = "draft" \/ thread'[t].copy = thread[t].copy
      BY <3>2, GoMoves, EndMoves, NextMoves
    <3>. QED  BY <2>1, <3>1, <3>3
  <2>4. CASE MarkPublished(t)
    <3> DEFINE d == [draft EXCEPT !.status = "published"]
    <3>1. d \in DraftType /\ d.config = draft.config
      BY DEF TypeOK, DraftType
    <3>2. Others(t) /\ thread'[t].copy.config = draft.config
      BY <2>4, <3>1, WriteMoves DEF MarkPublished
    <3>4. PICK r \in Contents : r = thread[t].rules
      BY VersionType
    <3>3. /\ UNCHANGED <<database, file, row, draft, tmp, raced>>
          /\ overtaken' = (overtaken \/ draft.config # r)
          /\ thread[t].pc = "mark"
          /\ Version(t) = VersionOf[r] /\ Version(t) \in Versions
      BY <2>4, <3>4, VersionType DEF MarkPublished, Version
    <3>5. InStores(r)
      BY <3>3, <3>4 DEF FileInv, FileOf, StoredInv, Publishing, InStores
    <3>6. InStores(r)'
      BY <3>5, StoresStay
    <3>7. ~overtaken' => r = thread'[t].copy.config
      BY <3>2, <3>3
    <3>8. Backed(thread[t].copy)'
      BY <3>6, <3>7 DEF Backed
    <3>9. Backed(draft)' /\ Backed(tmp)'
      BY <1>2, <3>3 DEF BackedInv, Backed
    <3>10. ASSUME NEW u \in Threads \ {t} PROVE Backed(thread[u].copy)'
      BY <1>2, <3>2 DEF BackedInv, Backed, Others
    <3>. QED  BY <3>8, <3>9, <3>10 DEF BackedInv
  <2>5. ASSUME NEW c \in Contents \cup {Unfit}, EditDraft(t, c) PROVE BackedInv'
    <3>1. Edited(c) \in DraftType /\ Edited(c).status = "draft"
      BY <2>5 DEF Edited, EditDraft, TypeOK, DraftType
    <3>2. Others(t) /\ thread'[t].copy.status = "draft"
      BY <2>5, <3>1, WriteMoves DEF EditDraft
    <3>. QED  BY <2>1, <2>5, <3>2 DEF EditDraft
  <2>6. CASE SaveDraft(t)
    BY <2>1, <2>6, SaveDraftMoves DEF SaveDraft
  <2>7. CASE RenameDraft(t)
    BY <2>1, <2>7, EndMoves DEF RenameDraft
  <2>. QED  BY <1>4, <2>2, <2>3, <2>4, <2>5, <2>6, <2>7 DEF ThreadStep
<1>5. ASSUME draft' = draft, tmp' = tmp,
             thread' = thread \/ \A t \in Threads : thread'[t].copy.status = "draft"
      PROVE  BackedInv'
  BY <1>2, <1>5 DEF BackedInv, Backed
<1>6. ASSUME NEW v \in Versions, GetRule(v) PROVE BackedInv'
  BY <1>5, <1>6 DEF GetRule
<1>7. CASE Restart
  BY <1>5, <1>7, IdleType DEF Restart
<1>8. CASE UNCHANGED vars
  BY <1>5, <1>8 DEF vars
<1>. QED  BY <1>4, <1>6, <1>7, <1>8 DEF Next, ThreadStep

\* A draft is marked published only when a document is in the stores it was
\* published to, and it is the draft's own document unless the draft was edited
\* between its validation and its marking (publish_draft of api.py).
THEOREM PublishedDraftIsServed == Spec => []PublishedDraftHasVersion
<1>1. Init => BackedInv
  BY IdleType DEF Init, BackedInv, Backed, NoDraft
<1>2. BackedInv => PublishedDraftHasVersion
  BY DEF BackedInv, Backed, PublishedDraftHasVersion
<1>3. TypeOK /\ FileInv /\ BackedInv /\ [Next]_vars => BackedInv'
  BY BackedInductive
<1>. QED  BY <1>1, <1>2, <1>3, RulesTypeCorrect, FileInvariant, PTL DEF Spec

=============================================================================
