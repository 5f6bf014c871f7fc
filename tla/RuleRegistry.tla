----------------------------- MODULE RuleRegistry -----------------------------
(***************************************************************************)
(* Publication of the versions of one rule by one tenant: the RuleRegistry *)
(* and the DraftRegistry of rules.py on the data volume, the database's    *)
(* copy of published versions (persistence.py), and the handlers of api.py *)
(* that import, edit, confirm, publish and read.                           *)
(*                                                                         *)
(* A draft is written whole to its .tmp file in one step and renamed in    *)
(* another; a version's file, which is written in place, is truncated in   *)
(* one step and filled in another.                                         *)
(***************************************************************************)
EXTENDS Naturals, FiniteSets

CONSTANTS Threads,   \* API threads
          Versions,  \* schema_version of the documents
          Contents,  \* rule documents of that schema_id
          VersionOf  \* VersionOf[c]: the schema_version that c names

VARIABLES
    database,  \* a DatabaseRepository is configured
    file,      \* file[v]: what the file of version v holds
    row,       \* row[v]: what the database row of version v holds
    draft,     \* what the draft's file holds
    tmp,       \* what the draft's .tmp file holds
    thread,    \* thread[t]: the request thread t serves
    served,    \* served[v]: the contents readers have been given
    raced,     \* raced[v]: two publishers both found the file of v missing
    overtaken  \* a draft was edited while it was published, then marked

vars == <<database, file, row, draft, tmp, thread, served, raced, overtaken>>

\* Of a file: it is missing, or it is truncated and not yet filled.
Absent == "absent"
Torn   == "torn"

\* A configuration that is no rule document: update does not validate it.
Unfit == "unfit"

ASSUME ContentsAssumption == Contents # {} /\ {Absent, Torn, Unfit} \cap Contents = {}
ASSUME VersionsAssumption == VersionOf \in [Contents -> Versions]

DraftType == [status : {"draft", "published"}, config : Contents \cup {Unfit}]
NoDraft   == [status |-> "draft", config |-> Absent]

ThreadType == [pc : {"idle", "check", "truncate", "fill", "row", "mark",
                     "save_draft", "rename"},
               rules : Contents,         \* what it publishes
               fromDraft : BOOLEAN,      \* through publish_draft
               copy : DraftType]         \* the draft record it will write

SomeContent == CHOOSE c \in Contents : TRUE
IdleThread  == [pc |-> "idle", rules |-> SomeContent, fromDraft |-> FALSE,
                copy |-> [status |-> "draft", config |-> SomeContent]]

Init ==
    /\ database \in BOOLEAN
    /\ file = [v \in Versions |-> Absent]
    /\ row = [v \in Versions |-> Absent]
    /\ draft \in [status : {"draft"}, config : Contents \cup {Unfit}]
    /\ tmp = NoDraft
    /\ thread = [t \in Threads |-> IdleThread]
    /\ served = [v \in Versions |-> {}]
    /\ raced = [v \in Versions |-> FALSE]
    /\ overtaken = FALSE

-----------------------------------------------------------------------------
Idle(t)     == thread[t].pc = "idle"
Go(t, pc)   == thread' = [thread EXCEPT ![t].pc = pc]
End(t)      == thread' = [thread EXCEPT ![t] = IdleThread]
Write(t, d) == thread' = [thread EXCEPT ![t] = [IdleThread EXCEPT !.pc = "save_draft",
                                                                  !.copy = d]]

\* The version that thread t publishes.
Version(t) == VersionOf[thread[t].rules]

\* POST /schemas/publish of a document.
PublishSchema(t, c) ==
    /\ Idle(t)
    /\ thread' = [thread EXCEPT ![t] = [IdleThread EXCEPT !.pc = "check", !.rules = c]]
    /\ UNCHANGED <<database, file, row, draft, tmp, served, raced, overtaken>>

\* POST .../publish of the draft, whatever its status: its configuration is read
\* and validated here.
PublishDraft(t) ==
    /\ Idle(t) /\ draft.config # Unfit
    /\ thread' = [thread EXCEPT ![t] = [IdleThread EXCEPT
                    !.pc = "check", !.rules = draft.config, !.fromDraft = TRUE]]
    /\ UNCHANGED <<database, file, row, draft, tmp, served, raced, overtaken>>

\* A fault to test StoresAgree with: an existing version is not compared.
FaultySameContent(stored, rules) == TRUE

\* content_sha256 of the stored document and of the one to publish.
SameContent(stored, rules) == stored = rules

\* A fault to test PublishedDraftHasVersion with: the draft is marked first.
FaultyNextStep(t) == IF thread[t].fromDraft THEN Go(t, "mark")
                     ELSE IF database THEN Go(t, "row") ELSE End(t)

\* A publication whose version is stored marks its draft.
MarkNext(t) == IF thread[t].fromDraft THEN Go(t, "mark") ELSE End(t)

\* How a publication goes on when the file is done.
NextStep(t) == IF database THEN Go(t, "row") ELSE MarkNext(t)

\* A fault to test FileServesOneContent with: a version is written again.
FaultyMissing(v) == file[v] # Torn

\* path.exists() is false.
Missing(v) == file[v] = Absent

\* RuleRegistry.publish: a file that exists is compared and never written.
\* A torn file is not JSON, and another content is a conflict.
CheckFile(t) ==
    /\ thread[t].pc = "check"
    /\ LET v == Version(t) IN
       /\ \/ Missing(v) /\ Go(t, "truncate")
          \/ /\ ~Missing(v) /\ file[v] # Torn /\ SameContent(file[v], thread[t].rules)
             /\ NextStep(t)
          \/ /\ ~Missing(v)
             /\ file[v] = Torn \/ ~SameContent(file[v], thread[t].rules)
             /\ End(t)
       /\ raced' = [raced EXCEPT ![v] =
             @ \/ /\ file[v] = Absent
                  /\ \E u \in Threads : /\ thread[u].pc \in {"truncate", "fill"}
                                        /\ Version(u) = v]
    /\ UNCHANGED <<database, file, row, draft, tmp, served, overtaken>>

\* write_text truncates the file, then fills it.
TruncateFile(t) ==
    /\ thread[t].pc = "truncate"
    /\ file' = [file EXCEPT ![Version(t)] = Torn]
    /\ Go(t, "fill")
    /\ UNCHANGED <<database, row, draft, tmp, served, raced, overtaken>>

FillFile(t) ==
    /\ thread[t].pc = "fill"
    /\ file' = [file EXCEPT ![Version(t)] = thread[t].rules]
    /\ NextStep(t)
    /\ UNCHANGED <<database, row, draft, tmp, served, raced, overtaken>>

\* DatabaseRepository.publish_rule: one transaction under a unique constraint,
\* which the database may refuse.
SaveRow(t) ==
    /\ thread[t].pc = "row"
    /\ LET v == Version(t) IN
       \/ /\ row[v] = Absent \/ SameContent(row[v], thread[t].rules)
          /\ row' = [row EXCEPT ![v] = IF @ = Absent THEN thread[t].rules ELSE @]
          /\ MarkNext(t)
       \/ End(t) /\ UNCHANGED row
    /\ UNCHANGED <<database, file, draft, tmp, served, raced, overtaken>>

\* mark_published reads the record, whatever it is now, and then writes it.
MarkPublished(t) ==
    /\ thread[t].pc = "mark"
    /\ Write(t, [draft EXCEPT !.status = "published"])
    /\ overtaken' = (overtaken \/ draft.config # thread[t].rules)
    /\ UNCHANGED <<database, file, row, draft, tmp, served, raced>>

\* A fault to test TypeOK with: the record names a status of its own.
FaultyEdited(c) == [status |-> "edited", config |-> c]

\* The record an edit of the draft writes.
Edited(c) == [draft EXCEPT !.config = c]

\* PUT of a draft, or confirm_mapping, which adds an alias to its configuration:
\* a published draft is refused. Only the schema_id has to stay.
EditDraft(t, c) ==
    /\ Idle(t) /\ draft.status = "draft"
    /\ Write(t, Edited(c))
    /\ UNCHANGED <<database, file, row, draft, tmp, served, raced, overtaken>>

\* DraftRegistry._write: the whole record, from the copy, to the one .tmp file.
SaveDraft(t) ==
    /\ thread[t].pc = "save_draft"
    /\ tmp' = thread[t].copy
    /\ thread' = [thread EXCEPT ![t] = [IdleThread EXCEPT !.pc = "rename"]]
    /\ UNCHANGED <<database, file, row, draft, served, raced, overtaken>>

\* The rename publishes what the .tmp file holds now, and fails if another
\* request has renamed it already.
RenameDraft(t) ==
    /\ thread[t].pc = "rename" /\ End(t)
    /\ IF tmp # NoDraft THEN draft' = tmp /\ tmp' = NoDraft
                        ELSE UNCHANGED <<draft, tmp>>
    /\ UNCHANGED <<database, file, row, served, raced, overtaken>>

\* A fault to test DatabaseServesOneContent with: the file is read although a
\* database is configured.
FaultyStored(v) == file[v]

\* _get_rule: the row if there is a database, the file otherwise.
Stored(v) == IF database THEN row[v] ELSE file[v]

\* A reader is given the version: get_schema, and every handler that submits a
\* job under it.
GetRule(v) ==
    /\ Stored(v) \in Contents
    /\ served' = [served EXCEPT ![v] = @ \cup {Stored(v)}]
    /\ UNCHANGED <<database, file, row, draft, tmp, thread, raced, overtaken>>

\* The API process dies and forgets its requests.
Restart ==
    /\ \E t \in Threads : ~Idle(t)
    /\ thread' = [t \in Threads |-> IdleThread]
    /\ UNCHANGED <<database, file, row, draft, tmp, served, raced, overtaken>>

Next ==
    \/ \E t \in Threads :
          \/ PublishDraft(t) \/ CheckFile(t) \/ TruncateFile(t) \/ FillFile(t)
          \/ SaveRow(t) \/ MarkPublished(t) \/ SaveDraft(t) \/ RenameDraft(t)
          \/ \E c \in Contents : PublishSchema(t, c)
          \/ \E c \in Contents \cup {Unfit} : EditDraft(t, c)
    \/ \E v \in Versions : GetRule(v)
    \/ Restart

Spec == Init /\ [][Next]_vars

-----------------------------------------------------------------------------
(* Properties.                                                              *)

TypeOK ==
    /\ database \in BOOLEAN /\ overtaken \in BOOLEAN
    /\ raced \in [Versions -> BOOLEAN]
    /\ file \in [Versions -> Contents \cup {Absent, Torn}]
    /\ row \in [Versions -> Contents \cup {Absent}]
    /\ draft \in DraftType
    /\ tmp \in DraftType \cup {NoDraft}
    /\ thread \in [Threads -> ThreadType]
    /\ served \in [Versions -> SUBSET Contents]

\* With a database, readers of a version are only ever given one document,
\* whatever the publishers do to the file.
DatabaseServesOneContent ==
    database => \A v \in Versions : Cardinality(served[v]) <= 1

\* Without one, the same holds as long as no two publishers have both found the
\* version's file missing.
FileServesOneContent ==
    ~database => \A v \in Versions : ~raced[v] => Cardinality(served[v]) <= 1

\* A published version stays what it is, in the file as in the row: the row
\* always, the file unless two publishers raced.
StoresAgree ==
    \A v \in Versions : ~raced[v] /\ row[v] # Absent => file[v] = row[v]

\* The document c is in the stores it is published to; the file may hold what
\* another publisher of its version wrote, if the two raced.
InStores(c) ==
    LET v == VersionOf[c] IN
    /\ file[v] # Absent
    /\ ~raced[v] => file[v] = c
    /\ database => row[v] = c

\* A draft is marked published only when a document is in the stores it was
\* published to; and it is the document that the draft holds, unless the draft
\* was edited between its validation and its marking.
PublishedDraftHasVersion ==
    draft.status = "published" =>
        \E c \in Contents : InStores(c) /\ (~overtaken => c = draft.config)

=============================================================================
