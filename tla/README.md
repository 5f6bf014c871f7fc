# excel-auditor: a TLA+ model

The program compares Excel workbooks with standard data, and normalises product
workbooks, as jobs: an HTTP API accepts a job, a worker runs it, and a retention
process removes it. All of them work on one data volume (a directory per job), one
database and one object store. Paths below are relative to `src/src/excel_auditor/`
unless they begin with `src/`.

1. [The system](#the-system)
2. [Modules and plan](#modules-and-plan)
3. [JobLifecycle](#joblifecycle)
4. [Admission](#admission)
5. [ProductReview](#productreview)
6. [RuleRegistry](#ruleregistry)
7. [ProductMapping and ProductNormalization](#productmapping-and-productnormalization)
8. [Comparison, Rendering and AuditPipeline](#comparison-rendering-and-auditpipeline)
9. [What the runs show](#what-the-runs-show)
10. [What is proved](#what-is-proved)
11. [What is not modelled](#what-is-not-modelled)

## The system

| Component | State | Operations | What makes it correct |
|---|---|---|---|
| Job lifecycle: `service.py` (`AuditService`) | per job a directory with `status.json`, `status.tmp`, `cancel.requested`, input and result files | `create_job`, `record_input_metadata`, `request_cancel`, `soft_delete`, `run`, `purge_expired` | a run ends in a settled status; settled jobs stay settled; a cancellation holds; retention takes no running job apart; nothing outlives a purged job |
| Admission: `service.py` (`create_or_get_job`, `_tenant_quota_lock`), `api.py` (`create_comparison`) | registry files `idempotency/<hash of tenant and key>.json`, lock directory `.locks/quota-<hash of tenant>.lock`, status files | submit with or without an idempotency key | at most the limit of active jobs per tenant; one job per key; a replay gets the job of the same request; a promised job is run |
| HTTP API: `api.py`, `startup.py`, `ids.py`, `security_config.py` | none of its own | handlers: submit, cancel, delete, status, reviews, revisions, rules, drafts, mappings | authorised before acting; what it answered has happened |
| Queue and worker: `queueing.py`, `worker.py` | RQ queue in Redis (external) | `enqueue`, `run_job`, `run_product_revision` | a job is taken at most once and not repeated after a crash |
| Database: `persistence.py` | rows for jobs, rules, mappings, product revisions and reviews | `create_job`, `update_job`, `purge_job`, `publish_rule`, `create_product_revision`, `decide_product_review` | rows agree with the files; one revision number each; a review decided once |
| Object store: `storage.py` | objects under `jobs/<job>/` | `put_file`, `delete`, `download_url` | every stored object is recorded in the job until it is purged |
| Product workflow: `product_workflow/service.py` | `product-workflow.json` (current revision, history, reviews), `.revision.lock` | `run`, `decide_review`, `rerun_after_reviews` | no decision is lost; one revision at a time; history is complete; decisions survive into the next revision |
| Product normalisation: `product_workflow/` (`normalizer`, `mapping`, `category`, `schema_builder`, `catalog`, `models`) | none | category assignment, column mapping, sheet building | every row lands on exactly one sheet or among the unresolved; confirmed decisions are respected |
| Rules: `rules.py`, `models.py`, `strict_serialization.py` | rule files, draft files | `publish`, `get`, drafts: `create`, `update`, `mark_published` | a published version never changes; what was validated is what is published |
| Comparison engine: `engine.py`, `normalization.py`, `record_store.py`, `partitioned_join.py`, `spill.py` | records of one comparison, in memory, SQLite or Parquet partitions | header mapping, key join, cell comparison, repair plan | keys are classified alike by every backend; duplicates never match; repairs touch only what a rule allows |
| Standard data: `standard_sources.py`, `standard_files.py`, `snapshots.py`, `dataset_adapter.py`, `pandera_adapter.py`, `validators.py`, `source_paths.py` | a frozen snapshot per job | paged fetch with retries and limits, file parsing, snapshot, validation | all pages and only these; limits hold; the snapshot is what was compared |
| Workbook inspection: `workbook.py` | none | package checks, sheet reading | limits hold before anything is parsed |
| Rendering and reports: `rendering.py`, `reporting.py`, `src/services/excel_renderer/Program.cs` | output files | marks, repairs, inserted columns, reports | original cells are changed only by planned repairs |
| Observability, release tools, web client, deployment | - | - | - |

How they interact. The API process calls `AuditService`, which writes the job
directory and, after each status write, the job's database row. A job is then put on
the queue (without Redis: a background task of the API process). The worker calls
`AuditService.run` or the product workflow; both write the same `status.json` as the
API's cancel and delete handlers. The retention process reads the same directories
and removes them. There is no lock on a job: processes meet in the files only.

What is hard. Every status change is a read, a whole-file write to one shared
temporary name, a rename, and a database update: four points where another process
may intervene. Locks are directories without an owner, removed by age. Crashes leave
directories, locks and empty registry files behind. Files and database are written
one after the other without a transaction. `PROJECT.json` lists these hazards at
their lines, with the properties that watch them.

## Modules and plan

| Module | Models | Extends | Theorems |
|---|---|---|---|
| `JobLifecycle` | the processes of one comparison job on its files, row and objects | - | `JobLifecycleProofs` |
| `JobPromise` | abstract: what a polling client sees of a job | - | in `JobLifecycleProofs` |
| `Admission` | quota lock and idempotency registry | - | `AdmissionProofs` |
| `ProductReview` | runs, reviews, decisions and revisions of one product job | - | `ProductReviewProofs` |
| `RuleRegistry` | publication of the versions of one rule, a draft of it | - | `RuleRegistryProofs` |
| `ProductMapping` | the algorithms of the product workflow as operators | - | `ProductMappingProofs` |
| `ProductNormalization` | a normalization, its review, the second normalization | `ProductMapping` | `ProductNormalizationProofs` |
| `Comparison` | the comparison engine as operators | - | in `AuditProofs` |
| `Rendering` | the two renderers as operators | `Comparison` | `RenderingProofs` |
| `AuditPipeline` | an audit from source to result, and the audit of the result | `Rendering` | `AuditProofs` |

Each `MC` module instantiates one of them for TLC.

`AuditProofs` extends `RenderingProofs`, and `ProductNormalizationProofs` extends
`ProductMappingProofs`: what is proved of the operators carries the invariants. The refinement of
`JobPromise` stands in `JobLifecycleProofs`, after what is proved of the files of a job.

What is left, in the order of importance: a proof of `AuditConverges`; datetime values and `date_order`; the limits of `process.extract` in `ProductMapping`.

JobLifecycle and Admission are separate: within JobLifecycle `create_job` is one
step, which is what the job directory (made with `exist_ok=False`) guarantees to the
rest of the life of the job, and within Admission a run is one step, `Settles`. Their
common state is the set of job directories and the coarse status.

## JobLifecycle

| State | Code |
|---|---|
| `file[j]`, `tmp[j]`, `marker[j]` | `status.json`, `status.tmp`, `cancel.requested` of job `j`; a status is its `status`, `cancel_requested`, whether `deleted_at` is set, and its `object_keys` |
| `row[j]` | the `status` column of the job row; `"none"` when there is no row |
| `objects[j]` | what the object store holds: the standard snapshot, and reports and workbooks as one element |
| `elapsed[j]` | which of `retention_until` and `purge_after` have passed |
| `wpc`, `wcopy`, `wgoal`, `wkeys` | the run: its place in `AuditService.run`, the status read last, the status it writes next, the keys it will record |
| `req[r]` | the request that API thread `r` serves and the status it read |
| `cpc`, `ctodo`, `cjob`, `ckeys` | the pass of `purge_expired` |
| `raced`, `early` | history, read by the properties only |

The actions follow the calls on shared state one by one. A submission: `SubmitCreates`
(`create_job`: directory and first status), `SubmitInserts` (the database row), then the
read, stage, rename and mirror of `record_input_metadata`, `SubmitEnqueues`. Cancel and
delete: `Authorizes`, `RequestReads` with its 409, `CancelMarks`, `RequestStages`,
`RequestReplaces`, `RequestMirrors`. The run: `WorkerChecks` (the four places of
`_check_cancelled`), `WorkerComputes`, `WorkerPutsSnapshot`, `WorkerSavesSnapshot`,
`WorkerReports`, `WorkerCollectsKeys`, `WorkerPutsArtifacts`, and for each of its status
writes `WorkerReads`, `WorkerStages`, `WorkerReplaces`, `WorkerMirrors`. Every stage may
raise (`WorkerStageRaises`); where an exception ends (`Raise`) depends on whether it
came from the body or from a handler. A worker may die at any step (`WorkerCrashes`); RQ
does not run the job again. The retention pass deletes objects, row, directory in that
order and may be interrupted at each (`PassAborts`).

The rename is what makes this model worth having: `_write_status` gives every writer the
same `status.tmp`, so `Publish` publishes whatever that file holds *then*, possibly the
payload of another process, and raises when there is no such file any more.

Assumptions. Reading and writing files in an existing job directory does not fail, and
filling `status.tmp` is one step (a rename in the middle of it is a listed hazard). The
job timeout, as an exception raised in the worker, hits in a stage and not in the
middle of a status write. `_remove_tree` is one step. Audit events are left out: nothing
reads them. Product workflow runs on the same files are not part of this model.

## Admission

| State | Code |
|---|---|
| `registry[k]` | the registry file of key `k`: absent, empty (made by `os.open`, not yet written), or a record of fingerprint and job |
| `holder`, `old` | the lock directory: who made it (history; the code does not know), and whether it is over 30 seconds old |
| `status[j]` | the job directory as the quota scan sees it: none, without a status file, active, terminal |
| `queued`, `used` | jobs given to the queue; identifiers `new_ulid` has given |
| `th[r]` | the submission that thread `r` serves |
| `thefts`, `readmitted`, `origin`, `promised` | history, read by the properties only |

`Receive` is a request; `OpensNew`, `OpensExisting` and `WritesRecord` are the registry;
`MakesLock`, `LooksAtAge`, `RemovesOldLock` and `ReleasesLock` are the steps of
`_tenant_quota_lock`; `Counts`, `MakesDirectory` and `WritesStatus` are the body of
`create_job`; `Enqueues` is the end of the handler, 202 or an error. `Dies` is a replica
that goes down with its lock left behind. `Settles`, `Readmits` and `Purges` stand for the
rest of the life of a job: the run, the last decided review of a product job (its new
status `review_resolved` counts as active), and retention, which removes the job
directory and leaves the registry file.

`Faults` selects what may go wrong: `"stall"` lets the lock of a live thread grow old,
`"death"` lets threads die, `"outage"` lets database, disk or queue refuse a call.
Assumptions: the scan of the quota count is one step; of the 200 attempts at the lock any
may be the last; one tenant (tenants share nothing here).

## ProductReview

| State | Code |
|---|---|
| `status`, `marker` | `status.json` and `cancel.requested` of the job |
| `flow` | `product-workflow.json`: the current revision and its reviews |
| `rows[n]`, `lastRow` | the review rows of revision `n` in the database, and its newest revision |
| `frozen[n]` | `product-result-rN.json`: whether it is there, and the categories whose schemas it holds |
| `lock` | `.revision.lock`: whether it is there and older than the timeout, and who made it (history; the code does not know) |
| `queue` | runs in the task queue, by kind |
| `run[w]`, `req[c]` | the run of worker `w` and the request of API thread `c`, each with the copies it took |
| `history` | what went wrong so far, read by the properties only |

`Dequeue` is `run_product_job` or `run_product_revision`; `ReadReviews`, `TakeLock`,
`DropStaleLock`, `RemakeLock` and `ReleaseLock` are `rerun_after_reviews`; `StartRun`,
`Inspect`, `Normalize`, `SaveRevision`, `RecordRevision`, `FreezeResult`, `Render`, `Upload` and
`PublishOutcome` are `ProductWorkflowService.run` in its order, with `CancelRun` at its
checkpoints. `FailRun` is its `except Exception`, which covers every step of the `try`: a write
of the revision, of the workflow file or of the frozen result may fail as well as the catalog, and
the database may refuse the last status after it is on disk. The first status write is before
the `try`: when it fails, a rerun goes through its `finally` and its safe wrapper (`FailStart`,
`ReleaseLock`, `RefuseRun`), and a first run is caught nowhere, as in `Crash`.

`OpenReview`, `DecideRow`, `WriteReviews` and `SettleReviews` are `decide_review`; `AskRevision`,
`MarkQueued`, `Enqueue` and `EnqueueFails` are `POST /revisions`. `request_cancel` is
`ReadForCancel`, `WriteMarker` and `WriteCancel`, and `soft_delete` is `ReadForDelete` and
`WriteDelete`: both write back the status they read. A worker may die at any step, and a request
may break off at any (`BreakOff`: the process dies, or a write raises what no handler catches).

The questions are abstract: one per row whose category is ambiguous, one per category
with a header to confirm. What a normalization asks (`AskedBy`) and which schemas it
fetches (`Needed`) depends on the decisions it applies; `ProductNormalization` models how.
A status write whose payload is read in the same expression is one step here, because
`JobLifecycle` already opens that window; payloads read earlier in a handler are kept in
`req` and written later.

## RuleRegistry

One schema of one tenant with its versions, and a draft. `file[v]` is the JSON file `rules.py`
writes for version `v`, `row[v]` the database row, `draft` and `tmp` the draft's file and the
`.tmp` file it is renamed from, and `thread[t]` the request of thread `t` with the rules and the
draft record it carries. `PublishSchema` and `PublishDraft` begin a publication; `CheckFile`,
`TruncateFile` and `FillFile` are `RuleRegistry.publish` (the test, and the two halves of
`write_text`); `SaveRow` is `publish_rule` of the database; `MarkPublished` reads the draft again;
`SaveDraft` and `RenameDraft` write the whole record, through the one `.tmp` file of the draft:
two writers may meet there, and one publish what the other wrote. `EditDraft` is an update or a
confirmed mapping. An update checks the `schema_id` only, so it may give the draft another
version, or a configuration that is no rule document (`Unfit`); `VersionOf` says which
`schema_version` a document names. `GetRule` is any reader, `Restart` the death of the API process.
`served`, `raced` and `overtaken` are history.

## ProductMapping and ProductNormalization

`ProductMapping` has one operator for each pure function: `ResolveCategory` (category.py),
`MapHeaders` (mapping.py), `Plan` (the columns `build_dynamic_schema` gives a sheet), `CellError`
and `SkuCombinations` (normalizer.py). Headers are members of a small set and `Token` is
what normalisation makes of them, so that headers that differ as cells and agree as
tokens occur; `Score` is a table in place of rapidfuzz.

`ProductNormalization` puts them together. `ResolveRows` or `RefuseWorkbook`, `FetchSchemas` or
`FetchFails`, `NormalizeCategory` for one category after another and `CheckQuality` are
`normalize_product_workbook`; `CopyWorkbook`, `RenderCategory` for one category after another and
`RenderLists` are the renderer's choice of sheets and their names; `Decide` is each answer
`_validate_review_decision` allows, `Rerun` hands them to a second round, whose catalogue is the
frozen one. `Overrides`, `ForcedExtra` and `Confirmed` are what `rerun_after_reviews` makes of
the answers. `MappingRefused` is the mapping's exception for two headers that read the same
and were given two fields.

A worksheet name is a sequence of parts, and `Casefold` folds a part. A category's sheet, and the
metadata sheet `__ExcelAuditorMetadata`, take the place of a sheet of exactly their name
(`RoomFor`: product_workflow/service.py:491 and 548); SKU sheets and lists get a name that is not
in use in any case (`UniqueName`); and openpyxl numbers a name that a sheet has in another
case (`Created`). A workbook of the instance is the result of an earlier job, with a metadata sheet
of its own. The renderer looks for the metadata sheet by its exact name after it has saved, and
fails where openpyxl had to number it.

`RevisionIsComputable` of this module and the finding `product_rounds` are about different
things: here the second round has the answers of the first, and can always be computed;
there a third round has lost them.

## Comparison, Rendering and AuditPipeline

`Comparison` is the engine as operators. `LocateHeaderRow` and `MapHeaders` find the columns;
`RowClass`, `ExcelKey` and `StandardKey` classify rows and records; `Collide`, `JoinKeys` and `Lookup`
are where the record maps and join backends differ; `MatchedCell`, `InsertedCell`, `ExtraCell`,
`MissingRecords` and `CheckedCell` say what is noted and repaired. A finding is a set of notes
(`Difference`, by kind and place) and a set of repairs (the repair plan). A key is
of one kind (the values of the key fields, a row number, or the number of a row without a
key) and has two faces: the numbers it stands for, by which Python compares `Decimal`s, and
the text it is spelled with, which is `stable_key`. Missing records are appended in the order
of their keys (`Place`), each at the row that those appended before it leave (`AppendRow`). That is
the order of `str(key)` in the Python join (engine.py:430-432) and of the JSON text of
`stable_key` in the join by Polars (partitioned_join.py:38, 45): `KeyOrder` has both.

`Rendering` has the development renderer (which finds the columns in the sheet it is writing)
and the manifest with the OpenXML renderer's phases: `set_cell` operations at the columns the
sheet came with, insertions from right to left (`InOrder`, `LastInserted`), the cells of inserted
columns, the appended records. Operations of one phase write different cells (`PlansWriteOnce`), so
a phase is one step (`WriteCells`). `CellValue` and `Stored` are the manifest's conversions: a renamed header is
written as text, whatever it spells. Only values are modelled.

`AuditPipeline` runs them. `Inspect`, with the row limit counted from where the data starts
(`TooManyRows`); `ReadPage`, `RequestFails` and `ServerChanges` (the paged
fetch, one step per request, with a source that may change at any moment); `Canonicalize`,
`Validate`; `CompareSheet` or `NoSheetToCompare`; `LeaveToReview`, `ReportOnly` or `Render`.
`AuditResult` uploads the rendered workbook again with the same records.

One cell type stands for all: a cell is blank, a formula, a number in one of its
spellings, or something that does not parse. A case fixes rule, sheet, source and
storage mode; `AllowedRule` keeps out the rules that publication refuses.

## What the runs show

| Run | Instance | Distinct states | Shows |
|---|---|---|---|
| `job_lifecycle` | 1 job, 1 submitting thread, 1 client thread that cancels and deletes again and again | 622,615 | the safety properties of JobLifecycle, and that it implements `JobPromise` |
| `job_liveness` | the same with deletions only, `FairSpec` | 38,778 | a job taken by the queue and not hit by a crash is purged in the end |
| `job_cancel_race` | the same with cancellations only | - | **violation** of `RunSettlesJob` |
| `admission` | 3 threads, 3 jobs, 1 key, 2 bodies, limit 1, all faults | 896,995 | the safety properties of Admission |
| `admission_quota` | 3 threads, no key, deaths only | - | **violation** of `QuotaHolds` |
| `admission_replay` | 2 threads, 1 key, no fault at all | - | **violation** of `PromisedJobsRun` |
| `product_review` | 2 workers, 2 clients, 1 ambiguous row, 2 categories of which one asks about a header, 2 revisions, one disturbance per behaviour | 1,200,605 | the safety properties of ProductReview |
| `product_liveness` | 1 worker, 1 client, any disturbances | 441,308 | a queued revision is served unless a process dies or a cancellation writes the old status back |
| `product_rounds` | the same | - | **violation** of `FrozenCatalogSuffices` |
| `rules` | 2 threads, 2 documents of one version and 1 of another | 3,752,789 | the properties of RuleRegistry |
| `product_normalization` | 3 catalogues, 8 header rows, 72 lists of two rows, 3 workbooks | 139,800 | the properties of ProductNormalization |
| `audit_pipeline` | 8 families of rules, sheets and sources | 62,420 | the properties of the audit |

`CHECK_DEADLOCK FALSE` is everywhere: jobs end, and so do the models once the requests
and jobs of the instance are used up.

### Bounds

In JobLifecycle jobs share nothing but the retention pass, so one job shows all
orders of the processes of a job; the theorems cover any number of them. One client
thread serves any number of requests one after the other, so it meets the run and the
pass at every step; what two clients do to each other at the same time is outside this
instance. In Admission three threads are the least for the steal race (a dead holder and
two waiters) and for a theft with a third thread waiting; three jobs let a second and a
third request meet a limit of one; one key with two bodies gives equal and unequal
replays. `Jobs` bounds the number of submissions; it is the only bound of the model.

In ProductReview two workers meet at the lock and two clients at one review; the ambiguous
row and the asking category give a first round about categories and a second about fields.
`MaxRevision` and `MaxQueued` are bounds in the guards: the second revision is the first that
is a rerun, which is all the properties of `product_review` speak of. `OneDisturbance` lets one
of crash, cancellation, deletion, stolen lock, lost decision, status written back by `POST
/revisions`, early or reopening decision happen in a behaviour, a cancellation or a deletion with
the old status it writes back: the properties are about each of them, not about their
combinations, and the job is cancelled once. Failed runs are not bounded.
`product_liveness` has no such constraint.

In RuleRegistry two threads are the publishers that race, or a publisher and an editor; two
documents of one version are the least that can disagree, and the third lets a draft change its
version. The theorems cover any number of them.

In ProductNormalization two rows meet in one sheet or in two, repeat a key or do not; the
catalogues hold a name of two categories, an inactive category, a category without schema,
fields with names alike, and a category whose sheet is named as another's SKU sheet; the
workbooks hold one sheet, an earlier result, or a metadata sheet renamed to another case; the
header rows hold headers that are one token, are equal, or resemble two fields. Every answer
the service accepts to every item is taken.

In AuditPipeline every family varies one part and the options that interact with it: keys
(double, blank, unparsable, formulas, two spellings) under every storage mode and empty-key
policy; cells of one row under every repair option; headers with inserted, renamed, ambiguous
and repeated columns; repairs that a second audit looks at; rows known by number; the search of the
header; validation, thresholds and large sheets; pages and retries. Families are not crossed.
`MaxRows` is the code's own limit, set small.

### Properties that hold

Jobs:

* `RetentionSparesRuns`: retention looks at the status only. That a status becomes
  terminal no earlier than the last write of its run is what keeps the files of a run
  in place.
* `RowGoesBeforeTree`: whatever interrupts a pass, no row is left without its directory
  (`update_job` never creates a row, so a late mirror cannot bring it back).
* `RunSettlesUnlessRaced`: a run that is over left a terminal status, and one that
  returned left the same in the row, if no request was between its read and its end
  while the run published.
* `CancelIsHonoured`: once the marker is there before the run decides on its outcome, no
  result is ever recorded, although the flag in `status.json` may be overwritten.
* `NoOrphanObjects`: all objects of a completed job are gone with its directory.
* `KeepsPromise`: a client that polls sees a path through `JobPromise`, outside races.
  A completed job may still turn into a failed one, when the database refuses the row.
* `EventuallyPurged`.
* `QuotaBounded`: the active jobs created by requests exceed the limit by no more than the
  number of locks that were removed under a live thread.
* `OneJobPerKey`, `AnswersTheSameRequest`: the registry survives every order of requests,
  deaths and purges.

Product reviews:

* `OneRunAtATime`: the lock keeps two reruns apart; what it does not stop is a review decided
  before the run that asked it has ended, and a lock taken from a live run as stale.
* `DecidedOnce`, `AppliedDecisionsWereRecorded`: with a database a lost update of
  `product-workflow.json` loses no decision that a revision applies: it leaves a question
  pending, and the revision is then refused.
* `CurrentRevisionIsFrozen`: reviewers decide on a revision that can be rerun from. What
  `status.json` announces always has its frozen result. What the workflow file holds may lack it
  when the write of the result failed (`unfrozen`); the job says then that it failed, unless it
  was disturbed afterwards.
* `CancelledRunMakesNoRevision`: although the run writes `validating` first.
* `StatusMatchesReviews`: when all is quiet the status says what the reviews say. Its
  condition names the disturbances after which it fails (`Disturbances`): a decision while a run
  is inside, a stolen lock, a lost decision, a status written back over a newer one by `POST
  /revisions`, by a cancellation or by a deletion (`stale`, `revived`), a crash, and a decision
  about a job that had ended. A cancellation that read `revision_queued` and writes it back after
  the run leaves the job in it for good: the lost update of `job_cancel_race`, in a product job.
* `RevisionIsServed`, with the same exemption for that cancellation.

Rules:

* `DatabaseServesOneContent`, `FileServesOneContent`, `StoresAgree`: with a database a version is a
  write-once register; its file is one too unless two publishers find it missing together.
* `PublishedDraftHasVersion`: a draft is marked published only when a document is in the stores
  of its version. It is the draft's own document unless an update came between the validation of
  the draft and `mark_published`, which reads the draft again (`overtaken`): the update may change
  the rules or the `schema_version`, and then the published draft names a version that no store
  holds, or that holds other rules.

Normalization:

* `ColumnsAreKept`, `NothingIsGuessed`, `QuietResultIsCertain`: every cell reaches a sheet, and nothing a
  reviewer should see passes without one.
* `AnswersAreHonoured`, `AnswersStayInTheirCategory`, `RevisionIsComputable`. Confirmed mappings are
  kept by header, so of two answers about equal headers of one category the later stands for
  both (`Overwritten`); that case is excepted by name.
* `SheetsAreKept`: a sheet of the merchant is lost only if it has exactly the name of a category's
  sheet or of the metadata sheet, as the one of an earlier result has; a sheet whose name differs
  in case stays. The metadata sheet is there. Category sheets, SKU sheets and lists are there
  unless names meet (`NamesMeet`): a category named as the metadata sheet, or as what the SKU sheet
  of another category may be called, numbered or not.

Audit:

* `RowsAreAccountedFor`: every row is extra, noted by its key, or compared with one record; every
  record with a key is compared or missing.
* `RepairsAreAuthorised`: what a render changes is what the rule lets it change, and it appends no
  key that is on the sheet.
* `AuditConverges`: a rendered result needs no repair when it is audited again. `LateRepairs` names
  the exceptions, all of them in the code: a default is written over the blank that an
  overwrite or an appended record leaves, inserted columns get defaults only the second time, and rows
  known by number are appended in the text order of their numbers (10 before 9).
* `BackendsAgree`: memory or disk, Python sets or Polars, the same is noted and repaired, with two
  exceptions. Unless a number is spelled in two ways (`OneSpelling`): `Decimal("1.0")` and
  `Decimal("1")` are one key in memory, and two where keys are texts; a matched key may then not
  be found in the disk map. And the joins sort the missing keys by different texts: integer keys
  1 and 10, or the texts `A` and `A#1`, sort one way as `str` and the other as JSON, so the same
  records are appended in different rows. Where the row matters (rows known by number, formulas
  from a template: `RowsMatter`) that may also change which records can be appended. With one
  order for these keys (`SameOrder`) the findings are identical.
* `RenderersAgree`: the development renderer and the manifest write the same values into a sheet
  whose headers, without the blanks around them, are the titles, names and aliases of the rule for
  the mapped columns and for no others (`PlainSheet`). With other headers they do not, since one
  looks headers up by stripped text and the other uses the mapping of normalized ones; nor where a
  record has a value for a column with a template, which only the manifest ignores.
* `SnapshotIsComplete`: pages add up to the source if it did not change meanwhile.

### Findings

* `job_cancel_race`. `request_cancel` writes back the status it read before it dropped the
  marker (service.py:110). When the run meets the marker and writes `cancelled` in
  between, the job returns to `queued` and no process ever changes it again; retention
  does not take it, and it counts against the quota.
* `admission_quota`. `_tenant_quota_lock` removes the lock it found old by name
  (service.py:535). After one replica died with the lock, two waiters remove it one after
  the other, the second removing the fresh lock of the first, and both are admitted.
* `admission_replay`. Two requests with one key at the same time, nothing failing: the
  replay finds the record but no directory, makes the directory itself and answers 200
  without giving the job to the queue (service.py:94, api.py:410); the original then fails
  at its own `mkdir` and answers 409.
* `product_rounds`. A rerun takes its decisions from the current revision alone
  (product_workflow/service.py:321). After a round about categories and a round about the fields
  of the chosen one, the next rerun no longer knows the category: the row is open again, the
  schemas of all its candidates are needed, and the frozen catalogue holds only the chosen
  one's. The job fails with a `KeyError`, nothing else having gone wrong.

### Fairness

`FairSpec` of JobLifecycle: the threads of the API, the worker and the retention process are
processes the operating system runs: weak fairness of each of their steps. The store
and the database may interrupt a pass any number of times but not always at the same
point: strong fairness of the pass's steps. Clock deadlines come: weak fairness of
`ClockStep`. Nothing is assumed of clients, of crashes or of the queue taking a job. The
liveness run leaves cancellations out, because of the race above.

`Spec` of ProductReview: weak fairness of a worker's and of a serving thread's steps, taking the
next job from the queue included (RQ workers loop). Nothing is assumed of reviewers, crashes or
the ageing of the lock. The other modules state safety only.

## What is proved

TLAPS checks the following for every finite set of jobs, threads and keys, every limit
and every set of faults, from the `ASSUME`s of the modules.

`JobLifecycleProofs`

* `TypeCorrect`: `Spec => []TypeOK`.
* `RetentionSafe` and `RowBeforeTree`, from `RetentionInvariant`. `RetentionSparesRuns` is not
  inductive: a terminal status travels through `status.tmp`, the worker's goal and the
  copies of requests before it is in `status.json`. `RetentionInv` says that whoever
  holds one, the run has come to its final write (`SettlingIsLast`); that a job is
  submitted by one thread, so that its row is made once (`SubmitsOnce`); and that the row
  stays away between its purge and the removal of the directory (`PurgedRow`). Frame
  lemmas say which steps leave which part alone; each remaining action has its step.
* `CancelHonoured`, from `CancelInv`: a run that was told to stop before it decided on its
  outcome is at a place from which it can only find the marker or fail, and nobody holds a
  result of its job: not `status.json`, not `status.tmp`, and no copy a request has read and
  may still write back.
* `RunSettles` and `NoOrphans`, from `AloneInv`. Call a job alone as long as no two writers
  have met over its status. Its file then shows how far the run has come, the copy of a
  pending request agrees with the file in status and keys, the row agrees once the run has
  ended, and the purge holds the keys of whatever is still stored. `RealInv` says that
  writers write statuses of jobs that are there.
* `PromiseKept`: `Spec => KeepsPromise`, the refinement of `JobPromise`. The initial status is
  the abstract one's; of every action it is shown what it does to the published status
  (`WorkerKeepsPromise`, `RequestKeepsPromise`, `SubmitKeepsPromise`, `PurgeKeepsPromise`), and
  `MoveIsPromised` that this is a step of `JobPromise` or a stutter.

`AdmissionProofs`

* `AdmissionTypeCorrect`: `TypeOK` is inductive with the fact that only a thread with a key
  looks into the registry (`KeyedInv`).
* `KeyHasOneJob` and `SameRequestAnswered`, from `RegistryInvariant`: an empty registry file
  belongs to one thread, which is the one to write the record; records never change; the
  thread that made a job directory is the only one to write its first status; a directory
  made for a key is that of the record.
* `QuotaIsBounded`, from `QuotaInv`. Call a thread in the critical section whose lock is gone a
  stray. There are at most as many strays as thefts, since only the removal of another's
  lock makes one; and places taken plus places spoken for stay within the limit plus the
  thefts, since a thread that counts is either the holder, or a stray itself.

`RuleRegistryProofs`, for any threads, versions and documents, from `ContentsAssumption` (there is a
document, and the model's words for a missing file are none) and `VersionsAssumption` (each names its version)

* `RulesTypeCorrect`.
* `DatabaseIsWriteOnce`, from `ServedInv`: readers were given what the row holds, and nothing before
  there was one; the transaction writes a row that is missing and no other.
* `FileAgreesWithRow` and `FileIsWriteOnce`, from `FileInv`: while nobody raced over a version, one thread
  at most is making its file; nothing is behind the file as long as it is missing or torn, since a
  row, or a thread on its way to it, comes after the file (`StoredInv`); and a thread on its way to
  the row carries what the file holds.
* `PublishedDraftIsServed`, from `BackedInv`: every record that says published, in the draft's file, in its
  `.tmp` file or carried by a thread, has a document behind it in the stores of its version, its
  own one if nothing has overtaken it; and no step takes one away (`StoresStay`, from `FileInv`).

`ProductReviewProofs`, for any workers, clients, rows, categories and revisions

* `ReviewTypeCorrect`, from `TypeInv`: types are inductive only together with what a run and a
  request carry (`RunInv`, `SoundInv`): an answer is one that was offered.
* `CancelStopsRuns`; `DecisionsAreRecorded` and the action property `DecisionsAreFinal`, from
  `BehindInv`: every copy of the workflow file, on disk or in a request, is behind the rows of
  its revision, i.e. where it has a decision the rows have the same. A lost update therefore
  only reopens questions, and a run with all questions answered has the recorded answers.
* `FrozenBeforeRerun`, from three invariants. `AnnouncedInv`: a status on disk, in a run or carried by a
  request names a revision whose result is frozen. `BackedInv`: so is the revision in the workflow
  file, unless the run that will freeze it is on its way, a process died, or a run failed in between
  (`unfrozen`). `UnfrozenInv`: after that the job has failed, and stays so as long as nobody
  disturbs it.
* `RunsAreAlone`, from `FirstRunInv` (before the first run has ended nobody has anything to
  decide or to rerun) and `LockInv` (the holder of the lock is the one run inside).
* `StatusTellsTheReviews`, from `PhaseInv`: an undisturbed job is in one of four phases (a run is
  pending, the last decision is being settled, a revision is being asked for, quiet), and
  each says what status, workflow file and queue have to do with each other. A request that carries
  a status carries the one on disk, as long as none was written back over another.

`NamesAssumption` keeps the model's own words for a decision (`"none"`, `"pending"`, ...) apart
from category identifiers, and `WorkersAssumption` the word for no owner from workers; both
concern how the model writes things down.

`ProductMappingProofs`, lemmas about the operators for any catalogue, headers and scores:
`ResolvedIsNamed`, `AcceptedOnce`, `EachColumnOnce`, `SomeoneIsSuggested`, `ClaimedIsTaken`. The
numbering of kept columns is a recursive function; `LeastNatural` (a non-empty set of
naturals has a least element) takes the place of an induction theorem.

`ProductNormalizationProofs`, for any inputs

* `NormalizationInvariant`: `StageInv` (what each stage has), `ResultInv` (resolution, schemas and
  plans are functions of the inputs and the answers), `AnswersInv` (each answer is one that was
  offered to a question the first round asked), `FirstInv` (what the second round was given is
  the first round's) and `OutcomeInv`. The lemmas `Same...` say that all these depend on the
  few variables the other steps leave alone.
* From it `NormalizationTypeCorrect`, `ColumnsKept`, `NothingGuessed`, `QuietIsCertain`,
  `AnswersHonoured`, `AnswersStay` and `RevisionComputable`, with the lemmas on the operators.
* `SheetsKept`, from `NamesInv` (no two category sheets have one name) and `BookInv` (what was
  written into the workbook is still there). `UniqueNameIsFree`: of one more names than are
  used, and all of them different (`NumberedNames`), one is free; sheets only make room for a
  category sheet or the metadata sheet of exactly their name, and then that name is a category's,
  or names meet.

Its assumptions: the limits are numbers (`LimitsAssumption`); headers are a list, templates
and catalogues are finite and no category has a blank identifier, which `CategoryDefinition`
refuses (`InputsAssumption`); worksheet names are sequences (`NamesAssumption`); identifiers have an order and similarity scores are between 0
and 100, as rapidfuzz gives them (`ScoresAssumption`).

`AuditProofs`, for any cases: any rule, worksheet, source and mode

* `SnapshotComplete`, from `PagingInv`: as long as the source has not changed, what was fetched is
  the source up to the place the next request starts at.
* `RowsAccountedFor`, from `StandardInv` (the records that are compared are valid) and
  `FindingInv` (a finding is what the comparison makes of the worksheet and these
  records). The argument is about keys: no two records that reach the comparison have
  one key (`StandardKeysDiffer`), a row is joined with one record and a record with one
  row (`OneRecordOfRow`, `OneRowOfRecord`), and what a lookup finds is what was joined
  (`LookupIsJoined`). `NotesAccounted` says that none of the other notes looks like one
  that answers for a row or a record.
* `StoresAndJoinsAgree`: with `OneSpelling`, equal texts and equal numbers are the same
  relation (`StableIsSame`), so that no record is dropped and no key is lost
  (`NoRecordDropped`, `NoKeyLost`), and both modes note the same of rows and records
  (`FindingInParts`, `FoundAlike`). What a record appended in one row and in another row have in
  common is `RowTellsLittle`; collected over all missing records, `AlikeTogether`. Where the order
  is the same, so are the rows (`SameOrderSameFinding`).
* `PlannedRepairsAuthorised`: `PlanIsAuthorised`, what a finding may plan (`Authorised`): a header
  renamed, a cell the rule lets be written, a cell of a column to insert, a format, or a record
  with a key no row has.
* `AuditTypes`, from `RowsInv`: the worksheet is a rectangle (`SheetInv`), also when it comes out
  of a render; records are the source's and no more than the limit (`FetchedInv`, which needs
  `PagingInv`); and while a plan has repairs, it is what the comparison of this worksheet with
  these records found (`PlanInv`), so that its repairs are on the worksheet or right below it
  (`RepairsArePlaced`).
* `RepairsAuthorised`: `RepairsAreAuthorised`, of the rendered worksheet, from `RowsInv` and
  `PlanIsAuthorised`. A cell keeps its value or may change (`CellsAreKept`): only the first phase
  writes where the worksheet had cells, since a column that is inserted ends up in a place no
  other column has. The header keeps its fields (`HeaderIsKept`, `ColumnsAreKept`), so the key of
  an appended row is read where it was written (`RenderedScope`). Two records never share a row
  (`OneRecordOfAppendedRow`), so all of the key is one record's (`KeyIsOfOneRecord`), it reads as
  that record's key (`KeyIsReadBack`), and no row had that (`AppendedKeyIsNew`).
* `PlansWriteOnce`: `PlanWritesOnce`, no two repairs of a plan write one cell, one field of a row or
  one new row. Every repair has one origin (`RepairsHaveOrigin`): a header, a field of a row, a
  format or a missing record; a row is extra or joined with one record, so that a field of it has
  one finding (`OneFindingOfCell`), which plans one repair at most, and fields have columns of their
  own (`ComparedOnce`).
* `RenderersAgreed`: `RenderersAgree`, from `PlanIsAuthorised` and `PlanWritesOnce`. Stripped, the
  header row reads as the mapping's columns once aliases are renamed (`HeadersRead`), so the
  development renderer inserts where the manifest does, and then as the columns the manifest
  computes (`WidenedRead`, `ReadPositions`). A field that is written has a column, since an
  ambiguous header would have left the work to people (`FieldsGetColumns`, `AmbiguousIsReviewed`).
  The phases then are the same with the values as they are in one and as they are stored in the
  other, and keep grids alike that were (`DevelopmentPhases`, `PhasesAgree`), which needs that no
  cell has two writers: with two, each renderer could keep another one's value.

`RenderingProofs`, lemmas about the renderer's operators for any worksheet, rule and plan

* `ManifestPhases`: a manifest is the worksheet with cells overwritten, columns inserted, and cells
  overwritten twice more; `RenderedIsRectangle`.
* `ColumnsInserted` and `ColumnsMoved`: a fold over the insertions moves the cells (`Widened`) and
  the fields (`Moved`) by the number of insertions up to their column. `ScopeIsLaidOut`: every
  column ends up in one of its own, and every column of the result is one of these (`Layout`,
  `Apart`).
* `RowsAreTaken` and `RowsAreApart`: the recursive function that gives appended records their rows
  gives no row twice.
* `ColumnsAreKept`: a header in which every field keeps or is given a header of its own is read
  back as the same columns.
* The folds of the community modules and recursive functions are in reach because each is a
  function on the subsets of one finite set: `SubsetsByOne` and `NumbersByOne`, from the well-founded orders of the
  library, take the place of the induction theorems, and `IterationExists` shows that what the
  fold's CHOOSE names exists.

The assumptions of both: sources serve lists, keys of their records have a place in the order they
sort in, pages have a size and a limit, worksheets are rows of one width, columns of a rule are a
list, the empty-key action is one of the three the rule type has (`CasesAssumption`); blanks,
numbers and formulas are different cells, and the number a cell stands for is written as itself
(`CellsAssumption`). The rules are those publication allows (`AllowedRule`): among other things, no
title of a field is blank once it is normalized (models.py:249-267), so that a blank header is
nobody's. The header of the rendered worksheet is taken in the row it was in; that
`LocateHeaderRow` finds it there again is part of what the second audit of a run shows.

All these invariants were checked with TLC on the instances above before they were proved.

Only model-checked:

* liveness (`EventuallyPurged`, `RevisionIsServed`), which is beyond the prover;
* `AuditConverges`: it speaks of a second comparison, of the rendered worksheet with the same
  records. Its theorem would need, on top of `RenderedScope`, what each kind of row becomes when it
  is compared again.

## What is not modelled

Within the modelled parts:

* Jobs: a `status.tmp` that is renamed while it is being filled (a listed hazard; the model writes
  it in one step), audit events, artifact downloads.
* API: listings, downloads, authentication, metrics, request validation and staging of uploads.
* Product workflow: value parsing is a table of the instance; the numbers of names `process.extract`
  considers (12 categories, 9 fields) are above the instance's; styles, data validations with the
  very hidden sheet `__ExcelAuditorLists` that holds their values, and the OpenXML product renderer;
  a second error while a failed run writes its failed status.
* Rules: JSON reading (`strict_serialization.py`) and the parts of rule validation the engine does
  not rely on.
* Engine: field types are one parse table, so dates, time zones and the write safety of dates are
  left out, and so is the `date_order` rule; aggregated counters; `normalize_header` and the parsers are
  tables; the two text orders of keys, as `str` and as JSON, are given by the instance (`KeyOrder`). Duplicates among the
  standard records stop in validation, except keys spelled in two ways.
* Source: file formats, address checks, credentials, the hash of the snapshot.
* `spill.py`: `SpillableSequence` keeps its order by construction; the model has its threshold only.
* Rendering: colours, comments, styles, tables, the shifting of references in formulas, the reports.
* Inspection: reading the OpenXML package, its size and package limits.

Not at all: `source_paths.py`, `security_config.py`, observability, the performance gate, release
manifest and acceptance tools, the web client, deployment and database migrations. They keep no
state the other parts depend on, or are one pass over their input.
