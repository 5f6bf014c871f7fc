----------------------------- MODULE AuditPipeline ----------------------------
(***************************************************************************)
(* One audit from the workbook and the standard source to the rendered     *)
(* result (AuditService._run, ManagedHttpSource, standard_files.py,        *)
(* pandera_adapter.py), and the audit of that result after it.  A case     *)
(* fixes the rule, the worksheet and the source; the answers of the source *)
(* and the moment its data change are open.                                *)
(***************************************************************************)
EXTENDS Rendering

CONSTANTS
    Cases,     \* sets of [rule, sheet, source, mode, threshold], by what they are about
    MaxRows    \* workbook.max_rows_per_sheet

VARIABLES
    case,      \* the case being audited
    sheet,     \* the worksheet of the workbook being audited
    stage,     \* what the run does next, or how it ended
    round,     \* 1, or 2 when the rendered result is audited
    served,    \* the records the source serves at the moment
    page,      \* the page asked for next
    attempt,   \* the requests for it that failed
    steady,    \* the source has not changed since the first page was read
    fetched,   \* the records read so far, then the standard records
    finding    \* what the comparison noted and repairs

vars == <<case, sheet, stage, round, served, page, attempt, steady, fetched, finding>>

Final == {"failed", "manual_review", "report_only", "completed"}
Stages == {"inspect", "fetch", "canonicalize", "validate", "compare", "settle"} \cup Final

TypeOK ==
    /\ stage \in Stages /\ round \in 1 .. 2
    /\ served \in {case.source.records, case.source.later}
    /\ page \in 1 .. case.source.maxPages /\ attempt \in 0 .. 2 /\ steady \in BOOLEAN
    /\ stage \in {"compare", "settle", "completed"} => DOMAIN fetched = 1 .. Len(fetched)
    /\ \A o \in finding.repairs :
          IF o.type = "append_record" THEN o.row \in Len(sheet.grid) + 1 .. Len(sheet.grid) + Len(fetched)
          ELSE /\ o.type \in {"set_cell", "set_field", "set_number_format"}
               /\ o.row \in DOMAIN sheet.grid

-----------------------------------------------------------------------------
(* The workbook.                                                            *)

\* The header row the inspection reads: the first of several as good, and the configured
\* one when it finds none.
InspectedRow(rule, grid) ==
    LET best == BestHeaders(rule, grid)
    IN  IF rule.autoDetect /\ best # {} THEN Min(best) ELSE rule.headerRow

InspectedHeader(rule, grid) ==
    LET row == InspectedRow(rule, grid)
    IN  IF row \in DOMAIN grid THEN grid[row] ELSE [c \in DOMAIN grid[1] |-> None]

\* Rows are counted from where the data starts, and also, while the header is searched
\* for, from below the rows it is searched in.
TooManyRows(rule, grid) ==
    LET starts == IF rule.startRow # 0 THEN {rule.startRow}
                  ELSE {InspectedRow(rule, grid) + 1} \cup {n \in {ScanRows + 1} : rule.autoDetect}
    IN  \E start \in starts : Len(grid) > MaxRows + start - 1

\* The formulas that nothing can be said of without computing them.
UnsupportedFormula(rule, header, cell) ==
    LET owners == Owners(rule, Normal(header))
    IN  /\ cell \in Formulas
        /\ owners = {} \/ \E f \in owners : \/ f.formula = "reject"
                                            \/ f.formula = "cached" /\ Cached(cell) = None

\* A workbook too large to load is not asked which rows it hides.
WorkbookNeedsReview(rule, workbook) ==
    LET grid    == workbook.grid
        headers == InspectedHeader(rule, grid)
    IN  \/ workbook.large /\ ~rule.includeHidden
        \/ \E r \in DOMAIN grid : \E c \in DOMAIN grid[r] : UnsupportedFormula(rule, headers[c], grid[r][c])

\* The scope of the case, once its header is found before its data.
HasScope(rule, workbook) ==
    LET header == LocateHeaderRow(rule, workbook.grid)
    IN  /\ workbook.copies = 1 /\ header # 0
        /\ rule.startRow # 0 => rule.startRow > header
ScopeOf(rule, workbook) == Scope(rule, workbook, LocateHeaderRow(rule, workbook.grid))

-----------------------------------------------------------------------------
(* The standard records.                                                    *)

\* The source's names for a field that a record has.
RawNames(record, f) == {n \in DOMAIN record : \E t \in Titles(f) : Normal(n) = Normal(t)}

\* canonicalize_standard_row, which refuses two names that disagree.
Conflicting(rule, record) ==
    \E f \in Fields(rule) : \E m, n \in RawNames(record, f) : Parse(record[m], f) # Parse(record[n], f)

CanonicalRow(rule, record) ==
    LET present == {f \in Fields(rule) : RawNames(record, f) # {}}
        row     == IF rule.keyMode = "row_number" THEN {"row"} \cap DOMAIN record ELSE {}
    IN  [n \in {f.name : f \in present} \cup row |->
            IF n \in row THEN record[n] ELSE record[CHOOSE m \in RawNames(record, FieldNamed(rule, n)) : TRUE]]

\* _skip_empty_primary_key_row
SkippedRecord(rule, record) ==
    rule.keyMode = "fields" /\ rule.emptyKey = "skip_row" /\ ~HasKey(rule, record)

\* _validate_typed_values, for one field of one record.
TypedValue(rule, record, f) ==
    LET parsed   == Parse(Get(record, f.name), f)
        fallback == rule.keyMode = "fields" /\ rule.emptyKey = "use_row_number" /\ f.name \in rule.key
    IN  /\ parsed.valid
        /\ \/ parsed.value \in Formulas
           \/ Acceptable(parsed.value, f)
           \/ parsed.value = None /\ fallback

\* _validate_primary_key: keys are equal when the numbers are.
KeysValid(rule, std) ==
    /\ rule.keyMode = "row_number" => \A i \in DOMAIN std : "row" \in DOMAIN std[i]
    /\ rule.keyMode = "fields" /\ rule.emptyKey = "report_invalid" =>
          \A i \in DOMAIN std : HasKey(rule, std[i])
    /\ \A i, j \in DOMAIN std :
          (/\ i # j
           /\ \/ rule.keyMode = "row_number"
              \/ HasKey(rule, std[i]) /\ HasKey(rule, std[j]))
          => ~SameKey(StandardKey(rule, std, i), StandardKey(rule, std, j))

\* _validate_unique_columns
ColumnsUnique(rule, std) ==
    LET counted == {i \in DOMAIN std : ~SkippedRecord(rule, std[i])}
        value(f, i) == Parse(Get(std[i], f.name), f).value
    IN  \A f \in {g \in Fields(rule) : g.unique} : \A i, j \in counted :
            i # j /\ value(f, i) # None => value(f, i) # value(f, j)

\* _validate_cross_fields
CrossFieldsHold(rule, record) ==
    LET value(n) == Parse(Get(record, n), FieldNamed(rule, n)).value
    IN  \A x \in rule.cross :
            ~(/\ value(x.when) = Parse(x.equals, FieldNamed(rule, x.when)).value
              /\ value(x.required) = None)

StandardValid(rule, std) ==
    /\ \A i \in {j \in DOMAIN std : ~SkippedRecord(rule, std[j])} :
          /\ \A f \in Fields(rule) : TypedValue(rule, std[i], f)
          /\ CrossFieldsHold(rule, std[i])
    /\ ColumnsUnique(rule, std) /\ KeysValid(rule, std)

\* The keys that the records of a case can have.
CaseKeys(k) ==
    LET std == {CanonicalRow(k.rule, x) : x \in Range(k.source.records) \cup Range(k.source.later)}
    IN  IF k.rule.keyMode = "row_number" THEN {RowKey(x.row) : x \in {y \in std : "row" \in DOMAIN y}}
        ELSE {FieldKey(k.rule, x) : x \in {y \in std : HasKey(k.rule, y)}}
             \cup {FallbackKey(i) : i \in 1 .. k.source.maxRecords}

\* What a case holds whatever it is about: lists of records whose keys have a place in the
\* order they sort in, a page size (0 where the source is not paged), a worksheet of rows as
\* wide as its first and one of the ways to treat a row without a key.
ASSUME CasesAssumption ==
    \A about \in DOMAIN Cases : \A k \in Cases[about] :
        /\ k.source.records \in Seq(Range(k.source.records))
        /\ k.source.later \in Seq(Range(k.source.later))
        /\ k.source.size \in Nat /\ k.source.maxPages \in Nat \ {0} /\ k.source.maxRecords \in Nat
        /\ k.mode \in [disk : BOOLEAN, polars : BOOLEAN]
        /\ \A key \in CaseKeys(k), polars \in BOOLEAN : KeyOrder(key, polars) \in Int
        /\ {"grid", "odd"} \subseteq DOMAIN k.sheet /\ k.sheet.grid \in Seq(Range(k.sheet.grid))
        /\ \A r \in DOMAIN k.sheet.grid : /\ k.sheet.grid[r] \in Seq(Range(k.sheet.grid[r]))
                                          /\ Len(k.sheet.grid[r]) = Len(k.sheet.grid[1])
        /\ k.rule.columns \in Seq(Range(k.rule.columns)) /\ k.rule.startRow \in Nat
        /\ k.rule.emptyKey \in {"report_invalid", "skip_row", "use_row_number"}

-----------------------------------------------------------------------------

Init ==
    /\ \E about \in DOMAIN Cases : case \in Cases[about]
    /\ AllowedRule(case.rule) /\ sheet = case.sheet
    /\ stage = "inspect" /\ round = 1
    /\ served = case.source.records /\ page = 1 /\ attempt = 0 /\ steady = TRUE
    /\ fetched = <<>> /\ finding = Nothing

source == <<served, page, attempt, steady>>

\* inspect_workbook
Inspect ==
    /\ stage = "inspect"
    /\ stage' = IF TooManyRows(case.rule, sheet.grid) THEN "failed"
                ELSE IF round = 1 THEN "fetch" ELSE "compare"
    /\ UNCHANGED <<case, sheet, round, source, fetched, finding>>

\* The source's data change under the run.
ServerChanges ==
    /\ stage = "fetch" /\ served # case.source.later
    /\ served' = case.source.later
    /\ steady' = (page = 1)
    /\ UNCHANGED <<case, sheet, stage, round, page, attempt, fetched, finding>>

\* The records of a page.
PageOf(records, n, size) == SubSeq(records, (n - 1) * size + 1, Min({n * size, Len(records)}))

\* A faulty version to test SnapshotIsComplete with: a full page ends the fetch as well.
FaultyLastPage(answer, read) == Len(answer) <= case.source.size

\* The last page is short, or the total the source tells is reached.
LastPage(answer, read) ==
    \/ case.source.size = 0
    \/ case.source.tellsTotal /\ Len(read) >= Len(served)
    \/ Len(answer) < case.source.size

\* A page is answered.
ReadPage ==
    LET answer == IF case.source.size = 0 THEN served ELSE PageOf(served, page, case.source.size)
        read   == fetched \o answer
    IN  /\ stage = "fetch"
        /\ fetched' = read /\ attempt' = 0
        /\ \/ /\ Len(read) > case.source.maxRecords
              /\ stage' = "failed" /\ page' = page
           \/ /\ Len(read) <= case.source.maxRecords /\ LastPage(answer, read)
              /\ stage' = "canonicalize" /\ page' = page
           \/ /\ Len(read) <= case.source.maxRecords /\ ~LastPage(answer, read)
              /\ page < case.source.maxPages
              /\ stage' = stage /\ page' = page + 1
           \/ /\ Len(read) <= case.source.maxRecords /\ ~LastPage(answer, read)
              /\ page = case.source.maxPages
              /\ stage' = "failed" /\ page' = page
        /\ UNCHANGED <<case, sheet, round, served, steady, finding>>

\* A faulty version to test TypeOK with: one retry more than there are.
FaultyMayRetry(n) == case.source.method = "GET" /\ n <= 2

\* A GET is tried three times.
MayRetry(n) == case.source.method = "GET" /\ n < 2

\* A request times out or is answered with 429 or 5xx.
RequestFails ==
    /\ stage = "fetch" /\ case.source.unreliable
    /\ IF MayRetry(attempt)
       THEN attempt' = attempt + 1 /\ stage' = stage
       ELSE stage' = "failed" /\ attempt' = attempt
    /\ UNCHANGED <<case, sheet, round, served, page, steady, fetched, finding>>

\* _canonicalize_standard
Canonicalize ==
    /\ stage = "canonicalize"
    /\ IF \E i \in DOMAIN fetched : Conflicting(case.rule, fetched[i])
       THEN stage' = "failed" /\ fetched' = fetched
       ELSE stage' = "validate" /\ fetched' = [i \in DOMAIN fetched |-> CanonicalRow(case.rule, fetched[i])]
    /\ UNCHANGED <<case, sheet, round, source, finding>>

\* StandardDataValidator.validate; the snapshot written and read back is the same records.
Validate ==
    /\ stage = "validate"
    /\ stage' = IF StandardValid(case.rule, fetched) THEN "compare" ELSE "failed"
    /\ UNCHANGED <<case, sheet, round, source, fetched, finding>>

\* compare_workbook, for a worksheet whose header is found.
CompareSheet ==
    /\ stage = "compare" /\ HasScope(case.rule, sheet)
    /\ LET v == ScopeOf(case.rule, sheet)
       IN  IF ComparesRecords(v) /\ KeyLost(v, fetched, case.mode)
           THEN stage' = "failed" /\ finding' = finding
           ELSE stage' = "settle" /\ finding' = Compare(v, fetched, case.mode)
    /\ UNCHANGED <<case, sheet, round, source, fetched>>

\* The worksheet is missing, there twice, or its header is not found.
NoSheetToCompare ==
    /\ stage = "compare" /\ ~HasScope(case.rule, sheet)
    /\ finding' = CASE sheet.copies = 0 -> Says(Note("missing_sheet", 0, 0, None))
                    [] sheet.copies > 1 -> Says(Note("ambiguous_sheet", 0, 0, None))
                    [] OTHER -> Says(Note("header_not_found", 0, 0, None))
    /\ stage' = "settle"
    /\ UNCHANGED <<case, sheet, round, source, fetched>>

NeedsManualReview ==
    \/ NeedsReview(finding) \/ WorkbookNeedsReview(case.rule, sheet)
    \/ \E n \in finding.notes : n.kind \in {"ambiguous_sheet", "header_not_found"}

\* Only with standard records on disk are the findings counted against the threshold.
Renderable == ~NeedsManualReview /\ ~sheet.large
              /\ (case.mode.disk => ~Spilled(finding, case.threshold))

\* Work nobody can vouch for is left to people, whatever the rule allows.
LeaveToReview ==
    /\ stage = "settle" /\ NeedsManualReview
    /\ stage' = IF /\ case.rule.rejectUnsupported
                   /\ WorkbookNeedsReview(case.rule, sheet)
                THEN "failed" ELSE "manual_review"
    /\ UNCHANGED <<case, sheet, round, source, fetched, finding>>

\* Too many differences, or too large a workbook, to colour.
ReportOnly ==
    /\ stage = "settle" /\ ~NeedsManualReview /\ ~Renderable
    /\ stage' = "report_only"
    /\ UNCHANGED <<case, sheet, round, source, fetched, finding>>

\* The manifest is carried out; a repair without a column fails the job.
Render ==
    /\ stage = "settle" /\ Renderable
    /\ stage' = IF HasScope(case.rule, sheet)
                   /\ ~RenderManifest(ScopeOf(case.rule, sheet), finding).ok
                THEN "failed" ELSE "completed"
    /\ UNCHANGED <<case, sheet, round, source, fetched, finding>>

\* The result is uploaded again, against the same standard records.
AuditResult ==
    /\ stage = "completed" /\ round = 1 /\ HasScope(case.rule, sheet)
    /\ sheet' = RenderedSheet(ScopeOf(case.rule, sheet), finding)
    /\ round' = 2 /\ stage' = "inspect" /\ finding' = Nothing
    /\ UNCHANGED <<case, source, fetched>>

Next ==
    \/ Inspect \/ ServerChanges \/ ReadPage \/ RequestFails \/ Canonicalize \/ Validate
    \/ CompareSheet \/ NoSheetToCompare \/ LeaveToReview \/ ReportOnly \/ Render \/ AuditResult

Spec == Init /\ [][Next]_vars

-----------------------------------------------------------------------------
(* Properties.                                                              *)

\* Two records of one number spelled apart, or a row and a record.
OneSpelling(v, std) ==
    LET keys == {ExcelKey(v, r) : r \in ExcelRecords(v)}
                \cup {StandardKey(v.rule, std, i) : i \in StandardRecords(v, std, FALSE)}
    IN  \A a, b \in keys : SameKey(a, b) => StableKey(a) = StableKey(b)

Settling == stage = "settle" /\ HasScope(case.rule, sheet)
Renders  == Settling /\ Renderable
Here     == ScopeOf(case.rule, sheet)

\* Every row that holds data is answered for once: by a note of its key, as extra or by
\* the one record it is compared with, unless the rule passes over rows without a key;
\* and every standard record with a key is compared with one row or is missing
\* (engine._compare_records).
RowsAreAccountedFor ==
    Settling => \A v \in {Here} : ComparesRecords(v) =>
        LET pairs == Matched(v, fetched, case.mode)
            noted(r) == {n.kind : n \in {m \in finding.notes :
                            m.row = r /\ m.kind \in {"formula", "empty", "duplicate_key", "extra_record"}}}
            records(r) == {p[2] : p \in {q \in pairs : q[1] = r}}
            rows(i)    == {p[1] : p \in {q \in pairs : q[2] = i}}
            passed(r)  == v.rule.emptyKey = "skip_row" /\ ~HasKey(v.rule, v.record[r]) /\ noted(r) = {}
        IN  /\ \A r \in DataRows(v) :
                  Cardinality(noted(r)) + Cardinality(records(r)) = IF passed(r) THEN 0 ELSE 1
            /\ \A i \in {j \in DOMAIN fetched : HasStandardKey(v.rule, fetched[j])} :
                  Cardinality(rows(i)) + Cardinality({n \in finding.notes : n.kind = "missing_record" /\ n.row = i}) = 1

\* The cells a rule lets a render change in a row that was there: a header by its
\* authorised renaming, and in a row of one record a blank by a fill or a default and a
\* value, never a formula, by an overwrite.
MayChange(v, r, c) ==
    \/ r = v.header /\ c \in Renamed(v)
    \/ \E f \in Fields(v.rule) :
          /\ f.name \in DOMAIN v.columns /\ v.columns[f.name] = c
          /\ r \in ExcelRecords(v) /\ v.sheet.grid[r][c] \notin Formulas
          /\ \/ v.rule.overwrite
             \/ v.sheet.grid[r][c] \in Blanks /\ (v.rule.fill \/ f.default # None)

\* A render leaves every cell it has no authority over as it was, in the column that
\* holds it now, and adds only records whose key no row of the data has, as long as no
\* number of a key is spelled in two ways
\* (engine.py, service._manifest, Program.cs).
RepairsAreAuthorised ==
    Renders => \A v \in {Here} :
        LET out == RenderManifest(v, finding)
            w   == Scope(v.rule, RenderedSheet(v, finding), v.header)
        IN  out.ok =>
              /\ \A r \in DOMAIN sheet.grid : \A c \in DOMAIN sheet.grid[r] :
                    \/ out.grid[r][ShiftedColumn(v, c)] = sheet.grid[r][c]
                    \/ MayChange(v, r, c)
              /\ Len(out.grid) > Len(sheet.grid) /\ OneSpelling(v, fetched) =>
                    /\ v.rule.append
                    /\ \A r \in Len(sheet.grid) + 1 .. Len(out.grid) : \A q \in DataRows(v) :
                          RowClass(v, q) = "keyed" => ~SameKey(ExcelKey(w, r), ExcelKey(v, q))

\* What a second audit may still repair: a default over the blank an overwrite writes, a
\* default in an appended row or in an inserted column, an overwrite of that column, the
\* rows that the text order of their numbers kept from being appended, and a record
\* known by its place, which is appended in another place again and again.
LateRepairs(v, std) ==
    \/ \E f \in Fields(v.rule) :
          \/ /\ f.default # None /\ (v.rule.overwrite \/ v.rule.append)
             /\ \E i \in DOMAIN std : Parse(Get(std[i], f.name), f).value = None
          \/ f.name \in Inserted(v) /\ (f.default # None \/ v.rule.overwrite)
    \/ /\ v.rule.keyMode = "row_number" /\ v.rule.append
       /\ \E i, j \in DOMAIN std :
             /\ std[i].row < std[j].row
             /\ KeyOrder(StandardKey(v.rule, std, j), case.mode.polars)
                    < KeyOrder(StandardKey(v.rule, std, i), case.mode.polars)
    \/ v.rule.append /\ \E i \in DOMAIN std : ~HasKey(v.rule, std[i])
    \/ ~ComparesRecords(v)

\* A rendered result audited again, against the same records, needs no repair and no
\* review (engine._compare_records against what service._manifest makes of it).
AuditConverges ==
    (round = 2 /\ stage = "settle" /\ ~LateRepairs(ScopeOf(case.rule, case.sheet), fetched)) =>
        finding.repairs = {} /\ ~NeedsManualReview

\* The missing records are taken in the same order by both joins.
SameOrder(v, std, polars) ==
    LET missing == Missing(v, std, case.mode)
        place(joined, i) == Place(v, std, joined, missing, i)
    IN  \A i \in missing : place(polars, i) = place(case.mode.polars, i)

\* A record can be appended in some rows only: its own, or the one its formula names.
RowsMatter(v) == v.rule.keyMode = "row_number" \/ \E f \in Fields(v.rule) : f.template

Appends(repairs) == {o \in repairs : o.type = "append_record"}

\* Two findings alike but for the rows that the missing records are appended in.
FoundAlike(v, one, two) ==
    /\ {n \in one.notes : n.kind # "append_formula"} = {n \in two.notes : n.kind # "append_formula"}
    /\ one.repairs \ Appends(one.repairs) = two.repairs \ Appends(two.repairs)
    /\ ~RowsMatter(v) =>
          /\ one.notes = two.notes
          /\ {o.values : o \in Appends(one.repairs)} = {o.values : o \in Appends(two.repairs)}

\* Where the standard records are held and what joins the keys does not tell in what is
\* noted and repaired, as long as no number of a key is spelled in two ways, except that
\* the two joins may append the missing records in different rows: they are the same
\* records unless it matters in which row one is, and in the same rows where the keys
\* sort alike as str and as JSON (engine.py:414-433, record_store.py,
\* partitioned_join.py:38, 45; docs/implementation-status.md:13).
BackendsAgree ==
    Settling => \A v \in {Here} : ComparesRecords(v) /\ OneSpelling(v, fetched) =>
        \A mode \in [disk : BOOLEAN, polars : BOOLEAN] \ {case.mode} :
            /\ ~KeyLost(v, fetched, mode)
            /\ \A other \in {Compare(v, fetched, mode)} :
                  /\ FoundAlike(v, other, finding)
                  /\ SameOrder(v, fetched, mode.polars) => other = finding

\* Headers that the development renderer finds, in a sheet it may insert columns into:
\* stripped, the header of a column is a title of its field and every other one of none (a
\* blank one reads "None"), and so are the titles that are written.
PlainSheet(v) ==
    /\ InsertsColumns(v) \/ Inserted(v) = {}
    /\ \A c \in DOMAIN v.mapping :
          /\ v.mapping[c].status # "duplicate"
          /\ \A f \in Fields(v.rule) :
                Strip(sheet.grid[v.header][c]) \in Titles(f)
                    <=> v.mapping[c].status = "matched" /\ v.mapping[c].field = f.name
    /\ \A f \in Fields(v.rule) : Strip(f.title) = f.title
    /\ \A o \in Repairs(finding, "append_record") : \A f \in Fields(v.rule) :
          f.template => o.values[f.name] = FormulaAt(o.row)

\* Both renderers write the same values into a sheet with plain headers
\* (rendering.OpenPyxlDevelopmentRenderer, service._manifest with Program.cs).
RenderersAgree ==
    Renders => \A v \in {Here} : PlainSheet(v) =>
        LET dev == RenderDevelopment(v, finding)
            out == RenderManifest(v, finding)
        IN  /\ dev.ok /\ out.ok /\ DOMAIN dev.grid = DOMAIN out.grid
            /\ \A r \in DOMAIN out.grid : \A c \in DOMAIN out.grid[r] :
                  Stored(dev.grid[r][c]) = Stored(out.grid[r][c])

\* The standard records are all the records of the source, in its order, when the
\* source did not change while they were read
\* (standard_sources.ManagedHttpSource.fetch_with_metadata).
SnapshotIsComplete == stage = "canonicalize" /\ steady => fetched = served

=============================================================================
