------------------------------ MODULE Comparison ------------------------------
(***************************************************************************)
(* The comparison engine (engine.py, with normalization.py, workbook.py's  *)
(* header search and the record maps and key join of large data) as        *)
(* operators: what one worksheet and one set of standard records amount    *)
(* to.  A scope v is a worksheet under a rule once its header is found;    *)
(* a note stands for a Difference, by what it complains of and where.      *)
(***************************************************************************)
EXTENDS Integers, SequencesExt, FiniteSetsExt

CONSTANTS
    Normal(_),        \* normalize_header
    Resembles(_, _),  \* a normalized header is close enough to a title to suggest it
    Numbers,          \* the cells that parse, texts too, every spelling of a number one
    Number(_),        \* the number a cell of Numbers spells, as its plainest spelling
    WriteSafe(_),     \* Excel keeps the number exactly
    Blanks,           \* the cells that normalize to nothing
    Formulas,         \* the formula texts
    Cached(_),        \* the value Excel stored with a formula, None when it stored none
    FormulaAt(_),     \* the formula template expanded for a row
    KeyOrder(_, _),   \* the place of a key in the order of its text: str, or JSON with polars
    ScanRows          \* AUTO_HEADER_SCAN_ROWS

None == ""

ASSUME CellsAssumption ==
    /\ None \in Blanks /\ Blanks \cap (Numbers \cup Formulas) = {} /\ Numbers \cap Formulas = {}
    /\ ScanRows \in Nat
    /\ \A n \in Numbers : Number(n) \in Numbers /\ Number(Number(n)) = Number(n)

-----------------------------------------------------------------------------
(* Values.  A parsed value is [valid, value], its value None for a blank.   *)

Parsed(valid, value) == [valid |-> valid, value |-> value]

\* parse_value: a number, or, where the field compares formulas, a formula text.
Parse(cell, f) ==
    CASE cell \in Formulas /\ f.formula = "formula" -> Parsed(TRUE, cell)
      [] cell \in Blanks  -> Parsed(TRUE, None)
      [] cell \in Numbers -> Parsed(TRUE, Number(cell))
      [] OTHER            -> Parsed(FALSE, None)

\* _excel_write_safe: only what would be stored as a number can lose digits.
ExcelWriteSafe(cell, f) == Parse(cell, f).value \in Numbers => WriteSafe(cell)

\* _excel_write_value keeps the spelling of a number.
WriteValue(cell, f) == IF Parse(cell, f).value = None THEN None ELSE cell

\* values_equal, for two valid values.
ValuesEqual(left, right) == left.value = right.value

-----------------------------------------------------------------------------
(* Headers.                                                                 *)

Titles(f) == {f.name, f.title} \cup f.aliases

\* The fields a normalized header names; the rule's validation allows one at most.
Owners(rule, header) ==
    {f \in Range(rule.columns) : \E n \in Titles(f) : Normal(n) = header}

\* What a published rule may say (ColumnRule, SheetRule).
AllowedField(f) ==
    /\ \A n \in Titles(f) : Normal(n) # None
    /\ f.default # None => /\ Parse(f.default, f).valid
                           /\ Parse(f.default, f).value \notin {None} \cup f.refused
    /\ f.template => f.formula = "formula" /\ f.default = None

AllowedKey(rule) ==
    /\ (rule.keyMode = "fields") = (rule.key # {})
    /\ rule.keyMode = "row_number" => rule.emptyKey = "report_invalid"
    /\ \A n \in rule.key : \E f \in Range(rule.columns) :
          f.name = n /\ f.required /\ ~f.fuzzy /\ f.formula = "reject"

AllowedRule(rule) ==
    LET names  == {f.name : f \in Range(rule.columns)}
        titles(i) == {Normal(n) : n \in Titles(rule.columns[i])}
    IN  /\ \A i, j \in DOMAIN rule.columns : i # j => titles(i) \cap titles(j) = {}
        /\ \A f \in Range(rule.columns) : AllowedField(f)
        /\ AllowedKey(rule)
        /\ rule.startRow # 0 /\ ~rule.autoDetect => rule.startRow > rule.headerRow
        /\ \A x \in rule.cross :
              /\ {x.when, x.required} \subseteq names
              /\ \A f \in Range(rule.columns) : f.name = x.when => Parse(x.equals, f).valid

FieldNamed(rule, name) == CHOOSE f \in Range(rule.columns) : f.name = name

KeyFieldsNamed(rule, row) ==
    {f.name : f \in UNION {Owners(rule, Normal(row[c])) : c \in DOMAIN row}}

\* The rows that name the key and as many fields as any.
BestHeaders(rule, grid) ==
    LET scanned  == {r \in DOMAIN grid : r <= ScanRows}
        complete == {r \in scanned :
                        IF rule.keyMode = "fields" THEN rule.key \subseteq KeyFieldsNamed(rule, grid[r])
                        ELSE KeyFieldsNamed(rule, grid[r]) # {}}
        score(r) == Cardinality(KeyFieldsNamed(rule, grid[r]))
    IN  {r \in complete : \A q \in complete : score(q) <= score(r)}

\* locate_header_row: the header row, 0 when it is beyond the sheet, missing or one of
\* several as good.
LocateHeaderRow(rule, grid) ==
    LET best == BestHeaders(rule, grid)
    IN  CASE ~rule.autoDetect -> IF rule.headerRow \in DOMAIN grid THEN rule.headerRow ELSE 0
          [] rule.autoDetect /\ Cardinality(best) = 1 -> CHOOSE r \in best : TRUE
          [] OTHER -> 0

Mapping(status, field, match) == [status |-> status, field |-> field, match |-> match]

\* How one header maps by itself: a header that is on the sheet twice maps to nothing.
MapHeader(c, rule, headers) ==
    LET header  == Normal(headers[c])
        owners  == Owners(rule, header)
        near    == {f \in Range(rule.columns) : Resembles(header, f)}
        isAlias == \A f \in owners : header \notin {Normal(f.name), Normal(f.title)}
    IN  CASE header # None /\ \E d \in DOMAIN headers \ {c} : Normal(headers[d]) = header ->
                Mapping("duplicate", None, "ambiguous")
          [] header = None -> Mapping("extra", None, "unmatched")
          [] OTHER ->
                IF owners # {}
                THEN Mapping("matched", (CHOOSE f \in owners : TRUE).name,
                             IF isAlias THEN "confirmed_alias" ELSE "exact_title")
                ELSE IF near # {}
                THEN Mapping("ambiguous", (CHOOSE f \in near : TRUE).name, "fuzzy_suggestion")
                ELSE Mapping("extra", None, "unmatched")

\* map_headers: two headers of one field, however they spell it, are duplicates.
MapHeaders(rule, headers) ==
    LET alone == [c \in DOMAIN headers |-> MapHeader(c, rule, headers)]
        twice(c) == \E d \in DOMAIN headers \ {c} :
                        alone[c].status = "matched" /\ alone[d].status = "matched"
                        /\ alone[c].field = alone[d].field
    IN  [c \in DOMAIN headers |-> IF twice(c) THEN [alone[c] EXCEPT !.status = "duplicate"] ELSE alone[c]]

\* canonical_columns
Columns(mapping) ==
    LET matched == {c \in DOMAIN mapping : mapping[c].status = "matched"}
    IN  [f \in {mapping[c].field : c \in matched} |-> CHOOSE c \in matched : mapping[c].field = f]

\* The cells of a row that hold anything, by field.
Record(columns, row) ==
    LET filled == {f \in DOMAIN columns : columns[f] <= Len(row) /\ row[columns[f]] # None}
    IN  [f \in filled |-> row[columns[f]]]

\* The sheet once its header row is known.
Scope(rule, sheet, header) ==
    LET mapping == MapHeaders(rule, sheet.grid[header])
        columns == Columns(mapping)
    IN  [rule |-> rule, sheet |-> sheet, header |-> header, mapping |-> mapping,
         columns |-> columns,
         record |-> [r \in DOMAIN sheet.grid |-> Record(columns, sheet.grid[r])],
         start |-> IF rule.startRow # 0 THEN rule.startRow ELSE header + 1]

\* _should_insert_missing
ShouldInsert(rule, f) ==
    IF f.missing # None THEN f.missing = "insert"
    ELSE IF f.required THEN rule.insertRequired ELSE rule.insertOptional

\* The fields with no column and no column that could be meant for them.
MissingHeaders(v) ==
    {f \in Range(v.rule.columns) :
        /\ f.name \notin DOMAIN v.columns
        /\ \A c \in DOMAIN v.mapping : ~(v.mapping[c].status = "ambiguous" /\ v.mapping[c].field = f.name)}

Inserted(v) == {f.name : f \in {g \in MissingHeaders(v) : ShouldInsert(v.rule, g)}}

\* column is 0 and field None where the difference names none.
Note(kind, row, column, field) ==
    [kind |-> kind, row |-> row, column |-> column, field |-> field]
SetCell(row, column, value) ==
    [type |-> "set_cell", row |-> row, column |-> column, value |-> value]

\* A faulty version to test AuditConverges with: a header that is the title already is
\* renamed as well.
FaultyRenamed(v) == {c \in DOMAIN v.mapping : v.rule.rename /\ v.mapping[c].status = "matched"}

\* The columns renamed from a confirmed alias to the title.
Renamed(v) ==
    {c \in DOMAIN v.mapping : /\ v.rule.rename /\ v.mapping[c].status = "matched"
                              /\ v.mapping[c].match = "confirmed_alias"}

\* The fields that have columns are not in the rule's order.
OutOfOrder(v) ==
    \E i, j \in DOMAIN v.rule.columns :
        LET f == v.rule.columns[i].name
            g == v.rule.columns[j].name
        IN  i < j /\ {f, g} \subseteq DOMAIN v.columns /\ v.columns[f] > v.columns[g]

\* _header_differences
HeaderNotes(v) ==
    LET odd == {c \in DOMAIN v.mapping : v.mapping[c].status # "matched"}
    IN  {Note(v.mapping[c].status, v.header, c, v.mapping[c].field) : c \in odd}
        \cup {Note("missing_header", v.header, 0, f.name) : f \in MissingHeaders(v)}
        \cup {Note("renamed", v.header, c, v.mapping[c].field) : c \in Renamed(v)}
        \cup (IF OutOfOrder(v) THEN {Note("header_order", v.header, 0, None)} ELSE {})

HeaderRepairs(v) ==
    {SetCell(v.header, c, FieldNamed(v.rule, v.mapping[c].field).title) : c \in Renamed(v)}

\* compare_workbook goes on to the records only when every column has one meaning and
\* the key is there.
ComparesRecords(v) ==
    /\ \A c \in DOMAIN v.mapping : v.mapping[c].status # "duplicate"
    /\ v.rule.keyMode = "fields" => v.rule.key \subseteq DOMAIN v.columns

-----------------------------------------------------------------------------
(* Rows and their keys.  A key is of a kind, and holds what it stands for    *)
(* and the text it is spelled with.                                         *)

Get(record, f) == IF f \in DOMAIN record THEN record[f] ELSE None

DataRows(v) ==
    {r \in v.start .. Len(v.sheet.grid) :
        /\ r \in v.sheet.hidden => v.rule.includeHidden
        /\ DOMAIN v.record[r] # {}}

Key(kind, number, text) == [kind |-> kind, number |-> number, text |-> text]
RowKey(n)      == Key("row", n, n)
FallbackKey(n) == Key("fallback", n, n)

\* _key under primary_key_mode "fields"
HasKey(rule, record) ==
    \A f \in rule.key : LET p == Parse(Get(record, f), FieldNamed(rule, f))
                        IN  p.valid /\ p.value # None
FieldKey(rule, record) ==
    Key("fields", [f \in rule.key |-> Parse(record[f], FieldNamed(rule, f)).value],
                  [f \in rule.key |-> record[f]])

SameKey(a, b)  == a.kind = b.kind /\ a.number = b.number

\* stable_key, by which large data is stored and joined.
StableKey(key) == <<key.kind, key.text>>

\* What becomes of a row before any record is looked up: a formula in the key is
\* never evaluated.
RowClass(v, r) ==
    LET record == v.record[r]
    IN  CASE v.rule.keyMode = "row_number" -> "keyed"
          [] v.rule.keyMode = "fields" /\ \E f \in v.rule.key : Get(record, f) \in Formulas -> "formula"
          [] OTHER ->
                IF HasKey(v.rule, record) THEN "keyed"
                ELSE CASE v.rule.emptyKey = "skip_row"       -> "skipped"
                       [] v.rule.emptyKey = "use_row_number" -> "keyed"
                       [] v.rule.emptyKey = "report_invalid" -> "empty"

ExcelKey(v, r) ==
    CASE v.rule.keyMode = "row_number"      -> RowKey(r)
      [] v.rule.keyMode = "fields" /\ HasKey(v.rule, v.record[r]) -> FieldKey(v.rule, v.record[r])
      [] OTHER                              -> FallbackKey(r - v.start + 1)

KeyedRows(v) == {r \in DataRows(v) : RowClass(v, r) = "keyed"}

\* A faulty version to test RowsAreAccountedFor with: only the row just before is compared.
FaultyDuplicateRows(v) ==
    {r \in KeyedRows(v) : \E q \in KeyedRows(v) \cap {r - 1, r + 1} :
        SameKey(ExcelKey(v, q), ExcelKey(v, r))}

DuplicateRows(v) ==
    {r \in KeyedRows(v) : \E q \in KeyedRows(v) \ {r} : SameKey(ExcelKey(v, q), ExcelKey(v, r))}

\* excel_records: no row of a key that is there twice takes part.
ExcelRecords(v) == KeyedRows(v) \ DuplicateRows(v)

\* The standard records, by their place in the sequence std, that have a key: a
\* record without one is passed over.
HasStandardKey(rule, record) ==
    IF rule.keyMode = "row_number" THEN "row" \in DOMAIN record
    ELSE HasKey(rule, record) \/ rule.emptyKey = "use_row_number"

StandardKey(rule, std, i) ==
    CASE rule.keyMode = "row_number" -> RowKey(std[i].row)
      [] rule.keyMode = "fields" /\ HasKey(rule, std[i]) -> FieldKey(rule, std[i])
      [] OTHER -> FallbackKey(i)

\* A record map in memory tells keys apart by number, DiskBackedRecordMap by text.
Collide(a, b, onDisk) == IF onDisk THEN StableKey(a) = StableKey(b) ELSE SameKey(a, b)

StandardRecords(v, std, onDisk) ==
    LET keyed == {i \in DOMAIN std : HasStandardKey(v.rule, std[i])}
    IN  {i \in keyed : \A j \in keyed \ {i} :
            ~Collide(StandardKey(v.rule, std, i), StandardKey(v.rule, std, j), onDisk)}

-----------------------------------------------------------------------------
(* The join of the two sides' keys.  A mode says where the standard records *)
(* are held (disk) and what joins the keys (polars).                        *)

\* The records a join counts: a Python set holds one spelling of a number, the first.
JoinKeys(v, std, mode) ==
    LET records == StandardRecords(v, std, mode.disk)
    IN  IF mode.polars THEN records
        ELSE {i \in records : \A j \in records :
                 j < i => ~SameKey(StandardKey(v.rule, std, j), StandardKey(v.rule, std, i))}

JoinEqual(a, b, mode) == IF mode.polars THEN StableKey(a) = StableKey(b) ELSE SameKey(a, b)

Joined(v, std, mode) ==
    {p \in ExcelRecords(v) \X JoinKeys(v, std, mode) :
        JoinEqual(ExcelKey(v, p[1]), StandardKey(v.rule, std, p[2]), mode)}

\* A faulty version to test BackendsAgree with: the map on disk gives the next record.
FaultyLookup(v, std, mode, r, i) ==
    IF mode.disk THEN {j \in StandardRecords(v, std, TRUE) : j = (i % Len(std)) + 1} ELSE {i}

\* standard_records[key] for a matched key: an intersection of Python sets takes its
\* keys from the smaller set, and the disk map finds a key in its own spelling only.
Lookup(v, std, mode, r, i) ==
    IF mode.disk /\ Cardinality(JoinKeys(v, std, mode)) > Cardinality(ExcelRecords(v))
    THEN {j \in StandardRecords(v, std, TRUE) :
             StableKey(StandardKey(v.rule, std, j)) = StableKey(ExcelKey(v, r))}
    ELSE {i}

Matched(v, std, mode) ==
    UNION {{<<p[1], j>> : j \in Lookup(v, std, mode, p[1], p[2])} : p \in Joined(v, std, mode)}
Extra(v, std, mode)   == ExcelRecords(v) \ {p[1] : p \in Joined(v, std, mode)}
Missing(v, std, mode) == JoinKeys(v, std, mode) \ {p[2] : p \in Joined(v, std, mode)}

\* A matched key that the record map does not find: the comparison ends in a KeyError.
KeyLost(v, std, mode) ==
    \E p \in Joined(v, std, mode) : Lookup(v, std, mode, p[1], p[2]) = {}

-----------------------------------------------------------------------------
(* What is noted and repaired.  A finding is a set of notes and of repairs. *)

Finding(notes, repairs) == [notes |-> notes, repairs |-> repairs]
Nothing     == Finding({}, {})
Says(note)  == Finding({note}, {})
Together(findings) == Finding(UNION {x.notes : x \in findings}, UNION {x.repairs : x \in findings})

SetField(row, field, value) ==
    [type |-> "set_field", row |-> row, field |-> field, value |-> value]
SetFormat(row, column) == [type |-> "set_number_format", row |-> row, column |-> column]
AppendRecord(row, values) == [type |-> "append_record", row |-> row, values |-> values]

Fields(rule) == Range(rule.columns)
HasColumn(v, f) == f.name \in DOMAIN v.columns

\* A static default written where nothing is, by the operation write.
FillDefault(f, r, c, write) ==
    IF ExcelWriteSafe(f.default, f) THEN Finding({Note("filled", r, c, f.name)}, {write})
    ELSE Says(Note("write_unsafe", r, c, f.name))

ExtraCell(v, f, r) ==
    LET c      == v.columns[f.name]
        parsed == Parse(Get(v.record[r], f.name), f)
    IN  IF parsed.valid /\ parsed.value = None /\ f.default # None
        THEN FillDefault(f, r, c, SetCell(r, c, WriteValue(f.default, f)))
        ELSE Nothing

ExtraRow(v, r) ==
    Together({Says(Note("extra_record", r, 0, None))}
             \cup {ExtraCell(v, f, r) : f \in {g \in Fields(v.rule) : HasColumn(v, g)}})

\* A field of a matched row whose column is still to be inserted.
InsertedCell(v, f, r, record) ==
    LET right   == Parse(Get(record, f.name), f)
        fill    == v.rule.fill /\ right.valid /\ right.value # None
        write(cell) == SetField(r, f.name, WriteValue(cell, f))
    IN  CASE ~ShouldInsert(v.rule, f) -> Nothing
          [] ShouldInsert(v.rule, f) /\ f.template ->
                IF f.name \in DOMAIN record /\ record[f.name] # FormulaAt(r)
                THEN Says(Note("template_mismatch", r, 0, f.name)) ELSE Nothing
          [] OTHER ->
                IF fill THEN IF ExcelWriteSafe(Get(record, f.name), f)
                             THEN Finding({Note("filled", r, 0, f.name)}, {write(Get(record, f.name))})
                             ELSE Says(Note("write_unsafe", r, 0, f.name))
                ELSE IF f.default # None THEN FillDefault(f, r, 0, write(f.default))
                ELSE Nothing

\* A cell whose value differs from the standard's.  A formula is never overwritten by
\* the value it was compared by.
MismatchedCell(v, f, r, isFormula, left, cell) ==
    LET c     == v.columns[f.name]
        right == Parse(cell, f)
        repair == (left.value = None /\ right.value # None /\ v.rule.fill) \/ v.rule.overwrite
        note  == Note("value_mismatch", r, c, f.name)
    IN  CASE f.fuzzy -> Says(Note("fuzzy_value", r, c, f.name))
          [] ~f.fuzzy /\ repair /\ isFormula ->
                Finding({note, Note("cached_write_blocked", r, c, f.name)}, {})
          [] ~f.fuzzy /\ repair /\ ~isFormula /\ ~ExcelWriteSafe(cell, f) ->
                Finding({note, Note("write_unsafe", r, c, f.name)}, {})
          [] OTHER ->
                Finding({note}, IF repair THEN {SetCell(r, c, WriteValue(cell, f))} ELSE {})

\* A field of a matched row that has its column.  A field the record leaves out says
\* nothing of the cell.
MatchedCell(v, f, r, record) ==
    LET c      == v.columns[f.name]
        cell   == Get(v.record[r], f.name)
        other  == Get(record, f.name)
        isFormula == cell \in Formulas
        left   == Parse(IF isFormula THEN Cached(cell) ELSE cell, f)
        right  == Parse(other, f)
        silent == \/ f.name \notin DOMAIN record /\ ~(cell = None /\ f.default # None)
                  \/ isFormula /\ f.formula = "reject"
                  \/ ~left.valid
        asText == f.formula = "formula" /\ (isFormula \/ other \in Formulas)
    IN  CASE asText /\ f.name \in DOMAIN record ->
                IF cell = other THEN Nothing ELSE Says(Note("formula_text", r, c, f.name))
          [] ~asText /\ ~silent /\ ~right.valid -> Says(Note("standard_invalid", r, c, f.name))
          [] ~asText /\ ~silent /\ right.valid /\ ~ValuesEqual(left, right) ->
                MismatchedCell(v, f, r, isFormula, left, other)
          [] ~asText /\ ~silent /\ right.valid /\ ValuesEqual(left, right) ->
                CASE left.value # None \/ f.default = None -> Nothing
                  [] isFormula /\ left.value = None /\ f.default # None ->
                        Says(Note("cached_write_blocked", r, c, f.name))
                  [] OTHER -> FillDefault(f, r, c, SetCell(r, c, WriteValue(f.default, f)))
          [] OTHER -> Nothing

MatchedRow(v, r, record) ==
    Together({IF HasColumn(v, f) THEN MatchedCell(v, f, r, record) ELSE InsertedCell(v, f, r, record) :
                 f \in Fields(v.rule)})

-----------------------------------------------------------------------------
(* Records the worksheet lacks.  One row after another is appended, in the  *)
(* order of the keys' text.                                                 *)

\* Formulas that the trusted template does not give at the row.
UnsafeFormulas(v, record, row) ==
    {f \in Fields(v.rule) :
        /\ f.formula = "formula" /\ Get(record, f.name) \in Formulas
        /\ ~(f.template /\ FormulaAt(row) = Get(record, f.name))}
UnsafeWrites(v, record) == {f \in Fields(v.rule) : ~ExcelWriteSafe(Get(record, f.name), f)}

\* A faulty version to test RepairsAreAuthorised with: a key that is on the sheet twice
\* counts as missing.
FaultyAppendable(v, std, i, row) ==
    /\ v.rule.append
    /\ v.rule.keyMode = "row_number" => std[i].row = row
    /\ UnsafeFormulas(v, std[i], row) = {} /\ UnsafeWrites(v, std[i]) = {}

Appendable(v, std, i, row) ==
    /\ v.rule.append
    /\ \A r \in DuplicateRows(v) : ~SameKey(ExcelKey(v, r), StandardKey(v.rule, std, i))
    /\ v.rule.keyMode = "row_number" => std[i].row = row
    /\ UnsafeFormulas(v, std[i], row) = {} /\ UnsafeWrites(v, std[i]) = {}

\* The notes of a missing record; those that name a field stop a render.
MissingNotes(v, record, i, row) ==
    {Note("missing_record", i, 0, None)}
    \cup {Note("write_unsafe", i, 0, f.name) : f \in {g \in UnsafeWrites(v, record) : v.rule.append}}
    \cup {Note("append_formula", i, 0, f.name) : f \in {g \in UnsafeFormulas(v, record, row) : v.rule.append}}

WriteRecord(v, record) ==
    [n \in {f.name : f \in Fields(v.rule)} |-> WriteValue(Get(record, n), FieldNamed(v.rule, n))]

\* The place of a missing record in the order their keys sort in: the Python join sorts
\* them as str(key), the join by polars as stable_key.
Place(v, std, polars, missing, i) ==
    LET order(j) == KeyOrder(StandardKey(v.rule, std, j), polars)
    IN  Cardinality({j \in missing : order(j) < order(i) \/ (order(j) = order(i) /\ j < i)})

\* append_row, when the turn of each missing record comes.
AppendRow(v, std, polars, missing) ==
    LET place(i) == Place(v, std, polars, missing, i)
        row[i \in missing] ==
            LET appended == {j \in missing : place(j) < place(i) /\ Appendable(v, std, j, row[j])}
            IN  Len(v.sheet.grid) + 1 + Cardinality(appended)
    IN  row

MissingRecord(v, std, i, row) ==
    Finding(MissingNotes(v, std[i], i, row),
            IF Appendable(v, std, i, row) THEN {AppendRecord(row, WriteRecord(v, std[i]))} ELSE {})

MissingRecords(v, std, mode) ==
    LET missing == Missing(v, std, mode)
    IN  Together({MissingRecord(v, std, i, AppendRow(v, std, mode.polars, missing)[i]) : i \in missing})

-----------------------------------------------------------------------------
(* What every row must satisfy, with a standard record or without one.      *)

KeyInvalid(v, r) == v.rule.keyMode = "fields" /\ ~HasKey(v.rule, v.record[r])

ValidatedRows(v) == {r \in DataRows(v) : ~(KeyInvalid(v, r) /\ v.rule.emptyKey = "skip_row")}

\* The fields checked in a row: an invalid key has its own note.
CheckedFields(v, r) ==
    {f \in Fields(v.rule) : HasColumn(v, f) /\ ~(KeyInvalid(v, r) /\ f.name \in v.rule.key)}

\* The cell as validation reads it.
Read(v, f, r) ==
    LET cell == Get(v.record[r], f.name)
    IN  IF cell \in Formulas /\ f.formula = "cached" THEN Cached(cell) ELSE cell

Rejected(v, f, r) == f.formula = "reject" /\ Read(v, f, r) \in Formulas

\* _append_display_format_repair
Displayed(v, f, r) ==
    LET c == v.columns[f.name]
    IN  IF f.display /\ <<r, c>> \in v.sheet.odd /\ f.name \in DOMAIN v.record[r]
        THEN Finding({Note("format", r, c, f.name)}, {SetFormat(r, c)}) ELSE Nothing

Acceptable(value, f) == IF value = None THEN ~f.required /\ f.nullable ELSE value \notin f.refused

CheckedCell(v, f, r) ==
    LET c      == v.columns[f.name]
        cell   == Read(v, f, r)
        parsed == Parse(cell, f)
        free   == cell = None /\ ~f.required /\ f.nullable /\ ~f.unique
    IN  CASE Rejected(v, f, r) -> Says(Note("formula_reject", r, c, f.name))
          [] ~Rejected(v, f, r) /\ ~free /\ ~parsed.valid -> Says(Note("invalid_value", r, c, f.name))
          [] ~Rejected(v, f, r) /\ ~free /\ parsed.valid ->
                Together({Displayed(v, f, r)}
                         \cup IF parsed.value \in Formulas \/ Acceptable(parsed.value, f) THEN {}
                              ELSE {Says(Note("validation_error", r, c, f.name))})
          [] OTHER -> Nothing

NotUnique(v, f) ==
    LET held == {r \in ValidatedRows(v) : /\ f \in CheckedFields(v, r) /\ ~Rejected(v, f, r)
                                          /\ Parse(Read(v, f, r), f).value \notin Formulas \cup {None}}
    IN  {Note("not_unique", r, v.columns[f.name], f.name) :
            r \in {q \in held : f.unique /\ \E o \in held \ {q} :
                      Parse(Read(v, f, o), f).value = Parse(Read(v, f, q), f).value}}

\* conditional_required: a field that another one's value asks for, and is not there.
CrossNotes(v, r) ==
    LET seen(n) == \E f \in CheckedFields(v, r) : f.name = n /\ ~Rejected(v, f, r)
        value(n) == Parse(Read(v, FieldNamed(v.rule, n), r), FieldNamed(v.rule, n)).value
    IN  {Note("cross_field", r, v.columns[x.required], x.required) :
            x \in {y \in v.rule.cross : /\ seen(y.when) /\ seen(y.required)
                                        /\ value(y.when) = Parse(y.equals, FieldNamed(v.rule, y.when)).value
                                        /\ value(y.required) = None}}

ValidateRows(v) ==
    Together((UNION {{CheckedCell(v, f, r) : f \in CheckedFields(v, r)} : r \in ValidatedRows(v)})
             \cup {Finding(CrossNotes(v, r), {}) : r \in ValidatedRows(v)}
             \cup {Finding(NotUnique(v, f), {}) : f \in {g \in Fields(v.rule) : HasColumn(v, g)}})

-----------------------------------------------------------------------------
(* The comparison of one worksheet.                                         *)

\* The rows whose key keeps them out of the join.
KeyNotes(v) ==
    {Note("empty", r, v.columns[f], f) : r \in {q \in DataRows(v) : RowClass(v, q) = "empty"}, f \in v.rule.key}
    \cup (UNION {{Note("formula", r, v.columns[f], f) : f \in {g \in v.rule.key : Get(v.record[r], g) \in Formulas}} :
                     r \in {q \in DataRows(v) : RowClass(v, q) = "formula"}})
    \cup {Note("duplicate_key", r, 0, None) : r \in DuplicateRows(v)}

RecordFinding(v, std, mode) ==
    Together({Finding(KeyNotes(v), {}), ValidateRows(v), MissingRecords(v, std, mode)}
             \cup {ExtraRow(v, r) : r \in Extra(v, std, mode)}
             \cup {MatchedRow(v, p[1], std[p[2]]) : p \in Matched(v, std, mode)})

Compare(v, std, mode) ==
    Together({Finding(HeaderNotes(v), HeaderRepairs(v))}
             \cup IF ComparesRecords(v) THEN {RecordFinding(v, std, mode)} ELSE {})

\* The notes that end the job in manual_review.
ReviewKinds == {"ambiguous", "formula", "fuzzy_value", "append_formula", "template_mismatch",
                "write_unsafe", "cached_write_blocked"}
NeedsReview(finding) == \E n \in finding.notes : n.kind \in ReviewKinds

\* Differences or repairs beyond the threshold went to disk, and nothing is rendered.
Spilled(finding, threshold) ==
    Cardinality(finding.notes) > threshold \/ Cardinality(finding.repairs) > threshold

=============================================================================
