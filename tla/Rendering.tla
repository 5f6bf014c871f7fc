------------------------------ MODULE Rendering -------------------------------
(***************************************************************************)
(* Two ways to write a finding into the worksheet: the development         *)
(* renderer, which looks the columns up in the sheet it is writing, and    *)
(* the render manifest, which the service computes from the mapping and    *)
(* the OpenXML renderer carries out in phases.  Only values are modelled:  *)
(* colours, comments and styles are left out.                              *)
(***************************************************************************)
EXTENDS Comparison

CONSTANT Strip(_)  \* a header without the blanks around it

\* A render ends with the rows it wrote or fails.
Written(grid) == [ok |-> TRUE, grid |-> grid]
RenderFailed  == [ok |-> FALSE, grid |-> <<>>]

\* WriteSafeValue stores a number, not its spelling.
Stored(cell) == IF cell \in Numbers THEN Number(cell) ELSE cell

\* FindOrCreateRow, FindOrCreateCell: rows are created up to the last one written.
WriteCells(grid, writes) ==
    LET at(r, c)  == {o \in writes : o.row = r /\ o.column = c}
        old(r, c) == IF r \in DOMAIN grid THEN grid[r][c] ELSE None
    IN  [r \in 1 .. Max({Len(grid)} \cup {o.row : o \in writes}) |->
            [c \in DOMAIN grid[1] |->
                IF at(r, c) = {} THEN old(r, c) ELSE (CHOOSE o \in at(r, c) : TRUE).value]]

Repairs(finding, type) == {o \in finding.repairs : o.type = type}

-----------------------------------------------------------------------------
(* Inserted columns.                                                        *)

\* Where each missing field goes: after the last field before it that has a column.
InsertPlans(v, positions) ==
    {[before |-> LET known == {j \in 1 .. i - 1 : v.rule.columns[j].name \in DOMAIN positions}
                 IN  IF known = {} THEN 1 ELSE positions[v.rule.columns[Max(known)].name] + 1,
      index  |-> i] :
        i \in {j \in DOMAIN v.rule.columns : v.rule.columns[j].name \in Inserted(v)}}

\* From right to left, and at one place the later field first: the last one is leftmost.
LastInserted(plans) ==
    CHOOSE p \in plans : \A q \in plans :
        p.before < q.before \/ (p.before = q.before /\ p.index <= q.index)

InOrder(insert(_, _), base, plans) ==
    MapThenFoldSet(insert, base, LAMBDA plan : plan, LastInserted, plans)

\* formula_rows_by_sheet: no row is known when the records were not compared.
FormulaRows(v) == IF ComparesRecords(v) THEN DataRows(v) ELSE {}

\* An inserted column holds its title and, in the rows that hold data, its formula.
InsertColumn(v, grid, plan) ==
    LET f == v.rule.columns[plan.index]
        cell(r) == CASE r = v.header -> f.title
                     [] r # v.header /\ f.template /\ r \in FormulaRows(v) -> FormulaAt(r)
                     [] OTHER -> None
    IN  [r \in DOMAIN grid |-> InsertAt(grid[r], plan.before, cell(r))]

InsertColumns(v, grid, plans) ==
    InOrder(LAMBDA plan, g : InsertColumn(v, g, plan), grid, plans)

-----------------------------------------------------------------------------
(* The development renderer.                                                *)

\* _canonical_positions: the last column whose stripped header is the title, else the
\* name, else an alias of the field.
Positions(rule, headers) ==
    LET at(title) == {c \in DOMAIN headers : Strip(headers[c]) = title}
        of(f) == CASE at(f.title) # {} -> at(f.title)
                   [] at(f.title) = {} /\ at(f.name) # {} -> at(f.name)
                   [] OTHER -> UNION {at(a) : a \in f.aliases}
    IN  [n \in {f.name : f \in {g \in Fields(rule) : of(g) # {}}} |-> Max(of(FieldNamed(rule, n)))]

\* Columns are inserted into the worksheet that has exactly the rule's name or an
\* alias, and not beside features that openpyxl would damage.
InsertsColumns(v) == v.sheet.spelled /\ ~v.sheet.risky

\* The cells of a record, at the columns of its fields.
RecordCells(o, columns) ==
    {SetCell(o.row, columns[n], o.values[n]) : n \in DOMAIN o.values \cap DOMAIN columns}

RenderDevelopment(v, finding) ==
    LET repaired   == WriteCells(v.sheet.grid, Repairs(finding, "set_cell"))
        widened    == IF InsertsColumns(v)
                      THEN InsertColumns(v, repaired, InsertPlans(v, Positions(v.rule, repaired[v.header])))
                      ELSE repaired
        positions  == Positions(v.rule, widened[v.header])
        fields     == WriteCells(widened, {SetCell(o.row, positions[o.field], o.value) :
                                              o \in Repairs(finding, "set_field")})
    IN  IF \E o \in Repairs(finding, "set_field") : o.field \notin DOMAIN positions THEN RenderFailed
        ELSE Written(WriteCells(fields, UNION {RecordCells(o, positions) :
                                                  o \in Repairs(finding, "append_record")}))

-----------------------------------------------------------------------------
(* The manifest.                                                            *)

\* A faulty version to test RenderersAgree with: the column an insertion pushes aside is
\* taken to stay.
FaultyColumnsAfter(v, plan, columns) ==
    LET name == v.rule.columns[plan.index].name
    IN  [f \in DOMAIN columns \cup {name} |->
            CASE f = name -> plan.before
              [] f # name /\ columns[f] > plan.before -> columns[f] + 1
              [] OTHER -> columns[f]]

\* An insertion pushes the columns from its place on aside.
ColumnsAfter(v, plan, columns) ==
    LET name == v.rule.columns[plan.index].name
    IN  [f \in DOMAIN columns \cup {name} |->
            CASE f = name -> plan.before
              [] f # name /\ columns[f] >= plan.before -> columns[f] + 1
              [] OTHER -> columns[f]]

\* The columns of the fields once the insertions are made.
FinalColumns(v) ==
    InOrder(LAMBDA plan, columns : ColumnsAfter(v, plan, columns), v.columns, InsertPlans(v, v.columns))

\* The record of an appended row: a column with a template gets its formula whatever
\* the record says.
AppendValues(v, o) ==
    AppendRecord(o.row, [n \in DOMAIN o.values |->
        IF FieldNamed(v.rule, n).template THEN FormulaAt(o.row) ELSE Stored(o.values[n])])

\* A renamed header is written as text, whatever it spells.
CellValue(v, o) == IF o.row = v.header THEN o.value ELSE Stored(o.value)

\* Values, then insertions, then what needed them, then rows.
RenderManifest(v, finding) ==
    LET columns  == FinalColumns(v)
        repaired == WriteCells(v.sheet.grid, {SetCell(o.row, o.column, CellValue(v, o)) :
                                                        o \in Repairs(finding, "set_cell")})
        widened  == InsertColumns(v, repaired, InsertPlans(v, v.columns))
        fields   == WriteCells(widened, {SetCell(o.row, columns[o.field], Stored(o.value)) :
                                            o \in Repairs(finding, "set_field")})
    IN  IF \E o \in Repairs(finding, "set_field") : o.field \notin DOMAIN columns THEN RenderFailed
        ELSE Written(WriteCells(fields, UNION {RecordCells(AppendValues(v, o), columns) :
                                                  o \in Repairs(finding, "append_record")}))

\* Where a column of the sheet is once the insertions are made.
ShiftedColumn(v, c) == c + Cardinality({p \in InsertPlans(v, v.columns) : p.before <= c})

\* The sheet the manifest leaves: the formats it set are the rule's.
RenderedSheet(v, finding) ==
    [v.sheet EXCEPT
        !.grid = RenderManifest(v, finding).grid,
        !.odd  = {<<p[1], ShiftedColumn(v, p[2])>> :
                    p \in {q \in v.sheet.odd : \A o \in finding.repairs :
                              ~(/\ o.type \in {"set_number_format", "set_cell"}
                                /\ o.row = q[1] /\ o.column = q[2])}}]

=============================================================================
