------------------------- MODULE ProductNormalization -------------------------
(***************************************************************************)
(* normalize_product_workbook (normalizer.py) on one workbook, the review  *)
(* of what it leaves open, and the second normalization under the          *)
(* reviewers' decisions and the frozen catalogue (service.py), with the    *)
(* workbook rendered for each.  Who may run when is ProductReview's        *)
(* subject; here the subject is what the steps compute.                    *)
(***************************************************************************)
EXTENDS ProductMapping, SequencesExt

CONSTANTS
    HeaderRows,      \* sequences of raw headers
    RowLists,        \* sequences of rows, a row being a cell per column
    Catalogues,      \* what the platform may list and describe
    FixedFields,     \* the merchant template's fields
    IdField,         \* the fixed fields that hold a row's category
    NameField,
    PrimaryKey,      \* fixed fields
    SkuMode,         \* "always", "when_present" or "disabled"
    SkuLimit,        \* max_sku_combinations_per_product
    Canonical(_, _), \* what parsing makes of a cell
    CrossErrors(_),  \* the fixed fields the cross-field rules complain of
    SheetName(_),    \* a category's name, cut and cleaned for a worksheet
    Casefold(_),     \* a part of such a name, without regard to case
    Workbooks        \* the names of the worksheets of a merchant's workbook

VARIABLES
    input,       \* headers, rows, catalogue and worksheets, chosen at the start
    stage,       \* where the run is
    round,       \* 1, and 2 after the review
    decision,    \* the reviewers' answers, by review item
    resolution,  \* resolution[r] of every source row r
    schemas,     \* the platform schemas fetched, by category
    sheet,       \* the category sheets normalized so far
    issues,      \* the cell issues found so far
    book,        \* the workbook being rendered: the categories written so far, the
                 \* names taken for used, and a content for each sheet name
    first        \* round 1's results, once there is a round 2

vars == <<input, stage, round, decision, resolution, schemas, sheet, issues, book, first>>

Empty == [x \in {} |-> x]
NoBook == [done |-> {}, used |-> {}, sheets |-> Empty]

\* A function with the value v at x.
Extended(f, x, v) == [y \in DOMAIN f \cup {x} |-> IF y = x THEN v ELSE f[y]]

ASSUME LimitsAssumption ==
    /\ SkuLimit \in Nat /\ MaxCandidates \in Nat \ {0}
    /\ SkuMode \in {"always", "when_present", "disabled"}

\* Templates, catalogues, header rows and workbooks are finite, and no category has a blank
\* identifier: CategoryDefinition refuses it.
ASSUME InputsAssumption ==
    /\ IsFiniteSet(FixedFields) /\ \A w \in Workbooks : IsFiniteSet(w)
    /\ \A h \in HeaderRows : h \in Seq(Range(h))
    /\ \A k \in Catalogues :
          /\ IsFiniteSet(DOMAIN k.categories) /\ Blank \notin DOMAIN k.categories
          /\ \A c \in DOMAIN k.fields : IsFiniteSet(k.fields[c])

\* A worksheet's name is a sequence of parts.
ASSUME NamesAssumption ==
    \A k \in Catalogues : \A c \in DOMAIN k.fields : SheetName(c) \in Seq(Range(SheetName(c)))

\* Identifiers have an order, and rapidfuzz gives every header and name a score.
ASSUME ScoresAssumption ==
    /\ Ids \in Seq(Range(Ids))
    /\ \A k \in Catalogues : \A c \in DOMAIN k.fields : \A f \in FixedFields \cup k.fields[c] :
          /\ f.id \in Range(Ids)
          /\ \A h \in HeaderRows : \A i \in DOMAIN h : \A n \in f.names :
                Score(Token(h[i]), n) \in 0 .. 100

Init ==
    /\ input \in [headers : HeaderRows, rows : RowLists, catalogue : Catalogues, sheets : Workbooks]
    /\ stage = "resolve" /\ round = 1
    /\ decision = Empty /\ resolution = Empty /\ schemas = Empty
    /\ sheet = Empty /\ issues = {} /\ book = NoBook /\ first = Empty

Cells(r)    == input.rows[r]
\* Rows with nothing in them are passed over.
SourceRows  == {r \in DOMAIN input.rows : \E c \in DOMAIN Cells(r) : Cells(r)[c] # Blank}
ValueAt(r, c) == IF c = 0 THEN Blank ELSE Cells(r)[c]

-----------------------------------------------------------------------------
(* The reviewers' decisions, as rerun_after_reviews hands them on.          *)

CategoryItem(r) ==
    [type |-> "category", at |-> r, category |-> None,
     candidates |-> resolution[r].candidates]

FieldItem(c, mapping, category) ==
    [type |-> IF mapping.match = "duplicate" THEN "duplicate_header" ELSE "field_mapping",
     at |-> c, category |-> category, candidates |-> mapping.candidates]

Answers(action) == {i \in DOMAIN decision : decision[i].action = action}

\* The answer about a row.
About(r, items) == CHOOSE i \in items : i.at = r

\* Excel row to category.
Overrides ==
    [r \in {i.at : i \in Answers("confirm_category")} |->
        decision[About(r, Answers("confirm_category"))].target]

\* A faulty version to test AnswersStayInTheirCategory with: a merchant column
\* is one in every category.
FaultyForcedExtra(category) == {i.at : i \in Answers("keep_extra")}

\* Physical columns kept as merchant columns, by category.
ForcedExtra(category) ==
    {i.at : i \in {j \in Answers("keep_extra") : j.category = category}}

\* Of the answers about columns with one header, the one about the last column.
LastOf(h, items, headers) ==
    CHOOSE i \in items :
        headers[i.at] = h /\ \A j \in items : headers[j.at] = h => j.at <= i.at

\* Raw header to field, by category: of two columns with one header the later.
Confirmed(category) ==
    LET items == {i \in Answers("confirm_mapping") : i.category = category}
    IN  [h \in {input.headers[i.at] : i \in items} |->
            decision[LastOf(h, items, input.headers)].target]

-----------------------------------------------------------------------------
(* The steps of a normalization.                                            *)

\* Only active categories can be resolved to.
CategoryNames ==
    LET listed == input.catalogue.categories
        active == {c \in DOMAIN listed : listed[c].active}
    IN  [c \in active |-> {Token(n) : n \in listed[c].names}]

\* The columns of the fixed fields, found before any category is known, and
\* whatever the reviewers decided.
FixedMappings == MapHeaders(input.headers, FixedFields, Empty, {})

FixedValue(r, f) ==
    LET columns == Accepted(FixedMappings, f)
    IN  IF columns = {} THEN Blank ELSE Cells(r)[CHOOSE c \in columns : TRUE]

\* A faulty version to test AnswersAreHonoured with: a confirmed row is
\* resolved again.
FaultyRowCategory(r) ==
    ResolveCategory(FixedValue(r, IdField), FixedValue(r, NameField), CategoryNames)

RowCategory(r) ==
    IF r \in DOMAIN Overrides THEN Resolved(Overrides[r], "confirmed")
    ELSE ResolveCategory(FixedValue(r, IdField), FixedValue(r, NameField), CategoryNames)

ResolveRows ==
    /\ stage = "resolve"
    /\ resolution' = [r \in SourceRows |-> RowCategory(r)]
    /\ stage' = "fetch"
    /\ UNCHANGED <<input, round, decision, schemas, sheet, issues, book, first>>

\* The worksheet, its header row or its configuration is not what it should be.
RefuseWorkbook ==
    /\ stage = "resolve" /\ round = 1
    /\ stage' = "failed"
    /\ UNCHANGED <<input, round, decision, resolution, schemas, sheet, issues, book, first>>

With(status) == {r \in DOMAIN resolution : resolution[r].status = status}
Grouped      == {resolution[r].category : r \in With("resolved")}
Rows(c)      == {r \in With("resolved") : resolution[r].category = c}
Unresolved   == With("manual_review") \cup With("unresolved")

\* A faulty version to test RevisionIsComputable with: only the schemas this
\* result needs.
FaultyNeeded == Grouped

\* The schemas of the categories found and of those a reviewer may choose.
Needed == Grouped \cup UNION {resolution[r].candidates : r \in With("manual_review")}

\* InMemoryCatalogAdapter and ManagedHttpCatalogAdapter in the first round,
\* FrozenCatalogAdapter in the second.
Described == IF round = 1 THEN input.catalogue.fields ELSE first.schemas

FetchSchemas ==
    /\ stage = "fetch"
    /\ Needed \subseteq DOMAIN Described
    /\ schemas' = [c \in Needed |-> Described[c]]
    /\ stage' = "normalize"
    /\ UNCHANGED <<input, round, decision, resolution, sheet, issues, book, first>>

\* A category has no schema, the platform does not answer, or a snapshot's
\* checks fail.
FetchFails ==
    /\ stage = "fetch"
    /\ round = 1 \/ ~(Needed \subseteq DOMAIN Described)
    /\ stage' = "failed"
    /\ UNCHANGED <<input, round, decision, resolution, schemas, sheet, issues, book, first>>

Targets(c)        == FixedFields \cup schemas[c]
Specifications(c) == {f \in schemas[c] : f.source = "specification"}

\* The values of a row's fixed and platform fields, and of its merchant columns.
Output(r, c, plan) ==
    [fields |-> [i \in DOMAIN plan.column |->
        LET f == CHOOSE g \in Targets(c) : g.id = i
            v == ValueAt(r, plan.column[i])
        IN  IF CellError(v, f) = None /\ v # Blank THEN Canonical(v, f) ELSE v],
     extras |-> [e \in DOMAIN plan.extras |-> ValueAt(r, plan.extras[e])]]

\* A faulty version to test TypeOK with: the place of the row instead of its number.
FaultyIssue(type, r, c, field) ==
    [type |-> type, row |-> r - 1, category |-> c, field |-> field]

\* A ProductCellIssue, on its Excel row.
Issue(type, r, c, field) == [type |-> type, row |-> r, category |-> c, field |-> field]

CellIssues(r, c, plan) ==
    {Issue(CellError(ValueAt(r, plan.column[f.id]), f), r, c, f.id) :
        f \in {g \in Targets(c) : CellError(ValueAt(r, plan.column[g.id]), g) # None}}

SkuWanted(c) ==
    SkuMode = "always" \/ (SkuMode = "when_present" /\ Specifications(c) # {})

SkuRows(r, c, plan) ==
    LET rows == SkuCombinations(Output(r, c, plan).fields, Specifications(c))
    IN  IF SkuWanted(c) /\ Cardinality(rows) <= SkuLimit THEN rows ELSE {}

SkuIssues(r, c, plan) ==
    IF SkuWanted(c) /\ Cardinality(SkuCombinations(Output(r, c, plan).fields,
                                                   Specifications(c))) > SkuLimit
    THEN {Issue("sku_combination_limit", r, c, None)} ELSE {}

\* casefold: Excel compares the names of worksheets so.
Folded(name) == [i \in DOMAIN name |-> Casefold(name[i])]
Folds(names) == {Folded(n) : n \in names}

\* The name, the name with the category, the same numbered from 2: numbers are
\* counted out here.
NumberedName(base, mark, k) == base \o [i \in 1 .. k |-> mark]

\* _unique_sheet_name and _unique_local_sheet_name: the first that is not used.
UniqueName(base, mark, used) ==
    NumberedName(base, mark, Min({k \in 0 .. Cardinality(used) :
                                     Folded(NumberedName(base, mark, k)) \notin used}))

NextCategory(c) ==
    /\ c \in Grouped \ DOMAIN sheet
    /\ \A d \in Grouped \ DOMAIN sheet : d = c \/ IdBefore(c, d)

\* One category: its columns, its output fields, its rows.
NormalizeCategory(c) ==
    /\ stage = "normalize" /\ NextCategory(c)
    /\ ~ConfirmationsClash(Confirmed(c))
    /\ LET mappings == MapHeaders(input.headers, Targets(c), Confirmed(c), ForcedExtra(c))
           plan == Plan(input.headers, Targets(c), mappings)
       IN  /\ sheet' = Extended(sheet, c,
                 [name |-> UniqueName(SheetName(c), c, Folds({sheet[d].name : d \in DOMAIN sheet})),
                  plan |-> plan,
                  rows |-> [r \in Rows(c) |-> Output(r, c, plan)],
                  sku  |-> [r \in Rows(c) |-> SkuRows(r, c, plan)]])
           /\ issues' = issues \cup UNION {CellIssues(r, c, plan) \cup SkuIssues(r, c, plan) :
                                              r \in Rows(c)}
    /\ UNCHANGED <<input, stage, round, decision, resolution, schemas, book, first>>

MappingRefused(c) ==
    /\ stage = "normalize" /\ NextCategory(c)
    /\ ConfirmationsClash(Confirmed(c))
    /\ stage' = "failed"
    /\ UNCHANGED <<input, round, decision, resolution, schemas, sheet, issues, book, first>>

-----------------------------------------------------------------------------
(* _record_quality_issues, over all category sheets.                        *)

Placed == {p \in SourceRows \X DOMAIN sheet : p[1] \in DOMAIN sheet[p[2]].rows}
Value(p, f) == sheet[p[2]].rows[p[1]].fields[f]

Field(id) == CHOOSE f \in FixedFields : f.id = id

\* Fixed fields are parsed again, from the output: a value out of bounds counts.
HasKey(p, ids) == \A i \in ids : Value(p, i) # Blank /\ Parses(Value(p, i), Field(i))
SameKey(p, q, ids) ==
    \A i \in ids : Canonical(Value(p, i), Field(i)) = Canonical(Value(q, i), Field(i))

Repeated(ids) ==
    {p \in Placed : HasKey(p, ids) /\
        \E q \in Placed : q # p /\ HasKey(q, ids) /\ SameKey(p, q, ids)}

\* A platform value counts within its category, unless it was refused.
Countable(p, f) ==
    /\ Value(p, f.id) # Blank
    /\ \A i \in issues : i.type \in {"required_missing", "invalid_value"} =>
          <<i.row, i.category, i.field>> # <<p[1], p[2], f.id>>

RepeatedInCategory(c, f) ==
    {p \in Placed : p[2] = c /\ Countable(p, f) /\
        \E q \in Placed : /\ q # p /\ q[2] = c /\ Countable(q, f)
                          /\ Value(p, f.id) = Value(q, f.id)}

KeyIssues ==
    {Issue("duplicate_primary_key", p[1], p[2], None) :
        p \in IF PrimaryKey = {} THEN {} ELSE Repeated(PrimaryKey)}

FixedIssues(f)       == {Issue("unique_value", p[1], p[2], f.id) : p \in Repeated({f.id})}
PlatformIssues(c, f) == {Issue("unique_value", p[1], p[2], f.id) : p \in RepeatedInCategory(c, f)}

CrossIssues(p) ==
    {Issue("cross_field_error", p[1], p[2], f) :
        f \in CrossErrors([i \in {g.id : g \in FixedFields} |-> Value(p, i)])}

QualityIssues ==
    KeyIssues
    \cup (UNION {FixedIssues(f) : f \in {g \in FixedFields : g.unique}})
    \cup (UNION {UNION {PlatformIssues(c, f) : f \in {g \in schemas[c] : g.unique}} :
                    c \in DOMAIN sheet})
    \cup (UNION {CrossIssues(p) : p \in Placed})

\* Columns that cannot be given to a fixed field: issues of the header, row 0, and
\* of no category.
MappingIssues ==
    {Issue("ambiguous_mapping", 0, None, FixedMappings[k].field) :
        k \in {d \in DOMAIN FixedMappings : FixedMappings[d].status = "manual_review"}}

CheckQuality ==
    /\ stage = "normalize" /\ Grouped = DOMAIN sheet
    /\ issues' = issues \cup MappingIssues \cup QualityIssues
    /\ stage' = "copy"
    /\ UNCHANGED <<input, round, decision, resolution, schemas, sheet, book, first>>

ColumnItems(c) == {FieldItem(k, sheet[c].plan.mappings[k], c) : k \in sheet[c].plan.reviews}

Reviews == {CategoryItem(r) : r \in Unresolved} \cup UNION {ColumnItems(c) : c \in DOMAIN sheet}

\* A faulty version to test QuietResultIsCertain with: cells Excel cannot keep, and
\* products with too many variants, need no one.
FaultyRequiresReview == Reviews # {}

\* requires_manual_review.
RequiresReview ==
    \/ Reviews # {}
    \/ \E i \in issues : i.type \in {"excel_write_unsafe", "sku_combination_limit"}

-----------------------------------------------------------------------------
(* _render_product_development: a sheet that has a category's name, or the  *)
(* metadata sheet's, makes room for it; the other names avoid what is used. *)

MetadataName == <<"__ExcelAuditorMetadata">>

SkuName(name) == Append(name, "SKU")
HasSku(c) == \E r \in DOMAIN sheet[c].sku : sheet[c].sku[r] # {}

\* A faulty version to test SheetsAreKept with: the sheet is looked for without
\* regard to case, as the names in use are.
FaultyRoomFor(name, sheets) ==
    [n \in {m \in DOMAIN sheets : Folded(m) # Folded(name)} |-> sheets[n]]

\* The sheets without the one of exactly this name.
RoomFor(name, sheets) == [n \in DOMAIN sheets \ {name} |-> sheets[n]]

\* create_sheet of openpyxl numbers a name that a sheet has in whatever case.
Created(sheets, name, content) ==
    Extended(sheets, UniqueName(name, "1", Folds(DOMAIN sheets)), content)

\* A further sheet of the workbook b, under a name that is not used.
WithList(b, base, mark, content) ==
    LET name == UniqueName(base, mark, b.used)
    IN  [done   |-> b.done,
         used   |-> b.used \cup {Folded(name)},
         sheets |-> Created(b.sheets, name, content)]

CopyWorkbook ==
    /\ stage = "copy" /\ stage' = "render"
    /\ book' = [done |-> {}, used |-> Folds(input.sheets),
                sheets |-> [n \in input.sheets |-> <<"source", None>>]]
    /\ UNCHANGED <<input, round, decision, resolution, schemas, sheet, issues, first>>

\* The workbook with the rows of a category, instead of a sheet of its name.
WithRows(c) ==
    LET name == sheet[c].name
    IN  [done   |-> book.done \cup {c},
         used   |-> book.used \cup {Folded(name)},
         sheets |-> Created(RoomFor(name, book.sheets), name, <<"rows", c>>)]

\* The next category: its rows, and its SKU rows if it has any.
RenderCategory(c) ==
    /\ stage = "render"
    /\ c \in DOMAIN sheet \ book.done
    /\ \A d \in DOMAIN sheet \ book.done : d = c \/ IdBefore(c, d)
    /\ book' = IF HasSku(c) THEN WithList(WithRows(c), SkuName(sheet[c].name), c, <<"sku", c>>)
               ELSE WithRows(c)
    /\ UNCHANGED <<input, stage, round, decision, resolution, schemas, sheet, issues, first>>

WithReview(b) ==
    IF Unresolved = {} THEN b ELSE WithList(b, <<"review">>, "review", <<"review", None>>)
WithIssues(b) ==
    IF issues = {} THEN b ELSE WithList(b, <<"issues">>, "issues", <<"issues", None>>)
WithMetadata(b) ==
    [done   |-> b.done,
     used   |-> b.used,
     sheets |-> Created(RoomFor(MetadataName, b.sheets), MetadataName, <<"metadata", None>>)]

\* After the last category the list of open rows, that of the issues, and the
\* metadata sheet, which _worksheet_package_entry then asks for by its exact name.
RenderLists ==
    /\ stage = "render" /\ book.done = DOMAIN sheet
    /\ book' = WithMetadata(WithIssues(WithReview(book)))
    /\ stage' = IF MetadataName \notin DOMAIN book'.sheets THEN "failed"
                ELSE IF RequiresReview THEN "review" ELSE "completed"
    /\ UNCHANGED <<input, round, decision, resolution, schemas, sheet, issues, first>>

-----------------------------------------------------------------------------
(* The review, and the second round.                                        *)

Actions(type) ==
    CASE type = "category"         -> {"confirm_category", "reject"}
      [] type = "field_mapping"    -> {"confirm_mapping", "keep_extra", "reject"}
      [] type = "duplicate_header" -> {"keep_extra", "reject"}

\* decide_review of one item, as _validate_review_decision allows it.
Decide(item, action, target) ==
    /\ stage = "review" /\ round = 1
    /\ item \in Reviews \ DOMAIN decision
    /\ action \in Actions(item.type)
    /\ IF action \in {"confirm_category", "confirm_mapping"}
       THEN target \in item.candidates ELSE target = None
    /\ decision' = Extended(decision, item, [action |-> action, target |-> target])
    /\ UNCHANGED <<input, stage, round, resolution, schemas, sheet, issues, book, first>>

\* rerun_after_reviews.
Rerun ==
    /\ stage = "review" /\ round = 1
    /\ Reviews # {} /\ Reviews = DOMAIN decision /\ Answers("reject") = {}
    /\ round' = 2 /\ stage' = "resolve"
    /\ first' = [schemas |-> schemas, sheet |-> sheet]
    /\ resolution' = Empty /\ schemas' = Empty
    /\ sheet' = Empty /\ issues' = {} /\ book' = NoBook
    /\ UNCHANGED <<input, decision>>

Next ==
    \/ ResolveRows \/ RefuseWorkbook
    \/ FetchSchemas \/ FetchFails
    \/ \E c \in Grouped : NormalizeCategory(c) \/ MappingRefused(c)
    \/ CheckQuality \/ CopyWorkbook
    \/ \E c \in DOMAIN sheet : RenderCategory(c)
    \/ RenderLists
    \/ /\ stage = "review"
       /\ \E item \in Reviews :
          \E action \in Actions(item.type), target \in item.candidates \cup {None} :
             Decide(item, action, target)
    \/ Rerun

Spec == Init /\ [][Next]_vars

-----------------------------------------------------------------------------
(* Properties.                                                              *)

Settled == stage \in {"review", "completed"}

\* The parts of a result fit together: every step has the parts it reads.
TypeOK ==
    /\ stage \in {"resolve", "fetch", "normalize", "copy", "render", "review",
                 "completed", "failed"}
    /\ round \in {1, 2}
    /\ DOMAIN resolution \subseteq SourceRows
    /\ DOMAIN schemas \subseteq DOMAIN input.catalogue.fields
    /\ DOMAIN sheet \subseteq Grouped \cap DOMAIN schemas
    /\ \A c \in DOMAIN sheet : DOMAIN sheet[c].rows = Rows(c)
    /\ \A i \in issues : i.type # "ambiguous_mapping" => i.row \in DOMAIN sheet[i.category].rows

\* No cell is lost: each column of the workbook is one field of every category
\* sheet, and no two columns are the same field.
ColumnsAreKept ==
    \A c \in DOMAIN sheet : \A k \in DOMAIN input.headers :
        LET plan == sheet[c].plan
        IN  Cardinality({f \in DOMAIN plan.column : plan.column[f] = k})
            + Cardinality({e \in DOMAIN plan.extras : plan.extras[e] = k}) = 1

\* A row is put in a category without a reviewer only if what the row says names
\* that category and no other.
NothingIsGuessed ==
    \A c \in DOMAIN sheet : \A r \in DOMAIN sheet[c].rows \ DOMAIN Overrides :
        LET id == FixedValue(r, IdField)
            named == IF FixedValue(r, NameField) = Blank THEN {}
                     ELSE Owners(Token(FixedValue(r, NameField)), CategoryNames)
        IN  named \cup ({id} \ {Blank}) = {c}

\* A result that asks for no review is certain: every row is in a sheet, and every
\* column is a field's by its exact name or resembles no field.
QuietResultIsCertain ==
    stage = "completed" =>
        /\ SourceRows = UNION {DOMAIN sheet[c].rows : c \in DOMAIN sheet}
        /\ \A c \in DOMAIN sheet : \A k \in DOMAIN input.headers \ ForcedExtra(c) :
              LET names == FieldNames(Targets(c))
                  owners == Claimants(input.headers[k], names, Confirmed(c))
              IN  \/ \E f \in owners : owners = {f} /\ sheet[c].plan.column[f] = k
                  \/ /\ owners = {}
                     /\ Similar(Token(input.headers[k]), names, MappingThreshold) = {}
        /\ \A i \in issues : i.type \notin {"excel_write_unsafe", "sku_combination_limit"}

\* Answers are kept by header: the later one stands for both columns.
Overwritten(i) ==
    \E j \in Answers("confirm_mapping") :
        /\ j.category = i.category /\ input.headers[j.at] = input.headers[i.at]
        /\ decision[j].target # decision[i].target

\* The revision does what the reviewers decided: a confirmed row is in its
\* category, a column kept as a merchant column is one and is not asked about
\* again, and a confirmed field is filled, by this column or by another one that
\* claims it, unless a column with the same header was given another field.
AnswersAreHonoured ==
    round = 2 /\ Settled =>
        /\ \A r \in DOMAIN Overrides :
              \E c \in DOMAIN sheet : c = Overrides[r] /\ r \in DOMAIN sheet[c].rows
        /\ \A i \in Answers("keep_extra") : i.at \in Range(sheet[i.category].plan.extras)
                                            /\ i.at \notin sheet[i.category].plan.reviews
        /\ \A i \in Answers("confirm_mapping") : ~Overwritten(i) =>
              LET plan == sheet[i.category].plan
                  k    == plan.column[decision[i].target]
              IN  \/ k = i.at
                  \/ k # 0 /\ plan.mappings[i.at].status = "manual_review"

\* An answer about a column of one category changes nothing in another.
AnswersStayInTheirCategory ==
    round = 2 => \A c \in DOMAIN sheet \cap DOMAIN first.sheet :
        (\A i \in DOMAIN decision : i.category # c) =>
            sheet[c].plan = first.sheet[c].plan

\* The workbook has a sheet that is called as the metadata sheet but for the case.
MetadataTaken ==
    \E n \in DOMAIN book.sheets : n # MetadataName /\ Folded(n) = Folded(MetadataName)

\* The revision can be computed from the frozen catalogue and rendered, whatever was
\* decided, unless two headers that read the same were given two fields, or the
\* metadata sheet cannot have its name.
RevisionIsComputable ==
    round = 2 /\ stage = "failed" =>
        (\E c \in Grouped : ConfirmationsClash(Confirmed(c))) \/ MetadataTaken

\* The names rendering makes room for.
Replaced == {sheet[c].name : c \in DOMAIN sheet} \cup {MetadataName}

\* A category is named as the metadata sheet, or one of the names rendering makes
\* room for is what another sheet it writes may be called.
NamesMeet ==
    \E c \in DOMAIN sheet :
        \/ sheet[c].name = MetadataName
        \/ \E n \in Replaced : \E j, k \in 0 .. Len(n) :
              \/ k > 0 /\ n = NumberedName(sheet[c].name, "1", k)
              \/ n = NumberedName(NumberedName(SkuName(sheet[c].name), c, j), "1", k)

\* What rendering writes besides the metadata.
Written ==
    {<<"rows", c>> : c \in DOMAIN sheet} \cup {<<"sku", c>> : c \in {d \in DOMAIN sheet : HasSku(d)}}
    \cup (IF Unresolved = {} THEN {} ELSE {<<"review", None>>})
    \cup (IF issues = {} THEN {} ELSE {<<"issues", None>>})

\* The workbook has the merchant's sheets, all but those with exactly the name of a
\* category or of the metadata sheet, whatever names differ in case only; it has the
\* metadata; and it has every category sheet, every SKU sheet, and the lists of open
\* rows and issues, unless names meet.
SheetsAreKept ==
    Settled =>
        /\ \A n \in input.sheets \ Replaced :
              n \in DOMAIN book.sheets /\ book.sheets[n] = <<"source", None>>
        /\ MetadataName \in DOMAIN book.sheets /\ book.sheets[MetadataName] = <<"metadata", None>>
        /\ ~NamesMeet => Written \subseteq Range(book.sheets)

=============================================================================
