---------------------------- MODULE ProductMapping ----------------------------
(***************************************************************************)
(* The pure algorithms of the product workflow: which category a row       *)
(* belongs to (category.py), which field a physical column holds           *)
(* (mapping.py), the output fields of a category (schema_builder.py), and  *)
(* what a cell of a field becomes (normalizer.py).                         *)
(*                                                                         *)
(* A header is a raw cell; Token is what normalize_header and casefold     *)
(* make of it.  Identifiers are compared by their place in Ids, the order  *)
(* of the strings.  The limit of process.extract (12 and 9 names) is not   *)
(* modelled: an instance has fewer names.                                  *)
(***************************************************************************)
EXTENDS Naturals, Sequences, FiniteSets, FiniteSetsExt

CONSTANTS
    Token(_),           \* of a raw header or category name
    Score(_, _),        \* rapidfuzz's ratio of two tokens, 0..100
    CategoryThreshold,  \* minimum_category_confidence
    MappingThreshold,   \* mapping_fuzzy_threshold
    ScoreMargin,        \* category_candidate_score_margin
    MaxCandidates,      \* 3 in both algorithms
    Ids,                \* category and field identifiers, in order
    Parses(_, _),       \* parse_excel_value accepts a cell for a field
    WriteSafe(_, _),    \* Excel keeps the parsed number or date
    InBounds(_, _),     \* _validate_scalar has nothing to say of it
    Items(_)            \* a cell split at its separators, a set

Blank == ""
None  == "none"

IdBefore(a, b) ==
    LET At(x) == CHOOSE i \in DOMAIN Ids : Ids[i] = x IN At(a) < At(b)

-----------------------------------------------------------------------------
(* Candidates.  names[x] is the set of tokens that stand for x.             *)

Owners(token, names) == {x \in DOMAIN names : token \in names[x]}

\* The best score of every owner whose names come close enough.
Similar(token, names, threshold) ==
    {[id |-> x, score |-> Max({Score(token, n) : n \in names[x]})] :
        x \in {y \in DOMAIN names : \E n \in names[y] : Score(token, n) >= threshold}}

Outranks(a, b) == \/ a.score > b.score
                  \/ a.score = b.score /\ IdBefore(a.id, b.id)

\* The first MaxCandidates of a ranking, as identifiers.
Best(scored) ==
    {a.id : a \in {b \in scored :
        Cardinality({o \in scored : Outranks(o, b)}) < MaxCandidates}}

\* Of a ranking, those within the margin of its first.
WithinMargin(scored) ==
    {a \in scored : \A b \in scored : b.score <= a.score + ScoreMargin}

-----------------------------------------------------------------------------
(* resolve_categories, for one row: its category id and category name.      *)

Resolved(category, match) ==
    [status |-> "resolved", match |-> match, category |-> category, candidates |-> {}]

Undecided(match, candidates) ==
    [status |-> IF candidates = {} THEN "unresolved" ELSE "manual_review",
     match |-> match, category |-> None, candidates |-> candidates]

\* A faulty version to test NothingIsGuessed with: the best suggestion of a misspelt
\* name is taken.
FaultyResolveByName(name, names) ==
    LET owners == Owners(Token(name), names)
        near   == Similar(Token(name), names, CategoryThreshold)
    IN  IF Cardinality(owners) = 1 THEN Resolved(CHOOSE c \in owners : TRUE, "exact")
        ELSE IF owners # {} THEN Undecided("ambiguous", owners)
        ELSE IF Cardinality(near) = 1 THEN Resolved((CHOOSE a \in near : TRUE).id, "exact")
        ELSE Undecided("missing", {})

\* The row names a category and gives no identifier.
ResolveByName(name, names) ==
    LET owners == Owners(Token(name), names)
        near   == Best(WithinMargin(Similar(Token(name), names, CategoryThreshold)))
    IN  CASE Cardinality(owners) = 1 ->
                Resolved(CHOOSE c \in owners : TRUE, "exact")
          [] Cardinality(owners) > 1 ->
                Undecided("ambiguous", Best({[id |-> c, score |-> 100] : c \in owners}))
          [] OTHER ->
                Undecided(IF near = {} THEN "missing" ELSE "fuzzy_suggestion", near)

\* names holds the active categories only.
ResolveCategory(id, name, names) ==
    LET owners == IF name = Blank THEN {} ELSE Owners(Token(name), names)
    IN  CASE id \in DOMAIN names /\ owners \ {id} # {} ->
                Undecided("id_name_conflict", owners \cup {id})
          [] id \in DOMAIN names /\ owners \ {id} = {} ->
                Resolved(id, "id")
          [] id \notin DOMAIN names /\ name = Blank ->
                Undecided(IF id = Blank THEN "missing" ELSE "invalid_id", {})
          [] id \notin DOMAIN names /\ name # Blank /\ id # Blank ->
                Undecided("invalid_id", owners)
          [] OTHER ->
                ResolveByName(name, names)

-----------------------------------------------------------------------------
(* map_product_headers: headers is a sequence of raw headers, fields a set  *)
(* of field records, confirmed maps raw headers to field identifiers, extra *)
(* holds the columns a reviewer kept as merchant fields.                    *)

FieldNames(fields) ==
    [f \in {g.id : g \in fields} |-> UNION {g.names : g \in {h \in fields : h.id = f}}]

ConfirmedFor(token, confirmed) ==
    {confirmed[h] : h \in {g \in DOMAIN confirmed : Token(g) = token}}

\* Two confirmed headers that are one token name two fields: the mapping raises.
ConfirmationsClash(confirmed) ==
    \E h \in DOMAIN confirmed : Cardinality(ConfirmedFor(Token(h), confirmed)) > 1

\* The fields that claim a column outright: a confirmation hides the names.
Claimants(header, names, confirmed) ==
    LET chosen == ConfirmedFor(Token(header), confirmed)
    IN  IF chosen # {} THEN chosen ELSE Owners(Token(header), names)

Mapping(match, status, field, candidates) ==
    [match |-> match, status |-> status, field |-> field, candidates |-> candidates]

\* No earlier column has the field.
FirstClaim(c, f, headers, names, confirmed, extra) ==
    \A d \in 1 .. c - 1 :
        d \in extra \/ Claimants(headers[d], names, confirmed) # {f}

MapHeader(c, headers, names, confirmed, extra) ==
    LET claims == Claimants(headers[c], names, confirmed)
        field  == CHOOSE f \in claims : TRUE
        near   == Best(Similar(Token(headers[c]), names, MappingThreshold))
    IN  CASE c \in extra ->
                Mapping("unmapped", "unmapped", None, {})
          [] c \notin extra /\ Cardinality(claims) = 1 ->
                IF FirstClaim(c, field, headers, names, confirmed, extra)
                THEN Mapping("exact", "accepted", field, {})
                ELSE Mapping("duplicate", "manual_review", field, {})
          [] c \notin extra /\ Cardinality(claims) > 1 ->
                Mapping("exact", "manual_review", None, claims)
          [] c \notin extra /\ claims = {} /\ near # {} ->
                Mapping("fuzzy_suggestion", "manual_review", None, near)
          [] OTHER ->
                Mapping("unmapped", "unmapped", None, {})

MapHeaders(headers, fields, confirmed, extra) ==
    LET names == FieldNames(fields)
    IN  [c \in DOMAIN headers |-> MapHeader(c, headers, names, confirmed, extra)]

Accepted(mappings, f) ==
    {c \in DOMAIN mappings : mappings[c].status = "accepted" /\ mappings[c].field = f}

-----------------------------------------------------------------------------
(* build_dynamic_schema.                                                    *)

\* A faulty version to test ColumnsAreKept with: no suffix, so that two extra
\* columns of one header are one field.
FaultyExtraId(c, headers, mappings) == <<Token(headers[c]), 1>>

\* The identifier of the merchant field made of a column: the digest of its header,
\* and a suffix when an earlier merchant field has it.
ExtraId(c, headers, mappings) ==
    <<Token(headers[c]),
      Cardinality({d \in 1 .. c : /\ mappings[d].status # "accepted"
                                  /\ Token(headers[d]) = Token(headers[c])})>>

\* What a category's sheet holds: the column of every fixed and platform field, 0
\* when the workbook has none, and the column of every merchant field; and the
\* columns a reviewer is asked about.
Plan(headers, fields, mappings) ==
    LET spare == {c \in DOMAIN mappings : mappings[c].status # "accepted"}
        extraIds == {ExtraId(c, headers, mappings) : c \in spare}
    IN  [column   |-> [f \in {g.id : g \in fields} |->
                          IF Accepted(mappings, f) = {} THEN 0
                          ELSE CHOOSE c \in Accepted(mappings, f) : TRUE],
         extras   |-> [e \in extraIds |->
                          CHOOSE c \in spare : ExtraId(c, headers, mappings) = e],
         mappings |-> mappings,
         reviews  |-> {c \in DOMAIN mappings : mappings[c].status = "manual_review"}]

-----------------------------------------------------------------------------
(* _normalize_field: the error of a cell, "none" when it has none.          *)

IsUnsafe(v, f) == f.type \in {"number", "date"} /\ ~WriteSafe(v, f)

CellError(v, f) ==
    CASE v = Blank ->
            IF f.required THEN "required_missing" ELSE None
      [] v # Blank /\ f.source # "fixed" /\ f.multiple ->
            IF (f.enum # {} /\ ~(Items(v) \subseteq f.enum)) \/ ~InBounds(v, f)
            THEN "invalid_value" ELSE None
      [] v # Blank /\ ~(f.source # "fixed" /\ f.multiple) /\ ~Parses(v, f) ->
            "invalid_value"
      [] v # Blank /\ ~(f.source # "fixed" /\ f.multiple) /\ Parses(v, f) ->
            IF IsUnsafe(v, f) THEN "excel_write_unsafe"
            ELSE IF ~InBounds(v, f) THEN "invalid_value" ELSE None

\* _sku_values: the options a cell offers.
SkuOptions(v, f) == IF f.multiple /\ Items(v) # {} THEN Items(v) ELSE {v}

\* The combinations of the options of a row's specification fields.
SkuCombinations(value, specifications) ==
    LET options == [i \in {f.id : f \in specifications} |->
                       SkuOptions(value[i], CHOOSE f \in specifications : f.id = i)]
    IN  {g \in [DOMAIN options -> UNION {options[i] : i \in DOMAIN options}] :
            \A i \in DOMAIN options : g[i] \in options[i]}

=============================================================================
