------------------------- MODULE ProductMappingProofs -------------------------
(***************************************************************************)
(* What the algorithms of the product workflow guarantee, for every table  *)
(* of tokens and scores, every header row and every set of fields.         *)
(***************************************************************************)
EXTENDS ProductMapping, FiniteSetTheorems, TLAPS

-----------------------------------------------------------------------------
(* Facts about sets.                                                        *)

\* A set of naturals has a least element.
LEMMA LeastNatural ==
    ASSUME NEW T, T \subseteq Nat, T # {}
    PROVE  \E x \in T : \A y \in T : x <= y
<1> DEFINE R == OpToRel(<, Nat)
<1>1. IsWellFoundedOn(R, Nat)
  BY NatLessThanWellFounded, Zenon
<1>2. \A x \in Nat, y \in Nat : y < x => <<y, x>> \in R
  BY Zenon DEF OpToRel
<1> HIDE DEF R
<1>3. PICK x \in T : \A y \in T : ~ (<<y, x>> \in R)
  BY <1>1, WFMin
<1>4. \A y \in T : ~ (y < x)
  BY <1>2, <1>3
<1> QED
  BY <1>4

\* A set with one element is what CHOOSE takes from it.
LEMMA OneElement ==
    ASSUME NEW S, IsFiniteSet(S), Cardinality(S) = 1
    PROVE  S = {CHOOSE x \in S : TRUE}
<1>1. PICK x : S = {x}
  BY FS_Singleton
<1> QED
  BY <1>1

-----------------------------------------------------------------------------
(* Which category a row belongs to.                                         *)

\* The owners of a token are among those that have names.
LEMMA OwnersFinite ==
    ASSUME NEW token, NEW names, IsFiniteSet(DOMAIN names)
    PROVE  IsFiniteSet(Owners(token, names)) /\ Owners(token, names) \subseteq DOMAIN names
<1>1. Owners(token, names) \subseteq DOMAIN names
  BY DEF Owners
<1> QED
  BY <1>1, FS_Subset

\* Whatever a row says, its resolution names a category, offers candidates to a
\* reviewer, or offers none.
LEMMA ResolutionShape ==
    ASSUME NEW id, NEW name, NEW names
    PROVE  LET res == ResolveCategory(id, name, names)
           IN  \/ res.status = "resolved" /\ res.candidates = {}
               \/ res.status = "manual_review" /\ res.candidates # {}
               \/ res.status = "unresolved" /\ res.candidates = {}
<1> DEFINE Fits(res) == \/ res.status = "resolved" /\ res.candidates = {}
                        \/ res.status = "manual_review" /\ res.candidates # {}
                        \/ res.status = "unresolved" /\ res.candidates = {}
<1>1. \A c, m : Fits(Resolved(c, m))
  BY DEF Resolved
<1>2. \A m, s : Fits(Undecided(m, s))
  BY DEF Undecided
<1> HIDE DEF Fits
<1>3. Fits(ResolveByName(name, names))
  BY <1>1, <1>2, Zenon DEF ResolveByName
<1>4. Fits(ResolveCategory(id, name, names))
  BY <1>1, <1>2, <1>3, Zenon DEF ResolveCategory
<1> QED
  BY <1>4 DEF Fits

\* A row that is resolved names its category, by identifier or by name, and no
\* other one.
LEMMA ResolvedIsNamed ==
    ASSUME NEW id, NEW name, NEW names,
           IsFiniteSet(DOMAIN names), Blank \notin DOMAIN names,
           ResolveCategory(id, name, names).status = "resolved"
    PROVE  LET named == IF name = Blank THEN {} ELSE Owners(Token(name), names)
           IN  named \cup ({id} \ {Blank}) = {ResolveCategory(id, name, names).category}
<1> DEFINE owners == Owners(Token(name), names)
           named  == IF name = Blank THEN {} ELSE owners
           res    == ResolveCategory(id, name, names)
<1>1. IsFiniteSet(owners)
  BY OwnersFinite
<1>2. \A m, s : Undecided(m, s).status # "resolved"
  BY DEF Undecided
<1>3. \A c, m : Resolved(c, m).category = c
  BY DEF Resolved
<1>4. CASE id \in DOMAIN names
  <2>1. named \ {id} = {} /\ res = Resolved(id, "id")
    BY <1>2, <1>4 DEF ResolveCategory
  <2>2. id # Blank
    BY <1>4
  <2> QED
    BY <1>3, <2>1, <2>2
<1>5. CASE id \notin DOMAIN names
  <2>1. name # Blank /\ id = Blank /\ res = ResolveByName(name, names)
    BY <1>2, <1>5 DEF ResolveCategory
  <2>2. Cardinality(owners) = 1 /\ res = Resolved(CHOOSE c \in owners : TRUE, "exact")
    BY <1>2, <2>1 DEF ResolveByName
  <2>3. owners = {CHOOSE c \in owners : TRUE}
    BY <1>1, <2>2, OneElement
  <2> QED
    BY <1>3, <2>1, <2>2, <2>3
<1> QED
  BY <1>4, <1>5

-----------------------------------------------------------------------------
(* Which field a column holds.                                              *)

Identifiers(fields) == {g.id : g \in fields}

\* What a reviewer confirmed fits the fields of the category.
Fits(confirmed, fields) ==
    /\ IsFiniteSet(DOMAIN confirmed)
    /\ \A h \in DOMAIN confirmed : confirmed[h] \in Identifiers(fields)

LEMMA IdentifiersFinite ==
    ASSUME NEW fields, IsFiniteSet(fields)
    PROVE  /\ DOMAIN FieldNames(fields) = Identifiers(fields)
           /\ IsFiniteSet(Identifiers(fields))
<1> DEFINE f == [g \in fields |-> g.id]
<1>1. f \in Surjection(fields, Identifiers(fields))
  BY DEF Identifiers, Surjection
<1>2. IsFiniteSet(Identifiers(fields))
  <2> HIDE DEF f
  <2> QED
    BY <1>1, FS_Surjection
<1> QED
  BY <1>2 DEF FieldNames, Identifiers

\* The fields that claim a column are finitely many fields of the category.
LEMMA ClaimsFit ==
    ASSUME NEW header, NEW fields, IsFiniteSet(fields), NEW confirmed, Fits(confirmed, fields)
    PROVE  LET claims == Claimants(header, FieldNames(fields), confirmed)
           IN  IsFiniteSet(claims) /\ claims \subseteq Identifiers(fields)
<1> DEFINE names  == FieldNames(fields)
           heads  == {g \in DOMAIN confirmed : Token(g) = Token(header)}
           chosen == {confirmed[h] : h \in heads}
           f      == [h \in heads |-> confirmed[h]]
<1>1. IsFiniteSet(heads)
  <2>1. heads \subseteq DOMAIN confirmed
    OBVIOUS
  <2> QED
    BY <2>1, FS_Subset DEF Fits
<1>2. f \in Surjection(heads, chosen)
  BY DEF Surjection
<1>3. IsFiniteSet(chosen)
  <2> HIDE DEF heads, chosen, f
  <2> QED
    BY <1>1, <1>2, FS_Surjection
<1>4. chosen \subseteq Identifiers(fields)
  BY DEF Fits
<1>5. IsFiniteSet(Owners(Token(header), names)) /\ Owners(Token(header), names) \subseteq Identifiers(fields)
  BY IdentifiersFinite, OwnersFinite
<1>6. \/ Claimants(header, names, confirmed) = chosen
      \/ Claimants(header, names, confirmed) = Owners(Token(header), names)
  BY DEF Claimants, ConfirmedFor
<1> QED
  BY <1>3, <1>4, <1>5, <1>6

\* The mapping of a column, by the fields that claim it.
LEMMA MappingCases ==
    ASSUME NEW headers, NEW names, NEW confirmed, NEW extra, NEW c,
           IsFiniteSet(Claimants(headers[c], names, confirmed))
    PROVE  LET m      == MapHeader(c, headers, names, confirmed, extra)
               claims == Claimants(headers[c], names, confirmed)
               near   == Best(Similar(Token(headers[c]), names, MappingThreshold))
           IN  /\ m.status = "accepted" <=>
                     c \notin extra /\ claims = {m.field}
                     /\ FirstClaim(c, m.field, headers, names, confirmed, extra)
               /\ m.status = "unmapped" <=> c \in extra \/ (claims = {} /\ near = {})
               /\ m.status \in {"accepted", "unmapped", "manual_review"}
               /\ m.candidates \subseteq claims \cup near
<1> DEFINE m      == MapHeader(c, headers, names, confirmed, extra)
           claims == Claimants(headers[c], names, confirmed)
           near   == Best(Similar(Token(headers[c]), names, MappingThreshold))
           field  == CHOOSE f \in claims : TRUE
           First(f) == FirstClaim(c, f, headers, names, confirmed, extra)
<1>1. IsFiniteSet(claims) /\ Cardinality(claims) \in Nat
  BY FS_CardinalityType
<1>2. Cardinality(claims) = 1 => claims = {field}
  BY <1>1, OneElement
<1>3. \A f : claims = {f} => Cardinality(claims) = 1 /\ f = field
  BY FS_Singleton
<1>4. claims = {} <=> Cardinality(claims) = 0
  BY <1>1, FS_EmptySet
<1>5. \A match, status, f, candidates :
        LET r == Mapping(match, status, f, candidates)
        IN  r.status = status /\ r.field = f /\ r.candidates = candidates
  BY DEF Mapping
<1> DEFINE Exact == IF First(field) THEN Mapping("exact", "accepted", field, {})
                    ELSE Mapping("duplicate", "manual_review", field, {})
           Goal == /\ m.status = "accepted" <=>
                          c \notin extra /\ claims = {m.field} /\ First(m.field)
                   /\ m.status = "unmapped" <=> c \in extra \/ (claims = {} /\ near = {})
                   /\ m.status \in {"accepted", "unmapped", "manual_review"}
                   /\ m.candidates \subseteq claims \cup near
<1>0. m = CASE c \in extra -> Mapping("unmapped", "unmapped", None, {})
            [] c \notin extra /\ Cardinality(claims) = 1 -> Exact
            [] c \notin extra /\ Cardinality(claims) > 1 ->
                  Mapping("exact", "manual_review", None, claims)
            [] c \notin extra /\ claims = {} /\ near # {} ->
                  Mapping("fuzzy_suggestion", "manual_review", None, near)
            [] OTHER -> Mapping("unmapped", "unmapped", None, {})
  BY Zenon DEF MapHeader
<1> HIDE DEF m, claims, near, field, First, Exact
<1>6. ASSUME c \in extra PROVE Goal
  <2>1. m = Mapping("unmapped", "unmapped", None, {})
    BY <1>0, <1>6
  <2> QED
    BY <1>5, <1>6, <2>1
<1>7. ASSUME c \notin extra /\ Cardinality(claims) = 1 PROVE Goal
  <2>1. m = Exact
    BY <1>0, <1>4, <1>7
  <2>2. CASE First(field)
    <3>1. m.status = "accepted" /\ m.field = field /\ m.candidates = {}
      BY <1>5, <2>1, <2>2 DEF Exact
    <3> QED
      BY <1>2, <1>7, <2>2, <3>1
  <2>3. CASE ~First(field)
    <3>1. m.status = "manual_review" /\ m.field = field /\ m.candidates = {}
      BY <1>5, <2>1, <2>3 DEF Exact
    <3> QED
      BY <1>2, <1>7, <2>3, <3>1
  <2> QED
    BY <2>2, <2>3
<1>8. ASSUME c \notin extra /\ Cardinality(claims) > 1 PROVE Goal
  <2>1. m = Mapping("exact", "manual_review", None, claims)
    BY <1>0, <1>1, <1>4, <1>8
  <2>2. \A f : claims # {f}
    BY <1>3, <1>8
  <2>3. claims # {}
    BY <1>4, <1>8
  <2>4. m.status = "manual_review" /\ m.candidates = claims
    BY <1>5, <2>1
  <2> QED
    BY <1>8, <2>2, <2>3, <2>4
<1>9. ASSUME c \notin extra /\ claims = {} /\ near # {} PROVE Goal
  <2>1. m = Mapping("fuzzy_suggestion", "manual_review", None, near)
    BY <1>0, <1>4, <1>9
  <2> QED
    BY <1>5, <1>9, <2>1
<1>10. ASSUME c \notin extra /\ claims = {} /\ near = {} PROVE Goal
  <2>1. m = Mapping("unmapped", "unmapped", None, {})
    BY <1>0, <1>4, <1>10
  <2> QED
    BY <1>5, <1>10, <2>1
<1>11. \/ c \in extra
       \/ c \notin extra /\ Cardinality(claims) = 1
       \/ c \notin extra /\ Cardinality(claims) > 1
       \/ c \notin extra /\ claims = {} /\ near # {}
       \/ c \notin extra /\ claims = {} /\ near = {}
  BY <1>1, <1>4
<1> QED
  BY <1>6, <1>7, <1>8, <1>9, <1>10, <1>11, Zenon DEF Goal, m, claims, near, First

\* A reviewer is offered fields of the category only.
LEMMA SuggestionsAreNamed ==
    ASSUME NEW token, NEW names, NEW threshold
    PROVE  Best(Similar(token, names, threshold)) \subseteq DOMAIN names
<1>1. ASSUME NEW a \in Similar(token, names, threshold) PROVE a.id \in DOMAIN names
  <2>1. PICK x \in DOMAIN names :
           a = [id |-> x, score |-> Max({Score(token, m) : m \in names[x]})]
    BY Zenon DEF Similar
  <2> QED
    BY <2>1
<1> QED
  BY <1>1 DEF Best

LEMMA CandidatesAreFields ==
    ASSUME NEW headers, NEW fields, IsFiniteSet(fields), NEW confirmed,
           Fits(confirmed, fields), NEW extra, NEW c \in DOMAIN headers
    PROVE  MapHeaders(headers, fields, confirmed, extra)[c].candidates \subseteq Identifiers(fields)
<1> DEFINE names == FieldNames(fields)
<1>1. /\ IsFiniteSet(Claimants(headers[c], names, confirmed))
      /\ Claimants(headers[c], names, confirmed) \subseteq Identifiers(fields)
  BY ClaimsFit
<1>2. Best(Similar(Token(headers[c]), names, MappingThreshold)) \subseteq Identifiers(fields)
  BY SuggestionsAreNamed, IdentifiersFinite
<1>3. MapHeaders(headers, fields, confirmed, extra)[c] = MapHeader(c, headers, names, confirmed, extra)
  BY DEF MapHeaders
<1> HIDE DEF names
<1>4. MapHeader(c, headers, names, confirmed, extra).candidates
         \subseteq Claimants(headers[c], names, confirmed)
                     \cup Best(Similar(Token(headers[c]), names, MappingThreshold))
  BY <1>1, MappingCases, Zenon
<1> QED
  BY <1>1, <1>2, <1>3, <1>4

\* An accepted column is claimed by one field of the category, and no other column
\* is accepted for that field.
LEMMA AcceptedOnce ==
    ASSUME NEW n \in Nat, NEW headers, DOMAIN headers = 1 .. n,
           NEW fields, IsFiniteSet(fields), NEW confirmed, Fits(confirmed, fields), NEW extra,
           NEW c \in 1 .. n,
           MapHeaders(headers, fields, confirmed, extra)[c].status = "accepted"
    PROVE  LET mappings == MapHeaders(headers, fields, confirmed, extra)
           IN  /\ mappings[c].field \in Identifiers(fields)
               /\ c \notin extra
               /\ Claimants(headers[c], FieldNames(fields), confirmed) = {mappings[c].field}
               /\ Accepted(mappings, mappings[c].field) = {c}
<1> DEFINE mappings  == MapHeaders(headers, fields, confirmed, extra)
           names     == FieldNames(fields)
           Claims(d) == Claimants(headers[d], names, confirmed)
<1>1. \A d \in 1 .. n : IsFiniteSet(Claims(d)) /\ Claims(d) \subseteq Identifiers(fields)
  BY ClaimsFit
<1>2. DOMAIN mappings = 1 .. n
  BY DEF MapHeaders
<1>3. ASSUME NEW d \in 1 .. n, mappings[d].status = "accepted"
      PROVE  /\ d \notin extra /\ Claims(d) = {mappings[d].field}
             /\ FirstClaim(d, mappings[d].field, headers, names, confirmed, extra)
  <2>1. mappings[d] = MapHeader(d, headers, names, confirmed, extra)
    BY DEF MapHeaders
  <2>2. IsFiniteSet(Claims(d))
    BY <1>1
  <2> DEFINE m == MapHeader(d, headers, names, confirmed, extra)
  <2> HIDE DEF mappings, names
  <2>3. m.status = "accepted" =>
           /\ d \notin extra /\ Claims(d) = {m.field}
           /\ FirstClaim(d, m.field, headers, names, confirmed, extra)
    BY <2>2, MappingCases, Zenon
  <2> HIDE DEF m
  <2> QED
    BY <1>3, <2>1, <2>3 DEF m
<1>4. ASSUME NEW d \in 1 .. n, NEW e \in 1 .. n, d < e,
             mappings[d].status = "accepted", mappings[e].status = "accepted",
             mappings[d].field = mappings[e].field
      PROVE  FALSE
  <2>1. d \in 1 .. e - 1
    BY <1>4
  <2>2. d \in extra \/ Claims(d) # {mappings[e].field}
    BY <1>3, <1>4, <2>1 DEF FirstClaim
  <2> QED
    BY <1>3, <1>4, <2>2
<1>5. Accepted(mappings, mappings[c].field) = {c}
  <2> SUFFICES ASSUME NEW d \in 1 .. n, mappings[d].status = "accepted",
                      mappings[d].field = mappings[c].field
               PROVE  d = c
    BY <1>2 DEF Accepted
  <2>1. ~(d < c) /\ ~(c < d)
    BY <1>4
  <2> QED
    BY <2>1
<1> QED
  BY <1>1, <1>3, <1>5

\* Two columns that are no field's are two merchant fields.
LEMMA ExtraIdsDiffer ==
    ASSUME NEW n \in Nat, NEW headers, NEW mappings, DOMAIN mappings = 1 .. n,
           NEW c \in 1 .. n, NEW d \in 1 .. n,
           mappings[c].status # "accepted", mappings[d].status # "accepted",
           ExtraId(c, headers, mappings) = ExtraId(d, headers, mappings)
    PROVE  c = d
<1> DEFINE Same(k) == {e \in 1 .. k : /\ mappings[e].status # "accepted"
                                      /\ Token(headers[e]) = Token(headers[k])}
<1>1. ASSUME NEW k \in 1 .. n, NEW l \in 1 .. n, k < l,
             mappings[l].status # "accepted", Token(headers[k]) = Token(headers[l])
      PROVE  Cardinality(Same(k)) # Cardinality(Same(l))
  <2>1. IsFiniteSet(Same(l))
    <3>1. IsFiniteSet(1 .. l) /\ Same(l) \subseteq 1 .. l
      BY FS_Interval
    <3> QED
      BY <3>1, FS_Subset
  <2>2. Same(k) \subseteq Same(l) /\ l \in Same(l) /\ l \notin Same(k)
    BY <1>1
  <2> HIDE DEF Same
  <2> QED
    BY <2>1, <2>2, FS_Subset
<1>2. Token(headers[c]) = Token(headers[d]) /\ Cardinality(Same(c)) = Cardinality(Same(d))
  BY DEF ExtraId
<1>3. ~(c < d) /\ ~(d < c)
  BY <1>1, <1>2
<1> QED
  BY <1>3

\* Where the plan of a sheet puts a column.
LEMMA PlanOfColumn ==
    ASSUME NEW n \in Nat, NEW headers, DOMAIN headers = 1 .. n,
           NEW fields, IsFiniteSet(fields), NEW confirmed, Fits(confirmed, fields), NEW extra
    PROVE  LET mappings == MapHeaders(headers, fields, confirmed, extra)
               plan     == Plan(headers, fields, mappings)
               Id(c)    == ExtraId(c, headers, mappings)
           IN  /\ DOMAIN mappings = 1 .. n
               /\ plan.mappings = mappings
               /\ plan.reviews = {c \in 1 .. n : mappings[c].status = "manual_review"}
               /\ DOMAIN plan.column = Identifiers(fields)
               /\ \A f \in Identifiers(fields) :
                     plan.column[f] = 0 \/ plan.column[f] \in Accepted(mappings, f)
               /\ \A f \in Identifiers(fields) : \A c \in Accepted(mappings, f) : plan.column[f] = c
               /\ \A c \in 1 .. n : mappings[c].status # "accepted" =>
                     Id(c) \in DOMAIN plan.extras /\ plan.extras[Id(c)] = c
               /\ \A e \in DOMAIN plan.extras :
                     /\ plan.extras[e] \in 1 .. n /\ Id(plan.extras[e]) = e
                     /\ mappings[plan.extras[e]].status # "accepted"
<1> DEFINE mappings == MapHeaders(headers, fields, confirmed, extra)
           plan     == Plan(headers, fields, mappings)
           Id(c)    == ExtraId(c, headers, mappings)
           spare    == {c \in DOMAIN mappings : mappings[c].status # "accepted"}
           reviews  == {c \in DOMAIN mappings : mappings[c].status = "manual_review"}
           column   == [f \in {g.id : g \in fields} |->
                          IF Accepted(mappings, f) = {} THEN 0
                          ELSE CHOOSE c \in Accepted(mappings, f) : TRUE]
           extras   == [e \in {Id(c) : c \in spare} |-> CHOOSE c \in spare : Id(c) = e]
<1>1. DOMAIN mappings = 1 .. n
  BY DEF MapHeaders
<1>2. \A f : \A c \in Accepted(mappings, f) : Accepted(mappings, f) = {c}
  <2> SUFFICES ASSUME NEW f, NEW c \in Accepted(mappings, f)
               PROVE  Accepted(mappings, f) = {c}
    OBVIOUS
  <2>1. c \in 1 .. n /\ mappings[c].status = "accepted" /\ mappings[c].field = f
    BY <1>1 DEF Accepted
  <2>2. Accepted(mappings, mappings[c].field) = {c}
    BY <2>1, AcceptedOnce
  <2> QED
    BY <2>1, <2>2
<1>3. \A c \in spare, d \in spare : Id(c) = Id(d) => c = d
  <2> HIDE DEF mappings
  <2> QED
    BY <1>1, ExtraIdsDiffer
<1>4. plan.mappings = mappings /\ plan.column = column /\ plan.extras = extras /\ plan.reviews = reviews
  <2>1. plan = [column |-> column, extras |-> extras, mappings |-> mappings, reviews |-> reviews]
    BY Zenon DEF Plan
  <2> HIDE DEF plan, column, extras, mappings, reviews
  <2> QED
    BY <2>1
<1>5. \A e \in DOMAIN extras : extras[e] \in spare /\ Id(extras[e]) = e
  <2> HIDE DEF spare, Id
  <2> QED
    OBVIOUS
<1>6. \A c \in spare : Id(c) \in DOMAIN extras /\ extras[Id(c)] = c
  <2> HIDE DEF spare, Id
  <2> QED
    BY <1>3, <1>5
<1>7. /\ DOMAIN column = Identifiers(fields)
      /\ \A f \in Identifiers(fields) : column[f] = 0 \/ column[f] \in Accepted(mappings, f)
      /\ \A f \in Identifiers(fields) : \A c \in Accepted(mappings, f) : column[f] = c
  <2> HIDE DEF mappings
  <2> QED
    BY <1>2 DEF Identifiers
<1>10. plan.reviews = {c \in 1 .. n : mappings[c].status = "manual_review"}
  <2> HIDE DEF mappings, plan
  <2> QED
    BY <1>1, <1>4
<1> HIDE DEF mappings, plan, column, extras, Id
<1>8. /\ \A c \in 1 .. n : mappings[c].status # "accepted" =>
            Id(c) \in DOMAIN plan.extras /\ plan.extras[Id(c)] = c
      /\ \A e \in DOMAIN plan.extras :
            /\ plan.extras[e] \in 1 .. n /\ Id(plan.extras[e]) = e
            /\ mappings[plan.extras[e]].status # "accepted"
  BY <1>1, <1>4, <1>5, <1>6
<1>9. /\ DOMAIN plan.column = Identifiers(fields)
      /\ \A f \in Identifiers(fields) : plan.column[f] = 0 \/ plan.column[f] \in Accepted(mappings, f)
      /\ \A f \in Identifiers(fields) : \A c \in Accepted(mappings, f) : plan.column[f] = c
  BY <1>4, <1>7
<1> QED
  BY <1>1, <1>4, <1>8, <1>9, <1>10, Zenon DEF mappings, plan, Id

\* Each column of the workbook is one field of the sheet.
LEMMA EachColumnOnce ==
    ASSUME NEW n \in Nat, NEW headers, DOMAIN headers = 1 .. n,
           NEW fields, IsFiniteSet(fields), NEW confirmed, Fits(confirmed, fields), NEW extra,
           NEW k \in 1 .. n
    PROVE  LET plan == Plan(headers, fields, MapHeaders(headers, fields, confirmed, extra))
           IN  Cardinality({f \in DOMAIN plan.column : plan.column[f] = k})
               + Cardinality({e \in DOMAIN plan.extras : plan.extras[e] = k}) = 1
<1> DEFINE mappings == MapHeaders(headers, fields, confirmed, extra)
           plan     == Plan(headers, fields, mappings)
           Id(c)    == ExtraId(c, headers, mappings)
           own      == {f \in DOMAIN plan.column : plan.column[f] = k}
           more     == {e \in DOMAIN plan.extras : plan.extras[e] = k}
<1>0. /\ DOMAIN mappings = 1 .. n
      /\ DOMAIN plan.column = Identifiers(fields)
      /\ \A f \in Identifiers(fields) :
            plan.column[f] = 0 \/ plan.column[f] \in Accepted(mappings, f)
      /\ \A f \in Identifiers(fields) : \A c \in Accepted(mappings, f) : plan.column[f] = c
      /\ \A c \in 1 .. n : mappings[c].status # "accepted" =>
            Id(c) \in DOMAIN plan.extras /\ plan.extras[Id(c)] = c
      /\ \A e \in DOMAIN plan.extras :
            /\ plan.extras[e] \in 1 .. n /\ Id(plan.extras[e]) = e
            /\ mappings[plan.extras[e]].status # "accepted"
  BY PlanOfColumn
<1>1. mappings[k].status = "accepted" => mappings[k].field \in Identifiers(fields)
  BY AcceptedOnce
<1> SUFFICES Cardinality(own) + Cardinality(more) = 1
  OBVIOUS
<1> HIDE DEF mappings, plan, Id
<1>2. CASE mappings[k].status = "accepted"
  <2>1. own = {mappings[k].field}
    BY <1>0, <1>1, <1>2 DEF Accepted
  <2>2. more = {}
    BY <1>0, <1>2
  <2> HIDE DEF own, more
  <2>3. Cardinality(own) = 1 /\ Cardinality(more) = 0
    BY <2>1, <2>2, FS_Singleton, FS_EmptySet, Zenon
  <2> QED
    BY <2>3
<1>3. CASE mappings[k].status # "accepted"
  <2>1. own = {}
    BY <1>0, <1>3 DEF Accepted
  <2>2. more = {Id(k)}
    BY <1>0, <1>3
  <2> HIDE DEF own, more
  <2>3. Cardinality(more) = 1 /\ Cardinality(own) = 0
    BY <2>1, <2>2, FS_Singleton, FS_EmptySet, Zenon
  <2> QED
    BY <2>3
<1> QED
  BY <1>2, <1>3

\* The numbers up to 100 have a largest member in every set of them.
LEMMA LargestScore ==
    ASSUME NEW S, S \subseteq 0 .. 100, S # {}
    PROVE  Max(S) \in S
<1> DEFINE T == {m \in 0 .. 100 : \E x \in S : m = 100 - x}
<1>1. T \subseteq Nat /\ T # {}
  <2>1. PICK s \in S : s \in 0 .. 100
    OBVIOUS
  <2>2. 100 - s \in T
    BY <2>1
  <2>3. T \subseteq 0 .. 100
    OBVIOUS
  <2> HIDE DEF T
  <2> QED
    BY <2>2, <2>3
<1>2. PICK m \in T : \A l \in T : m <= l
  <2> HIDE DEF T
  <2> QED
    BY <1>1, LeastNatural
<1>3. PICK x \in S : m = 100 - x
  BY <1>2
<1>4. ASSUME NEW y \in S PROVE x >= y
  <2>1. 100 - y \in T /\ y \in 0 .. 100 /\ x \in 0 .. 100
    OBVIOUS
  <2>2. m <= 100 - y
    BY <1>2, <2>1
  <2> QED
    BY <1>3, <2>1, <2>2
<1> QED
  BY <1>4 DEF Max

\* The names of a table are scored, and have a place in the order of identifiers.
Scored(token, names) ==
    /\ IsFiniteSet(DOMAIN names)
    /\ \A x \in DOMAIN names : \A m \in names[x] : Score(token, m) \in 0 .. 100
    /\ \A x \in DOMAIN names : \E i \in DOMAIN Ids : Ids[i] = x
    /\ DOMAIN Ids \subseteq Nat

\* Whenever a name comes close enough, somebody is suggested.
LEMMA SomeoneIsSuggested ==
    ASSUME NEW token, NEW names, NEW threshold, Scored(token, names),
           MaxCandidates \in Nat \ {0}, Similar(token, names, threshold) # {}
    PROVE  Best(Similar(token, names, threshold)) # {}
<1> DEFINE scored   == Similar(token, names, threshold)
           close    == {y \in DOMAIN names : \E m \in names[y] : Score(token, m) >= threshold}
           Entry(x) == [id |-> x, score |-> Max({Score(token, m) : m \in names[x]})]
           At(x)    == CHOOSE i \in DOMAIN Ids : Ids[i] = x
           Above(a) == {o \in scored : Outranks(o, a)}
<1>1. scored = {Entry(x) : x \in close}
  BY Zenon DEF Similar
<1>2. \A x \in close : Max({Score(token, m) : m \in names[x]}) \in 0 .. 100
  <2> SUFFICES ASSUME NEW x \in close
               PROVE  Max({Score(token, m) : m \in names[x]}) \in 0 .. 100
    OBVIOUS
  <2> DEFINE S == {Score(token, m) : m \in names[x]}
  <2>1. S \subseteq 0 .. 100 /\ S # {}
    BY DEF Scored
  <2> HIDE DEF S
  <2>2. Max(S) \in S
    BY <2>1, LargestScore
  <2> QED
    BY <2>1, <2>2 DEF S
<1>3. \A a \in scored : a.score \in Nat /\ a.id \in DOMAIN names
  <2> SUFFICES ASSUME NEW a \in scored PROVE a.score \in Nat /\ a.id \in DOMAIN names
    OBVIOUS
  <2>1. PICK x \in close : a = Entry(x)
    BY <1>1, Zenon
  <2>2. x \in DOMAIN names /\ a.id = x /\ a.score = Max({Score(token, m) : m \in names[x]})
    BY <2>1
  <2> QED
    BY <1>2, <2>2
<1>4. \A x \in DOMAIN names : At(x) \in Nat
  BY DEF Scored
<1>5. IsFiniteSet(scored)
  <2> DEFINE f == [x \in close |-> Entry(x)]
  <2>1. IsFiniteSet(close)
    BY FS_Subset DEF Scored
  <2>2. f \in Surjection(close, scored)
    <3> HIDE DEF close, Entry
    <3> QED
      BY <1>1 DEF Surjection
  <2> HIDE DEF f, close, scored
  <2> QED
    BY <2>1, <2>2, FS_Surjection
<1>6. \A o, a : Outranks(o, a) <=> \/ o.score > a.score
                                   \/ o.score = a.score /\ At(o.id) < At(a.id)
  BY DEF Outranks, IdBefore
<1> HIDE DEF scored, At
<1>7. \A a \in scored : ~Outranks(a, a)
  BY <1>3, <1>4, <1>6
<1>8. \A a \in scored, o \in scored, p \in scored :
         Outranks(p, o) /\ Outranks(o, a) => Outranks(p, a)
  BY <1>3, <1>4, <1>6
<1>9. \A a \in scored : IsFiniteSet(Above(a)) /\ Cardinality(Above(a)) \in Nat
  <2> SUFFICES ASSUME NEW a \in scored PROVE IsFiniteSet(Above(a)) /\ Cardinality(Above(a)) \in Nat
    OBVIOUS
  <2>1. Above(a) \subseteq scored
    OBVIOUS
  <2> HIDE DEF Above
  <2> QED
    BY <1>5, <2>1, FS_Subset, FS_CardinalityType
<1>10. PICK a \in scored : \A o \in scored : Cardinality(Above(a)) <= Cardinality(Above(o))
  <2> DEFINE T == {m \in Nat : \E o \in scored : m = Cardinality(Above(o))}
  <2> HIDE DEF Above
  <2>1. T \subseteq Nat /\ T # {}
    BY <1>9 DEF scored
  <2>2. \A o \in scored : Cardinality(Above(o)) \in T
    BY <1>9
  <2>3. PICK m \in T : \A l \in T : m <= l
    <3> HIDE DEF T
    <3> QED
      BY <2>1, LeastNatural
  <2> QED
    BY <2>2, <2>3
<1>11. Above(a) = {}
  <2> SUFFICES ASSUME NEW o \in Above(a) PROVE FALSE
    OBVIOUS
  <2>1. o \in scored /\ o \notin Above(o) /\ Above(o) \subseteq Above(a)
    BY <1>7, <1>8
  <2>2. IsFiniteSet(Above(a)) /\ Cardinality(Above(a)) <= Cardinality(Above(o))
    BY <1>9, <1>10, <2>1
  <2>3. IsFiniteSet(Above(o)) /\ Cardinality(Above(o)) \in Nat /\ Cardinality(Above(a)) \in Nat
    BY <1>9, <2>1
  <2> HIDE DEF Above
  <2> QED
    BY <2>1, <2>2, <2>3, FS_Subset
<1>12. Cardinality(Above(a)) < MaxCandidates
  <2>1. Cardinality(Above(a)) = 0
    BY <1>11, FS_EmptySet, Zenon
  <2> HIDE DEF Above
  <2> QED
    BY <2>1
<1>13. a.id \in Best(scored)
  BY <1>12, Zenon DEF Best
<1> QED
  BY <1>13 DEF scored

\* A field that alone claims a column is given a column, this one or an earlier one;
\* in that case this one is put to a reviewer.
LEMMA ClaimedIsTaken ==
    ASSUME NEW n \in Nat, NEW headers, DOMAIN headers = 1 .. n,
           NEW fields, IsFiniteSet(fields), NEW confirmed, Fits(confirmed, fields), NEW extra,
           NEW c \in 1 .. n, c \notin extra, NEW f,
           Claimants(headers[c], FieldNames(fields), confirmed) = {f}
    PROVE  LET mappings == MapHeaders(headers, fields, confirmed, extra)
           IN  /\ Accepted(mappings, f) # {}
               /\ c \in Accepted(mappings, f) \/ mappings[c].status = "manual_review"
<1> DEFINE mappings  == MapHeaders(headers, fields, confirmed, extra)
           names     == FieldNames(fields)
           Claims(d) == Claimants(headers[d], names, confirmed)
           T         == {d \in 1 .. n : d \notin extra /\ Claims(d) = {f}}
<1>1. DOMAIN mappings = 1 .. n
  BY DEF MapHeaders
<1>2. ASSUME NEW d \in T
      PROVE  /\ FirstClaim(d, f, headers, names, confirmed, extra) => d \in Accepted(mappings, f)
             /\ d \in Accepted(mappings, f) \/ mappings[d].status = "manual_review"
  <2> DEFINE m == MapHeader(d, headers, names, confirmed, extra)
  <2>1. d \in 1 .. n /\ d \notin extra /\ Claims(d) = {f}
    OBVIOUS
  <2>2. mappings[d] = m
    BY <2>1 DEF MapHeaders
  <2>3. IsFiniteSet(Claims(d))
    BY ClaimsFit
  <2>4. /\ m.status = "accepted" <=>
              d \notin extra /\ Claims(d) = {m.field}
              /\ FirstClaim(d, m.field, headers, names, confirmed, extra)
        /\ m.status = "unmapped" => d \in extra \/ Claims(d) = {}
        /\ m.status \in {"accepted", "unmapped", "manual_review"}
    BY <2>3, MappingCases, Zenon
  <2>5. FirstClaim(d, f, headers, names, confirmed, extra) => m.status = "accepted"
    <3> SUFFICES ASSUME FirstClaim(d, f, headers, names, confirmed, extra)
                 PROVE  m.status = "accepted"
      OBVIOUS
    <3>1. Cardinality(Claims(d)) = 1 /\ (CHOOSE g \in Claims(d) : TRUE) = f
      BY <2>1, FS_Singleton
    <3>2. m = Mapping("exact", "accepted", f, {})
      BY <2>1, <3>1 DEF MapHeader
    <3> QED
      BY <3>2 DEF Mapping
  <2>6. m.status = "accepted" => m.field = f
    BY <2>1, <2>4
  <2> HIDE DEF m, mappings, Claims
  <2> QED
    BY <1>1, <2>1, <2>2, <2>4, <2>5, <2>6 DEF Accepted
<1>3. PICK d \in T : \A e \in T : d <= e
  <2>1. c \in T /\ T \subseteq Nat
    OBVIOUS
  <2> HIDE DEF T
  <2> QED
    BY <2>1, LeastNatural
<1>4. FirstClaim(d, f, headers, names, confirmed, extra)
  <2> SUFFICES ASSUME NEW e \in 1 .. d - 1, e \notin extra, Claims(e) = {f}
               PROVE  FALSE
    BY DEF FirstClaim
  <2>1. d \in 1 .. n
    OBVIOUS
  <2>2. e \in 1 .. n /\ e < d
    BY <2>1
  <2> QED
    BY <1>3, <2>1, <2>2
<1> QED
  BY <1>2, <1>3, <1>4

=============================================================================
