---------------------- MODULE ProductNormalizationProofs ----------------------
(***************************************************************************)
(* Proofs about ProductNormalization, for every workbook, catalogue and    *)
(* template, every table of tokens and scores, and every set of answers.   *)
(***************************************************************************)
EXTENDS ProductNormalization, ProductMappingProofs, SequenceTheorems

-----------------------------------------------------------------------------
(* What the first round finds; the workbook and the catalogue decide it.    *)

Natural(r) ==
    ResolveCategory(FixedValue(r, IdField), FixedValue(r, NameField), CategoryNames)

NaturalWith(status) == {r \in SourceRows : Natural(r).status = status}
NaturalGrouped == {Natural(r).category : r \in NaturalWith("resolved")}
Known == NaturalGrouped \cup UNION {Natural(r).candidates : r \in NaturalWith("manual_review")}

AllFields(c) == FixedFields \cup input.catalogue.fields[c]

PlanWith(c, confirmed, extra) ==
    Plan(input.headers, AllFields(c), MapHeaders(input.headers, AllFields(c), confirmed, extra))

-----------------------------------------------------------------------------
(* The inductive invariants.                                                *)

\* Where the run is, and what it has by then.
StageInv ==
    /\ input \in [headers : HeaderRows, rows : RowLists, catalogue : Catalogues, sheets : Workbooks]
    /\ stage \in {"resolve", "fetch", "normalize", "copy", "render", "review", "completed", "failed"}
    /\ round \in {1, 2}
    /\ round = 1 /\ stage # "review" => decision = Empty
    /\ stage = "resolve" => resolution = Empty
    /\ stage \in {"resolve", "fetch"} => schemas = Empty /\ sheet = Empty /\ issues = {}
    /\ stage \in {"fetch", "normalize", "copy", "render", "review", "completed"} =>
          DOMAIN resolution = SourceRows
    /\ stage \in {"normalize", "copy", "render", "review", "completed"} => DOMAIN schemas = Needed
    /\ stage \in {"copy", "render", "review", "completed"} => DOMAIN sheet = Grouped

\* A row has the category it names, or in round 2 the one a reviewer chose; the
\* schemas are the catalogue's; a sheet holds the rows of its category, and its plan
\* is that of the category's fields under the answers about it.
ResultInv ==
    /\ \A r \in DOMAIN resolution :
          r \in SourceRows /\ resolution[r] = (IF round = 1 THEN Natural(r) ELSE RowCategory(r))
    /\ \A c \in DOMAIN schemas :
          c \in DOMAIN input.catalogue.fields /\ schemas[c] = input.catalogue.fields[c]
    /\ \A c \in DOMAIN sheet :
          /\ c \in Grouped /\ c \in DOMAIN schemas
          /\ DOMAIN sheet[c].rows = Rows(c)
          /\ round = 1 => sheet[c].plan = PlanWith(c, Empty, {})
          /\ round = 2 => /\ ~ConfirmationsClash(Confirmed(c))
                          /\ sheet[c].plan = PlanWith(c, Confirmed(c), ForcedExtra(c))
    /\ \A i \in issues :
          i.type # "ambiguous_mapping" =>
             i.category \in DOMAIN sheet /\ i.row \in DOMAIN sheet[i.category].rows

\* An answer fits the question it was given to, and the question is the first
\* round's.
AnswerFits(i) ==
    \/ /\ i.type = "category" /\ i.at \in NaturalWith("manual_review") \cup NaturalWith("unresolved")
       /\ i.candidates = Natural(i.at).candidates
       /\ decision[i].action \in {"confirm_category", "reject"}
       /\ decision[i].action = "confirm_category" => decision[i].target \in i.candidates
    \/ /\ i.type \in {"field_mapping", "duplicate_header"}
       /\ i.category \in NaturalGrouped /\ i.category \in DOMAIN input.catalogue.fields
       /\ i.at \in DOMAIN input.headers
       /\ i = FieldItem(i.at, MapHeaders(input.headers, AllFields(i.category), Empty, {})[i.at],
                        i.category)
       /\ decision[i].action \in {"confirm_mapping", "keep_extra", "reject"}
       /\ decision[i].action = "confirm_mapping" => decision[i].target \in i.candidates

AnswersInv == \A i \in DOMAIN decision : AnswerFits(i)

\* What round 2 is given: the schemas and the plans of the first.
FirstInv ==
    round = 2 =>
        /\ Known \subseteq DOMAIN first.schemas
        /\ \A c \in DOMAIN first.schemas :
              /\ c \in DOMAIN input.catalogue.fields
              /\ first.schemas[c] = input.catalogue.fields[c]
        /\ \A c \in DOMAIN first.sheet : first.sheet[c].plan = PlanWith(c, Empty, {})

\* What is completed asked for no review, and what failed in round 2 did so
\* over two answers about headers that read the same, or over the metadata sheet.
OutcomeInv ==
    /\ stage = "completed" => ~RequiresReview
    /\ round = 2 /\ stage = "failed" =>
          (\E c \in Grouped : ConfirmationsClash(Confirmed(c))) \/ MetadataTaken

NormalizationInv == StageInv /\ ResultInv /\ AnswersInv /\ FirstInv /\ OutcomeInv

-----------------------------------------------------------------------------
(* Names of worksheets.                                                     *)

IsName(n) == n \in Seq(Range(n))

\* A name remains one with marks after it, and each number of marks makes another.
LEMMA NumberedNames ==
    ASSUME NEW base, IsName(base), NEW mark
    PROVE  /\ \A k \in Nat : /\ IsName(NumberedName(base, mark, k))
                             /\ Len(NumberedName(base, mark, k)) = Len(base) + k
           /\ \A j, k \in Nat :
                 Folded(NumberedName(base, mark, j)) = Folded(NumberedName(base, mark, k)) => j = k
           /\ NumberedName(base, mark, 0) = base
           /\ \A k \in Nat : base # <<>> => NumberedName(base, mark, k)[1] = base[1]
<1> DEFINE S == Range(base) \cup {mark}
<1>1. base \in Seq(S) /\ Len(base) \in Nat
  <2>1. base \in Seq(Range(base))
    BY DEF IsName
  <2>2. Range(base) \subseteq S
    OBVIOUS
  <2> HIDE DEF S
  <2> QED
    BY <2>1, <2>2
<1>2. ASSUME NEW k \in Nat
      PROVE  /\ NumberedName(base, mark, k) \in Seq(S)
             /\ Len(NumberedName(base, mark, k)) = Len(base) + k
  <2> DEFINE marks == [i \in 1 .. k |-> mark]
  <2>1. marks \in Seq(S) /\ Len(marks) = k
    OBVIOUS
  <2> HIDE DEF marks, S
  <2>2. base \o marks \in Seq(S) /\ Len(base \o marks) = Len(base) + Len(marks)
    BY <1>1, <2>1, ConcatProperties
  <2> QED
    BY <2>1, <2>2 DEF NumberedName, marks
<1>3. ASSUME NEW n \in Seq(S) PROVE IsName(n)
  <2> HIDE DEF S
  <2>1. n \in [1 .. Len(n) -> S] /\ Len(n) \in Nat
    OBVIOUS
  <2>2. n \in [1 .. Len(n) -> Range(n)]
    BY <2>1 DEF Range
  <2> DEFINE R == Range(n)
             m == Len(n)
  <2> HIDE DEF R, m
  <2>3. n \in Seq(R)
    BY <2>1, <2>2, SeqDef DEF R, m
  <2> QED
    BY <2>3 DEF IsName, R
<1>4. ASSUME NEW j \in Nat, NEW k \in Nat,
             Folded(NumberedName(base, mark, j)) = Folded(NumberedName(base, mark, k))
      PROVE  j = k
  <2>1. \A n \in Seq(S) : DOMAIN Folded(n) = 1 .. Len(n)
    BY DEF Folded
  <2> DEFINE l == Len(base)
  <2>2. 1 .. l + j = 1 .. l + k /\ l \in Nat
    BY <1>1, <1>2, <1>4, <2>1
  <2> HIDE DEF l
  <2>3. l + j <= l + k
    <3>1. CASE l + j = 0
      BY <2>2, <3>1
    <3>2. CASE l + j # 0
      <4>1. l + j \in 1 .. l + j
        BY <2>2, <3>2
      <4> QED
        BY <2>2, <4>1
    <3> QED
      BY <3>1, <3>2
  <2>4. l + k <= l + j
    <3>1. CASE l + k = 0
      BY <2>2, <3>1
    <3>2. CASE l + k # 0
      <4>1. l + k \in 1 .. l + k
        BY <2>2, <3>2
      <4> QED
        BY <2>2, <4>1
    <3> QED
      BY <3>1, <3>2
  <2> QED
    BY <2>2, <2>3, <2>4
<1>5. NumberedName(base, mark, 0) = base
  <2>1. [i \in 1 .. 0 |-> mark] = <<>>
    OBVIOUS
  <2> HIDE DEF S
  <2>2. base \o <<>> = base
    BY <1>1, ConcatEmptySeq
  <2> QED
    BY <2>1, <2>2 DEF NumberedName
<1>6. ASSUME NEW k \in Nat, base # <<>> PROVE NumberedName(base, mark, k)[1] = base[1]
  <2> DEFINE marks == [i \in 1 .. k |-> mark]
  <2>1. marks \in Seq(S)
    OBVIOUS
  <2> HIDE DEF marks, S
  <2>2. Len(base) >= 1
    BY <1>1, <1>6, EmptySeq
  <2>3. (base \o marks)[1] = base[1]
    BY <1>1, <2>1, <2>2, ConcatProperties
  <2> QED
    BY <2>3 DEF NumberedName, marks
<1> HIDE DEF S
<1> QED
  BY <1>2, <1>3, <1>4, <1>5, <1>6

\* The name that is chosen is free: one of so many different ones must be.
LEMMA UniqueNameIsFree ==
    ASSUME NEW base, IsName(base), NEW mark, NEW used, IsFiniteSet(used)
    PROVE  /\ Folded(UniqueName(base, mark, used)) \notin used
           /\ \E k \in Nat : UniqueName(base, mark, used) = NumberedName(base, mark, k)
           /\ Folded(base) \notin used => UniqueName(base, mark, used) = base
<1> DEFINE n    == Cardinality(used)
           N(k) == NumberedName(base, mark, k)
           F(k) == Folded(N(k))
           free == {k \in 0 .. n : F(k) \notin used}
<1>1. n \in Nat
  BY FS_CardinalityType
<1>2. free # {}
  <2> SUFFICES ASSUME free = {} PROVE FALSE
    OBVIOUS
  <2> DEFINE names == {F(k) : k \in 0 .. n}
             f     == [k \in 0 .. n |-> F(k)]
  <2>1. names \subseteq used
    OBVIOUS
  <2>2. \A j, k \in 0 .. n : F(j) = F(k) => j = k
    <3>1. \A j \in 0 .. n : j \in Nat
      BY <1>1
    <3> HIDE DEF n
    <3> QED
      BY <3>1, NumberedNames
  <2>3. IsFiniteSet(0 .. n) /\ Cardinality(0 .. n) = n + 1
    <3>1. 0 <= n
      BY <1>1
    <3> HIDE DEF n
    <3> QED
      BY <1>1, <3>1, FS_Interval
  <2>4. ExistsBijection(0 .. n, names)
    <3> HIDE DEF n
    <3>1. f \in Bijection(0 .. n, names)
      BY <2>2 DEF Bijection, Injection, Surjection, IsInjective
    <3> QED
      BY <3>1, Zenon DEF ExistsBijection
  <2>5. Cardinality(names) = n + 1
    <3> HIDE DEF names, f, n
    <3> QED
      BY <2>3, <2>4, FS_Bijection
  <2>6. Cardinality(names) <= n
    <3> HIDE DEF names
    <3> QED
      BY <2>1, FS_Subset
  <2> QED
    BY <1>1, <2>5, <2>6
<1>3. Min(free) \in free
  <2>1. free \subseteq Nat
    BY <1>1
  <2>2. \E x \in free : \A y \in free : x <= y
    <3> HIDE DEF free
    <3> QED
      BY <1>2, <2>1, LeastNatural
  <2> HIDE DEF free
  <2> QED
    BY <2>2 DEF Min
<1>4. UniqueName(base, mark, used) = N(Min(free))
  BY DEF UniqueName
<1>5. Min(free) \in Nat
  BY <1>1, <1>3
<1>6. ASSUME F(0) \notin used PROVE Min(free) = 0
  <2>1. 0 \in free /\ \A x \in free : x \in Nat
    BY <1>1, <1>6
  <2>2. \E x \in free : \A y \in free : x <= y
    <3> HIDE DEF free
    <3> QED
      BY <2>1
  <2> HIDE DEF free
  <2>3. Min(free) \in free /\ Min(free) <= 0
    BY <2>1, <2>2 DEF Min
  <2> QED
    BY <2>1, <2>3
<1>7. Folded(base) \notin used => UniqueName(base, mark, used) = base
  BY <1>4, <1>6, NumberedNames
<1> QED
  BY <1>3, <1>4, <1>5, <1>7

\* The casefolded names of finitely many sheets are finitely many.
LEMMA FiniteFolds ==
    ASSUME NEW S, IsFiniteSet(S) PROVE IsFiniteSet(Folds(S))
<1> DEFINE f == [n \in S |-> Folded(n)]
<1>1. f \in Surjection(S, Folds(S))
  BY DEF Surjection, Folds
<1> HIDE DEF f
<1> QED
  BY <1>1, FS_Surjection

\* create_sheet adds a sheet under the name or the name numbered, changes no other
\* sheet, and numbers the name only if a sheet has it in some case.
LEMMA SheetIsCreated ==
    ASSUME NEW sheets, IsFiniteSet(DOMAIN sheets), NEW name, IsName(name), NEW content,
           NEW new, new = Created(sheets, name, content)
    PROVE  /\ IsFiniteSet(DOMAIN new) /\ DOMAIN sheets \subseteq DOMAIN new
           /\ \A n \in DOMAIN sheets : new[n] = sheets[n]
           /\ \E k \in Nat : /\ NumberedName(name, "1", k) \in DOMAIN new
                            /\ new[NumberedName(name, "1", k)] = content
           /\ name \in DOMAIN new \ DOMAIN sheets => new[name] = content
           /\ name \in DOMAIN new \/ \E n \in DOMAIN sheets : Folded(n) = Folded(name)
<1> DEFINE used  == Folds(DOMAIN sheets)
           title == UniqueName(name, "1", used)
<1>1. /\ Folded(title) \notin used
      /\ \E k \in Nat : title = NumberedName(name, "1", k)
      /\ Folded(name) \notin used => title = name
  <2>1. IsFiniteSet(used)
    BY FiniteFolds
  <2> HIDE DEF used
  <2> QED
    BY <2>1, UniqueNameIsFree
<1>2. new = Extended(sheets, title, content)
  BY DEF Created
<1> HIDE DEF title
<1>3. title \notin DOMAIN sheets
  BY <1>1 DEF Folds
<1>4. /\ DOMAIN new = DOMAIN sheets \cup {title} /\ new[title] = content
      /\ \A n \in DOMAIN sheets : new[n] = sheets[n]
  BY <1>2, <1>3 DEF Extended
<1>5. IsFiniteSet(DOMAIN new)
  BY <1>4, FS_AddElement
<1>6. name \in DOMAIN new \/ \E n \in DOMAIN sheets : Folded(n) = Folded(name)
  BY <1>1, <1>4 DEF Folds
<1> QED
  BY <1>1, <1>4, <1>5, <1>6

\* So does adding a list to a workbook, whose name was numbered before.
LEMMA ListIsAdded ==
    ASSUME NEW b, IsFiniteSet(b.used), IsFiniteSet(DOMAIN b.sheets), NEW base, IsName(base),
           NEW mark, NEW content, NEW new, new = WithList(b, base, mark, content)
    PROVE  /\ new.done = b.done /\ IsFiniteSet(new.used) /\ IsFiniteSet(DOMAIN new.sheets)
           /\ DOMAIN b.sheets \subseteq DOMAIN new.sheets
           /\ \A n \in DOMAIN b.sheets : new.sheets[n] = b.sheets[n]
           /\ \E j, k \in Nat :
                 /\ NumberedName(NumberedName(base, mark, j), "1", k) \in DOMAIN new.sheets
                 /\ new.sheets[NumberedName(NumberedName(base, mark, j), "1", k)] = content
<1> DEFINE name == UniqueName(base, mark, b.used)
           all  == Created(b.sheets, name, content)
<1>1. new.done = b.done /\ new.used = b.used \cup {Folded(name)} /\ new.sheets = all
  BY DEF WithList
<1>2. \E j \in Nat : name = NumberedName(base, mark, j)
  BY UniqueNameIsFree
<1> HIDE DEF name
<1>3. IsName(name)
  BY <1>2, NumberedNames
<1>4. /\ IsFiniteSet(DOMAIN all) /\ DOMAIN b.sheets \subseteq DOMAIN all
      /\ \A n \in DOMAIN b.sheets : all[n] = b.sheets[n]
      /\ \E k \in Nat : NumberedName(name, "1", k) \in DOMAIN all /\ all[NumberedName(name, "1", k)] = content
  BY <1>3, SheetIsCreated
<1> HIDE DEF all
<1>5. IsFiniteSet(new.used)
  BY <1>1, FS_AddElement
<1>6. IsFiniteSet(DOMAIN new.sheets) /\ DOMAIN b.sheets \subseteq DOMAIN new.sheets
      /\ \A n \in DOMAIN b.sheets : new.sheets[n] = b.sheets[n]
  BY <1>1, <1>4
<1>7. \E j, k \in Nat :
         /\ NumberedName(NumberedName(base, mark, j), "1", k) \in DOMAIN new.sheets
         /\ new.sheets[NumberedName(NumberedName(base, mark, j), "1", k)] = content
  <2>1. PICK j \in Nat : name = NumberedName(base, mark, j)
    BY <1>2
  <2>2. PICK k \in Nat :
           NumberedName(name, "1", k) \in DOMAIN all /\ all[NumberedName(name, "1", k)] = content
    BY <1>4
  <2> QED
    BY <1>1, <2>1, <2>2
<1> QED
  BY <1>1, <1>5, <1>6, <1>7

\* Making room for a name takes nothing but the sheet of that name.
LEMMA RoomIsMade ==
    ASSUME NEW sheets, IsFiniteSet(DOMAIN sheets), NEW name
    PROVE  /\ DOMAIN RoomFor(name, sheets) = DOMAIN sheets \ {name}
           /\ IsFiniteSet(DOMAIN RoomFor(name, sheets))
           /\ \A n \in DOMAIN sheets \ {name} : RoomFor(name, sheets)[n] = sheets[n]
<1>1. DOMAIN RoomFor(name, sheets) = DOMAIN sheets \ {name}
  BY DEF RoomFor
<1>2. IsFiniteSet(DOMAIN sheets \ {name})
  BY FS_Subset
<1> QED
  BY <1>1, <1>2 DEF RoomFor

\* The metadata sheet replaces one of its name, or has another and one is called as it
\* but for the case.
LEMMA MetadataIsAdded ==
    ASSUME NEW b, IsFiniteSet(DOMAIN b.sheets), NEW new, new = WithMetadata(b)
    PROVE  /\ new.done = b.done /\ new.used = b.used /\ IsFiniteSet(DOMAIN new.sheets)
           /\ \A n \in DOMAIN b.sheets :
                 n # MetadataName => n \in DOMAIN new.sheets /\ new.sheets[n] = b.sheets[n]
           /\ MetadataName \in DOMAIN new.sheets =>
                 new.sheets[MetadataName] = <<"metadata", None>>
           /\ \/ MetadataName \in DOMAIN new.sheets
              \/ \E n \in DOMAIN new.sheets : n # MetadataName /\ Folded(n) = Folded(MetadataName)
<1> DEFINE room == RoomFor(MetadataName, b.sheets)
           all  == Created(room, MetadataName, <<"metadata", None>>)
<1>1. new.done = b.done /\ new.used = b.used /\ new.sheets = all
  BY DEF WithMetadata
<1>2. /\ DOMAIN room = DOMAIN b.sheets \ {MetadataName} /\ IsFiniteSet(DOMAIN room)
      /\ \A n \in DOMAIN b.sheets \ {MetadataName} : room[n] = b.sheets[n]
  BY RoomIsMade
<1>3. IsName(MetadataName)
  BY DEF IsName, MetadataName, Range
<1> HIDE DEF room
<1>4. /\ IsFiniteSet(DOMAIN all) /\ DOMAIN room \subseteq DOMAIN all
      /\ \A n \in DOMAIN room : all[n] = room[n]
      /\ MetadataName \in DOMAIN all \ DOMAIN room => all[MetadataName] = <<"metadata", None>>
      /\ MetadataName \in DOMAIN all \/ \E n \in DOMAIN room : Folded(n) = Folded(MetadataName)
  BY <1>2, <1>3, SheetIsCreated
<1> HIDE DEF all
<1> QED
  BY <1>1, <1>2, <1>4

\* The workbook with a list of open rows, and with a list of issues, has its sheets
\* as they were.
LEMMA ListsAreAdded ==
    ASSUME NEW b, IsFiniteSet(b.used), IsFiniteSet(DOMAIN b.sheets),
           NEW new, new = WithIssues(WithReview(b))
    PROVE  /\ new.done = b.done /\ IsFiniteSet(new.used) /\ IsFiniteSet(DOMAIN new.sheets)
           /\ \A n \in DOMAIN b.sheets :
                 n \in DOMAIN new.sheets /\ new.sheets[n] = b.sheets[n]
           /\ Unresolved # {} => \E n \in DOMAIN new.sheets :
                 n # MetadataName /\ new.sheets[n] = <<"review", None>>
           /\ issues # {} => \E n \in DOMAIN new.sheets :
                 n # MetadataName /\ new.sheets[n] = <<"issues", None>>
<1>1. IsName(<<"review">>) /\ IsName(<<"issues">>)
  BY DEF IsName, Range
<1>2. \A j, k \in Nat, x \in {"review", "issues"} :
         NumberedName(NumberedName(<<x>>, x, j), "1", k) # MetadataName
  <2> SUFFICES ASSUME NEW j \in Nat, NEW k \in Nat, NEW x \in {"review", "issues"}
               PROVE  NumberedName(NumberedName(<<x>>, x, j), "1", k) # MetadataName
    OBVIOUS
  <2> DEFINE one == NumberedName(<<x>>, x, j)
  <2>1. PICK base : base = <<x>>
    OBVIOUS
  <2>2. IsName(one) /\ Len(one) = 1 + j /\ one[1] = x
    <3>1. IsName(base) /\ base # <<>> /\ Len(base) = 1 /\ base[1] = x
      BY <1>1, <2>1
    <3>2. one = NumberedName(base, x, j)
      BY <2>1
    <3> HIDE DEF one
    <3>3. IsName(one) /\ Len(one) = Len(base) + j
      BY <3>1, <3>2, NumberedNames
    <3>4. one[1] = base[1]
      BY <3>1, <3>2, NumberedNames
    <3> QED
      BY <3>1, <3>3, <3>4
  <2>3. one # <<>>
    <3> HIDE DEF one
    <3> QED
      BY <2>2
  <2> HIDE DEF one
  <2>4. NumberedName(one, "1", k)[1] = x
    BY <2>2, <2>3, NumberedNames
  <2> QED
    BY <2>4 DEF MetadataName, one
<1> DEFINE open == WithReview(b)
<1>3. /\ open.done = b.done /\ IsFiniteSet(open.used) /\ IsFiniteSet(DOMAIN open.sheets)
      /\ \A n \in DOMAIN b.sheets : n \in DOMAIN open.sheets /\ open.sheets[n] = b.sheets[n]
      /\ Unresolved # {} => \E n \in DOMAIN open.sheets :
            n # MetadataName /\ open.sheets[n] = <<"review", None>>
  <2>1. CASE Unresolved = {}
    BY <2>1 DEF WithReview
  <2>2. CASE Unresolved # {}
    <3>1. open = WithList(b, <<"review">>, "review", <<"review", None>>)
      BY <2>2 DEF WithReview
    <3> HIDE DEF open
    <3>2. /\ open.done = b.done /\ IsFiniteSet(open.used) /\ IsFiniteSet(DOMAIN open.sheets)
          /\ DOMAIN b.sheets \subseteq DOMAIN open.sheets
          /\ \A n \in DOMAIN b.sheets : open.sheets[n] = b.sheets[n]
          /\ \E j, k \in Nat :
                /\ NumberedName(NumberedName(<<"review">>, "review", j), "1", k) \in DOMAIN open.sheets
                /\ open.sheets[NumberedName(NumberedName(<<"review">>, "review", j), "1", k)]
                     = <<"review", None>>
      BY <1>1, <3>1, ListIsAdded
    <3> QED
      BY <1>2, <3>2
  <2> QED
    BY <2>1, <2>2
<1>4. new = WithIssues(open)
  OBVIOUS
<1> HIDE DEF open
<1>5. /\ new.done = open.done /\ IsFiniteSet(new.used) /\ IsFiniteSet(DOMAIN new.sheets)
      /\ \A n \in DOMAIN open.sheets : n \in DOMAIN new.sheets /\ new.sheets[n] = open.sheets[n]
      /\ issues # {} => \E n \in DOMAIN new.sheets :
            n # MetadataName /\ new.sheets[n] = <<"issues", None>>
  <2>1. CASE issues = {}
    BY <1>3, <1>4, <2>1 DEF WithIssues
  <2>2. CASE issues # {}
    <3>1. new = WithList(open, <<"issues">>, "issues", <<"issues", None>>)
      BY <1>4, <2>2 DEF WithIssues
    <3>2. /\ new.done = open.done /\ IsFiniteSet(new.used) /\ IsFiniteSet(DOMAIN new.sheets)
          /\ DOMAIN open.sheets \subseteq DOMAIN new.sheets
          /\ \A n \in DOMAIN open.sheets : new.sheets[n] = open.sheets[n]
          /\ \E j, k \in Nat :
                /\ NumberedName(NumberedName(<<"issues">>, "issues", j), "1", k) \in DOMAIN new.sheets
                /\ new.sheets[NumberedName(NumberedName(<<"issues">>, "issues", j), "1", k)]
                     = <<"issues", None>>
      BY <1>1, <1>3, <3>1, ListIsAdded
    <3> QED
      BY <1>2, <3>2
  <2> QED
    BY <2>1, <2>2
<1> QED
  BY <1>3, <1>5, Zenon

\* The workbook with a category's rows has its sheets as they were, but the one of the
\* category's name.
LEMMA RowsAreAdded ==
    ASSUME IsFiniteSet(book.used), IsFiniteSet(DOMAIN book.sheets),
           NEW c, IsName(sheet[c].name), NEW new, new = WithRows(c)
    PROVE  /\ new.done = book.done \cup {c}
           /\ IsFiniteSet(new.used) /\ IsFiniteSet(DOMAIN new.sheets)
           /\ \A n \in DOMAIN book.sheets : n # sheet[c].name =>
                 n \in DOMAIN new.sheets /\ new.sheets[n] = book.sheets[n]
           /\ \E k \in Nat : /\ NumberedName(sheet[c].name, "1", k) \in DOMAIN new.sheets
                            /\ new.sheets[NumberedName(sheet[c].name, "1", k)] = <<"rows", c>>
<1> DEFINE name == sheet[c].name
           room == RoomFor(name, book.sheets)
           all  == Created(room, name, <<"rows", c>>)
<1>1. /\ new.done = book.done \cup {c} /\ new.used = book.used \cup {Folded(name)}
      /\ new.sheets = all
  BY DEF WithRows
<1>2. /\ DOMAIN room = DOMAIN book.sheets \ {name} /\ IsFiniteSet(DOMAIN room)
      /\ \A n \in DOMAIN book.sheets \ {name} : room[n] = book.sheets[n]
  BY RoomIsMade
<1> HIDE DEF room
<1>3. /\ IsFiniteSet(DOMAIN all) /\ DOMAIN room \subseteq DOMAIN all
      /\ \A n \in DOMAIN room : all[n] = room[n]
      /\ \E k \in Nat : /\ NumberedName(name, "1", k) \in DOMAIN all
                       /\ all[NumberedName(name, "1", k)] = <<"rows", c>>
  BY <1>2, SheetIsCreated
<1> HIDE DEF all
<1>4. IsFiniteSet(new.used)
  BY <1>1, FS_AddElement
<1> QED
  BY <1>1, <1>2, <1>3, <1>4

\* The category sheets have names, and no two have the same; the workbook has finitely
\* many sheets and names in use.
NamesInv ==
    /\ IsFiniteSet(DOMAIN sheet)
    /\ \A c \in DOMAIN sheet : IsName(sheet[c].name)
    /\ \A c, d \in DOMAIN sheet : sheet[c].name = sheet[d].name => c = d
    /\ IsFiniteSet(book.used) /\ IsFiniteSet(DOMAIN book.sheets)

LEMMA SkuIsName ==
    ASSUME NEW name, IsName(name)
    PROVE  IsName(SkuName(name)) /\ Len(SkuName(name)) = Len(name) + 1
<1>1. name \in Seq(Range(name) \cup {"SKU"})
  BY DEF IsName
<1>2. SkuName(name) = NumberedName(name, "SKU", 1)
  <2>1. [i \in 1 .. 1 |-> "SKU"] = <<"SKU">>
    OBVIOUS
  <2>2. Append(name, "SKU") = name \o <<"SKU">>
    BY <1>1, AppendIsConcat
  <2> QED
    BY <2>1, <2>2 DEF SkuName, NumberedName
<1>3. \A k \in Nat : /\ IsName(NumberedName(name, "SKU", k))
                     /\ Len(NumberedName(name, "SKU", k)) = Len(name) + k
  BY NumberedNames
<1>4. 1 \in Nat
  OBVIOUS
<1> QED
  BY <1>2, <1>3, <1>4

-----------------------------------------------------------------------------
(* What depends on what.                                                    *)

\* Nothing changes the workbook or the catalogue.
LEMMA SameInput ==
    ASSUME input' = input
    PROVE  /\ SourceRows' = SourceRows
           /\ \A r : Natural(r)' = Natural(r)
           /\ \A s : NaturalWith(s)' = NaturalWith(s)
           /\ NaturalGrouped' = NaturalGrouped /\ Known' = Known
           /\ \A c : AllFields(c)' = AllFields(c)
           /\ \A c, x, e : PlanWith(c, x, e)' = PlanWith(c, x, e)
<1>1. SourceRows' = SourceRows
  BY Zenon DEF SourceRows, Cells
<1>2. ASSUME NEW r PROVE Natural(r)' = Natural(r)
  <2>1. CategoryNames' = CategoryNames
    BY DEF CategoryNames
  <2>2. FixedMappings' = FixedMappings
    BY Zenon DEF FixedMappings
  <2>3. ASSUME NEW f PROVE FixedValue(r, f)' = FixedValue(r, f)
    BY <2>2 DEF FixedValue, Cells
  <2> QED
    BY <2>1, <2>3 DEF Natural
<1>3. ASSUME NEW s PROVE NaturalWith(s)' = NaturalWith(s)
  BY <1>1, <1>2, Zenon DEF NaturalWith
<1>4. NaturalGrouped' = NaturalGrouped
  BY <1>2, <1>3, Zenon DEF NaturalGrouped
<1>5. Known' = Known
  BY <1>2, <1>3, <1>4, Zenon DEF Known
<1>6. \A c : AllFields(c)' = AllFields(c)
  BY Zenon DEF AllFields
<1>7. \A c, x, e : PlanWith(c, x, e)' = PlanWith(c, x, e)
  BY Zenon DEF PlanWith, AllFields
<1> QED
  BY <1>1, <1>2, <1>3, <1>4, <1>5, <1>6, <1>7, Zenon

\* Without new answers the rerun is told the same.
LEMMA SameAnswers ==
    ASSUME input' = input, decision' = decision
    PROVE  /\ \A a : Answers(a)' = Answers(a)
           /\ Overrides' = Overrides
           /\ \A c : Confirmed(c)' = Confirmed(c) /\ ForcedExtra(c)' = ForcedExtra(c)
           /\ \A r : RowCategory(r)' = RowCategory(r)
           /\ AnswersInv' <=> AnswersInv
<1>1. ASSUME NEW a PROVE Answers(a)' = Answers(a)
  BY Zenon DEF Answers
<1>2. Overrides' = Overrides
  BY <1>1 DEF Overrides
<1>3. ASSUME NEW c PROVE Confirmed(c)' = Confirmed(c) /\ ForcedExtra(c)' = ForcedExtra(c)
  BY <1>1 DEF Confirmed, ForcedExtra
<1>4. ASSUME NEW r PROVE RowCategory(r)' = RowCategory(r)
  <2>1. Natural(r)' = Natural(r)
    BY SameInput
  <2> QED
    BY <1>2, <2>1, Zenon DEF RowCategory, Natural
<1>5. AnswersInv' <=> AnswersInv
  <2>1. ASSUME NEW i PROVE AnswerFits(i)' <=> AnswerFits(i)
    BY SameInput, Zenon DEF AnswerFits, AllFields, FieldItem
  <2> QED
    BY <2>1, Zenon DEF AnswersInv
<1> QED
  BY <1>1, <1>2, <1>3, <1>4, <1>5, Zenon

\* The groups of rows follow from the resolutions.
LEMMA SameGroups ==
    ASSUME resolution' = resolution
    PROVE  /\ Grouped' = Grouped /\ Needed' = Needed /\ Unresolved' = Unresolved
           /\ \A c : Rows(c)' = Rows(c)
BY Zenon DEF Grouped, Needed, Unresolved, Rows, With

\* Without an answer there is nothing to apply.
LEMMA NoAnswers ==
    ASSUME decision = Empty
    PROVE  /\ \A r : RowCategory(r) = Natural(r)
           /\ \A c : Confirmed(c) = Empty /\ ForcedExtra(c) = {}
<1>1. \A a : Answers(a) = {}
  BY DEF Answers, Empty
<1>2. DOMAIN Overrides = {}
  BY <1>1 DEF Overrides
<1>3. ASSUME NEW c PROVE Confirmed(c) = Empty /\ ForcedExtra(c) = {}
  BY <1>1 DEF Confirmed, ForcedExtra, Empty
<1> QED
  BY <1>2, <1>3, Zenon DEF RowCategory, Natural

\* What is assumed of the inputs, of those at hand.
LEMMA InputFacts ==
    ASSUME input \in [headers : HeaderRows, rows : RowLists, catalogue : Catalogues, sheets : Workbooks]
    PROVE  /\ \E n \in Nat : DOMAIN input.headers = 1 .. n
           /\ IsFiniteSet(FixedFields)
           /\ IsFiniteSet(DOMAIN CategoryNames) /\ Blank \notin DOMAIN CategoryNames
           /\ \A c \in DOMAIN input.catalogue.fields : IsFiniteSet(AllFields(c))
<1>1. input.headers \in HeaderRows /\ input.catalogue \in Catalogues
  OBVIOUS
<1>2. \E n \in Nat : DOMAIN input.headers = 1 .. n
  <2>1. input.headers \in Seq(Range(input.headers))
    BY <1>1, InputsAssumption, Zenon
  <2> QED
    BY <2>1
<1>3. /\ IsFiniteSet(DOMAIN input.catalogue.categories)
      /\ Blank \notin DOMAIN input.catalogue.categories
      /\ \A c \in DOMAIN input.catalogue.fields : IsFiniteSet(input.catalogue.fields[c])
  BY <1>1, InputsAssumption, Zenon
<1>4. DOMAIN CategoryNames \subseteq DOMAIN input.catalogue.categories
  BY DEF CategoryNames
<1>5. IsFiniteSet(DOMAIN CategoryNames)
  BY <1>3, <1>4, FS_Subset
<1>6. ASSUME NEW c \in DOMAIN input.catalogue.fields PROVE IsFiniteSet(AllFields(c))
  BY <1>3, InputsAssumption, FS_Union DEF AllFields
<1> QED
  BY <1>2, <1>3, <1>4, <1>5, <1>6, InputsAssumption

LEMMA NothingFits ==
    ASSUME NEW fields PROVE Fits(Empty, fields)
BY FS_EmptySet DEF Fits, Empty

\* The answers about a category fit its fields; each header's answer is one given
\* about a column with that header.
LEMMA ConfirmedFits ==
    ASSUME input \in [headers : HeaderRows, rows : RowLists, catalogue : Catalogues, sheets : Workbooks],
           AnswersInv, NEW c \in DOMAIN input.catalogue.fields
    PROVE  /\ Fits(Confirmed(c), AllFields(c))
           /\ DOMAIN Confirmed(c) = {input.headers[i.at] :
                 i \in {j \in Answers("confirm_mapping") : j.category = c}}
           /\ \A h \in DOMAIN Confirmed(c) :
                 \E i \in Answers("confirm_mapping") :
                    /\ i.category = c /\ input.headers[i.at] = h
                    /\ Confirmed(c)[h] = decision[i].target
<1> DEFINE headers == input.headers
           items   == {j \in Answers("confirm_mapping") : j.category = c}
           heads   == {headers[i.at] : i \in items}
<1>1. PICK n \in Nat : DOMAIN headers = 1 .. n
  BY InputFacts
<1>2. ASSUME NEW i \in items
      PROVE  i.at \in 1 .. n /\ decision[i].target \in Identifiers(AllFields(c))
  <2>1. i \in DOMAIN decision /\ decision[i].action = "confirm_mapping" /\ i.category = c
    BY DEF Answers
  <2>2. AnswerFits(i)
    BY <2>1 DEF AnswersInv
  <2> DEFINE m == MapHeaders(headers, AllFields(c), Empty, {})[i.at]
  <2>3. i.at \in DOMAIN headers /\ i = FieldItem(i.at, m, c) /\ decision[i].target \in i.candidates
    BY <2>1, <2>2 DEF AnswerFits
  <2>4. i.candidates = m.candidates
    BY <2>3 DEF FieldItem
  <2>5. m.candidates \subseteq Identifiers(AllFields(c))
    BY <2>3, CandidatesAreFields, InputFacts, NothingFits
  <2> QED
    BY <1>1, <2>3, <2>4, <2>5
<1>3. ASSUME NEW h \in heads
      PROVE  LastOf(h, items, headers) \in items /\ headers[LastOf(h, items, headers).at] = h
  <2> DEFINE T == {m \in Nat : \E i \in items : headers[i.at] = h /\ m = n - i.at}
  <2>1. \A i \in items : headers[i.at] = h => n - i.at \in T
    BY <1>2
  <2>2. T \subseteq Nat /\ T # {}
    BY <2>1
  <2>3. PICK m \in T : \A l \in T : m <= l
    <3> HIDE DEF T
    <3> QED
      BY <2>2, LeastNatural
  <2>4. PICK i \in items : headers[i.at] = h /\ m = n - i.at
    OBVIOUS
  <2>5. ASSUME NEW j \in items, headers[j.at] = h PROVE j.at <= i.at
    <3>1. n - i.at <= n - j.at
      BY <2>1, <2>3, <2>4, <2>5
    <3> QED
      BY <1>2, <3>1
  <2> HIDE DEF items, headers, T
  <2> QED
    BY <2>4, <2>5 DEF LastOf
<1>4. /\ DOMAIN Confirmed(c) = heads
      /\ \A h \in heads : Confirmed(c)[h] = decision[LastOf(h, items, headers)].target
  BY DEF Confirmed
<1>5. IsFiniteSet(heads)
  <2> DEFINE f == [k \in 1 .. n |-> headers[k]]
             all == {headers[k] : k \in 1 .. n}
  <2>1. f \in Surjection(1 .. n, all)
    BY DEF Surjection
  <2>2. IsFiniteSet(1 .. n)
    BY FS_Interval
  <2>3. heads \subseteq all
    BY <1>2
  <2> HIDE DEF f, all, heads
  <2> QED
    BY <2>1, <2>2, <2>3, FS_Surjection, FS_Subset
<1>6. \A h \in heads : \E i \in items : headers[i.at] = h /\ Confirmed(c)[h] = decision[i].target
  BY <1>3, <1>4
<1>7. Fits(Confirmed(c), AllFields(c))
  <2> HIDE DEF heads, items
  <2> QED
    BY <1>2, <1>4, <1>5, <1>6 DEF Fits
<1> QED
  BY <1>4, <1>6, <1>7

-----------------------------------------------------------------------------
(* The invariant holds.                                                     *)

LEMMA SameFirst ==
    ASSUME input' = input, round' = round, first' = first, FirstInv
    PROVE  FirstInv'
<1>1. Known' = Known
  BY SameInput
<1>2. \A c : PlanWith(c, Empty, {})' = PlanWith(c, Empty, {})
  BY Zenon DEF PlanWith, AllFields, Empty
<1> QED
  BY <1>1, <1>2, Zenon DEF FirstInv

LEMMA SameResult ==
    ASSUME UNCHANGED <<input, round, resolution, schemas, sheet, issues>>,
           round = 1 \/ decision' = decision, round \in {1, 2}, ResultInv
    PROVE  ResultInv'
<1>1. \A r \in DOMAIN resolution' :
         r \in SourceRows' /\ resolution'[r] = (IF round' = 1 THEN Natural(r)' ELSE RowCategory(r)')
  BY SameInput, SameAnswers, Zenon DEF ResultInv
<1>2. \A c \in DOMAIN schemas' :
         c \in DOMAIN input'.catalogue.fields /\ schemas'[c] = input'.catalogue.fields[c]
  BY Zenon DEF ResultInv
<1>3. ASSUME NEW c \in DOMAIN sheet
      PROVE  /\ c \in Grouped' /\ c \in DOMAIN schemas'
             /\ DOMAIN sheet'[c].rows = Rows(c)'
             /\ round' = 1 => sheet'[c].plan = PlanWith(c, Empty, {})'
             /\ round' = 2 => /\ ~ConfirmationsClash(Confirmed(c)')
                              /\ sheet'[c].plan = PlanWith(c, Confirmed(c), ForcedExtra(c))'
  <2>1. /\ c \in Grouped /\ c \in DOMAIN schemas /\ DOMAIN sheet[c].rows = Rows(c)
        /\ round = 1 => sheet[c].plan = PlanWith(c, Empty, {})
        /\ round = 2 => /\ ~ConfirmationsClash(Confirmed(c))
                        /\ sheet[c].plan = PlanWith(c, Confirmed(c), ForcedExtra(c))
    BY Zenon DEF ResultInv
  <2>2. Grouped' = Grouped /\ Rows(c)' = Rows(c)
    BY SameGroups, Zenon
  <2>3. PlanWith(c, Empty, {})' = PlanWith(c, Empty, {})
    BY Zenon DEF PlanWith, AllFields, Empty
  <2>4. round = 2 => /\ Confirmed(c)' = Confirmed(c)
                     /\ PlanWith(c, Confirmed(c), ForcedExtra(c))'
                          = PlanWith(c, Confirmed(c), ForcedExtra(c))
    <3> SUFFICES ASSUME round = 2
                 PROVE  /\ Confirmed(c)' = Confirmed(c)
                        /\ PlanWith(c, Confirmed(c), ForcedExtra(c))'
                             = PlanWith(c, Confirmed(c), ForcedExtra(c))
      OBVIOUS
    <3>1. Confirmed(c)' = Confirmed(c) /\ ForcedExtra(c)' = ForcedExtra(c)
      BY SameAnswers
    <3> QED
      BY <3>1, Zenon DEF PlanWith, AllFields
  <2> QED
    BY <2>1, <2>2, <2>3, <2>4, Zenon
<1>4. \A i \in issues' :
         i.type # "ambiguous_mapping" =>
            i.category \in DOMAIN sheet' /\ i.row \in DOMAIN sheet'[i.category].rows
  BY Zenon DEF ResultInv
<1>5. sheet' = sheet
  OBVIOUS
<1> QED
  BY <1>1, <1>2, <1>3, <1>4, <1>5, Zenon DEF ResultInv

LEMMA StartsWell ==
    ASSUME Init PROVE NormalizationInv
<1>1. StageInv
  BY DEF Init, StageInv
<1>2. ResultInv
  BY DEF Init, ResultInv, Empty
<1>3. AnswersInv
  BY DEF Init, AnswersInv, Empty
<1>4. FirstInv /\ OutcomeInv
  BY DEF Init, FirstInv, OutcomeInv
<1> QED
  BY <1>1, <1>2, <1>3, <1>4 DEF NormalizationInv

LEMMA ResolveRowsStep ==
    ASSUME NormalizationInv, ResolveRows PROVE NormalizationInv'
<1> USE DEF NormalizationInv
<1>1. /\ stage = "resolve" /\ stage' = "fetch" /\ resolution' = [r \in SourceRows |-> RowCategory(r)]
      /\ UNCHANGED <<input, round, decision, schemas, sheet, issues, first>>
      /\ schemas = Empty /\ sheet = Empty /\ issues = {}
  BY DEF ResolveRows, StageInv
<1>2. StageInv'
  BY <1>1, SameInput DEF StageInv
<1>3. ResultInv'
  <2>1. round = 1 => \A r : RowCategory(r) = Natural(r)
    BY <1>1, NoAnswers DEF StageInv
  <2>2. \A r \in SourceRows : resolution'[r] = IF round' = 1 THEN Natural(r)' ELSE RowCategory(r)'
    BY <1>1, <2>1, SameInput, SameAnswers
  <2>3. DOMAIN resolution' = SourceRows'
    BY <1>1, SameInput
  <2>4. DOMAIN schemas' = {} /\ DOMAIN sheet' = {} /\ issues' = {}
    BY <1>1 DEF Empty
  <2>5. SourceRows' = SourceRows
    BY <1>1, SameInput
  <2> QED
    BY <2>2, <2>3, <2>4, <2>5, Zenon DEF ResultInv
<1>4. AnswersInv' /\ FirstInv'
  BY <1>1, SameAnswers, SameFirst
<1>5. OutcomeInv'
  BY <1>1 DEF OutcomeInv
<1> QED
  BY <1>2, <1>3, <1>4, <1>5

LEMMA RefuseWorkbookStep ==
    ASSUME NormalizationInv, RefuseWorkbook PROVE NormalizationInv'
<1> USE DEF NormalizationInv
<1>1. /\ round = 1 /\ stage = "resolve" /\ stage' = "failed"
      /\ UNCHANGED <<input, round, decision, resolution, schemas, sheet, issues, first>>
  BY DEF RefuseWorkbook
<1>2. StageInv'
  BY <1>1 DEF StageInv
<1>3. ResultInv' /\ AnswersInv' /\ FirstInv'
  BY <1>1, SameResult, SameAnswers, SameFirst
<1>4. OutcomeInv'
  BY <1>1 DEF OutcomeInv
<1> QED
  BY <1>2, <1>3, <1>4

\* Whatever was answered, round 2 needs no schema that round 1 did not fetch.
LEMMA NeedsAreKnown ==
    ASSUME StageInv, ResultInv, AnswersInv, DOMAIN resolution = SourceRows
    PROVE  /\ round = 1 => Needed = Known
           /\ round = 2 => Needed \subseteq Known
<1>1. DOMAIN resolution = SourceRows
  OBVIOUS
<1>2. CASE round = 1
  <2>1. \A r \in SourceRows : resolution[r] = Natural(r)
    BY <1>1, <1>2 DEF ResultInv
  <2>2. With("resolved") = NaturalWith("resolved") /\ With("manual_review") = NaturalWith("manual_review")
    BY <1>1, <2>1 DEF With, NaturalWith
  <2>3. \A r \in With("resolved") \cup With("manual_review") : resolution[r] = Natural(r)
    BY <1>1, <2>1 DEF With
  <2>4. Grouped = NaturalGrouped
    BY <2>2, <2>3 DEF Grouped, NaturalGrouped
  <2>5. UNION {resolution[r].candidates : r \in With("manual_review")}
          = UNION {Natural(r).candidates : r \in NaturalWith("manual_review")}
    BY <2>2, <2>3
  <2> QED
    BY <1>2, <2>4, <2>5 DEF Needed, Known
<1>3. CASE round = 2
  <2>1. ASSUME NEW r \in SourceRows
        PROVE  /\ resolution[r].status = "resolved" => resolution[r].category \in Known
               /\ resolution[r].status = "manual_review" => resolution[r].candidates \subseteq Known
    <3>1. resolution[r] = RowCategory(r)
      BY <1>1, <1>3 DEF ResultInv
    <3>2. CASE r \in DOMAIN Overrides
      <4> DEFINE i == About(r, Answers("confirm_category"))
      <4>1. i \in Answers("confirm_category") /\ i.at = r /\ Overrides[r] = decision[i].target
        BY <3>2 DEF Overrides, About
      <4>2. i \in DOMAIN decision /\ decision[i].action = "confirm_category"
        BY <4>1 DEF Answers
      <4>3. AnswerFits(i)
        BY <4>2 DEF AnswersInv
      <4>4. /\ r \in NaturalWith("manual_review") \cup NaturalWith("unresolved")
            /\ decision[i].target \in Natural(r).candidates
        BY <4>1, <4>2, <4>3 DEF AnswerFits
      <4>5. r \in NaturalWith("manual_review")
        BY <4>4, ResolutionShape DEF NaturalWith, Natural
      <4>6. Overrides[r] \in Known
        BY <4>1, <4>4, <4>5 DEF Known
      <4>7. resolution[r].status = "resolved" /\ resolution[r].category = Overrides[r]
        BY <3>1, <3>2 DEF RowCategory, Resolved
      <4> QED
        BY <4>6, <4>7
    <3>3. CASE r \notin DOMAIN Overrides
      <4>1. resolution[r] = Natural(r)
        BY <3>1, <3>3 DEF RowCategory, Natural
      <4> QED
        BY <4>1 DEF Known, NaturalGrouped, NaturalWith
    <3> QED
      BY <3>2, <3>3
  <2> QED
    BY <1>1, <1>3, <2>1 DEF Needed, Grouped, With
<1> QED
  BY <1>2, <1>3 DEF StageInv

LEMMA FetchSchemasStep ==
    ASSUME NormalizationInv, FetchSchemas PROVE NormalizationInv'
<1> USE DEF NormalizationInv
<1>1. /\ stage = "fetch" /\ stage' = "normalize"
      /\ Needed \subseteq DOMAIN Described /\ schemas' = [c \in Needed |-> Described[c]]
      /\ UNCHANGED <<input, round, decision, resolution, sheet, issues, first>>
      /\ sheet = Empty /\ issues = {}
  BY DEF FetchSchemas, StageInv
<1>2. DOMAIN schemas' = Needed'
  BY <1>1, SameGroups
<1>3. StageInv'
  BY <1>1, <1>2, SameInput DEF StageInv
<1>4. ResultInv'
  <2>1. \A c \in DOMAIN schemas' :
           c \in DOMAIN input'.catalogue.fields /\ schemas'[c] = input'.catalogue.fields[c]
    <3>1. CASE round = 1
      BY <1>1, <3>1 DEF Described
    <3>2. CASE round = 2
      BY <1>1, <3>2 DEF Described, FirstInv
    <3> QED
      BY <3>1, <3>2 DEF StageInv
  <2>2. DOMAIN sheet' = {} /\ issues' = {}
    BY <1>1 DEF Empty
  <2>3. \A r \in DOMAIN resolution' :
          r \in SourceRows' /\ resolution'[r] = (IF round' = 1 THEN Natural(r)' ELSE RowCategory(r)')
    BY <1>1, SameInput, SameAnswers, Zenon DEF ResultInv
  <2> QED
    BY <2>1, <2>2, <2>3, Zenon DEF ResultInv
<1>5. AnswersInv' /\ FirstInv'
  BY <1>1, SameAnswers, SameFirst
<1>6. OutcomeInv'
  BY <1>1 DEF OutcomeInv
<1> QED
  BY <1>3, <1>4, <1>5, <1>6

\* Round 2 has the schemas it needs.
LEMMA FetchFailsStep ==
    ASSUME NormalizationInv, FetchFails PROVE NormalizationInv'
<1> USE DEF NormalizationInv
<1>1. /\ stage = "fetch" /\ stage' = "failed"
      /\ round = 1 \/ ~(Needed \subseteq DOMAIN Described)
      /\ UNCHANGED <<input, round, decision, resolution, schemas, sheet, issues, first>>
  BY DEF FetchFails
<1>2. round = 1
  <2> SUFFICES ASSUME round = 2 PROVE FALSE
    BY DEF StageInv
  <2>1. Needed \subseteq Known
    BY <1>1, NeedsAreKnown DEF StageInv
  <2> QED
    BY <1>1, <2>1 DEF FirstInv, Described
<1>3. StageInv'
  BY <1>1 DEF StageInv
<1>4. ResultInv' /\ AnswersInv' /\ FirstInv'
  BY <1>1, <1>2, SameResult, SameAnswers, SameFirst
<1>5. OutcomeInv'
  BY <1>1, <1>2 DEF OutcomeInv
<1> QED
  BY <1>3, <1>4, <1>5

LEMMA NormalizeCategoryStep ==
    ASSUME NormalizationInv, NEW c \in Grouped, NormalizeCategory(c)
    PROVE  NormalizationInv'
<1> USE DEF NormalizationInv
<1> DEFINE mappings == MapHeaders(input.headers, Targets(c), Confirmed(c), ForcedExtra(c))
           plan     == Plan(input.headers, Targets(c), mappings)
           new      == [name |-> UniqueName(SheetName(c), c, Folds({sheet[d].name : d \in DOMAIN sheet})),
                        plan |-> plan,
                        rows |-> [r \in Rows(c) |-> Output(r, c, plan)],
                        sku  |-> [r \in Rows(c) |-> SkuRows(r, c, plan)]]
           found    == UNION {CellIssues(r, c, plan) \cup SkuIssues(r, c, plan) : r \in Rows(c)}
<1>1. /\ stage = "normalize" /\ c \notin DOMAIN sheet /\ ~ConfirmationsClash(Confirmed(c))
      /\ sheet' = Extended(sheet, c, new) /\ issues' = issues \cup found
      /\ UNCHANGED <<input, stage, round, decision, resolution, schemas, first>>
  BY Zenon DEF NormalizeCategory, NextCategory
<1>2. /\ DOMAIN sheet' = DOMAIN sheet \cup {c} /\ sheet'[c] = new
      /\ \A d \in DOMAIN sheet : sheet'[d] = sheet[d]
  <2> HIDE DEF new
  <2> QED
    BY <1>1 DEF Extended
<1>3. new.plan = plan /\ DOMAIN new.rows = Rows(c)
  <2> HIDE DEF plan
  <2> QED
    OBVIOUS
<1>4. c \in DOMAIN schemas /\ Targets(c) = AllFields(c)
  BY <1>1 DEF StageInv, Needed, ResultInv, Targets, AllFields
<1>5. /\ round = 1 => plan = PlanWith(c, Empty, {})
      /\ round = 2 => plan = PlanWith(c, Confirmed(c), ForcedExtra(c))
  <2>1. round = 1 => Confirmed(c) = Empty /\ ForcedExtra(c) = {}
    BY <1>1, NoAnswers DEF StageInv
  <2> QED
    BY <1>4, <2>1 DEF PlanWith
<1>6. ASSUME NEW i \in found PROVE i.category = c /\ i.row \in Rows(c)
  <2> HIDE DEF plan
  <2>1. PICK r \in Rows(c) : i \in CellIssues(r, c, plan) \cup SkuIssues(r, c, plan)
    OBVIOUS
  <2>2. \A t, f : Issue(t, r, c, f).row = r /\ Issue(t, r, c, f).category = c
    BY DEF Issue
  <2>3. \E t, f : i = Issue(t, r, c, f)
    <3>1. CASE i \in CellIssues(r, c, plan)
      BY <3>1, Zenon DEF CellIssues
    <3>2. CASE i \in SkuIssues(r, c, plan)
      BY <3>2 DEF SkuIssues
    <3> QED
      BY <2>1, <3>1, <3>2
  <2> QED
    BY <2>2, <2>3
<1> HIDE DEF new, plan, found
<1>7. StageInv'
  <2>1. SourceRows' = SourceRows /\ Needed' = Needed
    BY <1>1, SameInput, SameGroups
  <2> QED
    BY <1>1, <2>1 DEF StageInv
<1>8. ResultInv'
  <2>1. /\ \A r \in DOMAIN resolution' :
              r \in SourceRows' /\ resolution'[r] = (IF round' = 1 THEN Natural(r)' ELSE RowCategory(r)')
        /\ \A d \in DOMAIN schemas' :
              d \in DOMAIN input'.catalogue.fields /\ schemas'[d] = input'.catalogue.fields[d]
    BY <1>1, SameInput, SameAnswers, Zenon DEF ResultInv
  <2>2. ASSUME NEW d \in DOMAIN sheet'
        PROVE  /\ d \in Grouped' /\ d \in DOMAIN schemas'
               /\ DOMAIN sheet'[d].rows = Rows(d)'
               /\ round' = 1 => sheet'[d].plan = PlanWith(d, Empty, {})'
               /\ round' = 2 => /\ ~ConfirmationsClash(Confirmed(d)')
                                /\ sheet'[d].plan = PlanWith(d, Confirmed(d), ForcedExtra(d))'
    <3>1. Grouped' = Grouped /\ Rows(d)' = Rows(d) /\ schemas' = schemas /\ round' = round
      BY <1>1, SameGroups
    <3>2. Confirmed(d)' = Confirmed(d) /\ ForcedExtra(d)' = ForcedExtra(d)
      BY <1>1, SameAnswers
    <3>3. /\ PlanWith(d, Empty, {})' = PlanWith(d, Empty, {})
          /\ PlanWith(d, Confirmed(d), ForcedExtra(d))' = PlanWith(d, Confirmed(d), ForcedExtra(d))
      BY <1>1, <3>2, Zenon DEF PlanWith, AllFields, Empty
    <3>4. CASE d = c
      BY <1>1, <1>2, <1>3, <1>4, <1>5, <3>1, <3>2, <3>3, <3>4
    <3>5. CASE d # c
      <4>1. d \in DOMAIN sheet /\ sheet'[d] = sheet[d]
        BY <1>2, <3>5
      <4> QED
        BY <4>1, <3>1, <3>2, <3>3 DEF ResultInv
    <3> QED
      BY <3>4, <3>5
  <2>3. ASSUME NEW i \in issues'
        PROVE  i.type # "ambiguous_mapping" =>
                  i.category \in DOMAIN sheet' /\ i.row \in DOMAIN sheet'[i.category].rows
    BY <1>1, <1>2, <1>3, <1>6 DEF ResultInv
  <2> QED
    BY <2>1, <2>2, <2>3, Zenon DEF ResultInv
<1>9. AnswersInv' /\ FirstInv'
  BY <1>1, SameAnswers, SameFirst
<1>10. OutcomeInv'
  BY <1>1 DEF OutcomeInv
<1> QED
  BY <1>7, <1>8, <1>9, <1>10

LEMMA MappingRefusedStep ==
    ASSUME NormalizationInv, NEW c \in Grouped, MappingRefused(c)
    PROVE  NormalizationInv'
<1> USE DEF NormalizationInv
<1>1. /\ stage = "normalize" /\ stage' = "failed" /\ ConfirmationsClash(Confirmed(c))
      /\ UNCHANGED <<input, round, decision, resolution, schemas, sheet, issues, first>>
  BY Zenon DEF MappingRefused
<1>2. StageInv'
  BY <1>1 DEF StageInv
<1>3. ResultInv' /\ AnswersInv' /\ FirstInv'
  BY <1>1, SameResult, SameAnswers, SameFirst DEF StageInv
<1>4. OutcomeInv'
  <2>1. c \in Grouped' /\ Confirmed(c)' = Confirmed(c)
    BY <1>1, SameGroups, SameAnswers
  <2> QED
    BY <1>1, <2>1 DEF OutcomeInv
<1> QED
  BY <1>2, <1>3, <1>4

LEMMA CheckQualityStep ==
    ASSUME NormalizationInv, CheckQuality PROVE NormalizationInv'
<1> USE DEF NormalizationInv
<1>1. /\ stage = "normalize" /\ stage' = "copy" /\ Grouped = DOMAIN sheet
      /\ issues' = issues \cup MappingIssues \cup QualityIssues
      /\ UNCHANGED <<input, round, decision, resolution, schemas, sheet, first>>
  BY Zenon DEF CheckQuality
<1>2. StageInv'
  <2>1. SourceRows' = SourceRows /\ Needed' = Needed /\ Grouped' = Grouped
    BY <1>1, SameInput, SameGroups
  <2> QED
    BY <1>1, <2>1 DEF StageInv
<1>3. ASSUME NEW i \in QualityIssues
      PROVE  i.category \in DOMAIN sheet /\ i.row \in DOMAIN sheet[i.category].rows
  <2>1. \A p \in Placed : p[2] \in DOMAIN sheet /\ p[1] \in DOMAIN sheet[p[2]].rows
    BY DEF Placed
  <2>2. \E p \in Placed : \E t, f : i = Issue(t, p[1], p[2], f)
    <3>1. /\ \A ids : Repeated(ids) \subseteq Placed
          /\ \A c, f : RepeatedInCategory(c, f) \subseteq Placed
      BY Zenon DEF Repeated, RepeatedInCategory
    <3>2. CASE i \in KeyIssues
      <4>1. PICK p \in Repeated(PrimaryKey) : i = Issue("duplicate_primary_key", p[1], p[2], None)
        BY <3>2 DEF KeyIssues
      <4> QED
        BY <3>1, <4>1
    <3>3. CASE \E f \in FixedFields : i \in FixedIssues(f)
      <4>1. PICK f \in FixedFields : i \in FixedIssues(f)
        BY <3>3
      <4>2. PICK p \in Repeated({f.id}) : i = Issue("unique_value", p[1], p[2], f.id)
        BY <4>1 DEF FixedIssues
      <4> QED
        BY <3>1, <4>2
    <3>4. CASE \E c \in DOMAIN sheet : \E f \in schemas[c] : i \in PlatformIssues(c, f)
      <4>1. PICK c \in DOMAIN sheet : \E f \in schemas[c] : i \in PlatformIssues(c, f)
        BY <3>4
      <4>2. PICK f \in schemas[c] : i \in PlatformIssues(c, f)
        BY <4>1
      <4>3. PICK p \in RepeatedInCategory(c, f) : i = Issue("unique_value", p[1], p[2], f.id)
        BY <4>2 DEF PlatformIssues
      <4> QED
        BY <3>1, <4>3
    <3>5. CASE \E p \in Placed : i \in CrossIssues(p)
      <4>1. PICK p \in Placed : i \in CrossIssues(p)
        BY <3>5
      <4>2. \E f : i = Issue("cross_field_error", p[1], p[2], f)
        BY <4>1, Zenon DEF CrossIssues
      <4> QED
        BY <4>2
    <3>6. \/ i \in KeyIssues
          \/ \E f \in FixedFields : i \in FixedIssues(f)
          \/ \E c \in DOMAIN sheet : \E f \in schemas[c] : i \in PlatformIssues(c, f)
          \/ \E p \in Placed : i \in CrossIssues(p)
      <4> DEFINE Fixed    == UNION {FixedIssues(f) : f \in {g \in FixedFields : g.unique}}
                 Of(c)    == UNION {PlatformIssues(c, f) : f \in {g \in schemas[c] : g.unique}}
                 Platform == UNION {Of(c) : c \in DOMAIN sheet}
                 Crossed  == UNION {CrossIssues(p) : p \in Placed}
      <4>1. QualityIssues = KeyIssues \cup Fixed \cup Platform \cup Crossed
        BY DEF QualityIssues
      <4>2. i \in Fixed => \E f \in FixedFields : i \in FixedIssues(f)
        BY Zenon
      <4>3. i \in Platform => \E c \in DOMAIN sheet : i \in Of(c)
        BY Zenon
      <4>4. \A c : i \in Of(c) => \E f \in schemas[c] : i \in PlatformIssues(c, f)
        BY Zenon
      <4>5. i \in Crossed => \E p \in Placed : i \in CrossIssues(p)
        BY Zenon
      <4> HIDE DEF Fixed, Platform, Of, Crossed
      <4> QED
        BY <4>1, <4>2, <4>3, <4>4, <4>5
    <3> QED
      BY <3>2, <3>3, <3>4, <3>5, <3>6, Zenon
  <2>3. \A t, r, c, f : Issue(t, r, c, f).row = r /\ Issue(t, r, c, f).category = c
    BY DEF Issue
  <2> QED
    BY <2>1, <2>2, <2>3
<1>4. ResultInv'
  <2>1. /\ \A r \in DOMAIN resolution' :
              r \in SourceRows' /\ resolution'[r] = (IF round' = 1 THEN Natural(r)' ELSE RowCategory(r)')
        /\ \A d \in DOMAIN schemas' :
              d \in DOMAIN input'.catalogue.fields /\ schemas'[d] = input'.catalogue.fields[d]
    BY <1>1, SameInput, SameAnswers, Zenon DEF ResultInv
  <2>2. ASSUME NEW d \in DOMAIN sheet
        PROVE  /\ d \in Grouped' /\ d \in DOMAIN schemas'
               /\ DOMAIN sheet'[d].rows = Rows(d)'
               /\ round' = 1 => sheet'[d].plan = PlanWith(d, Empty, {})'
               /\ round' = 2 => /\ ~ConfirmationsClash(Confirmed(d)')
                                /\ sheet'[d].plan = PlanWith(d, Confirmed(d), ForcedExtra(d))'
    <3>1. Grouped' = Grouped /\ Rows(d)' = Rows(d)
      BY <1>1, SameGroups
    <3>2. Confirmed(d)' = Confirmed(d) /\ ForcedExtra(d)' = ForcedExtra(d)
      BY <1>1, SameAnswers
    <3>3. /\ PlanWith(d, Empty, {})' = PlanWith(d, Empty, {})
          /\ PlanWith(d, Confirmed(d), ForcedExtra(d))' = PlanWith(d, Confirmed(d), ForcedExtra(d))
      BY <1>1, <3>2, Zenon DEF PlanWith, AllFields, Empty
    <3> QED
      BY <1>1, <3>1, <3>2, <3>3 DEF ResultInv
  <2>3. ASSUME NEW i \in issues'
        PROVE  i.type # "ambiguous_mapping" =>
                  i.category \in DOMAIN sheet' /\ i.row \in DOMAIN sheet'[i.category].rows
    <3>1. i \in MappingIssues => i.type = "ambiguous_mapping"
      BY DEF MappingIssues, Issue
    <3>2. i \in issues \/ i \in MappingIssues \/ i \in QualityIssues
      BY <1>1
    <3> QED
      BY <1>1, <1>3, <3>1, <3>2 DEF ResultInv
  <2>4. sheet' = sheet
    BY <1>1
  <2> QED
    BY <2>1, <2>2, <2>3, <2>4, Zenon DEF ResultInv
<1>5. AnswersInv' /\ FirstInv'
  BY <1>1, SameAnswers, SameFirst
<1>6. OutcomeInv'
  BY <1>1 DEF OutcomeInv
<1> QED
  BY <1>2, <1>4, <1>5, <1>6

\* What is asked depends on the result only.
LEMMA SameReviews ==
    ASSUME UNCHANGED <<resolution, sheet, issues>>
    PROVE  Reviews' = Reviews /\ (RequiresReview' <=> RequiresReview)
<1>1. Unresolved' = Unresolved
  BY SameGroups
<1>2. \A r : CategoryItem(r)' = CategoryItem(r)
  BY Zenon DEF CategoryItem
<1>3. Reviews' = Reviews
  <2>1. {CategoryItem(r) : r \in Unresolved}' = {CategoryItem(r) : r \in Unresolved}
    BY <1>1, <1>2
  <2>2. \A c : ColumnItems(c)' = ColumnItems(c)
    BY DEF ColumnItems
  <2>3. {ColumnItems(c) : c \in DOMAIN sheet}' = {ColumnItems(c) : c \in DOMAIN sheet}
    BY <2>2
  <2> QED
    BY <2>1, <2>3, Zenon DEF Reviews
<1> QED
  BY <1>3, Zenon DEF RequiresReview

\* Rendering changes nothing but the workbook, and ends in a review if one is asked for.
LEMMA RenderStep ==
    ASSUME NormalizationInv, NamesInv,
           CopyWorkbook \/ (\E c \in DOMAIN sheet : RenderCategory(c)) \/ RenderLists
    PROVE  NormalizationInv'
<1> USE DEF NormalizationInv
<1>1. /\ stage \in {"copy", "render"} /\ stage' \in {"render", "review", "completed", "failed"}
      /\ stage' = "completed" => ~RequiresReview
      /\ UNCHANGED <<input, round, decision, resolution, schemas, sheet, issues, first>>
  <2>1. CASE CopyWorkbook
    BY <2>1 DEF CopyWorkbook
  <2>2. CASE \E c \in DOMAIN sheet : RenderCategory(c)
    BY <2>2 DEF RenderCategory
  <2>3. CASE RenderLists
    BY <2>3 DEF RenderLists
  <2> QED
    BY <2>1, <2>2, <2>3
<1>2. StageInv'
  <2>1. SourceRows' = SourceRows /\ Needed' = Needed /\ Grouped' = Grouped
    BY <1>1, SameInput, SameGroups
  <2> QED
    BY <1>1, <2>1 DEF StageInv
<1>3. ResultInv' /\ AnswersInv' /\ FirstInv'
  BY <1>1, SameResult, SameAnswers, SameFirst DEF StageInv
<1>4. stage' = "failed" => MetadataTaken'
  <2>1. CASE RenderLists
    <3> DEFINE mid == WithIssues(WithReview(book))
    <3>1. book' = WithMetadata(mid) /\ (stage' = "failed" => MetadataName \notin DOMAIN book'.sheets)
      BY <2>1 DEF RenderLists
    <3>2. IsFiniteSet(DOMAIN mid.sheets)
      BY ListsAreAdded DEF NamesInv
    <3> HIDE DEF mid
    <3>3. PICK next : next = book'
      OBVIOUS
    <3>4. \/ MetadataName \in DOMAIN next.sheets
          \/ \E n \in DOMAIN next.sheets : n # MetadataName /\ Folded(n) = Folded(MetadataName)
      BY <3>1, <3>2, <3>3, MetadataIsAdded
    <3>5. MetadataTaken' <=>
             \E n \in DOMAIN next.sheets : n # MetadataName /\ Folded(n) = Folded(MetadataName)
      BY <3>3 DEF MetadataTaken
    <3> QED
      BY <3>1, <3>3, <3>4, <3>5
  <2>2. CASE CopyWorkbook \/ \E c \in DOMAIN sheet : RenderCategory(c)
    BY <1>1, <2>2, Zenon DEF CopyWorkbook, RenderCategory
  <2> QED
    BY <2>1, <2>2
<1>5. OutcomeInv'
  BY <1>1, <1>4, SameReviews DEF OutcomeInv
<1> QED
  BY <1>2, <1>3, <1>5

\* In round 1 every question that is asked, once answered, fits its answer.
LEMMA QuestionsFit ==
    ASSUME StageInv, ResultInv, round = 1, stage = "review", NEW item \in Reviews
    PROVE  \/ /\ item.type = "category"
              /\ item.at \in NaturalWith("manual_review") \cup NaturalWith("unresolved")
              /\ item.candidates = Natural(item.at).candidates
           \/ /\ item.type \in {"field_mapping", "duplicate_header"}
              /\ item.category \in NaturalGrouped /\ item.category \in DOMAIN input.catalogue.fields
              /\ item.at \in DOMAIN input.headers
              /\ item = FieldItem(item.at,
                   MapHeaders(input.headers, AllFields(item.category), Empty, {})[item.at], item.category)
<1>1. \A r \in DOMAIN resolution : r \in SourceRows /\ resolution[r] = Natural(r)
  BY DEF ResultInv
<1>2. CASE item \in {CategoryItem(r) : r \in Unresolved}
  <2>1. PICK r \in Unresolved : item = CategoryItem(r)
    BY <1>2
  <2>2. r \in DOMAIN resolution /\ resolution[r].status \in {"manual_review", "unresolved"}
    BY DEF Unresolved, With
  <2>3. item.type = "category" /\ item.at = r /\ item.candidates = resolution[r].candidates
    BY <2>1 DEF CategoryItem
  <2> QED
    BY <1>1, <2>2, <2>3 DEF NaturalWith
<1>3. CASE item \in UNION {ColumnItems(c) : c \in DOMAIN sheet}
  <2>1. PICK c \in DOMAIN sheet : item \in ColumnItems(c)
    BY <1>3, Zenon
  <2>2. PICK k \in sheet[c].plan.reviews : item = FieldItem(k, sheet[c].plan.mappings[k], c)
    BY <2>1, Zenon DEF ColumnItems
  <2>3. item.type \in {"field_mapping", "duplicate_header"} /\ item.at = k /\ item.category = c
    BY <2>2 DEF FieldItem
  <2> DEFINE mappings == MapHeaders(input.headers, AllFields(c), Empty, {})
  <2>4. /\ c \in Grouped /\ c \in DOMAIN input.catalogue.fields
        /\ sheet[c].plan = Plan(input.headers, AllFields(c), mappings)
    BY DEF ResultInv, PlanWith
  <2>5. sheet[c].plan.mappings = mappings /\ sheet[c].plan.reviews \subseteq DOMAIN mappings
    BY <2>4 DEF Plan
  <2>6. DOMAIN mappings = DOMAIN input.headers
    BY DEF MapHeaders
  <2>7. c \in NaturalGrouped
    BY <1>1, <2>4 DEF Grouped, With, NaturalGrouped, NaturalWith
  <2> HIDE DEF mappings
  <2> QED
    BY <2>2, <2>3, <2>4, <2>5, <2>6, <2>7 DEF mappings
<1> QED
  BY <1>2, <1>3 DEF Reviews

LEMMA DecideStep ==
    ASSUME NormalizationInv, NEW item, NEW action, NEW target, Decide(item, action, target)
    PROVE  NormalizationInv'
<1> USE DEF NormalizationInv
<1> DEFINE answer == [action |-> action, target |-> target]
<1>1. /\ stage = "review" /\ round = 1 /\ item \in Reviews /\ item \notin DOMAIN decision
      /\ action \in Actions(item.type)
      /\ action \in {"confirm_category", "confirm_mapping"} => target \in item.candidates
      /\ decision' = Extended(decision, item, answer)
      /\ UNCHANGED <<input, stage, round, resolution, schemas, sheet, issues, first>>
  BY Zenon DEF Decide
<1>2. StageInv'
  <2>1. SourceRows' = SourceRows /\ Needed' = Needed /\ Grouped' = Grouped
    BY <1>1, SameInput, SameGroups
  <2> QED
    BY <1>1, <2>1 DEF StageInv
<1>3. ResultInv' /\ FirstInv'
  BY <1>1, SameResult, SameFirst DEF StageInv
<1>4. AnswersInv'
  <2>1. /\ DOMAIN decision' = DOMAIN decision \cup {item} /\ decision'[item] = answer
        /\ \A i \in DOMAIN decision : decision'[i] = decision[i]
    BY <1>1 DEF Extended
  <2>2. ASSUME NEW i \in DOMAIN decision PROVE AnswerFits(i)'
    <3>1. AnswerFits(i) /\ decision'[i] = decision[i]
      BY <2>1 DEF AnswersInv
    <3>2. /\ NaturalWith("manual_review")' = NaturalWith("manual_review")
          /\ NaturalWith("unresolved")' = NaturalWith("unresolved")
          /\ NaturalGrouped' = NaturalGrouped
          /\ Natural(i.at)' = Natural(i.at) /\ AllFields(i.category)' = AllFields(i.category)
      BY <1>1, SameInput
    <3>3. input' = input
      BY <1>1
    <3>4. MapHeaders(input.headers, AllFields(i.category), Empty, {})'
            = MapHeaders(input.headers, AllFields(i.category), Empty, {})
      BY <1>1, Zenon DEF AllFields, Empty
    <3> QED
      BY <3>1, <3>2, <3>3, <3>4, Zenon DEF AnswerFits
  <2>3. AnswerFits(item)'
    <3>1. decision'[item].action = action /\ decision'[item].target = target
      BY <2>1
    <3>2. /\ NaturalWith("manual_review")' = NaturalWith("manual_review")
          /\ NaturalWith("unresolved")' = NaturalWith("unresolved")
          /\ NaturalGrouped' = NaturalGrouped
          /\ Natural(item.at)' = Natural(item.at) /\ AllFields(item.category)' = AllFields(item.category)
      BY <1>1, SameInput
    <3>3. input' = input
      BY <1>1
    <3>4. MapHeaders(input.headers, AllFields(item.category), Empty, {})'
            = MapHeaders(input.headers, AllFields(item.category), Empty, {})
      BY <1>1, Zenon DEF AllFields, Empty
    <3>5. CASE item.type = "category"
      <4>1. action \in {"confirm_category", "reject"}
        BY <1>1, <3>5 DEF Actions
      <4>2. /\ item.at \in NaturalWith("manual_review") \cup NaturalWith("unresolved")
            /\ item.candidates = Natural(item.at).candidates
        BY <1>1, <3>5, QuestionsFit
      <4> QED
        BY <1>1, <3>1, <3>2, <3>3, <3>5, <4>1, <4>2 DEF AnswerFits
    <3>6. CASE item.type \in {"field_mapping", "duplicate_header"}
      <4>1. action \in {"confirm_mapping", "keep_extra", "reject"}
        BY <1>1, <3>6 DEF Actions
      <4>2. /\ item.category \in NaturalGrouped /\ item.category \in DOMAIN input.catalogue.fields
            /\ item.at \in DOMAIN input.headers
            /\ item = FieldItem(item.at,
                 MapHeaders(input.headers, AllFields(item.category), Empty, {})[item.at], item.category)
        BY <1>1, <3>6, QuestionsFit
      <4>3. action = "confirm_mapping" => target \in item.candidates
        BY <1>1
      <4> QED
        BY <3>1, <3>2, <3>3, <3>4, <3>6, <4>1, <4>2, <4>3, Zenon DEF AnswerFits
    <3> QED
      BY <1>1, <3>5, <3>6, QuestionsFit
  <2> QED
    BY <2>1, <2>2, <2>3 DEF AnswersInv
<1>5. OutcomeInv'
  BY <1>1 DEF OutcomeInv
<1> QED
  BY <1>2, <1>3, <1>4, <1>5

LEMMA RerunStep ==
    ASSUME NormalizationInv, Rerun PROVE NormalizationInv'
<1> USE DEF NormalizationInv
<1>1. /\ stage = "review" /\ round = 1 /\ round' = 2 /\ stage' = "resolve"
      /\ first' = [schemas |-> schemas, sheet |-> sheet]
      /\ resolution' = Empty /\ schemas' = Empty /\ sheet' = Empty /\ issues' = {}
      /\ UNCHANGED <<input, decision>>
  BY Zenon DEF Rerun
<1>2. StageInv'
  BY <1>1 DEF StageInv
<1>3. ResultInv'
  <2>1. DOMAIN resolution' = {} /\ DOMAIN schemas' = {} /\ DOMAIN sheet' = {} /\ issues' = {}
    BY <1>1 DEF Empty
  <2> QED
    BY <2>1, Zenon DEF ResultInv
<1>4. AnswersInv'
  BY <1>1, SameAnswers
<1>5. FirstInv'
  <2>1. first'.schemas = schemas /\ first'.sheet = sheet
    BY <1>1
  <2>2. Known' = DOMAIN schemas
    <3>1. DOMAIN resolution = SourceRows /\ DOMAIN schemas = Needed
      BY <1>1 DEF StageInv
    <3> QED
      BY <1>1, <3>1, NeedsAreKnown, SameInput
  <2>3. \A c \in DOMAIN schemas :
           c \in DOMAIN input'.catalogue.fields /\ schemas[c] = input'.catalogue.fields[c]
    BY <1>1 DEF ResultInv
  <2>4. ASSUME NEW c \in DOMAIN sheet PROVE sheet[c].plan = PlanWith(c, Empty, {})'
    <3>1. PlanWith(c, Empty, {})' = PlanWith(c, Empty, {})
      BY <1>1, Zenon DEF PlanWith, AllFields, Empty
    <3> QED
      BY <1>1, <3>1 DEF ResultInv
  <2> QED
    BY <2>1, <2>2, <2>3, <2>4 DEF FirstInv
<1>6. OutcomeInv'
  BY <1>1 DEF OutcomeInv
<1> QED
  BY <1>2, <1>3, <1>4, <1>5, <1>6

LEMMA StutterStep ==
    ASSUME NormalizationInv, UNCHANGED vars PROVE NormalizationInv'
<1> USE DEF NormalizationInv
<1>1. UNCHANGED <<input, stage, round, decision, resolution, schemas, sheet, issues, book, first>>
  BY DEF vars
<1>2. StageInv'
  <2>1. SourceRows' = SourceRows /\ Needed' = Needed /\ Grouped' = Grouped
    BY <1>1, SameInput, SameGroups
  <2> QED
    BY <1>1, <2>1 DEF StageInv
<1>3. ResultInv' /\ AnswersInv' /\ FirstInv'
  BY <1>1, SameResult, SameAnswers, SameFirst DEF StageInv
<1>4. OutcomeInv'
  <2>1. RequiresReview' <=> RequiresReview
    BY <1>1, SameReviews
  <2>2. Grouped' = Grouped /\ \A c : Confirmed(c)' = Confirmed(c)
    BY <1>1, SameGroups, SameAnswers
  <2>3. MetadataTaken' <=> MetadataTaken
    BY <1>1 DEF MetadataTaken, Folded, MetadataName
  <2> QED
    BY <1>1, <2>1, <2>2, <2>3, Zenon DEF OutcomeInv
<1> QED
  BY <1>2, <1>3, <1>4

\* Names and finiteness are kept.
LEMMA NamesStep ==
    ASSUME NormalizationInv, NamesInv, [Next]_vars PROVE NamesInv'
<1>1. CASE \E c \in Grouped : NormalizeCategory(c)
  <2>1. PICK c \in Grouped : NormalizeCategory(c)
    BY <1>1
  <2> DEFINE names == {sheet[d].name : d \in DOMAIN sheet}
             used == Folds(names)
             name == UniqueName(SheetName(c), c, used)
  <2>2. /\ c \notin DOMAIN sheet /\ stage = "normalize"
        /\ DOMAIN sheet' = DOMAIN sheet \cup {c} /\ sheet'[c].name = name
        /\ \A d \in DOMAIN sheet : sheet'[d] = sheet[d]
        /\ book' = book
    BY <2>1, Zenon DEF NormalizeCategory, NextCategory, Extended
  <2>3. IsFiniteSet(used)
    <3> DEFINE f == [d \in DOMAIN sheet |-> sheet[d].name]
    <3>1. f \in Surjection(DOMAIN sheet, names)
      BY DEF Surjection
    <3>2. IsFiniteSet(DOMAIN sheet)
      BY DEF NamesInv
    <3> HIDE DEF names, f
    <3>3. IsFiniteSet(names)
      BY <3>1, <3>2, FS_Surjection
    <3> QED
      BY <3>3, FiniteFolds
  <2>4. IsName(SheetName(c))
    <3>1. c \in DOMAIN input.catalogue.fields
      BY <2>2 DEF NormalizationInv, StageInv, ResultInv, Needed
    <3>2. input.catalogue \in Catalogues
      BY DEF NormalizationInv, StageInv
    <3> QED
      BY <3>1, <3>2, NamesAssumption DEF IsName
  <2> HIDE DEF used
  <2>5. Folded(name) \notin used /\ IsName(name)
    <3>1. Folded(name) \notin used /\ \E k \in Nat : name = NumberedName(SheetName(c), c, k)
      BY <2>3, <2>4, UniqueNameIsFree
    <3> HIDE DEF name
    <3> QED
      BY <2>4, <3>1, NumberedNames
  <2>6. IsFiniteSet(DOMAIN sheet')
    BY <2>2, FS_AddElement DEF NamesInv
  <2>7. \A d \in DOMAIN sheet : sheet[d].name # name
    BY <2>5 DEF used, Folds
  <2> HIDE DEF name
  <2> QED
    BY <2>2, <2>5, <2>6, <2>7 DEF NamesInv
<1>2. CASE Rerun
  <2>1. DOMAIN sheet' = {} /\ book'.used = {} /\ DOMAIN book'.sheets = {}
    BY <1>2, Zenon DEF Rerun, Empty, NoBook
  <2> QED
    BY <2>1, FS_EmptySet DEF NamesInv
<1>3. CASE UNCHANGED <<sheet, book>>
  BY <1>3 DEF NamesInv
<1>4. CASE CopyWorkbook
  <2>1. sheet' = sheet /\ book'.used = Folds(input.sheets) /\ DOMAIN book'.sheets = input.sheets
    BY <1>4, Zenon DEF CopyWorkbook
  <2>2. IsFiniteSet(input.sheets)
    BY InputsAssumption DEF NormalizationInv, StageInv
  <2> QED
    BY <2>1, <2>2, FiniteFolds DEF NamesInv
<1>5. CASE \E c \in DOMAIN sheet : RenderCategory(c)
  <2>1. PICK c \in DOMAIN sheet : RenderCategory(c)
    BY <1>5
  <2> DEFINE mid == WithRows(c)
  <2>2. sheet' = sheet
        /\ book' = IF HasSku(c) THEN WithList(mid, SkuName(sheet[c].name), c, <<"sku", c>>) ELSE mid
    BY <2>1, Zenon DEF RenderCategory
  <2>3. IsFiniteSet(mid.used) /\ IsFiniteSet(DOMAIN mid.sheets)
    BY RowsAreAdded DEF NamesInv
  <2> HIDE DEF mid
  <2>4. ASSUME NEW new, new = WithList(mid, SkuName(sheet[c].name), c, <<"sku", c>>)
        PROVE  IsFiniteSet(new.used) /\ IsFiniteSet(DOMAIN new.sheets)
    <3>1. IsName(SkuName(sheet[c].name))
      BY SkuIsName DEF NamesInv
    <3> QED
      BY <2>3, <2>4, <3>1, ListIsAdded
  <2>5. IsFiniteSet(book'.used) /\ IsFiniteSet(DOMAIN book'.sheets)
    BY <2>2, <2>3, <2>4
  <2> QED
    BY <2>2, <2>5 DEF NamesInv
<1>6. CASE RenderLists
  <2> DEFINE mid == WithIssues(WithReview(book))
  <2>1. sheet' = sheet /\ book' = WithMetadata(mid)
    BY <1>6, Zenon DEF RenderLists
  <2>2. IsFiniteSet(mid.used) /\ IsFiniteSet(DOMAIN mid.sheets)
    BY ListsAreAdded DEF NamesInv
  <2> HIDE DEF mid
  <2>3. PICK next : next = book'
    OBVIOUS
  <2>4. next.used = mid.used /\ IsFiniteSet(DOMAIN next.sheets)
    BY <2>1, <2>2, <2>3, MetadataIsAdded
  <2> QED
    BY <2>1, <2>2, <2>3, <2>4 DEF NamesInv
<1>7. ASSUME [Next]_vars
      PROVE  \/ \E c \in Grouped : NormalizeCategory(c)
             \/ Rerun \/ UNCHANGED <<sheet, book>> \/ CopyWorkbook
             \/ (\E c \in DOMAIN sheet : RenderCategory(c)) \/ RenderLists
  BY <1>7, Zenon DEF Next, vars, ResolveRows, RefuseWorkbook, FetchSchemas, FetchFails, MappingRefused,
     CheckQuality, Decide
<1> QED
  BY <1>1, <1>2, <1>3, <1>4, <1>5, <1>6, <1>7

\* Both rounds keep the invariant: what the rows, the catalogue and the answers
\* determine is what the steps have computed so far, and nothing else.
LEMMA NormalizationInvariant == Spec => [](NormalizationInv /\ NamesInv)
<1>1. Init => NormalizationInv /\ NamesInv
  <2>1. Init => DOMAIN sheet = {} /\ book.used = {} /\ DOMAIN book.sheets = {}
    BY DEF Init, Empty, NoBook
  <2> QED
    BY <2>1, StartsWell, FS_EmptySet DEF NamesInv
<1>2. NormalizationInv /\ NamesInv /\ [Next]_vars => NormalizationInv' /\ NamesInv'
  <2> SUFFICES ASSUME NormalizationInv, NamesInv, [Next]_vars PROVE NormalizationInv'
    BY NamesStep
  <2>1. CASE UNCHANGED vars
    BY <2>1, StutterStep
  <2>2. CASE ResolveRows \/ RefuseWorkbook
    BY <2>2, ResolveRowsStep, RefuseWorkbookStep
  <2>3. CASE FetchSchemas \/ FetchFails
    BY <2>3, FetchSchemasStep, FetchFailsStep
  <2>4. CASE \E c \in Grouped : NormalizeCategory(c) \/ MappingRefused(c)
    BY <2>4, NormalizeCategoryStep, MappingRefusedStep
  <2>5. CASE CheckQuality \/ Rerun
    BY <2>5, CheckQualityStep, RerunStep
  <2>6. CASE \E item, action, target : Decide(item, action, target)
    BY <2>6, DecideStep
  <2>7. CASE CopyWorkbook \/ (\E c \in DOMAIN sheet : RenderCategory(c)) \/ RenderLists
    BY <2>7, RenderStep
  <2> QED
    BY <2>1, <2>2, <2>3, <2>4, <2>5, <2>6, <2>7, Zenon DEF Next
<1> QED
  BY <1>1, <1>2, PTL DEF Spec

-----------------------------------------------------------------------------
(* What follows from it.                                                    *)

\* The parts of a result fit together in every reachable state: each step of the
\* normalization reads rows, schemas and sheets that are there.
THEOREM NormalizationTypeCorrect == Spec => []TypeOK
<1>1. NormalizationInv => TypeOK
  <2> SUFFICES ASSUME NormalizationInv PROVE TypeOK
    OBVIOUS
  <2> USE DEF NormalizationInv
  <2>1. DOMAIN schemas \subseteq DOMAIN input.catalogue.fields
    BY Zenon DEF ResultInv
  <2>2. DOMAIN sheet \subseteq Grouped \cap DOMAIN schemas
    BY Zenon DEF ResultInv
  <2> QED
    BY <2>1, <2>2 DEF TypeOK, StageInv, ResultInv
<1> QED
  BY <1>1, NormalizationInvariant, PTL

\* A sheet's plan is that of its category's fields under answers that fit them.
LEMMA PlanOfSheet ==
    ASSUME NormalizationInv, NEW c \in DOMAIN sheet
    PROVE  /\ c \in DOMAIN input.catalogue.fields /\ IsFiniteSet(AllFields(c))
           /\ Targets(c) = AllFields(c)
           /\ \E confirmed, extra :
                 Fits(confirmed, AllFields(c)) /\ sheet[c].plan = PlanWith(c, confirmed, extra)
<1> USE DEF NormalizationInv
<1>1. /\ c \in DOMAIN schemas /\ c \in DOMAIN input.catalogue.fields
      /\ schemas[c] = input.catalogue.fields[c]
      /\ round = 1 => sheet[c].plan = PlanWith(c, Empty, {})
      /\ round = 2 => sheet[c].plan = PlanWith(c, Confirmed(c), ForcedExtra(c))
  BY Zenon DEF ResultInv
<1>2. input \in [headers : HeaderRows, rows : RowLists, catalogue : Catalogues, sheets : Workbooks] /\ round \in {1, 2}
  BY DEF StageInv
<1>3. IsFiniteSet(AllFields(c)) /\ Targets(c) = AllFields(c)
  BY <1>1, <1>2, InputFacts DEF Targets, AllFields
<1>4. Fits(Empty, AllFields(c)) /\ Fits(Confirmed(c), AllFields(c))
  BY <1>1, <1>2, NothingFits, ConfirmedFits
<1>5. CASE round = 1
  BY <1>1, <1>3, <1>4, <1>5, Zenon
<1>6. CASE round = 2
  BY <1>1, <1>3, <1>4, <1>6, Zenon
<1> QED
  BY <1>2, <1>5, <1>6

\* No cell is lost, whatever the merchant's headers, the fields' names and the
\* reviewers' answers: map_product_headers and build_dynamic_schema make of every
\* physical column exactly one output field of each category sheet.
THEOREM ColumnsKept == Spec => []ColumnsAreKept
<1>1. NormalizationInv => ColumnsAreKept
  <2> SUFFICES ASSUME NormalizationInv, NEW c \in DOMAIN sheet, NEW k \in DOMAIN input.headers
               PROVE  Cardinality({f \in DOMAIN sheet[c].plan.column : sheet[c].plan.column[f] = k})
                      + Cardinality({e \in DOMAIN sheet[c].plan.extras :
                                        sheet[c].plan.extras[e] = k}) = 1
    BY Zenon DEF ColumnsAreKept
  <2>1. PICK n \in Nat : DOMAIN input.headers = 1 .. n
    BY InputFacts DEF NormalizationInv, StageInv
  <2>2. PICK confirmed, extra :
           Fits(confirmed, AllFields(c)) /\ sheet[c].plan = PlanWith(c, confirmed, extra)
    BY PlanOfSheet
  <2>3. IsFiniteSet(AllFields(c))
    BY PlanOfSheet
  <2> HIDE DEF NormalizationInv
  <2> QED
    BY <2>1, <2>2, <2>3, EachColumnOnce DEF PlanWith
<1> QED
  BY <1>1, NormalizationInvariant, PTL

\* resolve_categories puts a row no reviewer decided about in a category only when
\* its identifier and its name, as far as it has them, name that category and no
\* other: a suggestion is never taken by itself.
THEOREM NothingGuessed == Spec => []NothingIsGuessed
<1>1. NormalizationInv => NothingIsGuessed
  <2> SUFFICES ASSUME NormalizationInv, NEW c \in DOMAIN sheet,
                      NEW r \in DOMAIN sheet[c].rows \ DOMAIN Overrides
               PROVE  (IF FixedValue(r, NameField) = Blank THEN {}
                       ELSE Owners(Token(FixedValue(r, NameField)), CategoryNames))
                      \cup ({FixedValue(r, IdField)} \ {Blank}) = {c}
    BY Zenon DEF NothingIsGuessed
  <2>1. r \in DOMAIN resolution /\ resolution[r].status = "resolved" /\ resolution[r].category = c
    BY DEF NormalizationInv, ResultInv, Rows, With
  <2>2. RowCategory(r) = Natural(r)
    BY Zenon DEF RowCategory, Natural
  <2>3. resolution[r] = Natural(r)
    BY <2>1, <2>2, Zenon DEF NormalizationInv, ResultInv
  <2>4. IsFiniteSet(DOMAIN CategoryNames) /\ Blank \notin DOMAIN CategoryNames
    BY InputFacts DEF NormalizationInv, StageInv
  <2>5. ResolveCategory(FixedValue(r, IdField), FixedValue(r, NameField), CategoryNames)
           = resolution[r]
    BY <2>3 DEF Natural
  <2> QED
    BY <2>1, <2>4, <2>5, ResolvedIsNamed
<1> QED
  BY <1>1, NormalizationInvariant, PTL

\* rerun_after_reviews has every schema it needs frozen from the first round,
\* whichever of the offered categories the reviewers chose: only two answers about
\* headers that read the same can make it fail.
THEOREM RevisionComputable == Spec => []RevisionIsComputable
<1>1. NormalizationInv => RevisionIsComputable
  BY Zenon DEF NormalizationInv, OutcomeInv, RevisionIsComputable
<1> QED
  BY <1>1, NormalizationInvariant, PTL

\* An answer is applied in its own category only: the columns of a category about
\* which nothing was asked are planned in the revision as they were before it.
THEOREM AnswersStay == Spec => []AnswersStayInTheirCategory
<1>1. NormalizationInv => AnswersStayInTheirCategory
  <2> SUFFICES ASSUME NormalizationInv, round = 2, NEW c \in DOMAIN sheet \cap DOMAIN first.sheet,
                      \A i \in DOMAIN decision : i.category # c
               PROVE  sheet[c].plan = first.sheet[c].plan
    BY Zenon DEF AnswersStayInTheirCategory
  <2>1. \A a : {i \in Answers(a) : i.category = c} = {}
    BY DEF Answers
  <2>2. Confirmed(c) = Empty
    BY <2>1 DEF Confirmed, Empty
  <2>3. ForcedExtra(c) = {}
    BY <2>1 DEF ForcedExtra
  <2>4. sheet[c].plan = PlanWith(c, Confirmed(c), ForcedExtra(c))
    BY Zenon DEF NormalizationInv, ResultInv
  <2>5. first.sheet[c].plan = PlanWith(c, Empty, {})
    BY Zenon DEF NormalizationInv, FirstInv
  <2> QED
    BY <2>2, <2>3, <2>4, <2>5
<1> QED
  BY <1>1, NormalizationInvariant, PTL

\* Every identifier of a category's fields has its place in the order, and every
\* name its score.
LEMMA FieldsAreScored ==
    ASSUME input \in [headers : HeaderRows, rows : RowLists, catalogue : Catalogues, sheets : Workbooks],
           NEW c \in DOMAIN input.catalogue.fields, NEW k \in DOMAIN input.headers
    PROVE  Scored(Token(input.headers[k]), FieldNames(AllFields(c)))
<1> DEFINE fields == AllFields(c)
           names  == FieldNames(fields)
<1>1. input.headers \in HeaderRows /\ input.catalogue \in Catalogues
  OBVIOUS
<1>2. ASSUME NEW f \in fields
      PROVE  /\ f.id \in Range(Ids)
             /\ \A m \in f.names : Score(Token(input.headers[k]), m) \in 0 .. 100
  BY <1>1, ScoresAssumption DEF AllFields
<1>3. IsFiniteSet(fields)
  BY InputFacts
<1>4. DOMAIN names = Identifiers(fields) /\ IsFiniteSet(DOMAIN names)
  BY <1>3, IdentifiersFinite
<1>5. ASSUME NEW x \in DOMAIN names
      PROVE  /\ \A m \in names[x] : Score(Token(input.headers[k]), m) \in 0 .. 100
             /\ \E i \in DOMAIN Ids : Ids[i] = x
  <2>1. PICK f \in fields : f.id = x
    BY <1>4 DEF Identifiers
  <2>2. \E i \in DOMAIN Ids : Ids[i] = x
    BY <1>2, <2>1, Zenon DEF Range
  <2>3. ASSUME NEW m \in names[x] PROVE Score(Token(input.headers[k]), m) \in 0 .. 100
    <3>1. names[x] = UNION {g.names : g \in {h \in fields : h.id = x}}
      BY <1>4, Zenon DEF FieldNames, Identifiers
    <3>2. PICK g \in fields : m \in g.names
      BY <2>3, <3>1
    <3> QED
      BY <1>2, <3>2
  <2> QED
    BY <2>2, <2>3
<1>6. DOMAIN Ids \subseteq Nat
  BY ScoresAssumption
<1> QED
  BY <1>4, <1>5, <1>6 DEF Scored

\* The plan of every sheet is the one under the answers about its category, unless
\* those are being given.
LEMMA PlanUnderAnswers ==
    ASSUME NormalizationInv, NEW c \in DOMAIN sheet, round = 2 \/ stage # "review"
    PROVE  sheet[c].plan = PlanWith(c, Confirmed(c), ForcedExtra(c))
<1> USE DEF NormalizationInv
<1>1. CASE round = 1
  <2>1. decision = Empty
    BY <1>1 DEF StageInv
  <2>2. Confirmed(c) = Empty /\ ForcedExtra(c) = {}
    BY <2>1, NoAnswers
  <2>3. sheet[c].plan = PlanWith(c, Empty, {})
    BY <1>1, Zenon DEF ResultInv
  <2> QED
    BY <2>2, <2>3
<1>2. CASE round = 2
  BY <1>2, Zenon DEF ResultInv
<1> QED
  BY <1>1, <1>2 DEF StageInv

\* When nothing is left to a reviewer, every source row is in a sheet.
LEMMA RowsAreInSheets ==
    ASSUME NormalizationInv, stage = "completed", Unresolved = {}
    PROVE  SourceRows = UNION {DOMAIN sheet[c].rows : c \in DOMAIN sheet}
<1> USE DEF NormalizationInv
<1>1. DOMAIN resolution = SourceRows /\ DOMAIN sheet = Grouped
  BY DEF StageInv
<1>2. \A c \in DOMAIN sheet : DOMAIN sheet[c].rows = Rows(c)
  BY Zenon DEF ResultInv
<1>3. ASSUME NEW r \in SourceRows
      PROVE  \E c \in DOMAIN sheet : r \in DOMAIN sheet[c].rows
  <2>1. resolution[r].status \in {"resolved", "manual_review", "unresolved"}
    <3>1. resolution[r] = Natural(r) \/ resolution[r] = RowCategory(r)
      BY <1>1, Zenon DEF ResultInv
    <3>2. Natural(r).status \in {"resolved", "manual_review", "unresolved"}
      BY ResolutionShape DEF Natural
    <3>3. RowCategory(r) = Natural(r) \/ RowCategory(r) = Resolved(Overrides[r], "confirmed")
      BY Zenon DEF RowCategory, Natural
    <3>4. Resolved(Overrides[r], "confirmed").status = "resolved"
      BY DEF Resolved
    <3> QED
      BY <3>1, <3>2, <3>3, <3>4
  <2>2. resolution[r].status = "resolved"
    BY <1>1, <2>1 DEF Unresolved, With
  <2>3. r \in Rows(resolution[r].category) /\ resolution[r].category \in Grouped
    BY <1>1, <2>2 DEF Rows, Grouped, With
  <2> QED
    BY <1>1, <1>2, <2>3
<1>4. ASSUME NEW c \in DOMAIN sheet, NEW r \in DOMAIN sheet[c].rows PROVE r \in SourceRows
  BY <1>1, <1>2 DEF Rows, With
<1> QED
  BY <1>3, <1>4

\* A result that requires_manual_review does not hold back is certain: every row is
\* in a category sheet, and every column that no reviewer kept as the merchant's own
\* is the field's it names, or neither names nor resembles one.
THEOREM QuietIsCertain == Spec => []QuietResultIsCertain
<1>1. NormalizationInv => QuietResultIsCertain
  <2> SUFFICES ASSUME NormalizationInv, stage = "completed"
               PROVE  /\ SourceRows = UNION {DOMAIN sheet[c].rows : c \in DOMAIN sheet}
                      /\ \A c \in DOMAIN sheet : \A k \in DOMAIN input.headers \ ForcedExtra(c) :
                            LET names == FieldNames(Targets(c))
                                owners == Claimants(input.headers[k], names, Confirmed(c))
                            IN  \/ \E f \in owners : owners = {f} /\ sheet[c].plan.column[f] = k
                                \/ /\ owners = {}
                                   /\ Similar(Token(input.headers[k]), names, MappingThreshold) = {}
                      /\ \A i \in issues : i.type \notin {"excel_write_unsafe", "sku_combination_limit"}
    BY Zenon DEF QuietResultIsCertain
  <2>1. ~RequiresReview
    BY DEF NormalizationInv, OutcomeInv
  <2>2. Reviews = {} /\ \A i \in issues : i.type \notin {"excel_write_unsafe", "sku_combination_limit"}
    BY <2>1, Zenon DEF RequiresReview
  <2>3. Unresolved = {}
    BY <2>2 DEF Reviews
  <2>4. ASSUME NEW c \in DOMAIN sheet PROVE sheet[c].plan.reviews = {}
    <3>1. ColumnItems(c) \subseteq UNION {ColumnItems(d) : d \in DOMAIN sheet}
      BY Zenon
    <3>2. ColumnItems(c) = {}
      BY <2>2, <3>1, Zenon DEF Reviews
    <3> QED
      BY <3>2, Zenon DEF ColumnItems
  <2>5. ASSUME NEW c \in DOMAIN sheet, NEW k \in DOMAIN input.headers \ ForcedExtra(c)
        PROVE  LET names == FieldNames(Targets(c))
                   owners == Claimants(input.headers[k], names, Confirmed(c))
               IN  \/ \E f \in owners : owners = {f} /\ sheet[c].plan.column[f] = k
                   \/ /\ owners = {}
                      /\ Similar(Token(input.headers[k]), names, MappingThreshold) = {}
    <3> DEFINE headers  == input.headers
               fields   == AllFields(c)
               names    == FieldNames(fields)
               mappings == MapHeaders(headers, fields, Confirmed(c), ForcedExtra(c))
               plan     == Plan(headers, fields, mappings)
               owners   == Claimants(headers[k], names, Confirmed(c))
               near     == Best(Similar(Token(headers[k]), names, MappingThreshold))
    <3>1. input \in [headers : HeaderRows, rows : RowLists, catalogue : Catalogues, sheets : Workbooks] /\ AnswersInv
      BY DEF NormalizationInv, StageInv
    <3>2. PICK n \in Nat : DOMAIN headers = 1 .. n
      BY <3>1, InputFacts
    <3>3. c \in DOMAIN input.catalogue.fields /\ IsFiniteSet(fields) /\ Targets(c) = fields
      BY PlanOfSheet
    <3>4. Fits(Confirmed(c), fields)
      BY <3>1, <3>3, ConfirmedFits
    <3>5. sheet[c].plan = plan
      BY PlanUnderAnswers DEF PlanWith
    <3>6. k \in 1 .. n /\ k \notin ForcedExtra(c)
      BY <3>2
    <3>7. IsFiniteSet(owners)
      BY <3>3, <3>4, ClaimsFit
    <3>8. mappings[k] = MapHeader(k, headers, names, Confirmed(c), ForcedExtra(c))
      BY DEF MapHeaders
    <3>9. /\ mappings[k].status = "unmapped" => k \in ForcedExtra(c) \/ (owners = {} /\ near = {})
          /\ mappings[k].status \in {"accepted", "unmapped", "manual_review"}
      BY <3>7, <3>8, MappingCases
    <3>10. /\ plan.reviews = {d \in 1 .. n : mappings[d].status = "manual_review"}
           /\ \A f \in Identifiers(fields) : \A d \in Accepted(mappings, f) : plan.column[f] = d
      BY <3>2, <3>3, <3>4, PlanOfColumn
    <3>11. mappings[k].status # "manual_review"
      BY <2>4, <3>5, <3>6, <3>10
    <3>12. CASE mappings[k].status = "accepted"
      <4>1. /\ mappings[k].field \in Identifiers(fields)
            /\ owners = {mappings[k].field}
            /\ Accepted(mappings, mappings[k].field) = {k}
        <5>1. n \in Nat /\ k \in 1 .. n
          BY <3>6
        <5> HIDE DEF headers, fields
        <5> QED
          BY <5>1, <3>2, <3>3, <3>4, <3>12, AcceptedOnce, SMTT(30)
      <4>2. sheet[c].plan.column[mappings[k].field] = k
        BY <3>5, <3>10, <4>1
      <4> HIDE DEF mappings, owners, names, plan
      <4>3. \E f \in owners : owners = {f} /\ sheet[c].plan.column[f] = k
        BY <4>1, <4>2
      <4> QED
        BY <3>3, <4>3 DEF owners, names
    <3>13. CASE mappings[k].status = "unmapped"
      <4>1. owners = {} /\ near = {}
        BY <3>6, <3>9, <3>13
      <4>2. Scored(Token(headers[k]), names)
        BY <3>1, <3>3, FieldsAreScored
      <4>3. MaxCandidates \in Nat \ {0}
        BY LimitsAssumption
      <4>4. Similar(Token(headers[k]), names, MappingThreshold) = {}
        BY <4>1, <4>2, <4>3, SomeoneIsSuggested
      <4> QED
        BY <3>3, <4>1, <4>4
    <3> QED
      BY <3>9, <3>11, <3>12, <3>13
  <2> QED
    BY <2>2, <2>3, <2>5, RowsAreInSheets, Zenon
<1> QED
  BY <1>1, NormalizationInvariant, PTL

\* In round 2 a row with an answer is one the first round left open.
LEMMA OverriddenWereOpen ==
    ASSUME AnswersInv, NEW r \in DOMAIN Overrides
    PROVE  r \in NaturalWith("manual_review") \cup NaturalWith("unresolved")
<1>1. PICK i \in Answers("confirm_category") : i.at = r
  BY DEF Overrides
<1>2. i \in DOMAIN decision /\ decision[i].action = "confirm_category"
  BY DEF Answers
<1>3. AnswerFits(i)
  BY <1>2 DEF AnswersInv
<1> QED
  BY <1>1, <1>2, <1>3 DEF AnswerFits

\* A category found in the first round is found in the second.
LEMMA GroupsStay ==
    ASSUME NormalizationInv, round = 2, Settled, NEW c \in NaturalGrouped
    PROVE  c \in DOMAIN sheet
<1> USE DEF NormalizationInv
<1>1. PICK r \in NaturalWith("resolved") : Natural(r).category = c
  BY DEF NaturalGrouped
<1>2. r \notin DOMAIN Overrides
  BY OverriddenWereOpen DEF NaturalWith
<1>3. RowCategory(r) = Natural(r)
  BY <1>2, Zenon DEF RowCategory, Natural
<1>4. DOMAIN resolution = SourceRows /\ DOMAIN sheet = Grouped
  BY DEF StageInv, Settled
<1>5. r \in SourceRows /\ Natural(r).status = "resolved"
  BY DEF NaturalWith
<1>6. resolution[r] = Natural(r)
  BY <1>3, <1>4, <1>5 DEF ResultInv
<1> QED
  BY <1>1, <1>4, <1>5, <1>6 DEF Grouped, With

\* What an answer about a column says: the column, its category and the question.
LEMMA ColumnAnswer ==
    ASSUME AnswersInv, NEW i \in DOMAIN decision,
           decision[i].action \in {"confirm_mapping", "keep_extra"}
    PROVE  /\ i.category \in NaturalGrouped /\ i.category \in DOMAIN input.catalogue.fields
           /\ i.at \in DOMAIN input.headers
           /\ i = FieldItem(i.at, MapHeaders(input.headers, AllFields(i.category), Empty, {})[i.at],
                            i.category)
<1>1. AnswerFits(i)
  BY DEF AnswersInv
<1> QED
  BY <1>1 DEF AnswerFits

\* A column whose answer stands alone under its header is claimed by the confirmed
\* field only.
LEMMA ConfirmedClaims ==
    ASSUME NormalizationInv, round = 2, NEW i \in Answers("confirm_mapping"), ~Overwritten(i),
           i.category \in DOMAIN sheet
    PROVE  /\ decision[i].target \in Identifiers(AllFields(i.category))
           /\ Claimants(input.headers[i.at], FieldNames(AllFields(i.category)),
                        Confirmed(i.category)) = {decision[i].target}
<1> DEFINE c      == i.category
           h      == input.headers[i.at]
           t      == decision[i].target
           heads  == {g \in DOMAIN Confirmed(c) : Token(g) = Token(h)}
           chosen == ConfirmedFor(Token(h), Confirmed(c))
<1>1. input \in [headers : HeaderRows, rows : RowLists, catalogue : Catalogues, sheets : Workbooks] /\ AnswersInv
  BY DEF NormalizationInv, StageInv
<1>2. i \in DOMAIN decision /\ decision[i].action = "confirm_mapping"
  BY DEF Answers
<1>3. c \in DOMAIN input.catalogue.fields
  BY <1>1, <1>2, ColumnAnswer
<1>4. /\ Fits(Confirmed(c), AllFields(c))
      /\ DOMAIN Confirmed(c) = {input.headers[j.at] :
            j \in {m \in Answers("confirm_mapping") : m.category = c}}
      /\ \A g \in DOMAIN Confirmed(c) :
            \E j \in Answers("confirm_mapping") :
               /\ j.category = c /\ input.headers[j.at] = g
               /\ Confirmed(c)[g] = decision[j].target
  BY <1>1, <1>3, ConfirmedFits
<1>5. h \in DOMAIN Confirmed(c)
  BY <1>4
<1>6. Confirmed(c)[h] = t
  <2>1. PICK j \in Answers("confirm_mapping") :
           j.category = c /\ input.headers[j.at] = h /\ Confirmed(c)[h] = decision[j].target
    BY <1>4, <1>5
  <2> QED
    BY <2>1, Zenon DEF Overwritten
<1>7. t \in chosen
  BY <1>5, <1>6, Zenon DEF ConfirmedFor
<1>8. IsFiniteSet(chosen)
  <2> DEFINE f == [g \in heads |-> Confirmed(c)[g]]
  <2>1. f \in Surjection(heads, chosen)
    BY DEF Surjection, ConfirmedFor
  <2>2. IsFiniteSet(heads)
    BY <1>4, FS_Subset DEF Fits
  <2> HIDE DEF f, heads, chosen
  <2> QED
    BY <2>1, <2>2, FS_Surjection
<1>9. ~(Cardinality(chosen) > 1)
  <2>1. ~ConfirmationsClash(Confirmed(c))
    BY Zenon DEF NormalizationInv, ResultInv
  <2> QED
    BY <1>5, <2>1, Zenon DEF ConfirmationsClash
<1>10. chosen = {t}
  <2> HIDE DEF chosen
  <2>1. Cardinality(chosen) \in Nat /\ Cardinality(chosen) # 0
    BY <1>7, <1>8, FS_CardinalityType, FS_EmptySet
  <2>2. Cardinality(chosen) = 1
    BY <1>9, <2>1
  <2>3. chosen = {CHOOSE x \in chosen : TRUE}
    BY <1>8, <2>2, OneElement
  <2> QED
    BY <1>7, <2>3
<1>11. t \in Identifiers(AllFields(c))
  BY <1>4, <1>5, <1>6, Zenon DEF Fits
<1> QED
  BY <1>10, <1>11, Zenon DEF Claimants

\* The revision does what the reviewers decided: their rows are in their categories,
\* the columns they kept are merchant columns about which nothing is asked again, and
\* the fields they confirmed are filled, unless two of their answers disagree.
THEOREM AnswersHonoured == Spec => []AnswersAreHonoured
<1>1. NormalizationInv => AnswersAreHonoured
  <2> SUFFICES ASSUME NormalizationInv, round = 2, Settled
               PROVE  /\ \A r \in DOMAIN Overrides :
                            \E c \in DOMAIN sheet : c = Overrides[r] /\ r \in DOMAIN sheet[c].rows
                      /\ \A i \in Answers("keep_extra") :
                            /\ i.at \in Range(sheet[i.category].plan.extras)
                            /\ i.at \notin sheet[i.category].plan.reviews
                      /\ \A i \in Answers("confirm_mapping") : ~Overwritten(i) =>
                            LET plan == sheet[i.category].plan
                                k    == plan.column[decision[i].target]
                            IN  \/ k = i.at
                                \/ k # 0 /\ plan.mappings[i.at].status = "manual_review"
    BY Zenon DEF AnswersAreHonoured
  <2>1. /\ input \in [headers : HeaderRows, rows : RowLists, catalogue : Catalogues, sheets : Workbooks]
        /\ AnswersInv /\ DOMAIN resolution = SourceRows /\ DOMAIN sheet = Grouped
    BY DEF NormalizationInv, StageInv, Settled
  <2>2. PICK n \in Nat : DOMAIN input.headers = 1 .. n
    BY <2>1, InputFacts
  <2>3. ASSUME NEW r \in DOMAIN Overrides
        PROVE  \E c \in DOMAIN sheet : c = Overrides[r] /\ r \in DOMAIN sheet[c].rows
    <3>1. r \in SourceRows
      BY <2>1, OverriddenWereOpen DEF NaturalWith
    <3>2. resolution[r] = Resolved(Overrides[r], "confirmed")
      <4>1. RowCategory(r) = Resolved(Overrides[r], "confirmed")
        BY Zenon DEF RowCategory
      <4>2. resolution[r] = RowCategory(r)
        BY <2>1, <3>1 DEF NormalizationInv, ResultInv
      <4> QED
        BY <4>1, <4>2
    <3>3. resolution[r].status = "resolved" /\ resolution[r].category = Overrides[r]
      BY <3>2 DEF Resolved
    <3>4. Overrides[r] \in DOMAIN sheet /\ r \in Rows(Overrides[r])
      BY <2>1, <3>1, <3>3 DEF Grouped, Rows, With
    <3> QED
      BY <3>4, Zenon DEF NormalizationInv, ResultInv
  <2>4. ASSUME NEW i \in DOMAIN decision,
               decision[i].action \in {"confirm_mapping", "keep_extra"}
        PROVE  LET c        == i.category
                   mappings == MapHeaders(input.headers, AllFields(c), Confirmed(c), ForcedExtra(c))
               IN  /\ c \in DOMAIN sheet /\ i.at \in 1 .. n
                   /\ IsFiniteSet(AllFields(c)) /\ Fits(Confirmed(c), AllFields(c))
                   /\ sheet[c].plan = Plan(input.headers, AllFields(c), mappings)
    <3>1. /\ i.category \in NaturalGrouped /\ i.category \in DOMAIN input.catalogue.fields
          /\ i.at \in 1 .. n
      BY <2>1, <2>2, <2>4, ColumnAnswer
    <3>2. i.category \in DOMAIN sheet
      BY <3>1, GroupsStay
    <3> QED
      BY <2>1, <3>1, <3>2, InputFacts, ConfirmedFits, PlanUnderAnswers DEF PlanWith
  <2>5. ASSUME NEW i \in Answers("keep_extra")
        PROVE  /\ i.at \in Range(sheet[i.category].plan.extras)
               /\ i.at \notin sheet[i.category].plan.reviews
    <3> DEFINE c        == i.category
               headers  == input.headers
               fields   == AllFields(c)
               mappings == MapHeaders(headers, fields, Confirmed(c), ForcedExtra(c))
               plan     == Plan(headers, fields, mappings)
               Id(k)    == ExtraId(k, headers, mappings)
    <3>1. i \in DOMAIN decision /\ decision[i].action = "keep_extra"
      BY DEF Answers
    <3>2. /\ i.at \in 1 .. n /\ sheet[c].plan = plan
          /\ IsFiniteSet(fields) /\ Fits(Confirmed(c), fields)
      BY <2>4, <3>1
    <3>3. i.at \in ForcedExtra(c)
      BY DEF ForcedExtra
    <3>4. mappings[i.at].status = "unmapped"
      <4>1. IsFiniteSet(Claimants(headers[i.at], FieldNames(fields), Confirmed(c)))
        BY <3>2, ClaimsFit
      <4>2. mappings[i.at] = MapHeader(i.at, headers, FieldNames(fields), Confirmed(c), ForcedExtra(c))
        BY <2>2, <3>2, Zenon DEF MapHeaders
      <4> QED
        BY <3>3, <4>1, <4>2, MappingCases
    <3>5. /\ plan.reviews = {k \in 1 .. n : mappings[k].status = "manual_review"}
          /\ \A k \in 1 .. n : mappings[k].status # "accepted" =>
                Id(k) \in DOMAIN plan.extras /\ plan.extras[Id(k)] = k
      BY <2>2, <3>2, PlanOfColumn
    <3>6. Id(i.at) \in DOMAIN plan.extras /\ plan.extras[Id(i.at)] = i.at
      BY <3>2, <3>4, <3>5
    <3>7. i.at \notin plan.reviews
      BY <3>4, <3>5
    <3> HIDE DEF plan, Id
    <3> QED
      BY <3>2, <3>6, <3>7 DEF Range
  <2>6. ASSUME NEW i \in Answers("confirm_mapping"), ~Overwritten(i)
        PROVE  LET plan == sheet[i.category].plan
                   k    == plan.column[decision[i].target]
               IN  \/ k = i.at
                   \/ k # 0 /\ plan.mappings[i.at].status = "manual_review"
    <3> DEFINE c        == i.category
               t        == decision[i].target
               headers  == input.headers
               fields   == AllFields(c)
               mappings == MapHeaders(headers, fields, Confirmed(c), ForcedExtra(c))
               plan     == Plan(headers, fields, mappings)
    <3>1. i \in DOMAIN decision /\ decision[i].action = "confirm_mapping"
      BY DEF Answers
    <3>2. /\ c \in DOMAIN sheet /\ i.at \in 1 .. n /\ sheet[c].plan = plan
          /\ IsFiniteSet(fields) /\ Fits(Confirmed(c), fields)
      BY <2>4, <3>1
    <3>3. /\ t \in Identifiers(fields)
          /\ Claimants(headers[i.at], FieldNames(fields), Confirmed(c)) = {t}
      BY <2>6, <3>2, ConfirmedClaims
    <3>4. i.at \notin ForcedExtra(c)
      <4> SUFFICES ASSUME i.at \in ForcedExtra(c) PROVE FALSE
        OBVIOUS
      <4>1. PICK j \in Answers("keep_extra") : j.category = c /\ j.at = i.at
        BY DEF ForcedExtra
      <4>2. j \in DOMAIN decision /\ decision[j].action = "keep_extra"
        BY DEF Answers
      <4> DEFINE m == MapHeaders(headers, fields, Empty, {})[i.at]
      <4>3. i = FieldItem(i.at, m, c)
        BY <2>1, <3>1, ColumnAnswer
      <4>4. j = FieldItem(i.at, m, c)
        BY <2>1, <4>1, <4>2, ColumnAnswer
      <4>5. i = j
        BY <4>3, <4>4, Zenon
      <4> QED
        BY <3>1, <4>2, <4>5
    <3>5. Accepted(mappings, t) # {}
          /\ (i.at \in Accepted(mappings, t) \/ mappings[i.at].status = "manual_review")
      <4> HIDE DEF headers, fields, c, t
      <4> QED
        BY <2>2, <3>2, <3>3, <3>4, ClaimedIsTaken, SMTT(30) DEF headers
    <3>6. /\ DOMAIN mappings = 1 .. n /\ plan.mappings = mappings
          /\ \A f \in Identifiers(fields) : \A k \in Accepted(mappings, f) : plan.column[f] = k
      BY <2>2, <3>2, PlanOfColumn
    <3>7. i.at \in Accepted(mappings, t) => plan.column[t] = i.at
      BY <3>3, <3>6
    <3>8. plan.column[t] # 0
      <4>1. PICK k \in Accepted(mappings, t) : TRUE
        BY <3>5
      <4>2. k \in 1 .. n /\ plan.column[t] = k
        BY <3>3, <3>6, <4>1 DEF Accepted
      <4> QED
        BY <4>2
    <3> HIDE DEF plan, mappings
    <3> QED
      BY <3>2, <3>5, <3>6, <3>7, <3>8
  <2> QED
    BY <2>3, <2>5, <2>6, Zenon
<1> QED
  BY <1>1, NormalizationInvariant, PTL

-----------------------------------------------------------------------------
(* The rendered workbook.                                                   *)

Holds(n, content) == n \in DOMAIN book.sheets /\ book.sheets[n] = content

SourceKept == \A n \in input.sheets \ Replaced : Holds(n, <<"source", None>>)

HasRows(c) == \E k \in Nat : Holds(NumberedName(sheet[c].name, "1", k), <<"rows", c>>)
HasSkuRows(c) ==
    \E j, k \in Nat :
        Holds(NumberedName(NumberedName(SkuName(sheet[c].name), c, j), "1", k), <<"sku", c>>)

\* The categories written so far are there.
CategoriesKept == \A c \in book.done : HasRows(c) /\ (HasSku(c) => HasSkuRows(c))

ListsKept ==
    /\ Unresolved # {} => \E n : Holds(n, <<"review", None>>)
    /\ issues # {} => \E n : Holds(n, <<"issues", None>>)

\* While the workbook is rendered, and afterwards, what was copied and written is there,
\* what a category writes unless names meet.
BookInv ==
    /\ stage \in {"render", "review", "completed"} =>
          /\ book.done \subseteq DOMAIN sheet
          /\ SourceKept
          /\ ~NamesMeet => CategoriesKept
    /\ stage \in {"review", "completed"} =>
          book.done = DOMAIN sheet /\ ListsKept /\ Holds(MetadataName, <<"metadata", None>>)

\* Unless names meet, what rendering makes room for is not what it may have called a
\* sheet of another category, or a SKU sheet.
LEMMA NamesDiffer ==
    ASSUME NamesInv, ~NamesMeet, NEW d \in DOMAIN sheet, NEW n \in Replaced, NEW k \in Nat
    PROVE  /\ IsName(SkuName(sheet[d].name))
           /\ n # sheet[d].name => n # NumberedName(sheet[d].name, "1", k)
           /\ n = MetadataName => n # sheet[d].name
           /\ \A j \in Nat : n # NumberedName(NumberedName(SkuName(sheet[d].name), d, j), "1", k)
<1> DEFINE b == sheet[d].name
           u == SkuName(b)
<1>1. IsName(b) /\ Len(b) \in Nat
  BY DEF NamesInv, IsName
<1>3. IsName(u) /\ Len(u) = Len(b) + 1
  BY <1>1, SkuIsName
<1>4. \A j, i \in 0 .. Len(n) :
         /\ i > 0 => n # NumberedName(b, "1", i)
         /\ n # NumberedName(NumberedName(u, d, j), "1", i)
  BY DEF NamesMeet
<1>5. n = MetadataName => n # b
  BY DEF NamesMeet
<1> HIDE DEF u
<1>6. ASSUME n = NumberedName(b, "1", k), n # b PROVE FALSE
  <2>1. Len(n) = Len(b) + k /\ NumberedName(b, "1", 0) = b
    BY <1>1, <1>6, NumberedNames
  <2>2. k # 0
    BY <1>6, <2>1
  <2>3. k \in 0 .. Len(n) /\ 0 \in 0 .. Len(n) /\ k > 0
    BY <1>1, <2>1, <2>2
  <2> QED
    BY <1>4, <1>6, <2>3
<1>7. ASSUME NEW j \in Nat, n = NumberedName(NumberedName(u, d, j), "1", k) PROVE FALSE
  <2> DEFINE v == NumberedName(u, d, j)
  <2>1. IsName(v) /\ Len(v) = Len(b) + 1 + j
    <3>1. IsName(v) /\ Len(v) = Len(u) + j
      BY <1>3, NumberedNames
    <3> QED
      BY <1>3, <3>1
  <2>2. Len(n) = Len(v) + k
    <3> HIDE DEF v
    <3>1. n = NumberedName(v, "1", k)
      BY <1>7 DEF v
    <3> QED
      BY <2>1, <3>1, NumberedNames
  <2> HIDE DEF v
  <2>3. k \in 0 .. Len(n) /\ j \in 0 .. Len(n)
    BY <1>1, <2>1, <2>2
  <2> QED
    BY <1>4, <1>7, <2>3 DEF v
<1> QED
  BY <1>3, <1>5, <1>6, <1>7 DEF u

LEMMA SameBook ==
    ASSUME UNCHANGED <<input, resolution, sheet, issues>>
    PROVE  /\ NamesMeet' = NamesMeet /\ Unresolved' = Unresolved /\ Replaced' = Replaced
           /\ \A c : HasSku(c)' = HasSku(c)
<1>1. Replaced' = Replaced
  BY DEF Replaced
<1>2. NamesMeet' = NamesMeet
  BY <1>1 DEF NamesMeet
<1>3. Unresolved' = Unresolved
  BY SameGroups
<1>4. \A c : HasSku(c)' = HasSku(c)
  BY Zenon DEF HasSku
<1> QED
  BY <1>1, <1>2, <1>3, <1>4

\* What a workbook that has all sheets of another holds.
LEMMA SheetsAreHeld ==
    ASSUME NEW d, sheet' = sheet,
           NEW Gone, \A n, x : Holds(n, x) => n \in Gone \/ Holds(n, x)'
    PROVE  /\ (\A k \in Nat : NumberedName(sheet[d].name, "1", k) \notin Gone)
              => (HasRows(d) => HasRows(d)')
           /\ (\A j, k \in Nat :
                  NumberedName(NumberedName(SkuName(sheet[d].name), d, j), "1", k) \notin Gone)
              => (HasSkuRows(d) => HasSkuRows(d)')
<1>1. ASSUME \A k \in Nat : NumberedName(sheet[d].name, "1", k) \notin Gone, HasRows(d)
      PROVE  HasRows(d)'
  <2>1. PICK k \in Nat : Holds(NumberedName(sheet[d].name, "1", k), <<"rows", d>>)
    BY <1>1 DEF HasRows
  <2>2. Holds(NumberedName(sheet[d].name, "1", k), <<"rows", d>>)'
    <3>1. PICK n : n = NumberedName(sheet[d].name, "1", k)
      OBVIOUS
    <3>2. Holds(n, <<"rows", d>>)'
      BY <1>1, <2>1, <3>1
    <3>3. NumberedName(sheet[d].name, "1", k)' = n
      BY <3>1
    <3> QED
      BY <3>2, <3>3 DEF Holds
  <2> QED
    BY <2>2 DEF HasRows
<1>2. ASSUME \A j, k \in Nat :
                NumberedName(NumberedName(SkuName(sheet[d].name), d, j), "1", k) \notin Gone,
             HasSkuRows(d)
      PROVE  HasSkuRows(d)'
  <2>1. PICK j \in Nat, k \in Nat :
           Holds(NumberedName(NumberedName(SkuName(sheet[d].name), d, j), "1", k), <<"sku", d>>)
    BY <1>2 DEF HasSkuRows
  <2>2. PICK n : n = NumberedName(NumberedName(SkuName(sheet[d].name), d, j), "1", k)
    OBVIOUS
  <2>3. Holds(n, <<"sku", d>>)'
    BY <1>2, <2>1, <2>2
  <2>4. NumberedName(NumberedName(SkuName(sheet[d].name), d, j), "1", k)' = n
    BY <2>2
  <2> QED
    BY <2>3, <2>4 DEF HasSkuRows, Holds
<1> QED
  BY <1>1, <1>2

LEMMA RenderCategoryKeeps ==
    ASSUME NamesInv, BookInv, NEW c \in DOMAIN sheet, RenderCategory(c)
    PROVE  BookInv'
<1> DEFINE mid == WithRows(c)
<1>1. /\ stage = "render" /\ stage' = "render" /\ c \notin book.done
      /\ UNCHANGED <<input, resolution, sheet, issues>>
      /\ book' = IF HasSku(c) THEN WithList(mid, SkuName(sheet[c].name), c, <<"sku", c>>) ELSE mid
  BY Zenon DEF RenderCategory
<1>2. book.done \subseteq DOMAIN sheet /\ SourceKept /\ (~NamesMeet => CategoriesKept)
  BY <1>1 DEF BookInv
<1>3. /\ NamesMeet' = NamesMeet /\ Replaced' = Replaced
      /\ \A d : HasSku(d)' = HasSku(d)
  BY <1>1, SameBook
<1>4. /\ mid.done = book.done \cup {c}
      /\ IsFiniteSet(mid.used) /\ IsFiniteSet(DOMAIN mid.sheets)
      /\ \A n \in DOMAIN book.sheets : n # sheet[c].name =>
            n \in DOMAIN mid.sheets /\ mid.sheets[n] = book.sheets[n]
      /\ \E k \in Nat : /\ NumberedName(sheet[c].name, "1", k) \in DOMAIN mid.sheets
                       /\ mid.sheets[NumberedName(sheet[c].name, "1", k)] = <<"rows", c>>
  BY RowsAreAdded DEF NamesInv
<1> HIDE DEF mid
<1>5. IsName(SkuName(sheet[c].name))
  BY SkuIsName DEF NamesInv
<1>6. PICK next : next = book'
  OBVIOUS
<1>7. /\ next.done = mid.done
      /\ \A n \in DOMAIN mid.sheets : n \in DOMAIN next.sheets /\ next.sheets[n] = mid.sheets[n]
      /\ HasSku(c) => \E j, k \in Nat :
            /\ NumberedName(NumberedName(SkuName(sheet[c].name), c, j), "1", k) \in DOMAIN next.sheets
            /\ next.sheets[NumberedName(NumberedName(SkuName(sheet[c].name), c, j), "1", k)]
                  = <<"sku", c>>
  <2>1. CASE HasSku(c)
    <3>1. next = WithList(mid, SkuName(sheet[c].name), c, <<"sku", c>>)
      BY <1>1, <1>6, <2>1
    <3>2. /\ next.done = mid.done /\ DOMAIN mid.sheets \subseteq DOMAIN next.sheets
          /\ \A n \in DOMAIN mid.sheets : next.sheets[n] = mid.sheets[n]
          /\ \E j, k \in Nat :
                /\ NumberedName(NumberedName(SkuName(sheet[c].name), c, j), "1", k)
                      \in DOMAIN next.sheets
                /\ next.sheets[NumberedName(NumberedName(SkuName(sheet[c].name), c, j), "1", k)]
                      = <<"sku", c>>
      BY <1>4, <1>5, <3>1, ListIsAdded
    <3> QED
      BY <3>2
  <2>2. CASE ~HasSku(c)
    BY <1>1, <1>6, <2>2
  <2> QED
    BY <2>1, <2>2
<1>8. \A n, x : Holds(n, x) => n \in {sheet[c].name} \/ Holds(n, x)'
  BY <1>4, <1>6, <1>7 DEF Holds
<1>9. HasRows(c)' /\ (HasSku(c) => HasSkuRows(c)')
  <2>1. HasRows(c)'
    <3>1. PICK k \in Nat : /\ NumberedName(sheet[c].name, "1", k) \in DOMAIN mid.sheets
                           /\ mid.sheets[NumberedName(sheet[c].name, "1", k)] = <<"rows", c>>
      BY <1>4
    <3>2. NumberedName(sheet[c].name, "1", k)' = NumberedName(sheet[c].name, "1", k)
      BY <1>1
    <3>3. Holds(NumberedName(sheet[c].name, "1", k), <<"rows", c>>)'
      BY <1>6, <1>7, <3>1, <3>2 DEF Holds
    <3> QED
      BY <3>3 DEF HasRows
  <2>2. ASSUME HasSku(c) PROVE HasSkuRows(c)'
    <3>1. PICK j \in Nat, k \in Nat :
             /\ NumberedName(NumberedName(SkuName(sheet[c].name), c, j), "1", k) \in DOMAIN next.sheets
             /\ next.sheets[NumberedName(NumberedName(SkuName(sheet[c].name), c, j), "1", k)]
                   = <<"sku", c>>
      BY <1>7, <2>2
    <3>2. NumberedName(NumberedName(SkuName(sheet[c].name), c, j), "1", k)'
             = NumberedName(NumberedName(SkuName(sheet[c].name), c, j), "1", k)
      BY <1>1
    <3>3. Holds(NumberedName(NumberedName(SkuName(sheet[c].name), c, j), "1", k), <<"sku", c>>)'
      BY <1>6, <3>1, <3>2 DEF Holds
    <3> QED
      BY <3>3 DEF HasSkuRows
  <2> QED
    BY <2>1, <2>2
<1>10. sheet[c].name \in Replaced
  BY DEF Replaced
<1>11. SourceKept'
  <2>1. \A n \in input.sheets \ Replaced : Holds(n, <<"source", None>>)'
    BY <1>2, <1>8, <1>10 DEF SourceKept
  <2> QED
    BY <1>1, <1>3, <2>1 DEF SourceKept
<1>12. ASSUME ~NamesMeet PROVE CategoriesKept'
  <2> SUFFICES ASSUME NEW d \in book'.done PROVE HasRows(d)' /\ (HasSku(d) => HasSkuRows(d)')
    BY <1>3 DEF CategoriesKept
  <2>1. CASE d = c
    BY <1>9, <2>1
  <2>2. CASE d # c
    <3>1. d \in book.done /\ d \in DOMAIN sheet
      BY <1>2, <1>4, <1>6, <1>7, <2>2
    <3>2. sheet[c].name # sheet[d].name
      BY <2>2, <3>1 DEF NamesInv
    <3>3. HasRows(d) /\ (HasSku(d) => HasSkuRows(d))
      BY <1>2, <1>12, <3>1 DEF CategoriesKept
    <3>4. /\ \A k \in Nat : NumberedName(sheet[d].name, "1", k) \notin {sheet[c].name}
          /\ \A j, k \in Nat :
                NumberedName(NumberedName(SkuName(sheet[d].name), d, j), "1", k) \notin {sheet[c].name}
      BY <1>10, <1>12, <3>1, <3>2, NamesDiffer
    <3>5. (HasRows(d) => HasRows(d)') /\ (HasSkuRows(d) => HasSkuRows(d)')
      BY <1>1, <1>8, <3>4, SheetsAreHeld
    <3> QED
      BY <3>3, <3>5
  <2> QED
    BY <2>1, <2>2
<1>13. book'.done \subseteq DOMAIN sheet'
  BY <1>1, <1>2, <1>4, <1>6, <1>7
<1> QED
  BY <1>1, <1>3, <1>11, <1>12, <1>13 DEF BookInv

LEMMA RenderListsKeep ==
    ASSUME NamesInv, BookInv, RenderLists
    PROVE  BookInv'
<1> DEFINE mid == WithIssues(WithReview(book))
<1>1. /\ stage = "render" /\ book.done = DOMAIN sheet
      /\ UNCHANGED <<input, resolution, sheet, issues>>
      /\ book' = WithMetadata(mid)
      /\ MetadataName \notin DOMAIN book'.sheets => stage' = "failed"
  BY Zenon DEF RenderLists
<1>2. SourceKept /\ (~NamesMeet => CategoriesKept)
  BY <1>1 DEF BookInv
<1>3. /\ NamesMeet' = NamesMeet /\ Replaced' = Replaced /\ Unresolved' = Unresolved
      /\ \A d : HasSku(d)' = HasSku(d)
  BY <1>1, SameBook
<1>4. /\ mid.done = book.done /\ IsFiniteSet(DOMAIN mid.sheets)
      /\ \A n \in DOMAIN book.sheets :
            n \in DOMAIN mid.sheets /\ mid.sheets[n] = book.sheets[n]
      /\ Unresolved # {} => \E n \in DOMAIN mid.sheets :
            n # MetadataName /\ mid.sheets[n] = <<"review", None>>
      /\ issues # {} => \E n \in DOMAIN mid.sheets :
            n # MetadataName /\ mid.sheets[n] = <<"issues", None>>
  BY ListsAreAdded DEF NamesInv
<1> HIDE DEF mid
<1>5. PICK next : next = book'
  OBVIOUS
<1>6. /\ next.done = mid.done
      /\ \A n \in DOMAIN mid.sheets :
            n # MetadataName => n \in DOMAIN next.sheets /\ next.sheets[n] = mid.sheets[n]
      /\ MetadataName \in DOMAIN next.sheets =>
            next.sheets[MetadataName] = <<"metadata", None>>
  <2>1. next = WithMetadata(mid)
    BY <1>1, <1>5
  <2> QED
    BY <1>4, <2>1, MetadataIsAdded
<1>7. \A n, x : Holds(n, x) => n \in {MetadataName} \/ Holds(n, x)'
  BY <1>4, <1>5, <1>6 DEF Holds
<1>8. MetadataName \in Replaced
  BY DEF Replaced
<1>9. SourceKept'
  <2>1. \A n \in input.sheets \ Replaced : Holds(n, <<"source", None>>)'
    BY <1>2, <1>7, <1>8 DEF SourceKept
  <2> QED
    BY <1>1, <1>3, <2>1 DEF SourceKept
<1>10. ASSUME ~NamesMeet PROVE CategoriesKept'
  <2> SUFFICES ASSUME NEW d \in book'.done PROVE HasRows(d)' /\ (HasSku(d) => HasSkuRows(d)')
    BY <1>3 DEF CategoriesKept
  <2>1. d \in book.done /\ d \in DOMAIN sheet
    BY <1>1, <1>4, <1>5, <1>6
  <2>2. HasRows(d) /\ (HasSku(d) => HasSkuRows(d))
    BY <1>2, <1>10, <2>1 DEF CategoriesKept
  <2>3. /\ \A k \in Nat : NumberedName(sheet[d].name, "1", k) \notin {MetadataName}
        /\ \A j, k \in Nat :
              NumberedName(NumberedName(SkuName(sheet[d].name), d, j), "1", k) \notin {MetadataName}
    BY <1>8, <1>10, <2>1, NamesDiffer
  <2>4. (HasRows(d) => HasRows(d)') /\ (HasSkuRows(d) => HasSkuRows(d)')
    BY <1>1, <1>7, <2>3, SheetsAreHeld
  <2> QED
    BY <2>2, <2>4
<1>11. book'.done = DOMAIN sheet'
  BY <1>1, <1>4, <1>5, <1>6
<1>12. ListsKept'
  <2>1. Unresolved # {} => \E n \in DOMAIN next.sheets : next.sheets[n] = <<"review", None>>
    BY <1>4, <1>6
  <2>2. issues # {} => \E n \in DOMAIN next.sheets : next.sheets[n] = <<"issues", None>>
    BY <1>4, <1>6
  <2> QED
    BY <1>1, <1>3, <1>5, <2>1, <2>2 DEF ListsKept, Holds
<1>13. MetadataName \in DOMAIN book'.sheets => Holds(MetadataName, <<"metadata", None>>)'
  BY <1>5, <1>6 DEF Holds, MetadataName
<1> QED
  BY <1>1, <1>3, <1>9, <1>10, <1>11, <1>12, <1>13 DEF BookInv

LEMMA BookStep ==
    ASSUME NormalizationInv, NamesInv, BookInv, [Next]_vars PROVE BookInv'
<1>1. CASE CopyWorkbook
  <2>1. /\ stage' = "render" /\ book'.done = {} /\ input' = input
        /\ DOMAIN book'.sheets = input.sheets
        /\ \A n \in input.sheets : book'.sheets[n] = <<"source", None>>
    BY <1>1, Zenon DEF CopyWorkbook
  <2> QED
    BY <2>1 DEF BookInv, SourceKept, CategoriesKept, Holds
<1>2. CASE \E c \in DOMAIN sheet : RenderCategory(c)
  BY <1>2, RenderCategoryKeeps
<1>3. CASE RenderLists
  BY <1>3, RenderListsKeep
<1>4. CASE stage' = stage /\ UNCHANGED <<input, resolution, sheet, issues, book>>
  <2>1. NamesMeet' = NamesMeet /\ Unresolved' = Unresolved /\ Replaced' = Replaced
        /\ \A c : HasSku(c)' = HasSku(c)
    BY <1>4, SameBook
  <2>2. \A n, x : Holds(n, x)' = Holds(n, x)
    BY <1>4, Zenon DEF Holds
  <2>3. SourceKept' = SourceKept
    BY <1>4, <2>1, Zenon DEF SourceKept, Holds
  <2>4. \A c : HasRows(c)' = HasRows(c) /\ HasSkuRows(c)' = HasSkuRows(c)
    BY <1>4, Zenon DEF HasRows, HasSkuRows, Holds
  <2>5. CategoriesKept' = CategoriesKept
    BY <1>4, <2>1, <2>4 DEF CategoriesKept
  <2>6. ListsKept' = ListsKept
    BY <1>4, <2>1, <2>2 DEF ListsKept
  <2>7. Holds(MetadataName, <<"metadata", None>>)' = Holds(MetadataName, <<"metadata", None>>)
    BY <1>4 DEF Holds, MetadataName
  <2> QED
    BY <1>4, <2>1, <2>3, <2>5, <2>6, <2>7 DEF BookInv
<1>5. CASE stage' \notin {"render", "review", "completed"}
  BY <1>5 DEF BookInv
<1>6. ASSUME [Next]_vars
      PROVE  \/ CopyWorkbook \/ (\E c \in DOMAIN sheet : RenderCategory(c)) \/ RenderLists
             \/ stage' = stage /\ UNCHANGED <<input, resolution, sheet, issues, book>>
             \/ stage' \notin {"render", "review", "completed"}
  <2>1. CASE ResolveRows \/ RefuseWorkbook \/ FetchSchemas \/ FetchFails \/ CheckQuality \/ Rerun
    BY <2>1 DEF ResolveRows, RefuseWorkbook, FetchSchemas, FetchFails, CheckQuality, Rerun
  <2>2. CASE \E c \in Grouped : NormalizeCategory(c) \/ MappingRefused(c)
    <3>1. stage' \in {"normalize", "failed"}
      BY <2>2, Zenon DEF NormalizeCategory, MappingRefused
    <3> QED
      BY <3>1
  <2>3. CASE \E item, action, target : Decide(item, action, target)
    BY <2>3, Zenon DEF Decide
  <2>4. CASE UNCHANGED vars
    BY <2>4, Zenon DEF vars
  <2> QED
    BY <1>6, <2>1, <2>2, <2>3, <2>4, Zenon DEF Next
<1> QED
  BY <1>1, <1>2, <1>3, <1>4, <1>5, <1>6

LEMMA BookInvariant == Spec => []BookInv
<1>1. Init => BookInv
  BY DEF Init, BookInv
<1>2. NormalizationInv /\ NamesInv /\ BookInv /\ [Next]_vars => BookInv'
  BY BookStep
<1> QED
  BY <1>1, <1>2, NormalizationInvariant, PTL DEF Spec

\* The rendered workbook has the merchant's sheets, but those with exactly the name of
\* a category or of the metadata sheet, and it has the metadata; and unless a category is
\* named as a sheet that rendering may have made for another one or for its metadata, it
\* has the rows and the SKU rows of every category and the lists of open rows and issues,
\* whatever the names and however many (service._render_product_development,
\* _unique_local_sheet_name).
THEOREM SheetsKept == Spec => []SheetsAreKept
<1>1. NamesInv /\ BookInv => SheetsAreKept
  <2> SUFFICES ASSUME NamesInv, BookInv, Settled PROVE SheetsAreKept
    BY DEF SheetsAreKept
  <2>1. /\ book.done = DOMAIN sheet /\ SourceKept /\ (~NamesMeet => CategoriesKept)
        /\ ListsKept /\ Holds(MetadataName, <<"metadata", None>>)
    BY DEF Settled, BookInv
  <2>2. ASSUME NEW n, NEW x, Holds(n, x) PROVE x \in Range(book.sheets)
    BY <2>2 DEF Holds, Range
  <2>3. \A n \in input.sheets \ Replaced :
           n \in DOMAIN book.sheets /\ book.sheets[n] = <<"source", None>>
    BY <2>1 DEF SourceKept, Holds
  <2>4. MetadataName \in DOMAIN book.sheets /\ book.sheets[MetadataName] = <<"metadata", None>>
    BY <2>1 DEF Holds
  <2>5. ASSUME ~NamesMeet PROVE Written \subseteq Range(book.sheets)
    <3>1. ASSUME NEW c \in DOMAIN sheet
          PROVE  <<"rows", c>> \in Range(book.sheets)
                 /\ (HasSku(c) => <<"sku", c>> \in Range(book.sheets))
      <4>1. HasRows(c) /\ (HasSku(c) => HasSkuRows(c))
        BY <2>1, <2>5 DEF CategoriesKept
      <4>2. (\E n : Holds(n, <<"rows", c>>)) /\ (HasSku(c) => \E n : Holds(n, <<"sku", c>>))
        BY <4>1, Zenon DEF HasRows, HasSkuRows
      <4> QED
        BY <2>2, <4>2
    <3>2. /\ Unresolved # {} => <<"review", None>> \in Range(book.sheets)
          /\ issues # {} => <<"issues", None>> \in Range(book.sheets)
      BY <2>1, <2>2, Zenon DEF ListsKept
    <3> QED
      BY <3>1, <3>2 DEF Written
  <2> QED
    BY <2>3, <2>4, <2>5, Zenon DEF SheetsAreKept
<1> QED
  BY <1>1, NormalizationInvariant, BookInvariant, PTL

=============================================================================
