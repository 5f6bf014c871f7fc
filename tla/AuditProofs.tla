----------------------------- MODULE AuditProofs ------------------------------
(***************************************************************************)
(* What holds of every audit, whatever the rule, the worksheet, the source *)
(* and the number of its records: the fetched records are the source's,    *)
(* every row and record is accounted for once, the record stores and joins *)
(* agree, and what is planned and rendered is what the rule authorises.    *)
(***************************************************************************)
EXTENDS AuditPipeline, RenderingProofs

-----------------------------------------------------------------------------
(* Paging.                                                                  *)

LEMMA SmallerOfTwo ==
    ASSUME NEW a \in Nat, NEW b \in Nat
    PROVE  Min({a, b}) = IF a <= b THEN a ELSE b
  BY DEF Min

\* A page read after the first a records of s: the records up to its end, and how many
\* there are on it.
LEMMA PageExtends ==
    ASSUME NEW S, NEW s \in Seq(S), NEW a \in Nat, NEW b \in Nat, a <= b, b <= Len(s)
    PROVE  /\ SubSeq(s, 1, a) \o SubSeq(s, a + 1, b) = SubSeq(s, 1, b)
           /\ Len(SubSeq(s, a + 1, b)) = b - a
  <1> DEFINE l == SubSeq(s, 1, a)
             m == SubSeq(s, a + 1, b)
             w == SubSeq(s, 1, b)
  <1>1. l \in Seq(S) /\ Len(l) = a /\ \A i \in 1 .. a : l[i] = s[i]
    OBVIOUS
  <1>2. m \in Seq(S) /\ Len(m) = b - a /\ \A i \in 1 .. b - a : m[i] = s[a + i]
    OBVIOUS
  <1>3. w \in Seq(S) /\ Len(w) = b /\ \A i \in 1 .. b : w[i] = s[i]
    OBVIOUS
  <1> HIDE DEF l, m, w
  <1>4. /\ l \o m \in Seq(S) /\ Len(l \o m) = Len(l) + Len(m)
        /\ \A i \in 1 .. Len(l) + Len(m) :
              (l \o m)[i] = IF i <= Len(l) THEN l[i] ELSE m[i - Len(l)]
    <2>1. l \in Seq(S) /\ m \in Seq(S)
      BY <1>1, <1>2
    <2>. QED BY ONLY <2>1, ConcatProperties, Zenon
  <1>5. ASSUME NEW i \in 1 .. b PROVE (l \o m)[i] = w[i]
    <2>1. (l \o m)[i] = IF i <= a THEN l[i] ELSE m[i - a]
      <3>1. Len(l) = a /\ i \in 1 .. Len(l) + Len(m)
        BY <1>1, <1>2
      <3>. QED BY ONLY <3>1, <1>4
    <2>2. CASE i <= a
      BY <2>1, <2>2, <1>1, <1>3
    <2>3. CASE i > a
      <3>1. (l \o m)[i] = m[i - a] /\ i - a \in 1 .. b - a
        BY <2>1, <2>3
      <3>2. m[i - a] = s[a + (i - a)] /\ a + (i - a) = i
        BY <3>1, <1>2
      <3>. QED BY <3>1, <3>2, <1>3
    <2>4. i <= a \/ i > a
      OBVIOUS
    <2>. QED BY ONLY <2>2, <2>3, <2>4, Zenon
  <1>6. l \o m = w
    <2>1. Len(l \o m) = b
      BY <1>1, <1>2, <1>4
    <2>. QED BY <2>1, <1>3, <1>4, <1>5, SeqEqual
  <1>. QED BY <1>2, <1>6 DEF l, m, w

-----------------------------------------------------------------------------
(* The case never changes, and the pages read so far are the first ones of  *)
(* what the source serves as long as it is steady.                          *)

CaseInv ==
    /\ \E about \in DOMAIN Cases : case \in Cases[about]
    /\ AllowedRule(case.rule)

\* How many records the pages before this one held.
Before == (page - 1) * case.source.size

PagingInv ==
    /\ served \in {case.source.records, case.source.later}
    /\ page \in Nat \ {0} /\ round \in {1, 2}
    /\ stage = "inspect" /\ round = 1 => page = 1 /\ fetched = <<>>
    /\ stage = "fetch" =>
          /\ page = 1 => fetched = <<>>
          /\ case.source.size = 0 => page = 1
          /\ steady => Before \in 0 .. Len(served) /\ fetched = SubSeq(served, 1, Before)
    /\ stage = "canonicalize" /\ steady => fetched = served
    /\ round = 2 => stage \notin {"fetch", "canonicalize", "validate"}

LEMMA CaseInvHolds == Spec => []CaseInv
  <1>1. Init => CaseInv
    BY DEF Init, CaseInv
  <1>2. CaseInv /\ [Next]_vars => CaseInv'
    <2>1. [Next]_vars => case' = case
      BY DEF Next, vars, Inspect, ServerChanges, ReadPage, RequestFails, Canonicalize, Validate,
             CompareSheet, NoSheetToCompare, LeaveToReview, ReportOnly, Render, AuditResult
    <2>. QED BY <2>1 DEF CaseInv
  <1>. QED BY <1>1, <1>2, PTL DEF Spec

\* Everything the source serves is a list, and its pages have a size.
LEMMA SourceIsList ==
    ASSUME CaseInv, PagingInv
    PROVE  /\ \E S : served \in Seq(S)
           /\ case.source.size \in Nat
  <1>1. PICK about \in DOMAIN Cases : case \in Cases[about]
    BY DEF CaseInv
  <1>2. /\ case.source.records \in Seq(Range(case.source.records))
        /\ case.source.later \in Seq(Range(case.source.later))
        /\ case.source.size \in Nat
    BY <1>1, CasesAssumption
  <1>. QED BY <1>2 DEF PagingInv

LEMMA OneMore ==
    ASSUME NEW p \in Int, NEW z \in Int
    PROVE  p * z = (p - 1) * z + z
  OBVIOUS

LEMMA PagingInit == CaseInv /\ Init => PagingInv
  BY DEF Init, PagingInv

\* A page that the source answers is what comes after the pages read before it.
LEMMA NextPage ==
    ASSUME CaseInv, PagingInv, stage = "fetch", steady, case.source.size # 0
    PROVE  LET answer == PageOf(served, page, case.source.size)
               upto   == Min({Before + case.source.size, Len(served)})
           IN  /\ upto = IF Before + case.source.size <= Len(served)
                         THEN Before + case.source.size ELSE Len(served)
               /\ Before \in Nat /\ Before <= upto /\ upto <= Len(served) /\ upto \in Nat
               /\ fetched \o answer = SubSeq(served, 1, upto)
               /\ Len(answer) = upto - Before
               /\ Len(fetched \o answer) = upto
  <1> DEFINE size == case.source.size
             upto == Min({Before + size, Len(served)})
             answer == PageOf(served, page, size)
  <1>1. PICK S : served \in Seq(S)
    BY SourceIsList
  <1>2. size \in Nat /\ Len(served) \in Nat
    BY <1>1, SourceIsList
  <1>3. /\ Before \in Nat /\ Before <= Len(served) /\ fetched = SubSeq(served, 1, Before)
        /\ page \in Nat
    BY <1>2 DEF PagingInv
  <1>4. upto = IF Before + size <= Len(served) THEN Before + size ELSE Len(served)
    <2>1. Before + size \in Nat
      BY <1>2, <1>3
    <2>. QED BY <2>1, <1>2, SmallerOfTwo
  <1>5. upto \in Nat /\ Before <= upto /\ upto <= Len(served)
    BY <1>2, <1>3, <1>4
  <1>6. page * size = Before + size
    <2>1. page * size = (page - 1) * size + size
      BY <1>2, <1>3, OneMore
    <2>. QED BY <2>1 DEF Before
  <1>7. answer = SubSeq(served, Before + 1, upto)
    BY <1>6 DEF PageOf, Before
  <1> HIDE DEF upto, answer
  <1>8. fetched \o answer = SubSeq(served, 1, upto) /\ Len(answer) = upto - Before
    BY <1>1, <1>3, <1>5, <1>7, PageExtends
  <1>9. Len(SubSeq(served, 1, upto)) = upto
    BY <1>1, <1>5
  <1>. QED BY <1>3, <1>4, <1>5, <1>8, <1>9 DEF upto, answer

LEMMA PagingStep == CaseInv /\ PagingInv /\ [Next]_vars => PagingInv'
  <1> SUFFICES ASSUME CaseInv, PagingInv, [Next]_vars PROVE PagingInv'
    OBVIOUS
  <1>1. CASE Inspect
    <2>1. PICK S : served \in Seq(S)
      BY SourceIsList
    <2>2. page = 1 => Before = 0
      BY SourceIsList DEF Before
    <2>3. SubSeq(served, 1, 0) = <<>> /\ Len(served) \in Nat
      BY <2>1
    <2>4. stage' = "fetch" => page = 1 /\ fetched = <<>>
      BY <1>1 DEF Inspect, PagingInv
    <2>5. Before' = Before
      BY <1>1 DEF Inspect, source, Before
    <2>6. stage' = "fetch" => Before' \in 0 .. Len(served') /\ fetched' = SubSeq(served', 1, Before')
      <3>1. served' = served /\ fetched' = fetched
        BY <1>1 DEF Inspect, source
      <3>2. 0 \in 0 .. Len(served)
        BY <2>3
      <3>. QED BY ONLY <3>1, <3>2, <2>2, <2>3, <2>4, <2>5
    <2>. QED BY <1>1, <2>4, <2>6 DEF Inspect, source, PagingInv
  <1>2. CASE ServerChanges
    <2>1. served' \in {case.source.records, case.source.later}
      BY <1>2 DEF ServerChanges
    <2>2. PICK about \in DOMAIN Cases : case \in Cases[about]
      BY DEF CaseInv
    <2>3. case.source.later \in Seq(Range(case.source.later)) /\ case.source.size \in Nat
      BY <2>2, CasesAssumption
    <2>4. Len(served') \in Nat /\ SubSeq(served', 1, 0) = <<>>
      BY <2>3, <1>2 DEF ServerChanges
    <2>5. page = 1 => Before' = 0
      BY <2>3, <1>2 DEF ServerChanges, Before
    <2>6. steady' => Before' \in 0 .. Len(served') /\ fetched' = SubSeq(served', 1, Before')
      <3>1. steady' => page = 1 /\ fetched = <<>>
        BY <1>2 DEF ServerChanges, PagingInv
      <3>2. fetched' = fetched
        BY <1>2 DEF ServerChanges
      <3>3. 0 \in 0 .. Len(served')
        BY <2>4
      <3>. QED BY ONLY <3>1, <3>2, <3>3, <2>4, <2>5
    <2>. QED BY <1>2, <2>1, <2>6 DEF ServerChanges, PagingInv
  <1>3. CASE ReadPage
    <2> DEFINE size == case.source.size
               answer == IF size = 0 THEN served ELSE PageOf(served, page, size)
               read   == fetched \o answer
    <2>0. UNCHANGED <<case, sheet, round, served, steady, finding>> /\ stage = "fetch" /\ fetched' = read
      BY <1>3 DEF ReadPage
    <2>1. PICK S : served \in Seq(S)
      BY SourceIsList
    <2>2. size \in Nat /\ Len(served) \in Nat /\ page \in Nat \ {0} /\ round = 1
      BY <2>0, <2>1, SourceIsList DEF PagingInv
    <2>3. ASSUME size = 0 PROVE fetched' = served
      <3>1. fetched = <<>> /\ answer = served
        BY <2>0, <2>3 DEF PagingInv
      <3>. QED BY <3>1, <2>0, <2>1, ConcatEmptySeq
    <2>4. CASE stage' = "canonicalize" /\ page' = page /\ LastPage(answer, read)
      <3>1. ASSUME steady, size # 0 PROVE fetched' = served
        <4>1. answer = PageOf(served, page, size)
          BY <3>1
        <4> DEFINE upto == Min({Before + size, Len(served)})
        <4>2. /\ upto = IF Before + size <= Len(served) THEN Before + size ELSE Len(served)
              /\ Before \in Nat /\ Before <= upto /\ upto <= Len(served) /\ upto \in Nat
              /\ read = SubSeq(served, 1, upto) /\ Len(answer) = upto - Before /\ Len(read) = upto
          BY <4>1, <3>1, <2>0, NextPage
        <4>4. Len(read) >= Len(served) \/ Len(answer) < size
          BY <2>4, <3>1 DEF LastPage
        <4> HIDE DEF upto, answer, read, size
        <4>5. upto = Len(served)
          BY ONLY <4>2, <4>4, <2>2
        <4>6. SubSeq(served, 1, Len(served)) = served
          BY <2>1, SubSeqFull
        <4>. QED BY <2>0, <4>2, <4>5, <4>6
      <3>. QED BY <2>0, <2>2, <2>3, <2>4, <3>1 DEF PagingInv
    <2>5. CASE stage' = "failed" /\ page' = page
      BY <2>0, <2>2, <2>5 DEF PagingInv
    <2>6. CASE stage' = stage /\ page' = page + 1 /\ ~LastPage(answer, read)
      <3>1. size # 0 /\ ~(Len(answer) < size)
        BY <2>6 DEF LastPage
      <3>2. page' # 1 /\ page' \in Nat \ {0}
        BY <2>2, <2>6
      <3>3. Before' = Before + size
        <4>1. Before' = ((page + 1) - 1) * case.source.size
          <5>1. page' = page + 1 /\ case' = case
            BY <2>0, <2>6
          <5>2. Before' = (page' - 1) * case'.source.size
            BY DEF Before
          <5>. QED BY ONLY <5>1, <5>2
        <4>. QED BY <4>1, <2>2 DEF Before
      <3>4. ASSUME steady PROVE Before' \in 0 .. Len(served') /\ fetched' = SubSeq(served', 1, Before')
        <4>1. answer = PageOf(served, page, size)
          BY <3>1
        <4> DEFINE upto == Min({Before + size, Len(served)})
        <4>2. /\ upto = IF Before + size <= Len(served) THEN Before + size ELSE Len(served)
              /\ Before \in Nat /\ Before <= upto /\ upto <= Len(served) /\ upto \in Nat
              /\ read = SubSeq(served, 1, upto) /\ Len(answer) = upto - Before
          BY <4>1, <3>1, <3>4, <2>0, NextPage
        <4> HIDE DEF upto, answer, read
        <4>4. upto = Before + size
          BY <4>2, <3>1, <2>2
        <4>. QED BY <2>0, <2>2, <4>2, <4>4, <3>3
      <3>. QED BY <2>0, <2>2, <2>6, <3>1, <3>2, <3>4 DEF PagingInv
    <2>. QED BY <1>3, <2>4, <2>5, <2>6 DEF ReadPage
  <1>4. CASE RequestFails
    BY <1>4 DEF RequestFails, PagingInv, Before
  <1>5. CASE Canonicalize
    BY <1>5 DEF Canonicalize, source, PagingInv, Before
  <1>6. CASE Validate
    BY <1>6 DEF Validate, source, PagingInv, Before
  <1>7. CASE CompareSheet
    BY <1>7 DEF CompareSheet, source, PagingInv, Before
  <1>8. CASE NoSheetToCompare
    BY <1>8 DEF NoSheetToCompare, source, PagingInv, Before
  <1>9. CASE LeaveToReview
    BY <1>9 DEF LeaveToReview, source, PagingInv, Before
  <1>10. CASE ReportOnly
    BY <1>10 DEF ReportOnly, source, PagingInv, Before
  <1>11. CASE Render
    BY <1>11 DEF Render, source, PagingInv, Before
  <1>12. CASE AuditResult
    BY <1>12 DEF AuditResult, source, PagingInv, Before
  <1>13. CASE UNCHANGED vars
    BY <1>13 DEF vars, PagingInv, Before
  <1>. QED BY <1>1, <1>2, <1>3, <1>4, <1>5, <1>6, <1>7, <1>8, <1>9, <1>10, <1>11, <1>12, <1>13 DEF Next

\* The standard records are all the records of a source that did not change while they
\* were read, in its order, however many pages there are and however requests fail
\* (standard_sources.ManagedHttpSource.fetch_with_metadata).
THEOREM SnapshotComplete == Spec => []SnapshotIsComplete
  <1>1. CaseInv /\ Init => PagingInv
    BY PagingInit
  <1>2. CaseInv /\ PagingInv /\ [Next]_vars => PagingInv'
    BY PagingStep
  <1>3. PagingInv => SnapshotIsComplete
    BY DEF PagingInv, SnapshotIsComplete
  <1>. QED BY <1>1, <1>2, <1>3, CaseInvHolds, PTL DEF Spec

-----------------------------------------------------------------------------
(* Keys.  Every key is of a row, of a place or of fields; one spelling is   *)
(* one key, and a valid standard has a key once.                            *)

KeyOf(rule, a) ==
    \/ \E n : a = RowKey(n)
    \/ \E n : a = FallbackKey(n)
    \/ \E record : a = FieldKey(rule, record)

LEMMA StableIsSame ==
    ASSUME NEW rule, NEW a, NEW b, KeyOf(rule, a), KeyOf(rule, b), StableKey(a) = StableKey(b)
    PROVE  SameKey(a, b)
  <1>1. a.kind = b.kind /\ a.text = b.text
    BY DEF StableKey
  <1>2. CASE a.kind # "fields"
    <2>1. a.number = a.text /\ b.number = b.text
      BY <1>1, <1>2 DEF KeyOf, RowKey, FallbackKey, FieldKey, Key
    <2>. QED BY <1>1, <2>1 DEF SameKey
  <1>3. CASE a.kind = "fields"
    <2>0. \A n : RowKey(n).kind # "fields" /\ FallbackKey(n).kind # "fields"
      BY DEF RowKey, FallbackKey, Key
    <2>1. PICK left : a = FieldKey(rule, left)
      BY <2>0, <1>3, Zenon DEF KeyOf
    <2>2. PICK right : b = FieldKey(rule, right)
      BY <2>0, <1>1, <1>3, Zenon DEF KeyOf
    <2>3. [f \in rule.key |-> left[f]] = [f \in rule.key |-> right[f]]
      BY <1>1, <2>1, <2>2 DEF FieldKey, Key
    <2>4. \A f \in rule.key : left[f] = right[f]
      BY <2>3
    <2>5. [f \in rule.key |-> Parse(left[f], FieldNamed(rule, f)).value]
              = [f \in rule.key |-> Parse(right[f], FieldNamed(rule, f)).value]
      BY <2>4
    <2>. QED BY <1>1, <2>1, <2>2, <2>5 DEF SameKey, FieldKey, Key
  <1>. QED BY <1>2, <1>3

LEMMA ExcelKeyIsKey ==
    ASSUME NEW v, NEW r
    PROVE  KeyOf(v.rule, ExcelKey(v, r))
  <1>1. \/ ExcelKey(v, r) = RowKey(r)
        \/ ExcelKey(v, r) = FieldKey(v.rule, v.record[r])
        \/ ExcelKey(v, r) = FallbackKey(r - v.start + 1)
    BY DEF ExcelKey
  <1>. QED BY <1>1, Zenon DEF KeyOf

LEMMA StandardKeyIsKey ==
    ASSUME NEW rule, NEW std, NEW i
    PROVE  KeyOf(rule, StandardKey(rule, std, i))
  <1>1. \/ StandardKey(rule, std, i) = RowKey(std[i].row)
        \/ StandardKey(rule, std, i) = FieldKey(rule, std[i])
        \/ StandardKey(rule, std, i) = FallbackKey(i)
    BY DEF StandardKey
  <1>. QED BY <1>1, Zenon DEF KeyOf

LEMMA StandardKeysDiffer ==
    ASSUME NEW rule, NEW std, KeysValid(rule, std), NEW i \in DOMAIN std, NEW j \in DOMAIN std,
           HasStandardKey(rule, std[i]), HasStandardKey(rule, std[j]),
           SameKey(StandardKey(rule, std, i), StandardKey(rule, std, j))
    PROVE  i = j
  <1> SUFFICES ASSUME i # j PROVE FALSE
    OBVIOUS
  <1>1. ~(rule.keyMode = "row_number" \/ (HasKey(rule, std[i]) /\ HasKey(rule, std[j])))
    BY DEF KeysValid
  <1>2. /\ ~HasKey(rule, std[i]) => StandardKey(rule, std, i) = FallbackKey(i)
        /\ ~HasKey(rule, std[j]) => StandardKey(rule, std, j) = FallbackKey(j)
    BY <1>1 DEF StandardKey
  <1>3. /\ HasKey(rule, std[i]) => \/ StandardKey(rule, std, i) = FallbackKey(i)
                                   \/ StandardKey(rule, std, i).kind = "fields"
        /\ HasKey(rule, std[j]) => \/ StandardKey(rule, std, j) = FallbackKey(j)
                                   \/ StandardKey(rule, std, j).kind = "fields"
    BY <1>1 DEF StandardKey, FieldKey, Key
  <1>4. FallbackKey(i).kind = "fallback" /\ FallbackKey(j).kind = "fallback"
        /\ FallbackKey(i).number = i /\ FallbackKey(j).number = j
    BY DEF FallbackKey, Key
  <1>. QED BY <1>1, <1>2, <1>3, <1>4 DEF SameKey

\* The standard records that have a key.
KeyedRecords(v, std) == {i \in DOMAIN std : HasStandardKey(v.rule, std[i])}

LEMMA NoRecordDropped ==
    ASSUME NEW v, NEW std, KeysValid(v.rule, std), NEW onDisk
    PROVE  StandardRecords(v, std, onDisk) = KeyedRecords(v, std)
  <1>1. ASSUME NEW i \in KeyedRecords(v, std), NEW j \in KeyedRecords(v, std),
               Collide(StandardKey(v.rule, std, i), StandardKey(v.rule, std, j), onDisk)
        PROVE  i = j
    <2>1. SameKey(StandardKey(v.rule, std, i), StandardKey(v.rule, std, j))
      BY <1>1, StableIsSame, StandardKeyIsKey DEF Collide
    <2>. QED BY <2>1, StandardKeysDiffer DEF KeyedRecords
  <1>. QED BY <1>1 DEF StandardRecords, KeyedRecords

LEMMA AllRecordsJoin ==
    ASSUME NEW v, NEW std, KeysValid(v.rule, std), DOMAIN std \subseteq Int, NEW mode
    PROVE  JoinKeys(v, std, mode) = KeyedRecords(v, std)
  <1>1. StandardRecords(v, std, mode.disk) = KeyedRecords(v, std)
    BY NoRecordDropped
  <1>2. ASSUME NEW i \in KeyedRecords(v, std), NEW j \in KeyedRecords(v, std), j < i,
               SameKey(StandardKey(v.rule, std, j), StandardKey(v.rule, std, i))
        PROVE  FALSE
    <2>1. j = i
      BY <1>2, StandardKeysDiffer DEF KeyedRecords
    <2>2. i \in Int
      BY DEF KeyedRecords
    <2>. QED BY <1>2, <2>1, <2>2
  <1>. QED BY <1>1, <1>2 DEF JoinKeys

-----------------------------------------------------------------------------
(* The join.  Keys that are joined are the same, so a row has one record    *)
(* and a record one row.                                                    *)

\* A valid standard of numbered records.
Valid(v, std) == KeysValid(v.rule, std) /\ DOMAIN std \subseteq Int

LEMMA JoinedIsSame ==
    ASSUME NEW v, NEW std, Valid(v, std), NEW mode, NEW p \in Joined(v, std, mode)
    PROVE  /\ p = <<p[1], p[2]>> /\ p[1] \in ExcelRecords(v) /\ p[2] \in KeyedRecords(v, std)
           /\ SameKey(ExcelKey(v, p[1]), StandardKey(v.rule, std, p[2]))
  <1>1. /\ p \in ExcelRecords(v) \X KeyedRecords(v, std)
        /\ JoinEqual(ExcelKey(v, p[1]), StandardKey(v.rule, std, p[2]), mode)
    BY AllRecordsJoin DEF Joined, Valid
  <1>2. SameKey(ExcelKey(v, p[1]), StandardKey(v.rule, std, p[2]))
    BY <1>1, StableIsSame, ExcelKeyIsKey, StandardKeyIsKey DEF JoinEqual
  <1>. QED BY <1>1, <1>2

LEMMA OneRecordOfRow ==
    ASSUME NEW v, NEW std, Valid(v, std), NEW r,
           NEW i \in KeyedRecords(v, std), NEW j \in KeyedRecords(v, std),
           SameKey(ExcelKey(v, r), StandardKey(v.rule, std, i)),
           SameKey(ExcelKey(v, r), StandardKey(v.rule, std, j))
    PROVE  i = j
  <1>1. SameKey(StandardKey(v.rule, std, i), StandardKey(v.rule, std, j))
    BY DEF SameKey
  <1>. QED BY <1>1, StandardKeysDiffer DEF Valid, KeyedRecords

LEMMA OneRowOfRecord ==
    ASSUME NEW v, NEW std, NEW i, NEW r \in ExcelRecords(v), NEW q \in ExcelRecords(v),
           SameKey(ExcelKey(v, r), StandardKey(v.rule, std, i)),
           SameKey(ExcelKey(v, q), StandardKey(v.rule, std, i))
    PROVE  r = q
  <1>1. SameKey(ExcelKey(v, q), ExcelKey(v, r))
    BY DEF SameKey
  <1>. QED BY <1>1 DEF ExcelRecords, DuplicateRows

\* The record looked up for a joined pair is the one it was joined with or none.
LEMMA LookupIsJoined ==
    ASSUME NEW v, NEW std, Valid(v, std), NEW mode, NEW p \in Joined(v, std, mode)
    PROVE  Lookup(v, std, mode, p[1], p[2]) \subseteq {p[2]}
  <1>1. /\ p[2] \in KeyedRecords(v, std)
        /\ SameKey(ExcelKey(v, p[1]), StandardKey(v.rule, std, p[2]))
    BY JoinedIsSame
  <1>2. ASSUME NEW j \in KeyedRecords(v, std),
               StableKey(StandardKey(v.rule, std, j)) = StableKey(ExcelKey(v, p[1]))
        PROVE  j = p[2]
    <2>1. SameKey(ExcelKey(v, p[1]), StandardKey(v.rule, std, j))
      BY <1>2, StableIsSame, ExcelKeyIsKey, StandardKeyIsKey
    <2>. QED BY <2>1, <1>1, OneRecordOfRow
  <1>. QED BY <1>2, NoRecordDropped DEF Lookup, Valid

\* Where no key is lost, what is compared is what was joined.
LEMMA MatchedIsJoined ==
    ASSUME NEW v, NEW std, Valid(v, std), NEW mode, ~KeyLost(v, std, mode)
    PROVE  Matched(v, std, mode) = Joined(v, std, mode)
  <1>1. ASSUME NEW p \in Joined(v, std, mode)
        PROVE  {<<p[1], j>> : j \in Lookup(v, std, mode, p[1], p[2])} = {p}
    <2>1. Lookup(v, std, mode, p[1], p[2]) = {p[2]}
      BY LookupIsJoined DEF KeyLost
    <2>2. p = <<p[1], p[2]>>
      BY JoinedIsSame
    <2>. QED BY <2>1, <2>2
  <1>2. Matched(v, std, mode) = UNION {{p} : p \in Joined(v, std, mode)}
    BY <1>1 DEF Matched
  <1>. QED BY <1>2

-----------------------------------------------------------------------------
(* Where notes come from.  Only the keys of rows, extra rows and missing    *)
(* records are noted in the words RowsAreAccountedFor counts.               *)

AccountKinds == {"formula", "empty", "duplicate_key", "extra_record", "missing_record"}
Quiet(notes) == \A n \in notes : n.kind \notin AccountKinds

LEMMA QuietNothing == Quiet(Nothing.notes)
  BY DEF Quiet, Nothing, Finding

LEMMA QuietSays ==
    ASSUME NEW kind, kind \notin AccountKinds, NEW row, NEW column, NEW field
    PROVE  Quiet(Says(Note(kind, row, column, field)).notes)
  BY DEF Quiet, Says, Finding, Note

LEMMA QuietNote ==
    ASSUME NEW kind, kind \notin AccountKinds, NEW row, NEW column, NEW field, NEW repairs
    PROVE  Quiet(Finding({Note(kind, row, column, field)}, repairs).notes)
  BY DEF Quiet, Finding, Note

LEMMA QuietTogether ==
    ASSUME NEW S, \A x \in S : Quiet(x.notes)
    PROVE  Quiet(Together(S).notes)
  <1>1. Together(S).notes = UNION {x.notes : x \in S}
    BY DEF Together, Finding
  <1>. QED BY <1>1 DEF Quiet

LEMMA QuietDefault ==
    ASSUME NEW f, NEW r, NEW c, NEW write
    PROVE  Quiet(FillDefault(f, r, c, write).notes)
  <1>1. "filled" \notin AccountKinds /\ "write_unsafe" \notin AccountKinds
    BY DEF AccountKinds
  <1>. QED BY <1>1, QuietNote, QuietSays DEF FillDefault

LEMMA QuietInserted ==
    ASSUME NEW v, NEW f, NEW r, NEW record
    PROVE  Quiet(InsertedCell(v, f, r, record).notes)
  <1>1. "template_mismatch" \notin AccountKinds /\ "filled" \notin AccountKinds
        /\ "write_unsafe" \notin AccountKinds
    BY DEF AccountKinds
  <1>. QED BY <1>1, QuietNothing, QuietNote, QuietSays, QuietDefault DEF InsertedCell

LEMMA QuietMismatched ==
    ASSUME NEW v, NEW f, NEW r, NEW isFormula, NEW left, NEW cell
    PROVE  Quiet(MismatchedCell(v, f, r, isFormula, left, cell).notes)
  <1>1. {"fuzzy_value", "value_mismatch", "cached_write_blocked", "write_unsafe"} \cap AccountKinds = {}
    BY DEF AccountKinds
  <1> DEFINE c == v.columns[f.name]
             note == Note("value_mismatch", r, c, f.name)
  <1>2. \A kind \in {"cached_write_blocked", "write_unsafe"} :
            Quiet(Finding({note, Note(kind, r, c, f.name)}, {}).notes)
    BY <1>1 DEF Quiet, Finding, Note
  <1>3. \A repairs : Quiet(Finding({note}, repairs).notes)
    BY <1>1, QuietNote
  <1>4. Quiet(Says(Note("fuzzy_value", r, c, f.name)).notes)
    BY <1>1, QuietSays
  <1>. QED BY <1>2, <1>3, <1>4 DEF MismatchedCell

LEMMA QuietMatched ==
    ASSUME NEW v, NEW f, NEW r, NEW record
    PROVE  Quiet(MatchedCell(v, f, r, record).notes)
  <1>1. {"formula_text", "standard_invalid", "cached_write_blocked"} \cap AccountKinds = {}
    BY DEF AccountKinds
  <1>2. \A kind \in {"formula_text", "standard_invalid", "cached_write_blocked"} :
            \A c : Quiet(Says(Note(kind, r, c, f.name)).notes)
    BY <1>1, QuietSays
  <1>. QED BY <1>2, QuietNothing, QuietDefault, QuietMismatched DEF MatchedCell

LEMMA QuietMatchedRow ==
    ASSUME NEW v, NEW r, NEW record
    PROVE  Quiet(MatchedRow(v, r, record).notes)
  BY QuietMatched, QuietInserted, QuietTogether DEF MatchedRow

LEMMA QuietChecked ==
    ASSUME NEW v, NEW f, NEW r
    PROVE  Quiet(CheckedCell(v, f, r).notes)
  <1>1. \A kind \in {"formula_reject", "invalid_value", "validation_error"} :
            \A c : Quiet(Says(Note(kind, r, c, f.name)).notes)
    <2>1. {"formula_reject", "invalid_value", "validation_error"} \cap AccountKinds = {}
      BY DEF AccountKinds
    <2>. QED BY <2>1, QuietSays
  <1>2. Quiet(Displayed(v, f, r).notes)
    <2>1. "format" \notin AccountKinds
      BY DEF AccountKinds
    <2>. QED BY <2>1, QuietNothing, QuietNote DEF Displayed
  <1> DEFINE parsed == Parse(Read(v, f, r), f)
             told == IF parsed.value \in Formulas \/ Acceptable(parsed.value, f) THEN {}
                     ELSE {Says(Note("validation_error", r, v.columns[f.name], f.name))}
  <1>3. Quiet(Together({Displayed(v, f, r)} \cup told).notes)
    BY <1>1, <1>2, QuietTogether
  <1>. QED BY <1>1, <1>3, QuietNothing DEF CheckedCell

LEMMA QuietValidation ==
    ASSUME NEW v
    PROVE  Quiet(ValidateRows(v).notes)
  <1>1. \A r : Quiet(Finding(CrossNotes(v, r), {}).notes)
    BY DEF Quiet, Finding, CrossNotes, Note, AccountKinds
  <1>2. \A f : Quiet(Finding(NotUnique(v, f), {}).notes)
    BY DEF Quiet, Finding, NotUnique, Note, AccountKinds
  <1> DEFINE cells == (UNION {{CheckedCell(v, f, r) : f \in CheckedFields(v, r)} : r \in ValidatedRows(v)})
             cross == {Finding(CrossNotes(v, r), {}) : r \in ValidatedRows(v)}
             once  == {Finding(NotUnique(v, f), {}) : f \in {g \in Fields(v.rule) : HasColumn(v, g)}}
  <1>3. \A x \in cells \cup cross \cup once : Quiet(x.notes)
    BY <1>1, <1>2, QuietChecked
  <1>4. ValidateRows(v) = Together(cells \cup cross \cup once)
    BY DEF ValidateRows
  <1> HIDE DEF cells, cross, once
  <1>. QED BY <1>3, <1>4, QuietTogether

Statuses == {"duplicate", "extra", "ambiguous", "matched"}

LEMMA HeaderStatus ==
    ASSUME NEW rule, NEW headers, NEW c \in DOMAIN MapHeaders(rule, headers)
    PROVE  MapHeaders(rule, headers)[c].status \in Statuses
  <1> DEFINE alone == [d \in DOMAIN headers |-> MapHeader(d, rule, headers)]
             twice(d) == \E e \in DOMAIN headers \ {d} :
                             alone[d].status = "matched" /\ alone[e].status = "matched"
                             /\ alone[d].field = alone[e].field
  <1>1. MapHeaders(rule, headers)
            = [d \in DOMAIN headers |-> IF twice(d) THEN [alone[d] EXCEPT !.status = "duplicate"] ELSE alone[d]]
    BY DEF MapHeaders
  <1>2. c \in DOMAIN headers
    BY <1>1
  <1>3. \E status \in Statuses : \E field, match : MapHeader(c, rule, headers) = Mapping(status, field, match)
    BY Zenon DEF MapHeader, Statuses
  <1>4. PICK status \in Statuses : \E field, match : MapHeader(c, rule, headers) = Mapping(status, field, match)
    BY <1>3
  <1>5. PICK field, match : alone[c] = Mapping(status, field, match)
    BY <1>2, <1>4
  <1>6. alone[c].status \in Statuses /\ [alone[c] EXCEPT !.status = "duplicate"].status = "duplicate"
    BY <1>5 DEF Mapping
  <1> HIDE DEF alone, twice
  <1>. QED BY <1>1, <1>2, <1>6 DEF Statuses

\* A scope whose headers are each mapped in one of the four ways.
Mapped(v) == \A c \in DOMAIN v.mapping : v.mapping[c].status \in Statuses

LEMMA QuietHeaders ==
    ASSUME NEW v, Mapped(v)
    PROVE  Quiet(HeaderNotes(v))
  <1>1. ({"missing_header", "renamed", "header_order"} \cup Statuses) \cap AccountKinds = {}
    BY DEF Statuses, AccountKinds
  <1>. QED BY <1>1 DEF HeaderNotes, Quiet, Note, Mapped

MissingOf(v, std, mode) == {Note("missing_record", i, 0, None) : i \in Missing(v, std, mode)}
ExtraOf(v, std, mode)   == {Note("extra_record", r, 0, None) : r \in Extra(v, std, mode)}

LEMMA NotesOfMissing ==
    ASSUME NEW v, NEW std, NEW mode, NEW n, n.kind \in AccountKinds
    PROVE  n \in MissingRecords(v, std, mode).notes <=> n \in MissingOf(v, std, mode)
  <1> DEFINE row(i) == AppendRow(v, std, mode.polars, Missing(v, std, mode))[i]
  <1>1. MissingRecords(v, std, mode).notes
            = UNION {x.notes : x \in {MissingRecord(v, std, i, row(i)) : i \in Missing(v, std, mode)}}
    BY DEF MissingRecords, Together, Finding
  <1>2. \A i : MissingRecord(v, std, i, row(i)).notes = MissingNotes(v, std[i], i, row(i))
    BY DEF MissingRecord, Finding
  <1> HIDE DEF row
  <1>3. n \in MissingRecords(v, std, mode).notes
            <=> \E i \in Missing(v, std, mode) : n \in MissingNotes(v, std[i], i, row(i))
    BY <1>1, <1>2
  <1>4. \A i : n \in MissingNotes(v, std[i], i, row(i)) <=> n = Note("missing_record", i, 0, None)
    <2>1. "write_unsafe" \notin AccountKinds /\ "append_formula" \notin AccountKinds
      BY DEF AccountKinds
    <2>. QED BY <2>1 DEF MissingNotes, Note
  <1>. QED BY <1>3, <1>4 DEF MissingOf

LEMMA NotesOfExtra ==
    ASSUME NEW v, NEW r, NEW n, n.kind \in AccountKinds
    PROVE  n \in ExtraRow(v, r).notes <=> n = Note("extra_record", r, 0, None)
  <1> DEFINE cells == {ExtraCell(v, f, r) : f \in {g \in Fields(v.rule) : HasColumn(v, g)}}
             said  == Says(Note("extra_record", r, 0, None))
  <1>1. \A f : Quiet(ExtraCell(v, f, r).notes)
    BY QuietNothing, QuietDefault DEF ExtraCell
  <1>2. ExtraRow(v, r).notes = UNION {x.notes : x \in {said} \cup cells}
    BY DEF ExtraRow, Together, Finding
  <1>3. said.notes = {Note("extra_record", r, 0, None)}
    BY DEF Says, Finding
  <1>4. \A x \in cells : n \notin x.notes
    BY <1>1 DEF Quiet
  <1> HIDE DEF cells, said
  <1>. QED BY <1>2, <1>3, <1>4

\* What the comparison says in the words that are counted.
LEMMA NotesAccounted ==
    ASSUME NEW v, NEW std, NEW mode, Mapped(v), ComparesRecords(v), NEW n, n.kind \in AccountKinds
    PROVE  n \in Compare(v, std, mode).notes
               <=> n \in KeyNotes(v) \cup MissingOf(v, std, mode) \cup ExtraOf(v, std, mode)
  <1> DEFINE record  == RecordFinding(v, std, mode)
             extra   == {ExtraRow(v, r) : r \in Extra(v, std, mode)}
             matched == {MatchedRow(v, p[1], std[p[2]]) : p \in Matched(v, std, mode)}
             fixed   == {Finding(KeyNotes(v), {}), ValidateRows(v), MissingRecords(v, std, mode)}
             header  == Finding(HeaderNotes(v), HeaderRepairs(v))
  <1>1. Compare(v, std, mode).notes = UNION {x.notes : x \in {header} \cup {record}}
    BY DEF Compare, Together, Finding
  <1>2. record.notes = UNION {x.notes : x \in fixed \cup extra \cup matched}
    BY DEF RecordFinding, Together, Finding
  <1>3. n \notin header.notes
    BY QuietHeaders DEF Quiet, Finding
  <1>4. \A x \in matched : n \notin x.notes
    BY QuietMatchedRow DEF Quiet
  <1>5. (\E x \in extra : n \in x.notes) <=> n \in ExtraOf(v, std, mode)
    BY NotesOfExtra DEF ExtraOf
  <1>6. (\E x \in fixed : n \in x.notes) <=> n \in KeyNotes(v) \cup MissingOf(v, std, mode)
    <2>1. n \notin ValidateRows(v).notes
      BY QuietValidation DEF Quiet
    <2>2. Finding(KeyNotes(v), {}).notes = KeyNotes(v)
      BY DEF Finding
    <2>. QED BY <2>1, <2>2, NotesOfMissing
  <1> HIDE DEF record, extra, matched, fixed, header
  <1>7. n \in Compare(v, std, mode).notes <=> n \in record.notes
    BY <1>1, <1>3
  <1>8. n \in record.notes <=> \/ \E x \in fixed : n \in x.notes
                               \/ \E x \in extra : n \in x.notes
                               \/ \E x \in matched : n \in x.notes
    BY <1>2
  <1>. QED BY <1>4, <1>5, <1>6, <1>7, <1>8

-----------------------------------------------------------------------------
(* One row, one answer.                                                     *)

RowKinds == {"formula", "empty", "duplicate_key", "extra_record"}
Noted(notes, r) == {n.kind : n \in {m \in notes : m.row = r /\ m.kind \in RowKinds}}

LEMMA NoteFields ==
    \A kind, row, column, field :
        Note(kind, row, column, field).kind = kind /\ Note(kind, row, column, field).row = row
  BY DEF Note

LEMMA NotesAt ==
    ASSUME NEW kind, NEW rows, NEW r
    PROVE  (\E n \in {Note(kind, q, 0, None) : q \in rows} : n.row = r) <=> r \in rows
  <1> DEFINE notes == {Note(kind, q, 0, None) : q \in rows}
  <1>1. ASSUME NEW n \in notes, n.row = r PROVE r \in rows
    <2>1. PICK q \in rows : n = Note(kind, q, 0, None)
      OBVIOUS
    <2>2. n.row = q
      BY <2>1, NoteFields
    <2>. QED BY <1>1, <2>2
  <1>2. ASSUME r \in rows PROVE \E n \in notes : n.row = r
    <2>1. Note(kind, r, 0, None) \in notes
      BY <1>2
    <2>2. Note(kind, r, 0, None).row = r
      BY NoteFields
    <2> HIDE DEF notes
    <2>. QED BY <2>1, <2>2
  <1>. QED BY <1>1, <1>2

LEMMA ClassOfRow ==
    ASSUME NEW v, NEW r, v.rule.emptyKey \in {"report_invalid", "skip_row", "use_row_number"}
    PROVE  RowClass(v, r) \in {"keyed", "formula", "skipped", "empty"}
  BY DEF RowClass

\* Which notes a row has, by what it is.
LEMMA RowNoted ==
    ASSUME NEW v, NEW std, NEW mode, Mapped(v), ComparesRecords(v), AllowedKey(v.rule),
           v.rule.emptyKey \in {"report_invalid", "skip_row", "use_row_number"},
           NEW r \in DataRows(v)
    PROVE  LET noted == Noted(Compare(v, std, mode).notes, r)
           IN  /\ noted \subseteq RowKinds
               /\ "formula" \in noted       <=> RowClass(v, r) = "formula"
               /\ "empty" \in noted         <=> RowClass(v, r) = "empty"
               /\ "duplicate_key" \in noted <=> r \in DuplicateRows(v)
               /\ "extra_record" \in noted  <=> r \in Extra(v, std, mode)
  <1> DEFINE notes == Compare(v, std, mode).notes
             empties  == {Note("empty", q, v.columns[f], f) :
                             q \in {p \in DataRows(v) : RowClass(v, p) = "empty"}, f \in v.rule.key}
             formulas == (UNION {{Note("formula", q, v.columns[f], f) : f \in {g \in v.rule.key : Get(v.record[q], g) \in Formulas}} :
                             q \in {p \in DataRows(v) : RowClass(v, p) = "formula"}})
             doubles  == {Note("duplicate_key", q, 0, None) : q \in DuplicateRows(v)}
  <1>1. KeyNotes(v) = empties \cup formulas \cup doubles
    BY DEF KeyNotes
  <1>2. RowKinds \subseteq AccountKinds
    BY DEF RowKinds, AccountKinds
  <1>3. \A kind \in RowKinds : kind \in Noted(notes, r) <=>
            \E n \in notes : n.kind = kind /\ n.row = r
    BY DEF Noted
  <1>4. \A n : n.kind \in RowKinds =>
            (n \in notes <=> n \in KeyNotes(v) \cup MissingOf(v, std, mode) \cup ExtraOf(v, std, mode))
    BY <1>2, NotesAccounted
  <1>5. \A n : n.kind \in RowKinds => n \notin MissingOf(v, std, mode)
    BY DEF RowKinds, MissingOf, Note
  <1>6. /\ \A n \in empties : n.kind = "empty"
        /\ \A n \in formulas : n.kind = "formula"
        /\ \A n \in doubles : n.kind = "duplicate_key"
        /\ \A n \in ExtraOf(v, std, mode) : n.kind = "extra_record"
    BY DEF Note, ExtraOf
  <1>7. (\E n \in empties : n.row = r) <=> RowClass(v, r) = "empty"
    <2>1. ASSUME RowClass(v, r) = "empty" PROVE \E n \in empties : n.row = r
      <3>1. v.rule.key # {}
        BY <2>1 DEF RowClass, HasKey
      <3>2. PICK f : f \in v.rule.key
        BY <3>1
      <3>3. Note("empty", r, v.columns[f], f) \in empties
        BY <2>1, <3>2
      <3>4. Note("empty", r, v.columns[f], f).row = r
        BY NoteFields
      <3> HIDE DEF empties
      <3>. QED BY <3>3, <3>4
    <2>. QED BY <2>1, NoteFields
  <1>8. (\E n \in formulas : n.row = r) <=> RowClass(v, r) = "formula"
    <2>1. ASSUME RowClass(v, r) = "formula" PROVE \E n \in formulas : n.row = r
      <3>1. PICK f \in v.rule.key : Get(v.record[r], f) \in Formulas
        BY <2>1 DEF RowClass
      <3>2. Note("formula", r, v.columns[f], f) \in formulas
        BY <2>1, <3>1
      <3>4. Note("formula", r, v.columns[f], f).row = r
        BY NoteFields
      <3> HIDE DEF formulas
      <3>. QED BY <3>2, <3>4
    <2>. QED BY <2>1, NoteFields
  <1>9. (\E n \in doubles : n.row = r) <=> r \in DuplicateRows(v)
    BY NotesAt
  <1>10. (\E n \in ExtraOf(v, std, mode) : n.row = r) <=> r \in Extra(v, std, mode)
    BY NotesAt DEF ExtraOf
  <1> HIDE DEF notes, empties, formulas, doubles
  <1>11. \A n : n.kind \in RowKinds =>
            (n \in notes <=> \/ n \in empties \/ n \in formulas \/ n \in doubles
                             \/ n \in ExtraOf(v, std, mode))
    BY <1>1, <1>4, <1>5
  <1>12. /\ "formula" \in RowKinds /\ "empty" \in RowKinds
         /\ "duplicate_key" \in RowKinds /\ "extra_record" \in RowKinds
    BY DEF RowKinds
  <1>13. "formula" \in Noted(notes, r) <=> RowClass(v, r) = "formula"
    BY <1>3, <1>6, <1>8, <1>11, <1>12
  <1>14. "empty" \in Noted(notes, r) <=> RowClass(v, r) = "empty"
    BY <1>3, <1>6, <1>7, <1>11, <1>12
  <1>15. "duplicate_key" \in Noted(notes, r) <=> r \in DuplicateRows(v)
    BY <1>3, <1>6, <1>9, <1>11, <1>12
  <1>16. "extra_record" \in Noted(notes, r) <=> r \in Extra(v, std, mode)
    BY <1>3, <1>6, <1>10, <1>11, <1>12
  <1>17. Noted(notes, r) \subseteq RowKinds
    BY DEF Noted
  <1>. QED BY <1>13, <1>14, <1>15, <1>16, <1>17 DEF notes

\* The records a row is compared with, and the rows a record is.
RecordsOf(pairs, r) == {p[2] : p \in {q \in pairs : q[1] = r}}
RowsOf(pairs, i)    == {p[1] : p \in {q \in pairs : q[2] = i}}

LEMMA RecordsCounted ==
    ASSUME NEW v, NEW std, Valid(v, std), NEW mode, NEW r
    PROVE  LET records == RecordsOf(Joined(v, std, mode), r)
           IN  /\ r \in ExcelRecords(v) \ Extra(v, std, mode) => \E i : records = {i}
               /\ r \notin ExcelRecords(v) \ Extra(v, std, mode) => records = {}
  <1> DEFINE joined == Joined(v, std, mode)
  <1>1. Extra(v, std, mode) = ExcelRecords(v) \ {p[1] : p \in joined}
    BY DEF Extra
  <1>2. \A p \in joined : p[1] \in ExcelRecords(v)
    BY JoinedIsSame
  <1>3. ASSUME NEW p \in joined, NEW q \in joined, p[1] = q[1] PROVE p[2] = q[2]
    BY <1>3, JoinedIsSame, OneRecordOfRow
  <1> HIDE DEF joined
  <1>4. ASSUME r \in ExcelRecords(v) \ Extra(v, std, mode) PROVE \E i : RecordsOf(joined, r) = {i}
    <2>1. PICK p \in joined : p[1] = r
      BY <1>1, <1>4
    <2>2. RecordsOf(joined, r) = {p[2]}
      BY <2>1, <1>3 DEF RecordsOf
    <2>. QED BY <2>2
  <1>5. ASSUME r \notin ExcelRecords(v) \ Extra(v, std, mode) PROVE RecordsOf(joined, r) = {}
    BY <1>1, <1>2, <1>5 DEF RecordsOf
  <1>. QED BY <1>4, <1>5 DEF joined

LEMMA RowsCounted ==
    ASSUME NEW v, NEW std, Valid(v, std), NEW mode, NEW i \in KeyedRecords(v, std)
    PROVE  LET rows == RowsOf(Joined(v, std, mode), i)
           IN  /\ i \notin Missing(v, std, mode) => \E r : rows = {r}
               /\ i \in Missing(v, std, mode) => rows = {}
  <1> DEFINE joined == Joined(v, std, mode)
  <1>1. Missing(v, std, mode) = KeyedRecords(v, std) \ {p[2] : p \in joined}
    BY AllRecordsJoin DEF Missing, Valid
  <1>2. ASSUME NEW p \in joined, NEW q \in joined, p[2] = q[2] PROVE p[1] = q[1]
    <2>1. /\ p[1] \in ExcelRecords(v) /\ SameKey(ExcelKey(v, p[1]), StandardKey(v.rule, std, p[2]))
          /\ q[1] \in ExcelRecords(v) /\ SameKey(ExcelKey(v, q[1]), StandardKey(v.rule, std, p[2]))
      BY <1>2, JoinedIsSame
    <2>. QED BY <2>1, OneRowOfRecord
  <1> HIDE DEF joined
  <1>3. ASSUME i \notin Missing(v, std, mode) PROVE \E r : RowsOf(joined, i) = {r}
    <2>1. PICK p \in joined : p[2] = i
      BY <1>1, <1>3
    <2>2. RowsOf(joined, i) = {p[1]}
      BY <2>1, <1>2 DEF RowsOf
    <2>. QED BY <2>2
  <1>4. ASSUME i \in Missing(v, std, mode) PROVE RowsOf(joined, i) = {}
    BY <1>1, <1>4 DEF RowsOf
  <1>. QED BY <1>3, <1>4 DEF joined

LEMMA OneOf ==
    ASSUME NEW S, NEW x, x \in S, S \subseteq {x}
    PROVE  Cardinality(S) = 1
  <1>1. S = {x}
    OBVIOUS
  <1>. QED BY <1>1, FS_Singleton

LEMMA NoneOf == Cardinality({}) = 0
  BY FS_EmptySet

\* A sound scope: its headers are mapped and its rule has keys that a published rule may have.
Sound(v) ==
    /\ Mapped(v) /\ AllowedKey(v.rule)
    /\ v.rule.emptyKey \in {"report_invalid", "skip_row", "use_row_number"}

LEMMA RowAccounted ==
    ASSUME NEW v, Sound(v), NEW std, Valid(v, std), NEW mode, ComparesRecords(v), NEW r \in DataRows(v)
    PROVE  LET noted   == Noted(Compare(v, std, mode).notes, r)
               records == RecordsOf(Joined(v, std, mode), r)
           IN  Cardinality(noted) + Cardinality(records)
                   = IF v.rule.emptyKey = "skip_row" /\ ~HasKey(v.rule, v.record[r]) /\ noted = {}
                     THEN 0 ELSE 1
  <1> DEFINE noted   == Noted(Compare(v, std, mode).notes, r)
             records == RecordsOf(Joined(v, std, mode), r)
             passed  == v.rule.emptyKey = "skip_row" /\ ~HasKey(v.rule, v.record[r])
  <1>1. /\ noted \subseteq {"formula", "empty", "duplicate_key", "extra_record"}
        /\ "formula" \in noted       <=> RowClass(v, r) = "formula"
        /\ "empty" \in noted         <=> RowClass(v, r) = "empty"
        /\ "duplicate_key" \in noted <=> r \in DuplicateRows(v)
        /\ "extra_record" \in noted  <=> r \in Extra(v, std, mode)
    BY RowNoted DEF Sound, RowKinds
  <1>2. /\ r \in ExcelRecords(v) \ Extra(v, std, mode) => \E i : records = {i}
        /\ r \notin ExcelRecords(v) \ Extra(v, std, mode) => records = {}
    BY RecordsCounted
  <1>3. RowClass(v, r) \in {"keyed", "formula", "skipped", "empty"}
    BY ClassOfRow DEF Sound
  <1>4. /\ r \in DuplicateRows(v) => RowClass(v, r) = "keyed"
        /\ r \in ExcelRecords(v) <=> RowClass(v, r) = "keyed" /\ r \notin DuplicateRows(v)
        /\ r \in Extra(v, std, mode) => r \in ExcelRecords(v)
    BY DEF DuplicateRows, KeyedRows, ExcelRecords, Extra
  <1>5. /\ RowClass(v, r) = "keyed" => ~passed
        /\ RowClass(v, r) = "skipped" => passed
    <2>1. v.rule.keyMode = "row_number" => HasKey(v.rule, v.record[r])
      BY DEF Sound, AllowedKey, HasKey
    <2>. QED BY <2>1 DEF Sound, RowClass
  <1> HIDE DEF noted, records, passed
  <1>6. CASE noted # {}
    <2>1. PICK x : x \in noted
      BY <1>6
    <2>2. noted \subseteq {x}
      BY <2>1, <1>1, <1>4
    <2>3. records = {}
      BY <2>1, <1>1, <1>2, <1>4
    <2>4. Cardinality(noted) = 1 /\ Cardinality(records) = 0
      BY <2>1, <2>2, <2>3, OneOf, NoneOf
    <2>. QED BY <1>6, <2>4 DEF noted, records
  <1>7. CASE noted = {} /\ RowClass(v, r) = "keyed"
    <2>1. \E i : records = {i}
      BY <1>7, <1>1, <1>2, <1>4
    <2>2. Cardinality(noted) = 0 /\ Cardinality(records) = 1
      BY <1>7, <2>1, OneOf, NoneOf
    <2>. QED BY <2>2, <1>5, <1>7 DEF noted, records, passed
  <1>8. CASE noted = {} /\ RowClass(v, r) = "skipped"
    <2>1. records = {}
      BY <1>8, <1>2, <1>4
    <2>2. Cardinality(noted) = 0 /\ Cardinality(records) = 0
      BY <1>8, <2>1, NoneOf
    <2>. QED BY <2>2, <1>5, <1>8 DEF noted, records, passed
  <1>. QED BY <1>1, <1>3, <1>6, <1>7, <1>8

LEMMA RecordAccounted ==
    ASSUME NEW v, Sound(v), NEW std, Valid(v, std), NEW mode, ComparesRecords(v),
           NEW i \in KeyedRecords(v, std)
    PROVE  Cardinality(RowsOf(Joined(v, std, mode), i))
               + Cardinality({n \in Compare(v, std, mode).notes : n.kind = "missing_record" /\ n.row = i}) = 1
  <1> DEFINE rows  == RowsOf(Joined(v, std, mode), i)
             notes == {n \in Compare(v, std, mode).notes : n.kind = "missing_record" /\ n.row = i}
  <1>1. /\ i \notin Missing(v, std, mode) => \E r : rows = {r}
        /\ i \in Missing(v, std, mode) => rows = {}
    BY RowsCounted
  <1>2. \A n : n.kind = "missing_record" =>
            (n \in Compare(v, std, mode).notes <=> n \in MissingOf(v, std, mode))
    <2>1. \A n : n.kind = "missing_record" => n \notin KeyNotes(v) /\ n \notin ExtraOf(v, std, mode)
      BY DEF KeyNotes, ExtraOf, Note
    <2>. QED BY <2>1, NotesAccounted DEF Sound, AccountKinds
  <1>3. \A n : n \in notes <=> n \in MissingOf(v, std, mode) /\ n.row = i
    BY <1>2 DEF MissingOf, Note
  <1>4. \A n \in MissingOf(v, std, mode) : n.row = i => n = Note("missing_record", i, 0, None)
    BY DEF MissingOf, Note
  <1>5. Note("missing_record", i, 0, None) \in MissingOf(v, std, mode) <=> i \in Missing(v, std, mode)
    BY DEF MissingOf, Note
  <1>6. Note("missing_record", i, 0, None).row = i
    BY NoteFields
  <1> HIDE DEF rows, notes
  <1>7. /\ i \in Missing(v, std, mode) =>
              Note("missing_record", i, 0, None) \in notes /\ notes \subseteq {Note("missing_record", i, 0, None)}
        /\ i \notin Missing(v, std, mode) => notes = {}
    BY <1>3, <1>4, <1>5, <1>6
  <1>8. CASE i \in Missing(v, std, mode)
    <2>1. Cardinality(notes) = 1 /\ Cardinality(rows) = 0
      BY <1>1, <1>7, <1>8, OneOf, NoneOf
    <2>. QED BY <2>1 DEF rows, notes
  <1>9. CASE i \notin Missing(v, std, mode)
    <2>1. Cardinality(notes) = 0 /\ Cardinality(rows) = 1
      BY <1>1, <1>7, <1>9, OneOf, NoneOf
    <2>. QED BY <2>1 DEF rows, notes
  <1>. QED BY <1>8, <1>9

-----------------------------------------------------------------------------
(* The stores and joins agree where a key has one spelling.                 *)

\* The pairs of a row and a record of one key.
Pairs(v, std) ==
    {p \in ExcelRecords(v) \X KeyedRecords(v, std) :
        SameKey(ExcelKey(v, p[1]), StandardKey(v.rule, std, p[2]))}

LEMMA JoinedIsPairs ==
    ASSUME NEW v, NEW std, Valid(v, std), OneSpelling(v, std), NEW mode
    PROVE  Joined(v, std, mode) = Pairs(v, std)
  <1>1. JoinKeys(v, std, mode) = KeyedRecords(v, std)
    BY AllRecordsJoin DEF Valid
  <1>2. StandardRecords(v, std, FALSE) = KeyedRecords(v, std)
    BY NoRecordDropped DEF Valid
  <1>3. ASSUME NEW r \in ExcelRecords(v), NEW i \in KeyedRecords(v, std)
        PROVE  SameKey(ExcelKey(v, r), StandardKey(v.rule, std, i))
                   <=> StableKey(ExcelKey(v, r)) = StableKey(StandardKey(v.rule, std, i))
    <2>1. SameKey(ExcelKey(v, r), StandardKey(v.rule, std, i))
              => StableKey(ExcelKey(v, r)) = StableKey(StandardKey(v.rule, std, i))
      BY <1>2, <1>3 DEF OneSpelling
    <2>2. StableKey(ExcelKey(v, r)) = StableKey(StandardKey(v.rule, std, i))
              => SameKey(ExcelKey(v, r), StandardKey(v.rule, std, i))
      BY StableIsSame, ExcelKeyIsKey, StandardKeyIsKey
    <2>. QED BY <2>1, <2>2
  <1>4. ASSUME NEW p \in ExcelRecords(v) \X KeyedRecords(v, std)
        PROVE  JoinEqual(ExcelKey(v, p[1]), StandardKey(v.rule, std, p[2]), mode)
                   <=> SameKey(ExcelKey(v, p[1]), StandardKey(v.rule, std, p[2]))
    <2>1. p[1] \in ExcelRecords(v) /\ p[2] \in KeyedRecords(v, std)
      OBVIOUS
    <2>. QED BY <2>1, <1>3 DEF JoinEqual
  <1>. QED BY <1>1, <1>4 DEF Joined, Pairs

LEMMA NoKeyLost ==
    ASSUME NEW v, NEW std, Valid(v, std), OneSpelling(v, std), NEW mode
    PROVE  ~KeyLost(v, std, mode)
  <1> SUFFICES ASSUME NEW p \in Joined(v, std, mode)
               PROVE  p[2] \in Lookup(v, std, mode, p[1], p[2])
    BY DEF KeyLost
  <1>1. /\ p[1] \in ExcelRecords(v) /\ p[2] \in KeyedRecords(v, std)
        /\ SameKey(ExcelKey(v, p[1]), StandardKey(v.rule, std, p[2]))
    BY JoinedIsSame
  <1>2. StandardRecords(v, std, FALSE) = KeyedRecords(v, std)
        /\ StandardRecords(v, std, TRUE) = KeyedRecords(v, std)
    BY NoRecordDropped DEF Valid
  <1>3. StableKey(ExcelKey(v, p[1])) = StableKey(StandardKey(v.rule, std, p[2]))
    BY <1>1, <1>2 DEF OneSpelling
  <1>. QED BY <1>1, <1>2, <1>3 DEF Lookup

LEMMA ModesClassify ==
    ASSUME NEW v, NEW std, Valid(v, std), OneSpelling(v, std), NEW mode, NEW other
    PROVE  /\ Matched(v, std, mode) = Matched(v, std, other)
           /\ Extra(v, std, mode) = Extra(v, std, other)
           /\ Missing(v, std, mode) = Missing(v, std, other)
  <1>1. Joined(v, std, mode) = Joined(v, std, other)
    BY JoinedIsPairs
  <1>2. Matched(v, std, mode) = Matched(v, std, other)
    BY <1>1, NoKeyLost, MatchedIsJoined
  <1>3. Extra(v, std, mode) = Extra(v, std, other)
    BY <1>1 DEF Extra
  <1>4. Missing(v, std, mode) = Missing(v, std, other)
    BY <1>1, AllRecordsJoin DEF Missing, Valid
  <1>. QED BY <1>2, <1>3, <1>4

\* Where a missing record is appended tells in little.
LEMMA RowTellsLittle ==
    ASSUME NEW v, NEW std, NEW i, NEW row, NEW other
    PROVE  FoundAlike(v, MissingRecord(v, std, i, row), MissingRecord(v, std, i, other))
  <1> DEFINE x == MissingRecord(v, std, i, row)
             y == MissingRecord(v, std, i, other)
             values == WriteRecord(v, std[i])
             added(r) == IF Appendable(v, std, i, r) THEN {AppendRecord(r, values)} ELSE {}
  <1>1. /\ x.notes = MissingNotes(v, std[i], i, row) /\ x.repairs = added(row)
        /\ y.notes = MissingNotes(v, std[i], i, other) /\ y.repairs = added(other)
    BY DEF MissingRecord, Finding
  <1>2. {n \in x.notes : n.kind # "append_formula"} = {n \in y.notes : n.kind # "append_formula"}
    <2>1. \A r, n : n.kind # "append_formula" =>
              (n \in MissingNotes(v, std[i], i, r)
                   <=> n \in {Note("missing_record", i, 0, None)}
                           \cup {Note("write_unsafe", i, 0, f.name) : f \in {g \in UnsafeWrites(v, std[i]) : v.rule.append}})
      BY DEF MissingNotes, Note
    <2> HIDE DEF x, y
    <2>. QED BY <1>1, <2>1
  <1>3. \A r : \A o \in added(r) : o.type = "append_record" /\ o.values = values
    BY DEF AppendRecord
  <1>4. \A r : Appends(added(r)) = added(r)
    BY <1>3 DEF Appends
  <1>5. ASSUME ~RowsMatter(v)
        PROVE  /\ x.notes = y.notes
               /\ Appendable(v, std, i, row) <=> Appendable(v, std, i, other)
    <2>1. v.rule.keyMode # "row_number" /\ \A f \in Fields(v.rule) : ~f.template
      BY <1>5 DEF RowsMatter
    <2>2. UnsafeFormulas(v, std[i], row) = UnsafeFormulas(v, std[i], other)
      BY <2>1 DEF UnsafeFormulas
    <2>3. MissingNotes(v, std[i], i, row) = MissingNotes(v, std[i], i, other)
      BY <2>2 DEF MissingNotes
    <2>4. Appendable(v, std, i, row) <=> Appendable(v, std, i, other)
      BY <2>1, <2>2 DEF Appendable
    <2> HIDE DEF x, y
    <2>. QED BY <1>1, <2>3, <2>4
  <1>6. \A r : {o.values : o \in added(r)} = IF Appendable(v, std, i, r) THEN {values} ELSE {}
    <2> SUFFICES ASSUME NEW r
                 PROVE  {o.values : o \in added(r)} = IF Appendable(v, std, i, r) THEN {values} ELSE {}
      OBVIOUS
    <2>1. CASE Appendable(v, std, i, r)
      <3> DEFINE o == AppendRecord(r, values)
      <3>1. added(r) = {o} /\ o.values = values
        BY <2>1 DEF AppendRecord
      <3> HIDE DEF o, values, added
      <3>. QED BY <2>1, <3>1
    <2>2. CASE ~Appendable(v, std, i, r)
      <3>1. added(r) = {}
        BY <2>2
      <3> HIDE DEF added
      <3>. QED BY <2>2, <3>1
    <2>. QED BY <2>1, <2>2
  <1>7. x.repairs \ Appends(x.repairs) = {} /\ y.repairs \ Appends(y.repairs) = {}
    <2> HIDE DEF x, y, added
    <2>. QED BY <1>1, <1>4
  <1>8. ~RowsMatter(v) => {o.values : o \in Appends(x.repairs)} = {o.values : o \in Appends(y.repairs)}
    <2> HIDE DEF x, y, added
    <2>. QED BY <1>1, <1>4, <1>5, <1>6
  <1> HIDE DEF x, y
  <1>9. FoundAlike(v, x, y)
    BY <1>2, <1>5, <1>7, <1>8 DEF FoundAlike
  <1>. QED BY <1>9 DEF x, y

\* A finding of findings, one for each member of I.
Gathers(x, I, F) == x = Together({F[i] : i \in I})

\* Findings that are alike one by one are alike together.
LEMMA AlikeTogether ==
    ASSUME NEW v, NEW I, NEW F, NEW G, \A i \in I : FoundAlike(v, F[i], G[i]),
           NEW x, Gathers(x, I, F), NEW y, Gathers(y, I, G)
    PROVE  FoundAlike(v, x, y)
  <1>1. /\ \A n : n \in x.notes <=> \E i \in I : n \in F[i].notes
        /\ \A o : o \in x.repairs <=> \E i \in I : o \in F[i].repairs
        /\ \A n : n \in y.notes <=> \E i \in I : n \in G[i].notes
        /\ \A o : o \in y.repairs <=> \E i \in I : o \in G[i].repairs
    BY DEF Gathers, Together, Finding
  <1>2. {n \in x.notes : n.kind # "append_formula"} = {n \in y.notes : n.kind # "append_formula"}
    <2>1. \A i \in I : \A n : n.kind # "append_formula" => (n \in F[i].notes <=> n \in G[i].notes)
      BY DEF FoundAlike
    <2>. QED BY <1>1, <2>1
  <1>3. x.repairs \ Appends(x.repairs) = y.repairs \ Appends(y.repairs)
    <2>1. \A i \in I : \A o : o.type # "append_record" => (o \in F[i].repairs <=> o \in G[i].repairs)
      BY DEF FoundAlike, Appends
    <2>. QED BY <1>1, <2>1 DEF Appends
  <1>4. ASSUME ~RowsMatter(v) PROVE x.notes = y.notes
    <2>1. \A i \in I : F[i].notes = G[i].notes
      BY <1>4 DEF FoundAlike
    <2>2. x.notes = UNION {F[i].notes : i \in I} /\ y.notes = UNION {G[i].notes : i \in I}
      BY DEF Gathers, Together, Finding
    <2>. QED BY <2>1, <2>2
  <1>5. ASSUME ~RowsMatter(v)
        PROVE  {o.values : o \in Appends(x.repairs)} = {o.values : o \in Appends(y.repairs)}
    <2>1. \A i \in I : \A w : (\E o \in Appends(F[i].repairs) : o.values = w)
                              <=> (\E o \in Appends(G[i].repairs) : o.values = w)
      <3>1. \A i \in I : {o.values : o \in Appends(F[i].repairs)} = {o.values : o \in Appends(G[i].repairs)}
        BY <1>5 DEF FoundAlike
      <3>. QED BY <3>1
    <2>2. \A w : (\E o \in Appends(x.repairs) : o.values = w)
                   <=> (\E i \in I : \E o \in Appends(F[i].repairs) : o.values = w)
      BY <1>1 DEF Appends
    <2>3. \A w : (\E o \in Appends(y.repairs) : o.values = w)
                   <=> (\E i \in I : \E o \in Appends(G[i].repairs) : o.values = w)
      BY <1>1 DEF Appends
    <2>4. \A w : (\E o \in Appends(x.repairs) : o.values = w) <=> (\E o \in Appends(y.repairs) : o.values = w)
      <3> SUFFICES ASSUME NEW w
                   PROVE  (\E o \in Appends(x.repairs) : o.values = w)
                              <=> (\E o \in Appends(y.repairs) : o.values = w)
        OBVIOUS
      <3> DEFINE S == {i \in I : \E o \in Appends(F[i].repairs) : o.values = w}
                 T == {i \in I : \E o \in Appends(G[i].repairs) : o.values = w}
      <3>1. S = T
        BY <2>1
      <3>2. (\E o \in Appends(x.repairs) : o.values = w) <=> S # {}
        BY <2>2
      <3>3. (\E o \in Appends(y.repairs) : o.values = w) <=> T # {}
        BY <2>3
      <3> HIDE DEF S, T
      <3>. QED BY <3>1, <3>2, <3>3
    <2>. QED BY <2>4
  <1>. QED BY <1>2, <1>3, <1>4, <1>5 DEF FoundAlike

\* What is found beside the missing records, for given pairs and rows without a partner.
Others(v, std, matched, extra) ==
    {Finding(KeyNotes(v), {}), ValidateRows(v)} \cup {ExtraRow(v, r) : r \in extra}
        \cup {MatchedRow(v, p[1], std[p[2]]) : p \in matched}

\* The finding of a worksheet, its missing records apart.
LEMMA FindingInParts ==
    ASSUME NEW v, NEW std, NEW mode, ComparesRecords(v)
    PROVE  LET header == Finding(HeaderNotes(v), HeaderRepairs(v))
               others == Others(v, std, Matched(v, std, mode), Extra(v, std, mode))
               missing == MissingRecords(v, std, mode)
           IN  /\ Compare(v, std, mode).notes = (UNION {x.notes : x \in {header} \cup others}) \cup missing.notes
               /\ Compare(v, std, mode).repairs = (UNION {x.repairs : x \in {header} \cup others}) \cup missing.repairs
  <1> DEFINE header == Finding(HeaderNotes(v), HeaderRepairs(v))
             others == Others(v, std, Matched(v, std, mode), Extra(v, std, mode))
             missing == MissingRecords(v, std, mode)
             record == RecordFinding(v, std, mode)
  <1>1. record = Together(others \cup {missing})
    <2>1. {Finding(KeyNotes(v), {}), ValidateRows(v), missing}
              \cup {ExtraRow(v, r) : r \in Extra(v, std, mode)}
              \cup {MatchedRow(v, p[1], std[p[2]]) : p \in Matched(v, std, mode)}
                = others \cup {missing}
      <3> HIDE DEF missing
      <3>. QED BY DEF Others
    <2>. QED BY <2>1 DEF RecordFinding
  <1> HIDE DEF header, others, missing
  <1>2. /\ record.notes = UNION {x.notes : x \in others \cup {missing}}
        /\ record.repairs = UNION {x.repairs : x \in others \cup {missing}}
    BY <1>1 DEF Together, Finding
  <1>3. /\ Compare(v, std, mode).notes = UNION {x.notes : x \in {header} \cup {record}}
        /\ Compare(v, std, mode).repairs = UNION {x.repairs : x \in {header} \cup {record}}
    BY DEF Compare, Together, Finding, header
  <1> HIDE DEF record
  <1>4. /\ Compare(v, std, mode).notes = (UNION {x.notes : x \in {header} \cup others}) \cup missing.notes
        /\ Compare(v, std, mode).repairs = (UNION {x.repairs : x \in {header} \cup others}) \cup missing.repairs
    BY <1>2, <1>3
  <1>. QED BY <1>4 DEF header, others, missing

\* The two joins find alike, whatever the order they take the missing records in.
LEMMA ModesAgree ==
    ASSUME NEW v, NEW std, Valid(v, std), OneSpelling(v, std), NEW mode, NEW other, ComparesRecords(v)
    PROVE  FoundAlike(v, Compare(v, std, other), Compare(v, std, mode))
  <1> DEFINE x == MissingRecords(v, std, other)
             y == MissingRecords(v, std, mode)
             missing == Missing(v, std, mode)
             f(i) == MissingRecord(v, std, i, AppendRow(v, std, other.polars, missing)[i])
             g(i) == MissingRecord(v, std, i, AppendRow(v, std, mode.polars, missing)[i])
             F == [i \in missing |-> f(i)]
             G == [i \in missing |-> g(i)]
  <1>1. Gathers(x, missing, F) /\ Gathers(y, missing, G)
    <2>1. x = Together({f(i) : i \in missing}) /\ y = Together({g(i) : i \in missing})
      BY ModesClassify DEF MissingRecords
    <2> HIDE DEF f, g, missing
    <2>2. {f(i) : i \in missing} = {F[i] : i \in missing} /\ {g(i) : i \in missing} = {G[i] : i \in missing}
      OBVIOUS
    <2>. QED BY <2>1, <2>2 DEF Gathers
  <1>2. \A i \in missing : FoundAlike(v, F[i], G[i])
    BY RowTellsLittle
  <1> HIDE DEF F, G, x, y, missing
  <1>4. FoundAlike(v, x, y)
    BY <1>1, <1>2, AlikeTogether
  <1> USE DEF x, y
  <1> DEFINE header == Finding(HeaderNotes(v), HeaderRepairs(v))
             rest == {header} \cup Others(v, std, Matched(v, std, mode), Extra(v, std, mode))
             notes == UNION {z.notes : z \in rest}
             repairs == UNION {z.repairs : z \in rest}
             c == Compare(v, std, other)
             d == Compare(v, std, mode)
  <1>5. c.notes = notes \cup x.notes /\ c.repairs = repairs \cup x.repairs
    BY ModesClassify, FindingInParts
  <1>6. d.notes = notes \cup y.notes /\ d.repairs = repairs \cup y.repairs
    BY FindingInParts
  <1> HIDE DEF x, y, notes, repairs, c, d
  <1>7. FoundAlike(v, c, d)
    <2>1. {n \in c.notes : n.kind # "append_formula"} = {n \in d.notes : n.kind # "append_formula"}
      BY <1>4, <1>5, <1>6 DEF FoundAlike
    <2>2. Appends(c.repairs) = Appends(repairs) \cup Appends(x.repairs)
          /\ Appends(d.repairs) = Appends(repairs) \cup Appends(y.repairs)
      BY <1>5, <1>6 DEF Appends
    <2>3. c.repairs \ Appends(c.repairs) = d.repairs \ Appends(d.repairs)
      <3>1. \A o : o.type # "append_record" => (o \in x.repairs <=> o \in y.repairs)
        BY <1>4 DEF FoundAlike, Appends
      <3>. QED BY <1>5, <1>6, <3>1 DEF Appends
    <2>4. ASSUME ~RowsMatter(v)
          PROVE  /\ c.notes = d.notes
                 /\ {o.values : o \in Appends(c.repairs)} = {o.values : o \in Appends(d.repairs)}
      <3>1. x.notes = y.notes
            /\ {o.values : o \in Appends(x.repairs)} = {o.values : o \in Appends(y.repairs)}
        BY <1>4, <2>4 DEF FoundAlike
      <3>2. \A S, T : {o.values : o \in S \cup T} = {o.values : o \in S} \cup {o.values : o \in T}
        OBVIOUS
      <3> DEFINE A == Appends(repairs)
                 X == Appends(x.repairs)
                 Y == Appends(y.repairs)
      <3>3. Appends(c.repairs) = A \cup X /\ Appends(d.repairs) = A \cup Y
        BY <2>2
      <3> HIDE DEF A, X, Y
      <3>4. {o.values : o \in A \cup X} = {o.values : o \in A} \cup {o.values : o \in X}
            /\ {o.values : o \in A \cup Y} = {o.values : o \in A} \cup {o.values : o \in Y}
        BY <3>2
      <3>5. {o.values : o \in X} = {o.values : o \in Y}
        BY <3>1 DEF X, Y
      <3>6. {o.values : o \in Appends(c.repairs)} = {o.values : o \in Appends(d.repairs)}
        BY <3>3, <3>4, <3>5
      <3>. QED BY <1>5, <1>6, <3>1, <3>6
    <2>. QED BY <2>1, <2>3, <2>4 DEF FoundAlike
  <1>. QED BY <1>7 DEF c, d

\* They find the same when they take the missing records in the same order.
LEMMA SameOrderSameFinding ==
    ASSUME NEW v, NEW std, Valid(v, std), OneSpelling(v, std), NEW mode, NEW other,
           \A i \in Missing(v, std, mode) : Place(v, std, other.polars, Missing(v, std, mode), i)
                                              = Place(v, std, mode.polars, Missing(v, std, mode), i)
    PROVE  Compare(v, std, other) = Compare(v, std, mode)
  <1> DEFINE missing == Missing(v, std, mode)
             p == other.polars
             q == mode.polars
  <1>1. \A row : TakesRows(v, std, p, missing, row) <=> TakesRows(v, std, q, missing, row)
    <2> HIDE DEF missing, p, q
    <2>1. \A i \in missing : Place(v, std, p, missing, i) = Place(v, std, q, missing, i)
      BY DEF missing, p, q
    <2>2. \A row : \A i \in missing : Appended(v, std, p, missing, row, i) = Appended(v, std, q, missing, row, i)
      BY <2>1 DEF Appended
    <2>. QED BY <2>2 DEF TakesRows
  <1>2. AppendRow(v, std, p, missing) = AppendRow(v, std, q, missing)
    <2> HIDE DEF missing, p, q
    <2>1. \A polars : AppendRow(v, std, polars, missing) = CHOOSE row : TakesRows(v, std, polars, missing, row)
      BY DEF AppendRow, TakesRows, Appended
    <2>2. (CHOOSE row : TakesRows(v, std, p, missing, row)) = (CHOOSE row : TakesRows(v, std, q, missing, row))
      BY <1>1
    <2>. QED BY <2>1, <2>2
  <1>3. MissingRecords(v, std, other) = MissingRecords(v, std, mode)
    BY <1>2, ModesClassify DEF MissingRecords
  <1>4. RecordFinding(v, std, other) = RecordFinding(v, std, mode)
    BY <1>3, ModesClassify DEF RecordFinding
  <1>. QED BY <1>4 DEF Compare

-----------------------------------------------------------------------------
(* The run.  A comparison reads a valid standard, and what is settled is    *)
(* what it found.                                                           *)

StandardInv ==
    /\ DOMAIN fetched \subseteq Int
    /\ stage = "fetch" \/ (stage = "inspect" /\ round = 1) =>
          fetched \in Seq(Range(case.source.records) \cup Range(case.source.later))
    /\ stage \in {"compare", "settle", "completed"} \/ round = 2 => KeysValid(case.rule, fetched)

FindingInv ==
    Settling => /\ ComparesRecords(Here) => ~KeyLost(Here, fetched, case.mode)
                /\ finding = Compare(Here, fetched, case.mode)

LEMMA HereIsSound == CaseInv => Sound(Here)
  <1> SUFFICES ASSUME CaseInv PROVE Sound(Here)
    OBVIOUS
  <1>1. /\ Here.rule = case.rule
        /\ \E headers : Here.mapping = MapHeaders(case.rule, headers)
    BY DEF Here, ScopeOf, Scope
  <1>2. Mapped(Here)
    BY <1>1, HeaderStatus DEF Mapped
  <1>3. case.rule.emptyKey \in {"report_invalid", "skip_row", "use_row_number"}
    BY CasesAssumption DEF CaseInv
  <1>. QED BY <1>1, <1>2, <1>3 DEF Sound, CaseInv, AllowedRule

LEMMA StandardStep == CaseInv /\ PagingInv /\ StandardInv /\ [Next]_vars => StandardInv'
  <1> SUFFICES ASSUME CaseInv, PagingInv, StandardInv, [Next]_vars PROVE StandardInv'
    OBVIOUS
  <1>1. CASE Inspect
    BY <1>1 DEF Inspect, source, StandardInv, PagingInv
  <1>2. CASE ServerChanges
    BY <1>2 DEF ServerChanges, StandardInv, PagingInv
  <1>3. CASE ReadPage
    <2> DEFINE R == Range(case.source.records) \cup Range(case.source.later)
               size == case.source.size
               answer == IF size = 0 THEN served ELSE PageOf(served, page, size)
    <2>0. /\ stage = "fetch" /\ fetched' = fetched \o answer /\ case' = case /\ round' = round
          /\ stage' \in {"fetch", "failed", "canonicalize"}
      BY <1>3 DEF ReadPage
    <2>1. served \in Seq(R)
      <3>1. /\ case.source.records \in Seq(Range(case.source.records))
            /\ case.source.later \in Seq(Range(case.source.later))
        BY CasesAssumption DEF CaseInv
      <3>2. case.source.records \in Seq(R) /\ case.source.later \in Seq(R)
        BY <3>1
      <3>. QED BY <3>2 DEF PagingInv
    <2>2. PageOf(served, page, size) \in Seq(R)
      <3>1. size \in Nat /\ page \in Nat \ {0} /\ Len(served) \in Nat
        BY <2>1, SourceIsList DEF PagingInv
      <3>2. page * size \in Nat /\ (page - 1) * size \in Nat
        BY <3>1
      <3> DEFINE m == (page - 1) * size + 1
                 n == Min({page * size, Len(served)})
      <3>3. n \in Nat /\ n <= Len(served)
        <4>1. n = IF page * size <= Len(served) THEN page * size ELSE Len(served)
          BY <3>1, <3>2, SmallerOfTwo
        <4> HIDE DEF n
        <4>. QED BY <4>1, <3>1, <3>2
      <3>4. m \in Nat /\ m >= 1
        BY <3>2
      <3> HIDE DEF m, n
      <3>5. \A i \in m .. n : served[i] \in R
        BY <3>3, <3>4, <2>1
      <3>6. SubSeq(served, m, n) \in Seq(R)
        BY <3>3, <3>4, <3>5, SubSeqProperties
      <3>. QED BY <3>6 DEF PageOf, m, n
    <2>3. answer \in Seq(R) /\ fetched \in Seq(R)
      BY <2>0, <2>1, <2>2 DEF StandardInv
    <2> HIDE DEF answer, R
    <2>4. fetched' \in Seq(R)
      BY <2>0, <2>3
    <2>5. DOMAIN fetched' \subseteq Int
      BY <2>4
    <2>6. round = 1
      BY <2>0 DEF PagingInv
    <2>. QED BY <2>0, <2>4, <2>5, <2>6 DEF StandardInv, R
  <1>4. CASE RequestFails
    BY <1>4 DEF RequestFails, StandardInv, PagingInv
  <1>5. CASE Canonicalize
    <2>1. DOMAIN fetched' = DOMAIN fetched
      BY <1>5 DEF Canonicalize
    <2>. QED BY <1>5, <2>1 DEF Canonicalize, source, StandardInv, PagingInv
  <1>6. CASE Validate
    <2>1. stage' = "compare" => KeysValid(case.rule, fetched)
      BY <1>6 DEF Validate, StandardValid
    <2>. QED BY <1>6, <2>1 DEF Validate, source, StandardInv, PagingInv
  <1>7. CASE CompareSheet
    BY <1>7 DEF CompareSheet, source, StandardInv, PagingInv
  <1>8. CASE NoSheetToCompare
    BY <1>8 DEF NoSheetToCompare, source, StandardInv, PagingInv
  <1>9. CASE LeaveToReview
    BY <1>9 DEF LeaveToReview, source, StandardInv, PagingInv
  <1>10. CASE ReportOnly
    BY <1>10 DEF ReportOnly, source, StandardInv, PagingInv
  <1>11. CASE Render
    BY <1>11 DEF Render, source, StandardInv, PagingInv
  <1>12. CASE AuditResult
    BY <1>12 DEF AuditResult, source, StandardInv, PagingInv
  <1>13. CASE UNCHANGED vars
    BY <1>13 DEF vars, StandardInv, PagingInv
  <1>. QED BY <1>1, <1>2, <1>3, <1>4, <1>5, <1>6, <1>7, <1>8, <1>9, <1>10, <1>11, <1>12, <1>13 DEF Next

LEMMA FindingStep == FindingInv /\ [Next]_vars => FindingInv'
  <1> SUFFICES ASSUME FindingInv, [Next]_vars, stage' = "settle" PROVE FindingInv'
    BY DEF FindingInv, Settling
  <1>1. CASE CompareSheet
    <2>1. UNCHANGED <<case, sheet, fetched>>
      BY <1>1 DEF CompareSheet
    <2>2. Here' = Here
      BY <2>1 DEF Here
    <2>3. ComparesRecords(Here) => ~KeyLost(Here, fetched, case.mode)
      BY <1>1 DEF CompareSheet, Here
    <2>4. finding' = Compare(Here, fetched, case.mode)
      BY <1>1 DEF CompareSheet, Here
    <2>. QED BY <2>1, <2>2, <2>3, <2>4 DEF FindingInv
  <1>2. CASE NoSheetToCompare
    BY <1>2 DEF NoSheetToCompare, FindingInv, Settling
  <1>3. CASE UNCHANGED vars
    <2>1. UNCHANGED <<case, sheet, fetched, stage, finding>>
      BY <1>3 DEF vars
    <2>2. Here' = Here
      BY <2>1 DEF Here
    <2>. QED BY <2>1, <2>2 DEF FindingInv, Settling
  <1>4. stage' = "settle" /\ Next => CompareSheet \/ NoSheetToCompare
    BY DEF Next, Inspect, ServerChanges, ReadPage, RequestFails, Canonicalize, Validate,
           LeaveToReview, ReportOnly, Render, AuditResult
  <1>. QED BY <1>1, <1>2, <1>3, <1>4

AuditInvariant == CaseInv /\ PagingInv /\ StandardInv /\ FindingInv

LEMMA AuditInvariantHolds == Spec => []AuditInvariant
  <1>1. Init => StandardInv /\ FindingInv
    BY DEF Init, StandardInv, FindingInv, Settling
  <1>2. CaseInv /\ Init => PagingInv
    BY PagingInit
  <1>3. CaseInv /\ PagingInv /\ [Next]_vars => PagingInv'
    BY PagingStep
  <1>4. CaseInv /\ PagingInv /\ StandardInv /\ [Next]_vars => StandardInv'
    BY StandardStep
  <1>5. FindingInv /\ [Next]_vars => FindingInv'
    BY FindingStep
  <1>. QED BY <1>1, <1>2, <1>3, <1>4, <1>5, CaseInvHolds, PTL DEF Spec, AuditInvariant

\* What a comparison that is settled rests on.
LEMMA SettledIsCompared ==
    ASSUME AuditInvariant, Settling, ComparesRecords(Here)
    PROVE  /\ Sound(Here) /\ Valid(Here, fetched) /\ ~KeyLost(Here, fetched, case.mode)
           /\ finding = Compare(Here, fetched, case.mode)
  <1>1. Here.rule = case.rule
    BY DEF Here, ScopeOf, Scope
  <1>2. Valid(Here, fetched)
    BY <1>1 DEF AuditInvariant, StandardInv, Settling, Valid
  <1>. QED BY <1>2, HereIsSound DEF AuditInvariant, FindingInv

\* Every row that holds data is answered for once and every standard record with a key is
\* compared with one row or is missing, for any rule, worksheet and source, wherever the
\* records are held and whatever joins the keys, in the first audit and in the audit of
\* its result (engine._compare_records).
THEOREM RowsAccountedFor == Spec => []RowsAreAccountedFor
  <1>1. AuditInvariant => RowsAreAccountedFor
    <2> SUFFICES ASSUME AuditInvariant, Settling, ComparesRecords(Here) PROVE RowsAreAccountedFor
      BY DEF RowsAreAccountedFor
    <2>1. /\ Sound(Here) /\ Valid(Here, fetched) /\ finding = Compare(Here, fetched, case.mode)
          /\ Matched(Here, fetched, case.mode) = Joined(Here, fetched, case.mode)
      BY SettledIsCompared, MatchedIsJoined
    <2> DEFINE pairs == Matched(Here, fetched, case.mode)
               noted(r) == {n.kind : n \in {m \in finding.notes :
                               m.row = r /\ m.kind \in {"formula", "empty", "duplicate_key", "extra_record"}}}
               records(r) == {p[2] : p \in {q \in pairs : q[1] = r}}
               rows(i)    == {p[1] : p \in {q \in pairs : q[2] = i}}
               passed(r)  == Here.rule.emptyKey = "skip_row" /\ ~HasKey(Here.rule, Here.record[r])
                                 /\ noted(r) = {}
    <2>2. ASSUME NEW r \in DataRows(Here)
          PROVE  Cardinality(noted(r)) + Cardinality(records(r)) = IF passed(r) THEN 0 ELSE 1
      <3>1. noted(r) = Noted(Compare(Here, fetched, case.mode).notes, r)
        BY <2>1 DEF Noted, RowKinds
      <3>2. records(r) = RecordsOf(Joined(Here, fetched, case.mode), r)
        BY <2>1 DEF RecordsOf
      <3> HIDE DEF noted, records
      <3>. QED BY <3>1, <3>2, <2>1, RowAccounted
    <2>3. ASSUME NEW i \in {j \in DOMAIN fetched : HasStandardKey(Here.rule, fetched[j])}
          PROVE  Cardinality(rows(i))
                     + Cardinality({n \in finding.notes : n.kind = "missing_record" /\ n.row = i}) = 1
      <3>1. rows(i) = RowsOf(Joined(Here, fetched, case.mode), i)
        BY <2>1 DEF RowsOf
      <3>2. i \in KeyedRecords(Here, fetched)
        BY DEF KeyedRecords
      <3> HIDE DEF rows
      <3>. QED BY <3>1, <3>2, <2>1, RecordAccounted
    <2>. QED BY <2>2, <2>3 DEF RowsAreAccountedFor
  <1>. QED BY <1>1, AuditInvariantHolds, PTL

\* Where the records are held and what joins the keys changes nothing in a finding but the
\* rows of the appended records and what depends on these, and nothing at all where both
\* joins sort the missing keys alike, and no key is lost, for any number of rows and
\* records, as long as no number of a key is spelled in two ways (engine.py,
\* record_store.py, partitioned_join.py).
THEOREM StoresAndJoinsAgree == Spec => []BackendsAgree
  <1>1. AuditInvariant => BackendsAgree
    <2> SUFFICES ASSUME AuditInvariant, Settling, ComparesRecords(Here), OneSpelling(Here, fetched),
                        NEW mode
                 PROVE  /\ ~KeyLost(Here, fetched, mode)
                        /\ FoundAlike(Here, Compare(Here, fetched, mode), finding)
                        /\ SameOrder(Here, fetched, mode.polars) => Compare(Here, fetched, mode) = finding
      BY DEF BackendsAgree, FoundAlike
    <2>1. Sound(Here) /\ Valid(Here, fetched) /\ finding = Compare(Here, fetched, case.mode)
      BY SettledIsCompared
    <2>2. ~KeyLost(Here, fetched, mode)
      BY <2>1, NoKeyLost
    <2>3. FoundAlike(Here, Compare(Here, fetched, mode), finding)
      BY <2>1, ModesAgree
    <2>4. SameOrder(Here, fetched, mode.polars) => Compare(Here, fetched, mode) = finding
      BY <2>1, SameOrderSameFinding DEF SameOrder
    <2>. QED BY <2>2, <2>3, <2>4
  <1>. QED BY <1>1, AuditInvariantHolds, PTL

-----------------------------------------------------------------------------
(* What is planned to be repaired.                                          *)

\* Excel keeps the value, if it is a number.
Safe(value) == value \in Numbers => WriteSafe(value)

\* The rule lets the cell of a field in a row be written: over a blank by a fill or a
\* default, over a value by an overwrite, over a formula never.
MayWrite(v, f, r) ==
    LET cell == Get(v.record[r], f.name)
    IN  /\ cell \notin Formulas
        /\ v.rule.overwrite \/ (cell \in Blanks /\ (v.rule.fill \/ f.default # None))

\* A cell of a record's row that is there, and one of a column that is inserted.
CellWrite(v, f, r, o) ==
    /\ o.type = "set_cell" /\ o.row = r /\ o.column = v.columns[f.name]
    /\ Safe(o.value) /\ MayWrite(v, f, r)

FieldWrite(v, f, r, o) ==
    /\ o.type = "set_field" /\ o.row = r /\ o.field = f.name
    /\ Safe(o.value) /\ ShouldInsert(v.rule, f) /\ ~f.template
    /\ v.rule.fill \/ f.default # None

\* An authorised repair: a header renamed, a cell of one record's row, a cell of a column
\* to insert, a format, or a record whose key no row has.
RenamesHeader(v, o) ==
    /\ o.type = "set_cell" /\ o.row = v.header /\ o.column \in Renamed(v)
    /\ o.value = FieldNamed(v.rule, v.mapping[o.column].field).title
WritesCell(v, o) ==
    \E r \in ExcelRecords(v) : \E f \in Fields(v.rule) : HasColumn(v, f) /\ CellWrite(v, f, r, o)
WritesField(v, o) ==
    \E r \in ExcelRecords(v) : \E f \in Fields(v.rule) : ~HasColumn(v, f) /\ FieldWrite(v, f, r, o)
SetsFormat(v, o) ==
    /\ o.type = "set_number_format" /\ o = SetFormat(o.row, o.column)
    /\ o.row \in DataRows(v) /\ <<o.row, o.column>> \in v.sheet.odd
    /\ \E f \in Fields(v.rule) : HasColumn(v, f) /\ f.display /\ v.columns[f.name] = o.column
AppendsRecord(v, std, mode, o) ==
    /\ o.type = "append_record" /\ v.rule.append
    /\ \A n \in DOMAIN o.values : Safe(o.values[n])
    /\ \E i \in Missing(v, std, mode) :
          /\ Appendable(v, std, i, AppendRow(v, std, mode.polars, Missing(v, std, mode))[i])
          /\ o = AppendRecord(AppendRow(v, std, mode.polars, Missing(v, std, mode))[i], WriteRecord(v, std[i]))
          /\ OneSpelling(v, std) =>
                \A q \in KeyedRows(v) : ~SameKey(ExcelKey(v, q), StandardKey(v.rule, std, i))

Authorised(v, std, mode, o) ==
    \/ RenamesHeader(v, o) \/ WritesCell(v, o) \/ WritesField(v, o) \/ SetsFormat(v, o)
    \/ AppendsRecord(v, std, mode, o)

LEMMA WriteIsSafe ==
    ASSUME NEW cell, NEW f, ExcelWriteSafe(cell, f)
    PROVE  Safe(WriteValue(cell, f))
  <1>1. CASE cell \in Numbers
    <2>1. Parse(cell, f).value = Number(cell) /\ Number(cell) \in Numbers
      BY <1>1, CellsAssumption DEF Parse, Parsed
    <2>2. WriteSafe(cell)
      BY <2>1 DEF ExcelWriteSafe
    <2>3. None \notin Numbers
      BY CellsAssumption
    <2>. QED BY <2>2, <2>3 DEF WriteValue, Safe
  <1>2. CASE cell \notin Numbers
    <2>1. None \notin Numbers
      BY CellsAssumption
    <2>. QED BY <1>2, <2>1 DEF WriteValue, Safe
  <1>. QED BY <1>1, <1>2

LEMMA BlankIsEmpty ==
    ASSUME NEW cell, NEW f, Parse(cell, f).valid, Parse(cell, f).value = None
    PROVE  cell \in Blanks /\ cell \notin Formulas
  <1>1. cell \in Blanks
    <2>1. CASE cell \in Formulas /\ f.formula = "formula"
      BY <2>1, CellsAssumption DEF Parse, Parsed
    <2>2. CASE cell \in Numbers
      BY <2>2, CellsAssumption DEF Parse, Parsed
    <2>. QED BY <2>1, <2>2 DEF Parse, Parsed
  <1>. QED BY <1>1, CellsAssumption

LEMMA DefaultPlanned ==
    ASSUME NEW f, NEW r, NEW c, NEW write, NEW o \in FillDefault(f, r, c, write).repairs
    PROVE  o = write /\ Safe(WriteValue(f.default, f))
  <1>1. ExcelWriteSafe(f.default, f)
    BY DEF FillDefault, Says, Finding
  <1>. QED BY <1>1, WriteIsSafe DEF FillDefault, Finding

LEMMA ExtraCellPlanned ==
    ASSUME NEW v, NEW f, NEW r, NEW o \in ExtraCell(v, f, r).repairs
    PROVE  CellWrite(v, f, r, o)
  <1> DEFINE cell == Get(v.record[r], f.name)
             write == SetCell(r, v.columns[f.name], WriteValue(f.default, f))
  <1>1. Parse(cell, f).valid /\ Parse(cell, f).value = None /\ f.default # None
    BY DEF ExtraCell, Nothing, Finding
  <1>2. ExtraCell(v, f, r) = FillDefault(f, r, v.columns[f.name], write)
    BY <1>1 DEF ExtraCell
  <1>3. o = write /\ Safe(WriteValue(f.default, f))
    BY <1>2, DefaultPlanned
  <1>4. cell \in Blanks /\ cell \notin Formulas
    BY <1>1, BlankIsEmpty
  <1>. QED BY <1>1, <1>3, <1>4 DEF CellWrite, MayWrite, SetCell

LEMMA MismatchPlanned ==
    ASSUME NEW v, NEW f, NEW r, NEW isFormula \in BOOLEAN, NEW left, NEW other,
           NEW o \in MismatchedCell(v, f, r, isFormula, left, other).repairs
    PROVE  /\ ~isFormula
           /\ (left.value = None /\ v.rule.fill) \/ v.rule.overwrite
           /\ o = SetCell(r, v.columns[f.name], WriteValue(other, f))
           /\ Safe(WriteValue(other, f))
  <1>1. /\ ~isFormula /\ ExcelWriteSafe(other, f)
        /\ (left.value = None /\ v.rule.fill) \/ v.rule.overwrite
        /\ o = SetCell(r, v.columns[f.name], WriteValue(other, f))
    BY DEF MismatchedCell, Says, Finding
  <1>. QED BY <1>1, WriteIsSafe

LEMMA MatchedCellPlanned ==
    ASSUME NEW v, NEW f, NEW r, NEW record, NEW o \in MatchedCell(v, f, r, record).repairs
    PROVE  CellWrite(v, f, r, o)
  <1> DEFINE cell   == Get(v.record[r], f.name)
             other  == Get(record, f.name)
             isFormula == cell \in Formulas
             left   == Parse(IF isFormula THEN Cached(cell) ELSE cell, f)
             write  == SetCell(r, v.columns[f.name], WriteValue(f.default, f))
  <1>0. \A kind, row, column, field : Says(Note(kind, row, column, field)).repairs = {}
    BY DEF Says, Finding
  <1>1. /\ left.valid
        /\ \/ o \in MismatchedCell(v, f, r, isFormula, left, other).repairs
           \/ /\ left.value = None /\ f.default # None /\ ~isFormula
              /\ o \in FillDefault(f, r, v.columns[f.name], write).repairs
    BY <1>0, Zenon DEF MatchedCell, Nothing, Finding
  <1>2. CASE o \in MismatchedCell(v, f, r, isFormula, left, other).repairs
    <2>1. /\ ~isFormula
          /\ (left.value = None /\ v.rule.fill) \/ v.rule.overwrite
          /\ o = SetCell(r, v.columns[f.name], WriteValue(other, f)) /\ Safe(WriteValue(other, f))
      <3>1. isFormula \in BOOLEAN
        OBVIOUS
      <3> HIDE DEF isFormula, left, other
      <3>. QED BY <1>2, <3>1, MismatchPlanned
    <2>2. left = Parse(cell, f)
      BY <2>1
    <2>3. left.value = None => cell \in Blanks
      BY <1>1, <2>2, BlankIsEmpty
    <2>. QED BY <2>1, <2>3 DEF CellWrite, MayWrite, SetCell
  <1>3. CASE /\ left.value = None /\ f.default # None /\ ~isFormula
             /\ o \in FillDefault(f, r, v.columns[f.name], write).repairs
    <2>1. o = write /\ Safe(WriteValue(f.default, f))
      BY <1>3, DefaultPlanned
    <2>2. cell \in Blanks
      BY <1>1, <1>3, BlankIsEmpty
    <2>. QED BY <1>3, <2>1, <2>2 DEF CellWrite, MayWrite, SetCell
  <1>. QED BY <1>1, <1>2, <1>3

LEMMA InsertedCellPlanned ==
    ASSUME NEW v, NEW f, NEW r, NEW record, NEW o \in InsertedCell(v, f, r, record).repairs
    PROVE  FieldWrite(v, f, r, o)
  <1> DEFINE cell == Get(record, f.name)
             write(x) == SetField(r, f.name, WriteValue(x, f))
  <1>1. \A kind, row, column, field : Says(Note(kind, row, column, field)).repairs = {}
    BY DEF Says, Finding
  <1>2. /\ ShouldInsert(v.rule, f) /\ ~f.template
        /\ \/ v.rule.fill /\ ExcelWriteSafe(cell, f) /\ o = write(cell)
           \/ f.default # None /\ o \in FillDefault(f, r, 0, write(f.default)).repairs
    BY <1>1 DEF InsertedCell, Nothing, Finding
  <1>3. CASE v.rule.fill /\ ExcelWriteSafe(cell, f) /\ o = write(cell)
    BY <1>2, <1>3, WriteIsSafe DEF FieldWrite, SetField
  <1>4. CASE f.default # None /\ o \in FillDefault(f, r, 0, write(f.default)).repairs
    <2>1. o = write(f.default) /\ Safe(WriteValue(f.default, f))
      BY <1>4, DefaultPlanned
    <2>. QED BY <1>2, <1>4, <2>1 DEF FieldWrite, SetField
  <1>. QED BY <1>2, <1>3, <1>4

\* A record that is appended writes only what Excel keeps, and no keyed row has its key.
LEMMA MissingPlanned ==
    ASSUME NEW v, NEW std, Valid(v, std), NEW mode, NEW o \in MissingRecords(v, std, mode).repairs
    PROVE  AppendsRecord(v, std, mode, o)
  <1> DEFINE row(i) == AppendRow(v, std, mode.polars, Missing(v, std, mode))[i]
  <1>1. MissingRecords(v, std, mode).repairs
            = UNION {x.repairs : x \in {MissingRecord(v, std, i, row(i)) : i \in Missing(v, std, mode)}}
    BY DEF MissingRecords, Together, Finding
  <1> HIDE DEF row
  <1>2. PICK i \in Missing(v, std, mode) : o \in MissingRecord(v, std, i, row(i)).repairs
    BY <1>1
  <1>3. /\ Appendable(v, std, i, row(i))
        /\ o = AppendRecord(row(i), WriteRecord(v, std[i]))
    BY <1>2 DEF MissingRecord, Finding
  <1>4. o.type = "append_record" /\ o.values = WriteRecord(v, std[i])
    BY <1>3 DEF AppendRecord
  <1>5. ASSUME NEW n \in DOMAIN o.values PROVE Safe(o.values[n])
    <2>1. /\ n \in {f.name : f \in Fields(v.rule)}
          /\ o.values[n] = WriteValue(Get(std[i], n), FieldNamed(v.rule, n))
      BY <1>4 DEF WriteRecord
    <2>2. FieldNamed(v.rule, n) \in Fields(v.rule) /\ FieldNamed(v.rule, n).name = n
      BY <2>1 DEF FieldNamed, Fields
    <2>3. FieldNamed(v.rule, n) \notin UnsafeWrites(v, std[i])
      BY <1>3 DEF Appendable
    <2>4. ExcelWriteSafe(Get(std[i], n), FieldNamed(v.rule, n))
      BY <2>2, <2>3 DEF UnsafeWrites
    <2>. QED BY <2>1, <2>4, WriteIsSafe
  <1>6. i \in KeyedRecords(v, std)
    BY <1>2, AllRecordsJoin DEF Missing, Valid
  <1>7. ASSUME OneSpelling(v, std), NEW q \in KeyedRows(v),
               SameKey(ExcelKey(v, q), StandardKey(v.rule, std, i))
        PROVE  FALSE
    <2>1. q \notin DuplicateRows(v)
      BY <1>3, <1>7 DEF Appendable
    <2>2. <<q, i>> \in Pairs(v, std)
      BY <2>1, <1>6, <1>7 DEF Pairs, ExcelRecords
    <2>3. <<q, i>> \in Joined(v, std, mode)
      BY <2>2, <1>7, JoinedIsPairs
    <2>4. <<q, i>>[2] = i
      OBVIOUS
    <2>. QED BY <1>2, <2>3, <2>4 DEF Missing
  <1>8. v.rule.append
    BY <1>3 DEF Appendable
  <1>9. /\ Appendable(v, std, i, AppendRow(v, std, mode.polars, Missing(v, std, mode))[i])
        /\ o = AppendRecord(AppendRow(v, std, mode.polars, Missing(v, std, mode))[i], WriteRecord(v, std[i]))
    BY <1>3 DEF row
  <1>. QED BY <1>4, <1>5, <1>7, <1>8, <1>9 DEF AppendsRecord

LEMMA CheckedPlanned ==
    ASSUME NEW v, NEW r \in ValidatedRows(v), NEW f \in CheckedFields(v, r),
           NEW o \in CheckedCell(v, f, r).repairs
    PROVE  SetsFormat(v, o)
  <1>1. \A kind, row, column, field : Says(Note(kind, row, column, field)).repairs = {}
    BY DEF Says, Finding
  <1> DEFINE parsed == Parse(Read(v, f, r), f)
             told == IF parsed.value \in Formulas \/ Acceptable(parsed.value, f) THEN {}
                     ELSE {Says(Note("validation_error", r, v.columns[f.name], f.name))}
  <1>2. o \in Together({Displayed(v, f, r)} \cup told).repairs
    BY <1>1 DEF CheckedCell, Nothing, Finding
  <1>3. \A x \in told : x.repairs = {}
    BY <1>1
  <1> HIDE DEF told
  <1>4. o \in Displayed(v, f, r).repairs
    BY <1>2, <1>3 DEF Together, Finding
  <1>5. /\ f.display /\ <<r, v.columns[f.name]>> \in v.sheet.odd
        /\ o = SetFormat(r, v.columns[f.name])
    BY <1>4 DEF Displayed, Nothing, Finding
  <1>6. f \in Fields(v.rule) /\ HasColumn(v, f) /\ r \in DataRows(v)
    BY DEF CheckedFields, ValidatedRows
  <1>. QED BY <1>5, <1>6 DEF SetsFormat, SetFormat

LEMMA ValidationPlanned ==
    ASSUME NEW v, NEW o \in ValidateRows(v).repairs
    PROVE  SetsFormat(v, o)
  <1> DEFINE cells == (UNION {{CheckedCell(v, f, r) : f \in CheckedFields(v, r)} : r \in ValidatedRows(v)})
             cross == {Finding(CrossNotes(v, r), {}) : r \in ValidatedRows(v)}
             once  == {Finding(NotUnique(v, f), {}) : f \in {g \in Fields(v.rule) : HasColumn(v, g)}}
  <1>1. ValidateRows(v).repairs = UNION {x.repairs : x \in cells \cup cross \cup once}
    BY DEF ValidateRows, Together, Finding
  <1>2. \A x \in cross \cup once : x.repairs = {}
    BY DEF Finding
  <1>3. \A x \in cells : \A q \in x.repairs : SetsFormat(v, q)
    BY CheckedPlanned
  <1> HIDE DEF cells, cross, once
  <1>. QED BY <1>1, <1>2, <1>3

LEMMA RowPlanned ==
    ASSUME NEW v, NEW r \in ExcelRecords(v), NEW record,
           NEW o, o \in MatchedRow(v, r, record).repairs \/ o \in ExtraRow(v, r).repairs
    PROVE  WritesCell(v, o) \/ WritesField(v, o)
  <1>1. CASE o \in MatchedRow(v, r, record).repairs
    <2>1. PICK f \in Fields(v.rule) :
              o \in (IF HasColumn(v, f) THEN MatchedCell(v, f, r, record)
                     ELSE InsertedCell(v, f, r, record)).repairs
      BY <1>1 DEF MatchedRow, Together, Finding
    <2>. QED BY <2>1, MatchedCellPlanned, InsertedCellPlanned DEF WritesCell, WritesField
  <1>2. CASE o \in ExtraRow(v, r).repairs
    <2> DEFINE cells == {ExtraCell(v, f, r) : f \in {g \in Fields(v.rule) : HasColumn(v, g)}}
               said  == Says(Note("extra_record", r, 0, None))
    <2>1. ExtraRow(v, r).repairs = UNION {x.repairs : x \in {said} \cup cells}
      BY DEF ExtraRow, Together, Finding
    <2>2. said.repairs = {}
      BY DEF Says, Finding
    <2> HIDE DEF said
    <2>3. PICK f \in Fields(v.rule) : HasColumn(v, f) /\ o \in ExtraCell(v, f, r).repairs
      BY <1>2, <2>1, <2>2
    <2>. QED BY <2>3, ExtraCellPlanned DEF WritesCell
  <1>. QED BY <1>1, <1>2

LEMMA ComparePlanned ==
    ASSUME NEW v, NEW std, Valid(v, std), NEW mode, ComparesRecords(v) => ~KeyLost(v, std, mode),
           NEW o \in Compare(v, std, mode).repairs
    PROVE  Authorised(v, std, mode, o)
  <1> DEFINE record  == RecordFinding(v, std, mode)
             extra   == {ExtraRow(v, r) : r \in Extra(v, std, mode)}
             matched == {MatchedRow(v, p[1], std[p[2]]) : p \in Matched(v, std, mode)}
             fixed   == {Finding(KeyNotes(v), {}), ValidateRows(v), MissingRecords(v, std, mode)}
             header  == Finding(HeaderNotes(v), HeaderRepairs(v))
  <1>1. Compare(v, std, mode).repairs
            = UNION {x.repairs : x \in {header} \cup IF ComparesRecords(v) THEN {record} ELSE {}}
    BY DEF Compare, Together, Finding
  <1>2. record.repairs = UNION {x.repairs : x \in fixed \cup extra \cup matched}
    BY DEF RecordFinding, Together, Finding
  <1>3. ASSUME o \in header.repairs PROVE RenamesHeader(v, o)
    BY <1>3 DEF Finding, HeaderRepairs, RenamesHeader, SetCell
  <1>4. ASSUME NEW x \in extra, o \in x.repairs PROVE WritesCell(v, o) \/ WritesField(v, o)
    BY <1>4, RowPlanned DEF Extra
  <1>5. ASSUME ComparesRecords(v), NEW x \in matched, o \in x.repairs
        PROVE  WritesCell(v, o) \/ WritesField(v, o)
    <2>1. PICK p \in Joined(v, std, mode) : o \in MatchedRow(v, p[1], std[p[2]]).repairs
      BY <1>5, MatchedIsJoined
    <2>2. p[1] \in ExcelRecords(v)
      BY JoinedIsSame
    <2>. QED BY <2>1, <2>2, RowPlanned
  <1>6. ASSUME NEW x \in fixed, o \in x.repairs PROVE SetsFormat(v, o) \/ AppendsRecord(v, std, mode, o)
    <2>1. Finding(KeyNotes(v), {}).repairs = {}
      BY DEF Finding
    <2>. QED BY <1>6, <2>1, ValidationPlanned, MissingPlanned
  <1> HIDE DEF record, extra, matched, fixed, header
  <1>. QED BY <1>1, <1>2, <1>3, <1>4, <1>5, <1>6 DEF Authorised

PlanIsAuthorised ==
    Settling => \A o \in finding.repairs : Authorised(Here, fetched, case.mode, o)

\* Nothing is planned that the rule does not authorise: a repair renames a header from an
\* alias, writes a cell of a row of one record where a fill, a default or an overwrite may
\* and no formula is, fills a column to insert, sets a display format, or appends a record
\* whose key, spelled in one way, no row has; and no number is written to the data that
\* Excel would round (engine._header_differences, _compare_records,
\* _append_display_format_repair).
THEOREM PlannedRepairsAuthorised == Spec => []PlanIsAuthorised
  <1>1. AuditInvariant => PlanIsAuthorised
    <2> SUFFICES ASSUME AuditInvariant, Settling, NEW o \in finding.repairs
                 PROVE  Authorised(Here, fetched, case.mode, o)
      BY DEF PlanIsAuthorised
    <2>1. Here.rule = case.rule
      BY DEF Here, ScopeOf, Scope
    <2>2. Valid(Here, fetched)
      BY <2>1 DEF AuditInvariant, StandardInv, Settling, Valid
    <2>. QED BY <2>2, ComparePlanned DEF AuditInvariant, FindingInv
  <1>. QED BY <1>1, AuditInvariantHolds, PTL

-----------------------------------------------------------------------------
(* The rows and records of a run: what is planned stays on the worksheet and*)
(* below it, whatever is read and rendered.                                *)

\* Repairs are on rows of the worksheet, and appended records on rows right below it.
LEMMA RepairsArePlaced ==
    ASSUME NEW rule, rule.startRow \in Nat, NEW sh, NEW n \in Nat, NEW w \in Nat, NEW C,
           Rectangle(sh.grid, n, w, C), NEW header \in 1 .. n, NEW v, v = Scope(rule, sh, header),
           NEW S, NEW std \in Seq(S), Valid(v, std), NEW mode, ComparesRecords(v) => ~KeyLost(v, std, mode)
    PROVE  RowsOfRepairs(Compare(v, std, mode).repairs, n, n + Len(std))
  <1>1. ScopeOn(v, rule, sh, header, n, w)
    BY ScopeColumns
  <1>2. DataRows(v) \subseteq 1 .. n /\ ExcelRecords(v) \subseteq DataRows(v)
    BY DataRowsAreRows
  <1> SUFFICES ASSUME NEW o \in Compare(v, std, mode).repairs
               PROVE  IF o.type = "append_record" THEN o.row \in n + 1 .. n + Len(std)
                      ELSE o.type \in {"set_cell", "set_field", "set_number_format"} /\ o.row \in 1 .. n
    BY DEF RowsOfRepairs
  <1>3. Authorised(v, std, mode, o)
    BY ComparePlanned
  <1>4. CASE RenamesHeader(v, o)
    BY <1>1, <1>4 DEF RenamesHeader, ScopeOn
  <1>5. CASE WritesCell(v, o)
    BY <1>2, <1>5 DEF WritesCell, CellWrite
  <1>6. CASE WritesField(v, o)
    BY <1>2, <1>6 DEF WritesField, FieldWrite
  <1>7. CASE SetsFormat(v, o)
    BY <1>2, <1>7 DEF SetsFormat
  <1>8. CASE AppendsRecord(v, std, mode, o)
    <2> DEFINE missing == Missing(v, std, mode)
               row == AppendRow(v, std, mode.polars, missing)
    <2>1. PICK i \in missing : o = AppendRecord(row[i], WriteRecord(v, std[i]))
      BY <1>8 DEF AppendsRecord
    <2>2. o.type = "append_record" /\ o.row = row[i]
      BY <2>1 DEF AppendRecord
    <2>3. IsFiniteSet(missing) /\ Cardinality(missing) <= Len(std) /\ Cardinality(missing) \in Nat
      BY MissingAreRecords, FS_CardinalityType
    <2>4. Len(v.sheet.grid) = n
      BY <1>1 DEF ScopeOn
    <2> HIDE DEF missing
    <2>5. TakesRows(v, std, mode.polars, missing, row)
      BY <2>3, RowsAreTaken
    <2> HIDE DEF row
    <2>6. row[i] \in Len(v.sheet.grid) + 1 .. Len(v.sheet.grid) + Cardinality(missing)
      BY <2>3, <2>4, <2>5, AppendedBelow
    <2>. QED BY <2>2, <2>3, <2>4, <2>6
  <1>. QED BY <1>3, <1>4, <1>5, <1>6, <1>7, <1>8 DEF Authorised

\* What the source serves, and what becomes of it.
Raw == Range(case.source.records) \cup Range(case.source.later)
StandardRows == {CanonicalRow(case.rule, record) : record \in Raw}

\* The worksheet that is audited, also the rendered one, is a rectangle.
SheetInv ==
    /\ {"grid", "odd"} \subseteq DOMAIN sheet
    /\ \E n, w \in Nat : \E C : Rectangle(sheet.grid, n, w, C)

\* Records are raw until they are canonicalized, and no more than the limit after.
FetchedInv ==
    /\ stage \in {"fetch", "canonicalize"} \/ (stage = "inspect" /\ round = 1) => fetched \in Seq(Raw)
    /\ fetched \in Seq(Raw \cup StandardRows)
    /\ stage \in {"validate", "compare", "settle", "manual_review", "report_only", "completed"} \/ round = 2 =>
          fetched \in Seq(StandardRows)
    /\ stage \in {"canonicalize", "validate", "compare", "settle", "manual_review", "report_only", "completed"}
          \/ round = 2 => Len(fetched) <= case.source.maxRecords

\* Stage, round and the numbers of the page and of the attempt.
ProgressInv ==
    /\ stage \in Stages /\ round \in 1 .. 2
    /\ page \in 1 .. case.source.maxPages /\ attempt \in 0 .. 2 /\ steady \in BOOLEAN

\* A plan with repairs is what the comparison of the worksheet with these records found.
PlanInv ==
    finding.repairs # {} =>
        /\ stage \in {"settle"} \cup Final /\ HasScope(case.rule, sheet) /\ Valid(Here, fetched)
        /\ ComparesRecords(Here) => ~KeyLost(Here, fetched, case.mode)
        /\ finding = Compare(Here, fetched, case.mode)

\* The header row that is found is one of the worksheet.
LEMMA HeaderIsARow ==
    ASSUME NEW rule, NEW sh, HasScope(rule, sh)
    PROVE  LocateHeaderRow(rule, sh.grid) \in DOMAIN sh.grid
  <1> DEFINE grid == sh.grid
             best == BestHeaders(rule, grid)
  <1>1. LocateHeaderRow(rule, grid) =
            CASE ~rule.autoDetect -> IF rule.headerRow \in DOMAIN grid THEN rule.headerRow ELSE 0
              [] rule.autoDetect /\ Cardinality(best) = 1 -> CHOOSE r \in best : TRUE
              [] OTHER -> 0
    BY DEF LocateHeaderRow
  <1>2. LocateHeaderRow(rule, grid) # 0
    BY DEF HasScope
  <1>3. best \subseteq DOMAIN grid
    BY DEF BestHeaders
  <1> HIDE DEF best
  <1>4. Cardinality(best) = 1 => (CHOOSE r \in best : TRUE) \in best
    <2>1. Cardinality({}) = 0
      BY FS_EmptySet
    <2>. QED BY <2>1
  <1>5. CASE ~rule.autoDetect
    BY <1>1, <1>2, <1>5
  <1>6. CASE rule.autoDetect /\ Cardinality(best) = 1
    BY <1>1, <1>3, <1>4, <1>6
  <1>7. CASE rule.autoDetect /\ Cardinality(best) # 1
    BY <1>1, <1>2, <1>7
  <1>. QED BY <1>5, <1>6, <1>7

\* What the assumptions say of the case of a run.
LEMMA CaseIsAsAssumed ==
    ASSUME CaseInv
    PROVE  /\ AllowedRule(case.rule) /\ case.rule.columns \in Seq(Range(case.rule.columns))
           /\ case.rule.startRow \in Nat /\ case.source.maxPages \in Nat \ {0}
           /\ case.source.records \in Seq(Raw) /\ case.source.later \in Seq(Raw)
           /\ {"grid", "odd"} \subseteq DOMAIN case.sheet /\ case.sheet.grid \in Seq(Range(case.sheet.grid))
           /\ \A r \in DOMAIN case.sheet.grid : /\ case.sheet.grid[r] \in Seq(Range(case.sheet.grid[r]))
                                                /\ Len(case.sheet.grid[r]) = Len(case.sheet.grid[1])
  <1>1. PICK about \in DOMAIN Cases : case \in Cases[about]
    BY DEF CaseInv
  <1>2. /\ case.source.records \in Seq(Range(case.source.records))
        /\ case.source.later \in Seq(Range(case.source.later))
        /\ case.source.maxPages \in Nat \ {0} /\ case.rule.startRow \in Nat
        /\ case.rule.columns \in Seq(Range(case.rule.columns))
        /\ {"grid", "odd"} \subseteq DOMAIN case.sheet /\ case.sheet.grid \in Seq(Range(case.sheet.grid))
        /\ \A r \in DOMAIN case.sheet.grid : /\ case.sheet.grid[r] \in Seq(Range(case.sheet.grid[r]))
                                             /\ Len(case.sheet.grid[r]) = Len(case.sheet.grid[1])
    BY <1>1, CasesAssumption
  <1>3. case.source.records \in Seq(Raw) /\ case.source.later \in Seq(Raw)
    BY <1>2 DEF Raw
  <1>. QED BY <1>2, <1>3 DEF CaseInv

\* The worksheet of a case is a rectangle.
LEMMA CaseSheetIsRectangle ==
    ASSUME CaseInv
    PROVE  \E n, w \in Nat : \E C : Rectangle(case.sheet.grid, n, w, C)
  <1> DEFINE grid == case.sheet.grid
             n == Len(grid)
             C == UNION {Range(grid[r]) : r \in 1 .. n}
  <1>1. /\ grid \in Seq(Range(grid))
        /\ \A r \in DOMAIN grid : grid[r] \in Seq(Range(grid[r])) /\ Len(grid[r]) = Len(grid[1])
    BY CaseIsAsAssumed
  <1>2. n \in Nat /\ DOMAIN grid = 1 .. n /\ grid = [r \in 1 .. n |-> grid[r]]
    <2> DEFINE R == Range(grid)
    <2>1. grid \in Seq(R)
      BY <1>1
    <2> HIDE DEF grid, R
    <2>. QED BY <2>1
  <1>3. ASSUME NEW r \in 1 .. n PROVE grid[r] \in Seq(C) /\ Len(grid[r]) = Len(grid[1]) /\ Len(grid[r]) \in Nat
    <2> DEFINE row == grid[r]
    <2>1. row \in Seq(Range(row)) /\ Len(row) = Len(grid[1]) /\ Len(row) \in Nat
      BY <1>1, <1>2
    <2>2. Range(row) \subseteq C
      BY <1>3
    <2> HIDE DEF row, C
    <2>3. row \in Seq(C)
      BY <2>1, <2>2
    <2>. QED BY <2>1, <2>3 DEF row
  <1> HIDE DEF grid, n, C
  <1>4. grid \in [1 .. n -> Seq(C)]
    BY <1>2, <1>3
  <1>5. CASE n = 0
    <2>1. Rectangle(grid, n, 0, C)
      BY <1>4, <1>5 DEF Rectangle
    <2>. QED BY <1>2, <2>1 DEF grid
  <1>6. CASE n # 0
    <2>1. Len(grid[1]) \in Nat
      BY <1>2, <1>3, <1>6
    <2>2. Rectangle(grid, n, Len(grid[1]), C)
      BY <1>3, <1>4 DEF Rectangle
    <2>. QED BY <1>2, <2>1, <2>2 DEF grid
  <1>. QED BY <1>5, <1>6

\* All of it is inductive together.
RowsInv == CaseInv /\ PagingInv /\ StandardInv /\ SheetInv /\ FetchedInv /\ ProgressInv /\ PlanInv

\* The scope of a sheet whose header is found.
LEMMA HereIsScope ==
    ASSUME CaseInv, SheetInv, HasScope(case.rule, sheet)
    PROVE  \E n, w \in Nat : \E C : \E header \in 1 .. n :
              Rectangle(sheet.grid, n, w, C) /\ Here = Scope(case.rule, sheet, header)
  <1>1. PICK n \in Nat, w \in Nat : \E C : Rectangle(sheet.grid, n, w, C)
    BY DEF SheetInv
  <1>2. PICK C : Rectangle(sheet.grid, n, w, C)
    BY <1>1
  <1>3. LocateHeaderRow(case.rule, sheet.grid) \in 1 .. n
    BY <1>2, HeaderIsARow DEF Rectangle
  <1>4. Here = Scope(case.rule, sheet, LocateHeaderRow(case.rule, sheet.grid))
    BY DEF Here, ScopeOf
  <1>. QED BY <1>2, <1>3, <1>4

\* The plan of a run is on the worksheet and below it.
LEMMA PlanIsPlaced ==
    ASSUME CaseInv, PlanInv, FetchedInv, NEW n \in Nat, NEW w \in Nat, NEW C, Rectangle(sheet.grid, n, w, C)
    PROVE  RowsOfRepairs(finding.repairs, n, n + Len(fetched)) /\ Len(fetched) \in Nat
  <1>1. PICK S : fetched \in Seq(S)
    BY DEF FetchedInv
  <1>2. Len(fetched) \in Nat
    BY <1>1
  <1>3. CASE finding.repairs = {}
    BY <1>2, <1>3 DEF RowsOfRepairs
  <1>4. CASE finding.repairs # {}
    <2> DEFINE rule == case.rule
               header == LocateHeaderRow(rule, sheet.grid)
    <2>1. /\ HasScope(rule, sheet) /\ Valid(Here, fetched) /\ finding = Compare(Here, fetched, case.mode)
          /\ ComparesRecords(Here) => ~KeyLost(Here, fetched, case.mode)
      BY <1>4 DEF PlanInv
    <2>2. header \in 1 .. n /\ Here = Scope(rule, sheet, header)
      BY <2>1, HeaderIsARow DEF Rectangle, Here, ScopeOf
    <2>3. rule.startRow \in Nat
      BY CaseIsAsAssumed
    <2> HIDE DEF header, rule
    <2>. QED BY <1>1, <1>2, <2>1, <2>2, <2>3, RepairsArePlaced
  <1>. QED BY <1>3, <1>4

LEMMA ProgressStep == CaseInv /\ ProgressInv /\ [Next]_vars => ProgressInv'
  <1> SUFFICES ASSUME CaseInv, ProgressInv, [Next]_vars PROVE ProgressInv'
    OBVIOUS
  <1>0. case.source.maxPages \in Nat
    BY CaseIsAsAssumed
  <1>1. CASE Inspect
    BY <1>1 DEF Inspect, source, ProgressInv, Stages, Final
  <1>2. CASE ServerChanges
    BY <1>2 DEF ServerChanges, ProgressInv, Stages, Final
  <1>3. CASE ReadPage
    <2>1. /\ stage' \in Stages /\ attempt' = 0 /\ UNCHANGED <<case, round, steady>>
          /\ page' = page \/ (page < case.source.maxPages /\ page' = page + 1)
      BY <1>3 DEF ReadPage, Stages, Final
    <2>. QED BY <1>0, <2>1 DEF ProgressInv
  <1>4. CASE RequestFails
    BY <1>4 DEF RequestFails, MayRetry, ProgressInv, Stages, Final
  <1>5. CASE Canonicalize
    BY <1>5 DEF Canonicalize, source, ProgressInv, Stages, Final
  <1>6. CASE Validate
    BY <1>6 DEF Validate, source, ProgressInv, Stages, Final
  <1>7. CASE CompareSheet
    BY <1>7 DEF CompareSheet, source, ProgressInv, Stages, Final
  <1>8. CASE NoSheetToCompare
    BY <1>8 DEF NoSheetToCompare, source, ProgressInv, Stages, Final
  <1>9. CASE LeaveToReview \/ ReportOnly \/ Render
    BY <1>9 DEF LeaveToReview, ReportOnly, Render, source, ProgressInv, Stages, Final
  <1>10. CASE AuditResult
    BY <1>10 DEF AuditResult, source, ProgressInv, Stages, Final
  <1>11. CASE UNCHANGED vars
    BY <1>11 DEF vars, ProgressInv
  <1>. QED BY <1>1, <1>2, <1>3, <1>4, <1>5, <1>6, <1>7, <1>8, <1>9, <1>10, <1>11 DEF Next

LEMMA PlanStep == StandardInv /\ PlanInv /\ [Next]_vars => PlanInv'
  <1> SUFFICES ASSUME StandardInv, PlanInv, [Next]_vars PROVE PlanInv'
    OBVIOUS
  <1>1. Here.rule = case.rule
    BY DEF Here, ScopeOf, Scope
  <1>2. CASE CompareSheet
    <2>1. /\ stage = "compare" /\ HasScope(case.rule, sheet) /\ UNCHANGED <<case, sheet, fetched>>
          /\ \/ finding' = finding
             \/ /\ stage' = "settle" /\ finding' = Compare(Here, fetched, case.mode)
                /\ ComparesRecords(Here) => ~KeyLost(Here, fetched, case.mode)
      BY <1>2 DEF CompareSheet, Here
    <2>2. finding.repairs = {}
      BY <2>1 DEF PlanInv, Final
    <2>3. Here' = Here
      BY <2>1 DEF Here
    <2>4. Valid(Here, fetched)
      BY <1>1, <2>1 DEF StandardInv, Valid
    <2>. QED BY <2>1, <2>2, <2>3, <2>4 DEF PlanInv
  <1>3. CASE NoSheetToCompare
    <2>1. \A note : Says(note).repairs = {}
      BY DEF Says, Finding
    <2>2. finding'.repairs = {}
      BY <1>3, <2>1 DEF NoSheetToCompare
    <2>. QED BY <2>2 DEF PlanInv
  <1>4. CASE AuditResult
    BY <1>4 DEF AuditResult, PlanInv, Nothing, Finding
  <1>5. CASE UNCHANGED <<case, sheet, finding>> /\ stage \notin {"settle"} \cup Final
    BY <1>5 DEF PlanInv
  <1>6. CASE UNCHANGED <<case, sheet, fetched, finding>> /\ stage' \in {stage} \cup Final
    <2>1. Here' = Here
      BY <1>6 DEF Here
    <2>. QED BY <1>6, <2>1 DEF PlanInv
  <1>7. Inspect \/ ServerChanges \/ ReadPage \/ RequestFails \/ Canonicalize \/ Validate =>
            UNCHANGED <<case, sheet, finding>> /\ stage \notin {"settle"} \cup Final
    BY DEF Inspect, ServerChanges, ReadPage, RequestFails, Canonicalize, Validate, Final
  <1>8. LeaveToReview \/ ReportOnly \/ Render \/ UNCHANGED vars =>
            UNCHANGED <<case, sheet, fetched, finding>> /\ stage' \in {stage} \cup Final
    BY DEF LeaveToReview, ReportOnly, Render, vars, Final
  <1>. QED BY <1>2, <1>3, <1>4, <1>5, <1>6, <1>7, <1>8 DEF Next

\* Rendering makes a rectangle out of a rectangle.
LEMMA SheetStep == CaseInv /\ SheetInv /\ FetchedInv /\ PlanInv /\ [Next]_vars => SheetInv'
  <1> SUFFICES ASSUME CaseInv, SheetInv, FetchedInv, PlanInv, [Next]_vars PROVE SheetInv'
    OBVIOUS
  <1>1. CASE UNCHANGED sheet
    BY <1>1 DEF SheetInv
  <1>2. CASE AuditResult
    <2> DEFINE rule == case.rule
               out == RenderManifest(Here, finding)
    <2>1. HasScope(rule, sheet) /\ sheet' = RenderedSheet(Here, finding)
      BY <1>2 DEF AuditResult, Here
    <2>2. PICK n \in Nat, w \in Nat : \E C : \E header \in 1 .. n :
              Rectangle(sheet.grid, n, w, C) /\ Here = Scope(rule, sheet, header)
      BY <2>1, HereIsScope
    <2>a. PICK C : \E header \in 1 .. n : Rectangle(sheet.grid, n, w, C) /\ Here = Scope(rule, sheet, header)
      BY <2>2
    <2>3. PICK header \in 1 .. n : Rectangle(sheet.grid, n, w, C) /\ Here = Scope(rule, sheet, header)
      BY <2>a
    <2>4. Here.sheet = sheet
      BY <2>3 DEF Scope
    <2>5. {"grid", "odd"} \subseteq DOMAIN sheet' /\ sheet'.grid = out.grid
      <3>1. {"grid", "odd"} \subseteq DOMAIN sheet
        BY DEF SheetInv
      <3> HIDE DEF out
      <3>. QED BY <2>1, <2>4, <3>1 DEF RenderedSheet, out
    <2>6. \E m, W \in Nat : \E D : Rectangle(out.grid, m, W, D)
      <3>1. CASE ~out.ok
        <4>1. out = Written(out.grid) \/ out = RenderFailed
          BY DEF RenderManifest, Written
        <4>2. out.grid = <<>>
          BY <3>1, <4>1 DEF Written, RenderFailed
        <4>3. Rectangle(<<>>, 0, 0, {})
          BY DEF Rectangle
        <4>. QED BY <4>2, <4>3
      <3>2. CASE out.ok
        <4>1. RowsOfRepairs(finding.repairs, n, n + Len(fetched)) /\ Len(fetched) \in Nat
          BY <2>3, PlanIsPlaced
        <4>2. Placed(finding, n, n + Len(fetched)) /\ n + Len(fetched) \in Nat
          BY <4>1, PlacedIfRows
        <4>3. AllowedRule(rule) /\ rule.columns \in Seq(Range(rule.columns))
          BY CaseIsAsAssumed
        <4> DEFINE v == Here
                   N == n + Len(fetched)
                   plan == finding
        <4> HIDE DEF v, N, plan, rule
        <4>4. v = Scope(rule, sheet, header) /\ RenderManifest(v, plan).ok
          BY <2>3, <3>2 DEF v, plan, rule
        <4>5. Placed(plan, n, N) /\ N \in Nat /\ Rectangle(sheet.grid, n, w, C) /\ header \in 1 .. n
          BY <2>3, <4>2 DEF plan, N
        <4>6. AllowedRule(rule) /\ rule.columns \in Seq(Range(rule.columns))
          BY <4>3 DEF rule
        <4>7. \E m \in Nat, W \in Nat : \E D : Rectangle(RenderManifest(v, plan).grid, m, W, D)
          BY <4>4, <4>5, <4>6, RenderedIsRectangle
        <4>. QED BY <4>7 DEF v, plan
      <3>. QED BY <3>1, <3>2
    <2> HIDE DEF out
    <2>. QED BY <2>5, <2>6 DEF SheetInv
  <1>3. Inspect \/ ServerChanges \/ ReadPage \/ RequestFails \/ Canonicalize \/ Validate \/ CompareSheet
        \/ NoSheetToCompare \/ LeaveToReview \/ ReportOnly \/ Render \/ UNCHANGED vars => UNCHANGED sheet
    BY DEF Inspect, ServerChanges, ReadPage, RequestFails, Canonicalize, Validate, CompareSheet,
           NoSheetToCompare, LeaveToReview, ReportOnly, Render, vars
  <1>. QED BY <1>1, <1>2, <1>3 DEF Next

\* A page is a list of records of the source.
LEMMA PageIsList ==
    ASSUME CaseInv, PagingInv
    PROVE  served \in Seq(Raw) /\ PageOf(served, page, case.source.size) \in Seq(Raw)
  <1> DEFINE size == case.source.size
  <1>1. served \in Seq(Raw)
    BY CaseIsAsAssumed DEF PagingInv
  <1>2. size \in Nat /\ page \in Nat \ {0} /\ Len(served) \in Nat
    BY <1>1, SourceIsList DEF PagingInv
  <1>3. page * size \in Nat /\ (page - 1) * size \in Nat
    BY <1>2
  <1> DEFINE m == (page - 1) * size + 1
             n == Min({page * size, Len(served)})
  <1>4. n \in Nat /\ n <= Len(served)
    <2>1. n = IF page * size <= Len(served) THEN page * size ELSE Len(served)
      BY <1>2, <1>3, SmallerOfTwo
    <2> HIDE DEF n
    <2>. QED BY <2>1, <1>2, <1>3
  <1>5. m \in Nat /\ m >= 1
    BY <1>3
  <1> HIDE DEF m, n
  <1>6. \A i \in m .. n : served[i] \in Raw
    BY <1>1, <1>4, <1>5
  <1>7. SubSeq(served, m, n) \in Seq(Raw)
    BY <1>4, <1>5, <1>6, SubSeqProperties
  <1>. QED BY <1>1, <1>7 DEF PageOf, m, n

\* Pages are pages of the source's records; the records are counted before they are taken.
LEMMA FetchedStep == CaseInv /\ PagingInv /\ FetchedInv /\ [Next]_vars => FetchedInv'
  <1> SUFFICES ASSUME CaseInv, PagingInv, FetchedInv, [Next]_vars PROVE FetchedInv'
    OBVIOUS
  <1> DEFINE R == Raw
             T == StandardRows
             N == case.source.maxRecords
  <1>0. case' = case => R' = R /\ T' = T /\ N' = N
    BY DEF Raw, StandardRows
  <1> HIDE DEF R, T, N
  <1>a. /\ stage \in {"fetch", "canonicalize"} \/ (stage = "inspect" /\ round = 1) => fetched \in Seq(R)
        /\ fetched \in Seq(R \cup T)
        /\ stage \in {"validate", "compare", "settle", "manual_review", "report_only", "completed"} \/ round = 2 =>
              fetched \in Seq(T)
        /\ stage \in {"canonicalize", "validate", "compare", "settle", "manual_review", "report_only", "completed"}
              \/ round = 2 => Len(fetched) <= N
    BY DEF FetchedInv, R, T, N
  <1>b. SUFFICES
        /\ case' = case
        /\ stage' \in {"fetch", "canonicalize"} \/ (stage' = "inspect" /\ round' = 1) => fetched' \in Seq(R)
        /\ fetched' \in Seq(R \cup T)
        /\ stage' \in {"validate", "compare", "settle", "manual_review", "report_only", "completed"} \/ round' = 2 =>
              fetched' \in Seq(T)
        /\ stage' \in {"canonicalize", "validate", "compare", "settle", "manual_review", "report_only", "completed"}
              \/ round' = 2 => Len(fetched') <= N
    BY <1>0 DEF FetchedInv, R, T, N
  <1>c. round \in {1, 2} /\ (round = 2 => stage \notin {"fetch", "canonicalize", "validate"})
    BY DEF PagingInv
  <1>1. CASE Inspect
    BY <1>1, <1>a, <1>c DEF Inspect
  <1>2. CASE ServerChanges
    BY <1>2, <1>a DEF ServerChanges
  <1>3. CASE ReadPage
    <2> DEFINE answer == IF case.source.size = 0 THEN served ELSE PageOf(served, page, case.source.size)
    <2>1. /\ stage = "fetch" /\ fetched' = fetched \o answer /\ case' = case /\ round' = round
          /\ stage' \in {"fetch", "failed"} \/ (stage' = "canonicalize" /\ Len(fetched') <= N)
      BY <1>3 DEF ReadPage, N
    <2>2. answer \in Seq(R)
      BY PageIsList DEF R
    <2> HIDE DEF answer
    <2>3. fetched' \in Seq(R) /\ fetched' \in Seq(R \cup T)
      BY <1>a, <2>1, <2>2
    <2>. QED BY <1>c, <2>1, <2>3
  <1>4. CASE RequestFails
    BY <1>4, <1>a, <1>c DEF RequestFails
  <1>5. CASE Canonicalize
    <2>1. /\ stage = "canonicalize" /\ case' = case /\ round' = round
          /\ \/ stage' = "failed" /\ fetched' = fetched
             \/ stage' = "validate" /\ fetched' = [i \in DOMAIN fetched |-> CanonicalRow(case.rule, fetched[i])]
      BY <1>5 DEF Canonicalize
    <2>2. fetched \in Seq(R) /\ Len(fetched) <= N /\ round = 1
      BY <1>a, <1>c, <2>1
    <2>3. \A i \in DOMAIN fetched : CanonicalRow(case.rule, fetched[i]) \in T
      <3>1. \A i \in DOMAIN fetched : fetched[i] \in Raw
        BY <2>2 DEF R
      <3>. QED BY <3>1 DEF T, StandardRows
    <2>4. ASSUME fetched' = [i \in DOMAIN fetched |-> CanonicalRow(case.rule, fetched[i])]
          PROVE  fetched' \in Seq(T) /\ Len(fetched') = Len(fetched) /\ fetched' \in Seq(R \cup T)
      <3> DEFINE g == fetched'
      <3>1. DOMAIN fetched = 1 .. Len(fetched) /\ Len(fetched) \in Nat
        BY <2>2
      <3>2. g \in [1 .. Len(fetched) -> T]
        BY <2>3, <2>4, <3>1
      <3> HIDE DEF g
      <3>3. g \in Seq(T) /\ Len(g) = Len(fetched)
        BY <3>1, <3>2
      <3>4. g \in Seq(R \cup T)
        BY <3>3
      <3>. QED BY <3>3, <3>4 DEF g
    <2>. QED BY <1>a, <2>1, <2>2, <2>4
  <1>6. CASE Validate
    BY <1>6, <1>a, <1>c DEF Validate
  <1>7. CASE CompareSheet
    BY <1>7, <1>a, <1>c DEF CompareSheet
  <1>8. CASE NoSheetToCompare
    BY <1>8, <1>a, <1>c DEF NoSheetToCompare
  <1>9. CASE LeaveToReview \/ ReportOnly \/ Render
    BY <1>9, <1>a, <1>c DEF LeaveToReview, ReportOnly, Render
  <1>10. CASE AuditResult
    BY <1>10, <1>a, <1>c DEF AuditResult
  <1>11. CASE UNCHANGED vars
    BY <1>11, <1>a DEF vars
  <1>. QED BY <1>1, <1>2, <1>3, <1>4, <1>5, <1>6, <1>7, <1>8, <1>9, <1>10, <1>11 DEF Next

LEMMA RowsInvHolds == Spec => []RowsInv
  <1>1. CaseInv /\ Init => SheetInv /\ FetchedInv /\ ProgressInv /\ PlanInv
    <2> SUFFICES ASSUME CaseInv, Init PROVE SheetInv /\ FetchedInv /\ ProgressInv /\ PlanInv
      OBVIOUS
    <2>1. SheetInv
      BY CaseSheetIsRectangle, CaseIsAsAssumed DEF Init, SheetInv
    <2>2. FetchedInv
      BY DEF Init, FetchedInv
    <2>3. ProgressInv
      <3>1. case.source.maxPages \in Nat \ {0}
        BY CaseIsAsAssumed
      <3>. QED BY <3>1 DEF Init, ProgressInv, Stages, Final
    <2>4. PlanInv
      BY DEF Init, PlanInv, Nothing, Finding
    <2>. QED BY <2>1, <2>2, <2>3, <2>4
  <1>2. CaseInv /\ PagingInv /\ FetchedInv /\ [Next]_vars => FetchedInv'
    BY FetchedStep
  <1>3. CaseInv /\ ProgressInv /\ [Next]_vars => ProgressInv'
    BY ProgressStep
  <1>4. StandardInv /\ PlanInv /\ [Next]_vars => PlanInv'
    BY PlanStep
  <1>5. CaseInv /\ SheetInv /\ FetchedInv /\ PlanInv /\ [Next]_vars => SheetInv'
    BY SheetStep
  <1>. QED BY <1>1, <1>2, <1>3, <1>4, <1>5, CaseInvHolds, AuditInvariantHolds, PTL
           DEF Spec, AuditInvariant, RowsInv

\* The types of a run: the stages, the limits of paging, worksheets that stay rectangles and
\* records that stay lists of the source's, with a plan whose repairs are on the worksheet or
\* right below it, in both rounds, whatever is rendered in between
\* (service.AuditService.run, standard_sources.ManagedHttpSource.fetch_with_metadata).
THEOREM AuditTypes == Spec => []TypeOK
  <1>1. RowsInv => TypeOK
    <2> SUFFICES ASSUME RowsInv PROVE TypeOK
      OBVIOUS
    <2>1. PICK n \in Nat, w \in Nat : \E C : Rectangle(sheet.grid, n, w, C)
      BY DEF RowsInv, SheetInv
    <2>2. PICK C : Rectangle(sheet.grid, n, w, C)
      BY <2>1
    <2>3. RowsOfRepairs(finding.repairs, n, n + Len(fetched))
      BY <2>2, PlanIsPlaced DEF RowsInv
    <2>4. Len(sheet.grid) = n /\ DOMAIN sheet.grid = 1 .. n
      BY <2>2 DEF Rectangle
    <2>5. DOMAIN fetched = 1 .. Len(fetched)
      <3>1. PICK S : fetched \in Seq(S)
        BY DEF RowsInv, FetchedInv
      <3>. QED BY <3>1
    <2>. QED BY <2>3, <2>4, <2>5 DEF RowsInv, ProgressInv, PagingInv, RowsOfRepairs, TypeOK
  <1>. QED BY <1>1, RowsInvHolds, PTL

-----------------------------------------------------------------------------
(* What a render leaves: the cells it may not change, and keys of appended *)
(* rows that no row had.                                                   *)

\* A cell that is written before the insertions is one the rule lets a render change.
LEMMA WriteMayChange ==
    ASSUME NEW rule, NEW sh, NEW n \in Nat, NEW w \in Nat, NEW C, Rectangle(sh.grid, n, w, C),
           NEW header \in 1 .. n, NEW v, v = Scope(rule, sh, header), DataRows(v) \subseteq 1 .. n,
           NEW std, NEW mode, NEW o, Authorised(v, std, mode, o), o.type = "set_cell"
    PROVE  MayChange(v, o.row, o.column)
  <1>1. CASE RenamesHeader(v, o)
    BY <1>1 DEF RenamesHeader, MayChange
  <1>2. CASE WritesCell(v, o)
    <2>1. PICK r \in ExcelRecords(v), f \in Fields(v.rule) : HasColumn(v, f) /\ CellWrite(v, f, r, o)
      BY <1>2 DEF WritesCell
    <2>2. r \in 1 .. n /\ f.name \in DOMAIN v.columns
      BY <2>1 DEF ExcelRecords, KeyedRows, HasColumn
    <2>3. Get(v.record[r], f.name) = v.sheet.grid[r][v.columns[f.name]]
      <3> DEFINE name == f.name
      <3> HIDE DEF name
      <3>1. r \in 1 .. n /\ name \in DOMAIN v.columns
        BY <2>2 DEF name
      <3>2. RecordHolds(v, r, name)
        BY <3>1, CellOfRecord
      <3>. QED BY <3>2 DEF name, RecordHolds
    <2>4. v.sheet = sh
      BY DEF Scope
    <2>5. /\ o.row = r /\ o.column = v.columns[f.name]
          /\ v.sheet.grid[r][o.column] \notin Formulas
          /\ v.rule.overwrite \/ (v.sheet.grid[r][o.column] \in Blanks /\ (v.rule.fill \/ f.default # None))
      BY <2>1, <2>3, <2>4 DEF CellWrite, MayWrite
    <2>. QED BY <2>1, <2>2, <2>5 DEF MayChange
  <1>3. ~WritesField(v, o) /\ ~SetsFormat(v, o) /\ ~AppendsRecord(v, std, mode, o)
    BY DEF WritesField, FieldWrite, SetsFormat, AppendsRecord
  <1>. QED BY <1>1, <1>2, <1>3 DEF Authorised

\* The cell is where the insertions moved it.
CellIsKept(v, sh, out, r, c) == out[r][ShiftedColumn(v, c)] = sh.grid[r][c]

\* A render leaves the cells it may not change as they were, in the columns they moved to.
LEMMA CellsAreKept ==
    ASSUME NEW rule, NEW sh, NEW n \in Nat, NEW w \in Nat, NEW C, Rectangle(sh.grid, n, w, C),
           NEW header, NEW v, v = Scope(rule, sh, header), DataRows(v) \subseteq 1 .. n,
           LaidOut(v, rule, sh, header, n, w),
           NEW std, NEW mode, NEW plan, \A o \in plan.repairs : Authorised(v, std, mode, o),
           NEW N, Placed(plan, n, N), \A o \in Repairs(plan, "set_field") : o.field \in DOMAIN FinalColumns(v),
           NEW m, NEW D, NEW g1, NEW g2, NEW g3, NEW out, Phases(v, plan, n, w, m, D, g1, g2, g3, out),
           NEW r \in 1 .. n, NEW c \in 1 .. w, ~MayChange(v, r, c)
    PROVE  CellIsKept(v, sh, out, r, c)
  <1> DEFINE plans == InsertPlans(v, v.columns)
             K == FinalColumns(v)
             W == w + Cardinality(plans)
             cells == CellWrites(v, plan)
             fields == FieldWrites(plan, K)
             rows == RowWrites(v, plan, K)
             at == ShiftedColumn(v, c)
  <1> HIDE DEF plans, K, W, cells, fields, rows, at
  <1>1. /\ Overwrites(sh.grid, cells, n, w, n, g1) /\ Widened(v, plans, g1, n, w, D, g2)
        /\ Overwrites(g2, fields, n, W, n, g3) /\ Overwrites(g3, rows, n, W, m, out)
    <2>1. v.sheet = sh
      BY DEF Scope
    <2>. QED BY <2>1 DEF Phases, plans, K, W, cells, fields, rows
  <1>2. at = c + Upto(plans, c)
    BY DEF ShiftedColumn, Upto, at, plans
  <1>3. at \in 1 .. W
    BY <1>2 DEF LaidOut, Layout, plans, W
  <1>4. \A o \in cells : ~CellAt(o, r, c)
    <2>1. ASSUME NEW o \in Repairs(plan, "set_cell"), o.row = r, o.column = c PROVE FALSE
      <3>1. Authorised(v, std, mode, o) /\ o.type = "set_cell"
        BY DEF Repairs
      <3>2. header \in 1 .. n
        BY DEF LaidOut
      <3>3. MayChange(v, o.row, o.column)
        BY <3>1, <3>2, WriteMayChange
      <3>. QED BY <2>1, <3>3
    <2>. QED BY <2>1 DEF cells, CellWrites, SetCell, CellAt
  <1>5. \A o \in fields : ~CellAt(o, r, at)
    <2>1. ASSUME NEW o \in Repairs(plan, "set_field") PROVE K[o.field] # at
      <3>1. Authorised(v, std, mode, o) /\ o.type = "set_field"
        BY DEF Repairs
      <3>2. WritesField(v, o)
        BY <3>1 DEF Authorised, RenamesHeader, WritesCell, CellWrite, SetsFormat, AppendsRecord
      <3>3. o.field \notin DOMAIN v.columns
        BY <3>2 DEF WritesField, FieldWrite, HasColumn
      <3>4. o.field \in DOMAIN K
        BY DEF K
      <3>5. Apart(v, w, K)
        BY DEF LaidOut, K
      <3>. QED BY <3>3, <3>4, <3>5 DEF Apart, at
    <2>. QED BY <2>1 DEF fields, FieldWrites, SetCell, CellAt
  <1>6. \A o \in rows : ~CellAt(o, r, at)
    <2>1. ASSUME NEW o \in Repairs(plan, "append_record"), NEW x \in RecordCells(AppendValues(v, o), K)
          PROVE  x.row # r
      <3>1. o.row \in n + 1 .. N
        BY DEF Placed
      <3>2. x.row = o.row
        <4>1. AppendValues(v, o).row = o.row
          BY DEF AppendValues, AppendRecord
        <4>. QED BY <4>1 DEF RecordCells, SetCell
      <3>. QED BY <3>1, <3>2
    <2>. QED BY <2>1 DEF rows, RowWrites, CellAt
  <1>7. g1[r][c] = sh.grid[r][c]
    BY <1>1, <1>4 DEF Overwrites
  <1>8. g2[r][at] = g1[r][c]
    BY <1>1, <1>2 DEF Widened
  <1>9. g3[r][at] = g2[r][at]
    BY <1>1, <1>3, <1>5 DEF Overwrites
  <1>10. out[r][at] = g3[r][at]
    <2>1. r \in 1 .. m
      BY <1>1 DEF Overwrites
    <2>. QED BY <1>1, <1>3, <1>6, <2>1 DEF Overwrites
  <1>. QED BY <1>7, <1>8, <1>9, <1>10 DEF at, CellIsKept

\* A header stays the one it was, or becomes the title of its field; an insertion's is its
\* field's title.
LEMMA HeaderIsKept ==
    ASSUME NEW rule, NEW sh, NEW n \in Nat, NEW w \in Nat,
           NEW header, NEW v, LaidOut(v, rule, sh, header, n, w), DataRows(v) \subseteq 1 .. n,
           \A r \in DataRows(v) : r # header,
           NEW std, NEW mode, NEW plan, \A o \in plan.repairs : Authorised(v, std, mode, o),
           NEW N, Placed(plan, n, N),
           NEW m, NEW D, NEW g1, NEW g2, NEW g3, NEW out, Phases(v, plan, n, w, m, D, g1, g2, g3, out)
    PROVE  Headed(v, w, out[header])
  <1> DEFINE plans == InsertPlans(v, v.columns)
             K == FinalColumns(v)
             W == w + Cardinality(plans)
             cells == CellWrites(v, plan)
             fields == FieldWrites(plan, K)
             rows == RowWrites(v, plan, K)
             at(c) == ShiftedColumn(v, c)
  <1> HIDE DEF plans, K, W, cells, fields, rows, at
  <1>1. v.sheet = sh /\ v.header = header /\ v.rule = rule /\ header \in 1 .. n
    BY DEF LaidOut, ScopeOn
  <1>2. /\ Overwrites(sh.grid, cells, n, w, n, g1) /\ Widened(v, plans, g1, n, w, D, g2)
        /\ Overwrites(g2, fields, n, W, n, g3) /\ Overwrites(g3, rows, n, W, m, out)
    BY <1>1 DEF Phases, plans, K, W, cells, fields, rows
  <1>3. \A c : at(c) = c + Upto(plans, c)
    BY DEF ShiftedColumn, Upto, at, plans
  <1>4. \A c \in 1 .. w : at(c) \in 1 .. W
    BY <1>3 DEF LaidOut, Layout, plans, W
  <1>5. \A o \in fields : o.row # header
    <2>1. ASSUME NEW o \in Repairs(plan, "set_field") PROVE o.row # header
      <3>1. Authorised(v, std, mode, o) /\ o.type = "set_field"
        BY DEF Repairs
      <3>2. WritesField(v, o)
        BY <3>1 DEF Authorised, RenamesHeader, WritesCell, CellWrite, SetsFormat, AppendsRecord
      <3>3. o.row \in DataRows(v)
        BY <3>2 DEF WritesField, FieldWrite, ExcelRecords, KeyedRows
      <3>. QED BY <3>3
    <2>. QED BY <2>1 DEF fields, FieldWrites, SetCell
  <1>6. \A o \in rows : o.row # header
    <2>1. ASSUME NEW o \in Repairs(plan, "append_record"), NEW x \in RecordCells(AppendValues(v, o), K)
          PROVE  x.row # header
      <3>1. o.row \in n + 1 .. N
        BY DEF Placed
      <3>2. x.row = o.row
        <4>1. AppendValues(v, o).row = o.row
          BY DEF AppendValues, AppendRecord
        <4>. QED BY <4>1 DEF RecordCells, SetCell
      <3>. QED BY <1>1, <3>1, <3>2
    <2>. QED BY <2>1 DEF rows, RowWrites
  <1>7. ASSUME NEW d \in 1 .. W PROVE out[header][d] = g2[header][d]
    <2>1. g3[header][d] = g2[header][d]
      BY <1>1, <1>2, <1>5 DEF Overwrites, CellAt
    <2>2. header \in 1 .. m
      BY <1>1, <1>2 DEF Overwrites
    <2>3. out[header][d] = g3[header][d]
      BY <1>1, <1>2, <1>6, <2>2 DEF Overwrites, CellAt
    <2>. QED BY <2>1, <2>3
  <1>8. ASSUME NEW c \in 1 .. w
        PROVE  \/ g1[header][c] = sh.grid[header][c]
               \/ c \in Renamed(v) /\ g1[header][c] = FieldNamed(v.rule, v.mapping[c].field).title
    <2>1. CASE \A o \in cells : ~CellAt(o, header, c)
      BY <1>1, <1>2, <2>1 DEF Overwrites
    <2>2. CASE \E o \in cells : CellAt(o, header, c)
      <3>1. PICK x \in cells : CellAt(x, header, c) /\ g1[header][c] = x.value
        BY <1>1, <1>2, <2>2 DEF Overwrites
      <3>2. PICK o \in Repairs(plan, "set_cell") : x = SetCell(o.row, o.column, CellValue(v, o))
        BY DEF cells, CellWrites
      <3>3. o.row = header /\ o.column = c /\ x.value = o.value
        BY <1>1, <3>1, <3>2 DEF SetCell, CellAt, CellValue
      <3>4. Authorised(v, std, mode, o) /\ o.type = "set_cell"
        BY DEF Repairs
      <3>5. ~WritesCell(v, o)
        BY <3>3 DEF WritesCell, CellWrite, ExcelRecords, KeyedRows
      <3>6. RenamesHeader(v, o)
        BY <3>4, <3>5 DEF Authorised, WritesField, FieldWrite, SetsFormat, AppendsRecord
      <3>. QED BY <3>1, <3>3, <3>6 DEF RenamesHeader
    <2>. QED BY <2>1, <2>2
  <1>9. ASSUME NEW c \in 1 .. w PROVE out[header][at(c)] = g1[header][c]
    <2>1. out[header][at(c)] = g2[header][at(c)]
      BY <1>4, <1>7
    <2>2. g2[header][at(c)] = g1[header][c]
      BY <1>1, <1>2, <1>3 DEF Widened
    <2>. QED BY <2>1, <2>2
  <1>10. ASSUME NEW p \in plans PROVE out[header][Spot(plans, p)] = v.rule.columns[p.index].title
    <2>1. Spot(plans, p) \in 1 .. W /\ g2[header][Spot(plans, p)] = InsertedValue(v, p, header)
      BY <1>1, <1>2 DEF Widened, W
    <2>2. InsertedValue(v, p, header) = v.rule.columns[p.index].title
      BY <1>1 DEF InsertedValue
    <2>. QED BY <1>7, <2>1, <2>2
  <1>. QED BY <1>1, <1>8, <1>9, <1>10 DEF Headed, at, plans

\* A missing record has a row of its own.
Ordered(v, std, mode) == \A i \in Missing(v, std, mode) : KeyOrder(StandardKey(v.rule, std, i), mode.polars) \in Int

LEMMA OneRecordOfAppendedRow ==
    ASSUME NEW v, Len(v.sheet.grid) \in Nat, NEW S, NEW std \in Seq(S), NEW mode, Ordered(v, std, mode),
           NEW o, AppendsRecord(v, std, mode, o), NEW p, AppendsRecord(v, std, mode, p), o.row = p.row
    PROVE  o = p
  <1> DEFINE missing == Missing(v, std, mode)
             row == AppendRow(v, std, mode.polars, missing)
  <1>1. IsFiniteSet(missing) /\ missing \subseteq Int
    <2>1. missing \subseteq 1 .. Len(std) /\ IsFiniteSet(missing)
      BY MissingAreRecords
    <2>2. Len(std) \in Nat
      OBVIOUS
    <2> HIDE DEF missing
    <2>. QED BY <2>1, <2>2
  <1>2. TakesRows(v, std, mode.polars, missing, row)
    BY <1>1, RowsAreTaken
  <1>3. \A i \in missing : KeyOrder(StandardKey(v.rule, std, i), mode.polars) \in Int
    BY DEF Ordered
  <1>4. PICK i \in missing : Appendable(v, std, i, row[i]) /\ o = AppendRecord(row[i], WriteRecord(v, std[i]))
    BY DEF AppendsRecord
  <1>5. PICK j \in missing : Appendable(v, std, j, row[j]) /\ p = AppendRecord(row[j], WriteRecord(v, std[j]))
    BY DEF AppendsRecord
  <1> HIDE DEF missing, row
  <1>6. row[i] = row[j]
    BY <1>4, <1>5 DEF AppendRecord
  <1>7. i = j
    BY <1>1, <1>2, <1>3, <1>4, <1>5, <1>6, RowsAreApart
  <1>. QED BY <1>4, <1>5, <1>7

\* The record an appended row was written from, when the row has a key: the same record
\* for every field of it.
KeyFrom(v, std, i, row, columns) ==
    \A name \in v.rule.key :
        row[columns[name]] = Stored(WriteValue(Get(std[i], name), FieldNamed(v.rule, name)))

NoRowHas(v, std, i) ==
    OneSpelling(v, std) => \A q \in KeyedRows(v) : ~SameKey(ExcelKey(v, q), StandardKey(v.rule, std, i))

OfOneRecord(v, std, mode, row, columns) ==
    \E i \in Missing(v, std, mode) : NoRowHas(v, std, i) /\ KeyFrom(v, std, i, row, columns)

\* A row below the worksheet whose key cells are not blank was appended from one record.
LEMMA KeyIsOfOneRecord ==
    ASSUME NEW rule, AllowedRule(rule), NEW sh, NEW n \in Nat, NEW w \in Nat, NEW header, NEW v,
           LaidOut(v, rule, sh, header, n, w), rule.key # {}, rule.key \subseteq DOMAIN v.columns,
           NEW S, NEW std \in Seq(S), NEW mode, Ordered(v, std, mode),
           NEW plan, \A o \in plan.repairs : Authorised(v, std, mode, o),
           NEW m, NEW D, NEW g1, NEW g2, NEW g3, NEW out, Phases(v, plan, n, w, m, D, g1, g2, g3, out),
           NEW r \in n + 1 .. m, \A name \in rule.key : out[r][FinalColumns(v)[name]] # None
    PROVE  OfOneRecord(v, std, mode, out[r], FinalColumns(v))
  <1> DEFINE K == FinalColumns(v)
  <1> HIDE DEF K
  <1>1. v.rule = rule /\ Len(v.sheet.grid) \in Nat
    BY DEF LaidOut, ScopeOn
  <1>2. ASSUME NEW name \in rule.key
        PROVE  \E o \in Repairs(plan, "append_record") :
                  /\ o.row = r /\ name \in DOMAIN o.values
                  /\ out[r][K[name]] = AppendValues(v, o).values[name]
    <2>1. name \in DOMAIN v.columns /\ out[r][FinalColumns(v)[name]] # None
      OBVIOUS
    <2>2. AppendedFrom(v, plan, r, name, out[r][FinalColumns(v)[name]])
      BY <2>1, AppendedCell
    <2>. QED BY <2>2 DEF K, AppendedFrom
  <1>3. \A o \in Repairs(plan, "append_record") : AppendsRecord(v, std, mode, o)
    <2>1. ASSUME NEW o \in Repairs(plan, "append_record") PROVE AppendsRecord(v, std, mode, o)
      <3>1. Authorised(v, std, mode, o) /\ o.type = "append_record"
        BY DEF Repairs
      <3>. QED BY <3>1 DEF Authorised, RenamesHeader, WritesCell, CellWrite, WritesField, FieldWrite, SetsFormat
    <2>. QED BY <2>1
  <1>4. PICK o \in Repairs(plan, "append_record") : o.row = r
    BY <1>2
  <1>5. ASSUME NEW p \in Repairs(plan, "append_record"), p.row = r PROVE p = o
    <2>1. AppendsRecord(v, std, mode, p) /\ AppendsRecord(v, std, mode, o) /\ p.row = o.row
      BY <1>3, <1>4, <1>5
    <2>. QED BY <1>1, <2>1, OneRecordOfAppendedRow
  <1>6. PICK i \in Missing(v, std, mode) :
            /\ o = AppendRecord(AppendRow(v, std, mode.polars, Missing(v, std, mode))[i], WriteRecord(v, std[i]))
            /\ NoRowHas(v, std, i)
    BY <1>3 DEF AppendsRecord, NoRowHas
  <1>7. ASSUME NEW name \in rule.key
        PROVE  out[r][K[name]] = Stored(WriteValue(Get(std[i], name), FieldNamed(rule, name)))
    <2>1. name \in DOMAIN o.values /\ out[r][K[name]] = AppendValues(v, o).values[name]
      BY <1>2, <1>5
    <2>2. ~FieldNamed(rule, name).template /\ \E f \in Fields(rule) : f.name = name
      BY KeyFields
    <2>3. AppendValues(v, o).values[name] = Stored(o.values[name])
      BY <1>1, <2>1, <2>2 DEF AppendValues, AppendRecord
    <2>4. o.values = WriteRecord(v, std[i])
      BY <1>6 DEF AppendRecord
    <2>5. o.values[name] = WriteValue(Get(std[i], name), FieldNamed(rule, name))
      BY <1>1, <2>2, <2>4 DEF WriteRecord
    <2>. QED BY <2>1, <2>3, <2>5
  <1>. QED BY <1>1, <1>6, <1>7 DEF OfOneRecord, KeyFrom, K

\* The scope of the sheet a render leaves: every column where it moved to, and the rows of
\* data begin where they did.
LEMMA RenderedScope ==
    ASSUME NEW rule, AllowedRule(rule), NEW sh, NEW n \in Nat, NEW w \in Nat, NEW header, NEW v,
           v = Scope(rule, sh, header), LaidOut(v, rule, sh, header, n, w), ComparesRecords(v),
           DOMAIN sh.grid[header] = 1 .. w, DataRows(v) \subseteq 1 .. n, \A r \in DataRows(v) : r # header,
           NEW std, NEW mode, NEW plan, \A o \in plan.repairs : Authorised(v, std, mode, o),
           NEW N, Placed(plan, n, N),
           NEW m, NEW D, NEW g1, NEW g2, NEW g3, NEW out, Phases(v, plan, n, w, m, D, g1, g2, g3, out),
           NEW sh1, sh1.grid = out, NEW x, x = Scope(rule, sh1, header)
    PROVE  ReadsRows(v, x, out, m)
  <1> DEFINE plans == InsertPlans(v, v.columns)
             W == w + Cardinality(plans)
             row == out[header]
  <1>1. x.rule = v.rule /\ x.start = v.start /\ x.sheet = sh1 /\ x.columns = Columns(MapHeaders(rule, row))
    BY DEF Scope
  <1>2. W \in Nat
    <2>1. IsFiniteSet(plans)
      BY DEF LaidOut, Plans
    <2>2. Cardinality(plans) \in Nat
      BY <2>1, FS_CardinalityType
    <2>. QED BY <2>2
  <1>3. Rectangle(out, m, W, D) /\ m \in Nat /\ m >= n
    BY DEF Phases, Overwrites
  <1>4. header \in 1 .. m
    BY <1>3 DEF LaidOut
  <1> HIDE DEF W, row
  <1>5. DOMAIN row = 1 .. W
    <2>1. row \in Seq(D) /\ Len(row) = W
      BY <1>3, <1>4 DEF Rectangle, row
    <2>. QED BY <2>1
  <1>6. Headed(v, w, row)
    BY HeaderIsKept DEF row
  <1>7. ASSUME NEW name \in DOMAIN v.columns
        PROVE  name \in DOMAIN x.columns /\ x.columns[name] = FinalColumns(v)[name]
    <2>1. ColumnIs(rule, row, name, FinalColumns(v)[name])
      BY <1>5, <1>6, ColumnsAreKept DEF W
    <2>. QED BY <1>1, <2>1 DEF ColumnIs
  <1>8. ASSUME NEW name \in DOMAIN v.columns, NEW r \in 1 .. m
        PROVE  Get(x.record[r], name) = out[r][FinalColumns(v)[name]]
    <2>1. Rectangle(sh1.grid, m, W, D) /\ name \in DOMAIN x.columns
      BY <1>3, <1>7
    <2>2. RecordHolds(x, r, name)
      BY <1>2, <1>3, <1>4, <2>1, CellOfRecord
    <2>. QED BY <1>1, <1>7, <2>2 DEF RecordHolds
  <1>. QED BY <1>1, <1>8 DEF ReadsRows

\* The key of a rendered row is not that of a row of the worksheet.
KeyIsNew(v, x, r, q) == ~SameKey(ExcelKey(x, r), ExcelKey(v, q))

\* A row that was appended has, read again, the key of its record, which no row had.
LEMMA AppendedKeyIsNew ==
    ASSUME NEW rule, AllowedRule(rule), rule.startRow \in Nat, NEW sh, NEW n \in Nat, NEW w \in Nat,
           NEW header, NEW v, v = Scope(rule, sh, header), LaidOut(v, rule, sh, header, n, w),
           ComparesRecords(v), DataRows(v) \subseteq 1 .. n,
           NEW S, NEW std \in Seq(S), NEW mode, Ordered(v, std, mode), OneSpelling(v, std),
           NEW plan, \A o \in plan.repairs : Authorised(v, std, mode, o),
           NEW m, NEW D, NEW g1, NEW g2, NEW g3, NEW out, Phases(v, plan, n, w, m, D, g1, g2, g3, out),
           NEW x, ReadsRows(v, x, out, m),
           NEW r \in n + 1 .. m, NEW q \in KeyedRows(v)
    PROVE  KeyIsNew(v, x, r, q)
  <1> SUFFICES ~SameKey(ExcelKey(x, r), ExcelKey(v, q))
    BY DEF KeyIsNew
  <1>0. x.rule = rule /\ x.start = v.start
    BY DEF ReadsRows, Scope
  <1>1. v.rule = rule /\ v.start \in Int
    BY DEF Scope, LaidOut
  <1>2. q \in 1 .. n /\ m \in Nat
    BY DEF KeyedRows, Phases, Overwrites
  <1>3. r \in Int /\ q \in Int /\ r > q /\ r \in 1 .. m
    BY <1>2
  <1>4. rule.keyMode = "fields" <=> rule.key # {}
    BY DEF AllowedRule, AllowedKey
  <1>5. CASE rule.keyMode = "row_number"
    <2>1. ExcelKey(x, r) = RowKey(r) /\ ExcelKey(v, q) = RowKey(q)
      BY <1>0, <1>1, <1>5 DEF ExcelKey
    <2>. QED BY <1>3, <2>1 DEF RowKey, Key, SameKey
  <1>6. CASE rule.keyMode # "row_number" /\ ~(rule.keyMode = "fields" /\ HasKey(rule, x.record[r]))
    <2>1. ExcelKey(x, r) = FallbackKey(r - v.start + 1)
      BY <1>0, <1>6 DEF ExcelKey
    <2>2. ExcelKey(v, q) \in {FieldKey(rule, v.record[q]), FallbackKey(q - v.start + 1)}
      BY <1>1, <1>6 DEF ExcelKey
    <2>3. r - v.start + 1 # q - v.start + 1
      BY <1>1, <1>3
    <2>. QED BY <2>1, <2>2, <2>3 DEF FallbackKey, FieldKey, Key, SameKey
  <1>7. CASE rule.keyMode = "fields" /\ HasKey(rule, x.record[r])
    <2>1. rule.key # {} /\ rule.key \subseteq DOMAIN v.columns
      BY <1>1, <1>4, <1>7 DEF ComparesRecords
    <2>2. ASSUME NEW name \in rule.key
          PROVE  /\ Get(x.record[r], name) = out[r][FinalColumns(v)[name]]
                 /\ out[r][FinalColumns(v)[name]] # None
      <3>1. Get(x.record[r], name) = out[r][FinalColumns(v)[name]]
        BY <1>3, <2>1 DEF ReadsRows
      <3>2. Parse(Get(x.record[r], name), FieldNamed(rule, name)).value # None
        BY <1>7 DEF HasKey
      <3>3. FieldNamed(rule, name).formula = "reject"
        BY KeyFields
      <3>4. Parse(None, FieldNamed(rule, name)).value = None
        BY <3>3, CellsAssumption DEF Parse, Parsed
      <3>. QED BY <3>1, <3>2, <3>4
    <2>3. \A name \in rule.key : out[r][FinalColumns(v)[name]] # None
      BY <2>2
    <2>4. PICK i \in Missing(v, std, mode) :
              NoRowHas(v, std, i) /\ KeyFrom(v, std, i, out[r], FinalColumns(v))
      <3>1. OfOneRecord(v, std, mode, out[r], FinalColumns(v))
        BY <2>1, <2>3, KeyIsOfOneRecord
      <3>. QED BY <3>1 DEF OfOneRecord
    <2>5. \A name \in rule.key :
              Get(x.record[r], name) = Stored(WriteValue(Get(std[i], name), FieldNamed(rule, name)))
      BY <1>1, <2>2, <2>4 DEF KeyFrom
    <2>6. HasKey(rule, std[i]) /\ SameKey(FieldKey(rule, x.record[r]), FieldKey(rule, std[i]))
      <3> DEFINE record == x.record[r]
                 other == std[i]
      <3>1. HasKey(rule, record)
        BY <1>7
      <3>2. \A name \in rule.key : Get(record, name) = Stored(WriteValue(Get(other, name), FieldNamed(rule, name)))
        BY <2>5
      <3> HIDE DEF record, other
      <3>3. HasKey(rule, other) /\ SameKey(FieldKey(rule, record), FieldKey(rule, other))
        BY <3>1, <3>2, KeyIsReadBack
      <3>. QED BY <3>3 DEF record, other
    <2>7. ExcelKey(x, r) = FieldKey(rule, x.record[r]) /\ StandardKey(rule, std, i) = FieldKey(rule, std[i])
      BY <1>0, <1>7, <2>6 DEF ExcelKey, StandardKey
    <2>8. ~SameKey(ExcelKey(v, q), StandardKey(rule, std, i))
      BY <1>1, <2>4 DEF NoRowHas
    <2>. QED BY <2>6, <2>7, <2>8 DEF SameKey
  <1>. QED BY <1>5, <1>6, <1>7

\* The standard records of a run have keys with a place in the order they sort in.
LEMMA RecordsAreOrdered ==
    ASSUME CaseInv, FetchedInv, Settling
    PROVE  Ordered(Here, fetched, case.mode)
  <1>1. PICK about \in DOMAIN Cases : case \in Cases[about]
    BY DEF CaseInv
  <1> DEFINE polars == case.mode.polars
  <1>0. polars \in BOOLEAN
    BY <1>1, CasesAssumption
  <1>2. \A key \in CaseKeys(case) : KeyOrder(key, polars) \in Int
    BY <1>0, <1>1, CasesAssumption
  <1>3. case.source.maxRecords \in Nat
    BY <1>1, CasesAssumption
  <1>4. Here.rule = case.rule
    BY DEF Here, ScopeOf, Scope
  <1>5. fetched \in Seq(StandardRows) /\ Len(fetched) <= case.source.maxRecords
    BY DEF FetchedInv, Settling
  <1> DEFINE rule == case.rule
             std == {CanonicalRow(rule, z) : z \in Range(case.source.records) \cup Range(case.source.later)}
  <1>6. StandardRows = std
    BY DEF StandardRows, Raw
  <1>7. ASSUME NEW i \in Missing(Here, fetched, case.mode)
        PROVE  KeyOrder(StandardKey(rule, fetched, i), polars) \in Int
    <2>1. i \in DOMAIN fetched /\ HasStandardKey(rule, fetched[i])
      BY <1>4 DEF Missing, JoinKeys, StandardRecords
    <2> HIDE DEF std
    <2>2. fetched[i] \in std /\ i \in 1 .. case.source.maxRecords
      BY <1>3, <1>5, <1>6, <2>1
    <2> DEFINE record == fetched[i]
    <2>3. record \in std /\ HasStandardKey(rule, record)
      BY <2>1, <2>2
    <2>4. CASE rule.keyMode = "row_number"
      <3>1. "row" \in DOMAIN record /\ StandardKey(rule, fetched, i) = RowKey(record.row)
        BY <2>3, <2>4 DEF HasStandardKey, StandardKey
      <3>2. CaseKeys(case) = {RowKey(z.row) : z \in {y \in std : "row" \in DOMAIN y}}
        BY <2>4 DEF CaseKeys, std
      <3> HIDE DEF record
      <3>3. RowKey(record.row) \in CaseKeys(case)
        BY <2>3, <3>1, <3>2
      <3>. QED BY <1>2, <3>1, <3>3
    <2>5. CASE rule.keyMode # "row_number"
      <3>1. CaseKeys(case) = {FieldKey(rule, z) : z \in {y \in std : HasKey(rule, y)}}
                                \cup {FallbackKey(j) : j \in 1 .. case.source.maxRecords}
        BY <2>5 DEF CaseKeys, std
      <3>2. \/ HasKey(rule, record) /\ StandardKey(rule, fetched, i) = FieldKey(rule, record)
            \/ StandardKey(rule, fetched, i) = FallbackKey(i)
        BY <2>5 DEF StandardKey
      <3> HIDE DEF record
      <3>3. HasKey(rule, record) => FieldKey(rule, record) \in CaseKeys(case)
        BY <2>3, <3>1
      <3>4. FallbackKey(i) \in CaseKeys(case)
        BY <2>2, <3>1
      <3>. QED BY <1>2, <3>2, <3>3, <3>4
    <2>. QED BY <2>4, <2>5
  <1>. QED BY <1>4, <1>7 DEF Ordered

\* The two things a render promises.
KeepsCells(v, plan) ==
    \A r \in DOMAIN v.sheet.grid : \A c \in DOMAIN v.sheet.grid[r] :
        \/ RenderManifest(v, plan).grid[r][ShiftedColumn(v, c)] = v.sheet.grid[r][c]
        \/ MayChange(v, r, c)

AppendsNewKeys(v, std, plan, out, x) ==
    Len(out) > Len(v.sheet.grid) /\ OneSpelling(v, std) =>
        /\ v.rule.append
        /\ \A r \in Len(v.sheet.grid) + 1 .. Len(out) : \A q \in KeyedRows(v) :
              ~SameKey(ExcelKey(x, r), ExcelKey(v, q))

\* A render of an authorised plan keeps the cells it may not change and appends new keys.
LEMMA RenderIsAuthorised ==
    ASSUME NEW rule, AllowedRule(rule), rule.columns \in Seq(Range(rule.columns)), rule.startRow \in Nat,
           NEW sh, {"grid", "odd"} \subseteq DOMAIN sh, NEW n \in Nat, NEW w \in Nat, NEW C,
           Rectangle(sh.grid, n, w, C), NEW header \in 1 .. n,
           rule.startRow # 0 => rule.startRow > header, NEW v, v = Scope(rule, sh, header),
           NEW S, NEW std \in Seq(S), NEW mode, Ordered(v, std, mode),
           NEW plan, \A o \in plan.repairs : Authorised(v, std, mode, o),
           NEW N \in Nat, Placed(plan, n, N),
           ~ComparesRecords(v) => Repairs(plan, "append_record") = {},
           RenderManifest(v, plan).ok
    PROVE  /\ KeepsCells(v, plan)
           /\ AppendsNewKeys(v, std, plan, RenderManifest(v, plan).grid,
                             Scope(rule, RenderedSheet(v, plan), header))
  <1> DEFINE out == RenderManifest(v, plan).grid
             sh1 == RenderedSheet(v, plan)
             x == Scope(rule, sh1, header)
  <1>1. v.sheet = sh /\ v.rule = rule /\ DOMAIN sh.grid = 1 .. n /\ Len(sh.grid) = n
    BY DEF Scope, Rectangle
  <1>2. LaidOut(v, rule, sh, header, n, w)
    BY ScopeIsLaidOut
  <1>3. DataRows(v) \subseteq 1 .. n
    BY DataRowsAreRows
  <1>4. \A r \in DataRows(v) : r # header
    <2>1. v.start \in Int /\ v.start > header
      BY DEF Scope
    <2>. QED BY <1>1, <2>1 DEF DataRows
  <1>5. \A o \in Repairs(plan, "set_field") : o.field \in DOMAIN FinalColumns(v)
    BY DEF RenderManifest, RenderFailed
  <1>6. PICK m, D, g1, g2, g3 : Phases(v, plan, n, w, m, D, g1, g2, g3, out)
    BY ManifestPhases
  <1>7. sh1.grid = out
    BY <1>1 DEF RenderedSheet
  <1>8. x.rule = rule
    BY DEF Scope
  <1>9. DOMAIN sh.grid[header] = 1 .. w
    BY DEF Rectangle
  <1> HIDE DEF out, sh1
  <1>10. m \in Nat /\ m >= n /\ Len(out) = m
    BY <1>6 DEF Phases, Overwrites, Rectangle
  <1>11. KeepsCells(v, plan)
    <2>1. ASSUME NEW r \in 1 .. n, NEW c \in 1 .. w, ~MayChange(v, r, c)
          PROVE  out[r][ShiftedColumn(v, c)] = sh.grid[r][c]
      <3>1. CellIsKept(v, sh, out, r, c)
        BY <1>2, <1>3, <1>5, <1>6, <2>1, CellsAreKept
      <3>. QED BY <3>1 DEF CellIsKept
    <2>2. \A r \in 1 .. n : DOMAIN sh.grid[r] = 1 .. w
      BY DEF Rectangle
    <2>. QED BY <1>1, <2>1, <2>2 DEF KeepsCells, out
  <1>12. ASSUME m > n PROVE \E o \in Repairs(plan, "append_record") : TRUE
    <2>1. \E y \in RowWrites(v, plan, FinalColumns(v)) : TRUE
      BY <1>6, <1>12 DEF Phases, Overwrites
    <2>. QED BY <2>1 DEF RowWrites
  <1>13. ASSUME m > n PROVE rule.append /\ ComparesRecords(v)
    <2>1. PICK o \in Repairs(plan, "append_record") : TRUE
      BY <1>12, <1>13
    <2>2. Authorised(v, std, mode, o) /\ o.type = "append_record"
      BY DEF Repairs
    <2>3. AppendsRecord(v, std, mode, o)
      BY <2>2 DEF Authorised, RenamesHeader, WritesCell, CellWrite, WritesField, FieldWrite, SetsFormat
    <2>. QED BY <1>1, <2>1, <2>3 DEF AppendsRecord
  <1>14. ASSUME OneSpelling(v, std), NEW r \in n + 1 .. m, NEW q \in KeyedRows(v)
         PROVE  ~SameKey(ExcelKey(x, r), ExcelKey(v, q))
    <2>1. ComparesRecords(v)
      BY <1>10, <1>13, <1>14
    <2>2. ReadsRows(v, x, out, m)
      BY <1>2, <1>3, <1>4, <1>6, <1>7, <1>9, <2>1, RenderedScope
    <2> HIDE DEF x
    <2>3. KeyIsNew(v, x, r, q)
      BY <1>2, <1>3, <1>6, <1>14, <2>1, <2>2, AppendedKeyIsNew
    <2>. QED BY <2>3 DEF KeyIsNew
  <1> HIDE DEF x
  <1>15. AppendsNewKeys(v, std, plan, out, x)
    BY <1>1, <1>10, <1>13, <1>14 DEF AppendsNewKeys
  <1>. QED BY <1>11, <1>15 DEF out, sh1, x

\* A rendered worksheet differs from the one that was audited, up to the columns inserted,
\* only in cells the rule lets a repair change, and the key of an appended row, read back
\* from the workbook, is one no row had, for any rule, worksheet and records
\* (engine._header_differences, _compare_records, _append_display_format_repair; the phases of
\* src/services/excel_renderer/Program.cs).
THEOREM RepairsAuthorised == Spec => []RepairsAreAuthorised
  <1>1. RowsInv /\ FindingInv /\ PlanIsAuthorised => RepairsAreAuthorised
    <2> SUFFICES ASSUME RowsInv, FindingInv, PlanIsAuthorised, Renders, RenderManifest(Here, finding).ok
                 PROVE  /\ KeepsCells(Here, finding)
                        /\ AppendsNewKeys(Here, fetched, finding, RenderManifest(Here, finding).grid,
                                          Scope(Here.rule, RenderedSheet(Here, finding), Here.header))
      <3>1. Here.sheet = sheet
        BY DEF Here, ScopeOf, Scope
      <3>2. \A v : \A q \in DataRows(v) : RowClass(v, q) = "keyed" => q \in KeyedRows(v)
        BY DEF KeyedRows
      <3>. QED BY <3>1, <3>2 DEF RepairsAreAuthorised, KeepsCells, AppendsNewKeys
    <2> DEFINE rule == case.rule
               v == Here
               std == fetched
               mode == case.mode
               plan == finding
               sh == sheet
    <2>1. Settling /\ HasScope(rule, sh)
      BY DEF Renders, Settling
    <2>2. PICK n \in Nat, w \in Nat : \E C : \E header \in 1 .. n :
              Rectangle(sh.grid, n, w, C) /\ v = Scope(rule, sh, header)
      BY <2>1, HereIsScope DEF RowsInv
    <2>3. PICK C : \E header \in 1 .. n : Rectangle(sh.grid, n, w, C) /\ v = Scope(rule, sh, header)
      BY <2>2
    <2>4. PICK header \in 1 .. n : Rectangle(sh.grid, n, w, C) /\ v = Scope(rule, sh, header)
      BY <2>3
    <2>5. v.rule = rule /\ v.header = header
      BY <2>4 DEF Scope
    <2>6. rule.startRow # 0 => rule.startRow > header
      <3>1. v.header = LocateHeaderRow(rule, sh.grid)
        BY DEF Here, ScopeOf, Scope
      <3>. QED BY <2>1, <2>5, <3>1 DEF HasScope
    <2>7. AllowedRule(rule) /\ rule.columns \in Seq(Range(rule.columns)) /\ rule.startRow \in Nat
      BY CaseIsAsAssumed DEF RowsInv
    <2>8. {"grid", "odd"} \subseteq DOMAIN sh
      BY DEF RowsInv, SheetInv
    <2>9. PICK S : std \in Seq(S)
      BY DEF RowsInv, FetchedInv
    <2>10. Ordered(v, std, mode)
      BY <2>1, RecordsAreOrdered DEF RowsInv
    <2>11. \A o \in plan.repairs : Authorised(v, std, mode, o)
      BY <2>1 DEF PlanIsAuthorised
    <2>12. Placed(plan, n, n + Len(std)) /\ n + Len(std) \in Nat
      <3>1. RowsOfRepairs(plan.repairs, n, n + Len(std)) /\ Len(std) \in Nat
        BY <2>4, PlanIsPlaced DEF RowsInv
      <3>. QED BY <3>1, PlacedIfRows
    <2>13. ~ComparesRecords(v) => Repairs(plan, "append_record") = {}
      <3> SUFFICES ASSUME ~ComparesRecords(v) PROVE Repairs(plan, "append_record") = {}
        OBVIOUS
      <3>1. plan = Compare(v, std, mode)
        BY <2>1 DEF FindingInv
      <3>2. plan.repairs = HeaderRepairs(v)
        BY <3>1 DEF Compare, Together, Finding
      <3>. QED BY <3>2 DEF HeaderRepairs, SetCell, Repairs
    <2>14. RenderManifest(v, plan).ok
      OBVIOUS
    <2> HIDE DEF rule, v, std, mode, plan, sh
    <2> DEFINE N == n + Len(std)
               out == RenderManifest(v, plan).grid
               x == Scope(rule, RenderedSheet(v, plan), header)
    <2>15. Placed(plan, n, N) /\ N \in Nat
      BY <2>12
    <2> HIDE DEF N
    <2>16. KeepsCells(v, plan) /\ AppendsNewKeys(v, std, plan, out, x)
      BY <2>4, <2>6, <2>7, <2>8, <2>9, <2>10, <2>11, <2>13, <2>14, <2>15, RenderIsAuthorised
    <2>. QED BY <2>5, <2>16 DEF v, plan, std
  <1>2. AuditInvariant => FindingInv
    BY DEF AuditInvariant
  <1>. QED BY <1>1, <1>2, RowsInvHolds, AuditInvariantHolds, PlannedRepairsAuthorised, PTL

-----------------------------------------------------------------------------
(* One writer of every cell.                                                *)

\* Two repairs of one kind meet in a cell, in a field of a row, or in an appended row.
SamePlace(o, p) ==
    /\ o.type = p.type /\ o.row = p.row
    /\ o.type \in {"set_cell", "set_number_format"} => o.column = p.column
    /\ o.type = "set_field" => o.field = p.field
WritesOnce(repairs) == \A o, p \in repairs : SamePlace(o, p) => o = p

\* The findings of one field of a row: of a row that is extra, or of one with its record.
CellFindings(v, f, r, std, mode) ==
    {ExtraCell(v, f, r) : x \in {y \in {r} : y \in Extra(v, std, mode) /\ HasColumn(v, f)}}
    \cup {IF HasColumn(v, f) THEN MatchedCell(v, f, r, std[p[2]]) ELSE InsertedCell(v, f, r, std[p[2]]) :
             p \in {q \in Joined(v, std, mode) : q[1] = r}}
OfField(v, f, r, std, mode, o) ==
    \E x \in CellFindings(v, f, r, std, mode) : o \in x.repairs

\* A finding of one cell plans one repair at most.
LEMMA OneDefault ==
    ASSUME NEW f, NEW r, NEW c, NEW write
    PROVE  FillDefault(f, r, c, write).repairs \subseteq {write}
  BY DEF FillDefault, Finding, Says

LEMMA OneOfExtraCell ==
    ASSUME NEW v, NEW f, NEW r
    PROVE  \E z : ExtraCell(v, f, r).repairs \subseteq {z}
  <1> DEFINE write == SetCell(r, v.columns[f.name], WriteValue(f.default, f))
  <1>1. Nothing.repairs \subseteq {write}
    BY DEF Nothing, Finding
  <1>2. FillDefault(f, r, v.columns[f.name], write).repairs \subseteq {write}
    BY OneDefault
  <1>. QED BY <1>1, <1>2 DEF ExtraCell

LEMMA OneOfInsertedCell ==
    ASSUME NEW v, NEW f, NEW r, NEW record
    PROVE  \E z : InsertedCell(v, f, r, record).repairs \subseteq {z}
  <1> DEFINE write(cell) == SetField(r, f.name, WriteValue(cell, f))
             one(S) == \E z : S \subseteq {z}
  <1>1. one(Nothing.repairs) /\ \A note : one(Says(note).repairs)
    BY DEF Nothing, Says, Finding
  <1>2. one(FillDefault(f, r, 0, write(f.default)).repairs)
    BY OneDefault
  <1>3. \A notes : one(Finding(notes, {write(Get(record, f.name))}).repairs)
    BY DEF Finding
  <1>4. one(InsertedCell(v, f, r, record).repairs)
    <2> HIDE DEF one
    <2>. QED BY <1>1, <1>2, <1>3 DEF InsertedCell
  <1>. QED BY <1>4

LEMMA OneOfMismatchedCell ==
    ASSUME NEW v, NEW f, NEW r, NEW isFormula, NEW left, NEW cell
    PROVE  \E z : MismatchedCell(v, f, r, isFormula, left, cell).repairs \subseteq {z}
  <1> DEFINE write == SetCell(r, v.columns[f.name], WriteValue(cell, f))
  <1>1. MismatchedCell(v, f, r, isFormula, left, cell).repairs \subseteq {write}
    BY DEF MismatchedCell, Says, Finding
  <1>. QED BY <1>1

LEMMA OneOfMatchedCell ==
    ASSUME NEW v, NEW f, NEW r, NEW record
    PROVE  \E z : MatchedCell(v, f, r, record).repairs \subseteq {z}
  <1> DEFINE one(S) == \E z : S \subseteq {z}
  <1>1. one(Nothing.repairs) /\ \A note : one(Says(note).repairs)
    BY DEF Nothing, Says, Finding
  <1>2. one(FillDefault(f, r, v.columns[f.name], SetCell(r, v.columns[f.name], WriteValue(f.default, f))).repairs)
    BY OneDefault
  <1>3. \A isFormula, left, cell : one(MismatchedCell(v, f, r, isFormula, left, cell).repairs)
    BY OneOfMismatchedCell
  <1>4. one(MatchedCell(v, f, r, record).repairs)
    <2> HIDE DEF one
    <2>. QED BY <1>1, <1>2, <1>3, Zenon DEF MatchedCell
  <1>. QED BY <1>4

\* A row is extra or joined with one record.
LEMMA OneFindingOfCell ==
    ASSUME NEW v, NEW std, Valid(v, std), NEW mode, NEW f, NEW r,
           NEW x \in CellFindings(v, f, r, std, mode), NEW y \in CellFindings(v, f, r, std, mode)
    PROVE  x = y
  <1> DEFINE extra == r \in Extra(v, std, mode)
             cell(i) == IF HasColumn(v, f) THEN MatchedCell(v, f, r, std[i]) ELSE InsertedCell(v, f, r, std[i])
  <1>1. ASSUME NEW p \in Joined(v, std, mode), p[1] = r PROVE ~extra
    BY <1>1 DEF Extra
  <1>2. ASSUME NEW p \in Joined(v, std, mode), NEW q \in Joined(v, std, mode), p[1] = r, q[1] = r
        PROVE  p[2] = q[2]
    <2>1. /\ p[2] \in KeyedRecords(v, std) /\ SameKey(ExcelKey(v, r), StandardKey(v.rule, std, p[2]))
          /\ q[2] \in KeyedRecords(v, std) /\ SameKey(ExcelKey(v, r), StandardKey(v.rule, std, q[2]))
      BY <1>2, JoinedIsSame
    <2>. QED BY <2>1, OneRecordOfRow
  <1>3. ASSUME NEW z \in CellFindings(v, f, r, std, mode)
        PROVE  \/ extra /\ z = ExtraCell(v, f, r)
               \/ \E p \in Joined(v, std, mode) : p[1] = r /\ z = cell(p[2])
    BY <1>3 DEF CellFindings
  <1> HIDE DEF extra, cell
  <1>. QED BY <1>1, <1>2, <1>3

\* One field of a row gets one repair at most.
LEMMA OneOfField ==
    ASSUME NEW v, NEW std, Valid(v, std), NEW mode, NEW f, NEW r,
           NEW o, OfField(v, f, r, std, mode, o), NEW p, OfField(v, f, r, std, mode, p)
    PROVE  o = p
  <1>1. PICK x \in CellFindings(v, f, r, std, mode) : o \in x.repairs /\ p \in x.repairs
    BY OneFindingOfCell DEF OfField
  <1>2. \E z : x.repairs \subseteq {z}
    BY OneOfExtraCell, OneOfMatchedCell, OneOfInsertedCell DEF CellFindings
  <1>. QED BY <1>1, <1>2

\* What a repair of a field writes: its cell, or the cell of the column that is inserted.
LEMMA FieldIsWritten ==
    ASSUME NEW v, NEW std, NEW mode, NEW f \in Fields(v.rule), NEW r, NEW o, OfField(v, f, r, std, mode, o)
    PROVE  IF HasColumn(v, f) THEN CellWrite(v, f, r, o) ELSE FieldWrite(v, f, r, o)
  BY ExtraCellPlanned, MatchedCellPlanned, InsertedCellPlanned DEF OfField, CellFindings

\* Where the repairs of a comparison come from.
RepairOrigin(v, std, mode, o) ==
    \/ o \in HeaderRepairs(v)
    \/ \E r \in ExcelRecords(v) : \E f \in Fields(v.rule) : OfField(v, f, r, std, mode, o)
    \/ SetsFormat(v, o)
    \/ AppendsRecord(v, std, mode, o)

\* A repair of a row is one of a field of it.
LEMMA RowOrigin ==
    ASSUME NEW v, NEW std, NEW mode, NEW r \in ExcelRecords(v), NEW o,
           \/ r \in Extra(v, std, mode) /\ o \in ExtraRow(v, r).repairs
           \/ \E p \in Joined(v, std, mode) : p[1] = r /\ o \in MatchedRow(v, r, std[p[2]]).repairs
    PROVE  \E f \in Fields(v.rule) : OfField(v, f, r, std, mode, o)
  <1>1. CASE r \in Extra(v, std, mode) /\ o \in ExtraRow(v, r).repairs
    <2> DEFINE cells == {ExtraCell(v, f, r) : f \in {g \in Fields(v.rule) : HasColumn(v, g)}}
               said  == Says(Note("extra_record", r, 0, None))
    <2>1. ExtraRow(v, r).repairs = UNION {x.repairs : x \in {said} \cup cells}
      BY DEF ExtraRow, Together, Finding
    <2>2. said.repairs = {}
      BY DEF Says, Finding
    <2> HIDE DEF said
    <2>3. PICK f \in Fields(v.rule) : HasColumn(v, f) /\ o \in ExtraCell(v, f, r).repairs
      BY <1>1, <2>1, <2>2
    <2>4. ExtraCell(v, f, r) \in CellFindings(v, f, r, std, mode)
      BY <1>1, <2>3 DEF CellFindings
    <2>. QED BY <2>3, <2>4 DEF OfField
  <1>2. ASSUME NEW p \in Joined(v, std, mode), p[1] = r, o \in MatchedRow(v, r, std[p[2]]).repairs
        PROVE  \E f \in Fields(v.rule) : OfField(v, f, r, std, mode, o)
    <2>1. PICK f \in Fields(v.rule) :
              o \in (IF HasColumn(v, f) THEN MatchedCell(v, f, r, std[p[2]])
                     ELSE InsertedCell(v, f, r, std[p[2]])).repairs
      BY <1>2 DEF MatchedRow, Together, Finding
    <2>2. (IF HasColumn(v, f) THEN MatchedCell(v, f, r, std[p[2]]) ELSE InsertedCell(v, f, r, std[p[2]]))
              \in CellFindings(v, f, r, std, mode)
      BY <1>2 DEF CellFindings
    <2>. QED BY <2>1, <2>2 DEF OfField
  <1>. QED BY <1>1, <1>2

\* Every repair of a comparison comes from a header, a field of a row, a format or a record.
LEMMA RepairsHaveOrigin ==
    ASSUME NEW v, NEW std, Valid(v, std), NEW mode, ComparesRecords(v) => ~KeyLost(v, std, mode),
           NEW o \in Compare(v, std, mode).repairs
    PROVE  RepairOrigin(v, std, mode, o)
  <1> DEFINE record  == RecordFinding(v, std, mode)
             extra   == {ExtraRow(v, r) : r \in Extra(v, std, mode)}
             matched == {MatchedRow(v, p[1], std[p[2]]) : p \in Matched(v, std, mode)}
             fixed   == {Finding(KeyNotes(v), {}), ValidateRows(v), MissingRecords(v, std, mode)}
             header  == Finding(HeaderNotes(v), HeaderRepairs(v))
             written == \E r \in ExcelRecords(v) : \E f \in Fields(v.rule) : OfField(v, f, r, std, mode, o)
  <1>1. Compare(v, std, mode).repairs
            = UNION {x.repairs : x \in {header} \cup IF ComparesRecords(v) THEN {record} ELSE {}}
    BY DEF Compare, Together, Finding
  <1>2. record.repairs = UNION {x.repairs : x \in fixed \cup extra \cup matched}
    BY DEF RecordFinding, Together, Finding
  <1>3. header.repairs = HeaderRepairs(v)
    BY DEF Finding
  <1>4. ASSUME NEW x \in extra, o \in x.repairs PROVE written
    <2>1. PICK r \in Extra(v, std, mode) : o \in ExtraRow(v, r).repairs
      BY <1>4
    <2>2. r \in ExcelRecords(v)
      BY DEF Extra
    <2>. QED BY <2>1, <2>2, RowOrigin
  <1>5. ASSUME ComparesRecords(v), NEW x \in matched, o \in x.repairs PROVE written
    <2>1. PICK p \in Joined(v, std, mode) : o \in MatchedRow(v, p[1], std[p[2]]).repairs
      BY <1>5, MatchedIsJoined
    <2>2. p[1] \in ExcelRecords(v)
      BY JoinedIsSame
    <2>. QED BY <2>1, <2>2, RowOrigin
  <1>6. ASSUME NEW x \in fixed, o \in x.repairs PROVE SetsFormat(v, o) \/ AppendsRecord(v, std, mode, o)
    <2>1. Finding(KeyNotes(v), {}).repairs = {}
      BY DEF Finding
    <2>. QED BY <1>6, <2>1, ValidationPlanned, MissingPlanned
  <1> HIDE DEF record, extra, matched, fixed, header, written
  <1>7. o \in HeaderRepairs(v) \/ written \/ SetsFormat(v, o) \/ AppendsRecord(v, std, mode, o)
    BY <1>1, <1>2, <1>3, <1>4, <1>5, <1>6
  <1>. QED BY <1>7 DEF RepairOrigin, written

\* No two repairs of a comparison meet: a row has one record, and a record one row.
LEMMA ComparedOnce ==
    ASSUME NEW rule, AllowedRule(rule), NEW sh, NEW n \in Nat, NEW w \in Nat, NEW C,
           Rectangle(sh.grid, n, w, C), NEW header \in 1 .. n, NEW v, v = Scope(rule, sh, header),
           \A r \in DataRows(v) : r # header,
           NEW S, NEW std \in Seq(S), Valid(v, std), NEW mode, Ordered(v, std, mode),
           ComparesRecords(v) => ~KeyLost(v, std, mode)
    PROVE  WritesOnce(Compare(v, std, mode).repairs)
  <1>1. ScopeOn(v, rule, sh, header, n, w)
    BY ScopeColumns
  <1>2. v.rule = rule /\ v.header = header /\ Len(v.sheet.grid) \in Nat
    BY <1>1 DEF ScopeOn
  <1>3. \A f, g \in DOMAIN v.columns : v.columns[f] = v.columns[g] => f = g
    BY <1>1 DEF ScopeOn
  <1>4. \A r \in ExcelRecords(v) : r # header
    BY DEF ExcelRecords, KeyedRows
  <1> SUFFICES ASSUME NEW o \in Compare(v, std, mode).repairs, NEW p \in Compare(v, std, mode).repairs,
                      SamePlace(o, p)
               PROVE  o = p
    BY DEF WritesOnce
  <1>5. RepairOrigin(v, std, mode, o) /\ RepairOrigin(v, std, mode, p)
    BY RepairsHaveOrigin
  <1> DEFINE written(z) == \E r \in ExcelRecords(v) : \E f \in Fields(v.rule) : OfField(v, f, r, std, mode, z)
  <1>6. ASSUME NEW z, z \in HeaderRepairs(v)
        PROVE  /\ z.type = "set_cell" /\ z.row = header
               /\ z = SetCell(header, z.column, FieldNamed(rule, v.mapping[z.column].field).title)
    BY <1>2, <1>6 DEF HeaderRepairs, SetCell
  <1>7. ASSUME NEW z, written(z) PROVE z.row # header /\ z.type \in {"set_cell", "set_field"}
    <2>1. PICK r \in ExcelRecords(v), f \in Fields(v.rule) : OfField(v, f, r, std, mode, z)
      BY <1>7
    <2>2. IF HasColumn(v, f) THEN CellWrite(v, f, r, z) ELSE FieldWrite(v, f, r, z)
      BY <2>1, FieldIsWritten
    <2>. QED BY <1>4, <2>2 DEF CellWrite, FieldWrite
  <1>8. ASSUME written(o), written(p) PROVE o = p
    <2>1. PICK r \in ExcelRecords(v), f \in Fields(v.rule) : OfField(v, f, r, std, mode, o)
      BY <1>8
    <2>2. PICK q \in ExcelRecords(v), g \in Fields(v.rule) : OfField(v, g, q, std, mode, p)
      BY <1>8
    <2>3. /\ IF HasColumn(v, f) THEN CellWrite(v, f, r, o) ELSE FieldWrite(v, f, r, o)
          /\ IF HasColumn(v, g) THEN CellWrite(v, g, q, p) ELSE FieldWrite(v, g, q, p)
      BY <2>1, <2>2, FieldIsWritten
    <2>4. r = q /\ f.name = g.name
      BY <1>3, <2>3 DEF CellWrite, FieldWrite, SamePlace, HasColumn
    <2>5. f = g
      BY <1>2, <2>4, OneName
    <2>. QED BY <2>1, <2>2, <2>4, <2>5, OneOfField
  <1>9. ASSUME NEW z, SetsFormat(v, z) PROVE z.type = "set_number_format" /\ z = SetFormat(z.row, z.column)
    BY <1>9 DEF SetsFormat
  <1>10. ASSUME NEW z, AppendsRecord(v, std, mode, z) PROVE z.type = "append_record"
    BY <1>10 DEF AppendsRecord
  <1>11. o \in HeaderRepairs(v) \/ written(o) \/ SetsFormat(v, o) \/ AppendsRecord(v, std, mode, o)
    BY <1>5 DEF RepairOrigin
  <1>12. p \in HeaderRepairs(v) \/ written(p) \/ SetsFormat(v, p) \/ AppendsRecord(v, std, mode, p)
    BY <1>5 DEF RepairOrigin
  <1> HIDE DEF written
  <1>13. CASE o.type = "append_record"
    <2>1. AppendsRecord(v, std, mode, o) /\ AppendsRecord(v, std, mode, p) /\ o.row = p.row
      BY <1>6, <1>7, <1>9, <1>11, <1>12, <1>13 DEF SamePlace
    <2>. QED BY <1>2, <2>1, OneRecordOfAppendedRow
  <1>14. CASE o.type = "set_number_format"
    <2>1. SetsFormat(v, o) /\ SetsFormat(v, p)
      BY <1>6, <1>7, <1>10, <1>11, <1>12, <1>14 DEF SamePlace
    <2>. QED BY <1>9, <1>14, <2>1 DEF SamePlace
  <1>15. CASE o.type \in {"set_cell", "set_field"}
    <2>1. \/ o \in HeaderRepairs(v) /\ p \in HeaderRepairs(v)
          \/ written(o) /\ written(p)
      BY <1>6, <1>7, <1>9, <1>10, <1>11, <1>12, <1>15 DEF SamePlace
    <2>2. CASE o \in HeaderRepairs(v) /\ p \in HeaderRepairs(v)
      BY <1>6, <2>2 DEF SamePlace
    <2>. QED BY <1>8, <2>1, <2>2
  <1>. QED BY <1>6, <1>7, <1>9, <1>10, <1>11, <1>13, <1>14, <1>15

\* The repairs that are planned for a worksheet.
PlanWritesOnce == Settling => WritesOnce(finding.repairs)

\* No two repairs of a plan write one cell, one field of a row or one new row, so that the
\* order in which a renderer takes them does not tell, for any rule, worksheet and records
\* (engine._header_differences, _compare_records; service._manifest).
THEOREM PlansWriteOnce == Spec => []PlanWritesOnce
  <1>1. RowsInv /\ AuditInvariant => PlanWritesOnce
    <2> SUFFICES ASSUME RowsInv, AuditInvariant, Settling PROVE WritesOnce(finding.repairs)
      BY DEF PlanWritesOnce
    <2> DEFINE rule == case.rule
               v == Here
               header == LocateHeaderRow(rule, sheet.grid)
    <2>1. HasScope(rule, sheet)
      BY DEF Settling
    <2>2. PICK n \in Nat, w \in Nat : \E C : Rectangle(sheet.grid, n, w, C)
      BY DEF RowsInv, SheetInv
    <2>3. PICK C : Rectangle(sheet.grid, n, w, C)
      BY <2>2
    <2>4. header \in 1 .. n /\ v = Scope(rule, sheet, header) /\ v.rule = rule
      BY <2>1, <2>3, HeaderIsARow DEF Rectangle, Here, ScopeOf, Scope
    <2>5. rule.startRow \in Nat /\ AllowedRule(rule)
      BY CaseIsAsAssumed DEF RowsInv
    <2>6. \A r \in DataRows(v) : r # header
      <3>1. v.start \in Int /\ v.start > header
        BY <2>1, <2>4, <2>5 DEF Scope, HasScope
      <3>. QED BY <3>1 DEF DataRows
    <2>7. PICK S : fetched \in Seq(S)
      BY DEF RowsInv, FetchedInv
    <2>8. Valid(v, fetched)
      BY <2>4 DEF AuditInvariant, StandardInv, Settling, Valid
    <2>9. ComparesRecords(v) => ~KeyLost(v, fetched, case.mode)
      BY DEF AuditInvariant, FindingInv, Settling
    <2>10. finding = Compare(v, fetched, case.mode)
      BY DEF AuditInvariant, FindingInv, Settling
    <2>11. Ordered(v, fetched, case.mode)
      BY RecordsAreOrdered DEF RowsInv
    <2> HIDE DEF v, rule, header
    <2>12. WritesOnce(Compare(v, fetched, case.mode).repairs)
      BY <2>3, <2>4, <2>5, <2>6, <2>7, <2>8, <2>9, <2>11, ComparedOnce
    <2>. QED BY <2>10, <2>12
  <1>. QED BY <1>1, RowsInvHolds, AuditInvariantHolds, PTL

-----------------------------------------------------------------------------
(* Two renderers.  Grids that are written alike stay alike.                 *)

\* Cells that are stored as one value.
Alike(a, b) == Stored(a) = Stored(b)
AlikeGrids(g, h, n, w) == \A r \in 1 .. n : \A c \in 1 .. w : Alike(g[r][c], h[r][c])
AlikeWrites(A, B) ==
    /\ \A a \in A : \E b \in B : CellAt(b, a.row, a.column)
    /\ \A b \in B : \E a \in A : CellAt(a, b.row, b.column)
    /\ \A a \in A : \A b \in B : CellAt(b, a.row, a.column) => Alike(a.value, b.value)

\* A value is stored as what it is stored as.
LEMMA StoredTwice ==
    ASSUME NEW cell
    PROVE  Alike(cell, Stored(cell))
  <1>1. CASE cell \in Numbers
    BY <1>1, CellsAssumption DEF Alike, Stored
  <1>2. CASE cell \notin Numbers
    BY <1>2 DEF Alike, Stored
  <1>. QED BY <1>1, <1>2

\* Writes that are alike leave grids that are alike, of as many rows.
LEMMA OverwrittenAlike ==
    ASSUME NEW n \in Nat, NEW w, NEW g, NEW h, AlikeGrids(g, h, n, w),
           NEW A, NEW B, AlikeWrites(A, B), NEW N, \A a \in A : a.row \in 1 .. N,
           NEW k, NEW l, NEW x, NEW y, Overwrites(g, A, n, w, k, x), Overwrites(h, B, n, w, l, y)
    PROVE  k = l /\ AlikeGrids(x, y, k, w)
  <1>1. k \in Nat /\ l \in Nat /\ k >= n /\ l >= n
    BY DEF Overwrites
  <1>2. k <= l
    <2>1. CASE k = n
      BY <1>1, <2>1
    <2>2. ASSUME NEW a \in A, a.row = k PROVE k <= l
      <3>1. PICK b \in B : CellAt(b, a.row, a.column)
        BY DEF AlikeWrites
      <3>. QED BY <2>2, <3>1 DEF Overwrites, CellAt
    <2>. QED BY <2>1, <2>2 DEF Overwrites
  <1>3. l <= k
    <2>1. CASE l = n
      BY <1>1, <2>1
    <2>2. ASSUME NEW b \in B, b.row = l PROVE l <= k
      <3>1. PICK a \in A : CellAt(a, b.row, b.column)
        BY DEF AlikeWrites
      <3>. QED BY <2>2, <3>1 DEF Overwrites, CellAt
    <2>. QED BY <2>1, <2>2 DEF Overwrites
  <1>4. k = l
    BY <1>1, <1>2, <1>3
  <1>5. ASSUME NEW r \in 1 .. k, NEW c \in 1 .. w PROVE Alike(x[r][c], y[r][c])
    <2>1. CASE \A a \in A : ~CellAt(a, r, c)
      <3>1. \A b \in B : ~CellAt(b, r, c)
        BY <2>1 DEF AlikeWrites, CellAt
      <3>2. /\ x[r][c] = IF r <= n THEN g[r][c] ELSE None
            /\ y[r][c] = IF r <= n THEN h[r][c] ELSE None
        BY <1>4, <2>1, <3>1 DEF Overwrites
      <3>3. CASE r <= n
        <4>1. r \in 1 .. n
          BY <1>1, <3>3
        <4>. QED BY <3>2, <3>3, <4>1 DEF AlikeGrids
      <3>4. CASE ~(r <= n)
        BY <3>2, <3>4 DEF Alike
      <3>. QED BY <3>3, <3>4
    <2>2. CASE \E a \in A : CellAt(a, r, c)
      <3>1. PICK a \in A : CellAt(a, r, c) /\ x[r][c] = a.value
        BY <2>2 DEF Overwrites
      <3>2. \E b \in B : CellAt(b, r, c)
        BY <3>1 DEF AlikeWrites, CellAt
      <3>3. PICK b \in B : CellAt(b, r, c) /\ y[r][c] = b.value
        BY <1>4, <3>2 DEF Overwrites
      <3>4. Alike(a.value, b.value)
        BY <3>1, <3>3 DEF AlikeWrites, CellAt
      <3>. QED BY <3>1, <3>3, <3>4
    <2>. QED BY <2>1, <2>2
  <1>. QED BY <1>4, <1>5 DEF AlikeGrids

\* Insertions of the same columns.
LEMMA WidenedAlike ==
    ASSUME NEW v, NEW n \in Nat, NEW w \in Nat, NEW C, NEW D, NEW T, NEW W, W = w + Cardinality(T), Layout(T, w, W),
           NEW g, NEW h, AlikeGrids(g, h, n, w),
           NEW x, NEW y, Widened(v, T, g, n, w, C, x), Widened(v, T, h, n, w, D, y)
    PROVE  AlikeGrids(x, y, n, W)
  <1> SUFFICES ASSUME NEW r \in 1 .. n, NEW d \in 1 .. W PROVE Alike(x[r][d], y[r][d])
    BY DEF AlikeGrids
  <1>1. CASE \E c \in 1 .. w : d = c + Upto(T, c)
    <2>1. PICK c \in 1 .. w : d = c + Upto(T, c)
      BY <1>1
    <2>2. x[r][d] = g[r][c] /\ y[r][d] = h[r][c]
      BY <2>1 DEF Widened
    <2>. QED BY <2>2 DEF AlikeGrids
  <1>2. CASE \E p \in T : d = Spot(T, p)
    <2>1. PICK p \in T : d = Spot(T, p)
      BY <1>2
    <2>2. x[r][d] = InsertedValue(v, p, r) /\ y[r][d] = InsertedValue(v, p, r)
      BY <2>1 DEF Widened
    <2>. QED BY <2>2 DEF Alike
  <1>. QED BY <1>1, <1>2 DEF Layout

\* Repairs that never meet, written as they are and as they are stored.
LEMMA CellsAlike ==
    ASSUME NEW v, NEW plan, WritesOnce(plan.repairs)
    PROVE  AlikeWrites(Repairs(plan, "set_cell"), CellWrites(v, plan))
  <1> DEFINE A == Repairs(plan, "set_cell")
             B == CellWrites(v, plan)
  <1>1. ASSUME NEW o \in A PROVE CellAt(SetCell(o.row, o.column, CellValue(v, o)), o.row, o.column)
    BY DEF CellAt, SetCell
  <1>2. ASSUME NEW a \in A, NEW b \in B, CellAt(b, a.row, a.column) PROVE Alike(a.value, b.value)
    <2>1. PICK o \in A : b = SetCell(o.row, o.column, CellValue(v, o))
      BY DEF CellWrites
    <2>2. o.row = a.row /\ o.column = a.column /\ b.value = CellValue(v, o)
      BY <1>2, <2>1 DEF CellAt, SetCell
    <2>3. o \in plan.repairs /\ a \in plan.repairs /\ o.type = "set_cell" /\ a.type = "set_cell"
      BY DEF Repairs
    <2>4. o = a
      BY <2>2, <2>3 DEF WritesOnce, SamePlace
    <2>5. Alike(a.value, a.value)
      BY DEF Alike
    <2>. QED BY <2>2, <2>4, <2>5, StoredTwice DEF CellValue
  <1>3. \A a \in A : \E b \in B : CellAt(b, a.row, a.column)
    BY <1>1 DEF CellWrites
  <1>4. \A b \in B : \E a \in A : CellAt(a, b.row, b.column)
    BY DEF CellWrites, SetCell, CellAt
  <1>. QED BY <1>2, <1>3, <1>4 DEF AlikeWrites

\* Where fields have columns of their own.
LEMMA FieldsAlike ==
    ASSUME NEW plan, WritesOnce(plan.repairs), NEW K, \A f, g \in DOMAIN K : K[f] = K[g] => f = g,
           \A o \in Repairs(plan, "set_field") : o.field \in DOMAIN K
    PROVE  AlikeWrites({SetCell(o.row, K[o.field], o.value) : o \in Repairs(plan, "set_field")},
                       FieldWrites(plan, K))
  <1> DEFINE R == Repairs(plan, "set_field")
             A == {SetCell(o.row, K[o.field], o.value) : o \in R}
             B == FieldWrites(plan, K)
  <1>1. ASSUME NEW o \in R
        PROVE  LET a == SetCell(o.row, K[o.field], o.value)
                   b == SetCell(o.row, K[o.field], Stored(o.value))
               IN  a \in A /\ b \in B /\ CellAt(b, a.row, a.column) /\ CellAt(a, b.row, b.column)
    BY DEF CellAt, SetCell, FieldWrites
  <1>2. ASSUME NEW a \in A, NEW b \in B, CellAt(b, a.row, a.column) PROVE Alike(a.value, b.value)
    <2>1. PICK o \in R : a = SetCell(o.row, K[o.field], o.value)
      OBVIOUS
    <2>2. PICK p \in R : b = SetCell(p.row, K[p.field], Stored(p.value))
      BY DEF FieldWrites
    <2>3. o.row = p.row /\ K[o.field] = K[p.field] /\ a.value = o.value /\ b.value = Stored(p.value)
      BY <1>2, <2>1, <2>2 DEF CellAt, SetCell
    <2>4. o.field = p.field
      BY <2>3
    <2>5. o \in plan.repairs /\ p \in plan.repairs /\ o.type = "set_field" /\ p.type = "set_field"
      BY DEF Repairs
    <2>6. o = p
      BY <2>3, <2>4, <2>5 DEF WritesOnce, SamePlace
    <2>. QED BY <2>3, <2>6, StoredTwice
  <1>3. ASSUME NEW a \in A PROVE \E b \in B : CellAt(b, a.row, a.column)
    <2>1. PICK o \in R : a = SetCell(o.row, K[o.field], o.value)
      OBVIOUS
    <2>. QED BY <1>1, <2>1
  <1>4. ASSUME NEW b \in B PROVE \E a \in A : CellAt(a, b.row, b.column)
    <2>1. PICK o \in R : b = SetCell(o.row, K[o.field], Stored(o.value))
      BY DEF FieldWrites
    <2>. QED BY <1>1, <2>1
  <1>. QED BY <1>2, <1>3, <1>4 DEF AlikeWrites

\* Records whose templates hold what the template gives.
LEMMA RecordsAlike ==
    ASSUME NEW v, NEW plan, WritesOnce(plan.repairs), NEW K, \A f, g \in DOMAIN K : K[f] = K[g] => f = g,
           \A o \in Repairs(plan, "append_record") : \A n \in DOMAIN o.values :
                FieldNamed(v.rule, n).template => o.values[n] = FormulaAt(o.row)
    PROVE  AlikeWrites(UNION {RecordCells(o, K) : o \in Repairs(plan, "append_record")}, RowWrites(v, plan, K))
  <1> DEFINE R == Repairs(plan, "append_record")
             A == UNION {RecordCells(o, K) : o \in R}
             B == RowWrites(v, plan, K)
             names(o) == DOMAIN o.values \cap DOMAIN K
             value(o, n) == AppendValues(v, o).values[n]
  <1>1. ASSUME NEW o \in R
        PROVE  /\ AppendValues(v, o).row = o.row /\ DOMAIN AppendValues(v, o).values = DOMAIN o.values
               /\ \A n \in DOMAIN o.values : Alike(o.values[n], value(o, n))
    <2>1. \A n \in DOMAIN o.values :
              value(o, n) = IF FieldNamed(v.rule, n).template THEN FormulaAt(o.row) ELSE Stored(o.values[n])
      BY DEF AppendValues, AppendRecord
    <2>2. \A x : Alike(x, x)
      BY DEF Alike
    <2>3. AppendValues(v, o).row = o.row /\ DOMAIN AppendValues(v, o).values = DOMAIN o.values
      BY DEF AppendValues, AppendRecord
    <2>. QED BY <2>1, <2>2, <2>3, StoredTwice
  <1>2. \A a \in A : \E o \in R : \E n \in names(o) : a = SetCell(o.row, K[n], o.values[n])
    BY DEF RecordCells
  <1>3. \A b \in B : \E o \in R : \E n \in names(o) : b = SetCell(o.row, K[n], value(o, n))
    BY <1>1 DEF RecordCells, RowWrites
  <1>4. \A o \in R : \A n \in names(o) : SetCell(o.row, K[n], o.values[n]) \in A
    BY DEF RecordCells
  <1>5. \A o \in R : \A n \in names(o) : SetCell(o.row, K[n], value(o, n)) \in B
    BY <1>1 DEF RecordCells, RowWrites
  <1>6. ASSUME NEW a \in A, NEW b \in B, CellAt(b, a.row, a.column) PROVE Alike(a.value, b.value)
    <2>1. PICK o \in R : \E n \in names(o) : a = SetCell(o.row, K[n], o.values[n])
      BY <1>2
    <2>2. PICK n \in names(o) : a = SetCell(o.row, K[n], o.values[n])
      BY <2>1
    <2>3. PICK p \in R : \E k \in names(p) : b = SetCell(p.row, K[k], value(p, k))
      BY <1>3
    <2>4. PICK k \in names(p) : b = SetCell(p.row, K[k], value(p, k))
      BY <2>3
    <2> HIDE DEF value, A, B
    <2>5. o.row = p.row /\ K[n] = K[k] /\ a.value = o.values[n] /\ b.value = value(p, k)
      BY <1>6, <2>2, <2>4 DEF CellAt, SetCell
    <2>6. o \in plan.repairs /\ p \in plan.repairs /\ o.type = "append_record" /\ p.type = "append_record"
      BY DEF Repairs
    <2>7. o = p /\ n = k
      BY <2>5, <2>6 DEF WritesOnce, SamePlace
    <2>. QED BY <1>1, <2>5, <2>7
  <1> HIDE DEF A, B, R, value
  <1>7. ASSUME NEW a \in A PROVE \E b \in B : CellAt(b, a.row, a.column)
    <2>1. PICK o \in R : \E n \in names(o) : a = SetCell(o.row, K[n], o.values[n])
      BY <1>2
    <2>2. PICK n \in names(o) : a = SetCell(o.row, K[n], o.values[n])
      BY <2>1
    <2>3. SetCell(o.row, K[n], value(o, n)) \in B
      BY <1>5
    <2>4. CellAt(SetCell(o.row, K[n], value(o, n)), a.row, a.column)
      BY <2>2 DEF SetCell, CellAt
    <2>. QED BY <2>3, <2>4
  <1>8. ASSUME NEW b \in B PROVE \E a \in A : CellAt(a, b.row, b.column)
    <2>1. PICK o \in R : \E n \in names(o) : b = SetCell(o.row, K[n], value(o, n))
      BY <1>3
    <2>2. PICK n \in names(o) : b = SetCell(o.row, K[n], value(o, n))
      BY <2>1
    <2>3. SetCell(o.row, K[n], o.values[n]) \in A
      BY <1>4
    <2>4. CellAt(SetCell(o.row, K[n], o.values[n]), b.row, b.column)
      BY <2>2 DEF SetCell, CellAt
    <2>. QED BY <2>3, <2>4
  <1>9. AlikeWrites(A, B)
    BY <1>6, <1>7, <1>8 DEF AlikeWrites
  <1>. QED BY <1>9 DEF A, B, R

-----------------------------------------------------------------------------
(* The headers the development renderer reads.                              *)

\* Stripped, the headers that are titles of a field are that of the field's column in K.
ReadsAs(rule, headers, K) ==
    /\ DOMAIN K \subseteq {f.name : f \in Fields(rule)} /\ K \in [DOMAIN K -> DOMAIN headers]
    /\ \A d \in DOMAIN headers : \A f \in Fields(rule) :
          Strip(headers[d]) \in Titles(f) <=> f.name \in DOMAIN K /\ K[f.name] = d

\* The largest of one number.
LEMMA MaxOfOne ==
    ASSUME NEW k \in Int
    PROVE  Max({k}) = k
  <1>1. IsFiniteSet({k})
    BY FS_Singleton
  <1>. QED BY <1>1, MaxOfSet

\* Headers that read as K give the development renderer the columns of K.
LEMMA ReadPositions ==
    ASSUME NEW rule, AllowedRule(rule), NEW headers, DOMAIN headers \subseteq Int,
           NEW K, ReadsAs(rule, headers, K)
    PROVE  Positions(rule, headers) = K
  <1> DEFINE at(title) == {c \in DOMAIN headers : Strip(headers[c]) = title}
             of(f) == CASE at(f.title) # {} -> at(f.title)
                        [] at(f.title) = {} /\ at(f.name) # {} -> at(f.name)
                        [] OTHER -> UNION {at(a) : a \in f.aliases}
             N == {f.name : f \in {g \in Fields(rule) : of(g) # {}}}
  <1>1. Positions(rule, headers) = [n \in N |-> Max(of(FieldNamed(rule, n)))]
    BY DEF Positions
  <1>2. ASSUME NEW f \in Fields(rule), f.name \in DOMAIN K PROVE of(f) = {K[f.name]}
    <2>1. \A t \in Titles(f) : at(t) \subseteq {K[f.name]}
      BY DEF ReadsAs
    <2>2. K[f.name] \in DOMAIN headers
      BY <1>2 DEF ReadsAs
    <2>3. PICK t \in Titles(f) : Strip(headers[K[f.name]]) = t
      BY <1>2, <2>2 DEF ReadsAs
    <2>4. K[f.name] \in at(t)
      BY <2>2, <2>3
    <2> HIDE DEF at
    <2>. QED BY <2>1, <2>4 DEF Titles
  <1>3. ASSUME NEW f \in Fields(rule), f.name \notin DOMAIN K PROVE of(f) = {}
    <2>1. \A t \in Titles(f) : at(t) = {}
      BY <1>3 DEF ReadsAs
    <2> HIDE DEF at
    <2>. QED BY <2>1 DEF Titles
  <1> HIDE DEF of
  <1>4. N = DOMAIN K
    <2>1. \A f \in Fields(rule) : of(f) # {} <=> f.name \in DOMAIN K
      BY <1>2, <1>3
    <2>2. N = {f.name : f \in {g \in Fields(rule) : g.name \in DOMAIN K}}
      BY <2>1
    <2>3. DOMAIN K \subseteq {f.name : f \in Fields(rule)}
      BY DEF ReadsAs
    <2> HIDE DEF N
    <2>. QED BY <2>2, <2>3
  <1>5. ASSUME NEW n \in DOMAIN K PROVE Max(of(FieldNamed(rule, n))) = K[n]
    <2>1. PICK f \in Fields(rule) : f.name = n
      BY DEF ReadsAs
    <2>2. FieldNamed(rule, n) = f /\ of(f) = {K[n]}
      BY <1>2, <2>1, NamedField
    <2>3. K[n] \in Int
      BY DEF ReadsAs
    <2>. QED BY <2>2, <2>3, MaxOfOne
  <1>6. K = [n \in DOMAIN K |-> K[n]]
    BY DEF ReadsAs
  <1> HIDE DEF N
  <1>. QED BY <1>1, <1>4, <1>5, <1>6

\* The headers of a sheet whose columns the development renderer finds.
PlainHeaders(v) ==
    /\ \A c \in DOMAIN v.mapping :
          /\ v.mapping[c].status # "duplicate"
          /\ \A f \in Fields(v.rule) :
                Strip(v.sheet.grid[v.header][c]) \in Titles(f)
                    <=> v.mapping[c].status = "matched" /\ v.mapping[c].field = f.name
    /\ \A f \in Fields(v.rule) : Strip(f.title) = f.title

\* A title is that of one field.
LEMMA OneTitle ==
    ASSUME NEW rule, AllowedRule(rule), NEW f \in Fields(rule), NEW g \in Fields(rule)
    PROVE  g.title \in Titles(f) <=> f = g
  <1>1. ASSUME g.title \in Titles(f) PROVE f = g
    <2>1. f \in Owners(rule, Normal(g.title)) /\ g \in Owners(rule, Normal(g.title))
      BY <1>1 DEF Owners, Titles, Fields
    <2>. QED BY <2>1, OneOwner
  <1>2. g.title \in Titles(g)
    BY DEF Titles
  <1>. QED BY <1>1, <1>2

\* The header row once it is repaired.
Repaired(v, w, row) ==
    \A c \in 1 .. w : \/ row[c] = v.sheet.grid[v.header][c]
                      \/ c \in Renamed(v) /\ row[c] = FieldNamed(v.rule, v.mapping[c].field).title

\* Repaired or not, a header row reads as the scope's columns.
LEMMA HeadersRead ==
    ASSUME NEW rule, AllowedRule(rule), NEW sh, NEW n, NEW w \in Nat, NEW header, NEW v,
           ScopeOn(v, rule, sh, header, n, w), PlainHeaders(v), DOMAIN sh.grid[header] = 1 .. w,
           NEW row, DOMAIN row = 1 .. w, Repaired(v, w, row)
    PROVE  ReadsAs(rule, row, v.columns)
  <1> DEFINE headers == sh.grid[header]
             mapping == MapHeaders(rule, headers)
             K == v.columns
  <1> HIDE DEF headers, mapping, K
  <1>1. /\ v.rule = rule /\ v.sheet.grid[v.header] = headers /\ v.mapping = mapping
        /\ DOMAIN mapping = 1 .. w /\ DOMAIN headers = 1 .. w /\ K = Columns(mapping)
        /\ K \in [DOMAIN K -> 1 .. w]
        /\ \A f \in DOMAIN K : mapping[K[f]].status = "matched" /\ mapping[K[f]].field = f
    BY DEF ScopeOn, headers, mapping, K
  <1>2. \A c \in 1 .. w : mapping[c].status # "duplicate"
    BY <1>1 DEF PlainHeaders
  <1>3. ASSUME NEW c \in 1 .. w, mapping[c].status = "matched"
        PROVE  \E f \in Fields(rule) : mapping[c].field = f.name /\ f.name \in DOMAIN K /\ K[f.name] = c
    <2>1. PICK f : Owns(rule, headers, c, f) /\ mapping[c].field = f.name
      BY <1>1, <1>3, MatchedOwns DEF mapping
    <2>2. f \in Fields(rule)
      BY <2>1 DEF Owns, Owners, Fields
    <2>3. OwnsAlone(rule, headers, c, f)
      BY <1>1, <1>2, <1>3, <2>1, MatchedOwnsAlone DEF mapping
    <2>4. ColumnIs(rule, headers, f.name, c)
      BY <1>1, <2>3, ColumnOfOwned DEF mapping
    <2>. QED BY <1>1, <2>1, <2>2, <2>4 DEF ColumnIs, mapping
  <1>4. ASSUME NEW c \in 1 .. w, NEW f \in Fields(rule)
        PROVE  (mapping[c].status = "matched" /\ mapping[c].field = f.name) <=> (f.name \in DOMAIN K /\ K[f.name] = c)
    BY <1>1, <1>3
  <1>5. ASSUME NEW c \in 1 .. w, NEW f \in Fields(rule)
        PROVE  Strip(row[c]) \in Titles(f) <=> f.name \in DOMAIN K /\ K[f.name] = c
    <2>1. CASE row[c] = headers[c]
      BY <1>1, <1>4, <2>1 DEF PlainHeaders
    <2>2. CASE c \in Renamed(v) /\ row[c] = FieldNamed(rule, mapping[c].field).title
      <3>1. mapping[c].status = "matched"
        BY <1>1, <2>2 DEF Renamed
      <3>2. PICK g \in Fields(rule) : mapping[c].field = g.name
        BY <1>3, <3>1
      <3>3. row[c] = g.title /\ Strip(g.title) = g.title
        BY <1>1, <2>2, <3>2, NamedField DEF PlainHeaders
      <3>4. Strip(row[c]) \in Titles(f) <=> f = g
        BY <3>3, OneTitle
      <3>5. f = g <=> mapping[c].field = f.name
        BY <3>2, OneName
      <3>. QED BY <1>4, <3>1, <3>4, <3>5
    <2>. QED BY <1>1, <2>1, <2>2 DEF Repaired
  <1>6. DOMAIN K \subseteq {f.name : f \in Fields(rule)}
    <2>1. ASSUME NEW k \in DOMAIN K PROVE \E f \in Fields(rule) : k = f.name
      BY <1>1, <1>3
    <2>. QED BY <2>1
  <1>. QED BY <1>1, <1>5, <1>6 DEF ReadsAs, K

\* Columns of their own.
OwnColumns(K) == \A f, g \in DOMAIN K : K[f] = K[g] => f = g

\* No two fields have one column once the insertions are made.
LEMMA FinalColumnsApart ==
    ASSUME NEW rule, NEW sh, NEW n, NEW w \in Nat, NEW header, NEW v, LaidOut(v, rule, sh, header, n, w)
    PROVE  OwnColumns(FinalColumns(v))
  <1> DEFINE plans == InsertPlans(v, v.columns)
             K == FinalColumns(v)
             S == DOMAIN v.columns
  <1>1. /\ DOMAIN K = S \cup Names(v, plans)
        /\ \A p \in plans : K[PlanName(v, p)] = Spot(plans, p)
        /\ \A p, q \in plans : Spot(plans, p) = Spot(plans, q) => p = q
        /\ \A f \in S : \A g \in DOMAIN K : K[f] = K[g] => f = g
    BY DEF LaidOut, Moved, Layout, Apart
  <1> HIDE DEF plans, K, S
  <1>2. ASSUME NEW f \in DOMAIN K, NEW g \in DOMAIN K, K[f] = K[g] PROVE f = g
    <2>1. CASE f \in S \/ g \in S
      BY <1>1, <1>2, <2>1
    <2>2. CASE f \notin S /\ g \notin S
      <3>1. PICK p \in plans : f = PlanName(v, p)
        BY <1>1, <2>2 DEF Names
      <3>2. PICK q \in plans : g = PlanName(v, q)
        BY <1>1, <2>2 DEF Names
      <3>. QED BY <1>1, <1>2, <3>1, <3>2
    <2>. QED BY <2>1, <2>2
  <1>. QED BY <1>2 DEF OwnColumns, K

\* The header row once the columns are inserted.
LEMMA WidenedRead ==
    ASSUME NEW rule, AllowedRule(rule), NEW sh, NEW n, NEW w \in Nat, NEW header, NEW v,
           LaidOut(v, rule, sh, header, n, w), PlainHeaders(v),
           NEW T, T = InsertPlans(v, v.columns), NEW W, W = w + Cardinality(T),
           NEW row, ReadsAs(rule, row, v.columns),
           NEW wide, DOMAIN row = 1 .. w, DOMAIN wide = 1 .. W,
           \A c \in 1 .. w : wide[c + Upto(T, c)] = row[c],
           \A p \in T : wide[Spot(T, p)] = rule.columns[p.index].title
    PROVE  ReadsAs(rule, wide, FinalColumns(v))
  <1> DEFINE K == FinalColumns(v)
             S == DOMAIN v.columns
             at(c) == c + Upto(T, c)
  <1>1. /\ DOMAIN K = S \cup Names(v, T)
        /\ \A f \in S : K[f] = at(v.columns[f]) /\ v.columns[f] \in 1 .. w
        /\ \A p \in T : K[PlanName(v, p)] = Spot(T, p)
        /\ K \in [DOMAIN K -> Int]
    BY DEF LaidOut, Moved, ScopeOn
  <1>2. /\ \A c \in 1 .. w : at(c) \in 1 .. W
        /\ \A c, d \in 1 .. w : at(c) = at(d) => c = d
        /\ \A p \in T : Spot(T, p) \in 1 .. W
        /\ \A p, q \in T : Spot(T, p) = Spot(T, q) => p = q
        /\ \A c \in 1 .. w : \A p \in T : at(c) # Spot(T, p)
        /\ \A d \in 1 .. W : (\E c \in 1 .. w : d = at(c)) \/ (\E p \in T : d = Spot(T, p))
    BY DEF LaidOut, Layout
  <1>3. \A p \in T : PlanName(v, p) = rule.columns[p.index].name /\ rule.columns[p.index] \in Fields(rule)
    BY DEF LaidOut, ScopeOn, PlanName, Fields, Range
  <1>4. OwnColumns(K)
    BY FinalColumnsApart
  <1>a. \A c \in 1 .. w : wide[at(c)] = row[c]
    OBVIOUS
  <1> HIDE DEF K, S, at
  <1>5. ASSUME NEW c \in 1 .. w, NEW f \in Fields(rule)
        PROVE  Strip(wide[at(c)]) \in Titles(f) <=> f.name \in DOMAIN K /\ K[f.name] = at(c)
    <2>1. Strip(wide[at(c)]) \in Titles(f) <=> f.name \in S /\ v.columns[f.name] = c
      BY <1>a DEF ReadsAs, S
    <2>2. ASSUME f.name \in DOMAIN K, K[f.name] = at(c) PROVE f.name \in S
      <3>1. ASSUME NEW p \in T, f.name = PlanName(v, p) PROVE FALSE
        BY <1>1, <1>2, <2>2, <3>1
      <3>. QED BY <1>1, <2>2, <3>1 DEF Names
    <2>. QED BY <1>1, <1>2, <2>1, <2>2
  <1>6. ASSUME NEW p \in T, NEW f \in Fields(rule)
        PROVE  Strip(wide[Spot(T, p)]) \in Titles(f) <=> f.name \in DOMAIN K /\ K[f.name] = Spot(T, p)
    <2> DEFINE g == rule.columns[p.index]
    <2>1. g \in Fields(rule) /\ PlanName(v, p) = g.name /\ wide[Spot(T, p)] = g.title
      BY <1>3
    <2> HIDE DEF g
    <2>2. v.rule = rule
      BY DEF LaidOut, ScopeOn
    <2>3. Strip(g.title) = g.title
      BY <2>1, <2>2 DEF PlainHeaders
    <2>4. Strip(wide[Spot(T, p)]) \in Titles(f) <=> f = g
      BY <2>1, <2>3, OneTitle
    <2>5. g.name \in DOMAIN K /\ K[g.name] = Spot(T, p)
      BY <1>1, <2>1 DEF Names
    <2>6. ASSUME f.name \in DOMAIN K, K[f.name] = Spot(T, p) PROVE f = g
      <3>1. f.name = g.name
        BY <1>4, <2>5, <2>6 DEF OwnColumns
      <3>. QED BY <2>1, <3>1, OneName
    <2>. QED BY <2>4, <2>5, <2>6
  <1>7. DOMAIN K \subseteq {f.name : f \in Fields(rule)}
    <2>1. S \subseteq {f.name : f \in Fields(rule)}
      BY DEF ReadsAs, S
    <2>. QED BY <1>1, <1>3, <2>1 DEF Names
  <1>8. \A f \in DOMAIN K : K[f] \in 1 .. W
    BY <1>1, <1>2 DEF Names
  <1>9. K \in [DOMAIN K -> 1 .. W]
    BY <1>1, <1>8
  <1>10. ASSUME NEW d \in 1 .. W, NEW f \in Fields(rule)
         PROVE  Strip(wide[d]) \in Titles(f) <=> f.name \in DOMAIN K /\ K[f.name] = d
    BY <1>2, <1>5, <1>6
  <1>. QED BY <1>7, <1>9, <1>10 DEF ReadsAs, K

-----------------------------------------------------------------------------
(* The phases of the development renderer.                                  *)

SheetFields(plan, K) == {SetCell(o.row, K[o.field], o.value) : o \in Repairs(plan, "set_field")}
SheetRows(plan, K)   == UNION {RecordCells(o, K) : o \in Repairs(plan, "append_record")}

\* The grids between them.
SheetPhases(v, plan, n, w, k, D, h1, h2, h3, x) ==
    LET plans == InsertPlans(v, v.columns)
        W     == w + Cardinality(plans)
    IN  /\ Overwrites(v.sheet.grid, Repairs(plan, "set_cell"), n, w, n, h1)
        /\ Widened(v, plans, h1, n, w, D, h2)
        /\ Overwrites(h2, SheetFields(plan, FinalColumns(v)), n, W, n, h3)
        /\ Overwrites(h3, SheetRows(plan, FinalColumns(v)), n, W, k, x)

\* The header row once its aliases are renamed.
LEMMA HeaderIsRepaired ==
    ASSUME NEW v, NEW n \in Nat, NEW w \in Nat, v.header \in 1 .. n, NEW writes,
           \A o \in writes : o.row = v.header => RenamesHeader(v, o),
           NEW h, Overwrites(v.sheet.grid, writes, n, w, n, h)
    PROVE  Repaired(v, w, h[v.header])
  <1> SUFFICES ASSUME NEW c \in 1 .. w
               PROVE  \/ h[v.header][c] = v.sheet.grid[v.header][c]
                      \/ /\ c \in Renamed(v)
                         /\ h[v.header][c] = FieldNamed(v.rule, v.mapping[c].field).title
    BY DEF Repaired
  <1>1. CASE \A o \in writes : ~CellAt(o, v.header, c)
    BY <1>1 DEF Overwrites
  <1>2. CASE \E o \in writes : CellAt(o, v.header, c)
    <2>1. PICK o \in writes : CellAt(o, v.header, c) /\ h[v.header][c] = o.value
      BY <1>2 DEF Overwrites
    <2>. QED BY <2>1 DEF CellAt, RenamesHeader
  <1>. QED BY <1>1, <1>2

\* A worksheet that may get the columns it lacks, if it lacks any.
Insertable(v) == InsertsColumns(v) \/ Inserted(v) = {}

\* The development renderer succeeds where those columns hold every field it writes, and its
\* phases are those of a manifest.
LEMMA DevelopmentPhases ==
    ASSUME NEW rule, AllowedRule(rule), rule.columns \in Seq(Range(rule.columns)),
           NEW sh, NEW n \in Nat, NEW w \in Nat, NEW C, Rectangle(sh.grid, n, w, C),
           NEW header \in 1 .. n, NEW v, v = Scope(rule, sh, header),
           PlainHeaders(v), Insertable(v),
           NEW plan, NEW N \in Nat, Placed(plan, n, N),
           \A o \in Repairs(plan, "set_cell") : o.row = header => RenamesHeader(v, o),
           \A o \in Repairs(plan, "set_field") : o.field \in DOMAIN FinalColumns(v)
    PROVE  \E k, D, h1, h2, h3 :
              RenderDevelopment(v, plan).ok /\ SheetPhases(v, plan, n, w, k, D, h1, h2, h3, RenderDevelopment(v, plan).grid)
  <1> DEFINE plans   == InsertPlans(v, v.columns)
             W       == w + Cardinality(plans)
             K       == FinalColumns(v)
             cells   == Repairs(plan, "set_cell")
             fields  == SheetFields(plan, K)
             rows    == SheetRows(plan, K)
             h1      == WriteCells(sh.grid, cells)
             h2      == IF InsertsColumns(v)
                        THEN InsertColumns(v, h1, InsertPlans(v, Positions(rule, h1[header]))) ELSE h1
             h3      == WriteCells(h2, fields)
             x       == WriteCells(h3, rows)
             values  == {InsertedValue(v, p, r) : p \in plans, r \in 1 .. n}
             C1      == Held(C, cells)
             C2      == C1 \cup values
  <1>1. LaidOut(v, rule, sh, header, n, w)
    BY ScopeIsLaidOut
  <1>2. Plans(plans, w) /\ ScopeOn(v, rule, sh, header, n, w)
    BY <1>1 DEF LaidOut
  <1>3. n # 0 /\ v.sheet = sh /\ v.rule = rule /\ v.header = header
    BY <1>2 DEF ScopeOn
  <1>4. W \in Nat
    BY <1>2, FS_CardinalityType DEF Plans
  <1>5. \A o \in cells : o.row \in 1 .. n
    BY DEF Placed
  <1>6. \A o \in fields : o.row \in 1 .. n
    BY DEF Placed, SheetFields, SetCell
  <1>7. \A o \in rows : o.row \in 1 .. N
    <2>1. \A o \in Repairs(plan, "append_record") : o.row \in 1 .. N
      BY DEF Placed
    <2>2. \A o : \A y \in RecordCells(o, K) : y.row = o.row
      BY DEF RecordCells, SetCell
    <2>. QED BY <2>1, <2>2 DEF SheetRows
  <1>8. ASSUME Positions(rule, h2[header]) = K
        PROVE  RenderDevelopment(v, plan) = Written(x)
    <2> DEFINE positions == Positions(rule, h2[header])
               written == {SetCell(o.row, positions[o.field], o.value) : o \in Repairs(plan, "set_field")}
    <2>1. RenderDevelopment(v, plan)
              = IF \E o \in Repairs(plan, "set_field") : o.field \notin DOMAIN positions THEN RenderFailed
                ELSE Written(WriteCells(WriteCells(h2, written),
                                        UNION {RecordCells(o, positions) : o \in Repairs(plan, "append_record")}))
      BY <1>3, Zenon DEF RenderDevelopment
    <2>2. positions = K /\ written = fields
          /\ rows = UNION {RecordCells(o, positions) : o \in Repairs(plan, "append_record")}
      <3> HIDE DEF h2
      <3>. QED BY <1>8 DEF SheetFields, SheetRows
    <2> HIDE DEF positions, written, h2, fields, rows, K
    <2>3. \A o \in Repairs(plan, "set_field") : o.field \in DOMAIN positions
      BY <2>2 DEF K
    <2>. QED BY <2>1, <2>2, <2>3
  <1> HIDE DEF plans, W, K, cells, fields, rows, h1, h2, h3, x
  <1>9. Overwrites(sh.grid, cells, n, w, n, h1) /\ Rectangle(h1, n, w, C1)
    <2> HIDE DEF C1
    <2>1. /\ Overwrites(sh.grid, cells, n, w, n, WriteCells(sh.grid, cells))
          /\ Rectangle(WriteCells(sh.grid, cells), n, w, Held(C, cells))
      BY <1>3, <1>5, SameRows
    <2>. QED BY <2>1 DEF h1, C1
  <1>10. DOMAIN h1[header] = 1 .. w /\ DOMAIN sh.grid[header] = 1 .. w
    BY <1>9 DEF Rectangle
  <1>11. Repaired(v, w, h1[header])
    <2>1. Repaired(v, w, h1[v.header])
      BY <1>3, <1>9, HeaderIsRepaired DEF cells
    <2>. QED BY <1>3, <2>1
  <1>12. ReadsAs(rule, h1[header], v.columns)
    BY <1>2, <1>10, <1>11, HeadersRead
  <1>13. Positions(rule, h1[header]) = v.columns
    BY <1>10, <1>12, ReadPositions
  <1>14. Widened(v, plans, h1, n, w, C2, h2)
    <2>1. Rectangle(h1, n, w, C2)
      BY <1>9, RectangleWithin
    <2>2. \A p \in plans : \A r \in 1 .. n : InsertedValue(v, p, r) \in C2
      OBVIOUS
    <2> HIDE DEF C2
    <2>3. CASE InsertsColumns(v)
      <3>1. Widened(v, plans, h1, n, w, C2, InsertColumns(v, h1, plans))
        BY <1>2, <2>1, <2>2, ColumnsInserted DEF Rectangle
      <3>. QED BY <1>13, <2>3, <3>1 DEF h2, plans
    <2>4. CASE ~InsertsColumns(v)
      <3>1. \A p \in plans : PlanName(v, p) \in Inserted(v)
        BY <1>1 DEF LaidOut, plans
      <3>2. plans = {}
        BY <2>4, <3>1 DEF Insertable
      <3>3. Cardinality({}) = 0 /\ \A c : Upto({}, c) = 0
        BY FS_EmptySet DEF Upto
      <3>4. h1 \in Grids(n, w, C2)
        BY <2>1 DEF Grids, Rectangle
      <3>5. h2 = h1
        BY <2>4 DEF h2
      <3>. QED BY <2>1, <3>2, <3>3, <3>4, <3>5 DEF Widened, Rectangle
    <2>. QED BY <2>3, <2>4
  <1>15. Rectangle(h2, n, W, C2)
    <2> HIDE DEF C2
    <2>. QED BY <1>14 DEF Widened, Grids, Rectangle, W
  <1>16. ReadsAs(rule, h2[header], K)
    <2>1. DOMAIN h2[header] = 1 .. W
      <3> HIDE DEF C2
      <3>. QED BY <1>15 DEF Rectangle
    <2>2. \A c \in 1 .. w : h2[header][c + Upto(plans, c)] = h1[header][c]
      BY <1>14 DEF Widened
    <2>3. \A p \in plans : h2[header][Spot(plans, p)] = rule.columns[p.index].title
      BY <1>3, <1>14 DEF Widened, InsertedValue
    <2>. QED BY <1>1, <1>10, <1>12, <2>1, <2>2, <2>3, WidenedRead DEF plans, W, K
  <1>17. Positions(rule, h2[header]) = K
    <2>1. DOMAIN h2[header] \subseteq Int
      <3> HIDE DEF C2
      <3>. QED BY <1>4, <1>15 DEF Rectangle
    <2>. QED BY <1>16, <2>1, ReadPositions
  <1>18. RenderDevelopment(v, plan).ok /\ RenderDevelopment(v, plan).grid = x
    BY <1>8, <1>17 DEF Written
  <1>19. Overwrites(h2, fields, n, W, n, h3) /\ Rectangle(h3, n, W, Held(C2, fields))
    <2> HIDE DEF C2
    <2>1. /\ Overwrites(h2, fields, n, W, n, WriteCells(h2, fields))
          /\ Rectangle(WriteCells(h2, fields), n, W, Held(C2, fields))
      BY <1>3, <1>4, <1>6, <1>15, SameRows
    <2>. QED BY <2>1 DEF h3
  <1>20. PICK k : Overwrites(h3, rows, n, W, k, x)
    <2> DEFINE C3 == Held(C2, fields)
    <2> HIDE DEF C3
    <2>1. Rectangle(h3, n, W, C3)
      BY <1>19 DEF C3
    <2>2. \E m : /\ Overwrites(h3, rows, n, W, m, WriteCells(h3, rows))
                 /\ Rectangle(WriteCells(h3, rows), m, W, Held(C3, rows))
      BY <1>3, <1>4, <1>7, <2>1, CellsWritten
    <2>. QED BY <2>2 DEF x
  <1>21. SheetPhases(v, plan, n, w, k, C2, h1, h2, h3, x)
    <2> HIDE DEF C2
    <2>. QED BY <1>3, <1>9, <1>14, <1>19, <1>20 DEF SheetPhases, plans, W, K, cells, fields, rows
  <1> HIDE DEF C2
  <1>. QED BY <1>18, <1>21

\* Both renderers, phase by phase.
LEMMA PhasesAgree ==
    ASSUME NEW rule, NEW sh, NEW n \in Nat, NEW w \in Nat, NEW header, NEW v, LaidOut(v, rule, sh, header, n, w),
           NEW plan, WritesOnce(plan.repairs), NEW N \in Nat, Placed(plan, n, N),
           \A o \in Repairs(plan, "set_field") : o.field \in DOMAIN FinalColumns(v),
           \A o \in Repairs(plan, "append_record") : \A f \in DOMAIN o.values :
                FieldNamed(v.rule, f).template => o.values[f] = FormulaAt(o.row),
           NEW k, NEW C, NEW h1, NEW h2, NEW h3, NEW x, SheetPhases(v, plan, n, w, k, C, h1, h2, h3, x),
           NEW m, NEW D, NEW g1, NEW g2, NEW g3, NEW out, Phases(v, plan, n, w, m, D, g1, g2, g3, out)
    PROVE  k = m /\ AlikeGrids(x, out, m, w + Cardinality(InsertPlans(v, v.columns)))
  <1> DEFINE plans == InsertPlans(v, v.columns)
             W == w + Cardinality(plans)
             K == FinalColumns(v)
             grid == v.sheet.grid
  <1> HIDE DEF plans, W, K, grid
  <1>1. /\ Overwrites(grid, Repairs(plan, "set_cell"), n, w, n, h1) /\ Widened(v, plans, h1, n, w, C, h2)
        /\ Overwrites(h2, SheetFields(plan, K), n, W, n, h3)
        /\ Overwrites(h3, SheetRows(plan, K), n, W, k, x)
    BY DEF SheetPhases, plans, W, K, grid
  <1>2. /\ Overwrites(grid, CellWrites(v, plan), n, w, n, g1) /\ Widened(v, plans, g1, n, w, D, g2)
        /\ Overwrites(g2, FieldWrites(plan, K), n, W, n, g3)
        /\ Overwrites(g3, RowWrites(v, plan, K), n, W, m, out)
    BY DEF Phases, plans, W, K, grid
  <1>3. /\ \A o \in Repairs(plan, "set_cell") : o.row \in 1 .. N + n
        /\ \A o \in SheetFields(plan, K) : o.row \in 1 .. N + n
        /\ \A o \in SheetRows(plan, K) : o.row \in 1 .. N + n
    <2>1. /\ \A o \in Repairs(plan, "set_cell") \cup Repairs(plan, "set_field") : o.row \in 1 .. N + n
          /\ \A o \in Repairs(plan, "append_record") : o.row \in 1 .. N + n
      BY DEF Placed
    <2>2. \A o : \A y \in RecordCells(o, K) : y.row = o.row
      BY DEF RecordCells, SetCell
    <2>. QED BY <2>1, <2>2 DEF SheetFields, SheetRows, SetCell
  <1>4. OwnColumns(K) /\ Layout(plans, w, W)
    BY FinalColumnsApart DEF K, LaidOut, plans, W
  <1>5. AlikeGrids(grid, grid, n, w)
    BY DEF AlikeGrids, Alike
  <1>6. AlikeGrids(h1, g1, n, w)
    <2>1. AlikeWrites(Repairs(plan, "set_cell"), CellWrites(v, plan))
      BY CellsAlike
    <2>. QED BY <1>1, <1>2, <1>3, <1>5, <2>1, OverwrittenAlike
  <1>7. AlikeGrids(h2, g2, n, W)
    BY <1>1, <1>2, <1>4, <1>6, WidenedAlike DEF W
  <1>8. AlikeGrids(h3, g3, n, W)
    <2>1. AlikeWrites(SheetFields(plan, K), FieldWrites(plan, K))
      BY <1>4, FieldsAlike DEF SheetFields, OwnColumns, K
    <2>. QED BY <1>1, <1>2, <1>3, <1>7, <2>1, OverwrittenAlike
  <1>9. k = m /\ AlikeGrids(x, out, k, W)
    <2>1. AlikeWrites(SheetRows(plan, K), RowWrites(v, plan, K))
      BY <1>4, RecordsAlike DEF SheetRows, OwnColumns
    <2>. QED BY <1>1, <1>2, <1>3, <1>8, <2>1, OverwrittenAlike
  <1>. QED BY <1>9 DEF W, plans

\* Where no header is ambiguous, every field that is written without a column gets one.
LEMMA FieldsGetColumns ==
    ASSUME NEW rule, AllowedRule(rule), rule.columns \in Seq(Range(rule.columns)),
           NEW sh, NEW n \in Nat, NEW w \in Nat, NEW C, Rectangle(sh.grid, n, w, C),
           NEW header \in 1 .. n, NEW v, v = Scope(rule, sh, header),
           \A c \in DOMAIN v.mapping : v.mapping[c].status # "ambiguous",
           NEW o, WritesField(v, o)
    PROVE  o.field \in DOMAIN FinalColumns(v)
  <1> DEFINE plans == InsertPlans(v, v.columns)
  <1>1. v.rule = rule
    BY DEF Scope
  <1>2. PICK f \in Fields(rule) : ~HasColumn(v, f) /\ o.field = f.name /\ ShouldInsert(rule, f)
    BY <1>1 DEF WritesField, FieldWrite
  <1>3. f \in MissingHeaders(v)
    BY <1>1, <1>2 DEF MissingHeaders, HasColumn, Fields
  <1>4. f.name \in Inserted(v)
    BY <1>1, <1>2, <1>3 DEF Inserted
  <1>5. Inserted(v) \subseteq Names(v, plans)
    BY ScopeInsertions
  <1>6. DOMAIN FinalColumns(v) = DOMAIN v.columns \cup Names(v, plans)
    <2>1. LaidOut(v, rule, sh, header, n, w)
      BY ScopeIsLaidOut
    <2>. QED BY <2>1 DEF LaidOut, Moved
  <1>. QED BY <1>2, <1>4, <1>5, <1>6

\* An ambiguous header leaves the work to people.
LEMMA AmbiguousIsReviewed ==
    ASSUME NEW v, NEW std, NEW mode, NEW c \in DOMAIN v.mapping, v.mapping[c].status = "ambiguous"
    PROVE  NeedsReview(Compare(v, std, mode))
  <1> DEFINE note == Note("ambiguous", v.header, c, v.mapping[c].field)
  <1>1. note \in HeaderNotes(v)
    BY DEF HeaderNotes
  <1>2. note \in Compare(v, std, mode).notes
    <2> DEFINE header == Finding(HeaderNotes(v), HeaderRepairs(v))
               others == IF ComparesRecords(v) THEN {RecordFinding(v, std, mode)} ELSE {}
    <2>1. header.notes = HeaderNotes(v)
      BY DEF Finding
    <2>2. Compare(v, std, mode).notes = UNION {x.notes : x \in {header} \cup others}
      BY DEF Compare, Together, Finding
    <2> HIDE DEF header, others, note
    <2>. QED BY <1>1, <2>1, <2>2
  <1>3. note.kind \in ReviewKinds
    BY DEF Note, ReviewKinds
  <1>. QED BY <1>2, <1>3 DEF NeedsReview

\* The worksheet the development renderer leaves, compared with that of the manifest.
SameSheets(dev, out) ==
    /\ dev.ok /\ out.ok /\ DOMAIN dev.grid = DOMAIN out.grid
    /\ \A r \in DOMAIN out.grid : \A c \in DOMAIN out.grid[r] : Alike(dev.grid[r][c], out.grid[r][c])

\* Both renderers, from a worksheet to the two that they leave.
LEMMA RendersAgree ==
    ASSUME NEW rule, AllowedRule(rule), rule.columns \in Seq(Range(rule.columns)),
           NEW sh, NEW n \in Nat, NEW w \in Nat, NEW C, Rectangle(sh.grid, n, w, C),
           NEW header \in 1 .. n, NEW v, v = Scope(rule, sh, header), \A r \in DataRows(v) : r # header,
           NEW std, NEW mode, NEW plan, \A o \in plan.repairs : Authorised(v, std, mode, o),
           WritesOnce(plan.repairs), NEW N \in Nat, Placed(plan, n, N),
           \A c \in DOMAIN v.mapping : v.mapping[c].status # "ambiguous",
           PlainHeaders(v), Insertable(v),
           \A o \in Repairs(plan, "append_record") : \A f \in Fields(rule) :
                f.template => o.values[f.name] = FormulaAt(o.row)
    PROVE  SameSheets(RenderDevelopment(v, plan), RenderManifest(v, plan))
  <1> DEFINE dev == RenderDevelopment(v, plan)
             out == RenderManifest(v, plan)
             W == w + Cardinality(InsertPlans(v, v.columns))
  <1>1. v.rule = rule /\ v.header = header
    BY DEF Scope
  <1>2. LaidOut(v, rule, sh, header, n, w)
    BY ScopeIsLaidOut
  <1>3. \A o \in Repairs(plan, "set_field") : o.field \in DOMAIN FinalColumns(v)
    <2>1. ASSUME NEW o \in Repairs(plan, "set_field") PROVE WritesField(v, o)
      <3>1. Authorised(v, std, mode, o) /\ o.type = "set_field"
        BY DEF Repairs
      <3>. QED BY <3>1 DEF Authorised, RenamesHeader, WritesCell, CellWrite, SetsFormat, AppendsRecord
    <2>. QED BY <2>1, FieldsGetColumns
  <1>4. \A o \in Repairs(plan, "set_cell") : o.row = header => RenamesHeader(v, o)
    <2>1. ASSUME NEW o \in Repairs(plan, "set_cell"), o.row = header PROVE RenamesHeader(v, o)
      <3>1. Authorised(v, std, mode, o) /\ o.type = "set_cell"
        BY DEF Repairs
      <3>2. ~WritesCell(v, o)
        BY <2>1 DEF WritesCell, CellWrite, ExcelRecords, KeyedRows
      <3>. QED BY <3>1, <3>2 DEF Authorised, WritesField, FieldWrite, SetsFormat, AppendsRecord
    <2>. QED BY <2>1
  <1>5. ASSUME NEW o \in Repairs(plan, "append_record"), NEW k \in DOMAIN o.values, FieldNamed(rule, k).template
        PROVE  o.values[k] = FormulaAt(o.row)
    <2>1. Authorised(v, std, mode, o) /\ o.type = "append_record"
      BY DEF Repairs
    <2>2. AppendsRecord(v, std, mode, o)
      BY <2>1 DEF Authorised, RenamesHeader, WritesCell, CellWrite, WritesField, FieldWrite, SetsFormat
    <2>3. PICK i, row : o = AppendRecord(row, WriteRecord(v, std[i]))
      BY <2>2 DEF AppendsRecord
    <2>4. DOMAIN o.values = {f.name : f \in Fields(rule)}
      BY <1>1, <2>3 DEF AppendRecord, WriteRecord
    <2>5. PICK f \in Fields(rule) : k = f.name
      BY <2>4
    <2>6. f.template
      BY <1>5, <2>5, NamedField
    <2>. QED BY <2>5, <2>6
  <1>6. out.ok
    BY <1>3 DEF RenderManifest, Written
  <1>7. PICK m, D, g1, g2, g3 : Phases(v, plan, n, w, m, D, g1, g2, g3, out.grid)
    BY <1>6, ManifestPhases
  <1>8. PICK k, E, h1, h2, h3 : dev.ok /\ SheetPhases(v, plan, n, w, k, E, h1, h2, h3, dev.grid)
    BY <1>3, <1>4, DevelopmentPhases
  <1> HIDE DEF dev, out
  <1>10. k = m /\ AlikeGrids(dev.grid, out.grid, m, W)
    BY <1>1, <1>2, <1>3, <1>5, <1>7, <1>8, PhasesAgree
  <1>11. DOMAIN dev.grid = 1 .. k
    BY <1>8 DEF SheetPhases, Overwrites
  <1>12. DOMAIN out.grid = 1 .. m /\ \A r \in 1 .. m : DOMAIN out.grid[r] = 1 .. W
    <2>1. Rectangle(out.grid, m, W, D)
      BY <1>7 DEF Phases
    <2>. QED BY <2>1 DEF Rectangle
  <1> HIDE DEF W
  <1>. QED BY <1>6, <1>8, <1>10, <1>11, <1>12 DEF SameSheets, AlikeGrids, dev, out

\* The development renderer and the manifest write the same values, number for number, into
\* any sheet with plain headers, for any rule and records: the one finds by their titles the
\* columns that the other computes from where it inserts
\* (rendering.OpenPyxlDevelopmentRenderer, service._manifest with Program.cs).
THEOREM RenderersAgreed == Spec => []RenderersAgree
  <1>1. RowsInv /\ FindingInv /\ PlanIsAuthorised /\ PlanWritesOnce => RenderersAgree
    <2> SUFFICES ASSUME RowsInv, FindingInv, PlanIsAuthorised, PlanWritesOnce, Renders, PlainSheet(Here)
                 PROVE  SameSheets(RenderDevelopment(Here, finding), RenderManifest(Here, finding))
      BY DEF RenderersAgree, SameSheets, Alike
    <2> DEFINE rule == case.rule
               v == Here
               std == fetched
               mode == case.mode
               plan == finding
               sh == sheet
    <2>1. Settling /\ HasScope(rule, sh)
      BY DEF Renders, Settling
    <2>2. PICK n \in Nat, w \in Nat : \E C : \E header \in 1 .. n :
              Rectangle(sh.grid, n, w, C) /\ v = Scope(rule, sh, header)
      BY <2>1, HereIsScope DEF RowsInv
    <2>3. PICK C : \E header \in 1 .. n : Rectangle(sh.grid, n, w, C) /\ v = Scope(rule, sh, header)
      BY <2>2
    <2>4. PICK header \in 1 .. n : Rectangle(sh.grid, n, w, C) /\ v = Scope(rule, sh, header)
      BY <2>3
    <2>5. v.rule = rule /\ v.header = header /\ v.sheet = sh
      BY <2>4 DEF Scope
    <2>6. AllowedRule(rule) /\ rule.columns \in Seq(Range(rule.columns)) /\ rule.startRow \in Nat
      BY CaseIsAsAssumed DEF RowsInv
    <2>7. \A r \in DataRows(v) : r # header
      <3>1. v.header = LocateHeaderRow(rule, sh.grid)
        BY DEF Here, ScopeOf, Scope
      <3>2. rule.startRow # 0 => rule.startRow > header
        BY <2>1, <2>5, <3>1 DEF HasScope
      <3>3. v.start \in Int /\ v.start > header
        BY <2>4, <2>6, <3>2 DEF Scope
      <3>. QED BY <3>3 DEF DataRows
    <2>8. \A o \in plan.repairs : Authorised(v, std, mode, o)
      BY <2>1 DEF PlanIsAuthorised
    <2>9. WritesOnce(plan.repairs)
      BY <2>1 DEF PlanWritesOnce
    <2>10. Placed(plan, n, n + Len(std)) /\ n + Len(std) \in Nat
      <3>1. RowsOfRepairs(plan.repairs, n, n + Len(std)) /\ Len(std) \in Nat
        BY <2>4, PlanIsPlaced DEF RowsInv
      <3>. QED BY <3>1, PlacedIfRows
    <2>11. \A c \in DOMAIN v.mapping : v.mapping[c].status # "ambiguous"
      <3>1. plan = Compare(v, std, mode)
        BY <2>1 DEF FindingInv
      <3>2. ~NeedsReview(plan)
        BY DEF Renders, Renderable, NeedsManualReview
      <3>. QED BY <3>1, <3>2, AmbiguousIsReviewed
    <2>12. PlainHeaders(v) /\ Insertable(v)
      BY <2>5 DEF PlainSheet, PlainHeaders, Insertable
    <2>13. \A o \in Repairs(plan, "append_record") : \A f \in Fields(rule) :
              f.template => o.values[f.name] = FormulaAt(o.row)
      BY <2>5 DEF PlainSheet
    <2> HIDE DEF rule, v, std, mode, plan, sh
    <2> DEFINE N == n + Len(std)
    <2>14. Placed(plan, n, N) /\ N \in Nat
      BY <2>10
    <2> HIDE DEF N
    <2>15. SameSheets(RenderDevelopment(v, plan), RenderManifest(v, plan))
      BY <2>4, <2>6, <2>7, <2>8, <2>9, <2>11, <2>12, <2>13, <2>14, RendersAgree
    <2>. QED BY <2>15 DEF v, plan
  <1>2. AuditInvariant => FindingInv
    BY DEF AuditInvariant
  <1>. QED BY <1>1, <1>2, RowsInvHolds, AuditInvariantHolds, PlannedRepairsAuthorised, PlansWriteOnce, PTL

=============================================================================
