--------------------------- MODULE MCAuditPipeline ----------------------------
EXTENDS AuditPipeline

\* Cells: "1" and "1.0" are one number, Excel cannot hold "8", "x" is no number and
\* "=g" was never computed.
MCNumbers == {"1", "1.0", "2", "3", "5", "7", "8", "9", "10", "11", "A", "A#1"}
MCNumber(n)    == IF n = "1.0" THEN "1" ELSE n
MCWriteSafe(n) == n # "8"
MCBlanks    == {"", " "}
Templates == <<"=t1", "=t2", "=t3", "=t4", "=t5", "=t6", "=t7", "=t8">>
MCFormulaAt(r) == Templates[r]
MCFormulas  == {"=f", "=g", "=t1", "=t2", "=t3", "=t4", "=t5", "=t6", "=t7", "=t8"}
MCCached(c) == IF c = "=g" THEN "" ELSE "5"

\* A quote ends a text: ' sorts after #, and " before it.
TextOrder ==
    [polars \in BOOLEAN |->
        (IF polars THEN <<"A", "A#1">> ELSE <<"A#1", "A">>)
            \o <<"1", "1.0", "10", "11", "2", "3", "5", "7", "8", "9">>]
\* A bracket ends a row number: ) sorts before the digits, and ] after them.
MCKeyOrder(key, polars) ==
    CASE key.kind = "fields" ->
            CHOOSE i \in DOMAIN TextOrder[polars] : TextOrder[polars][i] = key.text["k"]
      [] key.text >= 10 -> 101 + 100 * (key.text \div 10) + (key.text % 10)
      [] OTHER          -> 100 + 100 * key.text + IF polars THEN 50 ELSE 0

\* Headers.
MCNormal(h) ==
    CASE h \in {"k", "K", "k "} -> "k"
      [] h \in {"p", "P", " p"} -> "p"
      [] h \in {" ", ""}        -> ""
      [] OTHER                  -> h
MCStrip(h) == CASE h = "k " -> "k" [] h = " p" -> "p" [] h = " " -> "" [] h = "" -> "None" [] OTHER -> h
MCResembles(h, f) == h = "pp" /\ f.name = "p"

-----------------------------------------------------------------------------
(* Rules.                                                                   *)

Field(name) ==
    [name |-> name, title |-> name, aliases |-> {}, required |-> FALSE, nullable |-> TRUE,
     unique |-> FALSE, formula |-> "reject", template |-> FALSE, default |-> "", missing |-> "",
     fuzzy |-> FALSE, display |-> FALSE, refused |-> {}]
K == [Field("k") EXCEPT !.required = TRUE, !.nullable = FALSE, !.aliases = {"key"}]
P == [Field("p") EXCEPT !.aliases = {"price"}]
Q == Field("q")

Rule(columns) ==
    [columns |-> columns, keyMode |-> "fields", key |-> {"k"}, emptyKey |-> "report_invalid",
     headerRow |-> 1, autoDetect |-> FALSE, startRow |-> 0, includeHidden |-> TRUE,
     rename |-> FALSE, fill |-> FALSE, overwrite |-> FALSE, append |-> FALSE,
     insertRequired |-> FALSE, insertOptional |-> FALSE, cross |-> {}, rejectUnsupported |-> FALSE]
ByRow(rule) == [rule EXCEPT !.keyMode = "row_number", !.key = {}]

Sheet(grid) ==
    [grid |-> grid, hidden |-> {}, odd |-> {}, copies |-> 1, spelled |-> TRUE, risky |-> FALSE,
     large |-> FALSE]

Source(records) ==
    [records |-> records, later |-> records, size |-> 0, maxPages |-> 1, maxRecords |-> 9,
     tellsTotal |-> FALSE, unreliable |-> FALSE, method |-> "GET"]

InMemory == [disk |-> FALSE, polars |-> FALSE]
Modes    == [disk : BOOLEAN, polars : BOOLEAN]

Case(rule, sh, src, mode) ==
    [rule |-> rule, sheet |-> sh, source |-> src, mode |-> mode, threshold |-> 99]

KP(k, p) == [k |-> k, p |-> p]

-----------------------------------------------------------------------------
(* Keys that are there twice, blank, no number, formulas or spelled apart.  *)

KeyColumns == {<<"1", "2", "1">>, <<"1", "2", "3">>, <<" ", "2", "3">>, <<"x", "2", "2">>,
               <<"=f", "1", "">>, <<"1.0", "1", "3">>, <<"1.0", "3", " ">>, <<"", "", "2">>}
KeyRecords == {<<>>, <<KP("1", "5")>>, <<KP("3", "5"), KP("1", "7")>>,
               <<KP("10", "5"), KP("2", "7"), KP("9", "5")>>, <<KP("", "5"), KP("2", "7")>>,
               <<KP("1", "5"), KP("1.0", "5")>>, <<KP("A", "5"), KP("A#1", "7")>>, <<KP("1.0", "7"), KP("2", "5"), KP("3", "5"), KP("9", "8")>>}
\* Every mode where rows without a key are reported, as far apart as can be elsewhere.
KeyCases ==
    {Case([Rule(<<K, P>>) EXCEPT !.emptyKey = e[1], !.append = e[2], !.overwrite = TRUE],
          Sheet(<<<<"k", "p">>>> \o [i \in 1 .. 3 |-> <<c[i], "5">>]), Source(s), m) :
        e \in {<<"report_invalid", FALSE>>, <<"skip_row", TRUE>>, <<"use_row_number", TRUE>>},
        c \in KeyColumns, s \in KeyRecords, m \in {n \in Modes : n.disk = n.polars}}
    \cup {Case([Rule(<<K, P>>) EXCEPT !.append = TRUE, !.overwrite = TRUE],
               Sheet(<<<<"k", "p">>>> \o [i \in 1 .. 3 |-> <<c[i], "5">>]), Source(s), m) :
            c \in KeyColumns, s \in KeyRecords, m \in Modes}
    \cup {Case([Rule(<<K, [Q EXCEPT !.formula = "formula", !.template = TRUE]>>) EXCEPT !.append = TRUE],
               Sheet(<<<<"k", "q">>, <<"2", "=t2">>>>),
               Source(<<[k |-> "A", q |-> MCFormulaAt(x[1])], [k |-> "A#1", q |-> MCFormulaAt(x[2])]>>), m) :
            x \in {3, 4} \X {3, 4}, m \in Modes}

\* One row of one record: every cell against every standard value.
CellFields ==
    {[P EXCEPT !.formula = fo, !.default = d, !.refused = {"3"}] :
        fo \in {"reject", "cached", "formula"}, d \in {"", "2"}}
    \cup {[P EXCEPT !.default = "8"], [P EXCEPT !.formula = "formula", !.template = TRUE],
          [P EXCEPT !.fuzzy = TRUE, !.required = TRUE, !.refused = {"3"}]}
CellRecords == {<<[k |-> "1"]>>} \cup {<<KP("1", p)>> : p \in {"", "5", "7", "8", "=f"}}
CellCases ==
    {Case([Rule(<<K, f>>) EXCEPT !.fill = w[1], !.overwrite = w[2]],
          Sheet(<<<<"k", "p">>, <<"1", c>>>>), Source(s), InMemory) :
        f \in CellFields, w \in BOOLEAN \X BOOLEAN,
        c \in {"", " ", "5", "7", "3", "x", "=f", "=g", "=t2"}, s \in CellRecords}

-----------------------------------------------------------------------------
(* Columns that are renamed, messy, there twice, missing or in another      *)
(* order.                                                                   *)

HeaderRows == {<<"k", "p">>, <<"key", "price">>, <<"k ", " p">>, <<"K", "P">>, <<"k", "pp">>,
               <<"p", "k">>, <<"k", "k">>, <<"k", "z">>, <<"z", "k">>, <<"k", " ">>, <<"p", "z">>}
Thirds == {Q, [Q EXCEPT !.default = "2"], [Q EXCEPT !.formula = "formula", !.template = TRUE],
           [Q EXCEPT !.missing = "report_only"], [Q EXCEPT !.missing = "insert", !.required = TRUE]}
\* Every two of three options together in every way.
PairsOfOptions == {x \in BOOLEAN \X BOOLEAN \X BOOLEAN : x[1] = (x[2] = x[3])}
HeaderRules ==
    {[Rule(<<Q0, P, K>>) EXCEPT !.rename = x[1], !.fill = x[2], !.append = ~x[2], !.insertOptional = x[3]] :
        Q0 \in Thirds, x \in PairsOfOptions}
    \cup {[Rule(<<K, Q0, P>>) EXCEPT !.rename = TRUE, !.fill = TRUE, !.append = TRUE, !.insertOptional = TRUE,
                                   !.insertRequired = TRUE] : Q0 \in Thirds}
HeaderRecords(rule) ==
    LET q(cell, r) == IF FieldNamed(rule, "q").template THEN MCFormulaAt(r) ELSE cell
    IN  {<<[k |-> "1", p |-> "5", q |-> q("3", 2)], [k |-> "2", p |-> "7", q |-> q("7", 4)]>>,
         <<[k |-> "3", p |-> "5", q |-> ""], [k |-> "1", q |-> q("2", 2)]>>}
HeaderCases ==
    UNION {{Case(r, Sheet(<<h, <<"1", "1">>, <<"9", "">>>>), Source(s), InMemory) :
                h \in HeaderRows, s \in HeaderRecords(r)} : r \in HeaderRules}
    \cup {Case([Rule(<<K, Q, P>>) EXCEPT !.insertOptional = TRUE, !.fill = TRUE],
               [Sheet(<<<<"k", "p">>, <<"1", "5">>>>) EXCEPT !.spelled = x[1], !.risky = x[2]],
               Source(<<[k |-> "1", p |-> "5", q |-> "3"]>>), InMemory) : x \in BOOLEAN \X BOOLEAN}

\* What a first audit repairs and a second one may still find.
RepairCases ==
    {Case([Rule(<<K, [P EXCEPT !.default = d], [Q EXCEPT !.default = e, !.missing = "insert"]>>)
              EXCEPT !.fill = w[1], !.overwrite = w[2], !.append = w[3]],
          Sheet(<<<<"k", "p">>, <<"1", "">>, <<"9", "">>>>), Source(s), InMemory) :
        d \in {"", "2"}, e \in {"", "2"}, w \in BOOLEAN \X BOOLEAN \X BOOLEAN,
        s \in {<<[k |-> "1", p |-> "5", q |-> "3"], [k |-> "2", p |-> "7", q |-> "3"]>>,
               <<[k |-> "1", p |-> "", q |-> "3"], [k |-> "2"]>>}}

-----------------------------------------------------------------------------
(* Rows known by their number, hidden rows, the search for the header,      *)
(* checks of a row and of a column, and limits.                             *)

RowRecords(rows) == [i \in DOMAIN rows |-> [row |-> rows[i], p |-> "5"]]
RowCases ==
    {Case(ByRow([Rule(<<P>>) EXCEPT !.append = TRUE, !.overwrite = TRUE]),
          Sheet(<<<<"p">>>> \o [i \in 1 .. n |-> <<IF i = 2 THEN "" ELSE "7">>]), Source(RowRecords(s)), m) :
        n \in {1, 3, 7}, s \in {<<2, 3>>, <<4, 3, 2>>, <<9, 10, 11>>, <<2, 2>>, <<12>>}, m \in Modes}
    \cup {Case(ByRow(Rule(<<P>>)), Sheet(<<<<"p">>, <<"7">>>>), Source(<<[p |-> "5"]>>), InMemory)}

RegionCases ==
    {Case([Rule(<<K, P>>) EXCEPT !.autoDetect = a, !.headerRow = h, !.startRow = b, !.includeHidden = i,
                                 !.append = TRUE],
          [Sheet(g) EXCEPT !.hidden = {3}, !.copies = n], Source(<<KP("1", "5"), KP("2", "5")>>), InMemory) :
        a \in BOOLEAN, h \in {1, 2, 9}, b \in {0, 2, 3, 4}, i \in BOOLEAN, n \in {0, 1, 2},
        g \in {<<<<"k", "p">>, <<"1", "5">>, <<"2", "7">>, <<"3", "7">>>>,
               <<<<"t", "">>, <<"k", "p">>, <<"1", "5">>, <<"2", "7">>>>,
               <<<<"k", "">>, <<"k", "p">>, <<"1", "5">>>>,
               <<<<"k", "p">>, <<"k", "p">>, <<"1", "5">>>>,
               <<<<"p", "">>, <<"1", "5">>>>}}

CheckedRule(u, x) ==
    [Rule(<<K, [P EXCEPT !.unique = u, !.display = TRUE, !.refused = {"3"}], Q>>)
        EXCEPT !.overwrite = TRUE,
               !.cross = IF x THEN {[when |-> "p", equals |-> "5", required |-> "q"]} ELSE {}]
CheckCases ==
    {[Case(CheckedRule(u, x),
           [Sheet(<<<<"k", "p", "q">>, <<"1", a, "">>, <<"2", b, "7">>>>) EXCEPT !.odd = o, !.large = l],
           Source(<<[k |-> "1", p |-> "5", q |-> z]>>), [disk |-> d, polars |-> FALSE]) EXCEPT !.threshold = 1] :
        u \in BOOLEAN, x \in BOOLEAN, a \in {"5", "3"}, b \in {"5", "3", ""}, z \in {"", "7"},
        o \in {{}, {<<2, 2>>}}, l \in BOOLEAN, d \in BOOLEAN}
    \cup {Case([Rule(<<K, P>>) EXCEPT !.rejectUnsupported = j, !.includeHidden = i],
               [Sheet(<<<<"k", "p">>, <<"1", c>>>>) EXCEPT !.large = l], Source(<<KP("1", "5")>>), InMemory) :
            j \in BOOLEAN, i \in BOOLEAN, c \in {"=f", "5"}, l \in BOOLEAN}
    \cup {Case([Rule(<<K>>) EXCEPT !.startRow = b, !.autoDetect = a], Sheet([r \in 1 .. n |-> <<IF r = 2 THEN "k" ELSE "">>]),
               Source(<<>>), InMemory) : b \in {0, 3}, a \in BOOLEAN, n \in 12 .. 16}

-----------------------------------------------------------------------------
(* Pages, answers that fail and records that change or disagree.            *)

Ten == [i \in 1 .. 4 |-> KP(<<"1", "2", "3", "9">>[i], "5")]
SourceCases ==
    {Case(Rule(<<K, P>>), Sheet(<<<<"k", "p">>, <<"1", "5">>>>),
          [records |-> SubSeq(Ten, 1, n), later |-> l, size |-> z, maxPages |-> g, maxRecords |-> m,
           tellsTotal |-> t, unreliable |-> u, method |-> h], InMemory) :
        n \in 0 .. 4, l \in {SubSeq(Ten, 1, 2), SubSeq(Ten, 2, 4)}, z \in {0, 1, 2, 3}, g \in {1, 3},
        m \in {2, 4}, t \in BOOLEAN, u \in BOOLEAN, h \in {"GET", "POST"}}
    \cup {Case([Rule(<<K, P, Q>>) EXCEPT !.overwrite = TRUE,
                                         !.cross = {[when |-> "p", equals |-> "5", required |-> "q"]}],
               Sheet(<<<<"k", "p">>, <<"1", "5">>>>), Source(<<r>>), InMemory) :
            r \in {[key |-> "1", price |-> "5"], [k |-> "1", key |-> "1.0", p |-> "7"],
                   [k |-> "1", p |-> "5", price |-> "7"], [K |-> "1", p |-> "x"], [k |-> "1", p |-> "5", q |-> "7"]}}
    \cup {Case(Rule(<<K, [P EXCEPT !.unique = TRUE, !.refused = {"3"}]>>), Sheet(<<<<"k", "p">>, <<"1", "5">>>>),
               Source(<<KP("1", "5"), r>>), InMemory) : r \in {KP("2", "5"), KP("2", "3"), KP("2", "7"), KP("x", "7")}}

MCCases == [keys |-> KeyCases, cells |-> CellCases, headers |-> HeaderCases, repairs |-> RepairCases, rows |-> RowCases,
            regions |-> RegionCases, checks |-> CheckCases, sources |-> SourceCases]

=============================================================================
