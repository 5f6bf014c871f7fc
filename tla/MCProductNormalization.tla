------------------------ MODULE MCProductNormalization ------------------------
EXTENDS ProductNormalization

\* Header cells and what they normalize to.
MCToken(h) ==
    CASE h \in {"Colour", "COLOUR"} -> "colour"
      [] h = "Color"                -> "color"
      [] OTHER                      -> h

\* Names that resemble each other; all others do not.
Alike == {{"colour", "color"}, {"colour", "colours"}, {"fone", "phones"}}
MCScore(a, b) == IF a = b THEN 100 ELSE IF {a, b} \in Alike THEN 96 ELSE 40

MCIds == <<"c1", "c2", "c3", "cat", "catid", "color", "hue", "key", "make", "size">>

PlainField(id, source, names) ==
    [id |-> id, source |-> source, names |-> names, required |-> FALSE, unique |-> FALSE,
     multiple |-> FALSE, enum |-> {}, type |-> "string"]

MCFixed == {[PlainField("cat", "fixed", {"cat"}) EXCEPT !.required = TRUE],
            PlainField("catid", "fixed", {"catid"}),
            [PlainField("key", "fixed", {"key"}) EXCEPT !.unique = TRUE]}

Color == [PlainField("color", "attribute", {"color"}) EXCEPT !.unique = TRUE]
Hue   == [PlainField("hue", "attribute", {"colours"}) EXCEPT !.type = "number"]
Size  == [PlainField("size", "specification", {"size"}) EXCEPT !.multiple = TRUE,
                                                               !.enum = {"x", "y", "z"}]

Category(names) == [active |-> TRUE, names |-> names]

\* c1 and c2 have a name in common; c3's sheet is called as c1's SKU sheet.
MCCatalogues ==
    {[categories |-> [c \in {"c1", "c2"} |->
          Category(IF c = "c1" THEN {"phones", "goods"} ELSE {"cases", "goods"})],
      fields |-> [c \in {"c1", "c2"} |->
          IF c = "c1" THEN {Color, Hue, Size}
          ELSE {Color, [Color EXCEPT !.id = "make", !.names = {"size", "make"}], Size}]],
     [categories |-> [c \in {"c1", "c2", "c3"} |->
          [Category(IF c = "c1" THEN {"phones"} ELSE {"goods"}) EXCEPT !.active = c # "c2"]],
      fields |-> [c \in {"c1", "c3"} |-> {Size}]],
     [categories |-> [c \in {"c1", "c2"} |-> Category(IF c = "c1" THEN {"phones"} ELSE {"goods"})],
      fields |-> [c \in {"c1"} |-> {Color}]]}

MCHeaderRows ==
    {<<"cat", "catid", "key">> \o h :
        h \in {<<"Color", "size">>, <<"Colour", "COLOUR">>, <<"COLOUR", "Color">>, <<"Colour", "Colour">>,
               <<"size", "size">>, <<"note", "note">>, <<"Colour", "size">>, <<"Color", "key">>}}

FirstRows == {<<n[1], n[2], "k">> \o v :
                n \in {<<"phones", "">>, <<"goods", "">>, <<"fone", "">>, <<"phones", "c2">>,
                       <<"", "c1">>, <<"phones", "c9">>},
                v \in {<<"x", "x,y,z">>, <<"bad", "x">>, <<"big", "">>}}
SecondRows == {<<"goods", "", "k", "x", "x,y">>, <<"phones", "", "", "x", "x">>,
               <<"", "c2", "", "x", "x">>, <<"", "", "", "", "">>}

MCRowLists == {<<r, s>> : r \in FirstRows, s \in SecondRows}

MCItems(v) == CASE v = "x,y,z" -> {"x", "y", "z"} [] v = "x,y" -> {"x", "y"}
                [] v = "" -> {} [] OTHER -> {v}
MCParses(v, f)    == ~(v = "bad" /\ f.type = "number")
MCWriteSafe(v, f) == v # "big"
MCInBounds(v, f)  == v # "bad"
MCCanonical(v, f) == v
MCCrossErrors(values) == IF values["cat"] = "phones" /\ values["key"] = "" THEN {"key"} ELSE {}
MCSheetName(c) == IF c = "c3" THEN <<"phones", "SKU">> ELSE <<"phones">>
\* A plain workbook; the result of an earlier job, with a metadata sheet, a sheet of
\* exactly the name c2's sheet may get, and one that has c1's name but for the case;
\* and one whose metadata sheet was renamed to another case.
MCWorkbooks ==
    {{<<"Products">>}, {<<"Products">>, <<"metadata">>},
     {<<"Products">>, MetadataName, <<"phones", "c2">>, <<"Phones">>}}
MCCasefold(p) ==
    CASE p = "Phones" -> "phones" [] p = "__ExcelAuditorMetadata" -> "metadata" [] OTHER -> p
=============================================================================
