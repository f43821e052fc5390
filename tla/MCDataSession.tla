------------------------------ MODULE MCDataSession ------------------------------
EXTENDS SessionPromises

MCLargest == (8 :> 3) @@ (16 :> 7) @@ (32 :> 15) @@ (64 :> 31)

MCWorkingDirectory == <<"/", "work">>

MCCaps == [bytes |-> 40, rows |-> 4, columns |-> 3, field |-> 6]

-----------------------------------------------------------------------------
(* Texts, in the order of their bytes.                                      *)

\* TLC keeps the value of a definition, and not that of what replaces a
\* constant: the tables are definitions of their own.
CodeTable ==
  LET bytes == <<Newline, Blank, Quote, Comma, "-", "0", "1", "2", "3", "4", "5", "6", "7", "8", "9",
                 "a", "b", "i", "m", "n", "x">>
  IN [ch \in ToSet(bytes) |-> SelectInSeq(bytes, LAMBDA b : b = ch)]
MCCodeOf == CodeTable

Digit(n) == <<"0", "1", "2", "3", "4", "5", "6", "7", "8", "9">>[n + 1]
Numeral(n) == IF n < 10 THEN <<Digit(n)>> ELSE <<Digit(n \div 10), Digit(n % 10)>>

Written1(n) ==
  CASE IsNaN(n)         -> <<"n">>
    [] n = Infinity     -> <<"i">>
    [] n = -Infinity    -> <<"-", "i">>
    [] n = NegativeZero -> <<"-", "0">>
    [] n < 0            -> <<"-">> \o Numeral(-n)
    [] OTHER            -> Numeral(n)

NumeralTable ==
  [n \in (-MaxFinite..MaxFinite) \cup {NaN, OtherNaN, Infinity, -Infinity, NegativeZero} |-> Text(Written1(n))]
MCNumeralOf == NumeralTable

NumberTable ==
  [text \in {Text(Numeral(n)) : n \in 0..30} |-> CHOOSE n \in 0..30 : Text(Numeral(n)) = text]
MCNumberOf == NumberTable

January == Text(<<"1", "-", "1">>)
Loose == Text(<<"1", "-", "1", "x">>)
MonthTable == January :> Text(<<"m", "1">>)
MCMonthOf == MonthTable
LooseMonthTable == January :> Text(<<"m", "1">>) @@ Loose :> Text(<<"m", "1">>)
MCLooseMonthOf == LooseMonthTable

A == Text(<<"a">>)
B == Text(<<"b">>)
M == Text(<<"m">>)
MCNameText == <<"f">> :> Text(<<"x">>) @@ <<"g">> :> Text(<<"x", "1">>)

-----------------------------------------------------------------------------
(* Tables.                                                                  *)

Line(text) == text \o <<Newline>>

TableOf(columns) ==
  [NoColumns EXCEPT !.columns = columns, !.rows = IF columns = <<>> THEN 0 ELSE Len(columns[1].cells)]

Numbers32(name, cells, valid) == NewColumn(name, "array", "int32", cells, valid, <<>>)
Doubles(name, cells, valid) == NewColumn(name, "array", "float64", cells, valid, <<>>)
Texts(name, cells, valid) ==
  NewColumn(name, "string", "uint8",
            [k \in DOMAIN cells |-> IF valid[k] THEN cells[k] ELSE NoText], valid, <<>>)
Categories(name, cells, valid, dictionary) ==
  NewColumn(name, "categorical", "uint32", cells, valid, dictionary)

T == TRUE
F == FALSE

Orders ==
  TableOf(<<Numbers32(<<"k">>, <<2, 1, 2, 0, 1>>, <<T, T, T, F, T>>),
            Doubles(<<"f">>, <<NaN, NegativeZero, 0, OtherNaN, 5>>, <<T, T, T, T, T>>),
            Doubles(<<"g">>, <<3, Infinity, 3, -2, 0>>, <<T, T, T, T, F>>),
            Categories(<<"c">>, <<1, 0, 1, 0, 0>>, <<T, T, T, F, T>>, <<B, A>>)>>)

Customers ==
  TableOf(<<Numbers32(<<"k">>, <<1, 4, 1, 0>>, <<T, T, T, F>>),
            Doubles(<<"h">>, <<0, OtherNaN, 5, 0>>, <<T, T, T, F>>),
            Categories(<<"c">>, <<0, 1, 2, 0>>, <<T, T, T, T>>, <<A, B, M>>),
            Texts(<<"s">>, <<A, B, A, M>>, <<T, F, T, T>>),
            NewColumn(<<"b">>, "array", "int8", <<3, 3, -2, 1>>, <<T, T, T, T>>, <<>>)>>)

Twice ==
  TableOf(<<Doubles(<<"f">>, <<0, NegativeZero, 0, 2, 2>>, <<T, T, T, F, F>>),
            Texts(<<"d">>, <<January, January, January, A, A>>, <<T, T, T, F, F>>)>>)

Dates == TableOf(<<Texts(<<"d">>, <<January, January, Loose>>, <<T, F, T>>),
                   Numbers32(<<"k">>, <<12, 15, 9>>, <<T, F, F>>)>>)

OneRow == TableOf(<<Doubles(<<"z">>, <<1>>, <<T>>)>>)

NoTables == [name \in {"a", "b", "out"} |-> NoTable]

NoHeap ==
  [arrays |-> [name \in {"p", "q", "r"} |-> NoArray], storages |-> <<>>,
   deleted |-> [buffer \in {Internal, "b1"} |-> 0]]

Session(theTables, theHeap, theMenu, calls) ==
  [tables |-> theTables, datasets |-> [name \in {"d", "e"} |-> NoDataset], heap |-> theHeap,
   menu |-> theMenu, files |-> <<>>, contents |-> <<>>, calls |-> calls, adopted |-> {}, programs |-> {}]

-----------------------------------------------------------------------------
Key(column, ascending) == [column |-> column, ascending |-> ascending]
Sort(out, source, order) == [op |-> "sort", out |-> out, source |-> source, order |-> order]

TwoTables == [NoTables EXCEPT !["a"] = Orders, !["b"] = Customers]

Sorting ==
  Session(TwoTables, NoHeap,
    <<Sort("out", "a", <<Key(<<"f">>, T)>>), Sort("out", "a", <<Key(<<"f">>, F), Key(<<"k">>, T)>>),
      Sort("out", "a", <<Key(<<"c">>, T), Key(<<"g">>, F)>>), Sort("out", "b", <<Key(<<"s">>, F)>>),
      Sort("a", "out", <<Key(<<"k">>, F)>>), Sort("out", "a", <<>>), Sort("a", "a", <<Key(<<"k">>, T)>>),
      Sort("out", "b", <<Key(<<"k">>, T), Key(<<"x">>, T)>>)>>, 3)

Aggregate1(column, operation) == [column |-> column, operation |-> operation, name |-> <<"v">> \o column \o <<operation>>]
Group(out, source, names, aggregates) ==
  [op |-> "group_by", out |-> out, source |-> source, names |-> names, aggregates |-> aggregates]

Grouping ==
  Session(TwoTables, NoHeap,
    <<Group("out", "a", <<<<"f">>>>, <<Aggregate1(<<"k">>, "sum"), Aggregate1(<<"g">>, "count")>>),
      Group("out", "a", <<<<"k">>, <<"c">>>>, <<Aggregate1(<<"f">>, "min"), Aggregate1(<<"g">>, "max")>>),
      Group("out", "a", <<<<"c">>>>, <<Aggregate1(<<"g">>, "sum"), Aggregate1(<<"g">>, "mean"),
                                       Aggregate1(<<"f">>, "max")>>),
      Group("out", "a", <<>>, <<Aggregate1(<<"k">>, "sum"), Aggregate1(<<"k">>, "mean"),
                                Aggregate1(<<"c">>, "count")>>),
      Group("out", "b", <<<<"s">>>>, <<Aggregate1(<<"h">>, "min"), Aggregate1(<<"h">>, "min")>>),
      Group("out", "b", <<<<"s">>>>, <<Aggregate1(<<"s">>, "sum")>>),
      Group("out", "b", <<<<"s">>>>, <<Aggregate1(<<"b">>, "sum")>>),
      Group("out", "b", <<>>, <<Aggregate1(<<"b">>, "sum")>>),
      Group("out", "out", <<>>, <<>>),
      Sort("b", "out", <<Key(<<"f">>, T)>>)>>, 2)

Wide == [rows |-> 100, memory |-> 1000]
JoinOn(names, otherNames, kind, limits) ==
  [op |-> "join", out |-> "out", source |-> "a", other |-> "b", names |-> names,
   otherNames |-> otherNames, kind |-> kind, limits |-> limits]

Joining ==
  Session(TwoTables, NoHeap,
    <<JoinOn(<<<<"k">>>>, <<<<"k">>>>, "inner", Wide), JoinOn(<<<<"f">>>>, <<<<"h">>>>, "full", Wide),
      JoinOn(<<<<"c">>>>, <<<<"c">>>>, "left", Wide), JoinOn(<<<<"k">>, <<"c">>>>, <<<<"k">>, <<"c">>>>, "right", Wide),
      JoinOn(<<<<"k">>>>, <<<<"s">>>>, "inner", Wide), JoinOn(<<>>, <<>>, "inner", Wide),
      JoinOn(<<<<"k">>>>, <<<<"k">>>>, "full", [Wide EXCEPT !.rows = 4]),
      JoinOn(<<<<"k">>>>, <<<<"k">>>>, "full", [Wide EXCEPT !.memory = 20])>>, 1)

-----------------------------------------------------------------------------
Made(theOp, out, source) == [op |-> theOp, out |-> out, source |-> source]
Named(theOp, out, source, names) == [op |-> theOp, out |-> out, source |-> source, names |-> names]
Masked(out, source, array) == [op |-> "filter", out |-> out, source |-> source, array |-> array]
Than(out, source, name, operator, threshold) ==
  [op |-> "filter_numeric", out |-> out, source |-> source, name |-> name, operator |-> operator,
   threshold |-> threshold]

\* The mask is the middle of a longer array, read backwards.
MaskHeap ==
  [NoHeap EXCEPT
     !.storages = 1 :> [cells |-> <<0, 1, 1, 0, 1, 0, 1>>, references |-> 1, buffer |-> Internal],
     !.arrays["p"] = [storage |-> 1, dtype |-> "bool", shape |-> <<5>>, strides |-> <<-1>>, offset |-> 5,
                      own |-> FALSE, readonly |-> FALSE]]

Choosing ==
  Session([NoTables EXCEPT !["a"] = Orders, !["b"] = Twice], MaskHeap,
    <<Masked("out", "a", "p"), Masked("out", "b", "p"), Masked("out", "a", "q"), Masked("a", "out", "p"),
      Named("drop_nulls", "out", "a", <<>>), Named("drop_nulls", "out", "a", <<<<"k">>, <<"f">>>>),
      Named("drop_nulls", "out", "b", <<<<"x">>>>), Named("select", "out", "a", <<<<"c">>, <<"k">>>>),
      Named("select", "out", "a", <<<<"c">>, <<"c">>>>), Made("drop_duplicates", "out", "b"),
      Made("drop_duplicates", "out", "a"), Made("clone", "b", "out"), Made("clone", "a", "a"),
      Than("out", "a", <<"k">>, ">=", 2), Than("out", "a", <<"f">>, "<", 2), Than("out", "b", <<"f">>, "==", 0),
      Than("out", "a", <<"k">>, "=", 2), Than("b", "b", <<"f">>, ">", 0), Made("drop_duplicates", "b", "b")>>, 2)

-----------------------------------------------------------------------------
Value(type, dtype, cell) == [type |-> type, dtype |-> dtype, cell |-> cell]
Fill(out, name, value) == [op |-> "fill_null", out |-> out, name |-> name, value |-> value]
Times2(theOp, out, name, other, output) ==
  [op |-> theOp, out |-> out, name |-> name, other |-> other, output |-> output]
Month(theOp, out, name, output) == [op |-> theOp, out |-> out, name |-> name, output |-> output]
Stat(out, source, name, output, statistic, percent) ==
  [op |-> "add_statistic", out |-> out, source |-> source, name |-> name, output |-> output,
   statistic |-> [name |-> statistic, percent |-> percent]]
Melt(out, source, names, values) ==
  [op |-> "unpivot", out |-> out, source |-> source, names |-> names, values |-> values]

Changing ==
  Session([NoTables EXCEPT !["a"] = Orders, !["b"] = Dates, !["out"] = OneRow], NoHeap,
    <<Fill("a", <<"k">>, Value("array", "int32", 7)), Fill("a", <<"k">>, Value("array", "int64", 7)),
      Fill("a", <<"c">>, Value("categorical", "bool", 1)), Fill("a", <<"c">>, Value("categorical", "bool", 2)),
      Fill("b", <<"d">>, Value("string", "bool", NotUtf8)), Fill("b", <<"d">>, Value("string", "bool", January)),
      Fill("b", <<"k">>, Value("array", "int32", 20)),
      Times2("add_product", "a", <<"k">>, <<"f">>, <<"p">>), Times2("add_product", "b", <<"k">>, <<"k">>, <<"p">>),
      Times2("add_product", "b", <<"k">>, <<"d">>, <<"k">>), Times2("add_product", "a", <<"k">>, <<"k">>, <<"p">>),
      Month("add_month", "b", <<"d">>, <<"m">>), Month("add_month", "out", <<"d">>, <<"m">>), Month("add_month", "b", <<"k">>, <<"m">>),
      Stat("out", "a", <<"k">>, <<"s1">>, "variance", 0), Stat("out", "b", <<"k">>, <<"s2">>, "deviation", 0),
      Stat("out", "a", <<"k">>, <<"s3">>, "median", 0), Stat("out", "b", <<"k">>, <<"s4">>, "percentile", 25),
      Stat("out", "a", <<"g">>, <<"s5">>, "percentile", 50), Stat("b", "a", <<"k">>, <<"s6">>, "median", 0),
      Melt("out", "a", <<<<"k">>>>, <<<<"f">>, <<"g">>>>), Melt("out", "a", <<<<"k">>>>, <<<<"f">>, <<"c">>>>),
      Made("drop_duplicates", "out", "b"), Named("drop_nulls", "out", "b", <<>>)>>, 2)

-----------------------------------------------------------------------------
AddArray(out, name, array) == [op |-> "add_array", out |-> out, name |-> name, array |-> array]
AddString(out, name, cells, valid) ==
  [op |-> "add_string", out |-> out, name |-> name, cells |-> cells, valid |-> valid]
AddCategory(out, name, dtype, cells, valid, dictionary) ==
  [op |-> "add_categorical", out |-> out, name |-> name, dtype |-> dtype, cells |-> cells,
   valid |-> valid, dictionary |-> dictionary]
Remark(theOp, out, name) == [op |-> theOp, out |-> out, name |-> name, key |-> "unit", text |-> <<"m">>]

Building ==
  Session(NoTables, MaskHeap,
    <<AddArray("a", <<"k">>, "p"), AddArray("a", <<"x">>, "q"), AddArray("a", <<>>, "p"),
      AddString("a", <<"s">>, <<A, B, A, M, M>>, <<T, T, F, T, F>>), AddString("a", <<"s">>, <<A>>, <<T>>),
      AddString("a", <<"t">>, <<A, NotUtf8>>, <<T, T>>),
      AddCategory("a", <<"c">>, "uint8", <<1, 0, 5, 0, 1>>, <<T, T, F, T, T>>, <<B, A>>),
      AddCategory("a", <<"c">>, "uint8", <<1, 0, 5, 0, 1>>, <<T, T, T, T, T>>, <<B, A>>),
      AddCategory("a", <<"u">>, "uint8", <<0>>, <<T>>, <<B, B>>), AddCategory("a", <<"u">>, "int8", <<0>>, <<T>>, <<B>>),
      Remark("set_metadata", "a", <<"k">>), Remark("own_metadata", "a", <<>>),
      [Remark("own_metadata", "b", <<>>) EXCEPT !.text = <<BrokenByte>>], [op |-> "destroy", out |-> "a"],
      Made("clone", "b", "a"), Group("out", "a", <<<<"s">>>>, <<Aggregate1(<<"k">>, "count")>>)>>, 3)


-----------------------------------------------------------------------------
(* Data sets, and the files they come from.                                  *)

Lines(records) == FlattenSeq([n \in DOMAIN records |-> Line(records[n])])
Header == <<"n", ",", "d">>

\* A field between quotes holds a comma, a line end and a quote.
Quoted == Lines(<<Header, <<Quote, "a", Comma, Newline, Quote, Quote, Quote, Blank, ",", "2">>, <<>>,
                  <<"5", Comma, "1", "-", "1">>, <<"5", Comma, "1", "-", "1">>, <<"3", Quote, Comma, "a">>, <<"7">>>>)
Plain2 == <<"n", ",", "d", Return, Newline, "2", ",", "1", "-", "1", Return, "2", ",", "1", "-", "1", Return, Newline,
           "3", ",">>
Unclosed == Lines(<<Header, <<Quote, "2", ",", "3">>>>)
Cut == Lines(<<Header, <<"2", ",", "3", Nul, ",", "x">>, <<BrokenByte, ",", "1">>>>)
Repeated2 == Lines(<<<<"n", ",", "n">>, <<"1", ",", "2">>>>)

Work(name) == <<"/", "work", name>>
FileAt(name) == <<name>>

SomeFiles == <<Quoted, Plain2, Unclosed, Cut, Repeated2, <<>>>>
FileNames == <<"quoted", "plain", "unclosed", "cut", "repeated", "empty">>

Unbudgeted(rows) == [bounded |-> FALSE, bytes |-> 0, rows |-> rows, columns |-> 3, field |-> 5]
Load(out, name, limits) == [op |-> "load", out |-> out, path |-> FileAt(name), limits |-> limits]
InPlace(theOp, out) == [op |-> theOp, out |-> out]
Swap(theOp, out, other) == [op |-> theOp, out |-> out, other |-> other]
Numeric == [kind |-> "numeric", role |-> "feature"]
Category == [kind |-> "categorical", role |-> "input"]

Loading ==
  [Session([NoTables EXCEPT !["a"] = Orders, !["b"] = Dates], NoHeap,
    <<Load("d", "quoted", Unbudgeted(4)), Load("d", "plain", Unbudgeted(3)), Load("d", "unclosed", Unbudgeted(3)),
      Load("e", "cut", Unbudgeted(3)), Load("d", "repeated", Unbudgeted(3)), Load("d", "empty", Unbudgeted(3)),
      Load("d", "missing", Unbudgeted(3)), Load("d", "plain", Unbudgeted(1)), Load("d", "plain", Unbudgeted(0)),
      Load("d", "quoted", [Unbudgeted(4) EXCEPT !.columns = 1]),
      Times2("dataset_product", "d", <<"n">>, <<"n">>, <<"p">>), Times2("dataset_product", "d", <<"n">>, <<"d">>, <<"p">>),
      Times2("dataset_product", "d", <<"n">>, <<"x">>, <<"p">>), Month("dataset_month", "d", <<"d">>, <<"m">>),
      Month("dataset_month", "d", <<"x">>, <<"m">>),
      InPlace("remove_nulls", "d"), InPlace("remove_duplicates", "d"),
      [op |-> "from_dataset", out |-> "out", source |-> "d", schema |-> (<<"n">> :> Numeric @@ <<"d">> :> Category)],
      [op |-> "from_dataset", out |-> "out", source |-> "e", schema |-> (<<"x">> :> Category)],
      Made("to_dataset", "d", "a"), Made("to_dataset", "d", "b"), Made("to_dataset", "d", "out")>>, 3)
   EXCEPT !.files = [place \in {Work(FileNames[n]) : n \in DOMAIN FileNames} |->
                       CHOOSE n \in DOMAIN FileNames : place = Work(FileNames[n])],
          !.contents = [n \in DOMAIN SomeFiles |-> Csv(SomeFiles[n])]]

-----------------------------------------------------------------------------
(* Arrays.                                                                   *)

Values(out, dtype, shape, cells) ==
  [op |-> "from_values", out |-> out, dtype |-> dtype, shape |-> shape, cells |-> cells]
View(theOp, out, source, shape) == [op |-> theOp, out |-> out, source |-> source, shape |-> shape]
Slice(theOp, out, source, axis, start, stop, step) ==
  [op |-> theOp, out |-> out, source |-> source, axis |-> axis,
   slice |-> [start |-> start, stop |-> stop, step |-> step]]
Transpose(out, source, axes) == [op |-> "transpose", out |-> out, source |-> source, axes |-> axes]
WriteAt(out, index, cell) == [op |-> "write", out |-> out, index |-> index, cell |-> cell]
Buffer(out, cells, view) ==
  [op |-> "from_buffer", out |-> out, buffer |-> "b1", dtype |-> "int16", cells |-> cells, view |-> view]
Look(shape, strides, offset, readonly) ==
  [shape |-> shape, strides |-> strides, offset |-> offset, readonly |-> readonly]

\* Two rows of three within a longer storage, and a row of booleans.
Storages ==
  1 :> [cells |-> <<7, 1, 2, 3, 4, 5, 6, 0>>, references |-> 1, buffer |-> "b1"] @@
  2 :> [cells |-> <<1, 0, 1>>, references |-> 1, buffer |-> Internal]

OfStorage(id, dtype, shape, strides, offset) ==
  [storage |-> id, dtype |-> dtype, shape |-> shape, strides |-> strides, offset |-> offset, own |-> FALSE,
   readonly |-> FALSE]

TwoArrays ==
  [arrays |-> ("p" :> OfStorage(1, "int16", <<2, 3>>, <<3, 1>>, 1)) @@ ("q" :> OfStorage(2, "bool", <<3>>, <<1>>, 0))
                @@ ("r" :> NoArray),
   storages |-> Storages, deleted |-> [buffer \in {Internal, "b1", "b2"} |-> 0]]

Slices ==
  <<Slice("slice", "r", "p", 2, <<>>, <<>>, -1), Slice("slice", "r", "p", 2, <<1>>, <<>>, 2),
    Slice("slice", "r", "p", 2, <<-2>>, <<-1>>, 1), Slice("slice", "r", "p", 1, <<-1>>, <<0>>, -1),
    Slice("slice", "r", "p", 2, <<9>>, <<-9>>, -2), Slice("slice", "r", "p", 2, <<2>>, <<1>>, 1),
    Slice("slice", "r", "p", 3, <<>>, <<>>, 1), Slice("slice", "r", "p", 2, <<>>, <<>>, 0),
    Slice("slice", "p", "r", 2, <<>>, <<-1>>, -1), Slice("slice_within", "r", "p", 2, <<1>>, <<3>>, 2),
    Slice("slice_within", "r", "p", 2, <<1>>, <<4>>, 1), Slice("slice", "r", "p", 2, <<>>, <<>>, 41)>>

Viewing ==
  [Session(NoTables, TwoArrays,
    Slices \o
    <<Transpose("r", "p", <<>>), Transpose("q", "r", <<2, 1>>), Transpose("r", "p", <<1, 1>>),
      View("broadcast", "q", "r", <<2, 2, 3>>), View("broadcast", "r", "q", <<2, 3>>), View("broadcast", "r", "p", <<2, 2>>),
      View("share", "r", "p", <<>>), View("share", "p", "p", <<>>), View("reshape_view", "q", "r", <<3, 2>>),
      View("reshape_view", "r", "p", <<6>>), View("reshape_view", "r", "p", <<4>>), View("reshape_copy", "q", "r", <<6>>),
      WriteAt("r", 1, 9), WriteAt("p", 2, 8), InPlace("release", "p"), InPlace("release", "r")>>, 3)
   EXCEPT !.adopted = {"b1"}]

Holding ==
  Session(NoTables, NoHeap,
    <<Values("p", "int16", <<2, 2>>, <<1, 2, 3, 4>>), Values("q", "bool", <<2, 2>>, <<1, 0, 0, 1>>),
      Values("p", "int16", <<7, 9>>, [k \in 1..63 |-> 0]),
      [op |-> "zeros", out |-> "p", dtype |-> "float64", shape |-> <<0, 3>>],
      Buffer("r", <<1, 2, 3>>, Look(<<2, 2>>, <<1, 1>>, 0, FALSE)), Buffer("r", <<1, 2, 3>>, Look(<<4>>, <<>>, 0, FALSE)),
      Buffer("r", <<1, 2, 3>>, Look(<<2, 3>>, <<0, -1>>, 2, TRUE)), Buffer("r", <<1, 2, 3>>, Look(<<2>>, <<0>>, 0, FALSE)),
      View("share", "p", "r", <<>>), WriteAt("r", 0, 5), InPlace("release", "r"), InPlace("release", "p"),
      InPlace("retain", "r"), Swap("swap_arrays", "p", "r"),
      [op |-> "boolean_mask", out |-> "r", source |-> "p", other |-> "q"],
      [op |-> "nonzero", out |-> "r", source |-> "q"], [op |-> "nonzero", out |-> "r", source |-> "p"],
      [op |-> "where", out |-> "r", condition |-> "q", source |-> "p", other |-> "p"]>>, 4)

-----------------------------------------------------------------------------
(* Numbers: doubles in a transposed table of two by three, and bytes.        *)

Doubles2 ==
  1 :> [cells |-> <<2, -3, 0, 5, 40, 1>>, references |-> 1, buffer |-> Internal] @@
  2 :> [cells |-> <<3, 2>>, references |-> 1, buffer |-> Internal]

NumberHeap ==
  [arrays |-> ("p" :> OfStorage(1, "float64", <<3, 2>>, <<1, 3>>, 0)) @@ ("q" :> OfStorage(2, "int8", <<2>>, <<-1>>, 1))
                @@ ("r" :> NoArray),
   storages |-> Doubles2, deleted |-> [buffer \in {Internal, "b1"} |-> 0]]

Binary(out, source, other, operator) ==
  [op |-> "binary", out |-> out, source |-> source, other |-> other, operator |-> operator]
Along(theOp, out, source, along, keepdims) ==
  [op |-> theOp, out |-> out, source |-> source, along |-> along, keepdims |-> keepdims]
Statistic1(out, source, along, keepdims, kind) ==
  [op |-> "statistic", out |-> out, source |-> source, along |-> along, keepdims |-> keepdims, kind |-> kind]
Rank(out, source, along, percent) ==
  [op |-> "percentile", out |-> out, source |-> source, along |-> along, keepdims |-> FALSE, percent |-> percent]
Cast(out, source, dtype) == [op |-> "cast", out |-> out, source |-> source, dtype |-> dtype]

Computing ==
  Session(NoTables, NumberHeap,
    <<Binary("r", "p", "q", "add"), Binary("r", "q", "q", "multiply"), Binary("r", "q", "q", "add"),
      Binary("r", "p", "p", "multiply"), Binary("r", "p", "p", "divide"), Binary("r", "q", "p", "subtract"),
      Binary("r", "p", "q", "less"), Binary("r", "q", "p", "equal"), Binary("q", "r", "p", "greater"),
      Cast("r", "p", "int32"), Cast("q", "r", "bool"), Cast("r", "q", "float32"),
      [op |-> "greater_f64", out |-> "r", source |-> "p", threshold |-> 1],
      [op |-> "greater_f64", out |-> "r", source |-> "q", threshold |-> 1],
      Made("is_nan", "r", "p"), Made("is_finite", "r", "q"), Made("argmin", "r", "p"), Made("argmax", "q", "p"),
      Along("sum", "r", "p", 0, FALSE), Along("sum", "q", "p", -2, TRUE), Along("sum", "q", "r", -1, FALSE),
      Along("sum", "r", "p", 2, FALSE), Along("product", "r", "q", -1, FALSE), Along("product", "r", "p", 0, TRUE),
      Statistic1("r", "p", 0, FALSE, "mean"), Statistic1("r", "p", 1, TRUE, "min"), Statistic1("r", "p", -1, FALSE, "max"),
      Statistic1("q", "p", 0, TRUE, "variance"), Statistic1("r", "p", 1, FALSE, "deviation"),
      Rank("r", "p", 0, 50), Rank("r", "p", -1, 30), Rank("r", "p", 0, 101)>>, 2)

NotNumbers ==
  Session(NoTables,
    [NumberHeap EXCEPT !.storages[1].cells = <<NaN, Infinity, 0, -Infinity, NegativeZero, 2>>],
    <<Binary("r", "p", "q", "add"), Binary("r", "p", "p", "multiply"), Binary("r", "p", "p", "subtract"),
      Binary("r", "p", "p", "equal"), Cast("r", "p", "int32"), Cast("r", "p", "float32"), Made("is_nan", "r", "p"),
      Made("is_finite", "r", "p"), Made("argmin", "r", "p"), Along("sum", "r", "p", 1, FALSE),
      Along("product", "r", "p", 1, FALSE), Statistic1("r", "p", 1, FALSE, "max"), Statistic1("r", "p", 1, FALSE, "mean"),
      Rank("r", "p", 1, 50), Slice("slice", "q", "p", 1, <<1>>, <<>>, 1), Statistic1("r", "q", 0, FALSE, "variance")>>, 2)

-----------------------------------------------------------------------------
(* Plans: a file of numbers, one whose last row is past a limit, one that is *)
(* another name for an output.                                               *)

Sales == Lines(<<<<"n", ",", "a">>, <<"2", ",", "x">>, <<",", "x">>, <<"3", ",", "5">>>>)
Many == Lines(<<<<"n">>, <<"1">>, <<"2">>, <<"3">>, <<"5">>, <<"7">>>>)
Words == Lines(<<<<"n">>, <<"1">>, <<"a">>>>)
Nothing == Lines(<<<<"n">>>>)

PlanFiles ==
  Work("sales") :> 1 @@ <<"/", "home", "many">> :> 2 @@ Work("words") :> 3 @@ Work("nothing") :> 4
    @@ <<"/", "home", "link">> :> 1
PlanContents == <<Csv(Sales), Csv(Many), Csv(Words), Csv(Nothing)>>

Planned(source, export, operation) ==
  [source |-> source, export |-> export, column |-> <<"n">>, operation |-> operation, caps |-> MCCaps,
   present |-> FALSE, span |-> <<0, 0>>]

Run(block) ==
  [op |-> "run_data", block |-> block, script |-> <<"/", "home", "plan">>,
   limits |-> [bytes |-> 0, rows |-> 0, columns |-> 0, field |-> 0]]
RunPlan(source, export, operation) == Run(Block(Planned(source, export, operation)))
RunWithin(limit, value) ==
  [RunPlan(<<"many">>, <<"r2">>, "sum") EXCEPT !.limits[limit] = value]

Sum1 == Block(Planned(<<"sales">>, <<"r1">>, "sum"))

Reporting ==
  [Session(NoTables, NoHeap,
    <<Run(Sum1), RunPlan(<<"sales">>, <<".", "r1">>, "count"), RunPlan(<<"many">>, <<"..", "work", "sales">>, "sum"),
      RunPlan(<<"sales">>, <<"link">>, "sum"), RunPlan(<<"many">>, <<"many">>, "sum"), RunPlan(<<"words">>, <<"r2">>, "sum"),
      RunPlan(<<"nothing">>, <<"r2">>, "sum"), RunPlan(<<"gone">>, <<"r2">>, "sum"), RunWithin("rows", 5), RunWithin("bytes", 5),
      RunWithin("field", 1), RunPlan(<<"/", "work", "sales">>, <<"r2">>, "count"),
      Run([Sum1 EXCEPT !.length = 8]), Run([Sum1 EXCEPT !.caps.rows = 0]), Run([Sum1 EXCEPT !.inputType = 2]),
      Run([Sum1 EXCEPT !.strings[4] = <<"n">>, !.tableBytes = @ - 5, !.sectionBytes = @ - 5, !.length = @ - 5])>>, 2)
   EXCEPT !.files = PlanFiles, !.contents = PlanContents]

\* Programs of one column of name n, and what a plan has no place for.
Summed(name, operation) ==
  [kind |-> "summarize", dataset |-> 1,
   aggregates |-> <<[operation |-> operation, output |-> name \o Suffix(operation), percentile |-> 0, span |-> <<>>]>>,
   refs |-> <<[name |-> name, type |-> "numeric", declaredType |-> "numeric", span |-> <<2, 1>>]>>]
Program(name, source, export, operation) ==
  [source |-> [path |-> source, dataset |-> 1, options |-> {}], export |-> export, policy |-> {},
   declared |-> <<[name |-> name, type |-> "unknown", declaredType |-> "numeric"]>>,
   operations |-> <<Summed(name, operation)>>]
Sum2 == Program(<<"n">>, <<"many">>, <<"r1">>, "sum")
Compile(program) == [op |-> "compile", program |-> program]
Aggregated(change) == [Sum2 EXCEPT !.operations[1].aggregates[1] = change @@ @]
LongPath == [k \in 1..11 |-> "d"]

Compiling ==
  [Session(NoTables, NoHeap,
    <<Compile(Sum2), Compile(Program(<<"n">>, <<"sales">>, <<"r2">>, "count")),
      Compile([Sum2 EXCEPT !.source.options = {"streaming"}]), Compile([Sum2 EXCEPT !.declared[1].declaredType = "text"]),
      Compile([Sum2 EXCEPT !.export = <<>>]), Compile([Sum2 EXCEPT !.operations = @ \o @]),
      Compile([Sum2 EXCEPT !.operations[1].dataset = 2]), Compile(Program(<<"n">>, <<"many">>, <<"r1">>, "mean")),
      Compile(Aggregated("output" :> <<"n">>)), Compile(Aggregated("span" :> <<1, 64>>)),
      Compile(Aggregated("span" :> <<1, 2>>)), Compile([Sum2 EXCEPT !.policy = {"max_input_rows"}]),
      Compile(Program(<<"1", "n">>, <<"many">>, <<"r1">>, "sum")), Compile(Program(<<"n", "m", "a", "b">>, <<"many">>, <<"r1">>, "sum")),
      Compile(Program(<<"n">>, LongPath, LongPath, "sum")), Compile(Program(<<"n">>, LongPath, <<"r1">>, "sum")),
      [op |-> "run_compiled", script |-> <<"/", "home", "plan">>,
       limits |-> [bytes |-> 0, rows |-> 0, columns |-> 0, field |-> 0]]>>, 3)
   EXCEPT !.files = PlanFiles, !.contents = PlanContents]

-----------------------------------------------------------------------------
(* Data programs over two tables, and one that is neither's.                 *)

LoadNode(path) == [kind |-> "load", path |-> path, flow |-> FALSE]
DeclareNode(name, type) == [kind |-> "declare", name |-> name, type |-> type]
PeriodCommand == [kind |-> "period"]
ProductCommand(left, right) == [kind |-> "product", left |-> left, right |-> right]
TransformNode(commands) == [kind |-> "transform", commands |-> commands]
FilterNode(column, operator, threshold) ==
  [kind |-> "filter",
   conditions |-> <<[numeric |-> TRUE, column |-> column, operator |-> operator, threshold |-> threshold]>>]
Metric(operation, column) == [operation |-> operation, column |-> column]
GroupNode(key, metrics) == [kind |-> "group", flow |-> FALSE, keys |-> <<key>>, metrics |-> metrics]
SummarizeNode(metrics) == [kind |-> "summarize", metrics |-> metrics]
CleanNode(kinds) ==
  [kind |-> "clean", commands |-> [n \in DOMAIN kinds |-> [kind |-> kinds[n], action |-> "remove"]]]
JoinNode(path, key, rows) == [kind |-> "join", rights |-> <<path>>, keys |-> <<key>>, rows |-> rows, memory |-> 100]
SelectNode(names) == [kind |-> "select", names |-> names]
ExportNode(path) == [kind |-> "export", path |-> path]

OfFile(path) == <<[key |-> PathKey, value |-> path]>>
Bought ==
  [TableOf(<<Numbers32(<<"k">>, <<2, 1, 2>>, <<T, F, T>>), Doubles(<<"n">>, <<3, 0, 3>>, <<T, T, T>>),
             Texts(DateColumn, <<January, Loose, January>>, <<T, F, T>>)>>)
     EXCEPT !.metadata = OfFile(<<"many">>)]
Catalogue ==
  [TableOf(<<Numbers32(<<"k">>, <<2, 4, 2, 1>>, <<T, T, T, T>>), Categories(<<"c">>, <<0, 1, 1, 0>>, <<T, T, T, T>>, <<A, B>>)>>)
     EXCEPT !.metadata = OfFile(<<"words">>)]

N == <<"n">>
Parse(tree) == [op |-> "parse", program |-> "p", accepted |-> TRUE, tree |-> <<LoadNode(<<"many">>)>> \o tree]
Bind(table, right) == [op |-> "bind", program |-> "p", table |-> table, right |-> right]
Execute(out, policy) == [op |-> "execute", program |-> "p", out |-> out, policy |-> policy]
Limits(input, output, columns) == {[input |-> input, output |-> output, columns |-> columns]}
OnProgram(theOp) == [op |-> theOp, program |-> "p"]

Programs ==
  [Session([NoTables EXCEPT !["a"] = Bought, !["b"] = Catalogue], NoHeap,
    <<Parse(<<TransformNode(<<PeriodCommand, ProductCommand(<<"k">>, N)>>), FilterNode(TotalColumn, ">=", 6),
              SelectNode(<<TotalColumn, N, PeriodColumn>>), ExportNode(<<"r1">>)>>),
      Parse(<<DeclareNode(N, "numeric"), TransformNode(<<ProductCommand(N, N), PeriodCommand>>),
              GroupNode(PeriodColumn, <<Metric("mean", TotalColumn), Metric("count", DateColumn), Metric("min", N)>>)>>),
      Parse(<<CleanNode(<<"nulls", "duplicates">>), JoinNode(<<"words">>, <<"k">>, 5)>>),
      Parse(<<JoinNode(<<"words">>, <<"k">>, 1)>>), Parse(<<JoinNode(<<"words">>, N, 5)>>),
      Parse(<<JoinNode(<<"words">>, <<"k">>, 0)>>),
      Parse(<<DeclareNode(N, "numeric"), SummarizeNode(<<Metric("count", N)>>), ExportNode(<<"r1">>)>>),
      Parse(<<SummarizeNode(<<Metric("max", DateColumn)>>)>>), Parse(<<SummarizeNode(<<Metric("variance", N)>>)>>),
      Parse(<<DeclareNode(<<"k">>, "text")>>), Parse(<<FilterNode(PeriodColumn, ">", 1), TransformNode(<<PeriodCommand>>)>>),
      Parse(<<TransformNode(<<PeriodCommand>>), FilterNode(PeriodColumn, ">", 1)>>),
      Parse(<<SelectNode(<<N>>), FilterNode(N, ">", 1)>>), Parse(<<TransformNode(<<PeriodCommand, PeriodCommand>>)>>),
      [Parse(<<>>) EXCEPT !.accepted = FALSE], Parse(<<>>),
      Bind("a", <<>>), Bind("b", <<>>), Bind("a", <<"b">>), Bind("out", <<>>), Bind("a", <<"out">>),
      Execute("out", {}), Execute("a", {}), Execute("out", Limits(3, 2, 5)), Execute("out", Limits(4, 5, 4)),
      OnProgram("release_program"), OnProgram("compiler_input"),
      [Parse(<<DeclareNode(N, "numeric"), SummarizeNode(<<Metric("count", N)>>), ExportNode(<<"r1">>)>>)
         EXCEPT !.op = "compile_program"],
      [Parse(<<>>) EXCEPT !.op = "compile_program"],
      [op |-> "own_metadata", out |-> "b", key |-> PathKey, text |-> <<"many">>],
      Made("clone", "b", "a"), Swap("swap_tables", "a", "b"), Times2("add_product", "a", N, N, <<"z">>), InPlace("destroy", "b")>>, 4)
   EXCEPT !.programs = {"p"}]

-----------------------------------------------------------------------------
(* Small files, loaded under small budgets.                                  *)

Characters == <<Quote, Comma, Blank, "a", Newline>>

\* All texts in the order of their length and then of their characters, from the
\* empty one, which is at 0.
Shorter(length, characters) ==
  ((Len(characters) ^ length) - 1) \div (Len(characters) - 1)

TextAt(k, characters) ==
  LET base == Len(characters)
      length == CHOOSE n \in 0..k : Shorter(n, characters) =< k /\ k < Shorter(n + 1, characters)
      rank == k - Shorter(length, characters)
  IN [i \in 1..length |-> characters[((rank \div (base ^ (length - i))) % base) + 1]]

\* The texts of at most four characters and those of five that begin with a quote;
\* after a header of two columns, those of at most four; with returns, of at most
\* three.
Alone == Shorter(5, Characters) + (Len(Characters) ^ 4)
AfterHeader == Shorter(5, Characters)
SmallFiles == Alone + AfterHeader + Shorter(4, Append(Characters, Return))

SmallFile(k) ==
  IF k < Alone THEN TextAt(k, Characters)
  ELSE IF k < Alone + AfterHeader THEN Line(Header) \o TextAt(k - Alone, Characters)
  ELSE TextAt(k - Alone - AfterHeader, Append(Characters, Return))

Budget(bytes, rows, columns, field) ==
  [bounded |-> TRUE, bytes |-> bytes, rows |-> rows, columns |-> columns, field |-> field]

\* Room for everything but long fields, more columns, more rows or more bytes, and
\* for everything.
Budgets ==
  <<Budget(20, 5, 5, 1), Budget(20, 5, 5, 2), Budget(20, 5, 1, 5), Budget(20, 5, 2, 3),
    Budget(20, 1, 5, 5), Budget(6, 5, 5, 5), Budget(20, 6, 6, 6)>>

LoadingWithin(file) ==
  [Session(NoTables, NoHeap, [n \in DOMAIN Budgets |-> Load("d", "small", Budgets[n])], 1)
     EXCEPT !.files = Work("small") :> 1, !.contents = <<Csv(file)>>]

NamedSessions ==
  <<Sorting, Grouping, Joining, Choosing, Changing, Building, Loading, Viewing, Holding, Computing, NotNumbers,
    Reporting, Compiling, Programs>>
NamedCount == 14
ASSUME NamedCount = Len(NamedSessions)

\* TLC looks these up before it keeps values: one is made without the others.
AllSessions ==
  [n \in 1..(SmallFiles + NamedCount) |->
     IF n =< SmallFiles THEN LoadingWithin(SmallFile(n - 1)) ELSE NamedSessions[n - SmallFiles]]

MCSessions == AllSessions
=================================================================================
