----------------------------- MODULE TableColumns -----------------------------
(***************************************************************************)
(* The typed table: columns of one length with their nulls, and the ways   *)
(* columns are added, copied and checked.  An operation yields             *)
(* [status, table]: what it says, and the table it made aside.             *)
(*                                                                         *)
(* A cell is an integer, whatever its column: a number, a text in its      *)
(* order, or a code into the column's dictionary.                          *)
(***************************************************************************)
EXTENDS Numbers

EmptyText == 0
NotUtf8 == -1
NoText == -2

-----------------------------------------------------------------------------
NoColumns == [ready |-> TRUE, columns |-> <<>>, rows |-> 0, metadata |-> <<>>]

\* A descriptor nobody initialised, or a destroyed one.
NoTable == [NoColumns EXCEPT !.ready = FALSE]

Built(table) == [status |-> "ok", table |-> table]
Failed(status) == [status |-> status, table |-> NoTable]

\* The next step of a construction; a construction that failed takes none.
Then(built, Step(_)) == IF built.status = "ok" THEN Step(built.table) ELSE built

ColumnIndex(t, name) ==
  SelectInSeq(t.columns, LAMBDA c : c.name = name)

HasColumn(t, name) == ColumnIndex(t, name) # 0
Column(t, name) == t.columns[ColumnIndex(t, name)]
IsNull(c, row) == ~c.valid[row]
Rows(t) == 1..t.rows

CodeValid(c, code) == code \in 0..(Len(c.dictionary) - 1)
Label(c, row) == c.dictionary[c.cells[row] + 1]
DictionaryValid(dictionary) == NotUtf8 \notin ToSet(dictionary) /\ IsInjective(dictionary)

CellsValid(c) ==
  /\ c.type = "categorical" => DictionaryValid(c.dictionary)
  /\ \A row \in DOMAIN c.cells : c.valid[row] =>
       CASE c.type = "string"      -> c.cells[row] >= EmptyText
         [] c.type = "categorical" -> CodeValid(c, c.cells[row])
         [] OTHER                  -> TRUE

ColumnValid(c, rows) ==
  /\ c.name # <<>>
  /\ Len(c.cells) = rows /\ Len(c.valid) = rows
  /\ CellsValid(c)
  /\ FALSE \in ToSet(c.valid) => c.nullable

TableStatus(t) ==
  IF ~t.ready THEN "argument"
  ELSE IF /\ \A i, j \in DOMAIN t.columns : t.columns[i].name = t.columns[j].name => i = j
          /\ \A i \in DOMAIN t.columns : ColumnValid(t.columns[i], t.rows)
         THEN "ok" ELSE "data"

-----------------------------------------------------------------------------
(* Adding a column.  The name and the length are looked at before any cell. *)

NewColumn(name, type, dtype, cells, valid, dictionary) ==
  [name |-> name, type |-> type, dtype |-> dtype, cells |-> cells, valid |-> valid,
   nullable |-> FALSE \in ToSet(valid), dictionary |-> dictionary, metadata |-> <<>>]

WithColumn(t, c) ==
  [t EXCEPT !.ready = TRUE, !.columns = Append(@, c),
            !.rows = IF t.columns = <<>> THEN Len(c.cells) ELSE @]

AddColumn(t, c) ==
  IF \/ c.name = <<>> \/ HasColumn(t, c.name)
     \/ t.columns # <<>> /\ t.rows # Len(c.cells)
    THEN Failed("argument")
  ELSE IF ~CellsValid(c) THEN Failed("data")
  ELSE Built(WithColumn(t, c))

AddArrayColumn(t, name, dtype, cells, valid) ==
  AddColumn(t, NewColumn(name, "array", dtype, cells, valid, <<>>))

\* No string is kept for a null.
AddStringColumn(t, name, cells, valid) ==
  AddColumn(t, NewColumn(name, "string", "uint8",
                         [row \in DOMAIN cells |-> IF valid[row] THEN cells[row] ELSE NoText],
                         valid, <<>>))

\* The code of a null is not looked at.
AddCategoricalColumn(t, name, dtype, codes, valid, dictionary) ==
  IF dtype \notin UnsignedTypes THEN Failed("argument")
  ELSE AddColumn(t, NewColumn(name, "categorical", dtype, codes, valid, dictionary))

SetMetadata(metadata, key, value) ==
  LET at == SelectInSeq(metadata, LAMBDA m : m.key = key) IN
  IF at # 0 THEN [metadata EXCEPT ![at].value = value]
  ELSE Append(metadata, [key |-> key, value |-> value])

-----------------------------------------------------------------------------
(* Copying chosen rows of a table, the one way every operation makes its    *)
(* result.  Row 0 is no row: a null.                                        *)

NoRow == 0

Taken(c, rows) ==
  [k \in DOMAIN rows |->
     IF rows[k] # NoRow THEN c.cells[rows[k]]
     ELSE IF c.type = "string" THEN NoText ELSE 0]

TakenValid(c, rows) == [k \in DOMAIN rows |-> rows[k] # NoRow /\ c.valid[rows[k]]]

AddCopy(t, c, name, cells, valid) ==
  CASE c.type = "string"      -> AddStringColumn(t, name, cells, valid)
    [] c.type = "categorical" -> AddCategoricalColumn(t, name, c.dtype, cells, valid, c.dictionary)
    [] OTHER                  -> AddArrayColumn(t, name, c.dtype, cells, valid)

\* The copy is nullable when its source was, and keeps its metadata.
AddColumnRows(t, c, name, rows) ==
  Then(AddCopy(t, c, name, Taken(c, rows), TakenValid(c, rows)),
       LAMBDA added :
         Built([added EXCEPT !.columns[Len(added.columns)].nullable = @ \/ c.nullable,
                             !.columns[Len(added.columns)].metadata = c.metadata]))

AddColumnsRows(built, columns, rows) ==
  FoldLeft(LAMBDA b, c : Then(b, LAMBDA t : AddColumnRows(t, c, c.name, rows)), built, columns)

Empty(rows, metadata) == Built([NoColumns EXCEPT !.rows = rows, !.metadata = metadata])

TakeRows(t, rows) == AddColumnsRows(Empty(Len(rows), t.metadata), t.columns, rows)

RowsWhere(t, Keep(_)) == SelectSeq([row \in Rows(t) |-> row], Keep)

AllRows(t) == [row \in Rows(t) |-> row]
=============================================================================
