-------------------------------- MODULE Datasets --------------------------------
(***************************************************************************)
(* Data sets of texts: how a CSV file becomes one, with and without a      *)
(* budget of bytes, and the operations that change one in place.           *)
(*                                                                         *)
(* A file is a sequence of characters.  A header stays one; any other      *)
(* field becomes the integer that orders texts as their bytes do.          *)
(***************************************************************************)
EXTENDS TableReshape

CONSTANTS
  CodeOf,         \* the bytes of texts, in their order from 1
  MaxText,        \* the longest text
  LooseMonthOf    \* texts that scan as year-month-day, and the text of their month

ASSUME CodesArePositive == \A ch \in DOMAIN CodeOf : CodeOf[ch] \in Nat \ {0}

Comma == ","
Quote == "\""
Newline == "\n"
Return == "\r"
Blank == " "
Nul == "NUL"
BrokenByte == "FF"      \* no text in UTF-8 has it

Text(chars) ==
  IF BrokenByte \in ToSet(chars) THEN NotUtf8
  ELSE FoldLeft(LAMBDA code, i : (Cardinality(DOMAIN CodeOf) + 1) * code
                                   + (IF i \in DOMAIN chars THEN CodeOf[chars[i]] ELSE 0),
                0, [i \in 1..MaxText |-> i])

-----------------------------------------------------------------------------
(* Where fields begin and end, followed while a record is read so that a    *)
(* limit is met before the rest of the record.                              *)

FieldStart == [state |-> "start", bytes |-> 0, columns |-> 1]

Exceeded(f) == [f EXCEPT !.state = "limit"]

AddFieldByte(limits, f, state) ==
  IF f.bytes >= limits.field THEN Exceeded(f) ELSE [f EXCEPT !.state = state, !.bytes = @ + 1]

NextField(limits, f) ==
  IF f.columns >= limits.columns THEN Exceeded(f)
  ELSE [state |-> "start", bytes |-> 0, columns |-> f.columns + 1]

\* Mutant: a quote that is doubled within quotes takes no room.
TrackDoubledFree(limits, f, ch) ==
  CASE f.state = "start" /\ ch = Quote                -> [f EXCEPT !.state = "quoted"]
    [] f.state = "quoted" /\ ch = Quote               -> [f EXCEPT !.state = "quoteSeen"]
    [] f.state = "quoteSeen" /\ ch = Quote            -> [f EXCEPT !.state = "quoted"]
    [] f.state \notin {"quoted", "invalid"} /\ ch = Comma -> NextField(limits, f)
    [] f.state \in {"quoteSeen", "afterQuote"} /\ ch = Blank -> [f EXCEPT !.state = "afterQuote"]
    [] f.state \in {"start", "unquoted"} /\ ch # Quote -> AddFieldByte(limits, f, "unquoted")
    [] f.state = "quoted"                             -> AddFieldByte(limits, f, "quoted")
    [] OTHER                                          -> AddFieldByte(limits, f, "invalid")

Track(limits, f, ch) ==
  CASE f.state = "start" /\ ch = Quote                -> [f EXCEPT !.state = "quoted"]
    [] f.state = "quoted" /\ ch = Quote               -> [f EXCEPT !.state = "quoteSeen"]
    [] f.state = "quoteSeen" /\ ch = Quote            -> AddFieldByte(limits, f, "quoted")
    [] f.state \notin {"quoted", "invalid"} /\ ch = Comma -> NextField(limits, f)
    [] f.state \in {"quoteSeen", "afterQuote"} /\ ch = Blank -> [f EXCEPT !.state = "afterQuote"]
    [] f.state \in {"start", "unquoted"} /\ ch # Quote -> AddFieldByte(limits, f, "unquoted")
    [] f.state = "quoted"                             -> AddFieldByte(limits, f, "quoted")
    [] OTHER                                          -> AddFieldByte(limits, f, "invalid")

-----------------------------------------------------------------------------
(* Reading one record.  Line ends within quotes belong to the record.       *)

EndsLine(ch) == ch \in {Return, Newline}

\* A return is looked behind, and takes a newline with it.
LastRead(file, at) == IF file[at] = Return /\ at < Len(file) THEN at + 1 ELSE at

After(file, at) ==
  IF file[at] = Return /\ at < Len(file) /\ file[at + 1] = Newline THEN at + 2 ELSE at + 1

From(at) == [status |-> "reading", at |-> at, record |-> <<>>, quoted |-> FALSE, field |-> FieldStart]

Taking(file, limits, r, ch) ==
  [r EXCEPT !.at = After(file, @), !.record = Append(@, ch), !.quoted = @ # (ch = Quote),
            !.field = IF limits.bounded THEN Track(limits, @, ch) ELSE @]

EndOfFile(r) ==
  [r EXCEPT !.status = IF r.record = <<>> THEN "end" ELSE IF r.quoted THEN "parse" ELSE "ok"]

\* Mutant: a limit is taken for the end of the file.
StoppedQuietly(status, r, at) == [r EXCEPT !.status = IF status = "limit" THEN "end" ELSE status, !.at = at]

Stopped(status, r, at) == [r EXCEPT !.status = status, !.at = at]

\* One turn of the loop that reads a record.
ReadChar(file, limits, maxRecord, r) ==
  IF r.status # "reading" THEN r
  ELSE IF r.field.state = "limit" \/ (limits.bounded /\ Len(r.record) > maxRecord) THEN Stopped("limit", r, r.at)
  ELSE IF r.at > Len(file) THEN EndOfFile(r)
  ELSE IF limits.bounded /\ LastRead(file, r.at) > limits.bytes THEN Stopped("limit", r, r.at)
  ELSE IF EndsLine(file[r.at]) /\ ~r.quoted THEN Stopped("ok", r, After(file, r.at))
  ELSE Taking(file, limits, r, IF EndsLine(file[r.at]) THEN Newline ELSE file[r.at])

\* As many turns as any loop over the file can take: every one takes a byte, but
\* the last.
Turns(file) == [n \in 1..(Len(file) + 1) |-> n]

ReadRecord(file, limits, maxRecord, from) ==
  FoldLeft(LAMBDA r, turn : ReadChar(file, limits, maxRecord, r), from, Turns(file))

\* A record is used as a string: up to its first NUL.
CString(record) ==
  LET nul == SelectInSeq(record, LAMBDA ch : ch = Nul) IN
  IF nul = 0 THEN record ELSE SubSeq(record, 1, nul - 1)

-----------------------------------------------------------------------------
(* The fields of a record.                                                  *)

ParsedField(p, ch, mode) == [p EXCEPT !.field = Append(@, ch), !.mode = mode]
FieldEnds(p) == [fields |-> Append(p.fields, p.field), field |-> <<>>, mode |-> "start"]

ParseChar(p, ch) ==
  CASE p.mode = "bad"                                     -> p
    [] p.mode = "start" /\ ch = Quote                     -> [p EXCEPT !.mode = "quoted"]
    [] p.mode = "quoted" /\ ch = Quote                    -> [p EXCEPT !.mode = "closed"]
    [] p.mode = "quoted"                                  -> ParsedField(p, ch, "quoted")
    [] p.mode = "closed" /\ ch = Quote                    -> ParsedField(p, ch, "quoted")
    [] p.mode \in {"start", "plain", "closed", "after"} /\ ch = Comma -> FieldEnds(p)
    [] p.mode \in {"closed", "after"} /\ ch = Blank       -> [p EXCEPT !.mode = "after"]
    [] p.mode \in {"start", "plain"} /\ ch # Quote        -> ParsedField(p, ch, "plain")
    [] OTHER                                              -> [p EXCEPT !.mode = "bad"]

ParseRecord(record) ==
  LET p == FoldLeft(ParseChar, [fields |-> <<>>, field |-> <<>>, mode |-> "start"], CString(record)) IN
  IF p.mode = "bad" THEN [status |-> "parse", fields |-> <<>>]
  ELSE [status |-> "ok", fields |-> FieldEnds(p).fields]

-----------------------------------------------------------------------------
(* A whole file.  Rows that do not parse, or are of another width, are      *)
(* dropped; a record past the rows that are allowed ends the load even when *)
(* it is blank.                                                             *)

Loaded(status, headers, rows) == [status |-> status, dataset |-> [headers |-> headers, rows |-> rows]]
NotLoaded(status) == Loaded(status, <<>>, <<>>)

Over(limits) == IF limits.bounded THEN "limit" ELSE "data"

RowStatus(limits, maxRecord, rows, record) ==
  FirstStatus(<<Must(Len(CString(record)) =< maxRecord, "data"),
                Must(Len(rows) < limits.rows, Over(limits))>>)

WithRow(rows, width, parsed) ==
  IF parsed.status = "ok" /\ Len(parsed.fields) = width
    THEN Append(rows, [i \in 1..width |-> Text(parsed.fields[i])]) ELSE rows

\* One record more, as long as the load goes on.
LoadRow(file, limits, headers, load) ==
  LET maxRecord == (limits.field + 1) * Len(headers)
      read == ReadRecord(file, limits, maxRecord, From(load.at))
      status == IF read.status = "ok" THEN RowStatus(limits, maxRecord, load.rows, read.record) ELSE read.status
  IN IF load.status # "ok" THEN load
     ELSE IF status # "ok" THEN [load EXCEPT !.status = status]
     ELSE [load EXCEPT !.at = read.at,
             !.rows = IF CString(read.record) = <<>> THEN @
                      ELSE WithRow(@, Len(headers), ParseRecord(read.record))]

LoadRows(file, limits, headers, at) ==
  LET load == FoldLeft(LAMBDA l, turn : LoadRow(file, limits, headers, l),
                       [status |-> "ok", at |-> at, rows |-> <<>>], Turns(file))
  IN IF load.status = "end" THEN Loaded("ok", headers, load.rows) ELSE NotLoaded(load.status)

HeaderStatus(limits, parsed) ==
  FirstStatus(<<parsed.status,
                Must(<<>> \notin ToSet(parsed.fields) /\ IsInjective(parsed.fields), "data"),
                Must(Len(parsed.fields) =< limits.columns, Over(limits))>>)

LoadCsv(file, limits) ==
  LET read == ReadRecord(file, limits, Len(file), From(1))
      parsed == ParseRecord(read.record)
      status == IF read.status = "end" THEN "data"
                ELSE IF read.status # "ok" THEN read.status
                ELSE HeaderStatus(limits, parsed)
  IN IF 0 \in {limits.rows, limits.columns, limits.field} THEN NotLoaded("argument")
     ELSE IF status # "ok" THEN NotLoaded(status)
     ELSE LoadRows(file, limits, parsed.fields, read.at)

-----------------------------------------------------------------------------
(* Operations in place: a column is added when all its cells are there.      *)

HasHeader(d, name) == name \in ToSet(d.headers)
HeaderIndex(d, name) == SelectInSeq(d.headers, LAMBDA header : header = name)

AppendColumn(d, name, values) ==
  [status |-> "ok",
   dataset |-> [headers |-> Append(d.headers, name),
                rows |-> [row \in DOMAIN d.rows |-> Append(d.rows[row], values[row])]]]

Kept(status, d) == [status |-> status, dataset |-> d]

DatasetProduct(d, left, right, output) ==
  LET Cells(name) == DatasetColumn(d, HeaderIndex(d, name)) IN
  IF HasHeader(d, output) \/ ~HasHeader(d, left) \/ ~HasHeader(d, right) THEN Kept("data", d)
  ELSE IF \E row \in DOMAIN d.rows : {Cells(left)[row], Cells(right)[row]} \ DOMAIN NumberOf # {}
    THEN Kept("type", d)
  ELSE AppendColumn(d, output, [row \in DOMAIN d.rows |->
         NumeralOf[Saturated(NumberOf[Cells(left)[row]] * NumberOf[Cells(right)[row]])]])

DatasetMonth(d, date, output) ==
  LET cells == DatasetColumn(d, HeaderIndex(d, date)) IN
  IF HasHeader(d, output) \/ ~HasHeader(d, date) THEN Kept("data", d)
  ELSE IF ToSet(cells) \ DOMAIN LooseMonthOf # {} THEN Kept("type", d)
  ELSE AppendColumn(d, output, [row \in DOMAIN d.rows |-> LooseMonthOf[cells[row]]])

RemoveNullRows(d) ==
  Kept("ok", [d EXCEPT !.rows = SelectSeq(@, LAMBDA cells : EmptyText \notin ToSet(cells))])

\* A row is compared with those that are kept before it.
RemoveDuplicateRows(d) ==
  Kept("ok", [d EXCEPT !.rows = FoldLeft(LAMBDA kept, cells :
                IF cells \in ToSet(kept) THEN kept ELSE Append(kept, cells), <<>>, @)])
=================================================================================
