-------------------------------- MODULE DataPlan --------------------------------
(***************************************************************************)
(* The data plan of bytecode version 1.3: one CSV file, one numeric column *)
(* of it, its sum or count, and where the report goes.  What is encoded,   *)
(* what a block must be before it is run, and which data programs a block  *)
(* is compiled from: all else such a program can say has no place in a     *)
(* plan and is refused.                                                    *)
(*                                                                         *)
(* A block is the record of its fields.  A string is a sequence: of the    *)
(* characters of a name, or of the parts of a path.                        *)
(***************************************************************************)
EXTENDS Datasets

CONSTANTS
  MaxString, MaxTotalStrings, MaxName, MaxModule,     \* bytes
  MaxCaps         \* the hard maximum of every limit a plan sets

HeaderSize == 16
FixedSize == 88     \* the section's header, its column and its operation
Punctuation == {Comma, Quote, Newline, Return, Blank, Nul, BrokenByte, "/", "."}
Digits == {"0", "1", "2", "3", "4", "5", "6", "7", "8", "9"}

Suffix(operation) ==
  IF operation = "sum" THEN <<"_", "s", "u", "m", "a">> ELSE <<"_", "c", "o", "n", "t", "e", "o">>

ValidString(string) ==
  Len(string) \in 1..MaxString /\ {BrokenByte, Nul} \cap ToSet(string) = {}

ValidIdentifier(name) ==
  /\ ValidString(name) /\ Len(name) =< MaxName
  /\ name[1] \notin Digits /\ ToSet(name) \cap Punctuation = {}

ValidCaps(caps) == \A cap \in DOMAIN MaxCaps : caps[cap] \in 1..MaxCaps[cap]

\* A span is given with its flag, and not without.
SpanMatches(present, span) ==
  IF present THEN 0 \notin ToSet(span) ELSE ToSet(span) = {0}

TotalBytes(strings) == TotalOf(0, [n \in DOMAIN strings |-> Len(strings[n])])
TableBytes(strings) == TotalBytes(strings) + 4 * Len(strings)

-----------------------------------------------------------------------------
ResultName(plan) == plan.column \o Suffix(plan.operation)
PlanStrings(plan) == <<plan.source, plan.export, plan.column, ResultName(plan)>>

\* Mutant: the lengths before the strings are not counted.
EncodedSizeOfText(plan) == HeaderSize + FixedSize + TotalBytes(PlanStrings(plan))

EncodedSize(plan) == HeaderSize + FixedSize + TableBytes(PlanStrings(plan))

PlanValid(plan) ==
  /\ plan.operation \in {"sum", "count"}
  /\ ValidString(plan.source) /\ ValidString(plan.export) /\ ValidIdentifier(plan.column)
  /\ ValidCaps(plan.caps) /\ SpanMatches(plan.present, plan.span)
  /\ Len(ResultName(plan)) =< MaxName /\ Len(ResultName(plan)) =< MaxString
  /\ TotalBytes(PlanStrings(plan)) =< MaxTotalStrings
  /\ EncodedSize(plan) =< MaxModule

Block(plan) ==
  [length |-> EncodedSize(plan), magic |-> "MLBC", version |-> <<1, 3>>, header |-> <<0, 1, 0>>,
   section |-> "DPLN", revision |-> 1, flags |-> 0, sectionBytes |-> EncodedSize(plan) - HeaderSize,
   counts |-> <<1, 1, 1, 1, 4>>, caps |-> plan.caps, tableBytes |-> TableBytes(PlanStrings(plan)),
   reserved |-> 0, column |-> <<2, 1, 0, 0>>, operation |-> plan.operation, inputType |-> 1,
   operationFlags |-> IF plan.present THEN 1 ELSE 0, references |-> <<2, 3>>, span |-> plan.span,
   operationReserved |-> 0, strings |-> PlanStrings(plan)]

\* The size is told even when the buffer is too small for it.
Encode(plan, capacity) ==
  IF ~PlanValid(plan) THEN [status |-> "format", written |-> 0]
  ELSE [status |-> Must(capacity >= EncodedSize(plan), "small"), written |-> EncodedSize(plan)]

-----------------------------------------------------------------------------
LengthsMatch(block) ==
  /\ block.sectionBytes = block.length - HeaderSize
  /\ block.sectionBytes >= FixedSize
  /\ block.tableBytes = block.sectionBytes - FixedSize

StringsRead(block) ==
  /\ \A n \in DOMAIN block.strings : ValidString(block.strings[n])
  /\ TotalBytes(block.strings) =< MaxTotalStrings
  /\ TableBytes(block.strings) =< block.tableBytes

VerifyData(block) ==
  FirstStatus(<<
    Must(block.length >= HeaderSize, "format"),
    Must(block.length =< MaxModule, "limit"),
    Must(block.magic = "MLBC", "magic"),
    Must(block.version = <<1, 3>>, "version"),
    Must(block.header = <<0, 1, 0>>, "format"),
    Must(block.length >= HeaderSize + FixedSize, "format"),
    Must(block.section = "DPLN", "format"),
    Must(block.revision = 1, "version"),
    Must(block.flags = 0, "format"),
    Must(LengthsMatch(block), "format"),
    Must(block.counts = <<1, 1, 1, 1, 4>> /\ block.reserved = 0, "format"),
    Must(ValidCaps(block.caps), "limit"),
    Must(block.column = <<2, 1, 0, 0>>, "format"),
    Must(block.operation \in {"sum", "count"}, "opcode"),
    Must(block.inputType = 1, "type"),
    Must(block.operationFlags \in 0..1, "format"),
    Must(block.references = <<2, 3>> /\ block.operationReserved = 0, "format"),
    Must(SpanMatches(block.operationFlags = 1, block.span), "format"),
    Must(StringsRead(block), "format"),
    Must(TableBytes(block.strings) = block.tableBytes, "format"),
    Must(ValidIdentifier(block.strings[3]) /\ ValidIdentifier(block.strings[4]), "format"),
    Must(block.strings[4] = block.strings[3] \o Suffix(block.operation), "format")>>)

-----------------------------------------------------------------------------
(* From a data program to its block *)

Bounded(string) == Len(string) \in 1..MaxString

SourceStatus(program) ==
  Must(/\ program.source.dataset = 1 /\ program.source.options = {}
       /\ Len(program.declared) = 1, "unsupported")

DeclarationStatus(program) ==
  LET column == program.declared[1] IN
  FirstStatus(<<
    Must(column.declaredType = "numeric" /\ column.type \in {"unknown", "numeric"}, "type"),
    Must(Bounded(program.source.path) /\ Bounded(program.export), "unsupported"),
    Must(Bounded(column.name), "type"),
    Must(Len(program.operations) = 1, "unsupported")>>)

OperationStatus(operation) ==
  Must(operation.kind = "summarize" /\ operation.dataset = 1 /\ Len(operation.aggregates) = 1,
       "unsupported")

\* Where the aggregate is in the source, or else its column: a line and a column,
\* or nothing.
SpanOf(aggregate, input) == IF aggregate.span # <<>> THEN aggregate.span ELSE input.span

SpanFits(span) == \A n \in DOMAIN span : span[n] # 0 /\ InRange("uint32", span[n])

AggregateRefusal(program, aggregate, input) ==
  LET column == program.declared[1].name IN
  FirstStatus(<<
    Must(aggregate.operation \in {"sum", "count"}, "unsupported"),
    Must(input.name = column, "type"),
    Must({input.type, input.declaredType} \subseteq {"unknown", "numeric"}, "type"),
    Must(/\ Len(aggregate.output) =< MaxString
         /\ aggregate.output = column \o Suffix(aggregate.operation), "type"),
    Must(aggregate.percentile = 0 /\ program.policy = {} /\ SpanFits(SpanOf(aggregate, input)),
         "unsupported")>>)

ProgramStatus(program) ==
  IF SourceStatus(program) # "ok" THEN SourceStatus(program)
  ELSE IF DeclarationStatus(program) # "ok" THEN DeclarationStatus(program)
  ELSE IF OperationStatus(program.operations[1]) # "ok" THEN OperationStatus(program.operations[1])
  ELSE LET operation == program.operations[1] IN
       AggregateRefusal(program, operation.aggregates[1], operation.refs[1])

PlanOf(program) ==
  LET aggregate == program.operations[1].aggregates[1]
      span == SpanOf(aggregate, program.operations[1].refs[1])
  IN [source |-> program.source.path, export |-> program.export,
      column |-> program.declared[1].name, operation |-> aggregate.operation, caps |-> MaxCaps,
      present |-> span # <<>>, span |-> IF span # <<>> THEN span ELSE <<0, 0>>]

\* What the encoder makes must pass the verifier: anything else is an internal
\* error.
EncodedStatus(plan) ==
  IF ~PlanValid(plan) THEN "unsupported"
  ELSE Must(/\ Encode(plan, EncodedSize(plan)) = [status |-> "ok", written |-> EncodedSize(plan)]
            /\ VerifyData(Block(plan)) = "ok", "internal")

\* The blocks are the one that is made, or none.
CompileDataHIR(program) ==
  LET status == IF ProgramStatus(program) # "ok" THEN ProgramStatus(program)
                ELSE EncodedStatus(PlanOf(program))
  IN [status |-> status, blocks |-> IF status = "ok" THEN {Block(PlanOf(program))} ELSE {}]
=================================================================================
