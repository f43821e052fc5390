------------------------------- MODULE TypedVM -------------------------------
(***************************************************************************)
(* The portable form of a typed module (src/src/typed_bytecode.c), a flat  *)
(* sequence of records with counts before the arrays they size, and its    *)
(* reader, which has to notice every cut, surplus and wrong count; and the *)
(* virtual machine on a verified module (src/src/vm.c): frames of          *)
(* single-assignment values, parameters of blocks bound on every jump.     *)
(*                                                                         *)
(* One element of a wire is one record of the format; the little-endian    *)
(* layout inside a record is left out.                                     *)
(*                                                                         *)
(* The machine checks at run time much that validation already promised;   *)
(* a check that fails gives the outcome "broken", so that whether it ever  *)
(* can is a question the model answers.                                    *)
(***************************************************************************)
EXTENDS ScalarIR, TLC

CONSTANTS MaxModuleFunctions, MaxBlocks   \* limits of the format

ASSUME TypedWireAssumption == {MaxModuleFunctions, MaxBlocks} \subseteq Nat \ {0}

Flat(seqs) == FlattenSeq(seqs)

\* Instructions are one array, of which every block has its slice, and the
\* arguments of calls another, of which every call has its slice.
Instructions(body) == Flat([i \in DOMAIN body.blocks |-> body.blocks[i].instructions])
CallArguments(instructions) ==
  Flat([i \in DOMAIN instructions |-> instructions[i].arguments])
FirstInstruction(body, i) ==
  Len(Flat([k \in 1..(i - 1) |-> body.blocks[k].instructions]))
FirstArgument(instructions, i) ==
  Len(CallArguments(SubSeq(instructions, 1, i - 1)))

BlockRecords(body) ==
  [i \in DOMAIN body.blocks |->
     LET b == body.blocks[i] IN
     [id |-> b.id, first |-> FirstInstruction(body, i), count |-> Len(b.instructions)]]

ParameterRecords(body) ==
  Flat([i \in DOMAIN body.blocks |->
          [k \in DOMAIN body.blocks[i].parameters |->
             [block |-> body.blocks[i].id, parameter |-> body.blocks[i].parameters[k]]]])

InstructionRecords(instructions) ==
  [i \in DOMAIN instructions |->
     [instruction |-> [instructions[i] EXCEPT !.arguments = <<>>],
      offset |-> FirstArgument(instructions, i), count |-> Len(instructions[i].arguments)]]

Arrays(body, instructions) ==
  <<BlockRecords(body), ParameterRecords(body), body.edges, CallArguments(instructions),
    InstructionRecords(instructions)>>

CountedFirst(signature, arrays) ==
  <<[k \in 1..5 |-> Len(arrays[k])], signature>> \o Flat(arrays)

EncodeProgram(body) == CountedFirst(body.signature, Arrays(body, Instructions(body)))

EncodeFunction(f) ==
  <<[name |-> f.name, symbol |-> f.symbol, parameters |-> f.parameters, return |-> f.return]>>
    \o EncodeProgram(f.body)

Sized(payload) == <<Len(payload)>> \o payload

\* A valid module within the limits, or nothing.
EncodeModule(module) ==
  IF /\ Len(module) \in 1..MaxModuleFunctions
     /\ ModuleValid(module)
     /\ \A f \in ToSet(module) : Len(f.body.blocks) =< MaxBlocks
    THEN Sized(<<Len(module)>> \o Flat([i \in DOMAIN module |-> EncodeFunction(module[i])]))
    ELSE <<>>

-----------------------------------------------------------------------------
(* The reader.  Each part gives [ok, value, rest].                          *)

Unread == [ok |-> FALSE, value |-> <<>>, rest |-> <<>>]

\* The slices give blocks and calls back what is theirs; a slice outside its
\* array, or blocks that do not follow one another, are refused.
Rebuilt(signature, blocks, parameters, edges, arguments, records) ==
  LET instructions ==
        [i \in DOMAIN records |->
           [records[i].instruction EXCEPT !.arguments =
              SubSeq(arguments, records[i].offset + 1, records[i].offset + records[i].count)]]
      own(id) == SelectSeq(parameters, LAMBDA p : p.block = id)
  IN  [signature |-> signature, edges |-> edges,
       blocks |-> [i \in DOMAIN blocks |->
         [id |-> blocks[i].id,
          parameters |-> [k \in DOMAIN own(blocks[i].id) |-> own(blocks[i].id)[k].parameter],
          instructions |-> SubSeq(instructions, blocks[i].first + 1,
                                  blocks[i].first + blocks[i].count)]]]

SlicesValid(blocks, arguments, records) ==
  /\ \A i \in DOMAIN blocks :
       blocks[i].first = IF i = 1 THEN 0 ELSE blocks[i - 1].first + blocks[i - 1].count
  /\ Last(blocks).first + Last(blocks).count = Len(records)
  /\ \A r \in ToSet(records) : r.offset + r.count =< Len(arguments)

DecodeProgram(wire) ==
  IF Len(wire) < 2 THEN Unread
  ELSE LET counts == wire[1]
           total == FoldLeft(LAMBDA n, c : n + c, 0, counts)
           start(k) == 3 + FoldLeft(LAMBDA n, c : n + c, 0, SubSeq(counts, 1, k - 1))
           array(k) == SubSeq(wire, start(k), start(k) + counts[k] - 1)
       IN  IF \/ total > Len(wire) - 2 \/ counts[1] \notin 1..MaxBlocks \/ counts[5] = 0
              \/ ~SlicesValid(array(1), array(4), array(5))
             THEN Unread
             ELSE [ok |-> TRUE, rest |-> SubSeq(wire, 3 + total, Len(wire)),
                   value |-> Rebuilt(wire[2], array(1), array(2), array(3), array(4), array(5))]

RECURSIVE DecodeFunctions(_, _)

\* A function after its head: its body, then the functions that follow.
DecodeBody(head, body, more) ==
  LET others == DecodeFunctions(more, body.rest) IN
  IF body.ok /\ others.ok THEN [others EXCEPT !.value = <<head @@ [body |-> body.value]>> \o @]
                          ELSE Unread

DecodeFunctions(count, wire) ==
  CASE count = 0   -> [ok |-> TRUE, value |-> <<>>, rest |-> wire]
    [] wire = <<>> -> Unread
    [] OTHER       -> DecodeBody(wire[1], DecodeProgram(Tail(wire)), count - 1)

Whole(read) ==
  IF read.ok /\ read.rest = <<>> /\ ModuleValid(read.value) THEN read ELSE Unread

\* The length of the header, the number of functions, no byte left over, and
\* a module that is valid: only then is there a module.
DecodeModule(wire) ==
  IF \/ Len(wire) < 2 \/ wire[1] # Len(wire) - 1 \/ wire[2] \notin 1..MaxModuleFunctions
    THEN Unread
    ELSE Whole(DecodeFunctions(wire[2], SubSeq(wire, 3, Len(wire))))

-----------------------------------------------------------------------------
(* The machine *)

CONSTANT MaxInteger   \* INT64_MAX, with INT64_MIN one below its opposite

ASSUME MaxIntegerAssumption == MaxInteger \in Nat

VARIABLES
  vmLimits,    \* [steps, depth]
  module,      \* the decoded module
  stack,       \* sequence of frames [symbol, block, at, values]
  vmSteps,
  vmOutcome,   \* "idle", "refused", "running", "ok", "error", "steps", "depth", "broken"
  vmResult

vmVars == <<module, stack, vmSteps, vmOutcome, vmResult>>

IntegerFits(n) == n \in (-MaxInteger - 1)..MaxInteger
Typed(type, v) == [type |-> type, v |-> v]
TypeMatches(type, value) == value.type = type /\ (type = "f64" => Finite(value.v))

FunctionOf(symbol) == CHOOSE f \in ModuleFunction(module, symbol) : TRUE

\* A frame at the first block, with its parameters bound to the arguments.
Frame(f, arguments) ==
  LET entry == f.body.blocks[1] IN
  [symbol |-> f.symbol, block |-> entry.id, at |-> 1,
   values |-> [v \in {p.value : p \in ToSet(entry.parameters)} |->
                 arguments[CHOOSE i \in DOMAIN entry.parameters : entry.parameters[i].value = v]]]

ArgumentsMatch(f, arguments) ==
  /\ Len(arguments) = Len(f.parameters)
  /\ \A i \in DOMAIN arguments : TypeMatches(f.parameters[i], arguments[i])

VMIdle ==
  /\ module = <<>> /\ stack = <<>> /\ vmSteps = 0 /\ vmOutcome = "idle"
  /\ vmResult = Typed("void", 0)

\* Decoding, finding the entry and counting its arguments come first; their
\* types are looked at when the function is entered.
Enter(read, entry, arguments) ==
  LET found == ModuleFunction(read.value, entry)
      f == CHOOSE g \in found : TRUE
  IN  /\ vmSteps' = 0 /\ vmResult' = Typed("void", 0)
      /\ module' = read.value
      /\ IF ~read.ok \/ found = {} \/ Len(arguments) # Len(f.parameters)
           THEN vmOutcome' = "refused" /\ stack' = <<>>
           ELSE IF ~ArgumentsMatch(f, arguments)
             THEN vmOutcome' = "error" /\ stack' = <<>>
             ELSE vmOutcome' = "running" /\ stack' = <<Frame(f, arguments)>>

LoadAndEnter(wire, entry, arguments) == Enter(DecodeModule(wire), entry, arguments)

Top == Last(stack)
BodyOf(frame) == FunctionOf(frame.symbol).body
Instruction == BlockOf(BodyOf(Top), Top.block).instructions[Top.at]

VMFetch(ops) ==
  /\ vmOutcome = "running" /\ vmSteps < vmLimits.steps
  /\ Instruction.op \in ops
  /\ vmSteps' = vmSteps + 1
  /\ UNCHANGED module

VMExhaustSteps ==
  /\ vmOutcome = "running" /\ vmSteps >= vmLimits.steps
  /\ vmOutcome' = "steps"
  /\ UNCHANGED <<module, stack, vmSteps, vmResult>>

VMStop(why) == vmOutcome' = why /\ UNCHANGED <<stack, vmResult>>

Replaced(frame) == [stack EXCEPT ![Len(stack)] = frame]

\* The value the instruction defines; the next one follows.
Defined(frame, id, value) ==
  [frame EXCEPT !.values = (id :> value) @@ @, !.at = @ + 1]

VMDefine(value) ==
  /\ stack' = Replaced(Defined(Top, Instruction.result, value))
  /\ UNCHANGED <<vmOutcome, vmResult>>

Available(id, type) == id \in DOMAIN Top.values /\ TypeMatches(type, Top.values[id])

VMConstant ==
  /\ VMFetch({"CONST_I64", "CONST_F64", "CONST_BOOL"})
  /\ VMDefine(Typed(Instruction.type, Instruction.imm))

VMOperate ==
  /\ VMFetch(ArithmeticOps \cup ComparisonOps)
  /\ IF ~(Available(Instruction.left, "f64") /\ Available(Instruction.right, "f64"))
       THEN VMStop("broken")
       ELSE LET v == Computed(Instruction.op, Top.values[Instruction.left].v,
                              Top.values[Instruction.right].v)
            IN  IF v.ok THEN VMDefine(Typed(Instruction.type, v.value)) ELSE VMStop("error")

VMInteger ==
  /\ VMFetch(IntegerOps)
  /\ IF ~(Available(Instruction.left, "i64") /\ Available(Instruction.right, "i64"))
       THEN VMStop("broken")
       ELSE LET l == Top.values[Instruction.left].v
                r == Top.values[Instruction.right].v
            IN  CASE Instruction.op = "EQ_I64" -> VMDefine(Typed("bool", Truth(l = r)))
                  [] IntegerFits(l + r) -> VMDefine(Typed("i64", l + r))
                  [] OTHER -> VMStop("error")

VMCall ==
  /\ VMFetch({"CALL"})
  /\ LET ids == Instruction.arguments
         found == ModuleFunction(module, Instruction.callee)
         f == CHOOSE g \in found : TRUE
         arguments == [i \in DOMAIN ids |-> Top.values[ids[i]]]
     IN  IF found = {} \/ ~(ToSet(ids) \subseteq DOMAIN Top.values) THEN VMStop("broken")
         ELSE IF Len(stack) >= vmLimits.depth THEN VMStop("depth")
         ELSE IF ~ArgumentsMatch(f, arguments) THEN VMStop("broken")
         ELSE /\ stack' = Append(stack, Frame(f, arguments))
              /\ UNCHANGED <<vmOutcome, vmResult>>

\* All incoming values are read before any parameter is written: two
\* parameters may exchange their values around a loop.
Entering(frame, target) ==
  LET body == BodyOf(frame)
      parameters == BlockOf(body, target).parameters
      edge(k) == {e \in ToSet(body.edges) : EdgeKey(e) = <<frame.block, target, k - 1>>}
      incoming(k) == frame.values[(CHOOSE e \in edge(k) : TRUE).value]
      ready == \A k \in DOMAIN parameters :
                 /\ edge(k) # {}
                 /\ (CHOOSE e \in edge(k) : TRUE).value \in DOMAIN frame.values
                 /\ TypeMatches(parameters[k].type, incoming(k))
      bound == [v \in {p.value : p \in ToSet(parameters)} |->
                  incoming(CHOOSE k \in DOMAIN parameters : parameters[k].value = v)]
  IN  IF ready
        THEN [ok |-> TRUE, frame |-> [frame EXCEPT !.block = target, !.at = 1,
                                                    !.values = bound @@ @]]
        ELSE [ok |-> FALSE, frame |-> frame]

VMBranch ==
  /\ VMFetch({"BRANCH", "COND_BRANCH"})
  /\ LET in == Instruction
         target == IF in.op = "BRANCH" \/ Top.values[in.left].v # 0 THEN in.then ELSE in.else
     IN  IF in.op = "COND_BRANCH" /\ ~Available(in.left, "bool") THEN VMStop("broken")
         ELSE LET next == Entering(Top, target) IN
              IF next.ok THEN stack' = Replaced(next.frame) /\ UNCHANGED <<vmOutcome, vmResult>>
                         ELSE VMStop("broken")

VMReturn ==
  /\ VMFetch({"RETURN"})
  /\ LET value == Top.values[Instruction.left]
         callers == Front(stack)
         caller == Last(callers)
         call == BlockOf(BodyOf(caller), caller.block).instructions[caller.at]
     IN  IF ~Available(Instruction.left, FunctionOf(Top.symbol).return) THEN VMStop("broken")
         ELSE IF callers = <<>>
           THEN vmOutcome' = "ok" /\ vmResult' = value /\ stack' = <<>>
         ELSE IF ~TypeMatches(call.type, value) THEN VMStop("broken")
         ELSE /\ stack' = [callers EXCEPT ![Len(callers)] = Defined(caller, call.result, value)]
              /\ UNCHANGED <<vmOutcome, vmResult>>

VMExecute ==
  \/ VMConstant \/ VMOperate \/ VMInteger \/ VMCall \/ VMBranch \/ VMReturn
  \/ VMExhaustSteps
=============================================================================
