------------------------------ MODULE Bytecode ------------------------------
(***************************************************************************)
(* Bytecode v1.0 to v1.2 (src/src/bytecode.c): what the verifier accepts,  *)
(* what the encoder lets through and the register machine that runs it.    *)
(*                                                                         *)
(* A program is [minor, registers, code, types, returns]; an instruction   *)
(* is [op, a, b, c, imm] with pcs, registers and functions counted from 0. *)
(* The byte layout is left out: a program stands for its encoding.         *)
(***************************************************************************)
EXTENDS ScalarHIR

CONSTANTS MaxRegisters, MaxInstructions, MaxFunctions   \* the hard caps

ASSUME BytecodeAssumption == {MaxRegisters, MaxInstructions, MaxFunctions} \subseteq Nat \ {0}

VARIABLES
  limits,      \* [steps, depth] of the run
  program,     \* the encoded program, or NoProgram
  pc,
  registers,
  frames,      \* the callers: sequence of [return, destination]
  steps,
  outcome,     \* "idle", "running", "ok", "error", "steps" or "depth"
  result

machineVars == <<program, pc, registers, frames, steps, outcome, result>>

NoProgram == [minor |-> 0, registers |-> 0, code |-> <<>>, types |-> <<>>, returns |-> <<>>]

CALL_MINOR == 1
TYPED_MINOR == 2

Instr(op, a, b, c, imm) == [op |-> op, a |-> a, b |-> b, c |-> c, imm |-> imm]

At(p, i) == p.code[i + 1]
Pcs(p) == 0..(Len(p.code) - 1)

-----------------------------------------------------------------------------
(* Functions of a program.  One of v1.0 is a single body without marker.    *)

Marks(p) == SetToSortSeq({i \in Pcs(p) : At(p, i).op = "FUNCTION"}, LAMBDA i, j : i < j)

Functions(p) == 0..(Len(Marks(p)) - 1)
FunctionMark(p, f) == Marks(p)[f + 1]
FunctionStart(p, f) == FunctionMark(p, f) + 1
FunctionEnd(p, f) ==
  IF f + 1 \in Functions(p) THEN FunctionMark(p, f + 1) ELSE Len(p.code)
ParameterBase(p, f) == At(p, FunctionMark(p, f)).b
Arity(p, f) == At(p, FunctionMark(p, f)).c
Owner(p, i) == Cardinality({f \in Functions(p) : FunctionMark(p, f) =< i}) - 1

\* The regions of code checked for control flow: [start, end, owner].
Bodies(p) ==
  IF p.minor < CALL_MINOR THEN {[start |-> 0, end |-> Len(p.code)]}
  ELSE {[start |-> FunctionStart(p, f), end |-> FunctionEnd(p, f)] : f \in Functions(p)}

-----------------------------------------------------------------------------
(* The verifier.                                                            *)

HeaderValid(p) ==
  /\ p.minor =< TYPED_MINOR
  /\ p.registers \in 1..MaxRegisters
  /\ Len(p.code) \in 1..MaxInstructions

FunctionTableValid(p) ==
  p.minor >= CALL_MINOR =>
    /\ At(p, 0).op = "FUNCTION"
    /\ Len(Marks(p)) =< MaxFunctions
    /\ \A f \in Functions(p) :
         /\ At(p, FunctionMark(p, f)).a = f
         /\ ParameterBase(p, f) + Arity(p, f) =< p.registers
         /\ FunctionStart(p, f) < FunctionEnd(p, f)

TypeTablesValid(p) ==
  IF p.minor < TYPED_MINOR THEN p.types = <<>> /\ p.returns = <<>>
  ELSE /\ Len(p.types) = p.registers
       /\ Len(p.returns) = Len(Marks(p))
       /\ p.returns[1] = "number"
       /\ ToSet(p.types) \cup ToSet(p.returns) \subseteq ScalarTypes

\* A jump of v1.1 stays in its function and off the markers.
TargetValid(p, i, target) ==
  /\ target \in Pcs(p)
  /\ p.minor >= CALL_MINOR => /\ Owner(p, target) = Owner(p, i)
                              /\ At(p, target).op # "FUNCTION"

OperandsValid(p, i) ==
  LET in == At(p, i)
      reg(x) == x < p.registers
      none(x) == x = 0
  IN  CASE in.op = "CONST_F64"  -> reg(in.a) /\ none(in.b) /\ none(in.c) /\ Finite(in.imm)
        [] in.op = "CONST_BOOL" -> /\ p.minor = TYPED_MINOR
                                   /\ reg(in.a) /\ none(in.b) /\ none(in.c)
                                   /\ in.imm \in {0, 1}
        [] in.op \in {"MOVE", "NEG"} -> reg(in.a) /\ reg(in.b) /\ none(in.c) /\ none(in.imm)
        [] in.op \in ArithmeticOps \cup ComparisonOps ->
                                   reg(in.a) /\ reg(in.b) /\ reg(in.c) /\ none(in.imm)
        [] in.op = "JUMP"   -> /\ none(in.b) /\ none(in.c) /\ none(in.imm)
                               /\ TargetValid(p, i, in.a)
        [] in.op = "JUMP_IF_FALSE" -> /\ reg(in.a) /\ none(in.c) /\ none(in.imm)
                                      /\ TargetValid(p, i, in.b)
        [] in.op = "RETURN" -> reg(in.a) /\ none(in.b) /\ none(in.c) /\ none(in.imm)
        [] in.op = "FUNCTION" -> p.minor >= CALL_MINOR /\ none(in.imm)
        [] in.op = "CALL"   -> /\ p.minor >= CALL_MINOR
                               /\ reg(in.a) /\ in.b \in Functions(p)
                               /\ in.imm = Arity(p, in.b)
                               /\ in.c + in.imm =< p.registers
        [] OTHER -> FALSE

\* (mutant) A call takes its arguments whatever their types.
ArgumentTypesValid_Any(p, in) == TRUE

ArgumentTypesValid(p, in) ==
  \A k \in 0..(in.imm - 1) :
    p.types[in.c + k + 1] = p.types[ParameterBase(p, in.b) + k + 1]

TypesValid(p, i) ==
  p.minor = TYPED_MINOR =>
    LET in == At(p, i)
        type(x) == p.types[x + 1]
        number(x) == type(x) = "number"
        boolean(x) == type(x) = "boolean"
    IN  CASE in.op = "CONST_F64"  -> number(in.a)
          [] in.op = "CONST_BOOL" -> boolean(in.a)
          [] in.op = "MOVE"       -> type(in.a) = type(in.b)
          [] in.op = "NEG"        -> number(in.a) /\ number(in.b)
          [] in.op \in ArithmeticOps -> number(in.a) /\ number(in.b) /\ number(in.c)
          [] in.op \in {"EQ", "NE"} -> boolean(in.a) /\ type(in.b) = type(in.c)
          [] in.op \in {"LT", "LE", "GT", "GE"} ->
               boolean(in.a) /\ number(in.b) /\ number(in.c)
          [] in.op = "JUMP_IF_FALSE" -> boolean(in.a)
          [] in.op = "RETURN" -> type(in.a) = p.returns[Owner(p, i) + 1]
          [] in.op = "CALL"   -> /\ type(in.a) = p.returns[in.b + 1]
                                 /\ ArgumentTypesValid(p, in)
          [] OTHER -> TRUE

\* Calls form no cycle: nothing reaches itself along the edges.
RECURSIVE CallsInto(_, _)
CallsInto(p, fs) ==
  LET more == fs \cup {At(p, i).b : i \in {j \in Pcs(p) : At(p, j).op = "CALL"
                                                          /\ Owner(p, j) \in fs}}
  IN  IF more = fs THEN fs ELSE CallsInto(p, more)

NoRecursion(p) ==
  p.minor >= CALL_MINOR =>
    \A i \in Pcs(p) : At(p, i).op = "CALL" => Owner(p, i) \notin CallsInto(p, {At(p, i).b})

FallsThrough(p, i) == At(p, i).op \notin {"RETURN", "JUMP"}

Successors(p, i) ==
  LET in == At(p, i) IN
  (IF FallsThrough(p, i) THEN {i + 1} ELSE {}) \cup
  (CASE in.op = "JUMP" -> {in.a} [] in.op = "JUMP_IF_FALSE" -> {in.b} [] OTHER -> {})

\* The instructions a body can reach, without leaving it.
RECURSIVE ReachedFrom(_, _, _)
ReachedFrom(p, body, seen) ==
  LET more == seen \cup {i \in UNION {Successors(p, j) : j \in seen} :
                           i \in body.start..(body.end - 1)}
  IN  IF more = seen THEN seen ELSE ReachedFrom(p, body, more)

ControlFlowValid(p, body) ==
  LET reached == ReachedFrom(p, body, {body.start}) IN
  /\ \A i \in reached : FallsThrough(p, i) => i + 1 < body.end
  /\ \E i \in reached : At(p, i).op = "RETURN"

Verified(p) ==
  /\ HeaderValid(p)
  /\ FunctionTableValid(p)
  /\ TypeTablesValid(p)
  /\ \A i \in Pcs(p) : OperandsValid(p, i) /\ TypesValid(p, i)
  /\ NoRecursion(p)
  /\ \A body \in Bodies(p) : ControlFlowValid(p, body)

\* The encoder gives out only what the verifier accepts.
Encoded(p) == IF Verified(p) THEN p ELSE NoProgram

-----------------------------------------------------------------------------
(* The machine.                                                             *)

Idle ==
  /\ program = NoProgram /\ pc = 0 /\ registers = <<>> /\ frames = <<>>
  /\ steps = 0 /\ outcome = "idle" /\ result = 0

\* The program is verified again; registers start at zero, in function 0.
StartRun(p) ==
  /\ program' = p
  /\ steps' = 0 /\ frames' = <<>> /\ result' = 0
  /\ pc' = IF Verified(p) /\ p.minor >= CALL_MINOR THEN FunctionStart(p, 0) ELSE 0
  /\ registers' = [r \in 0..(p.registers - 1) |-> 0]
  /\ outcome' = IF Verified(p) THEN "running" ELSE "error"

Current == At(program, pc)

\* The budget is checked before every instruction.
Budget == outcome = "running" /\ steps < limits.steps

\* (mutant) A jump is not charged.
Fetch_FreeJumps(ops) == Budget /\ Current.op \in ops
                        /\ steps' = IF "JUMP" \in ops THEN steps ELSE steps + 1

Fetch(ops) == Budget /\ Current.op \in ops /\ steps' = steps + 1

ExhaustSteps ==
  /\ outcome = "running" /\ steps >= limits.steps
  /\ outcome' = "steps"
  /\ UNCHANGED <<program, pc, registers, frames, steps, result>>

Stop(why) ==
  /\ outcome' = why
  /\ UNCHANGED <<program, pc, registers, frames, result>>

Put(r, v) ==
  /\ registers' = [registers EXCEPT ![r] = v]
  /\ pc' = pc + 1
  /\ UNCHANGED <<program, frames, outcome, result>>

Transfer == Fetch({"CONST_F64", "CONST_BOOL", "MOVE", "NEG"})
            /\ Put(Current.a, CASE Current.op = "MOVE" -> registers[Current.b]
                                [] Current.op = "NEG"  -> -registers[Current.b]
                                [] OTHER -> Current.imm)

Operate ==
  /\ Fetch(ArithmeticOps \cup ComparisonOps)
  /\ LET v == Computed(Current.op, registers[Current.b], registers[Current.c]) IN
     IF v.ok THEN Put(Current.a, v.value) ELSE Stop("error")

Jump ==
  /\ Fetch({"JUMP", "JUMP_IF_FALSE"})
  /\ pc' = CASE Current.op = "JUMP" -> Current.a
             [] registers[Current.a] = 0 -> Current.b
             [] OTHER -> pc + 1
  /\ UNCHANGED <<program, registers, frames, outcome, result>>

\* Arguments are copied to the callee's parameters; registers are shared by
\* all functions, so only the return address and destination are saved.
Call ==
  /\ Fetch({"CALL"})
  /\ IF Len(frames) >= limits.depth THEN Stop("depth")
     ELSE LET base == ParameterBase(program, Current.b) IN
          /\ frames' = Append(frames, [return |-> pc + 1, destination |-> Current.a])
          /\ registers' = [r \in DOMAIN registers |->
                             IF r \in base..(base + Current.imm - 1)
                               THEN registers[Current.c + (r - base)] ELSE registers[r]]
          /\ pc' = FunctionStart(program, Current.b)
          /\ UNCHANGED <<program, outcome, result>>

Return ==
  /\ Fetch({"RETURN"})
  /\ LET v == registers[Current.a] IN
     IF frames = <<>>
       THEN /\ outcome' = "ok" /\ result' = v
            /\ UNCHANGED <<program, pc, registers, frames>>
       ELSE /\ frames' = Front(frames)
            /\ registers' = [registers EXCEPT ![Last(frames).destination] = v]
            /\ pc' = Last(frames).return
            /\ UNCHANGED <<program, outcome, result>>

Execute == Transfer \/ Operate \/ Jump \/ Call \/ Return \/ ExhaustSteps
=============================================================================
