--------------------------- MODULE ScalarPrograms ---------------------------
(***************************************************************************)
(* The two ways a scalar program runs: compiled to bytecode v1.2 for the   *)
(* register machine, and lowered to the typed module the virtual machine   *)
(* reads back from its portable form.  Both machines also take programs    *)
(* nobody compiled, as both are entry points of the library.               *)
(*                                                                         *)
(* A source is [kind |-> "hir", hir], [kind |-> "bytecode", program] or    *)
(* [kind |-> "module", module, arguments, damage], where damage is what    *)
(* happened to the encoded module before it is loaded.                     *)
(***************************************************************************)
EXTENDS BytecodeCompiler, TypedVM

CONSTANTS Sources, Limits

VARIABLES
  source,
  phase,            \* "compile", "bytecode" or "vm"
  bytecodeStatus,   \* what each compiler said: "ok", "unsupported", "internal"
  moduleStatus

vars == <<limits, machineVars, vmLimits, vmVars, source, phase, bytecodeStatus, moduleStatus>>

Init ==
  /\ source \in Sources
  /\ limits \in Limits /\ vmLimits = limits
  /\ Idle /\ VMIdle
  /\ phase = "compile"
  /\ bytecodeStatus = "none" /\ moduleStatus = "none"

\* An unsupported tree has no typed program, and neither compiler starts.
Built == source.kind = "hir" /\ Supported(source.hir)

StartCompiled(compiled) ==
  /\ bytecodeStatus' = compiled.status
  /\ IF compiled.status = "ok" THEN StartRun(compiled.program) ELSE UNCHANGED machineVars

CompileBytecode ==
  /\ phase = "compile"
  /\ phase' = "bytecode"
  /\ CASE Built -> StartCompiled(BytecodeOf(source.hir))
       [] source.kind = "bytecode" -> StartRun(source.program) /\ bytecodeStatus' = "none"
       [] OTHER -> UNCHANGED <<machineVars, bytecodeStatus>>
  /\ UNCHANGED <<limits, vmLimits, vmVars, source, moduleStatus>>

RunBytecode ==
  /\ phase = "bytecode" /\ Execute
  /\ UNCHANGED <<limits, vmLimits, vmVars, source, phase, bytecodeStatus, moduleStatus>>

Damaged(wire, damage) ==
  CASE damage = "none"  -> wire
    [] damage = "cut"   -> Front(wire)
    [] damage = "extra" -> Append(wire, 0)
    [] damage = "lost"  -> [Front(wire) EXCEPT ![1] = @ - 1]

\* The entry is principal, when there is one.
LoadLowered(lowered) ==
  LET principal == {f \in ToSet(lowered.module) : f.name = "principal"} IN
  /\ moduleStatus' = lowered.status
  /\ IF principal # {}
       THEN LoadAndEnter(EncodeModule(lowered.module), (CHOOSE f \in principal : TRUE).symbol, <<>>)
       ELSE UNCHANGED vmVars

CompileModule ==
  /\ phase = "bytecode" /\ outcome # "running"
  /\ phase' = "vm"
  /\ CASE Built -> LoadLowered(ModuleOf(source.hir))
       [] source.kind = "module" ->
            /\ LoadAndEnter(Damaged(EncodeModule(source.module), source.damage),
                            source.module[1].symbol, source.arguments)
            /\ moduleStatus' = "none"
       [] OTHER -> UNCHANGED <<vmVars, moduleStatus>>
  /\ UNCHANGED <<limits, vmLimits, machineVars, source, bytecodeStatus>>

RunModule ==
  /\ phase = "vm" /\ VMExecute
  /\ UNCHANGED <<limits, machineVars, vmLimits, source, phase, bytecodeStatus, moduleStatus>>

Finished == phase = "vm" /\ vmOutcome # "running"

Done == Finished /\ UNCHANGED vars

Next == CompileBytecode \/ RunBytecode \/ CompileModule \/ RunModule \/ Done

\* A machine that runs takes its next step: milena_bytecode_run and
\* milena_vm_run are plain loops.
Spec == Init /\ [][Next]_vars /\ WF_vars(RunBytecode) /\ WF_vars(RunModule)

-----------------------------------------------------------------------------
(* Properties.                                                              *)

TypeOK ==
  /\ outcome \in {"idle", "running", "ok", "error", "steps", "depth"}
  /\ vmOutcome \in {"idle", "refused", "running", "ok", "error", "steps", "depth", "broken"}
  /\ steps \in 0..limits.steps /\ vmSteps \in 0..vmLimits.steps
  /\ Len(frames) =< limits.depth /\ Len(stack) =< vmLimits.depth
  /\ \A r \in DOMAIN registers : Finite(registers[r])

\* What the register machine reads and writes without looking: the machine
\* has no check of its own left, so these lean on the verifier alone.
RegistersOf(in) ==
  CASE in.op = "CONST_F64" \/ in.op = "CONST_BOOL" \/ in.op = "RETURN" -> {in.a}
    [] in.op = "MOVE" \/ in.op = "NEG" -> {in.a, in.b}
    [] in.op \in ArithmeticOps \cup ComparisonOps -> {in.a, in.b, in.c}
    [] in.op = "JUMP_IF_FALSE" -> {in.a}
    [] in.op = "CALL" -> {in.a} \cup in.c..(in.c + in.imm - 1)
                           \cup ParameterBase(program, in.b)..(ParameterBase(program, in.b) + in.imm - 1)
    [] OTHER -> {}

\* A verified program never runs off its code or its registers, a register
\* declared boolean never holds another number, calls nest no deeper than
\* there are functions, and the virtual machine never meets a value that is
\* missing or of another type (verify_internal, milena_ir_program_validate).
RunsSafely ==
  /\ TypeOK
  /\ outcome = "running" =>
       /\ pc \in Pcs(program)
       /\ Current.op # "FUNCTION"
       /\ RegistersOf(Current) \subseteq DOMAIN registers
       /\ program.minor = TYPED_MINOR =>
            \A r \in DOMAIN registers :
              program.types[r + 1] = "boolean" => registers[r] \in {0, 1}
  /\ program.minor >= CALL_MINOR /\ outcome \in {"running", "depth"} =>
       Len(frames) < Len(Marks(program))
  /\ vmOutcome # "broken"

\* What a compiler emits its own verifier or validator accepts: a program is
\* refused for what it is, never for what was made of it.
RefusedForItself == bytecodeStatus # "internal" /\ moduleStatus # "internal"

\* Both arms of a conditional end by giving one variable the same other
\* variable: the values do not differ, so the merge leaves the variable as it
\* was before the conditional (canonical_ir.c:1197 and 1608).
LastAssigned(statements, symbol) ==
  FoldLeft(LAMBDA found, s :
             IF s.kind = "assign" /\ s.symbol = symbol THEN s.expression ELSE found,
           [kind |-> "none"], statements)

RECURSIVE ArmsAgree(_)
ArmsAgree(statements) ==
  \E i \in DOMAIN statements :
    LET s == statements[i] IN
    /\ s.kind = "if"
    /\ \/ \E t \in ToSet(s.then) :
            /\ t.kind = "assign"
            /\ LastAssigned(s.then, t.symbol).kind = "variable"
            /\ LastAssigned(s.then, t.symbol) = LastAssigned(s.else, t.symbol)
       \/ ArmsAgree(s.then) \/ ArmsAgree(s.else)

AssignsAlike(hir) == \E f \in ToSet(hir.functions) : ArmsAgree(f.body)

Returned(status, computed, meaning) ==
  /\ status = "ok" => meaning = Success(computed)
  /\ status = "error" => meaning = Failure

BytecodeComputesSource ==
  (bytecodeStatus = "ok" /\ phase = "vm") => Returned(outcome, result, Meaning(source.hir))

\* The virtual machine computes what the source says: see the findings.
ModuleComputesSource ==
  (moduleStatus = "ok" /\ Finished) => Returned(vmOutcome, vmResult.v, Meaning(source.hir))

\* A program that is compiled is accepted by the verifier of either machine, and
\* when it ends within its limits it computes what its source says on both, and
\* fails on both when the source divides by zero or overflows; but for the
\* sources in which both arms assign alike.
MachinesAgree ==
  /\ RefusedForItself
  /\ BytecodeComputesSource
  /\ ModuleComputesSource \/ AssignsAlike(source.hir)

\* A run ends, whatever the program loops on: every instruction of either
\* machine is charged to the budget of steps.
RunsEnd ==
  /\ (outcome = "running") ~> (outcome # "running")
  /\ (vmOutcome = "running") ~> (vmOutcome # "running")
=============================================================================
