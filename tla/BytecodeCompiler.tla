-------------------------- MODULE BytecodeCompiler --------------------------
(***************************************************************************)
(* Compilation of a typed scalar program to bytecode v1.2                  *)
(* (src/src/bytecode_compiler.c).                                          *)
(*                                                                         *)
(* Lowering carries a context [ok, code, types, locals, function]: the     *)
(* instructions so far, the type of each register given out, the variables *)
(* in scope as [symbol, reg, type], and whether all was accepted.  Once it *)
(* is refused the rest does not matter, as the code then stops.            *)
(***************************************************************************)
EXTENDS Bytecode

\* A jump whose target is not known yet.
Unpatched == MaxInstructions

Refuse(low) == [low EXCEPT !.ok = FALSE]
Require(low, condition) == [low EXCEPT !.ok = @ /\ condition]

Emit(low, in) ==
  [Require(low, Len(low.code) < MaxInstructions) EXCEPT !.code = Append(@, in)]

PatchTarget(low, at) ==
  LET target == Len(low.code) IN
  [Require(low, target < MaxInstructions) EXCEPT
     !.code[at] = IF @.op = "JUMP" THEN [@ EXCEPT !.a = target] ELSE [@ EXCEPT !.b = target]]

\* The new register is the one after the last.
AllocateRegister(low, type) ==
  [Require(low, type \in ScalarTypes /\ Len(low.types) < MaxRegisters) EXCEPT
     !.types = Append(@, type)]
LastRegister(low) == Len(low.types) - 1

Locals(low, symbol) == {l \in ToSet(low.locals) : l.symbol = symbol}
FindLocal(low, symbol) == CHOOSE l \in Locals(low, symbol) : TRUE

BindLocal(low, symbol, type) ==
  [Require(low, symbol # 0 /\ Locals(low, symbol) = {}) EXCEPT
     !.locals = Append(@, [symbol |-> symbol, reg |-> LastRegister(low), type |-> type])]

-----------------------------------------------------------------------------
(* The order of functions (principal first) and the calls between them.     *)

OrderedFunctions(hir) ==
  LET principal == CHOOSE i \in FunctionsNamed(hir, "principal") : TRUE IN
  <<hir.functions[principal]>> \o RemoveAt(hir.functions, principal)

FunctionsLinked(hir) ==
  /\ hir.statements = <<>>
  /\ Len(hir.functions) \in 1..MaxFunctions
  /\ Cardinality(FunctionsNamed(hir, "principal")) = 1
  /\ Cardinality({f.symbol : f \in ToSet(hir.functions)}) = Len(hir.functions)
  /\ \A f \in ToSet(hir.functions) : ReturnTypeResolved(f)
  /\ LET principal == OrderedFunctions(hir)[1] IN
     principal.parameters = <<>> /\ FunctionReturnType(principal) = "number"

FunctionIndex(functions, symbol) ==
  {i \in DOMAIN functions : functions[i].symbol = symbol}

RECURSIVE ExpressionCalls(_)
ExpressionCalls(e) ==
  CASE e.kind = "binary" -> ExpressionCalls(e.left) \cup ExpressionCalls(e.right)
    [] e.kind = "call"   -> {e.symbol} \cup
                            UNION {ExpressionCalls(e.arguments[i]) : i \in DOMAIN e.arguments}
    [] OTHER -> {}

RECURSIVE StatementCalls(_)
StatementCalls(statements) ==
  UNION {LET s == statements[i] IN
         IF s.kind = "if" THEN ExpressionCalls(s.condition) \cup StatementCalls(s.then)
                                                            \cup StatementCalls(s.else)
         ELSE ExpressionCalls(s.expression) : i \in DOMAIN statements}

\* The symbols a function calls, itself or through others.
RECURSIVE SymbolsCalled(_, _)
SymbolsCalled(functions, symbols) ==
  LET more == symbols \cup UNION {StatementCalls(f.body) :
                                    f \in {g \in ToSet(functions) : g.symbol \in symbols}}
  IN  IF more = symbols THEN symbols ELSE SymbolsCalled(functions, more)

CallGraphValid(functions) ==
  \A f \in ToSet(functions) :
    /\ StatementCalls(f.body) \subseteq {g.symbol : g \in ToSet(functions)}
    /\ f.symbol \notin SymbolsCalled(functions, StatementCalls(f.body))

-----------------------------------------------------------------------------
(* Expressions.  Each gives [low, reg].                                     *)

BinaryTypesValid(e) ==
  IF e.op \in ArithmeticOps
    THEN e.type = "number" /\ e.left.type = "number" /\ e.right.type = "number"
    ELSE /\ e.op \in ComparisonOps /\ e.type = "boolean" /\ e.left.type = e.right.type
         /\ e.left.type = "boolean" => e.op \in {"EQ", "NE"}

Produced(low, type, op, b, c, imm) ==
  LET with == AllocateRegister(low, type)
      reg == LastRegister(with)
  IN  [low |-> Emit(with, Instr(op, reg, b, c, imm)), reg |-> reg]

RECURSIVE LowerExpression(_, _, _)
LowerExpression(functions, low, e) ==
  CASE ~low.ok -> [low |-> low, reg |-> 0]
    [] e.kind = "literal" ->
         Produced(Require(low, Finite(e.value)), e.type,
                  IF e.type = "number" THEN "CONST_F64" ELSE "CONST_BOOL", 0, 0, e.value)
    [] e.kind = "variable" ->
         IF \E l \in Locals(low, e.symbol) : l.type = e.type
           THEN [low |-> low, reg |-> FindLocal(low, e.symbol).reg]
           ELSE [low |-> Refuse(low), reg |-> 0]
    [] e.kind = "binary" ->
         LET l == LowerExpression(functions, Require(low, BinaryTypesValid(e)), e.left)
             r == LowerExpression(functions, l.low, e.right)
         IN  IF r.low.ok THEN Produced(r.low, e.type, e.op, l.reg, r.reg, 0) ELSE r
    [] e.kind = "call" ->
         LET callee == CHOOSE i \in FunctionIndex(functions, e.symbol) : TRUE
             f == functions[callee]
             linked == /\ FunctionIndex(functions, e.symbol) # {}
                       /\ e.type = FunctionReturnType(f)
                       /\ Len(e.arguments) = Len(f.parameters)
                       /\ \A i \in DOMAIN e.arguments :
                            e.arguments[i].type = f.parameters[i].type
             \* every argument first, and only then the consecutive copies
             all == FoldLeft(LAMBDA acc, a :
                               LET x == LowerExpression(functions, acc.low, a)
                               IN  [low |-> x.low, regs |-> Append(acc.regs, x.reg)],
                             [low |-> Require(low, linked), regs |-> <<>>], e.arguments)
             base == Len(all.low.types)
             copied == FoldLeft(LAMBDA acc, i :
                                  Produced(acc, e.arguments[i].type, "MOVE",
                                           all.regs[i], 0, 0).low,
                                all.low, [i \in DOMAIN e.arguments |-> i])
         IN  IF linked /\ all.low.ok
               THEN Produced(copied, e.type, "CALL", callee - 1, base, Len(e.arguments))
               ELSE [low |-> Refuse(low), reg |-> 0]
    [] OTHER -> [low |-> Refuse(low), reg |-> 0]

-----------------------------------------------------------------------------
(* Statements.  Each gives [low, ends]: does every path return?             *)

Moved(x, to) == Emit(x.low, Instr("MOVE", to, x.reg, 0, 0))

RECURSIVE LowerStatements(_, _, _)

LowerDeclare(functions, low, s) ==
  LET with == BindLocal(AllocateRegister(Require(low, s.expression.type = s.type), s.type),
                        s.symbol, s.type)
  IN  Moved(LowerExpression(functions, with, s.expression), LastRegister(with))

LowerAssign(functions, low, s) ==
  IF \E l \in Locals(low, s.symbol) : l.type = s.type /\ s.expression.type = s.type
    THEN Moved(LowerExpression(functions, low, s.expression), FindLocal(low, s.symbol).reg)
    ELSE Refuse(low)

LowerReturn(functions, low, s) ==
  LET f == functions[low.function]
      x == LowerExpression(functions,
             Require(low, s.type = FunctionReturnType(f) /\ s.expression.type = s.type),
             s.expression)
  IN  Emit(x.low, Instr("RETURN", x.reg, 0, 0, 0))

\* The first arm jumps over the second unless it returns.
LowerElse(functions, then, falseBranch, s) ==
  LET hasElse == s.else # <<>>
      jumps == hasElse /\ ~then.ends
      ended == IF jumps THEN Emit(then.low, Instr("JUMP", Unpatched, 0, 0, 0)) ELSE then.low
      else == LowerStatements(functions, PatchTarget(ended, falseBranch), s.else)
  IN  IF then.low.ok /\ else.low.ok
        THEN [low |-> IF jumps THEN PatchTarget(else.low, Len(ended.code)) ELSE else.low,
              ends |-> hasElse /\ then.ends /\ else.ends]
        ELSE [low |-> Refuse(then.low), ends |-> FALSE]

LowerIf(functions, low, s) ==
  LET c == LowerExpression(functions, Require(low, s.condition.type = "boolean"), s.condition)
      branch == Emit(c.low, Instr("JUMP_IF_FALSE", c.reg, Unpatched, 0, 0))
  IN  IF branch.ok
        THEN LowerElse(functions, LowerStatements(functions, branch, s.then),
                       Len(branch.code), s)
        ELSE [low |-> branch, ends |-> FALSE]

\* Nothing may follow a statement that returns on every path.
LowerStatements(functions, low, statements) ==
  FoldLeft(LAMBDA acc, s :
             LET from == Require(acc.low, ~acc.ends) IN
             IF ~from.ok THEN [low |-> from, ends |-> FALSE]
             ELSE CASE s.kind = "declare" -> [low |-> LowerDeclare(functions, from, s), ends |-> FALSE]
                    [] s.kind = "assign"  -> [low |-> LowerAssign(functions, from, s), ends |-> FALSE]
                    [] s.kind = "return"  -> [low |-> LowerReturn(functions, from, s), ends |-> TRUE]
                    [] s.kind = "if"      -> LowerIf(functions, from, s),
           [low |-> low, ends |-> FALSE], statements)

-----------------------------------------------------------------------------
(* Programs.                                                                *)

\* A function is a marker, its parameters in consecutive registers and a
\* body that returns on every path; locals of other functions are forgotten.
LowerFunction(functions, low, i) ==
  LET f == functions[i]
      marked == Emit([low EXCEPT !.locals = <<>>, !.function = i],
                     Instr("FUNCTION", i - 1, Len(low.types), Len(f.parameters), 0))
      bound == FoldLeft(LAMBDA acc, p : BindLocal(AllocateRegister(acc, p.type), p.symbol, p.type),
                        marked, f.parameters)
      body == LowerStatements(functions, bound, f.body)
  IN  Require(body.low, body.ends)

Lowered(functions) ==
  FoldLeft(LAMBDA acc, i : IF acc.ok THEN LowerFunction(functions, acc, i) ELSE acc,
           [ok |-> TRUE, code |-> <<>>, types |-> <<>>, locals |-> <<>>, function |-> 1],
           [i \in DOMAIN functions |-> i])

ProgramOf(functions, low) ==
  [minor |-> TYPED_MINOR, registers |-> Len(low.types), code |-> low.code, types |-> low.types,
   returns |-> [i \in DOMAIN functions |-> FunctionReturnType(functions[i])]]

\* Why a program is not compiled, or that it is: it is not one of the
\* subset, or (an internal error) the verifier refuses what was emitted.
Finish(functions, low) ==
  IF ~low.ok THEN [status |-> "unsupported", program |-> NoProgram]
  ELSE LET p == Encoded(ProgramOf(functions, low)) IN
       [status |-> IF p = NoProgram THEN "internal" ELSE "ok", program |-> p]

Linked(functions) ==
  IF CallGraphValid(functions) THEN Finish(functions, Lowered(functions))
                               ELSE [status |-> "unsupported", program |-> NoProgram]

BytecodeOf(hir) ==
  IF FunctionsLinked(hir) THEN Linked(OrderedFunctions(hir))
                          ELSE [status |-> "unsupported", program |-> NoProgram]
=============================================================================
