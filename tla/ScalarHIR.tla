----------------------------- MODULE ScalarHIR -----------------------------
(***************************************************************************)
(* The typed scalar programs both compilers of the repository start from:  *)
(* functions over numbers and booleans, built by src/src/canonical_        *)
(* compiler.c from the analysed syntax tree.  Also what such a program     *)
(* computes, which is what compiled code is compared with.                 *)
(*                                                                         *)
(* A double is an integer; beyond MaxFinite in size it is not finite.  A   *)
(* boolean is 0 or 1.  Division truncates; every machine and the meaning   *)
(* below share it, so only which operands meet is at stake.                *)
(*   expression  [kind, type, value | symbol | op, left, right |           *)
(*                symbol, arguments]                                       *)
(*   statement   [kind, ...] of declare, assign, return and if             *)
(*   function    [name, symbol, parameters, body]                          *)
(***************************************************************************)
EXTENDS Integers, Sequences, FiniteSets, SequencesExt

CONSTANT MaxFinite   \* the largest finite number

ASSUME MaxFiniteAssumption == MaxFinite \in Nat

ScalarTypes == {"number", "boolean"}
ArithmeticOps == {"ADD", "SUB", "MUL", "DIV"}
ComparisonOps == {"EQ", "NE", "LT", "LE", "GT", "GE"}

Finite(v) == v \in (-MaxFinite)..MaxFinite
Truth(b) == IF b THEN 1 ELSE 0

Failure == [ok |-> FALSE, value |-> 0]
Success(v) == [ok |-> TRUE, value |-> v]

Sign(n) == IF n < 0 THEN -1 ELSE 1
Quotient(l, r) == Sign(l) * Sign(r) * ((Sign(l) * l) \div (Sign(r) * r))

\* One numeric operation of either machine: division by zero and a result
\* that is not finite are run-time errors.
Computed(op, l, r) ==
  IF op = "DIV" /\ r = 0 THEN Failure
  ELSE LET v == CASE op = "ADD" -> l + r
                  [] op = "SUB" -> l - r
                  [] op = "MUL" -> l * r
                  [] op = "DIV" -> Quotient(l, r)
                  [] op = "EQ"  -> Truth(l = r)
                  [] op = "NE"  -> Truth(l # r)
                  [] op = "LT"  -> Truth(l < r)
                  [] op = "LE"  -> Truth(l =< r)
                  [] op = "GT"  -> Truth(l > r)
                  [] op = "GE"  -> Truth(l >= r)
       IN  IF Finite(v) THEN Success(v) ELSE Failure

-----------------------------------------------------------------------------
(* Construction from the syntax tree.                                       *)

RECURSIVE SupportedExpression(_)
SupportedExpression(e) ==
  /\ e.type \in ScalarTypes
  /\ CASE e.kind = "literal"  -> TRUE
       [] e.kind = "variable" -> e.symbol # 0
       [] e.kind = "binary"   -> /\ SupportedExpression(e.left)
                                 /\ SupportedExpression(e.right)
       [] e.kind = "call"     -> /\ e.symbol # 0
                                 /\ \A i \in DOMAIN e.arguments :
                                      SupportedExpression(e.arguments[i])
       [] OTHER -> FALSE

RECURSIVE SupportedStatements(_)
SupportedStatements(statements) ==
  \A i \in DOMAIN statements :
    LET s == statements[i] IN
    CASE s.kind \in {"declare", "assign", "return"} ->
           s.type \in ScalarTypes /\ SupportedExpression(s.expression)
      [] s.kind = "if" -> /\ SupportedExpression(s.condition)
                          /\ SupportedStatements(s.then)
                          /\ SupportedStatements(s.else)
      [] OTHER -> FALSE

\* The types of the returns of a body, in the order they are written.
RECURSIVE ReturnTypes(_)
ReturnTypes(statements) ==
  IF statements = <<>> THEN <<>>
  ELSE LET s == Head(statements)
           here == CASE s.kind = "return" -> <<s.type>>
                     [] s.kind = "if" -> ReturnTypes(s.then) \o ReturnTypes(s.else)
                     [] OTHER -> <<>>
       IN  here \o ReturnTypes(Tail(statements))

\* Numeric when there is no return: the type is then not resolved.
FunctionReturnType(f) ==
  IF ReturnTypes(f.body) = <<>> THEN "number" ELSE Head(ReturnTypes(f.body))

ReturnTypeResolved(f) ==
  /\ ReturnTypes(f.body) # <<>>
  /\ \A t \in ToSet(ReturnTypes(f.body)) : t = FunctionReturnType(f)

\* What scalar_hir_build accepts; it then keeps every node with its type.
Supported(hir) ==
  /\ SupportedStatements(hir.statements)
  /\ \A i \in DOMAIN hir.functions :
       LET f == hir.functions[i] IN
       /\ f.symbol # 0
       /\ \A p \in DOMAIN f.parameters :
            f.parameters[p].symbol # 0 /\ f.parameters[p].type \in ScalarTypes
       /\ SupportedStatements(f.body)

FunctionsNamed(hir, name) == {i \in DOMAIN hir.functions : hir.functions[i].name = name}

-----------------------------------------------------------------------------
(* What a program computes: the number principal returns, or Failure.       *)

RECURSIVE Value(_, _, _), Executed(_, _, _), Called(_, _, _)

\* The value of an expression where env maps symbols to values.
Value(hir, e, env) ==
  CASE e.kind = "literal"  -> Success(e.value)
    [] e.kind = "variable" -> Success(env[e.symbol])
    [] e.kind = "binary"   ->
         LET l == Value(hir, e.left, env)
             r == Value(hir, e.right, env)
         IN  IF l.ok /\ r.ok THEN Computed(e.op, l.value, r.value) ELSE Failure
    [] e.kind = "call"     ->
         LET arguments == [i \in DOMAIN e.arguments |-> Value(hir, e.arguments[i], env)]
             f == CHOOSE g \in ToSet(hir.functions) : g.symbol = e.symbol
         IN  IF \A i \in DOMAIN arguments : arguments[i].ok
               THEN Called(hir, f, [i \in DOMAIN arguments |-> arguments[i].value])
               ELSE Failure

\* The effect of statements: where they leave the variables, and what they
\* return when they return.
Executed(hir, statements, env) ==
  IF statements = <<>> THEN [returned |-> FALSE, env |-> env, result |-> Failure]
  ELSE LET s == Head(statements)
           fails == [returned |-> TRUE, env |-> env, result |-> Failure]
           rest(e) == Executed(hir, Tail(statements), e)
       IN  CASE s.kind \in {"declare", "assign"} ->
                  LET v == Value(hir, s.expression, env)
                  IN  IF v.ok THEN rest([x \in DOMAIN env \cup {s.symbol} |->
                                           IF x = s.symbol THEN v.value ELSE env[x]])
                              ELSE fails
             [] s.kind = "return" -> [fails EXCEPT !.result = Value(hir, s.expression, env)]
             [] s.kind = "if" ->
                  LET c == Value(hir, s.condition, env)
                      arm == Executed(hir, IF c.value # 0 THEN s.then ELSE s.else, env)
                  IN  IF ~c.ok THEN fails
                      ELSE IF arm.returned THEN arm
                      ELSE rest([x \in DOMAIN env |-> arm.env[x]])

Called(hir, f, arguments) ==
  LET env == [x \in {f.parameters[i].symbol : i \in DOMAIN f.parameters} |->
                arguments[CHOOSE i \in DOMAIN f.parameters : f.parameters[i].symbol = x]]
  IN  Executed(hir, f.body, env).result

Meaning(hir) ==
  Called(hir, hir.functions[CHOOSE i \in FunctionsNamed(hir, "principal") : TRUE], <<>>)
=============================================================================
