--------------------------- MODULE MCScalarPrograms ---------------------------
(* Programs for ScalarPrograms, in families: every pair of arms of a         *)
(* conditional, ways to call, return and refuse, bytecode nobody compiled    *)
(* and typed modules nobody lowered.  Variables are symbols 1 to 3,          *)
(* functions 10 to 13; numbers are so small that overflow is close.          *)
EXTENDS ScalarPrograms

Num(v) == [kind |-> "literal", type |-> "number", value |-> v]
Bool(v) == [kind |-> "literal", type |-> "boolean", value |-> v]
Text == [kind |-> "literal", type |-> "text", value |-> 0]
Var(x) == [kind |-> "variable", type |-> "number", symbol |-> x]
Flag(x) == [kind |-> "variable", type |-> "boolean", symbol |-> x]
Bin(op, l, r) == [kind |-> "binary", op |-> op, left |-> l, right |-> r,
                  type |-> IF op \in ArithmeticOps THEN "number" ELSE "boolean"]
CallTo(f, type, arguments) ==
  [kind |-> "call", type |-> type, symbol |-> f, arguments |-> arguments]
Apply(f, arguments) == CallTo(f, "number", arguments)

Declare(x, e) == [kind |-> "declare", symbol |-> x, type |-> e.type, expression |-> e]
Assign(x, e) == [kind |-> "assign", symbol |-> x, type |-> e.type, expression |-> e]
Ret(e) == [kind |-> "return", type |-> e.type, expression |-> e]
If(c, a, b) == [kind |-> "if", condition |-> c, then |-> a, else |-> b]

Parameter(x) == [symbol |-> x, type |-> "number"]
BoolParameter(x) == [symbol |-> x, type |-> "boolean"]
Fun(name, symbol, parameters, body) ==
  [name |-> name, symbol |-> symbol, parameters |-> parameters, body |-> body]
Principal(body) == Fun("principal", 10, <<>>, body)

Tree(functions, statements) ==
  [kind |-> "hir", hir |-> [functions |-> functions, statements |-> statements]]
Main(body) == Tree(<<Principal(body)>>, <<>>)

\* Conditionals: x is 1 and y is 3, then the arms, then both are looked at.
Arms ==
  {<<>>,
   <<Assign(1, Var(2))>>,
   <<Assign(1, Bin("ADD", Var(1), Num(1)))>>,
   <<Assign(2, Var(1)), Assign(1, Num(2))>>,
   <<Declare(3, Bin("SUB", Var(2), Var(1))), Assign(2, Var(3))>>,
   <<Assign(1, Bin("MUL", Var(2), Var(2)))>>,
   <<If(Bin("EQ", Var(1), Num(1)), <<Assign(2, Var(1))>>, <<>>), Assign(1, Num(0))>>}

Conditionals ==
  {Main(<<Declare(1, Num(1)), Declare(2, Num(3)),
          If(Bin(op, Var(1), Var(2)), a, b), Ret(Bin("DIV", Var(2), Var(1)))>>) :
     op \in {"LT", "GE"}, a \in Arms, b \in Arms}
  \cup {Main(<<Declare(1, Num(1)), Declare(2, Num(3)),
               If(Bin("NE", Var(1), Num(0)), <<If(Bin("GT", Var(1), Var(2)), a, b)>>, c),
               Ret(Bin("SUB", Var(1), Var(2)))>>) :
          a \in Arms, b \in Arms, c \in {<<>>, <<Assign(1, Var(2))>>}}

\* Calls: f doubles, g subtracts its arguments, h chooses between two returns.
F(body) == Fun("f", 11, <<Parameter(1)>>, body)
Double == F(<<Ret(Bin("ADD", Var(1), Var(1)))>>)
Minus == Fun("g", 12, <<Parameter(1), Parameter(2)>>, <<Ret(Bin("SUB", Var(1), Var(2)))>>)
Choice == Fun("h", 13, <<Parameter(1)>>,
              <<If(Bin("LE", Var(1), Num(1)), <<Ret(Num(1))>>,
                   <<Ret(Apply(11, <<Bin("SUB", Var(1), Num(1))>>))>>)>>)

CallExpressions ==
  {Apply(11, <<Num(2)>>), Apply(12, <<Num(1), Num(3)>>),
   Apply(12, <<Num(1), Apply(12, <<Num(2), Num(1)>>)>>),
   Apply(12, <<Apply(11, <<Num(1)>>), Apply(11, <<Num(3)>>)>>),
   Bin("ADD", Apply(11, <<Var(1)>>), Var(1)),
   Apply(13, <<Apply(12, <<Num(4), Var(1)>>)>>),
   Apply(11, <<Apply(11, <<Apply(11, <<Num(1)>>)>>)>>),
   Apply(11, <<>>), Apply(12, <<Num(1)>>), Apply(14, <<Num(1)>>),
   Apply(11, <<Bool(1)>>), CallTo(11, "boolean", <<Num(1)>>)}

Calls ==
  {Tree(<<Double, Principal(<<Declare(1, Num(2)), Ret(e)>>), Minus, Choice>>, <<>>) :
     e \in CallExpressions}
  \cup {Tree(<<Principal(<<Ret(Apply(11, <<Num(1)>>))>>), F(<<Ret(e)>>), g>>, <<>>) :
          e \in {Apply(11, <<Var(1)>>), Apply(12, <<Var(1), Num(1)>>), Var(1), Var(2)},
          g \in {Minus, Fun("g", 12, <<Parameter(1), Parameter(2)>>,
                            <<Ret(Apply(11, <<Var(2)>>))>>)}}

\* Returns and booleans, what is refused, and what a tree may not hold.
Truthful(body) == Fun("f", 11, <<Parameter(1)>>, body)
LT1 == Bin("LT", Var(1), Num(1))
Odd ==
  {Main(b) : b \in
     {<<>>, <<Declare(1, Num(1))>>, <<Ret(Bool(1))>>, <<Ret(Text)>>,
      <<Ret(Num(1)), Ret(Num(2))>>,
      <<If(Bool(1), <<Ret(Num(1))>>, <<Ret(Num(2))>>)>>,
      <<If(Bool(0), <<Ret(Num(1))>>, <<>>), Ret(Num(2))>>,
      <<If(Bool(0), <<Ret(Num(1))>>, <<Ret(Bool(1))>>)>>,
      <<If(Bool(1), <<Ret(Num(1))>>, <<Ret(Num(2))>>), Ret(Num(3))>>,
      <<If(Num(1), <<Ret(Num(1))>>, <<Ret(Num(2))>>)>>,
      <<If(Bin("EQ", Bool(1), Bool(0)), <<Ret(Num(1))>>, <<Ret(Num(2))>>)>>,
      <<If(Bin("LT", Bool(1), Bool(0)), <<Ret(Num(1))>>, <<Ret(Num(2))>>)>>,
      <<Declare(1, Bin("LT", Num(1), Num(2))), If(Flag(1), <<Ret(Num(1))>>, <<Ret(Num(0))>>)>>,
      <<Declare(1, Bool(1)), If(Flag(1), <<Assign(1, Bool(0))>>, <<>>),
        If(Flag(1), <<Ret(Num(1))>>, <<Ret(Num(0))>>)>>,
      <<Declare(1, Bool(1)), Assign(1, Num(1)), Ret(Var(1))>>,
      <<Declare(1, Num(1)), Declare(1, Num(2)), Ret(Var(1))>>,
      <<Declare(1, Num(8)), Ret(Var(1))>>,
      <<Ret(Bin("DIV", Num(1), Bin("SUB", Num(2), Num(2))))>>,
      <<[kind |-> "while", body |-> <<>>], Ret(Num(1))>>}}
  \cup {Tree(<<Principal(<<If(CallTo(11, "boolean", <<Num(0)>>), <<Ret(Num(1))>>,
                              <<Ret(Num(2))>>)>>), Truthful(b)>>, <<>>) :
          b \in {<<Ret(LT1)>>, <<If(LT1, <<Ret(Bool(1))>>, <<Ret(Bool(0))>>)>>,
                 <<If(LT1, <<Ret(Bool(1))>>, <<Ret(Num(0))>>)>>}}
  \cup {Tree(<<Principal(<<Ret(Apply(11, <<Bool(1)>>))>>),
               Fun("f", 11, <<BoolParameter(1)>>,
                   <<If(Flag(1), <<Ret(Num(1))>>, <<Ret(Num(2))>>)>>)>>, <<>>),
        Tree(<<Double>>, <<>>), Tree(<<>>, <<>>),
        Tree(<<Principal(<<Ret(Num(1))>>)>>, <<Declare(1, Num(1))>>),
        Tree(<<Fun("principal", 10, <<Parameter(1)>>, <<Ret(Var(1))>>)>>, <<>>),
        Tree(<<Principal(<<Ret(Num(1))>>), Double, Double>>, <<>>)}

\* Bytecode of version 1.0: every three instructions over two registers.
Plain ==
  {Instr("CONST_F64", 0, 0, 0, 7), Instr("CONST_F64", 1, 0, 0, 0), Instr("ADD", 0, 0, 1, 0),
   Instr("DIV", 1, 0, 1, 0), Instr("NEG", 1, 0, 0, 0), Instr("MOVE", 1, 0, 0, 0),
   Instr("JUMP", 0, 0, 0, 0), Instr("JUMP", 2, 0, 0, 0),
   Instr("JUMP_IF_FALSE", 1, 0, 0, 0), Instr("JUMP_IF_FALSE", 0, 3, 0, 0),
   Instr("JUMP_IF_FALSE", 0, 2, 0, 0), Instr("RETURN", 0, 0, 0, 0),
   Instr("RETURN", 2, 0, 0, 0), Instr("FUNCTION", 0, 0, 0, 0)}

PlainPrograms ==
  {[kind |-> "bytecode",
    program |-> [minor |-> 0, registers |-> 2, code |-> c, types |-> <<>>, returns |-> <<>>]] :
     c \in [1..3 -> Plain]}

\* Two functions: the first calls the second, whose parameter is register 2,
\* with one instruction of each that varies, and the types of all registers.
Middle == {Instr("CONST_F64", 0, 0, 0, 5), Instr("CONST_BOOL", 0, 0, 0, 1),
           Instr("JUMP_IF_FALSE", 0, 1, 0, 0), Instr("JUMP", 5, 0, 0, 0)}
Inner == {Instr("CONST_F64", 3, 0, 0, 1), Instr("MOVE", 3, 2, 0, 0),
          Instr("EQ", 3, 2, 2, 0), Instr("LT", 3, 2, 0, 0),
          Instr("CALL", 3, 0, 0, 0), Instr("CALL", 3, 1, 2, 1), Instr("JUMP", 5, 0, 0, 0),
          Instr("JUMP", 7, 0, 0, 0)}

TwoFunctions(minor, types, returns, a, b, last) ==
  [kind |-> "bytecode",
   program |-> [minor |-> minor, registers |-> 4, types |-> types, returns |-> returns,
                code |-> <<Instr("FUNCTION", 0, 0, 0, 0), a, Instr("CALL", 1, 1, 0, 1),
                           Instr("RETURN", 1, 0, 0, 0), Instr("FUNCTION", 1, 2, 1, 0), b, last>>]]

Ends == {Instr("RETURN", 3, 0, 0, 0), Instr("MOVE", 3, 2, 0, 0)}

LinkedPrograms ==
  {TwoFunctions(1, <<>>, <<>>, a, b, last) : a \in Middle, b \in Inner, last \in Ends}
  \cup {TwoFunctions(2, types, <<"number", r>>, a, b, Instr("RETURN", 3, 0, 0, 0)) :
          types \in [1..4 -> ScalarTypes], r \in ScalarTypes,
          a \in Middle, b \in Inner}

\* Typed modules over integers, which the lowering never makes.
Op(op, id, type, left, right) ==
  [Blank EXCEPT !.op = op, !.result = id, !.type = type, !.left = left, !.right = right]
Give(type, v) == Op("RETURN", 0, type, v, 0)
Go(b) == [Blank EXCEPT !.op = "BRANCH", !.then = b]
Split(v, a, b) == [Blank EXCEPT !.op = "COND_BRANCH", !.left = v, !.then = a, !.else = b]
Block(id, parameters, instructions) ==
  [id |-> id, parameters |-> parameters, instructions |-> instructions]
I(v) == [value |-> v, type |-> "i64"]
Edge(s, t, k, v) == [source |-> s, target |-> t, index |-> k, value |-> v]
TypedFun(symbol, blocks, edges) ==
  [name |-> symbol, symbol |-> symbol, parameters |-> <<"i64">>, return |-> "i64",
   body |-> [signature |-> [parameters |-> <<"i64">>, return |-> "i64"],
             blocks |-> blocks, edges |-> edges]]

\* A loop that exchanges its two parameters until the first is the argument.
Exchange(edges) ==
  TypedFun(1,
    <<Block(1, <<I(1)>>, <<[Op("CONST_I64", 2, "i64", 0, 0) EXCEPT !.imm = 2], Go(2)>>),
      Block(2, <<I(3), I(4)>>, <<Op("EQ_I64", 5, "bool", 3, 1), Split(5, 3, 4)>>),
      Block(4, <<>>, <<Op("ADD_I64", 6, "i64", 4, 4), Go(2)>>),
      Block(3, <<>>, <<Give("i64", 4)>>)>>, edges)

ExchangeEdges(back) == <<Edge(1, 2, 0, 2), Edge(1, 2, 1, 1)>> \o back

Adds(symbol, callee) ==
  TypedFun(symbol, <<Block(1, <<I(1)>>,
    <<[Op("CALL", 2, "i64", 0, 0) EXCEPT !.callee = callee, !.arguments = <<1>>],
      Op("ADD_I64", 3, "i64", 2, 1), Give("i64", 3)>>)>>, <<>>)
Leaf(symbol) == TypedFun(symbol, <<Block(1, <<I(1)>>, <<Give("i64", 1)>>)>>, <<>>)

Modules ==
  {<<Exchange(ExchangeEdges(back))>> :
     back \in {<<Edge(4, 2, 0, 4), Edge(4, 2, 1, 3)>>, <<Edge(4, 2, 0, 6), Edge(4, 2, 1, 3)>>,
               <<Edge(4, 2, 0, 4)>>, <<Edge(4, 2, 0, 5), Edge(4, 2, 1, 3)>>,
               <<Edge(4, 2, 0, 4), Edge(4, 2, 0, 3)>>, <<Edge(3, 2, 0, 4), Edge(4, 2, 1, 3)>>,
               <<Edge(4, 2, 0, 7), Edge(4, 2, 1, 3)>>}}
  \cup {<<Adds(1, 2), Leaf(2)>>, <<Adds(1, 2), Adds(2, 3), Leaf(3)>>, <<Adds(1, 1)>>,
        <<Adds(1, 2), Adds(2, 1)>>, <<Adds(1, 2)>>, <<Leaf(1), Leaf(1)>>}

ModuleSources ==
  {[kind |-> "module", module |-> m, arguments |-> a, damage |-> "none"] :
     m \in Modules,
     a \in {<<Typed("i64", 1)>>, <<Typed("i64", 4)>>, <<Typed("f64", 1)>>, <<>>}}
  \cup {[kind |-> "module", module |-> m, arguments |-> <<Typed("i64", 1)>>, damage |-> d] :
          m \in {n \in Modules : ModuleValid(n)}, d \in {"cut", "extra", "lost"}}

MCSources ==
  Conditionals \cup Calls \cup Odd \cup PlainPrograms \cup LinkedPrograms \cup ModuleSources

MCMergeSources == Conditionals

MCLimits == {[steps |-> 40, depth |-> 4], [steps |-> 6, depth |-> 4], [steps |-> 40, depth |-> 1]}
=============================================================================
