------------------------------ MODULE ScalarIR ------------------------------
(***************************************************************************)
(* The typed intermediate representation: what a valid program of it is,   *)
(* and its construction from a scalar program (src/src/canonical_ir.c).    *)
(*                                                                         *)
(* A body is a control-flow graph in single-assignment form                *)
(*   [signature |-> [parameters, return], blocks, edges]                   *)
(*   block        [id, parameters, instructions], parameters [value, type] *)
(*   instruction  [op, result, type, left, right, imm, then, else,         *)
(*                 callee, arguments], 0 where a field is not used         *)
(*   edge         [source, target, index, value]: the value a parameter of *)
(*                target takes when source jumps there                     *)
(* and a module is a sequence of [name, symbol, parameters, return, body]. *)
(***************************************************************************)
EXTENDS ScalarHIR

ValueTypes == {"i64", "f64", "bool"}
Terminators == {"BRANCH", "COND_BRANCH", "RETURN"}
IntegerOps == {"ADD_I64", "EQ_I64"}

IRType(type) == IF type = "number" THEN "f64" ELSE "bool"

Blank == [op |-> "", result |-> 0, type |-> "void", left |-> 0, right |-> 0, imm |-> 0,
          then |-> 0, else |-> 0, callee |-> 0, arguments |-> <<>>]

ModuleFunction(module, symbol) == {f \in ToSet(module) : f.symbol = symbol}

-----------------------------------------------------------------------------
(* Validation.                                                              *)

BlockIds(body) == {b.id : b \in ToSet(body.blocks)}
BlockOf(body, id) == CHOOSE b \in ToSet(body.blocks) : b.id = id
Targets(b) == {Last(b.instructions).then, Last(b.instructions).else} \ {0}

BlocksValid(body) ==
  /\ body.blocks # <<>>
  /\ 0 \notin BlockIds(body)
  /\ Cardinality(BlockIds(body)) = Len(body.blocks)
  /\ \A b \in ToSet(body.blocks) : b.instructions # <<>>

\* The parameters of the first block are those of the signature.
ParametersValid(body) ==
  /\ \A b \in ToSet(body.blocks) : \A p \in ToSet(b.parameters) : p.type \in ValueTypes
  /\ [i \in DOMAIN body.blocks[1].parameters |-> body.blocks[1].parameters[i].type]
       = body.signature.parameters

ShapeValid(body, in) ==
  LET plain == in.imm = 0 /\ in.then = 0 /\ in.else = 0 /\ in.callee = 0 /\ in.arguments = <<>>
      constant == in.left = 0 /\ in.right = 0 /\ in.then = 0 /\ in.else = 0 /\ in.callee = 0
                  /\ in.arguments = <<>>
      binary == plain /\ in.left # 0 /\ in.right # 0
  IN  CASE in.op = "CONST_I64"  -> constant /\ in.type = "i64"
        [] in.op = "CONST_F64"  -> constant /\ in.type = "f64" /\ Finite(in.imm)
        [] in.op = "CONST_BOOL" -> constant /\ in.type = "bool" /\ in.imm \in {0, 1}
        [] in.op = "ADD_I64"    -> binary /\ in.type = "i64"
        [] in.op \in ArithmeticOps -> binary /\ in.type = "f64"
        [] in.op \in ComparisonOps \cup {"EQ_I64"} -> binary /\ in.type = "bool"
        [] in.op = "CALL" -> /\ in.callee # 0 /\ in.imm = 0
                             /\ in.left = 0 /\ in.right = 0 /\ in.then = 0 /\ in.else = 0
        [] in.op = "BRANCH" -> /\ in.result = 0 /\ in.left = 0 /\ in.right = 0
                               /\ in.imm = 0 /\ in.then # 0 /\ in.else = 0
        [] in.op = "COND_BRANCH" -> /\ in.result = 0 /\ in.left # 0 /\ in.right = 0
                                    /\ in.imm = 0 /\ in.then # 0 /\ in.else # 0
        [] in.op = "RETURN" -> /\ plain /\ in.result = 0 /\ in.right = 0 /\ in.left # 0
                               /\ in.type = body.signature.return
        [] OTHER -> FALSE

InstructionsValid(body) ==
  \A b \in ToSet(body.blocks) : \A i \in DOMAIN b.instructions :
    /\ ShapeValid(body, b.instructions[i])
    /\ b.instructions[i].op \in Terminators <=> i = Len(b.instructions)

\* Where each value is defined: at 0 of its block for a parameter.
Definitions(body) ==
  UNION {{[value |-> p.value, type |-> p.type, block |-> b.id, at |-> 0] :
            p \in ToSet(b.parameters)}
         \cup {[value |-> b.instructions[i].result, type |-> b.instructions[i].type,
                block |-> b.id, at |-> i] :
            i \in {j \in DOMAIN b.instructions : b.instructions[j].op \notin Terminators}} :
         b \in ToSet(body.blocks)}

DefinitionCount(body) ==
  FoldLeft(LAMBDA n, b : n + Len(b.parameters) + Len(b.instructions) - 1, 0, body.blocks)

DefinitionsValid(body) ==
  /\ \A d \in Definitions(body) : d.value # 0 /\ d.type \in ValueTypes
  /\ Cardinality({d.value : d \in Definitions(body)}) = DefinitionCount(body)

\* The blocks reached from the first without passing through those barred.
RECURSIVE Reached(_, _, _)
Reached(body, barred, seen) ==
  LET more == seen \cup (UNION {Targets(BlockOf(body, id)) : id \in seen} \ barred)
  IN  IF more = seen THEN seen ELSE Reached(body, barred, more)

GraphValid(body) ==
  /\ \A b \in ToSet(body.blocks) : Targets(b) \subseteq BlockIds(body)
  /\ Reached(body, {}, {body.blocks[1].id}) = BlockIds(body)

\* Every path from the first block to id passes through by.
Dominates(body, by, id) ==
  \/ by = id
  \/ by = body.blocks[1].id
  \/ id \notin Reached(body, {by}, {body.blocks[1].id})

\* A value is used with its type, after its definition on every path.
UseValid(body, value, type, id, at) ==
  \E d \in Definitions(body) :
    /\ d.value = value /\ d.type = type
    /\ IF d.block = id THEN d.at < at ELSE Dominates(body, d.block, id)

OperandType(in) ==
  CASE in.op \in IntegerOps -> "i64"
    [] in.op \in ArithmeticOps \cup ComparisonOps -> "f64"
    [] in.op = "COND_BRANCH" -> "bool"
    [] in.op = "RETURN" -> in.type
    [] OTHER -> "none"

UsesValid(module, body) ==
  \A b \in ToSet(body.blocks) : \A i \in DOMAIN b.instructions :
    LET in == b.instructions[i] IN
    /\ OperandType(in) # "none" =>
         \A v \in {in.left, in.right} \ {0} : UseValid(body, v, OperandType(in), b.id, i)
    /\ in.op = "CALL" =>
         \E f \in ModuleFunction(module, in.callee) :
           /\ Len(in.arguments) = Len(f.parameters)
           /\ in.type = f.return
           /\ \A k \in DOMAIN in.arguments :
                UseValid(body, in.arguments[k], f.parameters[k], b.id, i)

EdgeKey(e) == <<e.source, e.target, e.index>>

\* Each edge of the graph gives each parameter of its target one value.
EdgesValid(body) ==
  /\ \A e \in ToSet(body.edges) :
       /\ e.source \in BlockIds(body)
       /\ e.target \in Targets(BlockOf(body, e.source))
       /\ e.index + 1 \in DOMAIN BlockOf(body, e.target).parameters
       /\ UseValid(body, e.value, BlockOf(body, e.target).parameters[e.index + 1].type,
                   e.source, Len(BlockOf(body, e.source).instructions))
  /\ Cardinality({EdgeKey(e) : e \in ToSet(body.edges)}) = Len(body.edges)
  /\ \A b \in ToSet(body.blocks) : \A t \in Targets(b) :
       \A k \in DOMAIN BlockOf(body, t).parameters :
         \E e \in ToSet(body.edges) : EdgeKey(e) = <<b.id, t, k - 1>>

BodyValid(module, body) ==
  /\ ToSet(body.signature.parameters) \cup {body.signature.return} \subseteq ValueTypes
  /\ BlocksValid(body)
  /\ ParametersValid(body)
  /\ InstructionsValid(body)
  /\ DefinitionsValid(body)
  /\ GraphValid(body)
  /\ UsesValid(module, body)
  /\ EdgesValid(body)

DirectCallees(f) ==
  {in.callee : in \in UNION {ToSet(b.instructions) : b \in ToSet(f.body.blocks)}} \ {0}

\* The functions called from these, through others too.
RECURSIVE CalleesOf(_, _)
CalleesOf(module, symbols) ==
  LET more == symbols \cup UNION {DirectCallees(f) :
                                    f \in {g \in ToSet(module) : g.symbol \in symbols}}
  IN  IF more = symbols THEN symbols ELSE CalleesOf(module, more)

ModuleValid(module) ==
  /\ module # <<>>
  /\ \A f \in ToSet(module) :
       /\ f.symbol # 0
       /\ f.body.signature = [parameters |-> f.parameters, return |-> f.return]
       /\ BodyValid(module, f.body)
       /\ f.symbol \notin CalleesOf(module, DirectCallees(f))
  /\ \A i, j \in DOMAIN module :
       i # j => module[i].symbol # module[j].symbol /\ module[i].name # module[j].name

-----------------------------------------------------------------------------
(* Lowering.  The context is [ok, blocks, edges, next, nextBlock, scope]:   *)
(* instructions go to the last block; scope lists [symbol, value, type].    *)

RefuseIR(x) == [x EXCEPT !.ok = FALSE]
RequireIR(x, condition) == [x EXCEPT !.ok = @ /\ condition]

CurrentBlock(x) == Last(x.blocks).id
AppendInstruction(x, in) ==
  [x EXCEPT !.blocks[Len(x.blocks)].instructions = Append(@, in)]
AppendValue(x, in) ==
  [AppendInstruction(x, [in EXCEPT !.result = x.next]) EXCEPT !.next = @ + 1]
AddBlock(x, id) ==
  [x EXCEPT !.blocks = Append(@, [id |-> id, parameters |-> <<>>, instructions |-> <<>>])]

Bindings(x, symbol) == {i \in DOMAIN x.scope : x.scope[i].symbol = symbol}
BindingIndex(x, symbol) == CHOOSE i \in Bindings(x, symbol) : TRUE

\* Each gives [x, value, type].
RECURSIVE LowerIRExpression(_, _, _)
LowerIRExpression(module, x, e) ==
  LET refused == [x |-> RefuseIR(x), value |-> 0, type |-> "void"]
      added(from, in) == [x |-> AppendValue(from, in), value |-> from.next, type |-> in.type]
  IN
  CASE ~x.ok -> refused
    [] e.kind = "literal" ->
         IF e.type = "number"
           THEN IF Finite(e.value)
                  THEN added(x, [Blank EXCEPT !.op = "CONST_F64", !.type = "f64", !.imm = e.value])
                  ELSE refused
           ELSE added(x, [Blank EXCEPT !.op = "CONST_BOOL", !.type = "bool", !.imm = e.value])
    [] e.kind = "variable" ->
         IF \E i \in Bindings(x, e.symbol) : x.scope[i].type = IRType(e.type)
           THEN [x |-> x, value |-> x.scope[BindingIndex(x, e.symbol)].value,
                 type |-> IRType(e.type)]
           ELSE refused
    [] e.kind = "binary" ->
         LET l == LowerIRExpression(module, x, e.left)
             r == LowerIRExpression(module, l.x, e.right)
         IN  IF /\ r.x.ok /\ l.type = "f64" /\ r.type = "f64"
                /\ e.type = IF e.op \in ComparisonOps THEN "boolean" ELSE "number"
               THEN added(r.x, [Blank EXCEPT !.op = e.op, !.type = IRType(e.type),
                                             !.left = l.value, !.right = r.value])
               ELSE refused
    [] e.kind = "call" ->
         IF \E f \in ModuleFunction(module, e.symbol) :
              Len(e.arguments) = Len(f.parameters) /\ IRType(e.type) = f.return
           THEN LET f == CHOOSE g \in ModuleFunction(module, e.symbol) : TRUE
                    all == FoldLeft(LAMBDA acc, k :
                             LET a == LowerIRExpression(module, acc.x, e.arguments[k])
                             IN  [x |-> RequireIR(a.x, a.type = f.parameters[k]),
                                  values |-> Append(acc.values, a.value)],
                             [x |-> x, values |-> <<>>], [k \in DOMAIN e.arguments |-> k])
                IN  IF all.x.ok
                      THEN added(all.x, [Blank EXCEPT !.op = "CALL", !.type = f.return,
                                           !.callee = e.symbol, !.arguments = all.values])
                      ELSE refused
           ELSE refused
    [] OTHER -> refused

\* A declaration or assignment only renames: no instruction of its own.
LowerBinding(module, x, s) ==
  LET bound == Bindings(x, s.symbol)
      v == LowerIRExpression(module, RequireIR(x,
             IF s.kind = "declare" THEN bound = {}
             ELSE \E i \in bound : x.scope[i].type = IRType(s.type)), s.expression)
  IN  IF ~v.x.ok \/ v.type # IRType(s.type) THEN RefuseIR(x)
      ELSE IF s.kind = "declare"
        THEN [v.x EXCEPT !.scope = Append(@, [symbol |-> s.symbol, value |-> v.value,
                                              type |-> v.type])]
        ELSE [v.x EXCEPT !.scope[BindingIndex(x, s.symbol)].value = v.value]

\* (mutant) Only what the first arm changes is merged.
Differs_ByThen(then, else, x, i) == then.scope[i].value # x.scope[i].value

Differs(then, else, x, i) == then.scope[i].value # else.scope[i].value

\* One variable visible before the conditional gets a parameter of the
\* merge block when its value differs between the ends of the two arms.
MergeBinding(then, else, x, i) ==
  IF ~Differs(then, else, x, i) THEN x
  ELSE LET merge == Last(x.blocks)
           index == Len(merge.parameters)
           edge(source, value) == [source |-> source, target |-> merge.id,
                                   index |-> index, value |-> value]
       IN  [x EXCEPT
              !.blocks[Len(x.blocks)].parameters =
                 Append(@, [value |-> x.next, type |-> x.scope[i].type]),
              !.edges = @ \o <<edge(CurrentBlock(then), then.scope[i].value),
                               edge(CurrentBlock(else), else.scope[i].value)>>,
              !.scope[i].value = x.next,
              !.next = @ + 1]

Branch(x, to) == AppendInstruction(x, [Blank EXCEPT !.op = "BRANCH", !.then = to])

RECURSIVE LowerSequence(_, _, _)

\* A conditional that is not the end of a function: three new blocks.
MergeArms(then, else, x, id) ==
  LET merge == [AddBlock(Branch(else, id), id) EXCEPT !.scope = x.scope] IN
  IF else.ok THEN FoldLeft(LAMBDA acc, i : MergeBinding(then, else, acc, i),
                           merge, [i \in DOMAIN x.scope |-> i])
             ELSE RefuseIR(x)

LowerMergingIf(module, x, s) ==
  LET id == x.nextBlock
      c == LowerIRExpression(module, [x EXCEPT !.nextBlock = @ + 3], s.condition)
      split == AppendInstruction(c.x, [Blank EXCEPT !.op = "COND_BRANCH", !.left = c.value,
                                                    !.then = id, !.else = id + 1])
      other(then) == [AddBlock(Branch(then, id + 2), id + 1) EXCEPT !.scope = x.scope]
      arms(then) == MergeArms(then, LowerSequence(module, other(then), s.else), x, id + 2)
  IN  IF c.x.ok /\ c.type = "bool"
        THEN arms(LowerSequence(module, AddBlock(split, id), s.then))
        ELSE RefuseIR(x)

\* Inside arms there are only bindings and further conditionals.
LowerSequence(module, x, statements) ==
  FoldLeft(LAMBDA acc, s :
             CASE ~acc.ok -> acc
               [] s.kind \in {"declare", "assign"} -> LowerBinding(module, acc, s)
               [] s.kind = "if" -> LowerMergingIf(module, acc, s)
               [] OTHER -> RefuseIR(acc),
           x, statements)

LowerIRReturn(module, x, s) ==
  LET v == LowerIRExpression(module, x, s.expression) IN
  AppendInstruction(v.x, [Blank EXCEPT !.op = "RETURN", !.type = v.type, !.left = v.value])

\* The last statement returns, or chooses between two returns.
IsReturn(statements) == Len(statements) = 1 /\ statements[1].kind = "return"

LowerFinal(module, x, s) ==
  CASE s.kind = "return" -> LowerIRReturn(module, x, s)
    [] s.kind = "if" ->
         LET id == x.nextBlock
             c == LowerIRExpression(module, x, s.condition)
             split == AppendInstruction(c.x, [Blank EXCEPT !.op = "COND_BRANCH",
                        !.left = c.value, !.then = id, !.else = id + 1])
             then == LowerIRReturn(module, AddBlock(split, id), s.then[1])
         IN  IF IsReturn(s.then) /\ IsReturn(s.else) /\ c.type = "bool" /\ then.ok
               THEN LowerIRReturn(module, AddBlock(then, id + 1), s.else[1])
               ELSE RefuseIR(x)
    [] OTHER -> RefuseIR(x)

\* The return type a body announces by its last statement: "void" for none.
AnnouncedReturn(f) ==
  IF f.body = <<>> THEN "void"
  ELSE LET s == Last(f.body) IN
       CASE s.kind = "return" -> IRType(s.expression.type)
         [] s.kind = "if" ->
              IF /\ IsReturn(s.then) /\ IsReturn(s.else)
                 /\ s.then[1].expression.type = s.else[1].expression.type
                THEN IRType(s.then[1].expression.type) ELSE "void"
         [] OTHER -> "void"

\* The body of a function, [ok, body], in a module with these signatures.
Entry(f) ==
  LET symbols == {p.symbol : p \in ToSet(f.parameters)} IN
  [ok |-> /\ AnnouncedReturn(f) # "void"
          /\ \A p \in ToSet(f.parameters) : p.type = "number"
          /\ Cardinality(symbols) = Len(f.parameters),
   blocks |-> <<[id |-> 1, instructions |-> <<>>,
                 parameters |-> [i \in DOMAIN f.parameters |-> [value |-> i, type |-> "f64"]]]>>,
   edges |-> <<>>, next |-> Len(f.parameters) + 1, nextBlock |-> 2,
   scope |-> [i \in DOMAIN f.parameters |->
                [symbol |-> f.parameters[i].symbol, value |-> i, type |-> "f64"]]]

Ended(f, x) ==
  [ok |-> x.ok,
   body |-> [signature |-> [parameters |-> [i \in DOMAIN f.parameters |-> "f64"],
                            return |-> AnnouncedReturn(f)],
             blocks |-> x.blocks, edges |-> x.edges]]

LowerBody(module, f, before) ==
  IF before.ok THEN Ended(f, LowerFinal(module, before, Last(f.body)))
               ELSE [ok |-> FALSE, body |-> <<>>]

LoweredBody(module, f) ==
  IF Entry(f).ok THEN LowerBody(module, f, LowerSequence(module, Entry(f), Front(f.body)))
                 ELSE [ok |-> FALSE, body |-> <<>>]

\* The signatures every body of a module is lowered against.
Signatures(hir) ==
  [i \in DOMAIN hir.functions |->
     LET f == hir.functions[i] IN
     [name |-> f.name, symbol |-> f.symbol,
      parameters |-> [p \in DOMAIN f.parameters |-> IRType(f.parameters[p].type)],
      return |-> AnnouncedReturn(f)]]

\* Whether a program is lowered, why not, and to what: a body its own
\* validation refuses would be an error of the lowering.
Checked(signatures, module) ==
  IF \E f \in ToSet(module) : ~BodyValid(signatures, f.body)
    THEN [status |-> "internal", module |-> <<>>]
  ELSE IF ~ModuleValid(module)
    THEN [status |-> "unsupported", module |-> <<>>]
  ELSE [status |-> "ok", module |-> module]

WithBodies(signatures, bodies) ==
  IF \E i \in DOMAIN bodies : ~bodies[i].ok
    THEN [status |-> "unsupported", module |-> <<>>]
    ELSE Checked(signatures,
           [i \in DOMAIN bodies |-> signatures[i] @@ [body |-> bodies[i].body]])

LoweredModule(hir, signatures) ==
  WithBodies(signatures,
    [i \in DOMAIN hir.functions |-> LoweredBody(signatures, hir.functions[i])])

ModuleOf(hir) ==
  IF hir.statements # <<>> \/ hir.functions = <<>>
    THEN [status |-> "unsupported", module |-> <<>>]
    ELSE LoweredModule(hir, Signatures(hir))
=============================================================================
