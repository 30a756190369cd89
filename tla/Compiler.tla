------------------------------ MODULE Compiler ------------------------------
(***************************************************************************)
(* The compiler (src/duckLisp.c, src/generators.c): syntax trees to the    *)
(* assembly of the machine.  A program is compiled for run time; macros    *)
(* and `comptime' forms are compiled for compile time, run on a machine    *)
(* that the compiler owns, and their results compiled in their place.  The *)
(* scopes of both environments are pushed and popped together.             *)
(*                                                                         *)
(* `work' is the C stack: a record for each call that is to be made or     *)
(* finished, with the locals that the C function still needs.              *)
(***************************************************************************)
EXTENDS HlaMachine, Scopes, Emitters

CONSTANTS
  Programs,     \* names of programs, with what is compiled, what it means and how it should end
  Endless       \* those that have no end

VARIABLES
  program,      \* the name of the program
  subs,         \* for each environment its scopes, locals_length and assemblies
  current,      \* the environment that code is compiled for
  compiled,     \* what compiling a form returned: the slot of its value, and the form a macro replaced it by
  symbols,      \* the interned names; the first has number 0
  labels        \* the labels that were made

vars == <<work, machine, verdict, program, subs, current, compiled, symbols, labels>>

Cur == subs[current]
Locals == Cur.len
T == Head(work)
Doing(what) == work # <<>> /\ T.do = what

Compile(node, reference) == [do |-> "compile", node |-> node, reference |-> reference]
Forms(items) == [do |-> "noscope", items |-> items, k |-> 1]
Expression(items) == [do |-> "expression", items |-> items]
Arguments(args) == [do |-> "arguments", args |-> args]
Returned == [do |-> "returned"]

Key(names, name) == (CHOOSE k \in DOMAIN names : names[k] = name) - 1

------------------------------------------------------------------------------
(* The shapes of steps.  A call ends with the code `c' and leaves the calls  *)
(* `tasks' to be made.                                                       *)

Interned == <<symbols, labels>>

Proceed(c, tasks) ==
  /\ subs' = [subs EXCEPT ![current] = c]
  /\ work' = tasks \o Tail(work)
  /\ UNCHANGED <<program, current, machine, verdict>>

Finish(c, tasks) == Proceed(c, tasks) /\ UNCHANGED <<compiled, symbols, labels>>

Reject ==
  /\ work' = <<>>
  /\ verdict' = "compile error"
  /\ UNCHANGED <<program, subs, current, compiled, symbols, labels, machine>>

Value(index) == compiled' = [index |-> index, form |-> <<>>]

(* duckVM_execute: the chunk of code runs on the machine of an environment. *)
Execute(s, code, depth) ==
  machine' = Start(Load(machine, s, Append(code, [class |-> "halt", slots |-> <<>>, args |-> <<>>, depth |-> depth])), s)

Result == Last(machine["comptime"].stack)
PopResult == machine' = [machine EXCEPT !["comptime"] = Drop(@, 1)]

NewSub == [scopes |-> <<>>, len |-> 0, asm |-> <<Assembly(0)>>]

Init ==
  /\ program \in DOMAIN Programs
  /\ subs = [s \in Environments |-> NewSub]
  /\ current = "runtime"
  /\ compiled = [index |-> -1, form |-> <<>>]
  /\ symbols = <<"gensym", "intern", "read">> \o SetToSeq(DOMAIN CallbackArity)
  /\ labels = 0
  /\ machine = MachineInit
  /\ verdict = "ok"
  /\ work = <<Compile(Programs[program].source, TRUE), [do |-> "exit"]>>

------------------------------------------------------------------------------
(* duckLisp_compile_compoundExpression and duckLisp_compile_expression.    *)

LiteralClass == [bool |-> "pushBoolean", int |-> "pushInteger", string |-> "pushString"]

CompileLiteral ==
  /\ Doing("compile") /\ IsLiteral(T.node)
  /\ Value(Locals)
  /\ Proceed(EmitPush(Cur, LiteralClass[T.node.type], LiteralValue(T.node)), <<>>)
  /\ UNCHANGED Interned

Local(name) == GetLocalIndexFromName(Cur.scopes, "locals", name)
IsFree(table, name) == OuterScope(Cur.scopes, table, name) # 0
Free(table, name) == GetFreeLocalIndexFromName(Cur.scopes, table, name)

CompileLocal ==
  /\ Doing("compile") /\ IsIdentifier(T.node)
  /\ LET local == Local(T.node.value)
     IN /\ local # NotFound
        /\ Value(local)
        /\ Proceed(IF T.reference THEN EmitPushIndex(Cur, local) ELSE Cur, <<>>)
  /\ UNCHANGED Interned

CompileFree ==
  /\ Doing("compile") /\ IsIdentifier(T.node)
  /\ Local(T.node.value) = NotFound /\ IsFree("locals", T.node.value)
  /\ \E free \in {Free("locals", T.node.value)} :
       /\ Value(Locals)
       /\ Proceed(EmitPushUpvalue([Cur EXCEPT !.scopes = free.scopes], free.index), <<>>)
  /\ UNCHANGED Interned

CompileGlobal ==
  /\ Doing("compile") /\ IsIdentifier(T.node)
  /\ Local(T.node.value) = NotFound /\ ~IsFree("locals", T.node.value)
  /\ Value(Locals)
  /\ symbols' = AppendNew(symbols, T.node.value)
  /\ Proceed(EmitPushGlobal(Cur, T.node.value), <<>>)
  /\ UNCHANGED labels

CompileEmpty ==
  /\ Doing("compile") /\ IsForm(T.node) /\ T.node.items = <<>>
  /\ Value(Locals)
  /\ Proceed(EmitNil(Cur), <<>>)
  /\ UNCHANGED Interned

(* Which generator a call is for: names that scopes define come before C functions,
   these before the generators, and any other name is a global function. *)
GeneratorFor(name) ==
  LET defined == GetFunctionFromName(Cur.scopes, name)
  IN CASE defined = "ducklisp" -> "call"
       [] defined = "macro" -> "macro"
       [] name \in DOMAIN CallbackArity -> "callback"
       [] GeneratorOf(name) # "none" -> GeneratorOf(name)
       [] OTHER -> "call"

(* A generator refuses the arguments that it cannot use. *)
WellFormedParameters(params) ==
  /\ \A k \in DOMAIN params : IsIdentifier(params[k])
  /\ \A k \in DOMAIN params : params[k].value = "&rest" => k = Len(params) - 1

WellFormed(name, items) ==
  LET n == Len(items) - 1
      Variable == n >= 1 /\ IsIdentifier(items[2])
  IN CASE name = "operator" -> n = Operands[OperatorClass[items[1].value]]
       [] name = "setq" -> n = 2 /\ Variable
       [] name \in {"var", "global"} -> n = 2
       [] name = "quote" -> n = 1
       [] name = "if" -> n = 3
       [] name \in {"while", "when", "unless", "apply"} -> n >= 2
       [] name = "lambda" -> n >= 2 /\ IsForm(items[2]) /\ WellFormedParameters(items[2].items)
       [] name = "defun" -> n >= 3 /\ Variable
       [] name = "defmacro" -> n >= 3 /\ Variable /\ IsForm(items[3]) /\ current = "runtime"
       [] name = "error" -> FALSE
       [] OTHER -> TRUE

CompileExpression ==
  /\ Doing("compile") /\ IsForm(T.node) /\ T.node.items # <<>>
  /\ ~IsIdentifier(T.node.items[1])
  /\ Finish(Cur, <<Expression(T.node.items), Returned>>)

CompileCall ==
  /\ Doing("compile") /\ IsForm(T.node) /\ T.node.items # <<>>
  /\ IsIdentifier(T.node.items[1])
  /\ LET generator == GeneratorFor(T.node.items[1].value)
         call == [do |-> generator, items |-> T.node.items]
     IN IF WellFormed(generator, T.node.items)
        THEN Finish(Cur, IF generator = "macro" THEN <<call>> ELSE <<call, Returned>>)
        ELSE Reject

(* The value of any other form is on top of the stack. *)
CompileReturned ==
  /\ Doing("returned")
  /\ Value(Top(Cur))
  /\ Proceed(Cur, <<>>)
  /\ UNCHANGED Interned

------------------------------------------------------------------------------
(* Lists of forms.                                                         *)

(* duckLisp_generator_noscope: forms are compiled one after another.  Only the last leaves a value. *)
GeneratorNoscope ==
  /\ Doing("noscope")
  /\ IF T.k \in DOMAIN T.items
     THEN Finish(Cur, <<Compile(T.items[T.k], TRUE),
                        [do |-> "form", items |-> T.items, k |-> T.k, start |-> Locals]>>)
     ELSE Finish(IF T.items = <<>> THEN EmitNil(Cur) ELSE Cur, <<>>)

IsLast == T.k = Len(T.items)
NextForm == [Forms(T.items) EXCEPT !.k = T.k + 1]
Ast == IF compiled.form = <<>> THEN T.items[T.k] ELSE compiled.form[1]
Defines == \E name \in Dummies : IsCallOf(Ast, name)

\* Definitions were compiled to nothing, and are now compiled in the scope of the list.
NoscopeDefinition ==
  /\ Doing("form") /\ Defines
  /\ LET items == Ast.items
         definition == IF items[1].value = "noscope" THEN Forms(Tail(items))
                       ELSE [do |-> items[1].value, items |-> items]
     IN Finish(Cur, <<definition, [do |-> "defined", items |-> T.items, k |-> T.k]>>)

NoscopeDefined ==
  /\ Doing("defined")
  /\ Finish(IF IsLast THEN Cur ELSE EmitPop(Cur, 1), <<NextForm>>)

NoscopeForm ==
  /\ Doing("form") /\ ~Defines
  /\ LET pops == Locals - T.start - (IF IsLast THEN 1 ELSE 0)
         c == IF pops > 0 /\ IsLast THEN EmitMove(Cur, Top(Cur) - pops, Top(Cur)) ELSE Cur
     IN Finish(IF pops < 0 THEN EmitPushIndex(c, Top(c)) ELSE EmitPop(c, pops), <<NextForm>>)

(* duckLisp_generator_expression: a list of forms with a scope of its own.  Variables
   that functions captured leave the stack before their slots do. *)
GeneratorExpression ==
  /\ Doing("expression")
  /\ subs' = PushScope(subs, current, FALSE)
  /\ work' = <<Forms(T.items), [do |-> "expressionEnd", start |-> Locals]>> \o Tail(work)
  /\ UNCHANGED <<program, current, machine, verdict, compiled, symbols, labels>>

ReleaseScope(c) == EmitReleaseUpvalues(c, Last(c.scopes).scopeUvs)

ExpressionEnd ==
  /\ Doing("expressionEnd")
  /\ \E c \in {ReleaseScope(Cur)} :
       LET moved == IF T.start < Top(c) THEN EmitMove(c, T.start, Top(c)) ELSE c
           popped == IF c.len > T.start + 1 THEN EmitPop(moved, c.len - T.start - 1) ELSE moved
       IN subs' = PopScope([subs EXCEPT ![current] = popped])
  /\ work' = Tail(work)
  /\ UNCHANGED <<program, current, machine, verdict, compiled, symbols, labels>>

------------------------------------------------------------------------------
(* Variables, global variables and functions.                              *)

(* A definition of what is no identifier is reported, and compiled to nothing all the same. *)
Misnamed == Finish(Cur, <<>>)

(* duckLisp_generator_createVar_raw.  The variable takes the slot that its value is computed in. *)
GeneratorCreateVar ==
  /\ Doing("var")
  /\ CASE ~WellFormed("var", T.items) -> Reject
       [] ~IsIdentifier(T.items[2]) -> Misnamed
       [] OTHER -> Finish(Cur, <<Compile(T.items[3], TRUE),
                                 [do |-> "varEnd", name |-> T.items[2].value, start |-> Locals]>>)

CreateVarEnd ==
  /\ Doing("varEnd")
  /\ LET bound == [Cur EXCEPT !.scopes = ScopeAddObject(@, T.name, T.start)]
         moved == EmitMove(bound, T.start, Top(bound))
         popped == IF moved.len > T.start + 1 THEN EmitPop(moved, moved.len - T.start - 1) ELSE moved
     IN Finish(EmitPushIndex(popped, T.start), <<>>)

GeneratorDefun ==
  /\ Doing("defun")
  /\ IF WellFormed("defun", T.items)
     THEN LET lambda == Call("defun:lambda", SubSeq(T.items, 3, Len(T.items)))
          IN Finish(Cur, <<[do |-> "var", items |-> <<Id("defun:var"), T.items[2], lambda>>],
                           [do |-> "defunEnd", name |-> T.items[2].value]>>)
     ELSE Reject

DefunEnd ==
  /\ Doing("defunEnd")
  /\ Finish([Cur EXCEPT !.scopes = AddInterpretedFunction(@, T.name, Locals - 2)], <<>>)

GeneratorGlobal ==
  /\ Doing("global")
  /\ IF IsIdentifier(T.items[2])
     THEN Finish(Cur, <<Compile(T.items[3], TRUE), [do |-> "globalEnd", name |-> T.items[2].value]>>)
     ELSE Misnamed

SetGlobal(name) ==
  /\ symbols' = AppendNew(symbols, name)
  /\ Proceed(EmitSetStatic(Cur, name, Key(symbols', name), Top(Cur)), <<>>)
  /\ UNCHANGED <<compiled, labels>>

GlobalEnd == Doing("globalEnd") /\ SetGlobal(T.name)

GeneratorSetq ==
  /\ Doing("setq")
  /\ Finish(Cur, <<Compile(T.items[3], TRUE), [do |-> "setqEnd", name |-> T.items[2].value]>>)

SetqLocal ==
  /\ Doing("setqEnd")
  /\ LET local == Local(T.name)
     IN local # NotFound /\ Finish(EmitMove(Cur, local, Top(Cur)), <<>>)

SetqFree ==
  /\ Doing("setqEnd")
  /\ Local(T.name) = NotFound /\ IsFree("locals", T.name)
  /\ \E free \in {Free("locals", T.name)} :
       Finish(EmitSetUpvalue([Cur EXCEPT !.scopes = free.scopes], free.index, Top(Cur)), <<>>)

SetqGlobal ==
  /\ Doing("setqEnd")
  /\ Local(T.name) = NotFound /\ ~IsFree("locals", T.name)
  /\ SetGlobal(T.name)

(* duckLisp_generator_lambda_raw.  The function is a scope inside of one that defines
   "self", the slot that the closure itself is pushed to.  Its code is written apart,
   behind a jump that leads around it. *)
GeneratorLambda ==
  /\ Doing("lambda")
  /\ LET params == T.items[2].items
         named == SelectSeq(params, LAMBDA p : p.value # "&rest")
         self == [PushScope(subs, current, FALSE) EXCEPT
                    ![current].scopes = AddInterpretedFunction(ScopeAddObject(@, "self", Locals), "self", Locals),
                    ![current].len = @ + 1]
         inner == [PushScope(self, current, TRUE)[current] EXCEPT !.asm = Append(@, Assembly(Locals + 1))]
         start == EmitLabel(EmitJump(inner, labels + 1), labels + 2)
         bound == FoldLeft(LAMBDA c, p : [c EXCEPT !.scopes = ScopeAddObject(@, p.value, c.len), !.len = @ + 1],
                           start, named)
     IN /\ subs' = [PushScope(self, current, TRUE) EXCEPT ![current] = bound]
        /\ work' = <<Expression(SubSeq(T.items, 3, Len(T.items))),
                     [do |-> "lambdaEnd", start |-> Locals + 1, end |-> labels + 1, function |-> labels + 2,
                      arity |-> Len(named) - (IF named = params THEN 0 ELSE 1),
                      variadic |-> named # params]>> \o Tail(work)
  /\ labels' = labels + 2
  /\ UNCHANGED <<program, current, machine, verdict, compiled, symbols>>

\* The function returns, its code is appended to that of the environment, and its
\* closure is pushed where it was written.
FunctionCode(c) ==
  LET released == ReleaseScope(c)
      returned == [EmitReturn(released, released.len - T.start - 1) EXCEPT !.len = T.start]
      ended == EmitLabel(returned, T.end)
  IN [ended EXCEPT !.asm = [Front(@) EXCEPT ![1].code = @ \o Last(ended.asm).code], !.len = @ - 1]

\* Mutant: the slot of a function that captures itself is not released.
ReleaseSelfNever(c) == c

\* A function that captures itself is copied before its slot is released.
ReleaseSelf(c) ==
  LET uvs == c.scopes[Len(c.scopes) - 1].scopeUvs
      copied == EmitReleaseUpvalues(EmitPushIndex(c, Top(c)), uvs)
  IN IF uvs = <<>> THEN c ELSE EmitPop(EmitMove(copied, copied.len - 2, Top(copied)), 1)

LambdaEnd ==
  /\ Doing("lambdaEnd")
  /\ \E c \in {FunctionCode(Cur)} :
     \E d \in {EmitPushClosure(c, T.variadic, T.function, T.arity, Last(c.scopes).functionUvs)} :
       subs' = PopScope(PopScope([subs EXCEPT ![current] = ReleaseSelf(d)]))
  /\ work' = Tail(work)
  /\ UNCHANGED <<program, current, machine, verdict, compiled, symbols, labels>>

------------------------------------------------------------------------------
(* Control.  A condition that is a literal is decided by the compiler.     *)

ConstantTrue(node) ==
  CASE node.type = "bool" -> node.value
    [] node.type = "int" -> node.value # 0
    [] node.type = "string" -> node.value # ""

Body(n) == Expression(SubSeq(T.items, n, Len(T.items)))

\* How much of the stack a condition took; a variable that is one stays there.
Pops(condition, start) == IF IsForm(condition) THEN Locals - start ELSE 0

\* Mutant: any literal is a condition that holds.
ForeverIfLiteral(condition) == IsLiteral(condition)

Forever(condition) == IsLiteral(condition) /\ ConstantTrue(condition)

GeneratorWhile ==
  /\ Doing("while")
  /\ labels' = labels + 2
  /\ LET condition == T.items[2]
         forever == Forever(condition)
         entered == IF forever THEN EmitLabel(Cur, labels + 1)
                    ELSE EmitLabel(EmitJump(Cur, labels + 1), labels + 2)
     IN /\ subs' = PushScope([subs EXCEPT ![current] = entered], current, FALSE)
        /\ work' = <<Body(3), [do |-> "whileBody", condition |-> condition, forever |-> forever,
                               label |-> labels + 1, start |-> Locals]>> \o Tail(work)
  /\ UNCHANGED <<program, current, machine, verdict, compiled, symbols>>

WhileBody ==
  /\ Doing("whileBody")
  /\ \E c \in {EmitPop(Cur, Locals - T.start)} :
       subs' = PopScope([subs EXCEPT ![current] =
                 IF T.forever THEN EmitJump(c, T.label) ELSE EmitLabel(c, T.label)])
  /\ work' = (IF T.forever THEN <<>>
               ELSE <<Compile(T.condition, TRUE),
                      [do |-> "whileTest", loop |-> T.label + 1, start |-> T.start]>>) \o Tail(work)
  /\ UNCHANGED <<program, current, machine, verdict, compiled, symbols, labels>>

WhileTest ==
  /\ Doing("whileTest")
  /\ Finish(EmitNil(EmitBrnz(Cur, T.loop, Locals - T.start)), <<>>)

(* `when' and `unless'. *)
GeneratorWhen ==
  /\ \E name \in {"when", "unless"} :
       /\ Doing(name)
       /\ IF IsLiteral(T.items[2])
          THEN IF ConstantTrue(T.items[2]) = (name = "when") THEN Finish(Cur, <<Body(3)>>)
               ELSE Finish(EmitNil(Cur), <<>>)
          ELSE Finish(Cur, <<Compile(T.items[2], TRUE),
                             [do |-> name \o "Test", items |-> T.items, start |-> Locals]>>)

WhenTest ==
  /\ Doing("whenTest")
  /\ labels' = labels + 2
  /\ \E c \in {EmitBrnz(Cur, labels + 1, Pops(T.items[2], T.start))} :
       Proceed(EmitLabel(EmitJump([EmitNil(c) EXCEPT !.len = c.len], labels + 2), labels + 1),
               <<Body(3), [do |-> "label", label |-> labels + 2]>>)
  /\ UNCHANGED <<compiled, symbols>>

WhenEnd == Doing("label") /\ Finish(EmitLabel(Cur, T.label), <<>>)

UnlessTest ==
  /\ Doing("unlessTest")
  /\ labels' = labels + 2
  /\ \E c \in {EmitBrnz(Cur, labels + 1, Pops(T.items[2], T.start))} :
       Proceed(c, <<Body(3), [do |-> "unlessEnd", label |-> labels + 1, start |-> c.len]>>)
  /\ UNCHANGED <<compiled, symbols>>

UnlessEnd ==
  /\ Doing("unlessEnd")
  /\ \E c \in {EmitJump([Cur EXCEPT !.len = T.start], T.label + 1)} :
       Finish(EmitLabel(EmitNil(EmitLabel(c, T.label)), T.label + 1), <<>>)

GeneratorIf ==
  /\ Doing("if")
  /\ IF IsLiteral(T.items[2])
     THEN Finish(Cur, <<Compile(T.items[IF ConstantTrue(T.items[2]) THEN 3 ELSE 4], TRUE)>>)
     ELSE Finish(Cur, <<Compile(T.items[2], TRUE), [do |-> "ifTest", items |-> T.items, start |-> Locals]>>)

IfTest ==
  /\ Doing("ifTest")
  /\ labels' = labels + 2
  /\ \E c \in {EmitBrnz(Cur, labels + 1, Pops(T.items[2], T.start))} :
       Proceed(c, <<Compile(T.items[4], TRUE),
                    [do |-> "ifElse", then |-> T.items[3], label |-> labels + 1, start |-> c.len]>>)
  /\ UNCHANGED <<compiled, symbols>>

\* Mutant: the variables of a branch stay on the stack.
EndBranchKeepsVariables(c, start) ==
  IF c.len < start + 1 THEN c ELSE EmitMove(c, start, Top(c))

\* A branch ends with its value in the slot it started at.
EndBranch(c, start) ==
  LET pops == c.len - start - 1
  IN IF pops < 0 THEN c ELSE EmitPop(EmitMove(c, start, Top(c)), pops)

IfElse ==
  /\ Doing("ifElse")
  /\ \E c \in {EmitJump(EndBranch(Cur, T.start), T.label + 1)} :
       Finish([EmitLabel(c, T.label) EXCEPT !.len = T.start],
              <<Compile(T.then, TRUE), [do |-> "ifThen", label |-> T.label + 1, start |-> T.start]>>)

IfThen ==
  /\ Doing("ifThen")
  /\ Finish(EmitLabel(EndBranch(Cur, T.start), T.label), <<>>)

------------------------------------------------------------------------------
(* Operators, lists, vectors and quoted data.                              *)

\* An operand that is a variable is read from its own slot.
GeneratorOperator ==
  /\ Doing("operator")
  /\ Finish(Cur, <<[do |-> "operands", class |-> OperatorClass[T.items[1].value], rest |-> Tail(T.items),
                    slots |-> <<>>]>>)

CompileOperand ==
  /\ Doing("operands") /\ T.rest # <<>>
  /\ Finish(Cur, <<Compile(Head(T.rest), FALSE), [T EXCEPT !.do = "operand", !.rest = Tail(T.rest)]>>)

OperandCompiled ==
  /\ Doing("operand")
  /\ Finish(Cur, <<[T EXCEPT !.do = "operands", !.slots = Append(@, compiled.index)]>>)

OperandsCompiled ==
  /\ Doing("operands") /\ T.rest = <<>>
  /\ Finish(EmitOperator(Cur, T.class, T.slots), <<>>)

\* From the last element to the first.
GeneratorList ==
  /\ Doing("list")
  /\ Finish(EmitNil(Cur), <<[do |-> "elements", rest |-> Tail(T.items), cdr |-> Locals]>>)

CompileElement ==
  /\ Doing("elements")
  /\ IF T.rest = <<>> THEN Finish(Cur, <<>>)
     ELSE Finish(Cur, <<Compile(Last(T.rest), FALSE), [T EXCEPT !.do = "element", !.rest = Front(@)]>>)

ConsElement ==
  /\ Doing("element")
  /\ Finish(EmitOperator(Cur, "cons", <<compiled.index, T.cdr>>),
            <<[T EXCEPT !.do = "elements", !.cdr = Locals]>>)

GeneratorVector ==
  /\ Doing("vector")
  /\ Finish(EmitNil(Cur), <<[do |-> "vectorElements", rest |-> Tail(T.items), slots |-> <<>>]>>)

CompileVectorElement ==
  /\ Doing("vectorElements")
  /\ IF T.rest = <<>> THEN Finish(EmitVector(Cur, T.slots), <<>>)
     ELSE Finish(Cur, <<Compile(Last(T.rest), FALSE), [T EXCEPT !.do = "vectorElement", !.rest = Front(@)]>>)

VectorElementCompiled ==
  /\ Doing("vectorElement")
  /\ Finish(Cur, <<[T EXCEPT !.do = "vectorElements", !.slots = <<compiled.index>> \o @]>>)

(* duckLisp_generator_quote and its helper, on the symbols and the code. *)
RECURSIVE QuoteHelper(_, _)
QuoteHelper(q, tree) ==
  LET ConsNext(r, item) ==
        The({[x EXCEPT !.code = EmitOperator(@, "cons", <<Top(@), r.code.len - 1>>)] : x \in {QuoteHelper(r, item)}})
      name == tree.value
  IN IF IsForm(tree)
     THEN FoldLeft(ConsNext, [q EXCEPT !.code = EmitNil(@)], Reverse(tree.items))
     ELSE IF IsIdentifier(tree)
     THEN [symbols |-> AppendNew(q.symbols, name), code |-> EmitPush(q.code, "pushSymbol", Symbol(name))]
     ELSE [q EXCEPT !.code = EmitPush(@, LiteralClass[tree.type], LiteralValue(tree))]

GeneratorQuote ==
  /\ Doing("quote")
  /\ \E q \in {QuoteHelper([symbols |-> symbols, code |-> Cur], T.items[2])} :
       Proceed(q.code, <<>>) /\ symbols' = q.symbols
  /\ UNCHANGED <<compiled, labels>>

GeneratorNop == Doing("nop") /\ Finish(EmitNop(Cur), <<>>)
GeneratorDeclare == Doing("declare") /\ Finish(EmitNil(Cur), <<>>)
GeneratorDummy == Doing("dummy") /\ Finish(Cur, <<>>)

------------------------------------------------------------------------------
(* Calls.                                                                  *)

\* The arguments of a call, from left to right, each in the slot after the last.
CompileArgument ==
  /\ Doing("arguments") /\ T.args # <<>>
  /\ Finish(Cur, <<Compile(Head(T.args), TRUE), [do |-> "argument", slot |-> Locals], Arguments(Tail(T.args))>>)

ArgumentCompiled ==
  /\ Doing("argument")
  /\ Finish(EmitPop(EmitMove(Cur, T.slot, Top(Cur)), Locals - T.slot - 1), <<>>)

ArgumentsCompiled ==
  /\ Doing("arguments") /\ T.args = <<>>
  /\ Finish(Cur, <<>>)

CallTask(kind, slot, n, start) == [do |-> "emitCall", kind |-> kind, slot |-> slot, n |-> n, start |-> start]

(* duckLisp_generator_funcall: a function by its name. *)
GeneratorCall ==
  /\ Doing("call")
  /\ LET name == T.items[1].value
         local == GetLocalIndexFromName(Cur.scopes, "functionLocals", name)
         CallOf(slot) == <<Arguments(Tail(T.items)), CallTask("funcall", slot, Len(T.items) - 1, Locals + 1)>>
     IN IF local # NotFound
          THEN Proceed(EmitPushIndex(Cur, local), CallOf(local)) /\ UNCHANGED symbols
          ELSE IF IsFree("functionLocals", name)
          THEN \E free \in {Free("functionLocals", name)} :
               /\ Proceed(EmitPushUpvalue([Cur EXCEPT !.scopes = free.scopes], free.index), CallOf(Locals))
               /\ UNCHANGED symbols
          ELSE /\ Proceed(EmitPushGlobal(Cur, name), CallOf(Locals))
               /\ symbols' = AppendNew(symbols, name)
  /\ UNCHANGED <<compiled, labels>>

(* duckLisp_generator_funcall2 and duckLisp_generator_apply: the value of a form. *)
GeneratorFuncall ==
  /\ \E kind \in {"funcall", "apply"} :
       /\ Doing(kind)
       /\ Finish(Cur, <<Compile(T.items[2], TRUE), [do |-> "callee", kind |-> kind, items |-> T.items]>>)

CalleeCompiled ==
  /\ Doing("callee")
  /\ LET n == Len(T.items) - (IF T.kind = "apply" THEN 3 ELSE 2)
     IN Finish(Cur, <<Arguments(SubSeq(T.items, 3, Len(T.items))), CallTask(T.kind, compiled.index, n, Locals)>>)

GeneratorCallback ==
  /\ Doing("callback")
  /\ Finish(Cur, <<Arguments(Tail(T.items)), CallTask("ccall", T.items[1].value, 0, Locals)>>)

EmitCall ==
  /\ Doing("emitCall")
  /\ LET c == CASE T.kind = "funcall" -> EmitFuncall(Cur, T.slot, T.n)
                [] T.kind = "apply" -> EmitApply(Cur, T.slot, T.n)
                [] T.kind = "ccall" -> EmitCcall(Cur, T.slot)
     IN Finish([c EXCEPT !.len = T.start + 1], <<>>)

------------------------------------------------------------------------------
(* Compile time.                                                           *)

(* duckLisp_objectToAST: lists become forms, or calls of `__cons' when `exprs' is FALSE. *)
Convertible(v) == v[1] \in {"bool", "int", "string", "nil", "cons", "symbol"}

RECURSIVE ObjectToAST(_, _)
ObjectToAST(v, exprs) ==
  CASE Is("nil", v) -> Form(<<>>)
    [] Is("cons", v) /\ exprs -> LET vs == ElementsOf(v)
                                 IN Form([k \in DOMAIN vs |-> ObjectToAST(vs[k], TRUE)])
    [] Is("cons", v) /\ ~exprs -> Call("cons", <<ObjectToAST(v[2], FALSE), ObjectToAST(v[3], FALSE)>>)
    [] Is("symbol", v) -> Id(v[2])
    [] OTHER -> Node(v[1], v[2], <<>>)

(* duckLisp_generator_comptime. *)
GeneratorComptime ==
  /\ Doing("comptime")
  /\ IF current = "comptime" THEN Finish(Cur, <<Forms(Tail(T.items))>>)
     ELSE /\ current' = "comptime"
          /\ subs' = [subs EXCEPT !["comptime"].asm = Append(@, Assembly(0))]
          /\ work' = <<Forms(Tail(T.items)), [do |-> "comptimeRun"]>> \o Tail(work)
          /\ UNCHANGED <<program, machine, verdict, compiled, symbols, labels>>

\* Mutant: the code that was run stays in the assembly.
ComptimeRunKeepsCode ==
  /\ Doing("comptimeRun")
  /\ Execute("comptime", Cur.asm[1].code \o Last(Cur.asm).code, Locals)
  /\ subs' = [subs EXCEPT !["comptime"].asm = Front(@)]
  /\ work' = <<Run("comptime"), [do |-> "comptimeResult"]>> \o Tail(work)
  /\ UNCHANGED <<program, current, verdict, compiled, symbols, labels>>

\* The functions of the form come first.
ComptimeRun ==
  /\ Doing("comptimeRun")
  /\ Execute("comptime", Cur.asm[1].code \o Last(Cur.asm).code, Locals)
  /\ subs' = [subs EXCEPT !["comptime"].asm = <<Assembly(0)>>]
  /\ work' = <<Run("comptime"), [do |-> "comptimeResult"]>> \o Tail(work)
  /\ UNCHANGED <<program, current, verdict, compiled, symbols, labels>>

ComptimeResult ==
  /\ Doing("comptimeResult")
  /\ IF ~Convertible(Result) THEN Reject
     ELSE /\ PopResult
          /\ subs' = [subs EXCEPT !["comptime"].len = @ - 1]
          /\ current' = "runtime"
          /\ work' = <<Compile(ObjectToAST(Result, FALSE), TRUE)>> \o Tail(work)
          /\ UNCHANGED <<program, verdict, compiled, symbols, labels>>

(* duckLisp_generator_defmacro: a function of compile time, that both environments know as a macro. *)
GeneratorDefmacro ==
  /\ Doing("defmacro")
  /\ current' = "comptime"
  /\ work' = <<[do |-> "defun", items |-> T.items], [do |-> "defmacroRun", name |-> T.items[2].value]>> \o Tail(work)
  /\ UNCHANGED <<program, subs, machine, verdict, compiled, symbols, labels>>

DefmacroRun ==
  /\ Doing("defmacroRun")
  /\ Execute("comptime", Cur.asm[1].code, Locals)
  /\ subs' = [subs EXCEPT !["comptime"].asm = <<Assembly(0)>>]
  /\ work' = <<Run("comptime"), [do |-> "defmacroEnd", name |-> T.name]>> \o Tail(work)
  /\ UNCHANGED <<program, current, verdict, compiled, symbols, labels>>

DefmacroEnd ==
  /\ Doing("defmacroEnd")
  /\ current' = "runtime"
  /\ LET defined == [s \in Environments |-> [subs[s] EXCEPT !.scopes = AddInterpretedGenerator(@, T.name)]]
     IN subs' = [defined EXCEPT !["runtime"] = EmitNil(@)]
  /\ work' = Tail(work)
  /\ UNCHANGED <<program, machine, verdict, compiled, symbols, labels>>

(* duckLisp_generator_macro: the macro's function is called on the quoted arguments. *)
GeneratorMacro ==
  /\ Doing("macro")
  /\ current' = "comptime"
  /\ LET start == Len(machine["comptime"].stack)
         args == Tail(T.items)
         quoted == [k \in DOMAIN args |-> Call("__quote", <<args[k]>>)]
     IN /\ subs' = [subs EXCEPT !["comptime"].len = start, !["comptime"].asm = Append(@, Assembly(0))]
        /\ work' = <<Arguments(quoted),
                     [do |-> "macroRun", n |-> Len(args), start |-> start, len |-> subs["comptime"].len,
                      slot |-> GetMacroFromName(subs["comptime"].scopes, T.items[1].value),
                      last |-> current]>> \o Tail(work)
  /\ UNCHANGED <<program, machine, verdict, compiled, symbols, labels>>

MacroRun ==
  /\ Doing("macroRun")
  /\ Execute("comptime", Last(EmitFuncall(Cur, T.slot, T.n).asm).code, T.start + 1)
  /\ subs' = [subs EXCEPT !["comptime"].len = T.start + 1, !["comptime"].asm = Front(@)]
  /\ work' = <<Run("comptime"), [T EXCEPT !.do = "macroResult"]>> \o Tail(work)
  /\ UNCHANGED <<program, current, verdict, compiled, symbols, labels>>

MacroResult ==
  /\ Doing("macroResult")
  /\ IF ~Convertible(Result) THEN Reject
     ELSE LET ast == ObjectToAST(Result, TRUE)
          IN /\ PopResult
             /\ subs' = [subs EXCEPT !["comptime"].len = T.len]
             /\ current' = T.last
             /\ work' = <<Compile(ast, FALSE), [do |-> "macroEnd", ast |-> ast]>> \o Tail(work)
             /\ UNCHANGED <<program, verdict, compiled, symbols, labels>>

\* A form takes the place of the call in the program.
MacroEnd ==
  /\ Doing("macroEnd")
  /\ compiled' = [compiled EXCEPT !.form = IF ~IsForm(T.ast) THEN <<>> ELSE IF @ = <<>> THEN <<T.ast>> ELSE @]
  /\ Proceed(Cur, <<>>)
  /\ UNCHANGED Interned

------------------------------------------------------------------------------
(* duckLisp_compileAST; then the program runs.                             *)
CompileEnd ==
  /\ Doing("exit")
  /\ \E c \in {IF Locals > 1 THEN EmitPop(EmitMove(Cur, Locals - 2, Top(Cur)), 1) ELSE Cur} :
       /\ machine' = Start(Load(machine, "runtime", EmitExit(c).asm[1].code), "runtime")
       /\ subs' = [subs EXCEPT ![current] = EmitExit(c)]
  /\ work' = <<Run("runtime")>>
  /\ UNCHANGED <<program, current, verdict, compiled, symbols, labels>>

RunMachine == RunInstruction /\ UNCHANGED <<program, subs, current, compiled, symbols, labels>>

CompileForm ==
  \/ CompileLiteral \/ CompileLocal \/ CompileFree \/ CompileGlobal \/ CompileEmpty
  \/ CompileExpression \/ CompileCall \/ CompileReturned

CompileForms ==
  \/ GeneratorNoscope \/ NoscopeDefinition \/ NoscopeDefined \/ NoscopeForm
  \/ GeneratorExpression \/ ExpressionEnd

CompileDefinition ==
  \/ GeneratorCreateVar \/ CreateVarEnd \/ GeneratorDefun \/ DefunEnd \/ GeneratorGlobal \/ GlobalEnd
  \/ GeneratorSetq \/ SetqLocal \/ SetqFree \/ SetqGlobal \/ GeneratorLambda \/ LambdaEnd

CompileControl ==
  \/ GeneratorWhile \/ WhileBody \/ WhileTest \/ GeneratorWhen \/ WhenTest \/ WhenEnd
  \/ UnlessTest \/ UnlessEnd \/ GeneratorIf \/ IfTest \/ IfElse \/ IfThen

CompileData ==
  \/ GeneratorOperator \/ CompileOperand \/ OperandCompiled \/ OperandsCompiled
  \/ GeneratorList \/ CompileElement \/ ConsElement
  \/ GeneratorVector \/ CompileVectorElement \/ VectorElementCompiled
  \/ GeneratorQuote \/ GeneratorNop \/ GeneratorDeclare \/ GeneratorDummy

CompileCalls ==
  \/ CompileArgument \/ ArgumentCompiled \/ ArgumentsCompiled
  \/ GeneratorCall \/ GeneratorFuncall \/ CalleeCompiled \/ GeneratorCallback \/ EmitCall

CompileTime ==
  \/ GeneratorComptime \/ ComptimeRun \/ ComptimeResult \/ GeneratorDefmacro \/ DefmacroRun \/ DefmacroEnd
  \/ GeneratorMacro \/ MacroRun \/ MacroResult \/ MacroEnd

Next ==
  \/ CompileForm \/ CompileForms \/ CompileDefinition \/ CompileControl \/ CompileData
  \/ CompileCalls \/ CompileTime \/ CompileEnd \/ RunMachine

Spec == Init /\ [][Next]_vars /\ WF_vars(Next)

------------------------------------------------------------------------------
(* Properties.                                                             *)

Done == work = <<>>

(* Type correctness of the compile states and the machines. *)
TypeOK ==
  /\ current \in Environments
  /\ \A s \in Environments :
       /\ subs[s].len \in Int /\ subs[s].asm # <<>>
       /\ DOMAIN machine[s].open = DOMAIN machine[s].stack
       /\ \A c \in DOMAIN machine[s].cells : machine[s].cells[c].at \in Nat
  /\ compiled.index \in Int
  /\ verdict \in {"ok", "compile error", "runtime error"}

(* When the machine reaches an instruction, its stack is as deep as the generators
   took it to be when they emitted it: slots are counted from the top of the stack, so
   one slot that a generator miscounts (a branch that leaves one more, a form that
   leaves none) makes every later operand of the function read its neighbour. *)
DepthsAgree ==
  Running /\ Instruction.class \notin {"label", "jump"} =>
    Instruction.depth = Len(M.stack) - Frame.base

(* A program that ran to its end left the value that it means on the stack, alone, and
   made the calls that it means in their order; programs that are wrong are refused or
   stopped, and no others are (docs/language.md, docs/language-reference.md). *)
CompiledMeansSource ==
  Done =>
    /\ verdict = Programs[program].verdict
    /\ verdict = "ok" =>
         LET m == machine["runtime"]
         IN /\ Len(m.stack) = 1
            /\ \E meaning \in {Meaning(Programs[program].means)} :
                 /\ Shown(m.stack[1]) = meaning.value
                 /\ m.calls = meaning.calls

(* While an upvalue points into the stack, the slot that it points to exists and is known
   to be its variable's: scopes release the variables that functions captured before
   their slots are dropped, whatever way control leaves them. *)
NoUpvalueOutlivesItsVariable ==
  \A s \in Environments : \A c \in DOMAIN machine[s].cells :
    LET at == machine[s].cells[c].at
    IN at # 0 => at <= Len(machine[s].stack) /\ machine[s].open[at] = c

(* While code is compiled for run time, the compiler's idea of the stack of its own machine
   is that stack, and no compile-time code is pending: macros and `comptime' forms, nested
   or not, leave neither values nor instructions behind. *)
CompileTimeInStep ==
  current = "runtime" /\ verdict = "ok" =>
    /\ subs["comptime"].len = Len(machine["comptime"].stack)
    /\ subs["comptime"].asm = <<Assembly(0)>>

(* The scopes of both environments are as many, and all are gone in the end. *)
ScopesInStep ==
  verdict = "ok" =>
    /\ Len(subs["runtime"].scopes) = Len(subs["comptime"].scopes)
    /\ Done => subs["runtime"].scopes = <<>>

(* Programs that have an end come to it: the compiler stops, and so does the program. *)
ProgramsEnd == program \notin Endless ~> Done
=============================================================================
