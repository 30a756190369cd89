------------------------------ MODULE Language ------------------------------
(***************************************************************************)
(* Duck-lisp's values, and what a program means: the evaluator below reads *)
(* docs/language.md and docs/language-reference.md, with                   *)
(* lexically scoped variables that live in cells, functions in a           *)
(* namespace of their own, and forms evaluated in order.  It knows nothing *)
(* of stacks, scopes of the compiler or upvalues, and is what compiled     *)
(* code is compared with.                                                  *)
(***************************************************************************)
EXTENDS Generators, Syntax, Sequences, SequencesExt

(* Values.                                                                 *)
Nil == <<"nil">>
Pair(car, cdr) == <<"cons", car, cdr>>
Symbol(name) == <<"symbol", name>>
Closure(label, chunk, arity, variadic, upvalues) ==
  <<"closure", label, chunk, arity, variadic, upvalues>>

LiteralValue(node) == <<node.type, node.value>>
Is(type, v) == v[1] = type
Truthy(v) == v \notin {Nil, <<"bool", FALSE>>, <<"int", 0>>}

(* What the operators compute.  Only what decides where a program goes is computed;
   the rest is a term. *)
Operate(class, args) ==
  CASE class = "cons" -> Pair(args[1], args[2])
    [] class \in {"car", "cdr"} /\ Is("nil", args[1]) -> Nil
    [] class = "car" /\ Is("cons", args[1]) -> args[1][2]
    [] class = "cdr" /\ Is("cons", args[1]) -> args[1][3]
    [] class = "nullp" -> <<"bool", args[1] = Nil>>
    [] class = "not" -> <<"bool", ~Truthy(args[1])>>
    [] class = "equal" -> <<"bool", args[1] = args[2]>>
    [] class = "add" /\ \A k \in {1, 2} : Is("int", args[k]) -> <<"int", args[1][2] + args[2][2]>>
    [] class = "sub" /\ \A k \in {1, 2} : Is("int", args[k]) -> <<"int", args[1][2] - args[2][2]>>
    [] OTHER -> <<"term", class, args>>

RECURSIVE ListOf(_), ElementsOf(_)
ListOf(vs) == IF vs = <<>> THEN Nil ELSE Pair(vs[1], ListOf(Tail(vs)))
ElementsOf(list) == IF list = Nil THEN <<>> ELSE <<list[2]>> \o ElementsOf(list[3])

------------------------------------------------------------------------------
(* What a program means.  A store has the cells of the variables, the      *)
(* global variables and the calls of C functions that were made.           *)

Function(f, x, y) == [z \in DOMAIN f \cup {x} |-> IF z = x THEN y ELSE f[z]]
EmptyStore == [cells |-> <<>>, globals |-> [n \in {} |-> Nil], calls |-> <<>>]
EmptyEnvironment == [variables |-> [n \in {} |-> 0], functions |-> [n \in {} |-> 0]]

Alloc(store, value) == [store EXCEPT !.cells = Append(@, value)]
BindVariable(env, name, cell) == [env EXCEPT !.variables = Function(@, name, cell)]
BindFunction(env, name, cell) == [env EXCEPT !.functions = Function(@, name, cell)]
Read(env, store, name) ==
  IF name \in DOMAIN env.variables THEN store.cells[env.variables[name]] ELSE store.globals[name]

CONSTANT CallbackArity    \* the C functions and how many arguments each takes

Lambda(args, env) == [params |-> args[1].items, body |-> Tail(args), env |-> env]
Variadic(params) == \E k \in DOMAIN params : params[k] = Id("&rest")
Required(params) == SelectSeq(params, LAMBDA p : p # Id("&rest"))

RECURSIVE Eval(_, _, _), EvalBody(_, _, _), EvalAll(_, _, _), Apply(_, _, _), Loop(_, _, _), Quoted(_)

\* Some forms one after another.  Definitions are seen by the forms that follow.
EvalBody(forms, env, store) ==
  IF forms = <<>> THEN [value |-> Nil, env |-> env, store |-> store]
  ELSE
    LET form == forms[1]
        Rest(r) == IF Len(forms) = 1 THEN r ELSE EvalBody(Tail(forms), r.env, r.store)
        Defined(r, Bound(_, _, _)) ==
          LET cell == Len(r.store.cells) + 1
          IN Rest([value |-> r.value, store |-> Alloc(r.store, r.value),
                   env |-> Bound(env, form.items[2].value, cell)])
        Both(e, name, cell) == BindFunction(BindVariable(e, name, cell), name, cell)
    IN CASE IsCallOf(form, "var") ->
              The({Defined(r, BindVariable) : r \in {Eval(form.items[3], env, store)}})
         [] IsCallOf(form, "defun") ->
              The({Defined(r, Both) :
                     r \in {Eval(Call("lambda", SubSeq(form.items, 3, Len(form.items))), env, store)}})
         [] IsCallOf(form, "noscope") ->
              The({Rest(r) : r \in {EvalBody(Tail(form.items), env, store)}})
         [] OTHER ->
              The({Rest([value |-> r.value, env |-> env, store |-> r.store]) :
                     r \in {Eval(form, env, store)}})

\* The values of some expressions, from left to right.
EvalAll(exprs, env, store) ==
  IF exprs = <<>> THEN [values |-> <<>>, store |-> store]
  ELSE LET Then(r) == The({[values |-> <<r.value>> \o rs.values, store |-> rs.store] :
                             rs \in {EvalAll(Tail(exprs), env, r.store)}})
       IN The({Then(r) : r \in {Eval(exprs[1], env, store)}})

\* A function on arguments: `self' is a variable that holds the function, and the last parameter of
\* a variadic function is the list of what is left.
Apply(function, args, store) ==
  LET lambda == store.cells[function[2]][2]
      params == Required(lambda.params)
      fixed == Len(params) - 1
      actual == IF Variadic(lambda.params)
                THEN Append(SubSeq(args, 1, fixed), ListOf(SubSeq(args, fixed + 1, Len(args))))
                ELSE args
      base == Len(store.cells)
      self == BindFunction(BindVariable(lambda.env, "self", function[2] + 1), "self", function[2] + 1)
      bound == FoldLeftDomain(LAMBDA e, k : BindVariable(e, params[k].value, base + k), self, params)
  IN EvalBody(lambda.body, bound, [store EXCEPT !.cells = @ \o actual])

Loop(args, env, store) ==
  LET Test(r) == IF Truthy(r.value)
                 THEN The({Loop(args, env, b.store) : b \in {EvalBody(Tail(args), env, r.store)}})
                 ELSE [value |-> Nil, store |-> r.store]
  IN The({Test(r) : r \in {Eval(args[1], env, store)}})

Quoted(node) ==
  IF IsForm(node) THEN ListOf([k \in DOMAIN node.items |-> Quoted(node.items[k])])
  ELSE IF IsIdentifier(node) THEN Symbol(node.value) ELSE LiteralValue(node)

\* An expression.
Eval(expr, env, store) ==
  LET items == expr.items
      name == items[1].value
      args == Tail(items)
      Value(v, s) == [value |-> v, store |-> s]
      Called(rs) == Apply(rs.values[1], Tail(rs.values), rs.store)
      Spread(rs) == Apply(rs.values[1], SubSeq(rs.values, 2, Len(rs.values) - 1)
                                          \o ElementsOf(Last(rs.values)), rs.store)
      Assigned(r) ==
        IF args[1].value \in DOMAIN env.variables
        THEN Value(r.value, [r.store EXCEPT !.cells[env.variables[args[1].value]] = r.value])
        ELSE Value(r.value, [r.store EXCEPT !.globals = Function(@, args[1].value, r.value)])
      Branch(r, forms) == EvalBody(forms, env, r.store)
      Function2(rs) ==
        IF name \in DOMAIN env.functions
        THEN Apply(store.cells[env.functions[name]], rs.values, rs.store)
        ELSE Apply(rs.store.globals[name], rs.values, rs.store)
  IN CASE IsIdentifier(expr) -> Value(Read(env, store, expr.value), store)
       [] IsLiteral(expr) -> Value(LiteralValue(expr), store)
       [] items = <<>> -> Value(Nil, store)
       [] ~IsIdentifier(items[1]) ->
            The({Value(r.value, r.store) : r \in {EvalBody(items, env, store)}})
       [] name \in DOMAIN env.functions -> The({Function2(rs) : rs \in {EvalAll(args, env, store)}})
       [] name = "lambda" ->
            LET cell == Len(store.cells) + 1
            IN Value(<<"function", cell>>, Alloc(Alloc(store, <<"code", Lambda(args, env)>>), <<"function", cell>>))
       [] name \in {"setq", "global"} -> The({Assigned(r) : r \in {Eval(args[2], env, store)}})
       [] name = "if" ->
            The({Branch(r, <<args[IF Truthy(r.value) THEN 2 ELSE 3]>>) : r \in {Eval(args[1], env, store)}})
       [] name = "when" ->
            The({Branch(r, IF Truthy(r.value) THEN Tail(args) ELSE <<>>) : r \in {Eval(args[1], env, store)}})
       [] name = "unless" ->
            The({Branch(r, IF Truthy(r.value) THEN <<>> ELSE Tail(args)) : r \in {Eval(args[1], env, store)}})
       [] name = "while" -> Loop(args, env, store)
       [] name = "quote" -> Value(Quoted(args[1]), store)
       [] name = "funcall" -> The({Called(rs) : rs \in {EvalAll(args, env, store)}})
       [] name = "apply" -> The({Spread(rs) : rs \in {EvalAll(args, env, store)}})
       [] name = "list" ->
            The({Value(ListOf(Reverse(rs.values)), rs.store) : rs \in {EvalAll(Reverse(args), env, store)}})
       [] name = "vector" ->
            The({Value(<<"vector", Reverse(rs.values)>>, rs.store) :
                   rs \in {EvalAll(Reverse(args), env, store)}})
       [] name \in DOMAIN OperatorClass ->
            The({Value(Operate(OperatorClass[name], rs.values), rs.store) :
                   rs \in {EvalAll(args, env, store)}})
       [] name \in DOMAIN CallbackArity ->
            The({Value(<<"result", name, rs.values>>,
                       [rs.store EXCEPT !.calls = Append(@, <<name, rs.values>>)]) :
                   rs \in {EvalAll(args, env, store)}})
       [] OTHER -> The({Function2(rs) : rs \in {EvalAll(args, env, store)}})

(* Functions are compared as functions only: the evaluator's and the machine's differ. *)
RECURSIVE Shown(_)
Shown(v) ==
  CASE v[1] \in {"function", "closure"} -> <<"function">>
    [] Is("cons", v) -> Pair(Shown(v[2]), Shown(v[3]))
    [] Is("vector", v) -> <<"vector", [k \in DOMAIN v[2] |-> Shown(v[2][k])]>>
    [] Is("term", v) -> <<"term", v[2], [k \in DOMAIN v[3] |-> Shown(v[3][k])]>>
    [] Is("result", v) -> <<"result", v[2], [k \in DOMAIN v[3] |-> Shown(v[3][k])]>>
    [] OTHER -> v

Meaning(program) ==
  LET r == Eval(program, EmptyEnvironment, EmptyStore)
  IN The({[value |-> Shown(x.value), calls |-> [k \in DOMAIN x.store.calls |->
             <<x.store.calls[k][1], [j \in DOMAIN x.store.calls[k][2] |-> Shown(x.store.calls[k][2][j])]>>]] :
          x \in {r}})
=============================================================================
