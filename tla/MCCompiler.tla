----------------------------- MODULE MCCompiler -----------------------------
(***************************************************************************)
(* Programs for Compiler.  Most are the shapes of tests/*.dl; what a       *)
(* program with macros means is written out next to it.                    *)
(***************************************************************************)
EXTENDS Compiler

Arities == ("emit" :> 1) @@ ("pair" :> 2)

True == Bool(TRUE)
False == Bool(FALSE)
One == Number(1)
X == Id("x")
Y == Id("y")
N == Id("n")
Empty == Form(<<>>)
Var(x, e) == Call("var", <<Id(x), e>>)
Set(x, e) == Call("setq", <<Id(x), e>>)
Global(x, e) == Call("global", <<Id(x), e>>)
Defun(f, params, body) == Call("defun", <<Id(f), Names(params)>> \o body)
Lambda_(params, body) == Call("lambda", <<Names(params)>> \o body)
Defmacro(f, params, body) == Call("defmacro", <<Id(f), Names(params)>> \o body)
Do(forms) == Form(<<Empty>> \o forms)
Emit(e) == Call("emit", <<e>>)
Funcall(f, args) == Call("funcall", <<f>> \o args)
If(c, a, b) == Call("if", <<c, a, b>>)
List(items) == Call("list", items)
Quote(e) == Call("quote", <<e>>)
Plus(a, b) == Call("+", <<a, b>>)
Minus(a, b) == Call("-", <<a, b>>)

Program(source, means, verdict_) ==
  [source |-> source, means |-> means, verdict |-> verdict_]
Fine(source) == Program(source, source, "ok")
As(source, means) == Program(source, means, "ok")
Refused(source) == Program(source, Empty, "compile error")
Stopped(source) == Program(source, Empty, "runtime error")

Closures_ ==
  ("shadowing" :> Fine(Do(<<Var("x", One), Emit(X), Do(<<Emit(X), Var("x", Number(2)), Emit(X)>>),
                          Lambda_(<<>>, <<X>>), Var("x", Number(3)), Emit(X), X>>)))
  @@ ("capture" :> Fine(Do(<<Var("z", Number(0)),
                             Do(<<Var("y", Number(7)), Defun("f", <<>>, <<Y>>), Set("z", Id("f"))>>),
                             Emit(Funcall(Id("z"), <<>>)), Funcall(Id("z"), <<>>)>>)))
  @@ ("factory" :> Fine(Do(<<
        Defun("make", <<"x">>, <<Call("cons", <<Form(<<Defun("get", <<>>, <<X>>)>>),
                                                Form(<<Defun("set", <<"v">>, <<Set("x", Id("v"))>>)>>)>>)>>),
        Var("q", Call("make", <<Number(5)>>)), Var("r", Call("make", <<Number(9)>>)),
        Funcall(Call("cdr", <<Id("q")>>), <<Number(4)>>),
        List(<<Funcall(Call("car", <<Id("q")>>), <<>>), Funcall(Call("car", <<Id("r")>>), <<>>)>>)>>)))
  @@ ("nested" :> Fine(Do(<<Var("o", Number(5)),
        Defun("s1", <<>>, <<Defun("s2", <<>>, <<Defun("s3", <<>>, <<Set("o", Number(6))>>)>>)>>),
        Defun("g1", <<>>, <<Defun("g2", <<>>, <<Defun("g3", <<>>, <<Id("o")>>)>>)>>),
        Emit(Funcall(Funcall(Call("g1", <<>>), <<>>), <<>>)),
        Funcall(Funcall(Call("s1", <<>>), <<>>), <<>>),
        Funcall(Funcall(Call("g1", <<>>), <<>>), <<>>)>>)))
  @@ ("fixedPoint" :> Fine(Do(<<
        Defun("down", <<"f", "x">>, <<If(Call("=", <<X, Number(0)>>), X, Funcall(Id("f"), <<Minus(X, One)>>))>>),
        Defun("fix", <<"f", "x">>,
              <<Funcall(Form(<<Defun("dummy", <<"x">>, <<Funcall(Id("f"), <<Id("self"), X>>)>>)>>), <<X>>)>>),
        Call("fix", <<Id("down"), Number(2)>>)>>)))
  @@ ("recursion" :> Fine(Do(<<
        Defun("sum", <<"n">>, <<If(N, Plus(N, Call("self", <<Minus(N, One)>>)), N)>>),
        Emit(Call("sum", <<Number(2)>>)),
        Funcall(Lambda_(<<"n">>, <<If(N, Plus(N, Call("self", <<Minus(N, One)>>)), N)>>), <<Number(2)>>)>>)))
  @@ ("self" :> Fine(Do(<<Funcall(Do(<<Var("a", Empty), Lambda_(<<>>, <<Var("b", Id("self")), Empty>>)>>), <<>>), True>>)))
  @@ ("apply" :> Fine(Do(<<Call("apply", <<
        Lambda_(<<"first", "&rest", "args">>,
                <<If(Id("args"), Plus(Id("first"), Call("apply", <<Id("self"), Id("args")>>)), Id("first"))>>),
        List(<<One, Number(2), Number(3)>>)>>)>>)))
  @@ ("rest" :> Fine(Do(<<Var("f", Lambda_(<<"&rest", "xs">>, <<Id("xs")>>)),
        Call("pair", <<Funcall(Id("f"), <<>>), Call("apply", <<Id("f"), One, List(<<Number(2)>>)>>)>>)>>)))
  @@ ("perIteration" :> Fine(Do(<<Var("n", Number(2)), Var("fs", Empty),
        Call("while", <<N, Var("x", N), Set("fs", Call("cons", <<Lambda_(<<>>, <<Set("x", Plus(X, One)), X>>), Id("fs")>>)),
                        Set("n", Minus(N, One))>>),
        Var("f", Call("car", <<Id("fs")>>)), Emit(Funcall(Id("f"), <<>>)),
        List(<<Funcall(Id("f"), <<>>), Funcall(Call("car", <<Call("cdr", <<Id("fs")>>)>>), <<>>)>>)>>)))
  @@ ("sharedLater" :> Fine(Do(<<Var("x", One), Var("f", Lambda_(<<>>, <<Set("x", Plus(X, One))>>)),
        Funcall(Id("f"), <<>>), Emit(X), Set("x", Number(7)), Funcall(Id("f"), <<>>), X>>)))
  @@ ("parameterCaptured" :> Fine(Do(<<Defun("f", <<"x", "y">>, <<Lambda_(<<>>, <<Call("cons", <<Y, X>>)>>)>>),
        Var("g", Call("f", <<One, Number(2)>>)), Call("f", <<Number(3), Number(4)>>), Funcall(Id("g"), <<>>)>>)))

Control ==
  ("if" :> Fine(Do(<<Var("x", One),
        List(<<If(X, One, Number(2)), If(Call("not", <<X>>), One, Number(2)), If(True, X, Emit(X)),
               If(Empty, Emit(X), Do(<<Var("y", Number(4)), Y>>))>>)>>)))
  @@ ("when" :> Fine(Do(<<Var("x", One), Emit(Call("when", <<X, Emit(X), Number(2)>>)),
        Emit(Call("unless", <<X, Emit(Number(3))>>)), Emit(Call("when", <<Call("not", <<X>>), X>>)),
        Emit(Call("unless", <<Call("not", <<X>>), Var("y", Number(5)), Y>>)),
        List(<<Call("when", <<True, X>>), Call("when", <<False, X>>), Call("unless", <<Str("s"), X>>),
               Call("unless", <<Number(0), X>>)>>)>>)))
  @@ ("while" :> Fine(Do(<<Var("n", Number(2)), Call("while", <<N, Emit(N), Set("n", Minus(N, One))>>)>>)))
  @@ ("whileNested" :> Fine(Do(<<Var("n", Number(2)),
        Call("while", <<Call("not", <<Call("=", <<N, Number(0)>>)>>), Var("m", One),
                        Call("while", <<Id("m"), Set("m", Number(0)), Emit(N)>>), Set("n", Minus(N, One))>>),
        Call("while", <<False, N>>), N>>)))
  @@ ("forever" :> Fine(Do(<<Call("while", <<True, Lambda_(<<>>, <<One>>)>>), One>>)))
  @@ ("nopUnreached" :> As(Do(<<Lambda_(<<>>, <<Call("nop", <<>>), One>>), One>>), One))
  @@ ("noscope" :> Fine(Do(<<Call("noscope", <<Var("x", One), Defun("f", <<>>, <<X>>)>>), Emit(Call("f", <<>>)), X>>)))
  @@ ("lastVar" :> Fine(Do(<<Do(<<Var("x", One)>>), Form(<<Defun("f", <<>>, <<One>>)>>), Form(<<Call("noscope", <<Var("y", One), Y>>)>>)>>)))

Data ==
  ("globals" :> Fine(Do(<<Global("g", Number(4)), Defun("f", <<>>, <<Set("g", Plus(Id("g"), One))>>), Call("f", <<>>), Id("g")>>)))
  @@ ("globalFunction" :> Fine(Do(<<Var("a", One), Global("h", Lambda_(<<"x">>, <<Emit(X)>>)),
                                    Do(<<Var("h", Number(2)), Call("h", <<Id("h")>>)>>)>>)))
  @@ ("quote" :> Fine(Do(<<Var("x", One), List(<<Quote(Form(<<Id("a"), Form(<<One, X>>), Empty, Str("s"), True>>)), Quote(Id("b")),
                                                 Quote(One)>>)>>)))
  @@ ("operands" :> Fine(Do(<<Var("x", One), Var("y", Number(2)),
        Call("vector", <<X, Emit(Y), Call("cons", <<Y, X>>), Call("set-vector-element", <<Call("make-vector", <<Y, X>>), X, Plus(X, Y)>>),
                         Call("make-type", <<>>), Call("vector", <<>>)>>)>>)))
  @@ ("arguments" :> Fine(Do(<<Var("x", One), Call("pair", <<Do(<<Var("y", Number(2)), Emit(Y), Y>>), If(X, X, X)>>)>>)))
  @@ ("declare" :> As(Do(<<Call("declare", <<X, Empty>>), One>>), Do(<<One>>)))
  @@ ("lisp2" :> Fine(Do(<<Defun("f", <<"x">>, <<Plus(X, One)>>), Do(<<Var("f", Number(5)), Call("f", <<Id("f")>>)>>)>>)))

M_(forms, expanded) == As(Do(forms), Do(expanded))
Macros ==
  ("macro" :> M_(<<Defmacro("m", <<"a", "b">>, <<List(<<Quote(Id("pair")), Id("b"), Id("a")>>)>>), Var("x", One),
                   Call("m", <<X, Number(2)>>)>>,
                 <<Empty, Var("x", One), Call("pair", <<Number(2), X>>)>>))
  @@ ("macroDefines" :> M_(<<Defmacro("m", <<"a">>, <<List(<<Quote(Id("var")), Id("a"), One>>)>>), Call("m", <<X>>), Emit(X), X>>,
                           <<Empty, Var("x", One), Emit(X), X>>))
  @@ ("macroNested" :> M_(<<Defmacro("m", <<"a">>, <<List(<<Quote(Id("emit")), Id("a")>>)>>),
                            Defmacro("k", <<"a">>, <<List(<<Quote(Id("m")), List(<<Quote(Id("m")), Id("a")>>)>>)>>),
                            Defun("f", <<"x">>, <<Call("k", <<X>>)>>), Call("f", <<One>>)>>,
                          <<Defun("f", <<"x">>, <<Emit(Emit(X))>>), Call("f", <<One>>)>>))
  @@ ("macroMacro" :> M_(<<Defmacro("m", <<>>, <<Quote(Defmacro("k", <<>>, <<One>>))>>), Call("m", <<>>), Emit(Call("k", <<>>))>>,
                         <<Emit(One)>>))
  @@ ("macroState" :> M_(<<Call("comptime", <<Var("count", Number(0)), Empty>>),
                           Defmacro("m", <<>>, <<Set("count", Plus(Id("count"), One))>>),
                           List(<<Call("m", <<>>), Call("m", <<>>)>>)>>,
                         <<List(<<Number(2), Number(1)>>)>>))
  @@ ("comptime" :> M_(<<Call("comptime", <<Defun("f", <<>>, <<Quote(Form(<<One, Form(<<>>), Str("s")>>))>>), True>>),
                         Emit(Call("comptime", <<Call("f", <<>>)>>))>>,
                       <<Emit(Quote(Form(<<One, Form(<<>>), Str("s")>>)))>>))
  @@ ("comptimeInside" :> M_(<<Call("comptime", <<Var("y", Number(3)), Defun("f", <<>>, <<Y>>), Call("comptime", <<Call("f", <<>>)>>)>>),
                               Defun("g", <<"x">>, <<Plus(X, Call("comptime", <<Call("f", <<>>)>>))>>), Call("g", <<One>>)>>,
                             <<Defun("g", <<"x">>, <<Plus(X, Number(3))>>), Call("g", <<One>>)>>))
  @@ ("macroInComptime" :> M_(<<Defmacro("m", <<>>, <<Empty>>),
                                Call("comptime", <<Defun("f", <<>>, <<True>>), Call("m", <<>>), Call("f", <<>>)>>)>>,
                              <<True>>))

Errors ==
  ("ifArity" :> Refused(Do(<<Var("x", One), Call("if", <<X, One>>)>>)))
  @@ ("error" :> Refused(Do(<<Defun("f", <<>>, <<Call("__error", <<Str("no")>>)>>), One>>)))
  @@ ("restFirst" :> Refused(Do(<<Lambda_(<<"&rest", "a", "b">>, <<One>>)>>)))
  @@ ("macroInMacro" :> Refused(Do(<<Call("comptime", <<Defmacro("m", <<>>, <<One>>), One>>)>>)))
  @@ ("varWithout" :> Refused(Do(<<Call("var", <<X>>), One>>)))
  @@ ("varName" :> Stopped(Do(<<Emit(One), Call("var", <<One, Number(2)>>), Emit(Number(3))>>)))
  @@ ("globalName" :> As(Do(<<Var("x", One), Call("global", <<One, Number(2)>>), X>>), Do(<<Var("x", One), X>>)))
  @@ ("defunName" :> Refused(Do(<<Call("defun", <<One, Empty, One>>), One>>)))
  @@ ("comptimeClosure" :> Refused(Do(<<Call("comptime", <<Lambda_(<<>>, <<One>>)>>)>>)))
  @@ ("macroClosure" :> Refused(Do(<<Defmacro("m", <<>>, <<Lambda_(<<>>, <<One>>)>>), Call("m", <<>>)>>)))
  @@ ("macroFails" :> Refused(Do(<<Defmacro("m", <<"a">>, <<One>>), Call("m", <<>>)>>)))
  @@ ("unbound" :> Stopped(Do(<<Emit(One), Id("nowhere")>>)))
  @@ ("arity" :> Stopped(Do(<<Defun("f", <<"x">>, <<X>>), Call("f", <<>>)>>)))
  @@ ("notFunction" :> Stopped(Do(<<Var("x", One), Funcall(X, <<>>)>>)))

(* A function that does two things with a variable of its caller, called after a third. *)
Acts ==
  ("set" :> Set("x", Plus(X, One))) @@ ("close" :> Lambda_(<<>>, <<X>>))
  @@ ("shadow" :> Do(<<Var("x", Number(8)), Lambda_(<<>>, <<X>>)>>))
  @@ ("parameter" :> Lambda_(<<>>, <<Set("y", X)>>))
  @@ ("deeper" :> Funcall(Lambda_(<<>>, <<Lambda_(<<>>, <<Set("x", Plus(X, Y))>>)>>), <<>>))
Composed(a, b, c) ==
  Fine(Do(<<Var("x", One), Var("y", Number(6)), Defun("f", <<"y">>, <<Acts[a], Acts[b]>>), Acts[c],
            Var("g", Call("f", <<X>>)), Emit(X), Id("g")>>))

(* Every kind of form in every place that a form can stand in. *)
Kinds ==
  ("literal" :> Number(5)) @@ ("local" :> X) @@ ("global" :> Id("g")) @@ ("empty" :> Empty)
  @@ ("scope" :> Do(<<Var("z", X), Var("x", Number(2)), Call("cons", <<Id("z"), X>>)>>))
  @@ ("closure" :> Funcall(Lambda_(<<>>, <<Set("x", Plus(X, One)), X>>), <<>>))
  @@ ("captured" :> Funcall(Do(<<Var("z", X), Lambda_(<<>>, <<Set("z", Plus(Id("z"), One)), Id("z")>>)>>), <<>>))
  @@ ("branch" :> If(Call("=", <<X, One>>), Do(<<Var("x", Number(2)), X>>), Y))
  @@ ("guarded" :> Call("when", <<X, Var("z", Number(7)), Id("z")>>))
  @@ ("loop" :> Do(<<Var("m", One), Call("while", <<Id("m"), Var("z", Id("m")), Lambda_(<<>>, <<Id("z")>>),
                                                     Set("m", Number(0))>>)>>))
  @@ ("list" :> List(<<X, Y>>)) @@ ("quoted" :> Quote(Form(<<Number(5), Id("g")>>))) @@ ("call" :> Emit(X))
  @@ ("assignment" :> Set("x", Number(6)))
In(place, e) ==
  CASE place = "first" -> Call("pair", <<e, X>>)
    [] place = "second" -> Call("pair", <<X, e>>)
    [] place = "operand" -> Call("cons", <<e, X>>)
    [] place = "element" -> Call("vector", <<X, e>>)
    [] place = "condition" -> If(e, X, Number(2))
    [] place = "then" -> If(X, e, One)
    [] place = "else" -> If(Call("not", <<X>>), One, e)
    [] place = "body" -> Call("while", <<N, e, Set("n", Number(0))>>)
    [] place = "when" -> Call("when", <<X, e>>)
    [] place = "unless" -> Call("unless", <<Call("not", <<X>>), e>>)
    [] place = "value" -> Do(<<Var("v", e), Id("v")>>)
    [] place = "assigned" -> Set("y", e)
    [] place = "function" -> Funcall(Lambda_(<<"p">>, <<e>>), <<X>>)
    [] place = "spread" -> Call("apply", <<Lambda_(<<"&rest", "xs">>, <<Id("xs")>>), List(<<e>>)>>)
    [] place = "dropped" -> Do(<<e, X>>)
Places ==
  {"first", "second", "operand", "element", "condition", "then", "else", "body", "when", "unless", "value",
   "assigned", "function", "spread", "dropped"}
Placed(form) ==
  Fine(Do(<<Global("g", Number(4)), Var("x", One), Var("y", Number(3)), Var("n", One), Var("w", form),
            List(<<X, Y, N, Id("w")>>)>>))

Wrong ==
  ("static" :> Fine(Do(<<Var("a", One), Var("b", One), Var("c", One), Var("d", One), Var("e", One), Global("g", Number(4)), Id("g")>>)))
  @@ ("macroVariable" :> M_(<<Var("x", One), Defmacro("m", <<>>, <<Quote(X)>>), Var("y", Number(2)), Call("m", <<>>)>>,
                            <<Var("x", One), Var("y", Number(2)), X>>))

EndlessPrograms == {<<"forever">>}
Good == Closures_ @@ Control @@ Data @@ Macros @@ Errors
GoodPrograms ==
  [p \in {<<n>> : n \in DOMAIN Good} |-> Good[p[1]]]
  @@ [p \in {<<a, b, c>> : a, b, c \in DOMAIN Acts} |-> Composed(p[1], p[2], p[3])]
  @@ [p \in Places \X DOMAIN Kinds |-> Placed(In(p[1], Kinds[p[2]]))]
  @@ [p \in Places \X {"first", "condition", "body", "value", "function", "dropped"} |-> Placed(In(p[1], In(p[2], Kinds["captured"])))]
StaticPrograms == [p \in {"static"} |-> Wrong[p]]
MacroPrograms == [p \in {"macroVariable"} |-> Wrong[p]]
=============================================================================
