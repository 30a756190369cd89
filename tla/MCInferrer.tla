----------------------------- MODULE MCInferrer -----------------------------
(***************************************************************************)
(* Programs for Inferrer: every sequence of up to three of the forms below *)
(* as a program, as a call's arguments and after a function that takes any *)
(* number; the shapes of tests/*.dl that declare; nested calls where one   *)
(* wrapping follows another; and the ways the inferrer is known to         *)
(* depart from its documentation or not to end.                            *)
(***************************************************************************)
EXTENDS Inferrer

S == Str("s")
F == Id("f")
G == Id("g")
V == Id("v")
R == Id("r")
X == Id("x")
Type(letters) == Names(letters)
RestType(letters, default) == Form([k \in DOMAIN letters |-> Id(letters[k])]
                                     \o <<Id("&rest"), Number(default), Id("I")>>)
RestOfNested == Form(<<Id("&rest"), Number(1), Type(<<"I">>)>>)
DeclareForm(name, type) == Call("declare", <<Id(name), type>>)
DeclareScript(name, type, script) == Call("declare", <<Id(name), type, Str(script)>>)

Scripts ==
     ("var" :> <<Get, Declare(Got(1), Id("L"))>>)
  @@ ("defun" :> <<Get, Get, OpenScope, DeclareEach(Got(2), Id("L")), Declare(Id("self"), TypeFor(2)), Get,
                   CloseScope, Declare(Got(1), TypeFor(2))>>)
  @@ ("lambda" :> <<Get, OpenScope, DeclareEach(Got(1), Id("L")), Declare(Id("self"), TypeFor(1)), Get,
                    CloseScope>>)
  @@ ("typed" :> <<Get, Get, Get, OpenScope, DeclareEach(Got(2), Id("L")), Declare(Id("self"), Got(3)), Get,
                      CloseScope, Declare(Got(1), Got(3))>>)
  @@ ("all" :> <<Get, Get, Declare(Got(1), Id("L"))>>)
  @@ ("greedy" :> <<Get, Get, Get, Get>>)
  @@ ("scoped" :> <<OpenScope, Declare(Id("x"), Id("L")), Get, CloseScope>>)

Declared(type, script) == Declaration(Signature(type), IF script = "" THEN <<>> ELSE Scripts[script])
Linked ==
     ("f" :> Declared(Type(<<"I", "I">>), "")) @@ ("g" :> Declared(Type(<<"I">>), ""))
  @@ ("z" :> Declared(Type(<<>>), "")) @@ ("q" :> Declared(Type(<<"L">>), ""))
  @@ ("v" :> Declared(Id("L"), "")) @@ ("w" :> Declared(Id("I"), ""))
  @@ ("r" :> Declared(RestType(<<>>, 1), "")) @@ ("e" :> Declared(RestType(<<"I">>, -1), ""))
  @@ ("nest" :> Declared(RestOfNested, ""))
  @@ ("funcall" :> Declared(RestType(<<"I">>, 0), "")) @@ ("var" :> Declared(Type(<<"L", "I">>), "var"))
  @@ ("defun" :> Declared(RestType(<<"L", "L">>, 1), "defun"))
  @@ ("defmacro" :> Declared(RestType(<<"L", "L">>, 1), "defun"))
  @@ ("lambda" :> Declared(RestType(<<"L">>, 1), "lambda"))
  @@ ("typed" :> Declared(RestType(<<"L", "L", "L">>, 1), "typed"))
  @@ ("with" :> Declared(Type(<<"I">>), "scoped"))
  @@ ("declare" :> Declared(RestType(<<"L", "L">>, 0), ""))

Program(forms) == Form(<<Form(<<>>)>> \o forms)
Lists(S_, n) == UNION {[1 .. k -> S_] : k \in 0 .. n}

Atoms == {S, F, G, V, R, Id("z"), Id("q"), Id("u"), Id("with")}
Small == {Form(<<>>), Form(<<G, G, S>>), Form(<<F, S>>), Form(<<V, G, S>>), Form(<<R, G, S, S>>), Form(<<S, V>>)}
Marked == {Callback("u"), Literal(<<Id("u"), G>>), Form(<<Callback("u"), G, S>>)}
Flat == {Program(p) : p \in Lists(Atoms, 3) \cup Lists(Atoms \cup Small \cup Marked, 2)}
Headed == {Program(<<Form(<<Id(h)>> \o p), G, V>>) :
             h \in {"f", "r", "v", "w", "e", "q", "u"}, p \in Lists({S, G, R, Form(<<G, G, S>>)}, 3)}

Declaring ==
  {Program(<<Id("var"), X>> \o p) : p \in Lists({X, G, S, Id("var")}, 3)}
  \cup {Program(<<DeclareForm("x", t), G, X, G, S, V>>) :
          t \in {Id("L"), Id("I"), Type(<<"I">>), Type(<<"I", "I">>), Type(<<"L">>), RestType(<<>>, 2),
                 Form(<<Type(<<"I">>)>>), S}}
  \cup {Program(<<Id("declare"), X, t, G, X, S>>) : t \in {Id("L"), Type(<<"I">>), Id("u")}}
  \cup {Program(<<Form(<<DeclareForm("x", Id("L")), X>>), G, X>>),
        Program(<<Form(<<S, DeclareForm("g", Id("L")), G>>), G, V>>)}
  \cup {Program(<<DeclareScript("x", t, s), X>> \o p) :
          t \in {Type(<<"I", "I">>), Type(<<"L", "I">>)}, s \in {"var", "all", "scoped", "greedy"},
          p \in Lists({X, V, G, S}, 3)}
  \cup {Program(<<DeclareScript("x", Id("L"), "var")>>)}

Defining ==
  {Program(start \o body \o after) :
     start \in UNION {{<<Id("defun"), Id("h"), Type(ps)>>, <<Id("typed"), Id("h"), Type(ps), Type(<<"I">>)>>,
                      <<Id("lambda"), Type(ps)>>} : ps \in {<<"a">>, <<"a", "&rest", "b">>}},
     body \in {<<Id("a")>>, <<Id("self"), G, Id("a"), S>>, <<Id("b")>>, <<Id("lambda"), Type(<<"c">>), F, Id("a"), Id("c")>>},
     after \in {<<Id("h"), S, S>>, <<G, Id("h"), S>>, <<Form(<<Id("h"), S>>)>>, <<Id("a")>>, <<Id("self"), S, S>>}}
  \cup {Program(<<Form(<<Id(d), Id("h"), Type(<<"a">>)>> \o body), Id("h"), S>>) :
          d \in {"defun", "defmacro"}, body \in Lists({Id("a"), Form(<<Id("self"), S>>), G}, 3)}
  \cup {Program(<<Id("funcall"), Id("lambda"), Type(<<"a">>), Id("defun"), Id("h"), Type(<<"a", "b">>), F, Id("a"),
                  Id("b"), Id("h"), S, V>>)}

Nested ==
  {Program(<<F, G, F, a, G, b, F, c, G, S, V>>) : a, b, c \in {S, Form(<<G, G, S>>), Form(<<F, G, S, S>>)}}
  \cup {Program(<<R, F, R, a, S, G, Form(<<R, S, R, b, G, V>>)>>) : a, b \in {S, V, Form(<<S, G, S>>)}}
  \cup {Program(<<Id("with"), f, Id("x"), S>>) : f \in {F, G}}
  \cup {Program(<<Id("e"), S, S>>), Program(<<Id("nest"), S>>), Program(<<Form(<<Id("nest")>>)>>)}

\* What the inferrer does against its documentation, in each way.
Departing ==
  {Program(<<form, X, G, X>>) : form \in
     {Form(<<Id("q"), DeclareForm("x", Id("L"))>>), Literal(<<Id("declare"), X, Id("L")>>),
      Literal(<<Id("u"), DeclareForm("x", Id("L"))>>)}}
  \cup {Program(<<Form(<<Callback("declare"), V, Form(<<>>)>>), Form(<<V, S>>)>>)}
  \cup {Program(<<Id("q"), DeclareForm("x", t), X, S>>) : t \in {Id("L"), Type(<<"I">>), S}}
  \cup {Program(<<Literal(<<head, G>>), V>>) : head \in {S, Form(<<G, S>>)}}
  \cup {Program(<<DeclareScript("x", Type(<<"L">>), "all"), X, G, S>>)}

\* Calls with arguments for a rest of a nested type.
Looping ==
  {Program(<<Form(<<Id("nest"), S>>)>>), Program(<<G, Form(<<Id("nest"), G, S>>), V>>),
   Program(<<DeclareForm("x", RestOfNested), Form(<<X, S>>)>>)}
EveryInferenceEnds == <>Ended

Trees == Flat \cup Headed \cup Declaring \cup Defining \cup Nested \cup Departing \cup Looping
=============================================================================
