--------------------------- MODULE InferenceRules ----------------------------
(***************************************************************************)
(* What docs/parenthesis-inference.md says a program means: a grammar of   *)
(* programs without parentheses, in which the type of a declared           *)
(* identifier says how many forms follow it.  Trees are built, never       *)
(* changed; a form is read with the scopes of declarations it is read in,  *)
(* and leaves the declarations it makes.                                   *)
(*                                                                         *)
(* Reading gives [ok, trees, next, scopes]: the trees read, the place of   *)
(* the first form that was not, and the scopes after it.                   *)
(***************************************************************************)
EXTENDS InferrerTypes

ReadOk(trees, next, scopes) == [ok |-> TRUE, trees |-> trees, next |-> next, scopes |-> scopes]
NotRead == [ok |-> FALSE, trees |-> <<>>, next |-> 0, scopes |-> <<>>]

\* A form `(declare name type [script])' that is read with inference declares.
Declares(tree) ==
  /\ tree.type = "expression" /\ Len(tree.items) \in {3, 4}
  /\ \A k \in {1, 2} : tree.items[k].type = "identifier"
  /\ tree.items[1].value = "declare"
WithDeclared(read, scripts) ==
  IF ~read.ok \/ ~Declares(read.trees[1]) THEN read
  ELSE LET items == read.trees[1].items
           declaration == Declaration(Signature(items[3]),
                                      IF Len(items) = 4 THEN scripts[items[4].value] ELSE <<>>)
       IN  IF IsLegal(declaration)
           THEN [read EXCEPT !.scopes = AddDeclaration(@, items[2].value, declaration)]
           ELSE NotRead

RECURSIVE ReadForm(_, _, _, _), ReadForms(_, _, _, _, _), ReadWhole(_, _, _), ReadOperands(_, _, _, _, _, _, _)

\* The form that begins at items[next].
ReadForm(items, next, scopes, scripts) ==
  LET Whole(read) == WithDeclared([read EXCEPT !.next = next + 1], scripts)
      Called(operands) ==
        WithDeclared([ok |-> operands.ok, next |-> operands.next, scopes |-> operands.scopes,
                      trees |-> <<Form(<<items[next]>> \o operands.trees)>>], scripts)
      Named(declaration) ==
        CASE declaration = Undeclared -> NotRead
          [] ~IsFunction(declaration) -> ReadOk(<<items[next]>>, next + 1, scopes)
          [] OTHER -> The({Called(operands) : operands \in
               {ReadOperands(declaration, <<>>, declaration.script, items, next + 1, FALSE,
                             ReadOk(<<>>, next + 1, scopes) @@ [scripts |-> scripts])}})
  IN  CASE next > Len(items) -> NotRead
        [] items[next].type = "identifier" -> Named(Lookup(scopes, items[next].value))
        [] OTHER -> The({Whole(read) : read \in {ReadWhole(items[next], scopes, scripts)}})

\* As many forms as there are, or as the count says.
ReadForms(items, next, count, scopes, scripts) ==
  LET Both(first, others) == IF others.ok THEN [others EXCEPT !.trees = first.trees \o @] ELSE NotRead
      After(first) ==
        IF ~first.ok THEN NotRead
        ELSE The({Both(first, others) :
                    others \in {ReadForms(items, first.next, count - 1, first.scopes, scripts)}})
  IN  IF count = 0 \/ (count < 0 /\ next > Len(items)) THEN ReadOk(<<>>, next, scopes)
      ELSE The({After(first) : first \in {ReadForm(items, next, scopes, scripts)}})

\* Forms that are left alone.
LeftAlone(items, next, count, scopes) ==
  IF next + count - 1 > Len(items) THEN NotRead
  ELSE ReadOk(SubSeq(items, next, next + count - 1), next + count, scopes)

\* The operand of the n-th type, which are the rest of the operands if it is the last of a variadic
\* function.
ReadOperand(signature, n, items, next, parenthesized, scopes, scripts) ==
  LET Operand(letter, count) ==
        CASE letter = "I" -> ReadForms(items, next, count, scopes, scripts)
          [] letter = "L" \/ count = 0 \/ (count < 0 /\ next > Len(items)) ->
               LeftAlone(items, next, IF count < 0 THEN Len(items) - next + 1 ELSE count, scopes)
          [] OTHER -> NotRead
  IN  CASE n <= Len(signature.positional) -> Operand(signature.positional[n], 1)
        [] n = Len(signature.positional) + 1 /\ signature.variadic ->
             IF parenthesized THEN Operand(signature.rest, -1)
             ELSE IF signature.default < 0 THEN NotRead ELSE Operand(signature.rest, signature.default)
        [] OTHER -> NotRead

\* The operands of a function from `next' on, asked for by the rest of its script and then by its
\* type; got has what the script was given, one entry for each type.
ReadOperands(declaration, got, calls, items, next, parenthesized, read) ==
  LET signature == declaration.signature
      n == Len(got) + 1
      complete == n > Len(signature.positional) + (IF signature.variadic THEN 1 ELSE 0)
      Object(one) == IF n <= Len(signature.positional) THEN one.trees[1] ELSE Form(one.trees)
      Took(one) ==
        IF ~one.ok THEN NotRead
        ELSE ReadOperands(declaration, Append(got, Postprocess(Object(one))),
                          IF calls = <<>> THEN <<>> ELSE Tail(calls), items, one.next, parenthesized,
                          [read EXCEPT !.trees = @ \o one.trees, !.scopes = one.scopes])
      In(scopes) ==
        ReadOperands(declaration, got, Tail(calls), items, next, parenthesized, [read EXCEPT !.scopes = scopes])
  IN  CASE calls = <<>> /\ complete -> [read EXCEPT !.next = next]
        [] calls = <<>> \/ calls[1] = Get ->
             The({Took(one) : one \in
                    {ReadOperand(signature, n, items, next, parenthesized, read.scopes, read.scripts)}})
        [] calls[1] = OpenScope -> In(Append(read.scopes, <<>>))
        [] calls[1] = CloseScope -> In(Front(read.scopes))
        [] OTHER -> IF MayDeclare(calls[1], got) THEN In(DeclaredBy(calls[1], got, read.scopes)) ELSE NotRead

\* A form that is not an identifier, and what its parentheses hold.
ReadWhole(node, scopes, scripts) ==
  LET items == node.items
      As(trees, read) == IF read.ok THEN ReadOk(<<Form(trees \o read.trees)>>, 0, read.scopes) ELSE NotRead
      Headed(read) == As(<<items[1]>>, read)
      HeadAndArguments == The({Headed(read) : read \in {ReadForms(items, 2, -1, scopes, scripts)}})
      Closed(read) == As(<<>>, IF read.ok THEN [read EXCEPT !.scopes = Front(@)] ELSE read)
      All(read) == IF read.ok /\ read.next = Len(items) + 1 THEN Headed(read) ELSE NotRead
      Named(declaration) ==
        CASE declaration = Undeclared \/ declaration.signature.symbol = "I" -> NotRead
          [] declaration.signature.symbol = "L" -> HeadAndArguments
          [] OTHER -> The({All(read) : read \in
               {ReadOperands(declaration, <<>>, declaration.script, items, 2, TRUE,
                             ReadOk(<<>>, 2, scopes) @@ [scripts |-> scripts])}})
  IN  CASE node.type # "expression" \/ items = <<>> -> ReadOk(<<node>>, 0, scopes)
        [] items[1].type = "callback" -> HeadAndArguments
        [] items[1].type = "identifier" -> Named(Lookup(scopes, items[1].value))
        [] OTHER -> The({Closed(read) : read \in
                           {ReadForms(items, 1, -1, Append(scopes, <<>>), scripts)}})

Means(tree, externals, scripts) ==
  LET Meant(read) == IF read.ok THEN [ok |-> TRUE, tree |-> Postprocess(read.trees[1])]
                     ELSE [ok |-> FALSE, tree |-> Form(<<>>)]
  IN  The({Meant(read) : read \in {ReadWhole(tree, <<externals>>, scripts)}})
=============================================================================
