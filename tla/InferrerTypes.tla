---------------------------- MODULE InferrerTypes ----------------------------
(***************************************************************************)
(* The types of the parenthesis inferrer and its dictionary of declared    *)
(* identifiers.  A type is `L' or `I' for a variable, or the list of what  *)
(* a function takes: `L' for an argument left as it is, `I' for one that   *)
(* is inferred, `&rest n type' at the end for any number of arguments, n   *)
(* of them where no parentheses say how many.                              *)
(***************************************************************************)
EXTENDS Syntax, Integers, SequencesExt, FiniteSetsExt, TLC

Callback(name) == Node("callback", name, <<>>)
Literal(items) == Node("literalExpression", "", items)

IsName(node, name) == node.type \in {"identifier", "callback"} /\ node.value = name

Illegal == [legal |-> FALSE, symbol |-> "", positional |-> <<>>, variadic |-> FALSE, rest |-> "", default |-> 0]
Variable(symbol) == [Illegal EXCEPT !.legal = TRUE, !.symbol = symbol]

\* inferrerTypeSignature_fromAst; an element that is a list is legal, but no argument can have it.
RECURSIVE Signature(_)
Signature(node) ==
  LET items == node.items
      variadic == Len(items) >= 3 /\ IsName(items[Len(items) - 2], "&rest")
      positional == SubSeq(items, 1, IF variadic THEN Len(items) - 3 ELSE Len(items))
      Letter(s) == IF s.symbol = "" THEN "nested" ELSE s.symbol
      legal == /\ \A k \in DOMAIN positional : Signature(positional[k]).legal
               /\ variadic => items[Len(items) - 1].type = "int" /\ Signature(Last(items)).legal
  IN  CASE IsName(node, "L") -> Variable("L")
        [] IsName(node, "I") -> Variable("I")
        [] node.type = "expression" /\ legal ->
             [legal |-> TRUE, symbol |-> "", variadic |-> variadic,
              positional |-> [k \in DOMAIN positional |-> Letter(Signature(positional[k]))],
              rest |-> IF variadic THEN Letter(Signature(Last(items))) ELSE "",
              default |-> IF variadic THEN items[Len(items) - 1].value ELSE 0]
        [] OTHER -> Illegal

Declaration(signature, script) == [signature |-> signature, script |-> script]
Undeclared == Declaration(Illegal, <<>>)
IsFunction(declaration) == declaration.signature.symbol = ""

\* addDeclaration: a variable has no script.
IsLegal(declaration) == declaration.signature.legal /\ (declaration.script # <<>> => IsFunction(declaration))
AddDeclaration(scopes, name, declaration) ==
  [scopes EXCEPT ![Len(scopes)] = (name :> declaration) @@ @]

Lookup(scopes, name) ==
  LET found == {k \in DOMAIN scopes : name \in DOMAIN scopes[k]}
  IN  IF found = {} THEN Undeclared ELSE scopes[Max(found)][name]

\* What is left of `#' once the reader is done, and in the objects scripts see.
RECURSIVE Postprocess(_)
Postprocess(node) ==
  Node(CASE node.type = "callback" -> "identifier" [] node.type = "literalExpression" -> "expression"
         [] OTHER -> node.type,
       node.value, [k \in DOMAIN node.items |-> Postprocess(node.items[k])])
------------------------------------------------------------------------------
(* The calls of a script.  What it got is named by its number.             *)
Got(n) == Node("got", n, <<>>)
Get == [op |-> "get"]
OpenScope == [op |-> "push"]
CloseScope == [op |-> "pop"]
Declare(name, type) == [op |-> "declare", name |-> name, type |-> type]
DeclareEach(names, type) == [op |-> "declareEach", name |-> names, type |-> type]
TypeFor(n) == Node("typeFor", n, <<>>)      \* computed from the parameters it got as number n
Resolve(node, got) ==
  LET rest == <<Id("&rest"), Number(0)>>
      Types(parameter) == IF IsName(parameter, "&rest") THEN rest ELSE <<Id("I")>>
  IN  CASE node.type = "got" -> got[node.value]
        [] node.type = "typeFor" -> Form(FlattenSeq([k \in DOMAIN got[node.value].items |->
                                                       Types(got[node.value].items[k])]))
        [] OTHER -> node

\* callback_declareIdentifier, for the names a call declares.
NamesDeclared(call, got) ==
  LET name == Resolve(call.name, got)
  IN  IF call.op = "declareEach" THEN SelectSeq(name.items, LAMBDA p : ~IsName(p, "&rest")) ELSE <<name>>
MayDeclare(call, got) ==
  /\ call.op = "declareEach" => Resolve(call.name, got).type = "expression"
  /\ LET names == NamesDeclared(call, got)
     IN  \A k \in DOMAIN names : names[k].type \in {"identifier", "string"}
  /\ Signature(Resolve(call.type, got)).legal
DeclaredBy(call, got, scopes) ==
  FoldLeft(LAMBDA s, name : AddDeclaration(s, name.value, Declaration(Signature(Resolve(call.type, got)), <<>>)),
           scopes, NamesDeclared(call, got))
=============================================================================
