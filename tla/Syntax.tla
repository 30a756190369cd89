------------------------------- MODULE Syntax --------------------------------
(***************************************************************************)
(* Duck-lisp's syntax trees, as the reader makes them, the parenthesis     *)
(* inferrer rewrites them and the compiler takes them.                     *)
(***************************************************************************)
EXTENDS Sequences

The(S) == CHOOSE x \in S : TRUE       \* of a set with one element: gives its element a name

Node(type, value, items) == [type |-> type, value |-> value, items |-> items]
Number(n) == Node("int", n, <<>>)
Bool(b) == Node("bool", b, <<>>)
Str(s) == Node("string", s, <<>>)
Id(n) == Node("identifier", n, <<>>)
Form(items) == Node("expression", "", items)
Call(name, args) == Form(<<Id(name)>> \o args)
Names(ns) == Form([k \in DOMAIN ns |-> Id(ns[k])])

IsForm(node) == node.type = "expression"
IsIdentifier(node) == node.type = "identifier"
IsLiteral(node) == ~IsForm(node) /\ ~IsIdentifier(node)
IsCallOf(node, name) ==
  /\ IsForm(node) /\ node.items # <<>>
  /\ IsIdentifier(node.items[1]) /\ node.items[1].value = name
=============================================================================
