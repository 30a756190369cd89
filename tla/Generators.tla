----------------------------- MODULE Generators -----------------------------
(***************************************************************************)
(* The operators of the language: which instruction class each generator   *)
(* compiles to (src/generators.c) and how many operands the emitter of     *)
(* each class takes from the stack (src/emitters.c).  Every generator has  *)
(* a second name, with two underscores in front; `error' has only that.    *)
(***************************************************************************)
EXTENDS Integers, TLC

StringGenerators ==
  ("make-string" :> "makeString") @@ ("concatenate" :> "concatenate") @@ ("substring" :> "substring")
  @@ ("length" :> "length") @@ ("symbol-string" :> "symbolString") @@ ("symbol-id" :> "symbolId")
  @@ ("type-of" :> "typeof") @@ ("make-type" :> "makeType")

CompositeGenerators ==
  ("make-instance" :> "makeInstance") @@ ("composite-value" :> "compositeValue")
  @@ ("composite-function" :> "compositeFunction") @@ ("set-composite-value" :> "setCompositeValue")
  @@ ("set-composite-function" :> "setCompositeFunction")

ListGenerators ==
  ("null?" :> "nullp") @@ ("set-car" :> "setCar") @@ ("set-cdr" :> "setCdr")
  @@ ("car" :> "car") @@ ("cdr" :> "cdr") @@ ("cons" :> "cons") @@ ("__cons" :> "cons")

VectorGenerators ==
  ("make-vector" :> "makeVector") @@ ("get-vector-element" :> "getVecElt")
  @@ ("set-vector-element" :> "setVecElt")

ArithmeticGenerators ==
  ("not" :> "not") @@ ("*" :> "mul") @@ ("/" :> "div") @@ ("+" :> "add") @@ ("-" :> "sub")
  @@ ("=" :> "equal") @@ (">" :> "greater") @@ ("<" :> "less")

OperatorClass ==
  StringGenerators @@ CompositeGenerators @@ ListGenerators @@ VectorGenerators @@ ArithmeticGenerators

StringEmitters ==
  [makeString |-> 1, concatenate |-> 2, substring |-> 3, length |-> 1, symbolString |-> 1,
   symbolId |-> 1, typeof |-> 1, makeType |-> 0]

CompositeEmitters ==
  [makeInstance |-> 3, compositeValue |-> 1, compositeFunction |-> 1, setCompositeValue |-> 2,
   setCompositeFunction |-> 2]

ListEmitters == [nullp |-> 1, setCar |-> 2, setCdr |-> 2, car |-> 1, cdr |-> 1, cons |-> 2]

VectorEmitters == [makeVector |-> 2, getVecElt |-> 2, setVecElt |-> 3]

ArithmeticEmitters ==
  [greater |-> 2, equal |-> 2, less |-> 2, not |-> 1, mul |-> 2, div |-> 2, add |-> 2, sub |-> 2]

Operands == StringEmitters @@ CompositeEmitters @@ ListEmitters @@ VectorEmitters @@ ArithmeticEmitters

(* The forms that have a generator of their own.  `var', `defun' and `noscope'
   are compiled by the list of forms they stand in, and to nothing elsewhere. *)
SpecialForms ==
  {"declare", "nop", "funcall", "apply", "var", "global", "setq", "while", "if", "when", "unless", "defun",
   "lambda", "defmacro", "noscope", "comptime", "quote", "list", "vector"}
Dummies == {"var", "defun", "noscope"}

GeneratorOf(name) ==
  CASE name \in DOMAIN OperatorClass -> "operator"
    [] name = "__error" -> "error"
    [] name \in Dummies -> "dummy"
    [] name = "__quote" -> "quote"
    [] name = "defun:lambda" -> "lambda"
    [] name \in SpecialForms -> name
    [] OTHER -> "none"
=============================================================================
