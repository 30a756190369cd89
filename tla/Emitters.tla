------------------------------ MODULE Emitters ------------------------------
(***************************************************************************)
(* The emitters (src/emitters.c): each appends one instruction to the      *)
(* assembly that is being written and keeps the number of locals, which    *)
(* the generators take for the depth of the machine's stack.  Stack slots  *)
(* are given from the bottom of the stack and stored from its top.         *)
(*                                                                         *)
(* An emitter maps the compile state of an environment (a record with      *)
(* locals_length in `len' and the assemblies that are being written in     *)
(* `asm', the innermost last) to the one after it.  `depth' is no part of  *)
(* an instruction: it is what the generators took for the depth when they  *)
(* emitted it, from `base', the depth at which the function starts.        *)
(***************************************************************************)
EXTENDS Language

Assembly(base) == [code |-> <<>>, base |-> base]

Put(c, class, operands, args, growth) ==
  The({[k EXCEPT !.asm[Len(k.asm)].code =
                   Append(@, [class |-> class, slots |-> operands, args |-> args,
                              depth |-> k.len - Last(k.asm).base]),
                 !.len = @ + growth] : k \in {c}})

FromTop(c, slots) == [k \in DOMAIN slots |-> c.len - slots[k]]
Top(c) == c.len - 1

EmitNil(c) == Put(c, "nil", <<>>, <<>>, 1)
EmitPush(c, class, value) == Put(c, class, <<>>, <<value>>, 1)
EmitPushIndex(c, slot) == Put(c, "pushIndex", FromTop(c, <<slot>>), <<>>, 1)
EmitPushUpvalue(c, upvalue) == Put(c, "pushUpvalue", <<>>, <<upvalue>>, 1)
EmitPushGlobal(c, name) == Put(c, "pushGlobal", <<>>, <<name>>, 1)
EmitOperator(c, class, slots) == Put(c, class, FromTop(c, slots), <<>>, 1)
EmitVector(c, slots) == Put(c, "vector", FromTop(c, slots), <<>>, 1)
EmitNop(c) == Put(c, "nop", <<>>, <<>>, 1)

EmitMove(c, destination, source) ==
  IF destination = source THEN c ELSE Put(c, "move", FromTop(c, <<source, destination>>), <<>>, 0)

EmitPop(c, count) == IF count = 0 THEN c ELSE Put(c, "pop", <<>>, <<count>>, -count)

(* `key' is the number of the symbol. *)
EmitSetStatic(c, name, key, source) ==
  IF key = source THEN c ELSE Put(c, "setGlobal", FromTop(c, <<source>>), <<name>>, 0)

EmitSetUpvalue(c, upvalue, source) == Put(c, "setUpvalue", FromTop(c, <<source>>), <<upvalue>>, 0)

EmitPushClosure(c, variadic, label, arity, captures) ==
  Put(c, "pushClosure", [k \in DOMAIN captures |-> IF captures[k] >= 0 THEN c.len - captures[k] ELSE captures[k]],
      <<label, arity, variadic>>, 1)

EmitReleaseUpvalues(c, captures) ==
  LET slots == SelectSeq(captures, LAMBDA u : u >= 0)
  IN IF slots = <<>> THEN c ELSE Put(c, "releaseUpvalues", FromTop(c, slots), <<>>, 0)

EmitFuncall(c, slot, arity) == Put(c, "funcall", FromTop(c, <<slot>>), <<arity>>, 1)
EmitApply(c, slot, arity) == Put(c, "apply", FromTop(c, <<slot>>), <<arity>>, 1)
EmitCcall(c, name) == Put(c, "ccall", <<>>, <<name>>, 1)
EmitReturn(c, count) == Put(c, "return", <<>>, <<count>>, -count)
EmitExit(c) == Put(c, "halt", <<>>, <<>>, -1)
EmitBrnz(c, label, pops) == Put(c, "brnz", <<>>, <<label, pops>>, -pops)
EmitJump(c, label) == Put(c, "jump", <<>>, <<label>>, 0)
EmitLabel(c, label) == Put(c, "label", <<>>, <<label>>, 0)
=============================================================================
