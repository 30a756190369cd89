------------------------------ MODULE Bytecode ------------------------------
(***************************************************************************)
(* How one instruction is laid out in bytecode: what duckLisp_assemble     *)
(* writes for each instruction class (assembler.c), what                   *)
(* duckVM_executeInstruction reads back for each opcode (duckVM.c), and    *)
(* what duckLisp_disassemble expects (assembler.c).                        *)
(*                                                                         *)
(* An instruction of the high-level assembly is [class, args]: its operands*)
(* are stack indices, counts and numbers.  The text of a string or symbol  *)
(* is abstracted to its length and the two halves of a double to numbers.  *)
(* An unsigned operand of four bytes is read as its 32-bit pattern.        *)
(***************************************************************************)
EXTENDS Integers, SequencesExt

Instruction(class, args) == [class |-> class, args |-> args]

\* The classes that duckLisp_assemble knows (it has no case for brz).
Classes == {
  "nop", "pushString", "pushBoolean", "pushInteger", "pushDoubleFloat", "pushIndex", "pushSymbol",
  "pushStrippedSymbol", "pushUpvalue", "pushClosure", "pushVaClosure", "pushGlobal",
  "setUpvalue", "setGlobal", "releaseUpvalues", "funcall", "apply", "call", "ccall", "acall",
  "jump", "brnz", "move", "not", "mul", "div", "add", "sub", "equal", "less", "greater",
  "cons", "vector", "makeVector", "getVecElt", "setVecElt", "car", "cdr", "setCar", "setCdr",
  "nullp", "typeof", "makeType", "makeInstance", "compositeValue", "compositeFunction",
  "setCompositeValue", "setCompositeFunction", "makeString", "concatenate", "substring",
  "length", "symbolString", "symbolId", "pop", "return", "halt", "nil", "label", "internalNop"}

\* Opcodes are numbered in this order; the sizes of a class are consecutive.
Sized == <<1, 2, 4>>
Families == <<
  <<"nop", <<0>>>>, <<"pushString", Sized>>, <<"pushBoolean", <<0, 1>>>>,
  <<"pushInteger", Sized>>, <<"pushDoubleFloat", <<8>>>>, <<"pushIndex", Sized>>,
  <<"pushSymbol", Sized>>, <<"pushStrippedSymbol", Sized>>, <<"pushUpvalue", Sized>>,
  <<"pushClosure", Sized>>, <<"pushVaClosure", Sized>>, <<"pushGlobal", Sized>>,
  <<"setUpvalue", Sized>>, <<"setGlobal", Sized>>, <<"releaseUpvalues", Sized>>,
  <<"funcall", Sized>>, <<"apply", Sized>>, <<"call", Sized>>, <<"ccall", Sized>>,
  <<"acall", Sized>>, <<"jump", Sized>>, <<"brz", Sized>>, <<"brnz", Sized>>,
  <<"move", Sized>>, <<"not", Sized>>, <<"mul", Sized>>, <<"div", Sized>>, <<"add", Sized>>,
  <<"sub", Sized>>, <<"equal", Sized>>, <<"greater", Sized>>, <<"less", Sized>>,
  <<"cons", Sized>>, <<"vector", Sized>>, <<"makeVector", Sized>>, <<"getVecElt", Sized>>,
  <<"setVecElt", Sized>>, <<"car", Sized>>, <<"cdr", Sized>>, <<"setCar", Sized>>,
  <<"setCdr", Sized>>, <<"nullp", Sized>>, <<"typeof", Sized>>, <<"makeType", <<0>>>>,
  <<"makeInstance", Sized>>, <<"compositeValue", Sized>>, <<"compositeFunction", Sized>>,
  <<"setCompositeValue", Sized>>, <<"setCompositeFunction", Sized>>,
  <<"makeString", Sized>>, <<"concatenate", Sized>>, <<"substring", Sized>>,
  <<"length", Sized>>, <<"symbolString", Sized>>, <<"symbolId", Sized>>, <<"pop", Sized>>,
  <<"return", <<0, 1, 2, 4>>>>, <<"halt", <<0>>>>, <<"nil", <<0>>>> >>

Opcodes ==
  FlattenSeq([f \in DOMAIN Families |->
                [s \in DOMAIN Families[f][2] |-> <<Families[f][1], Families[f][2][s]>>]])
OpcodeNumbers == [o \in Range(Opcodes) |-> (CHOOSE n \in DOMAIN Opcodes : Opcodes[n] = o) - 1]
Opcode(class, size) == OpcodeNumbers[<<class, size>>]

Branches == {"call", "jump", "brnz"}
ClosurePushes == {"pushClosure", "pushVaClosure"}
Labelled == Branches \cup ClosurePushes

------------------------------------------------------------------------------
(* What the assembler writes.                                              *)

WrittenUnmasked(value, width) == [n \in 1 .. width |-> value \div 256 ^ (width - n)]
Written(value, width) == [n \in 1 .. width |-> (value \div 256 ^ (width - n)) % 256]
WrittenAll(values, width) == FlattenSeq([n \in DOMAIN values |-> Written(values[n], width)])
Text(length) == [n \in 1 .. length |-> 116]

Width(value) ==
  CASE value \in 0 .. 255 -> 1
    [] value \in 256 .. 65535 -> 2
    [] OTHER -> 4
SignedWidth(value) ==
  CASE value \in -127 .. 127 -> 1
    [] value \in -32767 .. 32767 -> 2
    [] OTHER -> 4
WidestOf(values) == Max({Width(v) : v \in values})

Encoding(size, operands) == [size |-> size, operands |-> operands]
Bare == Encoding(0, <<>>)

\* The operands in `choosing` choose the size, and every operand is written with it.
ChosenBy(args, choosing) ==
  LET width == WidestOf({args[k] : k \in choosing}) IN Encoding(width, WrittenAll(args, width))
ChosenByAll(args) == ChosenBy(args, DOMAIN args)

EncodePush(i) ==
  CASE i.class = "nop" -> Bare
    [] i.class = "pushIndex" -> ChosenByAll(i.args)
    [] i.class = "pushBoolean" -> Encoding(IF i.args[1] # 0 THEN 1 ELSE 0, <<>>)
    [] i.class = "pushInteger" ->
         Encoding(SignedWidth(i.args[1]), Written(i.args[1], SignedWidth(i.args[1])))
    [] i.class = "pushDoubleFloat" -> Encoding(8, WrittenAll(i.args, 4))

\* A symbol is its number and the length of its name; stripped of its name, the number.
EncodeText(i) ==
  LET chosen == ChosenByAll(i.args) IN
  CASE i.class = "pushString" -> [chosen EXCEPT !.operands = @ \o Text(i.args[1])]
    [] i.class = "pushSymbol" -> [chosen EXCEPT !.operands = @ \o Text(i.args[2])]
    [] i.class = "pushStrippedSymbol" -> [chosen EXCEPT !.operands = Written(i.args[1], chosen.size)]

\* set-upvalue writes the upvalue in one byte, and sizes the source by the upvalue.
EncodeVariable(i) ==
  IF i.class = "setUpvalue"
  THEN LET width == Width(i.args[1])
       IN Encoding(width, Written(i.args[1], 1) \o Written(i.args[2], width))
  ELSE ChosenByAll(i.args)

EncodeStack(i) == ChosenByAll(i.args)
EncodeArithmetic(i) == ChosenByAll(i.args)
EncodeComparison(i) == ChosenByAll(i.args)

\* A vector's indices are written with the size of its length.
EncodeConstruction(i) ==
  IF i.class = "vector" THEN ChosenBy(i.args, {1}) ELSE ChosenByAll(i.args)

\* The value that an element is set to does not choose.
EncodeElement(i) == ChosenBy(i.args, {1, 2})
EncodeList(i) == ChosenByAll(i.args)
EncodeType(i) == IF i.class = "makeType" THEN Bare ELSE ChosenByAll(i.args)
EncodeComposite(i) == ChosenByAll(i.args)
EncodeString(i) == ChosenByAll(i.args)
EncodeSliceByFirst(i) == ChosenBy(i.args, {1})
EncodeSlice(i) == ChosenBy(i.args, {1, 2})

\* The last upvalue released chooses the size, of the count as well.
EncodeRelease(i) ==
  IF i.class = "nil" THEN Bare
  ELSE ChosenBy(<<Len(i.args)>> \o i.args, {Len(i.args) + 1})

\* The arity of a function call has one byte, and acall's is always the second.
EncodeCall(i) ==
  LET width == Width(i.args[1]) IN
  CASE i.class = "ccall" -> ChosenByAll(i.args)
    [] i.class \in {"funcall", "apply"} ->
         Encoding(width, Written(i.args[1], width) \o Written(i.args[2], 1))
    [] i.class = "acall" ->
         Encoding(width, [Written(i.args[1], width) \o <<0>> EXCEPT ![2] = i.args[2] % 256])

\* What follows a displacement that is not written yet.
EncodeBranch(i) ==
  CASE i.class \in {"brnz", "call"} -> Encoding(1, Written(i.args[2], 1))
    [] i.class \in ClosurePushes ->
         Encoding(1, Written(i.args[2], 1) \o Written(Len(i.args) - 2, 4)
                       \o WrittenAll(SubSeq(i.args, 3, Len(i.args)), 4))
    [] OTHER -> Encoding(1, <<>>)

EncodeReturn(i) ==
  IF i.class = "halt" \/ i.args[1] = 0 THEN Bare ELSE ChosenByAll(i.args)

Encode(i) ==
  CASE i.class \in {"nop", "pushIndex", "pushBoolean", "pushInteger", "pushDoubleFloat"} -> EncodePush(i)
    [] i.class \in {"pushString", "pushSymbol", "pushStrippedSymbol"} -> EncodeText(i)
    [] i.class \in {"pushUpvalue", "pushGlobal", "setUpvalue", "setGlobal"} -> EncodeVariable(i)
    [] i.class \in {"move", "pop", "not"} -> EncodeStack(i)
    [] i.class \in {"mul", "div", "add", "sub"} -> EncodeArithmetic(i)
    [] i.class \in {"equal", "greater", "less"} -> EncodeComparison(i)
    [] i.class \in {"cons", "vector", "makeVector"} -> EncodeConstruction(i)
    [] i.class \in {"getVecElt", "setVecElt"} -> EncodeElement(i)
    [] i.class \in {"car", "cdr", "setCar", "setCdr"} -> EncodeList(i)
    [] i.class \in {"nullp", "typeof", "makeType", "makeInstance"} -> EncodeType(i)
    [] i.class \in {"compositeValue", "compositeFunction", "setCompositeValue",
                    "setCompositeFunction"} -> EncodeComposite(i)
    [] i.class \in {"length", "symbolString", "symbolId", "makeString"} -> EncodeString(i)
    [] i.class \in {"concatenate", "substring"} -> EncodeSlice(i)
    [] i.class \in {"nil", "releaseUpvalues"} -> EncodeRelease(i)
    [] i.class \in {"ccall", "funcall", "apply", "acall"} -> EncodeCall(i)
    [] i.class \in Labelled -> EncodeBranch(i)
    [] i.class \in {"return", "halt"} -> EncodeReturn(i)

------------------------------------------------------------------------------
(* What is read: fields of given widths, then as many items of one width   *)
(* as one of the fields says.                                              *)

Layout(fields, each, count) == [fields |-> fields, each |-> each, count |-> count]
Fields(fields) == Layout(fields, 0, 0)

ByteAt(code, ip) == IF ip < Len(code) THEN code[ip + 1] ELSE -1
Read(code, ip, width) ==
  LET top == ByteAt(code, ip)
      pattern == IF width = 4 /\ top >= 128 THEN top - 256 ELSE top
  IN FoldLeft(LAMBDA value, n : value * 256 + ByteAt(code, ip + n - 1), pattern,
              [n \in 1 .. width - 1 |-> n + 1])
SignExtended(value, width) ==
  CASE width = 1 /\ value >= 128 -> value - 256
    [] width = 2 /\ value >= 32768 -> value - 65536
    [] OTHER -> value

Offsets(widths) ==
  [n \in 1 .. Len(widths) + 1 |-> FoldLeft(+, 0, SubSeq(widths, 1, n - 1))]
Parse(code, ip, layout) ==
  LET offsets == Offsets(layout.fields)
      fields == [n \in DOMAIN layout.fields |-> Read(code, ip + offsets[n], layout.fields[n])]
      first == ip + offsets[Len(offsets)]
      items == IF layout.count = 0 THEN 0 ELSE fields[layout.count]
  IN [ fields |-> fields,
       items |-> [n \in 1 .. items |-> Read(code, first + (n - 1) * layout.each, layout.each)],
       next |-> first + items * layout.each ]

\* What each opcode of the virtual machine consumes.
VmPushLayout(class, size) ==
  CASE class \in {"pushSymbol"} -> Layout(<<size, size>>, 1, 2)
    [] class = "pushString" -> Layout(<<size>>, 1, 1)
    [] class = "pushBoolean" -> Fields(<<>>)
    [] class = "pushDoubleFloat" -> Fields(<<4, 4>>)
    [] OTHER -> Fields(<<size>>)
VmClosureLayout(size) == Layout(<<size, 1, 4>>, 4, 3)
\* The count is one byte whatever the size.
VmReleaseLayout(size) == Layout(<<1>>, size, 1)
VmVariableLayout(class, size) ==
  CASE class = "setUpvalue" -> Fields(<<1, size>>)
    [] class = "setGlobal" -> Fields(<<size, size>>)
VmCallLayout(class, size) ==
  IF class = "ccall" THEN Fields(<<size>>) ELSE Fields(<<size, 1>>)
VmJumpLayout(class, size) ==
  IF class = "jump" THEN Fields(<<size>>) ELSE Fields(<<size, 1>>)
VmVectorLayout(size) == Layout(<<size>>, size, 1)
VmObjectLayout(class, size) ==
  CASE class \in {"nop", "nil", "makeType", "halt", "illegal"} -> Fields(<<>>)
    [] class = "return" -> IF size = 0 THEN Fields(<<>>) ELSE Fields(<<size>>)
    [] class \in {"not", "pop", "car", "cdr", "nullp", "typeof", "compositeValue", "compositeFunction",
                  "length", "symbolString", "symbolId", "makeString"} -> Fields(<<size>>)
    [] class \in {"setVecElt", "makeInstance", "substring"} -> Fields(<<size, size, size>>)
    [] OTHER -> Fields(<<size, size>>)

VmLayout(class, size) ==
  CASE class \in {"pushSymbol", "pushStrippedSymbol", "pushString", "pushBoolean", "pushInteger",
                  "pushDoubleFloat", "pushIndex", "pushUpvalue", "pushGlobal"} -> VmPushLayout(class, size)
    [] class \in ClosurePushes -> VmClosureLayout(size)
    [] class = "releaseUpvalues" -> VmReleaseLayout(size)
    [] class \in {"setUpvalue", "setGlobal"} -> VmVariableLayout(class, size)
    [] class \in {"funcall", "apply", "ccall"} -> VmCallLayout(class, size)
    [] class \in Branches -> VmJumpLayout(class, size)
    [] class = "vector" -> VmVectorLayout(size)
    [] OTHER -> VmObjectLayout(class, size)

OpcodeAt(code, ip) ==
  IF ByteAt(code, ip) \in 0 .. Len(Opcodes) - 1 THEN Opcodes[ByteAt(code, ip) + 1] ELSE <<"illegal", 0>>

VmParsed(code, ip) ==
  LET opcode == OpcodeAt(code, ip)
  IN Parse(code, ip + 1, VmLayout(opcode[1], opcode[2]))

\* The instruction at ip as the virtual machine sees it; displacements and integers are signed.
Fetch(code, ip) ==
  LET opcode == OpcodeAt(code, ip)
      parsed == VmParsed(code, ip)
      signed == opcode[1] \in Labelled \cup {"pushInteger"}
  IN [ class |-> opcode[1], size |-> opcode[2],
       fields |-> IF signed THEN [parsed.fields EXCEPT ![1] = SignExtended(@, opcode[2])] ELSE parsed.fields,
       items |-> parsed.items, next |-> parsed.next ]

\* The disassembler's templates: pushes and variables, calls and jumps, the rest.
TemplatePush(class, size) ==
  CASE class \in {"pushSymbol", "pushStrippedSymbol"} -> Layout(<<size, size>>, 1, 2)
    [] class = "pushString" -> Layout(<<size>>, 1, 1)
    [] class = "pushDoubleFloat" -> Fields(<<4, 4>>)
    [] class \in ClosurePushes -> Layout(<<size, 1, 4>>, 4, 3)
    [] class = "releaseUpvalues" -> Layout(<<size>>, size, 1)
    [] class = "setUpvalue" -> Fields(<<1, size>>)
    [] class = "setGlobal" -> Fields(<<size, size>>)
    [] class \in {"nop", "pushBoolean"} -> Fields(<<>>)
    [] OTHER -> Fields(<<size>>)
TemplateCallByteFirst(class, size) ==
  IF class \in {"ccall", "jump"} THEN Fields(<<size>>) ELSE Fields(<<1, size>>)
TemplateCall(class, size) ==
  CASE class \in {"call", "acall"} -> Fields(<<1, size>>)
    [] class \in {"funcall", "apply", "brz", "brnz"} -> Fields(<<size, 1>>)
    [] class \in {"ccall", "jump"} -> Fields(<<size>>)
TemplateObject(class, size) ==
  CASE class = "vector" -> Layout(<<size>>, 4, 1)
    [] class \in {"nil", "makeType", "halt", "illegal"} -> Fields(<<>>)
    [] class = "return" -> IF size = 0 THEN Fields(<<>>) ELSE Fields(<<size>>)
    [] class \in {"not", "pop", "car", "cdr", "nullp", "typeof", "compositeValue", "compositeFunction",
                  "length", "symbolString", "symbolId", "makeString"} -> Fields(<<size>>)
    [] class \in {"setVecElt", "makeInstance", "substring"} -> Fields(<<size, size, size>>)
    [] OTHER -> Fields(<<size, size>>)
Template(class, size) ==
  CASE class \in {"nop", "pushString", "pushSymbol", "pushStrippedSymbol", "pushBoolean", "pushInteger",
                  "pushDoubleFloat", "pushIndex", "pushUpvalue", "pushGlobal", "setUpvalue", "setGlobal",
                  "releaseUpvalues"} \cup ClosurePushes -> TemplatePush(class, size)
    [] class \in {"call", "acall", "apply", "funcall", "ccall", "jump", "brz", "brnz"} ->
         TemplateCall(class, size)
    [] OTHER -> TemplateObject(class, size)
Disassembled(code, ip) ==
  LET opcode == OpcodeAt(code, ip)
  IN Parse(code, ip + 1, Template(opcode[1], opcode[2]))
=============================================================================
