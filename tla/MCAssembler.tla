---------------------------- MODULE MCAssembler ----------------------------
(***************************************************************************)
(* Assemblies for Assembler: every instruction class with operands at the  *)
(* boundaries of the sizes, short mixes of pushes and pops, and the shapes *)
(* of jumps that the generators emit around bodies of critical length.     *)
(***************************************************************************)
EXTENDS Assembler

I(class, args) == Instruction(class, args)
Values == {1, 255, 256, 65536}
End == I("halt", <<>>)
Label(l) == I("label", <<l>>)
Jump(l) == I("jump", <<l>>)
Branch(l) == I("brnz", <<l, 1>>)
Closure(l) == I("pushClosure", <<l, 2, 1, 300>>)

WithOne == {"pushIndex", "pushUpvalue", "pushGlobal", "pushString", "not", "car", "cdr", "nullp",
            "typeof", "compositeValue", "compositeFunction", "length", "symbolString",
            "symbolId", "makeString", "ccall", "pop"}
WithTwo == {"setUpvalue", "setGlobal", "move", "mul", "div", "add", "sub", "equal", "greater", "less",
            "cons", "vector", "makeVector", "getVecElt", "setCar", "setCdr", "setCompositeValue",
            "setCompositeFunction", "concatenate"}
WithThree == {"setVecElt", "substring", "makeInstance"}
Ones == {i \in {I(class, <<v>>) : class \in WithOne, v \in Values} : i.class # "pushString" \/ i.args[1] < 65536}
Twos == {i \in {I(class, <<v, w>>) : class \in WithTwo, v \in Values, w \in Values} :
           i.class # "vector" \/ i.args[1] = 1}
Threes == {I(class, <<u, v, w>>) : class \in WithThree, u \in Values, v \in Values, w \in Values}
Others ==
  {I(class, <<>>) : class \in {"nop", "nil", "makeType"}}
  \cup {I("pushInteger", <<v>>) :
          v \in {-65536, -32768, -32767, -256, -128, -127, -1, 0, 127, 128, 255, 256, 32767, 32768}}
  \cup {I("pushBoolean", <<v>>) : v \in {0, 1}}
  \cup {I("pushDoubleFloat", <<h, l>>) : h \in {0, 7}, l \in {0, 65536}}
  \cup {I("pushSymbol", <<v, n>>) : v \in Values, n \in {1, 256}}
  \cup {I("pushStrippedSymbol", <<v, n>>) : v \in Values, n \in {1, 256}}
  \cup {I("releaseUpvalues", <<u, v>>) : u \in Values, v \in Values}
  \cup {I("releaseUpvalues", <<v>>) : v \in Values}
  \cup {I("vector", <<2, v, w>>) : v \in Values, w \in Values}
  \cup {I(class, <<v, n>>) : class \in {"funcall", "apply"}, v \in Values, n \in {0, 3}}
OperandPrograms ==
  {<<i, I("pushIndex", <<1>>), End>> : i \in Ones \cup Twos \cup Threes \cup Others}
  \cup {<<I("return", <<v>>)>> : v \in Values \cup {0}}

Small == {I("pushInteger", <<1>>), I("car", <<1>>), I("pop", <<1>>), I("pop", <<2>>), Label(1)}
PeepholePrograms ==
  {p \o <<End>> : p \in {q \in UNION {[1 .. n -> Small] : n \in 1 .. 5} :
                             Cardinality({k \in DOMAIN q : q[k] = Label(1)}) <= 1}}

\* A body of n bytes.
Body(n) == I("pushString", <<n - 2>>)
Lengths == 60 .. 67 \cup 120 .. 132
Loops ==
  {<<Jump(2), Label(1), Body(m), Label(2), Body(n), Branch(1), End>> : m, n \in Lengths}
Lambdas ==
  {<<Jump(2), Label(1), Body(m), I("return", <<1>>), Label(2), Body(n), Closure(1), End>> : m, n \in Lengths}
Conditionals ==
  {<<Branch(1), Body(m), Jump(2), Label(1), Body(n), Label(2), End>> : m, n \in Lengths}
NestedLoops ==
  {<<Label(1), Jump(3), Label(2), Body(m), Label(3), Body(n), Branch(2), Body(60), Jump(1), End>> :
     m, n \in {60, 61, 62, 63, 64}}
FarJumps == {<<Jump(1), Body(n), Label(1), I("nil", <<>>), Branch(1), End>> : n \in {32760, 32767, 32770}}

AllPrograms == OperandPrograms \cup PeepholePrograms \cup Loops \cup Lambdas \cup Conditionals \cup NestedLoops
  \cup FarJumps
=============================================================================
