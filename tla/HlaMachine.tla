----------------------------- MODULE HlaMachine -----------------------------
(***************************************************************************)
(* The virtual machine (src/duckVM.c) on the assembly that the emitters    *)
(* write: what each instruction does to the stack, to the upvalues that    *)
(* point into it, to the calls and to the global variables.  There are two *)
(* machines, one that the compiler runs macros and `comptime' forms on and *)
(* one for the program; each bytecode it was given is a chunk.             *)
(*                                                                         *)
(* An upvalue is shared by all the closures that capture a variable; the   *)
(* chains of objects that share it are in module Closures, and the width   *)
(* of operands and addresses is in Bytecode and Assembler.                 *)
(***************************************************************************)
EXTENDS Language, FiniteSetsExt, Functions

VARIABLES
  work,      \* what the C stack has left to do; a machine runs while its head is "run"
  machine,   \* the two machines
  verdict    \* how the program ended when it did not reach its end

Environments == {"comptime", "runtime"}

MachineInit ==
  [s \in Environments |->
     [stack   |-> <<>>,
      open    |-> <<>>,     \* for each slot, the upvalue that points to it, or 0
      cells   |-> <<>>,     \* the upvalues: the slot they point to, 0 for a value of their own
      frames  |-> <<>>,     \* the function that runs is the last
      globals |-> [n \in {} |-> Nil],
      chunks  |-> <<>>,
      calls   |-> <<>>]]    \* calls of C functions

Run(s) == [do |-> "run", on |-> s]

Running == work # <<>> /\ Head(work).do = "run"
On == Head(work).on
M == machine[On]
Frame == Last(M.frames)
Instruction == M.chunks[Frame.chunk][Frame.ip]
Runs(classes) == Running /\ Instruction.class \in classes

LabelAt(m, chunk, label) ==
  CHOOSE k \in DOMAIN m.chunks[chunk] :
    m.chunks[chunk][k].class = "label" /\ m.chunks[chunk][k].args = <<label>>

(* Slots count from 1 here and operands from the top of the stack. *)
Slot(m, operand) == Len(m.stack) - operand + 1
At(m, operand) == m.stack[Slot(m, operand)]

\* Mutant: the stack of upvalues does not grow with the stack.
PushValueOnly(m, v) == [m EXCEPT !.stack = Append(@, v)]

Push(m, v) == [m EXCEPT !.stack = Append(@, v), !.open = Append(@, 0)]
Drop(m, n) ==
  [m EXCEPT !.stack = SubSeq(@, 1, Len(@) - n), !.open = SubSeq(@, 1, Len(@) - n)]
Goto(m, ip) == [m EXCEPT !.frames[Len(m.frames)].ip = ip]
Jump(m, label) == Goto(m, LabelAt(m, Last(m.frames).chunk, label))

Load(m, s, chunk) == [m EXCEPT ![s].chunks = Append(@, chunk)]
Start(m, s) ==
  [m EXCEPT ![s].frames = <<[chunk |-> Len(m[s].chunks), ip |-> 1, upvalues |-> <<>>, base |-> 0]>>]

Become(m) == machine' = [machine EXCEPT ![On] = m]
Continue(m) == Become(Goto(m, Frame.ip + 1)) /\ UNCHANGED <<work, verdict>>

------------------------------------------------------------------------------
(* Whether the instruction can be executed; the machine stops with an error when *)
(* it cannot.                                                              *)

Called(n) ==
  LET f == At(M, Instruction.slots[1])
  IN /\ Is("closure", f)
     /\ IF f[5] THEN n >= f[4] ELSE n = f[4]

Reachable(upvalue) ==
  /\ upvalue + 1 \in DOMAIN Frame.upvalues
  /\ M.cells[Frame.upvalues[upvalue + 1]].at <= Len(M.stack)

Capturable(operand) ==
  IF operand < 0 THEN -operand \in DOMAIN Frame.upvalues ELSE Slot(M, operand) >= 1

Executable ==
  LET i == Instruction
  IN /\ i.class \notin {"pushClosure", "funcall", "apply"} =>
          \A k \in DOMAIN i.slots : Slot(M, i.slots[k]) \in DOMAIN M.stack
     /\ i.class \in {"funcall", "apply"} => Slot(M, i.slots[1]) \in DOMAIN M.stack
     /\ i.class = "pushClosure" => \A k \in DOMAIN i.slots : Capturable(i.slots[k])
     /\ i.class = "pushGlobal" => i.args[1] \in DOMAIN M.globals
     /\ i.class = "ccall" => CallbackArity[i.args[1]] <= Len(M.stack)
     /\ i.class \in {"pushUpvalue", "setUpvalue"} => Reachable(i.args[1])
     /\ i.class = "pop" => i.args[1] <= Len(M.stack)
     /\ i.class = "brnz" => Len(M.stack) >= 1 /\ i.args[2] <= Len(M.stack)
     /\ i.class = "return" => i.args[1] < Len(M.stack) /\ Len(M.frames) > 1
     /\ i.class = "funcall" => Called(i.args[1])
     /\ i.class = "apply" =>
          /\ Is("closure", At(M, i.slots[1])) /\ Last(M.stack)[1] \in {"nil", "cons"}
          /\ Called(Max({i.args[1], Min({At(M, i.slots[1])[4], i.args[1] + Len(ElementsOf(Last(M.stack)))})}))

Fault ==
  /\ Running /\ ~Executable
  /\ verdict' = IF On = "runtime" THEN "runtime error" ELSE "compile error"
  /\ work' = <<>>
  /\ UNCHANGED machine

Step(classes) == Runs(classes) /\ Executable

------------------------------------------------------------------------------
(* The instructions.                                                       *)

RunPush ==
  /\ Step({"nil", "pushBoolean", "pushInteger", "pushString", "pushSymbol"})
  /\ Continue(Push(M, IF Instruction.class = "nil" THEN Nil ELSE Instruction.args[1]))

RunPushIndex ==
  /\ Step({"pushIndex"})
  /\ Continue(Push(M, At(M, Instruction.slots[1])))

UpvalueValue(m, cell) == IF m.cells[cell].at = 0 THEN m.cells[cell].value ELSE m.stack[m.cells[cell].at]

RunPushUpvalue ==
  /\ Step({"pushUpvalue"})
  /\ Continue(Push(M, UpvalueValue(M, Frame.upvalues[Instruction.args[1] + 1])))

RunSetUpvalue ==
  /\ Step({"setUpvalue"})
  /\ LET cell == Frame.upvalues[Instruction.args[1] + 1]
         v == At(M, Instruction.slots[1])
     IN Continue(IF M.cells[cell].at = 0 THEN [M EXCEPT !.cells[cell].value = v]
                 ELSE [M EXCEPT !.stack[M.cells[cell].at] = v])

\* The closure is pushed first, so that it can capture its own slot.
RunPushClosure ==
  /\ Step({"pushClosure"})
  /\ LET captures == Instruction.slots
         Captured(k) == Slot(M, captures[k])
         open == Append(M.open, 0)
         new == {k \in DOMAIN captures : captures[k] >= 0 /\ open[Captured(k)] = 0}
         CellOf(k) == IF captures[k] < 0 THEN Frame.upvalues[-captures[k]]
                  ELSE IF k \in new THEN Len(M.cells) + Cardinality({j \in new : j <= k})
                  ELSE open[Captured(k)]
         ids == [k \in DOMAIN captures |-> CellOf(k)]
         closure == Closure(Instruction.args[1], Frame.chunk, Instruction.args[2], Instruction.args[3], ids)
     IN \E m \in {Push(M, closure)} :
          Continue([m EXCEPT
            !.cells = @ \o [j \in 1..Cardinality(new) |->
                              LET k == CHOOSE x \in new : ids[x] = Len(M.cells) + j
                              IN [at |-> Captured(k), value |-> Nil]],
            !.open = [p \in DOMAIN @ |->
                        IF \E k \in new : Captured(k) = p
                        THEN ids[CHOOSE k \in new : Captured(k) = p] ELSE @[p]]])

\* The variables that closures captured move out of the stack.
RunReleaseUpvalues ==
  /\ Step({"releaseUpvalues"})
  /\ LET slots == {Slot(M, Instruction.slots[k]) : k \in DOMAIN Instruction.slots}
         released == {p \in slots : M.open[p] # 0}
     IN Continue([M EXCEPT
          !.cells = [c \in DOMAIN @ |-> IF \E p \in released : M.open[p] = c
                                        THEN [at |-> 0, value |-> M.stack[M.cells[c].at]] ELSE @[c]],
          !.stack = [p \in DOMAIN @ |-> IF p \in released THEN Nil ELSE @[p]],
          !.open = [p \in DOMAIN @ |-> IF p \in released THEN 0 ELSE @[p]]])

RunPushGlobal ==
  /\ Step({"pushGlobal"})
  /\ Continue(Push(M, M.globals[Instruction.args[1]]))

RunSetGlobal ==
  /\ Step({"setGlobal"})
  /\ Continue([M EXCEPT !.globals = Function(@, Instruction.args[1], At(M, Instruction.slots[1]))])

RunOperator ==
  /\ Step(Range(OperatorClass) \cup {"vector"})
  /\ LET operands == [k \in DOMAIN Instruction.slots |-> At(M, Instruction.slots[k])]
     IN Continue(Push(M, IF Instruction.class = "vector" THEN <<"vector", operands>>
                         ELSE Operate(Instruction.class, operands)))

RunPop ==
  /\ Step({"pop"})
  /\ Continue(Drop(M, Instruction.args[1]))

RunMove ==
  /\ Step({"move"})
  /\ Continue([M EXCEPT !.stack[Slot(M, Instruction.slots[2])] = At(M, Instruction.slots[1])])

RunNothing ==
  /\ Step({"label", "nop"})
  /\ Continue(M)

RunJump ==
  /\ Step({"jump"})
  /\ Become(Jump(M, Instruction.args[1]))
  /\ UNCHANGED <<work, verdict>>

RunBrnz ==
  /\ Step({"brnz"})
  /\ LET m == Drop(M, Instruction.args[2])
     IN Become(IF Truthy(Last(M.stack)) THEN Jump(m, Instruction.args[1]) ELSE Goto(m, Frame.ip + 1))
  /\ UNCHANGED <<work, verdict>>

\* A function on the n values on top of the stack.  What a variadic function does
\* not name becomes the list of its last parameter.
Enter(m, f, n) ==
  LET extra == n - f[4]
      rest == ListOf(SubSeq(m.stack, Len(m.stack) - extra + 1, Len(m.stack)))
  IN IF f[5] THEN [Push(Drop(m, extra), rest) EXCEPT
                     !.frames = Append(@, [chunk |-> f[3], ip |-> LabelAt(m, f[3], f[2]), upvalues |-> f[6],
                                           base |-> Len(m.stack) - n])]
     ELSE [m EXCEPT !.frames = Append(@, [chunk |-> f[3], ip |-> LabelAt(m, f[3], f[2]), upvalues |-> f[6],
                                          base |-> Len(m.stack) - n])]

RunFuncall ==
  /\ Step({"funcall"})
  /\ \E m \in {Goto(M, Frame.ip + 1)} :
       Become(Enter(m, At(M, Instruction.slots[1]), Instruction.args[1]))
  /\ UNCHANGED <<work, verdict>>

\* The list on top of the stack is spread over the parameters that still lack an
\* argument; what is left of it goes to the last parameter of a variadic function.
RunApply ==
  /\ Step({"apply"})
  /\ LET f == At(M, Instruction.slots[1])
         n == Instruction.args[1]
         elements == ElementsOf(Last(M.stack))
         spread == IF f[5] THEN Len(elements) ELSE Min({Max({f[4] - n, 0}), Len(elements)})
     IN \E m \in {Goto(Drop(M, 1), Frame.ip + 1)} :
          Become(Enter([m EXCEPT !.stack = @ \o SubSeq(elements, 1, spread),
                                 !.open = @ \o [k \in 1..spread |-> 0]], f, n + spread))
  /\ UNCHANGED <<work, verdict>>

RunReturn ==
  /\ Step({"return"})
  /\ LET count == Instruction.args[1]
         m == IF count = 0 THEN M ELSE Push(Drop(M, count + 1), Last(M.stack))
     IN Become([m EXCEPT !.frames = Front(@)])
  /\ UNCHANGED <<work, verdict>>

\* A C function takes its arguments off the stack and leaves its result.
RunCcall ==
  /\ Step({"ccall"})
  /\ LET name == Instruction.args[1]
         n == CallbackArity[name]
         args == SubSeq(M.stack, Len(M.stack) - n + 1, Len(M.stack))
     IN \E m \in {[M EXCEPT !.calls = Append(@, <<name, args>>)]} :
          Continue(Push(Drop(m, n), <<"result", name, args>>))

RunHalt ==
  /\ Step({"halt"})
  /\ Become([M EXCEPT !.frames = <<>>])
  /\ work' = Tail(work)
  /\ UNCHANGED verdict

RunInstruction ==
  \/ RunPush \/ RunPushIndex \/ RunPushUpvalue \/ RunSetUpvalue \/ RunPushClosure \/ RunReleaseUpvalues
  \/ RunPushGlobal \/ RunSetGlobal \/ RunOperator \/ RunPop \/ RunMove \/ RunNothing \/ RunJump \/ RunBrnz
  \/ RunFuncall \/ RunApply \/ RunReturn \/ RunCcall \/ RunHalt \/ Fault
=============================================================================
