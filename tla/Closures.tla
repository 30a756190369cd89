------------------------------ MODULE Closures ------------------------------
(***************************************************************************)
(* Closures in duckVM.c.  A variable lives in its slot of the stack until  *)
(* its scope ends.  A closure reaches it through an upvalue: an object in  *)
(* the heap that names the slot, that names the copy in the heap once the  *)
(* variable was released, or that names an upvalue of the function the     *)
(* closure was made in.  The upvalue stack, as long as the stack, holds    *)
(* the upvalue of each slot, so that closures that capture one variable    *)
(* share one upvalue and release-upvalues finds it.                        *)
(*                                                                         *)
(* Programs are what the compiler emits (generators.c): a function         *)
(* addresses its own part of the stack and its own upvalues, and releases  *)
(* the captured variables of a scope before it pops them.  Which names     *)
(* resolve to which captures is the compiler's part, and the rest list of  *)
(* a variadic closure is in VmHeap.                                        *)
(*                                                                         *)
(* Beside the machine runs what the program means, in variables: every     *)
(* declaration is a variable of its own, a closure captures variables and  *)
(* not values, and a variable has the value it was last assigned.  Only    *)
(* the history reads the history.                                          *)
(*                                                                         *)
(* Every allocation may collect: it overwrites a cell that the collector   *)
(* cannot reach, if there is one.  An instruction that runs out of memory  *)
(* ends the program.                                                       *)
(***************************************************************************)
EXTENDS HeapGraph, Integers, SequencesExt

CONSTANTS
    Atoms,              \* values that are not closures
    Nil,                \* the empty list
    Arities,            \* arities of closures
    CalleeIsTemporary,  \* bound: no argument assigns to the function's variable
    SelfCaptures,       \* bound: closures may capture the slot they are pushed on
    StackBound,         \* bound: objects on the stack
    CallBound,          \* bound: functions running
    CaptureBound        \* bound: variables a closure captures

VARIABLES
    heap,          \* gclist.objects
    stack,         \* the VM stack
    upvalueStack,  \* upvalue_stack: for each slot its upvalue, or Null
    calls,         \* upvalue_array_call_stack, and where each function's slots begin
    op,            \* push-closure in progress
    env,           \* history: the variable in each slot
    store,         \* history: the value of each variable
    captured       \* history: the variables each closure captured

machine == <<heap, stack, upvalueStack, calls, op>>
history == <<env, store, captured>>
vars == <<machine, history>>

Variables == 1 .. StackBound + ObjectsLength + 1

-----------------------------------------------------------------------------
(* Objects. *)

Closure(c, arity) == [closure |-> c, arity |-> arity]
IsClosure(v) == v \notin Atoms

ASSUME ClosuresAssumption ==
    /\ Nil \in Atoms
    /\ Arities \subseteq Nat
    /\ StackBound \in Nat
    /\ \A c \in Cells, arity \in Arities : IsClosure(Closure(c, arity))

Cell(type, refs) ==
    [type |-> type, refs |-> refs, initialized |-> TRUE, index |-> 0, value |-> Nil]

UpvalueArray(refs) == Cell("array", refs)
StackIndex(i) == [Cell("stack_index", <<>>) EXCEPT !.index = i]
HeapUpvalue(u) == Cell("heap_upvalue", <<u>>)
HeapObject(c) == Cell("heap_object", <<c>>)
Copy(v) ==
    [Cell("object", IF IsClosure(v) THEN <<v.closure>> ELSE <<>>) EXCEPT !.value = v]

IsUpvalue(object) == object.type \in {"stack_index", "heap_upvalue", "heap_object"}

\* What the collector starts from.  The upvalues of the running functions are not
\* among it: upvalue_array_call_stack is not scanned.
StackCells == {v.closure : v \in {w \in Range(stack) : IsClosure(w)}}
RootCells == StackCells \cup (Range(upvalueStack) \ {Null})
Live == Reachable(Graph(heap), RootCells)

\* duckVM_gclist_pushObject: a cell that is not in use.
NewCell ==
    LET dead == Cells \ Live
    IN  {c \in dead : \A d \in dead : d <= c}

Idle == [name |-> "idle", captures |-> <<>>, next |-> 1, array |-> Null, arity |-> 0]
OutOfMemory ==
    /\ NewCell = {}
    /\ op' = [op EXCEPT !.name = "outOfMemory"]
    /\ UNCHANGED <<heap, stack, upvalueStack, calls>>
    /\ UNCHANGED history

-----------------------------------------------------------------------------
(* What the program means: history. *)

\* Closures that can be used, which does not include the one being built.
LiveClosures == {c \in Live : heap[c].type = "array"} \ {op.array}

Fresh(closures) ==
    CHOOSE x \in Variables :
        x \notin Range(env) /\ \A c \in closures : x \notin Range(captured[c])

\* A new variable with the value v on top of the stack.
Declare(v) ==
    LET x == Fresh(LiveClosures)
    IN  /\ env' = Append(env, x)
        /\ store' = [store EXCEPT ![x] = v]

Assign(x, v) == store' = [store EXCEPT ![x] = v]

Init ==
    /\ heap = [c \in Cells |-> Cell("none", <<>>)]
    /\ stack = <<>>
    /\ upvalueStack = <<>>
    /\ calls = <<>>
    /\ op = Idle
    /\ env = <<>>
    /\ store = [x \in Variables |-> Nil]
    /\ captured = [c \in Cells |-> <<>>]

-----------------------------------------------------------------------------
(* The running function. *)

Base == IF calls = <<>> THEN 0 ELSE Last(calls).base
Slots == Base + 1 .. Len(stack)

\* Its upvalues.
Upvalues == IF calls = <<>> THEN <<>> ELSE heap[Last(calls).closure].refs
CapturedVariables == IF calls = <<>> THEN <<>> ELSE captured[Last(calls).closure]

\* The upvalue at the end of a chain of upvalues.
EndOfChain(u) ==
    LET end[c \in Cells] ==
            IF heap[c].type = "heap_upvalue" THEN end[heap[c].refs[1]] ELSE c
    IN  end[u]

\* duckVM_upvalueArray_getUpvalue
Deref(u) ==
    LET end == heap[EndOfChain(u)]
    IN  IF end.type = "stack_index" THEN stack[end.index] ELSE heap[end.refs[1]].value

Ready == op = Idle
HasRoom == Len(stack) < StackBound

\* stack_push
Push(v) ==
    /\ stack' = Append(stack, v)
    /\ upvalueStack' = Append(upvalueStack, Null)
    /\ UNCHANGED <<heap, calls, op, captured>>

\* The slots from i on hold no captured variable: the compiler released them.
Released(i) == \A j \in i .. Len(stack) : upvalueStack[j] = Null

PushAtom ==
    /\ Ready /\ HasRoom
    /\ \E v \in Atoms : Push(v) /\ Declare(v)

PushIndex ==
    /\ Ready /\ HasRoom
    /\ \E i \in Slots : Push(stack[i]) /\ Declare(store[env[i]])

PushUpvalue ==
    /\ Ready /\ HasRoom
    /\ \E k \in DOMAIN Upvalues :
          /\ Push(Deref(Upvalues[k]))
          /\ Declare(store[CapturedVariables[k]])

Move ==
    /\ Ready
    /\ \E i, j \in Slots :
          /\ i # j
          /\ stack' = [stack EXCEPT ![j] = stack[i]]
          /\ Assign(env[j], store[env[i]])
    /\ UNCHANGED <<heap, upvalueStack, calls, op, env, captured>>

\* Store v where the upvalue at the end of u's chain says.
SetThrough(u, v) ==
    LET end == heap[EndOfChain(u)]
    IN  \/ /\ end.type = "stack_index"
           /\ stack' = [stack EXCEPT ![end.index] = v]
           /\ UNCHANGED heap
        \/ /\ end.type = "heap_object"
           /\ heap' = [heap EXCEPT ![end.refs[1]] = Copy(v)]
           /\ UNCHANGED stack

SetUpvalue ==
    /\ Ready
    /\ \E k \in DOMAIN Upvalues, i \in Slots :
          /\ SetThrough(Upvalues[k], stack[i])
          /\ Assign(CapturedVariables[k], store[env[i]])
    /\ UNCHANGED <<upvalueStack, calls, op, env, captured>>

\* Mutant: the slot is cleared before it is copied.
ReleaseUpvalueCleared ==
    /\ Ready
    /\ \E i \in Slots :
          /\ upvalueStack[i] # Null
          /\ \/ OutOfMemory
             \/ \E c \in NewCell :
                   /\ heap' = [heap EXCEPT ![c] = Copy(Nil), ![upvalueStack[i]] = HeapObject(c)]
                   /\ stack' = [stack EXCEPT ![i] = Nil]
                   /\ upvalueStack' = [upvalueStack EXCEPT ![i] = Null]
                   /\ LET x == Fresh(LiveClosures)
                      IN  /\ env' = [env EXCEPT ![i] = x]
                          /\ Assign(x, Nil)
                   /\ UNCHANGED <<calls, op, captured>>

\* One slot of release-upvalues: the variable moves to the heap, and its upvalue
\* from the slot to the copy.
ReleaseUpvalue ==
    /\ Ready
    /\ \E i \in Slots :
          /\ upvalueStack[i] # Null
          /\ \/ OutOfMemory
             \/ \E c \in NewCell :
                   /\ heap' = [heap EXCEPT ![c] = Copy(stack[i]),
                                           ![upvalueStack[i]] = HeapObject(c)]
                   /\ stack' = [stack EXCEPT ![i] = Nil]
                   /\ upvalueStack' = [upvalueStack EXCEPT ![i] = Null]
                   /\ LET x == Fresh(LiveClosures)
                      IN  /\ env' = [env EXCEPT ![i] = x]
                          /\ Assign(x, Nil)
                   /\ UNCHANGED <<calls, op, captured>>

Pop ==
    /\ Ready
    /\ Slots # {}
    /\ Released(Len(stack))
    /\ stack' = Front(stack)
    /\ upvalueStack' = Front(upvalueStack)
    /\ env' = Front(env)
    /\ UNCHANGED <<heap, calls, op, store, captured>>

-----------------------------------------------------------------------------
(* push-closure.  A capture i > 0 is a slot, the one above the stack being the *)
(* slot the closure is about to be pushed on; -k is the k-th upvalue of the    *)
(* running function.                                                           *)

Captures ==
    Slots \cup {-k : k \in DOMAIN Upvalues}
          \cup IF SelfCaptures THEN {Len(stack) + 1} ELSE {}

\* The array is allocated, and the closure pushed on the stack at once but not on
\* the upvalue stack.
BeginPushClosure ==
    /\ Ready /\ HasRoom
    /\ \/ OutOfMemory
       \/ \E n \in 0 .. CaptureBound, arity \in Arities :
          \E captures \in [1 .. n -> Captures], c \in NewCell :
              /\ IsInjective(captures)
              /\ heap' = [heap EXCEPT ![c] = UpvalueArray([k \in 1 .. n |-> Null])]
              /\ stack' = Append(stack, Closure(c, arity))
              /\ op' = [name |-> "pushClosure", captures |-> captures, next |-> 1,
                        array |-> c, arity |-> arity]
              /\ UNCHANGED <<upvalueStack, calls>>
              /\ UNCHANGED history

Capturing == op.name = "pushClosure" /\ op.next \in DOMAIN op.captures
Source == op.captures[op.next]

\* The next upvalue of the closure is u.
Captured(cells, u) ==
    /\ heap' = [cells EXCEPT ![op.array].refs[op.next] = u]
    /\ op' = [op EXCEPT !.next = @ + 1]
    /\ UNCHANGED <<stack, calls>>
    /\ UNCHANGED history

NewUpvalue(c, upvalue) == Captured([heap EXCEPT ![c] = upvalue], c)

\* The slot above the upvalue stack, which grows now.
CaptureSelf ==
    /\ Capturing
    /\ Source = Len(upvalueStack) + 1
    /\ \/ OutOfMemory
       \/ \E c \in NewCell :
             /\ NewUpvalue(c, StackIndex(Source))
             /\ upvalueStack' = Append(upvalueStack, c)

CaptureUpvalue ==
    /\ Capturing
    /\ Source < 0
    /\ \/ OutOfMemory
       \/ \E c \in NewCell :
             /\ NewUpvalue(c, HeapUpvalue(Upvalues[-Source]))
             /\ UNCHANGED upvalueStack

\* Mutant: the upvalue is not kept for the next closure or the release.
CaptureSlotForgets ==
    /\ Capturing
    /\ Source \in DOMAIN upvalueStack
    /\ upvalueStack[Source] = Null
    /\ \/ OutOfMemory
       \/ \E c \in NewCell :
             /\ NewUpvalue(c, StackIndex(Source))
             /\ UNCHANGED upvalueStack

CaptureSlot ==
    /\ Capturing
    /\ Source \in DOMAIN upvalueStack
    /\ upvalueStack[Source] = Null
    /\ \/ OutOfMemory
       \/ \E c \in NewCell :
             /\ NewUpvalue(c, StackIndex(Source))
             /\ upvalueStack' = [upvalueStack EXCEPT ![Source] = c]

\* Another closure captured it before.
CaptureAgain ==
    /\ Capturing
    /\ Source \in DOMAIN upvalueStack
    /\ upvalueStack[Source] # Null
    /\ Captured(heap, upvalueStack[Source])
    /\ UNCHANGED upvalueStack

CapturedVariable(c, self) ==
    IF c < 0 THEN CapturedVariables[-c]
    ELSE IF c = Len(stack) THEN self ELSE env[c]

\* Mutant: the upvalue stack grows even though it did for the closure itself.
FinishPushClosureGrows ==
    /\ op.name = "pushClosure"
    /\ ~Capturing
    /\ upvalueStack' = Append(upvalueStack, Null)
    /\ stack' = [stack EXCEPT ![Len(stack)] = Closure(op.array, op.arity)]
    /\ op' = Idle
    /\ Declare(Closure(op.array, op.arity))
    /\ captured' = [captured EXCEPT ![op.array] =
           [k \in DOMAIN op.captures |-> CapturedVariable(op.captures[k], Last(env'))]]
    /\ UNCHANGED <<heap, calls>>

\* The upvalue stack grows unless it did for the closure itself.
FinishPushClosure ==
    /\ op.name = "pushClosure"
    /\ ~Capturing
    /\ upvalueStack' = IF Len(upvalueStack) < Len(stack)
                       THEN Append(upvalueStack, Null) ELSE upvalueStack
    /\ stack' = [stack EXCEPT ![Len(stack)] = Closure(op.array, op.arity)]
    /\ op' = Idle
    /\ Declare(Closure(op.array, op.arity))
    /\ captured' = [captured EXCEPT ![op.array] =
           [k \in DOMAIN op.captures |-> CapturedVariable(op.captures[k], Last(env'))]]
    /\ UNCHANGED <<heap, calls>>

-----------------------------------------------------------------------------

\* Mutant: the called function's part of the stack starts at the function itself.
FuncallOwnsCallee ==
    /\ Ready
    /\ Len(calls) < CallBound
    /\ \E i \in Slots :
          /\ IsClosure(stack[i])
          /\ i = Len(stack) - stack[i].arity
          /\ Released(i)
          /\ calls' = Append(calls, [closure |-> stack[i].closure, base |-> i - 1])
    /\ UNCHANGED <<heap, stack, upvalueStack, op>>
    /\ UNCHANGED history

\* The arguments are on top of the stack.  Under them is a temporary with the
\* function, or a copy of it that was made before the arguments: then the
\* function is taken from its variable.
Funcall ==
    /\ Ready
    /\ Len(calls) < CallBound
    /\ \E i \in Slots :
          /\ IsClosure(stack[i])
          /\ LET base == Len(stack) - stack[i].arity
             IN  /\ i <= base
                 /\ Base < base
                 /\ Released(base)
                 /\ i < base => stack[i].arity > 0 /\ ~CalleeIsTemporary
                 /\ calls' = Append(calls, [closure |-> stack[i].closure, base |-> base])
    /\ UNCHANGED <<heap, stack, upvalueStack, op>>
    /\ UNCHANGED history

\* The result is moved down to where the first argument was.
Return ==
    /\ Ready
    /\ calls # <<>>
    /\ Slots # {}
    /\ Released(Base + 1)
    /\ stack' = Append(SubSeq(stack, 1, Base), Last(stack))
    /\ upvalueStack' = Append(SubSeq(upvalueStack, 1, Base), Null)
    /\ calls' = Front(calls)
    /\ env' = Append(SubSeq(env, 1, Base), Last(env))
    /\ UNCHANGED <<heap, op, store, captured>>

PushClosure ==
    \/ BeginPushClosure \/ CaptureSelf \/ CaptureUpvalue \/ CaptureSlot
    \/ CaptureAgain \/ FinishPushClosure

Next ==
    \/ PushAtom \/ PushIndex \/ PushUpvalue \/ Move \/ SetUpvalue
    \/ ReleaseUpvalue \/ Pop \/ PushClosure \/ Funcall \/ Return

Spec == Init /\ [][Next]_vars

-----------------------------------------------------------------------------
(* Properties. *)

Values == Atoms \cup [closure : Cells, arity : Arities]
CellTypes == {"none", "array", "stack_index", "heap_upvalue", "heap_object", "object"}
Objects == [type : CellTypes, refs : Seq(Pointers), initialized : BOOLEAN,
            index : Nat, value : Values]

\* Type correctness.  The upvalue stack is as long as the stack, but for the slot of
\* a closure that is being pushed (duckVM.c:492-503, :1186).
TypeOK ==
    /\ heap \in [Cells -> Objects]
    /\ stack \in Seq(Values)
    /\ upvalueStack \in Seq(Pointers)
    /\ calls \in Seq([closure : Cells, base : Nat])
    /\ op \in [name : {"idle", "pushClosure", "outOfMemory"}, captures : Seq(Int),
               next : Nat \ {0}, array : Pointers, arity : Arities \cup {0}]
    /\ Len(stack) - Len(upvalueStack) \in 0 .. (IF op = Idle THEN 0 ELSE 1)

\* An upvalue that names a slot is the upvalue of that slot: no slot is popped or
\* handed to another variable while a closure still reaches it, and no two upvalues
\* name one slot (duckVM.c:1171: the upvalue stack is there "so that we know where
\* to release the object to").
UpvaluesNameTheirSlots ==
    \A c \in Live :
        heap[c].type = "stack_index" =>
            /\ heap[c].index \in DOMAIN upvalueStack
            /\ upvalueStack[heap[c].index] = c

\* The upvalues of a running function are not collected (docs/internals.md: "Never
\* let an object out of sight of the garbage collector.").
RunningFunctionsAreLive == \A i \in DOMAIN calls : calls[i].closure \in Live

\* Slots, upvalues and their chains give every variable the one value it was last
\* assigned, by whichever function or closure, before and after its scope ended.
VariablesHaveTheirValues ==
    /\ \A i \in DOMAIN env : stack[i] = store[env[i]]
    /\ \A c \in LiveClosures : \A k \in DOMAIN captured[c] :
          Deref(heap[c].refs[k]) = store[captured[c][k]]

-----------------------------------------------------------------------------
(* Why the first three hold. *)

\* The three kinds of upvalue are one: releasing a variable turns one into another.
Kind(object) == IF IsUpvalue(object) THEN "upvalue" ELSE object.type

Lead(objects, refs, kind) == \A p \in Range(refs) \ {Null} : Kind(objects[p]) = kind

\* The object has the pointers of its type, and they lead to objects of the kind that
\* the readers of this type expect.
WellFormed(objects, object) ==
    /\ object.initialized
    /\ object.type \in {"array", "heap_upvalue"} => Lead(objects, object.refs, "upvalue")
    /\ object.type = "heap_object" => Lead(objects, object.refs, "object")
    /\ object.type = "object" =>
           object = Copy(object.value) /\ Lead(objects, object.refs, "array")
    /\ object.type \in {"heap_upvalue", "heap_object"} =>
           Len(object.refs) = 1 /\ object.refs[1] # Null
    /\ object.type = "stack_index" => object.refs = <<>>

\* Where the chain of upvalues from u leads: following it ends.
ChainGraph(objects) ==
    [c \in Cells |-> IF objects[c].type = "heap_upvalue" THEN Children(objects[c]) ELSE {}]
Ends(objects, u) ==
    {e \in Reachable(ChainGraph(objects), {u}) : objects[e].type # "heap_upvalue"}

\* What a program can reach is well-formed, and every upvalue leads to a variable.
HeapInv ==
    /\ \A c \in Cells : heap[c].type = "heap_upvalue" =>
                        \E u \in Cells : heap[c] = HeapUpvalue(u)
    /\ \A c \in Live : WellFormed(heap, heap[c])
    /\ \A c \in Live : Kind(heap[c]) = "upvalue" => Ends(heap, c) # {}

\* A closure has an upvalue array, with all its upvalues once it can be called.
ClosuresInv ==
    /\ \A i \in DOMAIN stack :
          IsClosure(stack[i]) => heap[stack[i].closure].type = "array"
    /\ \A c \in LiveClosures : Null \notin Range(heap[c].refs)

\* The upvalue stack holds the upvalues of the slots.
SlotsInv ==
    \A i \in DOMAIN upvalueStack :
        upvalueStack[i] # Null => heap[upvalueStack[i]] = StackIndex(i)

\* Under the slots of each function is the function itself, where nothing that the
\* function can do reaches it: not as a slot, and not through an upvalue.
CallsInv ==
    /\ \A i \in DOMAIN calls :
          LET base == calls[i].base
          IN  /\ base \in DOMAIN upvalueStack
              /\ upvalueStack[base] = Null
              /\ IsClosure(stack[base])
              /\ stack[base].closure = calls[i].closure
    /\ \A i, j \in DOMAIN calls : i < j => calls[i].base < calls[j].base

\* The closure that is being pushed is on the stack, with its first upvalues.
PushInv ==
    /\ op.name = "idle" => op = Idle
    /\ op.name = "pushClosure" =>
          /\ op.array \in Cells
          /\ heap[op.array].type = "array"
          /\ Len(heap[op.array].refs) = Len(op.captures)
          /\ op.next \in 1 .. Len(op.captures) + 1
          /\ \A k \in 1 .. op.next - 1 : heap[op.array].refs[k] # Null
          /\ op.arity \in Arities
          /\ stack # <<>>
          /\ Last(stack) = Closure(op.array, op.arity)
          /\ \A k \in DOMAIN op.captures :
                 op.captures[k] \in Slots \/ -op.captures[k] \in DOMAIN Upvalues
          /\ calls # <<>> => Last(calls).base < Len(stack) /\ Last(calls).closure # op.array

ClosureInv ==
    /\ TypeOK
    /\ HeapInv
    /\ ClosuresInv
    /\ SlotsInv
    /\ UpvaluesNameTheirSlots
    /\ CallsInv
    /\ PushInv

-----------------------------------------------------------------------------
(* Why variables have their values. *)

\* Each slot holds the value of a variable of its own; the slot of a closure that is
\* being pushed has none yet.
EnvInv ==
    /\ Len(stack) <= StackBound
    /\ env \in Seq(Variables)
    /\ IsInjective(env)
    /\ store \in [Variables -> Values]
    /\ op.name = "idle" => Len(stack) = Len(env)
    /\ op.name = "pushClosure" => Len(stack) = Len(env) + 1
    /\ \A i \in DOMAIN env : i \in DOMAIN stack /\ stack[i] = store[env[i]]

\* A closure that can be used captured x, and reaches it through the upvalue e.
Holds(x, e) ==
    \E c \in LiveClosures : \E k \in DOMAIN captured[c] :
        x = captured[c][k] /\ e \in Ends(heap, heap[c].refs[k])

\* The upvalue e leads to where the variable x is: its slot, or its copy in the heap
\* when it has none any more.
Names(e, x) ==
    /\ heap[e].type = "stack_index" =>
           heap[e].index \in DOMAIN env /\ env[heap[e].index] = x
    /\ heap[e].type = "heap_object" =>
           x \notin Range(env) /\ heap[heap[e].refs[1]].value = store[x]

\* Every closure reaches the variables it captured.
CapturedInv ==
    /\ captured \in [Cells -> Seq(Variables)]
    /\ \A c \in LiveClosures : Len(captured[c]) = Len(heap[c].refs)
    /\ \A x \in Variables, e \in Cells : Holds(x, e) => Names(e, x)

\* Two closures reach a released variable through one upvalue, and two released
\* variables through two, with a copy each.
DistinctInv ==
    \A x, y \in Variables, e, f \in Cells :
        /\ Holds(x, e) /\ heap[e].type = "heap_object"
        /\ Holds(y, f) /\ heap[f].type = "heap_object"
        => /\ x = y <=> e = f
           /\ heap[e].refs[1] = heap[f].refs[1] => e = f

\* The closure being pushed has the upvalues that its captures ask for.
CapturesInv ==
    op.name = "pushClosure" =>
        \A k \in 1 .. op.next - 1 :
            heap[heap[op.array].refs[k]] = IF op.captures[k] < 0
                                           THEN HeapUpvalue(Upvalues[-op.captures[k]])
                                           ELSE StackIndex(op.captures[k])

MeaningInv ==
    /\ EnvInv
    /\ CapturedInv
    /\ DistinctInv
    /\ CapturesInv
=============================================================================
