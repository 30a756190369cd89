------------------------------- MODULE VmHeap -------------------------------
(***************************************************************************)
(* The instructions of duckVM.c that build, read and change objects in the *)
(* heap.  Any allocation may collect, and the collector sees the VM stack  *)
(* but not the C locals of the instruction that is running: whatever has   *)
(* been built so far must be linked to the stack before the next           *)
(* allocation.  An action is one allocation and all that follows it up to  *)
(* the next one; an allocation (duckVM_gclist_pushObject) is one step, as  *)
(* in GcHeap, which MarkSweep implements.                                  *)
(*                                                                         *)
(* Here the types of HeapGraph are told apart.  On the stack are "list",   *)
(* "vector" and "composite", which hold one pointer, and the atoms; in the *)
(* heap also "cons", "array" (internalVector) and "instance"               *)
(* (internalComposite).  An instruction that fails a type or bounds check  *)
(* changes nothing and is left out.                                        *)
(***************************************************************************)
EXTENDS HeapGraph

CONSTANTS
    Atoms,         \* objects without pointers: integers, booleans, types...
    Instructions,  \* the instructions that programs use
    StackBound,    \* bound: objects on the stack when an instruction starts
    VectorBound,   \* bound: elements of a vector
    RestBound      \* bound: arguments of a rest list

HeapTypes == {"cons", "array", "instance"}

ASSUME VmHeapAssumption ==
    /\ Atoms \cap ({"none", "list", "vector", "composite"} \cup HeapTypes) = {}
    /\ StackBound \in Nat
    /\ VectorBound \in Nat
    /\ RestBound \in Nat

VARIABLES
    heap,      \* gclist.objects: [Cells -> Value]
    free,      \* the cells of gclist.freeObjects
    stack,     \* the VM stack
    upvalues,  \* upvalue_stack.elements_length
    op,        \* the running instruction and its C locals
    event      \* what was completed by the last step: history

vars == <<heap, free, stack, upvalues, op, event>>

\* `hidden' is the rest of a vector's table, from its length on.
Value(type, refs) ==
    [type |-> type, refs |-> refs, hidden |-> <<>>, offset |-> 0, initialized |-> TRUE]
List(p) == Value("list", <<p>>)
IsList(v) == v.type = "list"
Vector(p, offset) == [Value("vector", <<p>>) EXCEPT !.offset = offset]
Array(refs, initialized) ==
    [Value("array", refs) EXCEPT !.initialized = initialized]
Nulls(n) == [k \in 1 .. n |-> Null]

\* The object that car, get-vector-element and the like find behind a pointer.
Target(p) ==
    IF p = Null \/ heap[p].type = "cons" THEN List(p) ELSE heap[p]

Idle ==
    [name |-> "idle", args |-> <<>>, next |-> 1, length |-> 0,
     target |-> Null, last |-> Null]
NoEvent == [name |-> "none", args |-> <<>>, cell |-> Null]

StackCells == UNION {Children(stack[i]) : i \in DOMAIN stack}
Live == Reachable(Graph(heap), StackCells)

Init ==
    /\ heap = [c \in Cells |-> Value("none", <<>>)]
    /\ free = Cells
    /\ stack = <<>>
    /\ upvalues = 0
    /\ op = Idle
    /\ event = NoEvent

-----------------------------------------------------------------------------
(* Steps of an instruction. *)

\* duckVM_gclist_pushObject: the cell it returns, if it finds one.  It collects
\* when there is no free cell; the sweep lists the free cells in the order of the
\* heap and the last one is taken.
Available == IF free # {} THEN free ELSE Cells \ Live
NewCell ==
    LET available == Available
    IN  {c \in available : \A d \in available : d <= c}

Alloc(c, v) ==
    /\ free' = Available \ {c}
    /\ heap' = [heap EXCEPT ![c] = v]

\* The same, and the new cell is stored in the k-th pointer of cell t.
AllocInto(c, v, t, k) ==
    /\ free' = Available \ {c}
    /\ heap' = [heap EXCEPT ![c] = v, ![t].refs[k] = c]

\* The instruction stops with an error; nothing it did is undone.
OutOfMemory ==
    /\ Available = {}
    /\ op' = Idle
    /\ event' = NoEvent
    /\ UNCHANGED <<heap, free, stack, upvalues>>

\* stack_push: on both stacks.
PushBoth(v) ==
    /\ stack' = Append(stack, v)
    /\ upvalues' = upvalues + 1

\* DL_ARRAY_GETTOPADDRESS(stack) = v
SetTop(v) == stack' = [stack EXCEPT ![Len(stack)] = v]

StacksStay == UNCHANGED <<stack, upvalues>>

Step(next) == op' = [op EXCEPT !.next = next] /\ event' = NoEvent

Done(args, cell) ==
    /\ op' = Idle
    /\ event' = [name |-> op.name, args |-> args, cell |-> cell]

\* The objects of the stack that a program can address: not what an instruction
\* left unfinished when it ran out of memory.
Usable ==
    {v \in Range(stack) :
        \/ v.type \in Atoms
        \/ v.refs[1] = Null
        \/ LET object == heap[v.refs[1]]
           IN  \/ v.type = "list" /\ object.type = "cons"
               \/ v.type = "vector" /\ object.initialized
               \/ v.type = "composite" /\ Null \notin Range(object.refs)}

\* The instruction reads n objects of the stack, anywhere, into its locals.
Operands(n) == [1 .. n -> Usable]

Begin(name, args) ==
    /\ op = Idle
    /\ name \in Instructions
    /\ op' = [Idle EXCEPT !.name = name, !.args = args]
    /\ event' = NoEvent
    /\ UNCHANGED <<heap, free>>

BeginWith(name, n) ==
    /\ Len(stack) <= StackBound
    /\ \E args \in Operands(n) : Begin(name, args)
    /\ StacksStay

Running(name, next) == op.name = name /\ op.next = next

\* An instruction that is one step.
OneStep(name) ==
    /\ op = Idle
    /\ name \in Instructions
    /\ Len(stack) <= StackBound
    /\ op' = Idle
    /\ event' = NoEvent

-----------------------------------------------------------------------------
(* Instructions that only move objects on the stack. *)

Push ==
    /\ OneStep("push")
    /\ Len(stack) < StackBound
    /\ \E v \in {Value(a, <<>>) : a \in Atoms} \cup {List(Null)} : PushBoth(v)
    /\ UNCHANGED <<heap, free>>

PushIndex ==
    /\ OneStep("pushIndex")
    /\ Len(stack) < StackBound
    /\ \E v \in Usable : PushBoth(v)
    /\ UNCHANGED <<heap, free>>

\* stack_pop_multiple: the upvalue stack first, and nothing if it is too short.
Pop ==
    /\ op = Idle
    /\ upvalues > 0
    /\ upvalues' = upvalues - 1
    /\ stack' = SubSeq(stack, 1, Len(stack) - 1)
    /\ event' = NoEvent
    /\ UNCHANGED <<heap, free, op>>

\* duckVM_softReset: stack_pop_multiple of as many as there are on the stack.
SoftReset ==
    /\ op = Idle
    /\ IF upvalues >= Len(stack)
       THEN /\ stack' = <<>>
            /\ upvalues' = upvalues - Len(stack)
       ELSE StacksStay
    /\ event' = [NoEvent EXCEPT !.name = "softReset"]
    /\ UNCHANGED <<heap, free, op>>

-----------------------------------------------------------------------------
(* cons: a dummy pair is linked to the stack, then its car and its cdr. *)

BeginCons == BeginWith("cons", 2)

ConsCell ==
    /\ Running("cons", 1)
    /\ \/ OutOfMemory
       \/ \E c \in NewCell :
             /\ Alloc(c, Value("cons", <<Null, Null>>))
             /\ PushBoth(List(c))
             /\ op' = [op EXCEPT !.next = 2, !.target = c]
             /\ event' = NoEvent

\* The k-th pointer of the pair: a list's own pointer, or a copy of the object.
ConsPart(k) ==
    LET v == op.args[k]
    IN  \/ /\ IsList(v)
           /\ heap' = [heap EXCEPT ![op.target].refs[k] = v.refs[1]]
           /\ UNCHANGED free
        \/ /\ ~IsList(v)
           /\ \E c \in NewCell : AllocInto(c, v, op.target, k)

ConsCar ==
    /\ Running("cons", 2)
    /\ \/ ~IsList(op.args[1]) /\ OutOfMemory
       \/ ConsPart(1) /\ Step(3) /\ StacksStay

ConsCdr ==
    /\ Running("cons", 3)
    /\ \/ ~IsList(op.args[2]) /\ OutOfMemory
       \/ /\ ConsPart(2)
          /\ SetTop(List(op.target))
          /\ Done(op.args, op.target)
          /\ UNCHANGED upvalues

-----------------------------------------------------------------------------
(* vector and make-vector: an internal vector that the collector does not look *)
(* into until it is initialized.  Only then does the upvalue stack grow.       *)

BeginVector ==
    /\ Len(stack) <= StackBound
    /\ \E n \in 0 .. VectorBound :
           \E args \in Operands(n) : Begin("vector", args)
    /\ StacksStay

BeginMakeVector ==
    /\ op = Idle
    /\ "makeVector" \in Instructions
    /\ Len(stack) <= StackBound
    /\ \E v \in Usable, n \in 0 .. VectorBound :
           op' = [Idle EXCEPT !.name = "makeVector", !.args = <<v>>, !.length = n]
    /\ event' = NoEvent
    /\ UNCHANGED <<heap, free, stack, upvalues>>

\* Seeded bug: the vector is linked to the stack when it is initialized.
InternalVectorUnlinked(length) ==
    \/ OutOfMemory
    \/ \E c \in NewCell :
          /\ Alloc(c, Array(Nulls(length), FALSE))
          /\ stack' = Append(stack, Vector(Null, 0))
          /\ op' = [op EXCEPT !.next = 2, !.target = c]
          /\ event' = NoEvent
          /\ UNCHANGED upvalues

\* Seeded bug: the upvalue stack grows with the stack and again at the end.
InternalVectorOnBoth(length) ==
    \/ OutOfMemory
    \/ \E c \in NewCell :
          /\ Alloc(c, Array(Nulls(length), FALSE))
          /\ PushBoth(Vector(c, 0))
          /\ op' = [op EXCEPT !.next = 2, !.target = c]
          /\ event' = NoEvent

\* The internal vector is allocated and pushed on the stack, and not on the
\* upvalue stack.
InternalVector(length) ==
    \/ OutOfMemory
    \/ \E c \in NewCell :
          /\ Alloc(c, Array(Nulls(length), FALSE))
          /\ stack' = Append(stack, Vector(c, 0))
          /\ op' = [op EXCEPT !.next = 2, !.target = c]
          /\ event' = NoEvent
          /\ UNCHANGED upvalues

VectorCell == Running("vector", 1) /\ InternalVector(Len(op.args))

MakeVectorCell == Running("makeVector", 1) /\ InternalVector(op.length)

\* What follows the last element.
Initialize(elements, copies) ==
    /\ heap' = [c \in Cells |->
                   IF c = op.target THEN Array(elements, TRUE) ELSE copies[c]]
    /\ upvalues' = upvalues + 1
    /\ SetTop(Vector(op.target, 0))
    /\ Done(op.args, op.target)

\* A copy of one element.
VectorElement ==
    /\ op.name = "vector"
    /\ op.next - 1 \in DOMAIN op.args
    /\ LET k == op.next - 1
           elements(c) == [heap[op.target].refs EXCEPT ![k] = c]
       IN  \/ OutOfMemory
           \/ /\ k < Len(op.args)
              /\ \E c \in NewCell : AllocInto(c, op.args[k], op.target, k)
              /\ Step(op.next + 1)
              /\ StacksStay
           \/ /\ k = Len(op.args)
              /\ \E c \in NewCell :
                    /\ free' = Available \ {c}
                    /\ Initialize(elements(c), [heap EXCEPT ![c] = op.args[k]])

VectorEmpty ==
    /\ Running("vector", 2)
    /\ op.args = <<>>
    /\ Initialize(<<>>, heap)
    /\ UNCHANGED free

\* One copy of the fill object for all elements.
MakeVectorFill ==
    /\ Running("makeVector", 2)
    /\ \/ OutOfMemory
       \/ \E c \in NewCell :
             /\ free' = Available \ {c}
             /\ Initialize([k \in 1 .. op.length |-> c],
                           [heap EXCEPT ![c] = op.args[1]])

-----------------------------------------------------------------------------
(* make-instance: the internal composite is linked to the stack empty. *)

BeginMakeInstance == BeginWith("makeInstance", 2)

\* Seeded bug: the internal composite is linked to the stack when it is complete.
InstanceCellUnlinked ==
    /\ Running("makeInstance", 1)
    /\ \/ OutOfMemory
       \/ \E c \in NewCell :
             /\ Alloc(c, Value("instance", <<Null, Null>>))
             /\ PushBoth(Value("composite", <<Null>>))
             /\ op' = [op EXCEPT !.next = 2, !.target = c]
             /\ event' = NoEvent

InstanceCell ==
    /\ Running("makeInstance", 1)
    /\ \/ OutOfMemory
       \/ \E c \in NewCell :
             /\ Alloc(c, Value("instance", <<Null, Null>>))
             /\ PushBoth(Value("composite", <<c>>))
             /\ op' = [op EXCEPT !.next = 2, !.target = c]
             /\ event' = NoEvent

InstanceValue ==
    /\ Running("makeInstance", 2)
    /\ \/ OutOfMemory
       \/ \E c \in NewCell :
             AllocInto(c, op.args[1], op.target, 1) /\ Step(3) /\ StacksStay

InstanceFunction ==
    /\ Running("makeInstance", 3)
    /\ \/ OutOfMemory
       \/ \E c \in NewCell :
             /\ AllocInto(c, op.args[2], op.target, 2)
             /\ Done(op.args, op.target)
             /\ StacksStay

-----------------------------------------------------------------------------
(* prepareForFuncall: the rest list of a variadic closure.  Two objects are    *)
(* pushed: the list, and above it the object that is to be consed next.        *)

BeginRest ==
    /\ Len(stack) <= StackBound
    /\ \E n \in 0 .. RestBound :
          /\ n <= Len(stack)
          /\ \A i \in Len(stack) - n + 1 .. Len(stack) : stack[i] \in Usable
          /\ Begin("rest", SubSeq(stack, Len(stack) - n + 1, Len(stack)))
    /\ stack' = stack \o <<List(Null), List(Null)>>
    /\ upvalues' = upvalues + 2

\* The arguments are consed from the last to the first: how many are left.
RestLeft == Len(op.args) - (op.next - 1) \div 2

RestConses == op.name = "rest" /\ RestLeft > 0 /\ op.next % 2 = 0
RestCopies == op.name = "rest" /\ RestLeft > 0 /\ op.next % 2 = 1

\* Seeded bug: the copy of the argument is not shown to the collector.
RestObjectHidden ==
    /\ RestCopies
    /\ \/ OutOfMemory
       \/ \E c \in NewCell :
             /\ Alloc(c, op.args[RestLeft])
             /\ op' = [op EXCEPT !.next = @ + 1, !.target = c]
             /\ event' = NoEvent
             /\ StacksStay

RestObject ==
    /\ RestCopies
    /\ \/ OutOfMemory
       \/ \E c \in NewCell :
             /\ Alloc(c, op.args[RestLeft])
             /\ SetTop(List(c))
             /\ op' = [op EXCEPT !.next = @ + 1, !.target = c]
             /\ event' = NoEvent
             /\ UNCHANGED upvalues

RestCons ==
    /\ RestConses
    /\ \/ OutOfMemory
       \/ \E c \in NewCell :
             /\ Alloc(c, Value("cons", <<op.target, op.last>>))
             /\ stack' = [stack EXCEPT ![Len(stack) - 1] = List(c)]
             /\ op' = [op EXCEPT !.next = @ + 1, !.last = c]
             /\ event' = NoEvent
             /\ UNCHANGED upvalues

\* The object above the list goes, and the list takes the place of the arguments, or
\* stays where it is if there are none.  The upvalue stack may be too short to pop
\* the arguments: then only the first of them was overwritten.
RestReplace ==
    /\ op.name = "rest"
    /\ RestLeft = 0
    /\ LET below == Len(stack) - 2 - Len(op.args)
           left == upvalues - 1 - Len(op.args)
       IN  IF left >= 0
           THEN /\ stack' = Append(SubSeq(stack, 1, below), List(op.last))
                /\ upvalues' = left
                /\ Done(op.args, op.last)
           ELSE /\ stack' = [SubSeq(stack, 1, Len(stack) - 1) EXCEPT
                                ![below + 1] = List(op.last)]
                /\ upvalues' = upvalues - 1
                /\ op' = Idle
                /\ event' = NoEvent
    /\ UNCHANGED <<heap, free>>

-----------------------------------------------------------------------------
(* Instructions that read a part of an object on the stack. *)

Nils == {v \in Usable : v.refs = <<Null>>}
Lists == {v \in Usable \ Nils : IsList(v)}
Vectors == {v \in Usable \ Nils : v.type = "vector"}
Composites == {v \in Usable : v.type = "composite"}
Pointed(v) == heap[v.refs[1]]

\* stack_push of an object that was found.
ReadPart(v) == PushBoth(v) /\ UNCHANGED <<heap, free>>

\* The elements of vector v from its offset on.
Elements(v) == SubSeq(Pointed(v).refs, v.offset + 1, Len(Pointed(v).refs))

\* The empty list and the empty vector have themselves as their car and cdr.
Car ==
    /\ OneStep("car")
    /\ \/ \E v \in Nils : ReadPart(v)
       \/ \E v \in Lists : ReadPart(Target(Pointed(v).refs[1]))
       \/ \E v \in Vectors :
              ReadPart(IF Elements(v) = <<>> THEN Vector(Null, 0)
                       ELSE heap[Elements(v)[1]])

Cdr ==
    /\ OneStep("cdr")
    /\ \/ \E v \in Nils : ReadPart(v)
       \/ \E v \in Lists : ReadPart(Target(Pointed(v).refs[2]))
       \/ \E v \in Vectors :
              ReadPart(IF Len(Elements(v)) < 2 THEN Vector(Null, 0)
                       ELSE Vector(v.refs[1], v.offset + 1))

GetVecElt ==
    /\ OneStep("getVecElt")
    /\ \E v \in Vectors : \E p \in Range(Elements(v)) : ReadPart(heap[p])

CompositeValue ==
    OneStep("compositeValue") /\ \E v \in Composites : ReadPart(heap[Pointed(v).refs[1]])

CompositeFunction ==
    OneStep("compositeFunction") /\ \E v \in Composites : ReadPart(heap[Pointed(v).refs[2]])

-----------------------------------------------------------------------------
(* Instructions that overwrite a pointer of an object on the stack.  The object *)
(* is pushed once more; set-vector-element pushes the element.                  *)

\* A list's own pointer is stored in a pair.
StorePointer(v, k, pair) ==
    /\ IsList(v)
    /\ heap' = [heap EXCEPT ![pair.refs[1]].refs[k] = v.refs[1]]
    /\ PushBoth(pair)
    /\ UNCHANGED free

\* A copy of v is stored in the k-th pointer of the cell that t points to.
StoreCopy(v, k, t, pushed) ==
    \E c \in NewCell :
        /\ AllocInto(c, v, t.refs[1], k)
        /\ PushBoth(pushed)

SetPair(k) ==
    \E v \in Usable, t \in Lists :
        /\ StorePointer(v, k, t) \/ (~IsList(v) /\ StoreCopy(v, k, t, t))

\* On a vector set-car does not check the offset against the length; a vector
\* that never had an element has no table to write to.
SetCar ==
    /\ OneStep("setCar")
    /\ \/ SetPair(1)
       \/ \E v \in Usable, t \in Vectors :
             /\ LET hidden == t.offset + 1 - Len(Pointed(t).refs)
                IN  \/ hidden <= 0 /\ StoreCopy(v, t.offset + 1, t, t)
                    \/ /\ hidden \in DOMAIN Pointed(t).hidden
                       /\ \E c \in NewCell :
                             /\ free' = Available \ {c}
                             /\ heap' = [heap EXCEPT ![c] = v,
                                            ![t.refs[1]].hidden[hidden] = c]
                             /\ PushBoth(t)

SetCdr == OneStep("setCdr") /\ SetPair(2)

\* set-cdr of a vector, to the empty list or vector only, sets its length to the
\* offset, whatever the length was.
SetCdrOfVector ==
    /\ OneStep("setCdrOfVector")
    /\ \E t \in Vectors :
          /\ Nils # {}
          /\ LET table == Pointed(t).refs \o Pointed(t).hidden
             IN  heap' = [heap EXCEPT
                     ![t.refs[1]].refs = SubSeq(table, 1, t.offset),
                     ![t.refs[1]].hidden = SubSeq(table, t.offset + 1, Len(table))]
          /\ PushBoth(t)
          /\ UNCHANGED free

\* A negative index passes the check as long as it does not lead before the table.
SetVecElt ==
    /\ OneStep("setVecElt")
    /\ \E v \in Usable, t \in Vectors :
          \E k \in DOMAIN Pointed(t).refs : StoreCopy(v, k, t, v)

SetCompositeValue ==
    /\ OneStep("setCompositeValue")
    /\ \E v \in Usable, t \in Composites : StoreCopy(v, 1, t, t)

SetCompositeFunction ==
    /\ OneStep("setCompositeFunction")
    /\ \E v \in Usable, t \in Composites : StoreCopy(v, 2, t, t)

-----------------------------------------------------------------------------

Cons == BeginCons \/ ConsCell \/ ConsCar \/ ConsCdr
MakesVector ==
    \/ BeginVector \/ VectorCell \/ VectorElement \/ VectorEmpty
    \/ BeginMakeVector \/ MakeVectorCell \/ MakeVectorFill
MakeInstance == BeginMakeInstance \/ InstanceCell \/ InstanceValue \/ InstanceFunction
Rest == BeginRest \/ RestObject \/ RestCons \/ RestReplace
Reads == Car \/ Cdr \/ GetVecElt \/ CompositeValue \/ CompositeFunction
Writes ==
    \/ SetCar \/ SetCdr \/ SetCdrOfVector \/ SetVecElt
    \/ SetCompositeValue \/ SetCompositeFunction

Next ==
    \/ Push \/ PushIndex \/ Pop \/ SoftReset
    \/ Cons \/ MakesVector \/ MakeInstance \/ Rest \/ Reads \/ Writes

Spec == Init /\ [][Next]_vars

-----------------------------------------------------------------------------
(* Properties. *)

StackValues == Range(stack)
Stackable == Atoms \cup {"list", "vector", "composite"}

Values ==
    [type : Stackable \cup HeapTypes \cup {"none"}, refs : Seq(Pointers),
     hidden : Seq(Pointers), offset : Nat, initialized : BOOLEAN]

Names == {"idle", "cons", "vector", "makeVector", "makeInstance", "rest"}

\* Type correctness; the heap's own types never appear on the stack
\* (duckVM.h:76-221), and the upvalue stack is never longer than the stack.
TypeOK ==
    /\ heap \in [Cells -> Values]
    /\ stack \in Seq({v \in Values : v.type \in Stackable})
    /\ free \subseteq Cells
    /\ upvalues \in 0 .. Len(stack)
    /\ op \in [name : Names, args : Seq(Values), next : Nat \ {0}, length : Nat,
               target : Pointers, last : Pointers]
    /\ event \in [name : Names \cup {"none", "softReset"}, args : Seq(Values),
                  cell : Pointers]

\* What the instructions see of the collector is what GcHeap promises, and they
\* keep the rule GcHeap lays on its clients: they never follow, copy or store a
\* pointer that the collector lost sight of (docs/internals.md: "Never let an
\* object out of sight of the garbage collector.").
Abstract == INSTANCE GcHeap WITH graph <- Graph(heap), roots <- StackCells

ImplementsGcHeap == Abstract!HeapSpec

\* No object that can be reached from the stack, at the start, in the middle or at
\* the end of an instruction, is in the list of free cells (docs/api.md:46: the
\* objects in it are those that are not live).
FreeIsDead == free \cap Live = {}

Holds(pointers, args) ==
    /\ DOMAIN pointers = DOMAIN args
    /\ \A k \in DOMAIN args : Target(pointers[k]) = args[k]

\* The list at p holds the objects of args and ends there: spine[k] is its tail
\* after the first k pairs.
ListHolds(p, args) ==
    \E spine \in [0 .. Len(args) -> Pointers] :
        /\ spine[0] = p
        /\ spine[Len(args)] = Null
        /\ \A k \in DOMAIN args :
               /\ spine[k - 1] # Null
               /\ Target(heap[spine[k - 1]].refs[1]) = args[k]
               /\ spine[k] = heap[spine[k - 1]].refs[2]

\* A pair, vector, instance or rest list is complete when its instruction ends: it
\* is on top of the stack and holds the objects the instruction was given, in
\* their order, however often an allocation in between collected (the comments at
\* duckVM.c:669-674, 3170 and 3108 are about this).
InstructionBuilds ==
    CASE event.name \in {"cons", "makeInstance", "vector"} ->
            /\ Holds(heap[event.cell].refs, event.args)
            /\ heap[event.cell].initialized
            /\ stack[Len(stack)].refs = <<event.cell>>
      [] event.name = "makeVector" ->
            /\ \A p \in Range(heap[event.cell].refs) : Holds(<<p>>, event.args)
            /\ heap[event.cell].initialized
            /\ stack[Len(stack)].refs = <<event.cell>>
      [] event.name = "rest" ->
            /\ ListHolds(event.cell, event.args)
            /\ stack[Len(stack)] = List(event.cell)
      [] OTHER -> TRUE

\* After duckVM_softReset the stack is empty, and its upvalues with it.
SoftResetResets == event.name = "softReset" => stack = <<>> /\ upvalues = 0

-----------------------------------------------------------------------------
(* Why they hold: what every instruction may rely on, and what each one has    *)
(* built so far.                                                               *)

\* Two bugs of the code are left out.  vector allocates its elements into a table
\* that the collector does not look into, so they are lost when there are several;
\* and set-cdr of a vector shows again, through another offset, what it hid.
Sound ==
    \/ VectorBound <= 1
    \/ Instructions \cap {"vector", "setCdrOfVector"} = {}

\* The pointers lead to objects of those types.
Lead(objects, refs, types) ==
    \A p \in Range(refs) \ {Null} : objects[p].type \in types

\* The object has the pointers of its type, and what they lead to are objects that
\* the readers of this type expect.
WellFormed(objects, v) ==
    /\ v.type \in Stackable \cup HeapTypes
    /\ v.type # "array" => v.initialized
    /\ v.type \in Atoms => v.refs = <<>>
    /\ v.type \in {"list", "vector", "composite"} => Len(v.refs) = 1
    /\ v.type \in {"cons", "instance"} => Len(v.refs) = 2
    /\ v.type = "list" =>
           v = List(v.refs[1]) /\ Lead(objects, v.refs, Stackable \cup {"cons"})
    /\ v.type = "cons" => Lead(objects, v.refs, Stackable \cup {"cons"})
    /\ v.type = "vector" =>
           /\ Lead(objects, v.refs, {"array"})
           /\ v.offset = 0 \/ "setCdrOfVector" \notin Instructions
    /\ v.type = "composite" => v.refs[1] # Null /\ Lead(objects, v.refs, {"instance"})
    /\ v.type = "instance" => Lead(objects, v.refs, Stackable)
    /\ v.type = "array" => Len(v.refs) <= VectorBound
    /\ v.type = "array" /\ v.initialized =>
           Null \notin Range(v.refs) /\ Lead(objects, v.refs, Stackable)

\* What a program can reach is well-formed, and no such cell is free.
HeapInv ==
    /\ FreeIsDead
    /\ \A c \in Live : WellFormed(heap, heap[c])
    /\ \A v \in StackValues : WellFormed(heap, v)

\* The objects that the running instruction has pushed.
Pushed == IF op.name = "rest" THEN 2 ELSE IF op.next = 1 THEN 0 ELSE 1

\* The operands in the C locals are still on the stack, under what was pushed.
OperandsInv ==
    op.name # "idle" =>
        /\ Pushed <= Len(stack)
        /\ op.name = "rest" => Len(op.args) <= Len(stack) - 2
        /\ \A k \in DOMAIN op.args :
               /\ \E i \in 1 .. Len(stack) - Pushed : stack[i] = op.args[k]
               /\ IsList(op.args[k]) => Lead(heap, op.args[k].refs, {"cons"})

Top == stack[Len(stack)]

\* The pair is linked to the stack, and holds what was copied.
ConsInv ==
    op.name = "cons" =>
        /\ Len(op.args) = 2
        /\ op.next \in 1 .. 3
        /\ op.next > 1 => /\ op.target \in Cells
                          /\ heap[op.target].type = "cons"
                          /\ Top = List(op.target)
        /\ op.next = 3 => Target(heap[op.target].refs[1]) = op.args[1]

\* The internal vector is linked to the stack, and has no element yet; the upvalue
\* stack is yet to grow.
VectorInv ==
    op.name \in {"vector", "makeVector"} =>
        /\ op.name = "vector" => Len(op.args) <= 1 /\ Len(op.args) <= VectorBound
        /\ op.name = "makeVector" => Len(op.args) = 1 /\ op.length <= VectorBound
        /\ op.next \in 1 .. 2
        /\ op.next = 2 => /\ op.target \in Cells
                          /\ heap[op.target].type = "array"
                          /\ ~heap[op.target].initialized
                          /\ op.name = "vector" => heap[op.target].refs = Nulls(Len(op.args))
                          /\ Top = Vector(op.target, 0)
                          /\ upvalues < Len(stack)

\* The internal composite is linked to the stack, and holds what was copied.
InstanceInv ==
    op.name = "makeInstance" =>
        /\ Len(op.args) = 2
        /\ op.next \in 1 .. 3
        /\ op.next > 1 => /\ op.target \in Cells
                          /\ heap[op.target].type = "instance"
                          /\ Top = Value("composite", <<op.target>>)
        /\ op.next = 3 => Target(heap[op.target].refs[1]) = op.args[1]

\* The list so far is linked to the stack and holds the last arguments, and so is
\* the copy of the one before them.
RestInv ==
    op.name = "rest" =>
        LET consed == (op.next - 1) \div 2
            left == Len(op.args) - consed
            linked == Reachable(Graph(heap), {op.last} \ {Null})
        IN  /\ upvalues >= 2
            /\ left >= 0
            /\ op.next % 2 = 0 => left > 0
            /\ stack[Len(stack) - 1] = List(op.last)
            /\ IsList(Top)
            /\ op.next % 2 = 0 => /\ op.target \in Cells
                                  /\ Top = List(op.target)
                                  /\ heap[op.target] = op.args[left]
            /\ \E spine \in [0 .. consed -> linked \cup {Null}] :
                   /\ spine[0] = op.last
                   /\ spine[consed] = Null
                   /\ \A k \in 1 .. consed :
                          /\ spine[k - 1] # Null
                          /\ heap[spine[k - 1]].type = "cons"
                          /\ Target(heap[spine[k - 1]].refs[1]) = op.args[left + k]
                          /\ spine[k] = heap[spine[k - 1]].refs[2]

InstructionInv ==
    /\ TypeOK
    /\ HeapInv
    /\ OperandsInv
    /\ ConsInv
    /\ VectorInv
    /\ InstanceInv
    /\ RestInv
    /\ InstructionBuilds
=============================================================================
