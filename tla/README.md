# duck-lisp in TLA+

Duck-lisp is an embeddable Lisp in C: a compiler (reader, optional parenthesis
inference, generators, assembler) that turns source into bytecode, a stack VM
with a garbage-collected heap (`duckVM.c`) that runs it, and a small C library
(`DuckLib`) with an allocator of its own. This directory models it in TLA+,
checks the models with TLC and proves theorems about them with TLAPS.

## Inventory

| part | source | state | operations | what makes it correct |
| --- | --- | --- | --- | --- |
| Garbage collector | `duckVM.c:48-433` | the cells, in-use flags, free list | allocate, mark, sweep | only unreachable cells are reused, all of them are, buffers are freed once, a collection ends |
| VM instructions on objects | `duckVM.c:641-742, 3090-4112` | VM stack, heap objects | cons, vector, make-instance, rest lists, readers, setters | a collection between two allocations loses nothing; objects hold what they were built from |
| Calls, closures, upvalues | `duckVM.c:957-1540, 4570-4671, 5557` | call stack, upvalue stack, upvalue arrays, current bytecode | push-closure, release-upvalues, funcall, apply, return, duckVM_call | a captured variable is one variable, open or closed; the code a frame returns to stays alive |
| Arithmetic, comparison | `duckVM.c:1763-3090` | none | type dispatch | the result's type and value |
| C API | `duckVM.c:4677-6820` | VM stack | push, pop, containers, calls | the same as the instructions; partial failures leave the stacks in step |
| Nested execution | `duckVM.c:4600-4671, 5557-5640` | the C stack of `executeWithIp`s, bytecode objects | execute, call, callback, halt, reset | every return finds its caller; code that may still run is kept |
| Printers | `duckVM.c:6827-7816` | none | formatting | not modelled |
| Scopes and symbols | `duckLisp.c` | two compile states (run time, compile time), scopes, labels | push and pop scope, resolve free variables, gensym | a name is the variable of lexical scope, captured once |
| Generators, emitters | `generators.c`, `emitters.c` | the HLA being emitted | one per form | the number of locals the generator tracks is the depth of the VM stack |
| Assembler | `assembler.c` | HLA, jump table | peephole, bytecode, jump relaxation | peephole keeps stack indices; every displacement fits its size |
| Reader | `parser.c` | AST | parse | sequential |
| Parenthesis inferrer | `parenthesis-inferrer.c` | the tree, declarations in scopes, inference VM and its contexts | infer, declare, run scripts | the tree becomes the one the declarations describe; contexts and scopes stay balanced |
| Allocator | `DuckLib/memory.c` | block list inside the memory it manages | malloc, free, realloc, grow the block table | blocks tile the memory, allocated ones are disjoint, the table is one of them |
| Containers | `DuckLib/array.c, trie.c, sort.c, string.c` | arrays, tries | push, pop, insert, sort | a failed growth changes nothing; lookups find what was inserted |

The compiler hands bytecode to `duckVM_execute`; C callbacks called by the VM use
the C API on the same stack and may call back (`duckVM_call`), which runs a
second interpreter loop inside an instruction of the first. Compile-time code
(macros, `comptime`, inference) runs on a VM that the compiler owns. Every part
allocates through `DL_MALLOC`, either the C library's or DuckLib's allocator.

The program has one thread. What is hard about it is not concurrency but
(1) the collector, which may run inside any allocation and sees the stacks but
no C local (`docs/internals.md`: "All objects stay on the stack. Never let an
object out of sight of the garbage collector."); (2) allocation failure halfway
through an operation that changes several arrays; (3) long sequences of legal
instructions over shared, mutable objects; (4) iterative algorithms (jump
relaxation, free-variable resolution, inference in place) with side effects on
what they iterate over; (5) agreements between distant parts that nothing
states: the depth of the stack that the generators count and the one the machine
has, the widths that the assembler writes and the machine reads, the table of
blocks and the block the table is in. `PROJECT.json` lists each hazard at its line.

## Modules

| module | models | kind |
| --- | --- | --- |
| `HeapGraph` | cells, objects, the pointer graph, reachability | definitions |
| `GcHeap` | what the collector promises | abstract specification |
| `MarkSweep` | `pushObject`, `markObject`, `garbageCollect` loop by loop | detailed specification |
| `MarkSweepProofs` | theorems about `MarkSweep` | proofs |
| `SequenceLemmas` | sequences, induction and recursion over an interval | lemmas |
| `HeapGraphLemmas` | reachability when objects are made and changed | lemmas |
| `VmHeap` | instructions that build, read and change objects | detailed specification over the same abstract heap |
| `VmHeapProofs` | theorems about `VmHeap` | proofs |
| `Closures` | closures, upvalues, calls of closures | detailed specification, with the meaning of programs beside it |
| `ClosuresProofs` | theorems about `Closures` | proofs |
| `Execution` | bytecode objects, frames, callbacks and nested executions | detailed specification, with the history of calls beside it |
| `ExecutionProofs` | theorems about `Execution` | proofs |
| `DlMemory` | DuckLib's allocator and its clients | detailed specification |
| `DlMemoryProofs` | theorems about `DlMemory` | proofs |
| `Bytecode` | the layout of every instruction, as writer and readers have it | definitions |
| `Assembler` | `duckLisp_assemble`, then the machine and the disassembler walking its output | detailed specification |
| `AssemblerProofs` | theorems about `Assembler` | proofs |
| `Syntax` | syntax trees | definitions |
| `Language` | what a program means | evaluator, written from the documentation |
| `Generators` | which instruction class each built-in operator compiles to | definitions |
| `Scopes` | scopes, names, free variables | definitions |
| `Emitters` | the emitters | definitions |
| `HlaMachine` | the VM on the assembly that the emitters write | definitions over its variables |
| `Compiler` | the compile loop and the generators; composes the five above | detailed specification |
| `InferrerTypes` | types and their dictionary | definitions |
| `InferenceRules` | the grammar of inferred programs | reference, written from the documentation |
| `Inferrer` | inference in place, scripts, contexts | detailed specification |
| `MC...` | constants, programs and views for TLC | model checking |


**HeapGraph.** An object is a type class, its pointers in marking order, its
buffer and the internal vector's `initialized` flag. `Traced` is the `if` chain
of `markObject`; `Reachable(graph, R)` is the least set that contains R and is
closed under the graph, which makes it usable in proofs.

**GcHeap.** Three variables: the pointer graph, the roots, the free cells.
`Allocate`, `Mutate` and `Collect` say what a client may do between collections
and that a collection makes exactly the unreachable cells free, in one step. It
is the rule of `docs/internals.md` as a specification: both the collector
(`MarkSweep`) and its clients (`VmHeap`) are shown to implement it, from the two
sides.

**MarkSweep.** `StartCollection` clears the flags; `ScanStack` and `ScanPointer`
are one iteration of the root loops (stack objects are traced but are not cells;
upvalue stack, globals, call frames and current bytecode are plain pointers);
`MarkObject` is one iteration of `markObject`'s work list; `KeepCell` and
`FreeCell` are one iteration of the sweep; `FinishSweep` is the second look at
the free list in `pushObject`. `TakeCell` has the three ends of `pushObject`: no
buffer needed, buffer allocated, malloc failed with the cell lost. With
`DuckLibMalloc` the failed malloc leaves the caller's pointer in the cell, and
`dl_free` may refuse it, which stops the sweep (`FreeFails`).
`StackTraceFails` and `CellTraceFails` are the marker running out of memory;
they are switched by `DispatchCanFail`. The client actions are any program that
keeps the rule of `GcHeap`. Two differences from the code: the sweep reads
`objects` and the loop bound from a copy of the list taken before marking, which
is the same memory; and pointers of a user object's marker are plain `refs`.

**VmHeap.** One action per allocation, with everything up to the next one. `op`
holds the running instruction and the C locals that survive an allocation
(`target`, `last`); `event` is a history variable that records what an
instruction completed. `NewCell` is `pushObject` as one step: it collects when
there is no free cell, and takes the last cell of the free list, which the sweep
fills in index order. `OutOfMemory` leaves an instruction where it stands, as
the `break` on error does. `Usable` excludes what an aborted instruction left on
the stack: compiled programs address slots relative to their own. A vector's
table past its length is kept as `hidden`, because `set-cdr` moves the length in
both directions. Not in this module: strings, symbols, closures, globals (they
allocate once and link at once, or are planned with calls), operand decoding,
type errors (they change nothing).

**Closures.** `upvalueStack` is the VM's `upvalue_stack`; a cell of type
"stack_index", "heap_object" or "heap_upvalue" is an upvalue that is open, closed
or a link to an upvalue of the function the closure was made in. push-closure is
`BeginPushClosure` (array allocated, closure pushed), one action per capture and
`FinishPushClosure`, because each capture allocates; `ReleaseUpvalue` is one slot
of release-upvalues. Any order of instructions that keeps to what the generators
emit is a program: a function addresses its own slots and upvalues, and releases
captured slots before it pops them (`Released`). `Funcall` has the two ways
`duckLisp_generator_funcall` compiles a call: of a temporary below the arguments,
or of the variable itself with a copy below the arguments. Allocation is one
step, as in `VmHeap`; running out of memory ends the program here. Beside the
machine, `env`, `store` and `captured` keep what lexical scope says: which
variable is in each slot, its value, and which variables each closure captured.
Each instruction updates them from themselves only, so that
`VariablesHaveTheirValues` compares the machine with the meaning. Not in this
module: C callbacks, `duckVM_call` and bytecode objects (`Execution`), apply and
variadic calls (`HlaMachine`; their rest list is in `VmHeap`), globals.

**Execution.** The heap holds bytecode objects only, the values are closures (the
bytecode object they record and the cell their entry point lies in) or nothing.
`host` is the C stack, one record for each `executeWithIp`, with the bytecode it
was given *by value* (`code`) and its instruction pointer; `current` is
`currentBytecode`, one for the whole machine. Instructions are funcall, ccall,
return, halt, push-closure, moves and the global; a callback, or the application,
may `duckVM_call` a closure, execute another compiled unit, or fail. A return leaves
the called function on the stack below its result, where the caller's code moves the
result over it and pops; a halt leaves the stack alone. `Shim` is the
halting bytecode object that `duckVM_call` keeps on the C stack and puts into a
frame. `callers` is a history variable: where each call in progress must come
back to. Compiled code may do anything that balanced code does; the compiler's
half of that contract is checked by `Compiler`. `taken` names the liberties an
application took (`Liberties`): "collect", "abroad", "catch" and "noReset" are
things a host is free to do and the machine does not always survive. Each
property says under which of them it holds, and is silent about the others.

**DlMemory.** Memory is counted in units of 8 bytes, the alignment. `allocation`
is `dl_memoryAllocation_t`: the table of entries (a doubly linked list by
indices), the head of the list, the table's size and where it lies. The table is
in one of the blocks it describes, so every operation that may need an entry
(splitting a block, allocating) first has the `BeginGrowth`, `GrowInPlace`,
`GrowBefore`, `MoveTable` and `CutTable` actions of growth, in which the C locals
(`call`) hold indices of blocks over a table that moves. `memory` says what every
unit holds, so that a copy that goes wrong, or a client's write into a free block,
shows. `Clients` own at most one block each and fill it. `Fit` is the
strategy the memory was initialised with; the search ends at the first block that
fits whatever it is. "next" starts at the link of entry 0, which may be stale
(Finding 11); the run has "best", as all of the repository's programs do. When the
memory is full, what happens is in `outcome`; `Survived` says after which
failures programs go on (see Findings; in the run, after none). The statistics
`used` and `max_used` are left out, since nothing in the allocator depends on them,
and with them what is read only to compute them (see Findings).

**Bytecode, Assembler.** An instruction of the high-level assembly is its class
and its operands. `Bytecode` gives its layout three times: as `duckLisp_assemble`
writes it, as `duckVM_executeInstruction` reads it and as `duckLisp_disassemble`
expects it. `Assembler` runs the function's passes: `RemovePush` and `MergePops`
are the peephole pass over its window of instructions; `EncodeInstruction`,
`EncodeJump`, `PlaceLabel` and `LinkLabels` write bytecode without displacements;
`SizePass` is one round of the loop that chooses sizes while it shifts addresses;
`InsertDisplacement` inserts the displacement of one jump, in the order of the array
of links; the code inserts into a linked list, whose indices stay, and `OpcodeOf` says
where in the sequence of bytes the opcode is by then. After that
`RunStraight` and `RunJump` let the machine walk the code with both outcomes of a
branch. `Truncated` names the operands that the assembler cuts off and `Readable`
excludes bytecode in which a jump or a count does not fit (Finding 1 and the
list after it); everything else has to be read back as it was written.

**Syntax, Language, Generators, Scopes, Emitters, HlaMachine, Compiler.** The
compiler is recursive over two environments, run time and compile time. `work`
is its C stack, a record for every call to be made or finished, so that one action
is one stretch of a generator between two calls of `compile_expression`.
`subs` has each environment's scopes (`Scopes`), its count of locals and the
assemblies being written. `Scopes` has `pushScope`, `popScope`, the searches for
names of every kind and the recursive search for a free variable, which writes
upvalue slots into every function it passes. An emitter (`Emitters`) appends one
instruction and keeps the count. A macro or a `comptime` form is compiled for
compile time, ended with a halt and run on the machine of the compiler
(`HlaMachine`); its value becomes the syntax tree compiled in its place. When the
program is compiled the second machine runs it, a chunk of code per compilation.
Every instruction is stored with the depth the generators believed the stack to
have (`depth`, a history value), and the machine compares it with what it has.
Independently, `Language` evaluates the source tree as the documentation
describes it, with cells for variables and no stack at all, and
`CompiledMeansSource` compares the two. Numbers are small integers; the
operators that do not decide where a program goes leave a term (the operator
and its operands) in place of a value, in both.

**InferrerTypes, InferenceRules, Inferrer.** `frames` are the C functions in
progress (`inferArguments`, `inferArgument`, `inferIncrementally`, `runVm`, ...),
`exprs` the arrays of forms, so that functions that share an array in the code
share it here: an inferred expression is cut out of the array its caller is
walking. `contexts` is `inferrerContext`, the calls whose scripts are running, and
a script is the sequence of the calls it makes back into the inferrer (infer the
next argument, declare, push and pop a declaration scope); its code is
abstracted because that is the subject of `Compiler` and `Execution`.
`InferenceRules` reads the same forms by the grammar of
`docs/parenthesis-inference.md`: it builds trees and changes nothing. `departures` is
a history variable: what an inference did that the documentation does not have, by
name (see Findings), so that a property can say which inferences it is about.

### Agreement with the program

The models of the compiler and the inferrer are deterministic for a given
program, which makes them testable against the C code. For about 560 programs
(those of `MCCompiler` and variations) the instructions with operands that the
model emits, 26,360 of them, were compared with the disassembly of the real
compiler's output, and the verdicts with those of the real program: all are the
same, except the listings of programs that use `vector`, where the disassembler
itself is out of step. All 2701 programs of `MCInferrer` give the tree, or the
error, of the real inferrer, or make both go on for ever (three of them). The name of
a literal expression's head that is no identifier is not modelled. The counterexamples
about memory (`execution_call`, `vm_*`, `closures_callee`) were reproduced with an
address sanitizer.

## Runs

| run | constants | what it shows |
| --- | --- | --- |
| `gc_collect` | 3 cells, one stack slot, one root pointer, one-pointer objects and user objects | `TypeOK`, `FreeIsDead`, `OutOfMemoryMeansFull`, the refinement `ImplementsGcHeap` and `CollectionEnds` hold on every graph of three objects, chains and cycles included |
| `gc_buffers` | 2 cells, 2 buffers besides the caller's, pairs, vectors and strings, marking may fail | `BuffersOwnedOnce`: no double free, whatever stale contents free cells keep |
| `vm_lists` | 4 cells, 2 stack slots before an instruction, rest lists of 2 | `InstructionBuilds`, for lists |
| `vm_objects` | 4 cells, 2 stack slots, vectors of at most one element | type correctness, `InstructionBuilds` and the refinement `ImplementsGcHeap` (of which `FreeIsDead` is a part), for vectors, composites and pairs |
| `closures` | 5 cells, 4 slots, the empty list and closures as values, 2 running functions, 2 captures, arity 0 | `TypeOK`, `UpvaluesNameTheirSlots`, `RunningFunctionsAreLive`, `VariablesHaveTheirValues`, for functions taken from temporaries |
| `memory` | 20 units, entries of 2, 3 clients, requests of 1 and 3 units (955k states) | `BlocksTile`, `TableIsABlock`, `AllocatedIsHeld`, `ContentsKept`: blocks tile the memory, no two owners share one, the table is one of them and each owner finds what it wrote, however often the table grows, moves and pushes blocks about |
| `assembler` | 5000 assemblies | `PeepholeKeepsStacks`, `LinksAreExact`, `SizesSettle`, `VmFollowsAssembly`, `DisassemblerInStep`: the merged code does what the original did, every jump that fits ends where it should, the size loop ends, and the machine reads what was written |
| `assembler_fit` | an `if` with arms of 21 sizes each, 441 assemblies | violation of `DisplacementsFit` |
| `compiler` | 474 programs (78k states) | `DepthsAgree`, `CompiledMeansSource`, `NoUpvalueOutlivesItsVariable`, `CompileTimeInStep`, `ScopesInStep`, `ProgramsEnd` |
| `execution` | 3 cells, stack 3, 2 frames, 3 executions inside each other, one liberty (1.90M states) | `CodeIsKept`, `FramesAreTheCalls`, `MarksOnlyCells` |
| `execution_call` | the same, 2 executions, callbacks only call functions (`CallbacksOnlyCall`) | violation of `RunningCodeIsKept`: a callback calls a closure of an earlier unit with `duckVM_call`, and a collection in the closure's code frees the unit that called the callback |
| `inferrer` | 2701 programs (102k states) | `ScopesInStep`, `OnlyAddsParentheses`, `InfersWhatIsMeant`, `InferenceEnds` |

Further configurations are kept for the shortest counterexamples of findings that
concern the modules above: `gc_mark_oom`, `gc_user_data`, `vm_vector`,
`vm_truncate`, `vm_soft_reset`, `closures_callee`, `memory_next`, `compiler_static`,
`compiler_macro` and `inferrer_nested`. Each checks one property and ends in a
violation of it; the Findings say which.

*Bounds.* Three cells are the fewest with a chain whose middle is neither root
nor leaf, and with a cycle apart from the roots; the marker and the sweep treat
every cell alike, and the proofs cover any number. Two cells are enough for the
buffers: a double free is about one block in two cells. The instructions need
four cells: a rest list of two is two pairs and two copies, an instance is three
cells and a setter one more, so that every allocation of every instruction meets
an empty free list, with and without garbage to find. `StackBound` limits the
stack when an instruction starts; instructions go beyond it while they run. One
atom is enough because no instruction looks at which atom it has: a copy that
was lost shows as another type or as the wrong cell.

A chain of two upvalues needs a closure made inside a closure made inside a
function: five cells and three slots, with a fourth for the value that is
assigned through the chain. A following of chains that stops after one link is
found at these bounds, so the chains are there. The values are the empty list
and the closures themselves, which differ from each other: a variable that loses
a closure, or has the wrong one, shows. Two captures let a closure
capture itself before and after another slot, two running functions let a
function work above the slots of another one. `CalleeIsTemporary` is the bound
that keeps `closures` to calls in which no argument assigns to the variable that
is called; `closures_callee` lifts it, and there `SelfCaptures` is off so that
the program found is one that the compiler emits without the copy it makes of
closures that capture themselves. The view of `MCClosures` names cells and
variables by the way they are reached: which free cell an allocation takes and
which name a variable has makes no difference to anything a program can do.
Programs may end, so deadlock is not checked there.

`vm_lists` and `vm_objects` use a view that leaves out the contents of cells
neither the stack nor the running instruction leads to. With vectors of at most
one element no vector has an offset, so nothing reads such a cell before it is
overwritten, and states that differ only there behave alike. Elsewhere
deadlock is checked: a client or host can always go on.

*Bounds of the other runs.* In `memory` the table starts with the entries it is
initialised with and a table of entries of 2 units fills 20 units quickly: it
grows in place, into the free block before it, and by moving, all in the middle
of a malloc and of a realloc, and memory runs out. Three owners are the fewest
with a block between two others. Requests of 1 and 3 units make a shrinking and
a growing realloc, and a free block that is cut. Clients are symmetric and the
view drops the contents of units nobody owns. In `assembler`, one family of
assemblies has every instruction class with operands at the boundaries of the
sizes (1, 255, 256, 65536; integers also at the boundaries of signed sizes), one
all short mixes of pushes and pops that the peephole window can merge, and one
the jumps the generators make (branches, loops, nested loops, functions) around
bodies of 60 to 67 and 120 to 132 bytes, where two jumps decide each other's
size, and of 32 kB. The programs of `compiler` are every kind of form in every place a form
can stand in (14 by 15), two actions of a function on its caller's variable
composed with a third outside (125), and programs of closures at several depths,
control flow, data, macros, compile-time code, and forms the compiler or the
machine refuses. The run of `execution` has the unit, a function it calls and
one that a callback calls, which is why 3 cells are enough to free one of them and
reuse the cell; it was also checked with one frame more (2.97M states). One
liberty at a time tells apart which of them breaks what. In `inferrer`
programs are all sequences of up to three names with each kind of type, of up to
two with parenthesised and literal expressions among them, and programs with
declarations, scripts of each kind and scopes in between: with three forms a
function has an argument too few, enough or one too many, and an argument that is
a call itself. Thirteen programs more do what `InfersWhatIsMeant` and `InferenceEnds`
except by name. Deadlock is not checked
where the program ends (`memory`, after a failure it does not survive;
`assembler`; `compiler`).

*Fairness.* `MarkSweep` assumes weak fairness of the collector's steps only: once
`garbageCollect` is called, nothing else runs until its loops end. No fairness of
the client is assumed. `Compiler` and `Inferrer` assume `WF_vars(Next)`: each is
one call of a sequential C function, which makes its next step. Programs that
loop by themselves (`Endless`) are excluded from `ProgramsEnd` by name, and so is the
loop of the inferrer that takes nothing (`TakesNothing`) from `InferenceEnds`. No
fairness is needed by any other property.

## Proofs

The theorems hold for every value of the constants that satisfies the named
`ASSUME`s of the modules (the number of cells is positive, `Null` is no cell, bounds
are naturals, the memory is larger than its first table, assemblies are what the
emitters write) and the hypotheses in this
table. Each hypothesis leaves out a behaviour of the code that breaks the property: the
last column has the configuration, run or finding that shows it.

| theorem | states | under | needed because of |
| --- | --- | --- | --- |
| `MarkSweepProofs!TypeCorrect` | `TypeOK` | | |
| `FreeIsAlwaysDead`, `OutOfMemoryIsReal` | `FreeIsDead`, `OutOfMemoryMeansFull` | `~DispatchCanFail` | `gc_mark_oom` |
| `CollectorImplementsHeap` | `ImplementsGcHeap` | and `~DuckLibMalloc` | a failed `dl_free` stops the sweep halfway |
| `BuffersAreOwned` | `BuffersOwnedOnce` | `~DuckLibMalloc`, no user objects | `gc_user_data` |
| `VmHeapProofs!TypeCorrect`, `LiveObjectsAreKept`, `InstructionsBuild`, `InstructionsImplementHeap` | `TypeOK`, `FreeIsDead`, `InstructionBuilds`, `ImplementsGcHeap` | `Sound` | `vm_vector`, `vm_truncate` |
| `ClosuresProofs!TypeCorrect`, `SlotsOutliveTheirUpvalues`, `RunningFunctionsStay`, `VariablesKeepTheirValues` | `TypeOK`, `UpvaluesNameTheirSlots`, `RunningFunctionsAreLive`, `VariablesHaveTheirValues` | `CalleeIsTemporary` | `closures_callee` |
| `ExecutionProofs!TypeCorrect`, `CodeStaysAllocated`, `ReturnsComeBack`, `RootsAreCells` | `TypeOK`, `CodeIsKept`, `FramesAreTheCalls`, `MarksOnlyCells` | | the properties name the liberties they exclude; `execution_call` |
| `DlMemoryProofs!TypeCorrect`, `BlocksTileMemory`, `TableStaysABlock`, `AllocatedStaysHeld`, `ContentsStayKept` | `TypeOK`, `BlocksTile`, `TableIsABlock`, `AllocatedIsHeld`, `ContentsKept` | `Survived = {}`, `Fit # "next"` | first allocator finding; `memory_next` |
| `AssemblerProofs!TypesAreKept`, `StacksAreKept`, `AddressesAreExact` | `TypeOK`, `PeepholeKeepsStacks`, `LinksAreExact` | | |

Hardly any of the properties is inductive. Each component's module ends with the
inductive invariant of its properties, and the component's proof module has a lemma for
each action. Each of these invariants was checked by TLC on the run's instance before
it was proved.

**The collector.** `FreeIsDead` speaks about the free list, which a sweep rebuilds
from flags, which marking sets from a work list. In `CollectorInv`, `MarkInv` is the
tri-color invariant: marked and waiting cells are live; what a marked cell points to
is marked or waits; what a root that was scanned points to is marked or waits. When
the last root is scanned and the work list is empty the marked set is closed over
the roots, so it contains the least such set: it is exactly `Live` (`SweepInv`).
During the sweep the free list is the unmarked cells below the index; at its end it
is `Cells \ Live`. `IsInjective(freeObjects)` is needed because taking a cell must
take its only occurrence. `PendingInv` carries the liveness of the pointers of an
object that waits for the collection. From the same invariant the refinement of
`GcHeap` follows: the last step of the sweep is `Collect`, everything before it a
stutter, and taking a cell is `Allocate`. `BuffersInv` is separate, because buffers
are owned once even if marking failed: it speaks about stale cells as well, and has
to know which request can leave a buffer in its cell when malloc fails.

**Instructions.** `InstructionInv` says what the C locals of a running instruction
stand for between two allocations: that the operands are still on the stack under
what was pushed (`OperandsInv`), and, for each instruction, what it has built and
that the stack leads to it (`ConsInv`, `VectorInv`, `InstanceInv`, `RestInv`). A
collection leaves what is live as it was (`HeapGraphLemmas`), so each allocation
finds its operands. `RestInv` carries the list under construction as a function from
the number of pairs to cells, since a path in the heap has no other finite name.
`WellFormed` for live objects is needed because instructions trust the type of what
their operands point to.

**Closures.** Four invariants depend on each other. That every captured open upvalue
names a slot that names it back (`UpvaluesNameTheirSlots`) needs that chains of
links end (`HeapInv`), which needs that closures have no empty upvalue after they
were finished (`ClosuresInv`). That a running function's upvalues are never
collected although the collector does not scan them needs the function under its own
slots (`CallsInv`), in a slot that no upvalue names, since it would otherwise be
assignable. `PushInv` is for closures that are being filled, with a collection at
each capture.

`VariablesHaveTheirValues` speaks about closures that are on the stack; what keeps it
true is `MeaningInv`, which speaks about every closure that can be reached, with the
machine's invariant under it. `EnvInv` gives every slot a variable of its own, whose
value it holds. A variable that a closure captured is reached through the end of a chain
of upvalues (`Holds`), and that end is where the variable is (`Names`): the open upvalue
of its slot, or, once release-upvalues moved it, an upvalue with the copy of its last
value. `DistinctInv` says that a released variable has one such upvalue and one copy,
and shares neither with another variable, so that set-upvalue through any
chain is seen by every closure that captured the variable and by no other. It is kept by
release-upvalues because the slot names *the* upvalue through which closures hold it, by
`UpvaluesNameTheirSlots`, and by push-closure because a capture takes over the upvalue
that the slot names already. `CapturesInv` keeps the upvalues of a half-filled closure.
Declarations take a variable that no slot has and no closure holds; that the bounded set
`Variables` always has one left is proved by counting: the slots are at most
`StackBound`, and a released variable that is still held has an upvalue of its own among
`Cells`.

**Nested executions.** `NestingInv` relates the C stack to the calls: each execution
but the last waits in a callback, its calls begin at its depth. `FramesInv` then
locates the frames of the calls in progress at the top of `calls`, frames left by
errors being below. `SingleInv` says why running code is a root while one execution
runs: each frame names the code of the function that the stack holds at the call's
base. `RootsInv` has the same for roots: everything that is marked is in the heap.

**The allocator.** The list of blocks is described by its links, with the addresses
along them (`ListInv`). `DisjointInv`, that blocks do not overlap, does not follow
from the links without an induction along the list, and is needed by itself: a
split keeps addresses distinct only if no other block begins inside the block.
`TableInv` says what a growth has done so far. Its hard part is that the table
must have a spare entry whenever a block is to be split, at each of the stages of a
growth: the cut of the new table's block and the operation that asked for the growth
need one each, hence `TwoUnlinked`. `CallInv` says what the indices in the C locals
mean while the table moves under them. `OwnersInv` is a one-to-one correspondence of
clients with blocks, from which the count in `AllocatedIsHeld` is derived, with the
block of the running realloc left out of both sides. `ContentsInv` is needed because
the units that the table had before it moved are given up at the end of the growth,
two actions after they were left (`before`): nobody may have got them in between.

**The assembler.** The constant is the set of assemblies. `ProgramsAssumption` says what
the emitters and the compile loop guarantee of one: operands are numbers and there are
as many as the instruction has, no pop takes nothing (`emitters.c:630`), and every
jump has its label somewhere. `PeepholeInv` says that the assembly as edited so far
shows the same at every instruction that is not a plain push or pop as the one that
the compiler wrote. What an assembly shows is the end of a run (`Run`, one step for
each instruction). An edit replaces two neighbours by one that does nothing and one
that does what both did, so the runs differ in one place only (`EditKeepsSeen`), and
that a push before a pop of n is a pop of n - 1, and two pops one, are facts about
cutting a stack (`CutAppend`, `CutTwice`).

`LinksAreExact` has two halves. `LabelsInv` gives each jump a source of its own: a
source is the end of the code when the jump is encoded, and code only grows, for which
the encoding of every class has to be a sequence (`EncodeFacts`). So the ends of the
links have a strict order by address, in which every source comes before whatever
lies behind it (`EndsAreOrdered`), although several targets may share an address.
`LinksInv` says that between two passes every address is the one in the code without
displacements plus the sizes chosen so far of the jumps before it. A pass changes sizes
and addresses end by end and is inconsistent in between; `After` says in which way:
the ends before the current one are exact for the new sizes, those behind it still
have their old addresses, and the running offset is by how much all sizes grew so
far, which at the next end is by how much the jumps before it grew. The sizes need not fit
for this, which is why it holds while `DisplacementsFit` does not.

`OpcodesInv` is what keeps insertion from spoiling the code, and what `TypeOK` needs:
every jump without a displacement has an opcode in the code that waits for one
(`Awaiting`), at the address without displacements plus what the insertions before it
put in front (`OpcodeOf`). When the a-th displacement is inserted, an opcode behind it
moves by the displacement's size and one before it stays (`PositionMoves`), and
which of the two it is follows from the order of the sources, which the insertions
keep (`PositionsInOrder`); no two links have the same source, so no displacement takes
another's opcode (`InsertionKeeps`). Adding 1 or 2 to the opcode stays within a
byte because there are at most 236 opcodes and the sizes of a class are consecutive
(`OpcodeFacts`, from the table in `Bytecode`), and that all else is bytes is in the
encodings of the classes (`IsEncoded`). `PhasesInv` holds the rest of the types part by
part; a jump of the running machine stays within the assembly because the peephole pass
replaces no label (`MarkedEdit`).

Some of it needed induction over the length of the list, and the library's theorems
for that are out of the prover's reach. `IntervalInduction` gives induction over an
interval for a *set* instead of a predicate, and is proved from the theorem that no
finite set is mapped one to one into a smaller one. From it, `IntervalRecursion`
gives the existence of the functions that a recursive definition over an interval
chooses (runs, sums, the states of a pass, flattening), and `IntervalAgreement` that there
is only one. That the function which follows a
chain of upvalues is defined (`EndOfChainFacts`) needs no induction: a function with
its defining equation is constructed from where chains end, and every function with
the equation agrees with it, because `Reachable` is the *least* closed set.

**What the proofs changed in the models.** Obligations that could not be proved, and
the definitions they led back to, showed that an array without elements gets no buffer
at all (`TakeCell` of `MarkSweep`); that a rest list cannot replace its arguments when
the upvalue stack is too short, which happens after an allocation failed
(`RestReplace` of `VmHeap`); that `Closures` and `VmHeap` relied on names of types and
constants being different without saying so; that "next" was not what the model's
comment said (Finding 11). Some definitions were only rewritten, with the same meaning:
the pairs of a list in `ListHolds`, the first blocks and merges of `DlMemory`, and the
order of the ends and the folds of `Assembler`.

**Only model-checked.** Of `Assembler`: `SizesSettle`, which is not a theorem about
all assemblies (the loop is cut off after ten passes, and a chain of jumps of which each
pass makes one longer can take more); `VmFollowsAssembly` and `DisassemblerInStep`,
which take the layout of the whole bytecode, byte by byte, through every insertion. All
properties of `Compiler` and `Inferrer`: the modules they extend (`Language`, `Scopes`,
`InferrerTypes`, `InferenceRules`) follow recursive functions and recursive data with
RECURSIVE operators, which are out of the prover's reach. The liveness properties
`CollectionEnds`, `ProgramsEnd` and `InferenceEnds` are out of its reach as well
(fairness and `ENABLED`).

## Findings

Two runs end in a violation; `PROJECT.json` quotes the sentence each refutes. The
further configurations of the Runs section show some of the others. The rest was
met while modelling and is stated here with its lines; where a model would have
to leave a component's contract to show it, the model keeps the contract and says
so.

Shown by a run or a configuration:

1. `assembler_fit` (`assembler.c:2640-2790`): the loop that chooses sizes stops
   when the sizes changed by 0 in sum, with one jump that grew and one that
   shrank; a displacement of 128 or more is then written in one byte. It takes an
   `if` with arms of critical length.
2. `execution_call` (`duckVM.c:4632-4671`): during a nested execution
   `currentBytecode` is the nested code, and after it null; the code that called the
   callback is no root in either case. In the run the collection comes during a
   `duckVM_call`; on the real program one after it, too, is a use after free.
3. `gc_mark_oom` (`duckVM.c:209`): the marker's out-of-memory error is
   overwritten, the sweep runs on incomplete marks.
4. `gc_user_data` (`duckVM.c:303`; `docs/api.md:790`): copies of user objects
   share their data, and each dead copy is destroyed.
5. `vm_vector` (`duckVM.c:3200`): `vector` allocates its elements into a table the
   collector does not look into yet.
6. `vm_truncate` (`duckVM.c:3800`): `set-cdr` of a vector sets the length to the
   offset, also upwards, and re-exposes recycled elements.
7. `vm_soft_reset` (`duckVM.c:3281`; `duckVM.h:247`): running out of memory in
   `make-vector` or `vector` leaves the two stacks out of step, and the soft
   reset fails.
8. `closures_callee` (`duckVM.c:252`): the upvalues of a running function are not
   among the collector's roots; an argument can take the function out of its
   variable's copy, and the function itself out of the variable. The generator
   reads the variable after the arguments ran (`generators.c:3268, 3304`).
9. `compiler_static` (`emitters.c:771`): the emitter that assigns a global leaves
   the instruction out when the global's symbol number equals the slot of the
   value, which are numbers of different things. The global is then never set
   and reading it stops the program (`docs/language-reference.md:25`: "Define a
   global variable with name `name` and initialize it to `value`").
10. `compiler_macro` (`generators.c:3702, 982-984`): when the whole expansion of a
    macro is a variable, nothing is emitted for it and the form's value is the top
    of the stack: after `(var x 1) (defmacro m () 'x) (var y 2)`, `(m)` is 2.
    (`docs/language.md:91`: macros are called "triggering a macro expansion".)
11. `memory_next` (`DuckLib/memory.c:378`): with `dl_memoryFit_next` the search
    starts at the link of the entry `mostRecentBlock` names, which is set to 0 when
    the memory is initialised (line 80) and never again. Entry 0 is the table's
    block at first; once the table has moved, the entry can be unlinked by a merge,
    and its old link leads to an entry that looks free and is not in the list. That
    entry is then taken and split. It was found because `BlocksTile` could not be
    proved for this strategy.

Allocator (`DuckLib/memory.c`):

- A failed growth of the table leaves the block the table lies in marked free
  (lines 551, 580), and a failed realloc the caller's block (848-855). `Survived`
  = {} ends the program there; with either failure survived, `TableIsABlock` or
  `AllocatedIsHeld` is violated.
- The fits "best" and "worst" are never compared: the comment "Find the smallest
  of the empty blocks" (line 384) is above a loop that takes the first.
- "Firstblock will always equal zero." (`memory.h:35`): it does not, once the
  table was moved in front.
- A growth in the middle of a realloc can leave two free neighbours unmerged.
- To keep `used`, the entry after the last block is read: when the block is the last
  one, its link is -1 and the entry before the table is read (553, 781, 831). The
  value only decides whether `used` is set, and the models have no `used`.

Execution:

- `markObject` follows the shim of `duckVM_call`, an object of the C stack, when a
  frame that an error left behind still has it (line 118).
- A closure made by a function that another unit called records the other unit's
  bytecode object and dangles when that is freed (line 4639).
- A script of the inferrer that runs inside another frees the outer one's bytecode
  (`parenthesis-inferrer.c:1143`, `duckVM.c:768`).
- `pushComposite` (`duckVM.c:5972`) and `duckLisp_astToObject` (`duckLisp.c:838`)
  keep a fresh object in a C local over an allocation.

Compiler and assembler:

- `if` with a branch that compiles to nothing is off by one
  (`generators.c:2840, 2874`), as are arguments that compile to nothing (3294,
  3368, 3445, 3519, 3623: an unsigned count underflows) and `var`, `defun` or
  `noscope` where no list of forms is open. `var` and `global` of something that
  is no identifier compile to nothing (1735-1746, 1823-1835).
- The operators with two operands and `vector` read variables when the operator
  runs, so an operand that assigns changes the one before it.
- `defmacro` is an error outside a form list (`generators.c:1346`), where
  `docs/language-reference.md:89` has it return `()`.
- `apply` of a function that is not variadic drops the elements it has no
  parameters for.
- Symbols in the result of `comptime` become identifiers and are evaluated.
- Operands wider than what the assembler writes for the class are cut
  (`assembler.c:1301, 777, 1430, 2075`); release-upvalues has one byte for its
  count (`duckVM.c:1241`). The generators' counts stay below unless a function has
  more than 255 captured variables.
- `emit_nop` (`emitters.c:756-759`) counts a local that `nop` does not push: the
  correction stands after the return.
- The disassembler's templates for `vector` with elements narrower than four bytes
  and for stripped symbols do not match what is written; it is out of step after
  them (`DisassemblerInStep` names both).

Parenthesis inferrer (`parenthesis-inferrer.c`):

`InfersWhatIsMeant` is about inferences that do none of the first three, which the
history variable `departures` records by the names given here; programs that do them
are in the run.

- A form declares that is not to be inferred (`"declares"`; 1495-1500, 1517): a
  `(declare x L)` that is an argument of type `L`
  (`docs/parenthesis-inference.md:113`: "Inference will not be run on this argument
  or its sub-forms"), and `#(declare x L)`, `(#declare x ())` and a declaration in a
  literal expression (1566-1585; line 160 has `#` for "preventing the inferrer from
  declaring certain variables").
- The head of a literal expression `#(1 2)` is made an identifier whatever it is
  (`"head"`; 1104, 1566). `OnlyAddsParentheses` names this exception, too.
- A script that asks for one argument too many gets the last one again (`"again"`;
  `<=`, 1172).
- A call in parentheses with arguments for a type nested in the `&rest` part loops for
  ever (1217-1247): the error is set and the loop goes on, taking nothing. The
  configuration `inferrer_nested` shows it; `InferenceEnds` excepts the state the loop
  is in, `TakesNothing`.
- On an error `runVm` leaves its context and `addDeclaration` its scope.

## Plan

Every planned component has its module, and the components without recursive
operators have their proofs. Left, in order:

1. `Assembler`: that the machine finds each operand where the assembler wrote it
   (`VmFollowsAssembly` where `Readable`), from `OpcodesInvariant`, which says where
   every opcode of a jump is.
2. Models still to come: the growth of the machine's arrays (the paired stacks
   when the second cannot grow), the constructors of the C API, arithmetic over
   the number types and the containers as operators against reference definitions.

`Scopes`, `Language`, `Compiler` and the modules of the inferrer follow recursive C
functions or recursive data with RECURSIVE operators; no lemma about them can be
checked by the prover, and they stay with TLC.

## Not modelled

- *Printers and formatting, the tools' file and terminal I/O, development
  programs:* no state beyond an output buffer.
- *Reader:* a position in a text and a tree; the character handling is sequential
  and a model would repeat it. What it hands over is `Syntax`, and its last pass
  is `Postprocess`.
- *Containers* (`array`, `trie`, `sort`, `string`): the models use sequences and
  functions in their place. Their failing growths are hazards in `PROJECT.json`.
- *Malloc failure inside the compiler:* every scope operation could fail halfway;
  the compile state is unusable afterwards and the program says so.
- *Limits:* the recursion depth of the compiler (`duckLisp.c:919`) and overflows
  of counters at 2^64.
- *`include`, strings, composites and doubles at compile time:* the same shape as
  forms that are modelled, with data the properties do not look at.
