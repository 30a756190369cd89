------------------------------ MODULE Execution ------------------------------
(***************************************************************************)
(* How the virtual machine runs code that it owns itself.  Every           *)
(* executeWithIp copies the bytecode it is given into a cell of the heap   *)
(* and runs the copy, so the code that runs is kept, like everything else, *)
(* by what the collector can reach: currentBytecode, the closures that     *)
(* record the bytecode object they were made from, and the frames of the   *)
(* call stack.  Code calls closures (funcall) and C callbacks (ccall), and *)
(* a callback, or the application itself, calls closures with duckVM_call  *)
(* or executes another program, which starts another executeWithIp inside  *)
(* the instruction of the first.                                           *)
(*                                                                         *)
(* A position in the code is represented by the cell whose buffer it lies  *)
(* in, Shim standing for the one-byte program duckVM_call keeps on the C   *)
(* stack: a halt.  Of the heap only the bytecode objects are kept, of the  *)
(* values the closures.  Functions take no arguments.  Calls through a     *)
(* local variable are the subject of module Closures.                      *)
(*                                                                         *)
(* What compiled code does next is any instruction compiled code could     *)
(* have there: the compiler balances the stack (module Compiler checks     *)
(* that it does), returns only inside functions and halts only outside.    *)
(***************************************************************************)
EXTENDS Naturals, SequencesExt, FiniteSets

CONSTANTS Cells,                       \* the heap's cells for bytecode objects
          Null,                        \* the null pointer and the empty list
          Shim,                        \* the bytecode object of duckVM_call
          MaxStack, MaxCalls, MaxHost, \* bounds on stack, calls and host, and
          MaxLiberties                 \* on the liberties one application takes

ASSUME DistinctAssumption == Shim # Null /\ {Shim, Null} \cap Cells = {}
ASSUME BoundsAssumption == MaxStack \in Nat /\ MaxCalls \in Nat /\ MaxHost \in Nat

(* The things an application may do that the machine does not always       *)
(* survive:                                                                *)
(* "collect"  allocate until a collection during a duckVM_call, or during  *)
(*            or after an execution by a callback,                         *)
(* "abroad"   make a closure in a function that was called by another      *)
(*            compiled unit than its own,                                  *)
(* "catch"    go on in a callback after its execution returned an error,   *)
(* "noReset"  go on after an error without duckVM_softReset.               *)
Liberties == {"collect", "abroad", "catch", "noReset"}

VARIABLES stack,    \* duckVM->stack: closures, Null for any other value
          calls,    \* duckVM->call_stack
          current,  \* duckVM->currentBytecode
          global,   \* the one global variable
          heap,     \* the cells in use; the buffer of any other cell is freed
          host,     \* the C stack: one record for each executeWithIp
          error,    \* an error is on its way to the caller of the C function
          callers,  \* history: where each call in progress must come back to
          taken     \* history: the liberties the application took

vars == <<stack, calls, current, global, heap, host, error, callers, taken>>

Init ==
  /\ stack = <<>> /\ calls = <<>> /\ callers = <<>> /\ host = <<>>
  /\ current = Null /\ global = Null /\ heap = {} /\ error = FALSE /\ taken = {}
----------------------------------------------------------------------------
(* The collector's roots, as far as bytecode objects hang on them.         *)
Roots ==
  ({v.bytecode : v \in (ToSet(stack) \cup {global}) \ {Null}}
     \cup {f.bytecode : f \in ToSet(calls)} \cup {current}) \ {Null}

Collect == heap' = heap \cap Roots
InCall == \E k \in 1..Len(host) : host[k].called \/ host[k].isCall
Liberty(name, isTaken) ==
  /\ taken' = IF isTaken THEN taken \cup {name} ELSE taken
  /\ Cardinality(taken') <= MaxLiberties

Act == Last(host)
Running == host # <<>> /\ ~error /\ Act.phase = "run" /\ Act.ip # Shim
InHost == ~error /\ (host # <<>> => Act.phase = "callback")

(* What the running function, or C function, finds on the stack of its own *)
(* lies above this.                                                        *)
Floor ==
  CASE host = <<>> -> 0
    [] Running /\ Len(callers) > Act.depth -> Last(callers).base
    [] host # <<>> /\ Act.phase = "callback" -> Act.floor
    [] OTHER -> Act.base
OwnTop == Len(stack) > Floor
ClosureOnTop == OwnTop /\ Last(stack) # Null

(* The value on top overwrites another one of one's own. *)
MoveTop ==
  /\ OwnTop
  /\ \E k \in Floor + 1..Len(stack) - 1 : stack' = [stack EXCEPT ![k] = Last(stack)]
Push(v) == Len(stack) < MaxStack /\ stack' = Append(stack, v)
At(ip) == host' = [host EXCEPT ![Len(host)].ip = ip]
CallStackPushOfNothing(ip, bytecode) ==
  Len(calls) < MaxCalls /\ calls' = Append(calls, [ip |-> ip, bytecode |-> Null])
CallStackPush(ip, bytecode) ==
  Len(calls) < MaxCalls /\ calls' = Append(calls, [ip |-> ip, bytecode |-> bytecode])
----------------------------------------------------------------------------
(* duckVM_executeWithIp: the code is copied into a cell, which becomes     *)
(* currentBytecode; depth and base are the calls and the stack at its      *)
(* start, floor is the stack below the last callback's.  The allocation    *)
(* may collect, and does when there is no cell free; without one nothing   *)
(* starts, and an error is returned.                                       *)
Activation(cell, isCall) ==
  [code |-> cell, ip |-> cell, phase |-> "run", depth |-> Len(callers), base |-> Len(stack),
   floor |-> Len(stack), isCall |-> isCall, called |-> FALSE]

Kept(collects) == IF collects THEN heap \cap Roots ELSE heap
Outer == IF host = <<>> THEN host ELSE [host EXCEPT ![Len(host)].called = TRUE]

ExecuteWithIpUnregistered(isCall, collects) ==
  \E cell \in Cells \ Kept(collects) :
    /\ heap' = Kept(collects) \cup {cell}
    /\ host' = Append(Outer, Activation(cell, isCall))
    /\ UNCHANGED <<current, error>>
ExecuteWithIp(isCall, collects) ==
  \/ \E cell \in Cells \ Kept(collects) :
       /\ heap' = Kept(collects) \cup {cell}
       /\ current' = cell
       /\ host' = Append(Outer, Activation(cell, isCall))
       /\ UNCHANGED error
  \/ /\ collects /\ Kept(TRUE) = Cells
     /\ heap' = Cells /\ host' = Outer /\ error' = TRUE
     /\ UNCHANGED current

(* duckVM_execute, by the application or by a callback (runVm of the       *)
(* parenthesis inferrer, under a callback that infers an argument).        *)
Execute ==
  /\ InHost /\ Len(stack) < MaxStack /\ Len(host) < MaxHost
  /\ \E collects \in BOOLEAN :
       /\ ExecuteWithIp(FALSE, collects)
       /\ Liberty("collect", collects /\ host # <<>>)
  /\ UNCHANGED <<stack, calls, global, callers>>

(* The loop of executeWithIp ends, and with it the C function. *)
Leave(failed) ==
  /\ current' = Null
  /\ host' = Front(host)
  /\ error' = failed
  /\ callers' = SubSeq(callers, 1, Act.depth)

(* Errors of the running code: a wrong type, no memory, too few arguments. *)
(* Stack and call stack stay as they are.                                  *)
RuntimeError ==
  /\ Running
  /\ Leave(TRUE)
  /\ UNCHANGED <<stack, calls, global, heap, taken>>

Halt ==
  /\ Running /\ ~Act.isCall /\ Len(callers) = Act.depth
  /\ Leave(FALSE)
  /\ UNCHANGED <<stack, calls, global, heap, taken>>
HaltOfShimPops ==
  /\ ~error /\ host # <<>> /\ Act.ip = Shim
  /\ Leave(FALSE)
  /\ calls' = IF calls = <<>> THEN calls ELSE Front(calls)
  /\ UNCHANGED <<stack, global, heap, taken>>
HaltOfShim ==
  /\ ~error /\ host # <<>> /\ Act.ip = Shim
  /\ Leave(FALSE)
  /\ UNCHANGED <<stack, calls, global, heap, taken>>
----------------------------------------------------------------------------
(* The instructions. *)
PushNil ==
  /\ Running /\ Push(Null)
  /\ UNCHANGED <<calls, current, global, heap, host, error, callers, taken>>
PushGlobal ==
  /\ Running /\ Push(global)
  /\ UNCHANGED <<calls, current, global, heap, host, error, callers, taken>>
SetGlobal ==
  /\ Running /\ OwnTop
  /\ global' = Last(stack)
  /\ UNCHANGED <<stack, calls, current, heap, host, error, callers, taken>>
Pop ==
  /\ Running /\ OwnTop
  /\ stack' = Front(stack)
  /\ UNCHANGED <<calls, current, global, heap, host, error, callers, taken>>
Move ==
  /\ Running /\ MoveTop
  /\ UNCHANGED <<calls, current, global, heap, host, error, callers, taken>>

(* cons, make-vector, and whatever else makes the collector run. *)
Allocate ==
  /\ Running /\ Collect
  /\ Liberty("collect", InCall)
  /\ UNCHANGED <<stack, calls, current, global, host, error, callers>>

(* The closure records the bytecode object this executeWithIp started      *)
(* with; its entry lies where the instruction does.                        *)
PushClosure ==
  /\ Running /\ Push([bytecode |-> Act.code, entry |-> Act.ip])
  /\ Liberty("abroad", Act.ip # Act.code)
  /\ UNCHANGED <<calls, current, global, heap, host, error, callers>>

(* The frame is given the code of this executeWithIp, whatever code runs.  *)
(* The function stays on the stack below its own values.                   *)
Funcall ==
  /\ Running /\ ClosureOnTop
  /\ CallStackPush(Act.ip, Act.code)
  /\ callers' = Append(callers, [ip |-> Act.ip, base |-> Len(stack)])
  /\ At(Last(stack).entry)
  /\ UNCHANGED <<stack, current, global, heap, error, taken>>

(* The result takes the place of what the function pushed.  The function   *)
(* stays below it, and the code that called it goes on with both.  Without *)
(* a frame to return to the code halts.                                    *)
Return ==
  /\ Running /\ Len(callers) > Act.depth /\ OwnTop
  /\ stack' = Append(SubSeq(stack, 1, Last(callers).base), Last(stack))
  /\ At(IF calls = <<>> THEN Shim ELSE Last(calls).ip)
  /\ calls' = IF calls = <<>> THEN calls ELSE Front(calls)
  /\ callers' = Front(callers)
  /\ UNCHANGED <<current, global, heap, error, taken>>

Ccall ==
  /\ Running /\ Len(host) < MaxHost
  /\ host' = [host EXCEPT ![Len(host)].phase = "callback", ![Len(host)].floor = Len(stack)]
  /\ UNCHANGED <<stack, calls, current, global, heap, error, callers, taken>>
----------------------------------------------------------------------------
(* The application, and the callbacks. *)
HostPushGlobal ==
  /\ InHost /\ Push(global)
  /\ UNCHANGED <<calls, current, global, heap, host, error, callers, taken>>
HostPop ==
  /\ InHost /\ OwnTop
  /\ stack' = Front(stack)
  /\ UNCHANGED <<calls, current, global, heap, host, error, callers, taken>>
CopyFromTop ==
  /\ InHost /\ MoveTop
  /\ UNCHANGED <<calls, current, global, heap, host, error, callers, taken>>
GarbageCollect ==
  /\ InHost /\ Collect
  /\ Liberty("collect", InCall)
  /\ UNCHANGED <<stack, calls, current, global, host, error, callers>>

(* duckVM_call of the closure on top of the stack.  Its entry is an offset *)
(* into the buffer of its bytecode object; one that lies in another buffer *)
(* is out of bounds, or in bounds by chance.  An error leaves the frame.   *)
Call ==
  /\ InHost /\ ClosureOnTop /\ Len(host) < MaxHost
  /\ CallStackPush(Shim, Shim)
  /\ \/ \E collects \in BOOLEAN :
          /\ ExecuteWithIp(TRUE, collects)
          /\ Liberty("collect", collects)
          /\ callers' = IF error' THEN callers
                        ELSE Append(callers, [ip |-> Shim, base |-> Len(stack)])
     \/ /\ Last(stack).entry # Last(stack).bytecode
        /\ error' = TRUE
        /\ UNCHANGED <<current, heap, host, callers, taken>>
  /\ UNCHANGED <<stack, global>>

(* duckVM_instruction_prepareForFuncall refuses the arguments. *)
CallRefused ==
  /\ InHost /\ ClosureOnTop
  /\ error' = TRUE
  /\ UNCHANGED <<stack, calls, current, global, heap, host, callers, taken>>

(* A callback leaves one value where its arguments were. *)
CallbackReturns ==
  /\ InHost /\ host # <<>> /\ Len(stack) = Act.floor + 1
  /\ host' = [host EXCEPT ![Len(host)].phase = "run"]
  /\ UNCHANGED <<stack, calls, current, global, heap, error, callers, taken>>

(* An error of a callback, or one it passes on, ends the execution of the  *)
(* code that called it.                                                    *)
CallbackFails ==
  /\ host # <<>> /\ Act.phase = "callback"
  /\ Leave(TRUE)
  /\ UNCHANGED <<stack, calls, global, heap, taken>>
CallbackCatches ==
  /\ error /\ host # <<>>
  /\ error' = FALSE
  /\ Liberty("catch", TRUE)
  /\ UNCHANGED <<stack, calls, current, global, heap, host, callers>>

SoftResetKeepsFrames ==
  /\ host = <<>>
  /\ error' = FALSE /\ stack' = <<>>
  /\ UNCHANGED <<calls, current, global, heap, host, callers, taken>>
SoftReset ==
  /\ host = <<>>
  /\ error' = FALSE /\ stack' = <<>> /\ calls' = <<>>
  /\ UNCHANGED <<current, global, heap, host, callers, taken>>
Ignore ==
  /\ error /\ host = <<>>
  /\ error' = FALSE
  /\ Liberty("noReset", TRUE)
  /\ UNCHANGED <<stack, calls, current, global, heap, host, callers>>
----------------------------------------------------------------------------
Instruction ==
  \/ PushNil \/ PushGlobal \/ SetGlobal \/ Pop \/ Move \/ Allocate \/ PushClosure \/ Funcall
  \/ Return \/ Ccall \/ RuntimeError \/ Halt \/ HaltOfShim
Application ==
  \/ HostPushGlobal \/ HostPop \/ CopyFromTop \/ GarbageCollect \/ Execute \/ Call
  \/ CallRefused \/ CallbackReturns \/ CallbackFails \/ CallbackCatches \/ SoftReset \/ Ignore
Next == Instruction \/ Application
Spec == Init /\ [][Next]_vars
----------------------------------------------------------------------------
(* Every variable has its type; a cell that runs or ran is one of the      *)
(* heap's.                                                                 *)
Values == [bytecode : Cells, entry : Cells] \cup {Null}
TypeOK ==
  /\ Len(stack) <= MaxStack /\ ToSet(stack) \cup {global} \subseteq Values
  /\ Len(calls) <= MaxCalls /\ ToSet(calls) \subseteq [ip : Cells \cup {Shim}, bytecode : Cells \cup {Shim}]
  /\ current \in Cells \cup {Null} /\ heap \subseteq Cells /\ error \in BOOLEAN
  /\ Len(host) <= MaxHost
  /\ \A k \in 1..Len(host) : host[k].code \in Cells /\ host[k].ip \in Cells \cup {Shim}
  /\ taken \subseteq Liberties

(* No code is freed that is running, that a call in progress returns to,   *)
(* or that a closure on the stack or in the global may still run - across  *)
(* units, errors, and functions that are reassigned while they run -       *)
(* unless the collector runs in or after a nested execution, or a function *)
(* makes closures for another unit.                                        *)
CodeIsKept ==
  taken \cap {"collect", "abroad"} = {} =>
    /\ \A k \in 1..Len(host) : {host[k].code, host[k].ip} \subseteq heap \cup {Shim}
    /\ \A k \in 1..Len(callers) : callers[k].ip \in heap \cup {Shim}
    /\ \A v \in (ToSet(stack) \cup {global}) \ {Null} : {v.bytecode, v.entry} \subseteq heap

(* The frames on the call stack are those of the calls in progress, above  *)
(* those that errors left: every return, from however deep in nested       *)
(* executions, comes back to the code that made the call, provided no      *)
(* callback goes on after an error.                                        *)
FramesAreTheCalls ==
  ~error /\ "catch" \notin taken =>
    /\ Len(calls) >= Len(callers)
    /\ \A k \in 1..Len(callers) : calls[Len(calls) - Len(callers) + k].ip = callers[k].ip

(* Whenever cells are freed, each bytecode object the marker starts from   *)
(* is a cell in use, and not an object of a C function that may have       *)
(* returned already - provided the collector does not run in or after a    *)
(* nested execution and the application resets the machine after errors.   *)
MarksOnlyCells ==
  [][heap \ heap' # {} /\ taken' \cap {"collect", "noReset", "catch"} = {} => Roots \subseteq heap]_vars

(* As the documentation has it, no code that runs is freed, whatever the   *)
(* application does.                                                       *)
RunningCodeIsKept ==
  \A k \in 1..Len(host) : {host[k].code, host[k].ip} \subseteq heap \cup {Shim}
----------------------------------------------------------------------------
(* Why they hold: the invariant behind the properties. *)

Frames == [ip : Cells \cup {Shim}, bytecode : Cells \cup {Shim}]
Callers == [ip : Cells \cup {Shim}, base : Nat \ {0}]
Activations ==
  [code : Cells, ip : Cells \cup {Shim}, phase : {"run", "callback"}, depth : Nat, base : Nat,
   floor : Nat, isCall : BOOLEAN, called : BOOLEAN]

TypeInv ==
  /\ stack \in Seq(Values) /\ Len(stack) <= MaxStack /\ global \in Values
  /\ calls \in Seq(Frames) /\ Len(calls) <= MaxCalls
  /\ current \in Cells \cup {Null} /\ heap \subseteq Cells /\ error \in BOOLEAN
  /\ host \in Seq(Activations) /\ Len(host) <= MaxHost
  /\ callers \in Seq(Callers)
  /\ taken \subseteq Liberties

(* The executions nest: each but the last waits in a callback for one it   *)
(* started, and has the calls from its depth on up to the next one's.  A   *)
(* call that returns to the shim is the first of a duckVM_call.            *)
NestingInv ==
  /\ host = <<>> => callers = <<>>
  /\ host # <<>> => host[1].depth = 0
  /\ Len(callers) <= Len(calls)
  /\ \A k \in 1..Len(host) :
       /\ host[k].depth <= Len(callers)
       /\ host[k].ip = Shim => host[k].phase = "run"
       /\ k < Len(host) => host[k].called /\ host[k].phase = "callback"
  /\ \A j, k \in 1..Len(host) : j <= k => host[j].depth <= host[k].depth
  /\ \A k \in 1..Len(callers) :
       callers[k].ip = Shim => \E j \in 1..Len(host) : host[j].isCall /\ host[j].depth = k - 1

FramesMatch ==
  \A k \in 1..Len(callers) : calls[Len(calls) - Len(callers) + k].ip = callers[k].ip
FramesInv ==
  ~error /\ "catch" \notin taken =>
    /\ FramesMatch
    /\ \A k \in 1..Len(host) : host[k].ip = Shim => Len(callers) = host[k].depth

(* One execution runs, and none has run inside it: only then does the      *)
(* collector run without a liberty.                                        *)
Single == Len(host) = 1 /\ ~host[1].isCall /\ ~host[1].called
Closures == (ToSet(stack) \cup {global}) \ {Null}

(* The code of the k-th function that is running: of the program, or of    *)
(* the closure that lies on the stack where the function was called.       *)
CodeOf(k) == IF k = 0 THEN host[1].code ELSE stack[callers[k].base].entry

(* The code of a single execution hangs on roots: currentBytecode, and the *)
(* closures of the functions that run, which nothing they do takes off the *)
(* stack.                                                                  *)
SingleInv ==
  Single =>
    /\ current = host[1].code
    /\ host[1].ip = CodeOf(Len(callers))
    /\ host[1].phase = "callback" /\ callers # <<>> => callers[Len(callers)].base <= host[1].floor
    /\ \A k \in 1..Len(callers) :
         /\ callers[k].base \in 1..Len(stack)
         /\ stack[callers[k].base] # Null
         /\ callers[k].ip = CodeOf(k - 1)
    /\ \A j, k \in 1..Len(callers) : j < k => callers[j].base < callers[k].base
    /\ FramesMatch

(* The frames of the calls in progress are counted from the top of the     *)
(* call stack: those below are left from errors, and may point anywhere.   *)
CodeInHeap ==
  /\ \A k \in 1..Len(host) : {host[k].code, host[k].ip} \subseteq heap \cup {Shim}
  /\ \A k \in 1..Len(callers) : callers[k].ip \in heap \cup {Shim}
  /\ \A v \in Closures : v.bytecode \in heap /\ v.entry = v.bytecode
  /\ \A k \in 1..Len(calls) : k > Len(calls) - Len(callers) => calls[k].ip \in heap \cup {Shim}
KeptInv == taken \cap {"collect", "abroad"} = {} => CodeInHeap /\ SingleInv

RootsInHeap ==
  /\ \A v \in Closures : v.bytecode \in heap
  /\ \A k \in 1..Len(host) : host[k].code \in heap
  /\ \A f \in ToSet(calls) : f.bytecode \in heap \cup {Shim}
  /\ current \in heap \cup {Null}
NoFrameIsLeft ==
  ~error =>
    /\ Len(calls) = Len(callers)
    /\ Single => current = host[1].code /\ \A f \in ToSet(calls) : f.bytecode # Shim
RootsInv == taken \cap {"collect", "noReset", "catch"} = {} => RootsInHeap /\ NoFrameIsLeft

ExecutionInv == TypeInv /\ NestingInv /\ FramesInv /\ KeptInv /\ RootsInv
=============================================================================
