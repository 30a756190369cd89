------------------------------- MODULE Scopes -------------------------------
(***************************************************************************)
(* The scopes of the compiler (src/duckLisp.c): a stack of them for each   *)
(* of the two environments a program is compiled for, the names they       *)
(* define, and the search for a name.  A name that a function takes from   *)
(* outside of itself becomes an upvalue of the function, and of every      *)
(* function between it and the scope that defines the name.                *)
(*                                                                         *)
(* The tries are functions from names.  Stack indexes count from 0, as in  *)
(* the source, and scopes from 1; the innermost scope is the last.         *)
(***************************************************************************)
EXTENDS Integers, Sequences, SequencesExt, FiniteSetsExt, Functions

NoNames == [n \in {} |-> 0]
NotFound == -1

Insert(trie, name, value) ==
  [n \in DOMAIN trie \cup {name} |-> IF n = name THEN value ELSE trie[n]]

ScopeInit(isFunction) ==
  [locals         |-> NoNames,    \* variables and the stack slots they live in
   functionLocals |-> NoNames,    \* the variables that hold functions
   functions      |-> NoNames,    \* what a call of the name is: "ducklisp" or "macro"
   isFunction     |-> isFunction,
   scopeUvs       |-> <<>>,       \* slots of this scope that some function captures
   functionUvs    |-> <<>>]       \* what the function of this scope captures

\* Mutant: only the environment that is being compiled gets the scope.
PushScopeOfCurrent(subs, current, isFunction) ==
  [subs EXCEPT ![current].scopes = Append(@, ScopeInit(isFunction))]

(* Where a new scope goes, for both environments: only the one that is being
   compiled takes it for the scope of a function. *)
PushScope(subs, current, isFunction) ==
  [s \in DOMAIN subs |->
     [subs[s] EXCEPT !.scopes = Append(@, ScopeInit(isFunction /\ s = current))]]

PopScope(subs) == [s \in DOMAIN subs |-> [subs[s] EXCEPT !.scopes = Front(@)]]

------------------------------------------------------------------------------
(* Looking a name up.                                                      *)

ScopesWith(scopes, table, name) == {k \in DOMAIN scopes : name \in DOMAIN scopes[k][table]}

Innermost(ks) == IF ks = {} THEN 0 ELSE Max(ks)

(* The scope of the function that is being compiled, 0 outside of functions. *)
FunctionScope(scopes) == Innermost({k \in DOMAIN scopes : scopes[k].isFunction})

\* Mutant: the first definition instead of the last.
GetOutermostLocalIndex(scopes, table, name) ==
  LET ks == {j \in ScopesWith(scopes, table, name) : j >= FunctionScope(scopes)}
  IN IF ks = {} THEN NotFound ELSE scopes[Min(ks)][table][name]

GetLocalIndexFromName(scopes, table, name) ==
  LET k == Innermost({j \in ScopesWith(scopes, table, name) : j >= FunctionScope(scopes)})
  IN IF k = 0 THEN NotFound ELSE scopes[k][table][name]

(* A macro is looked for in every scope; its function lives at compile time. *)
GetMacroFromName(scopes, name) ==
  LET k == Innermost(ScopesWith(scopes, "functionLocals", name))
  IN IF k = 0 THEN NotFound ELSE scopes[k].functionLocals[name]

AppendNew(s, x) == IF Contains(s, x) THEN s ELSE Append(s, x)

(* A function captures `what': a slot of the frame around it (0 or more) or the
   upvalue -(what + 1) of the function around it.  `owner' is the scope that the
   variable belongs to, or the scope of the function whose upvalue it is. *)
Capture(scopes, function, owner, what) ==
  [k \in DOMAIN scopes |->
     [scopes[k] EXCEPT
        !.functionUvs = IF k = function THEN AppendNew(@, what) ELSE @,
        !.scopeUvs = IF k = owner THEN AppendNew(@, what) ELSE @]]

UpvalueOf(scopes, function, what) ==
  (CHOOSE i \in DOMAIN scopes[function].functionUvs : scopes[function].functionUvs[i] = what) - 1

(* The scope outside of the function that defines the name, 0 when there is none. *)
OuterScope(scopes, table, name) ==
  Innermost({k \in ScopesWith(scopes, table, name) : k < FunctionScope(scopes)})

(* What was found outside of `function' becomes an upvalue of it. *)
Through(found, function) ==
  LET new == Capture(found.scopes, function, found.owner, found.what)
      upvalue == UpvalueOf(new, function, found.what)
  IN [scopes |-> new, owner |-> function, index |-> upvalue, what |-> -(upvalue + 1)]

(* The search outside of the function: the scope that defines the name, then one
   upvalue in every function from that scope inwards. *)
GetFreeLocalIndexFromName(scopes, table, name) ==
  LET FunctionsIn(owner) ==
        SelectSeq([k \in DOMAIN scopes |-> k], LAMBDA k : k > owner /\ scopes[k].isFunction)
      Found(owner) == [scopes |-> scopes, owner |-> owner, index |-> NotFound,
                       what |-> scopes[owner][table][name]]
      Search(owner) ==
        IF owner = 0 THEN [scopes |-> scopes, index |-> NotFound]
        ELSE FoldLeft(LAMBDA found, f : CHOOSE r \in {Through(x, f) : x \in {found}} : TRUE,
                      Found(owner), FunctionsIn(owner))
  IN CHOOSE r \in {Search(owner) : owner \in {OuterScope(scopes, table, name)}} : TRUE

(* What a call of the name is, and "none" when no scope says. *)
GetFunctionFromName(scopes, name) ==
  LET k == Innermost(ScopesWith(scopes, "functions", name))
  IN IF k = 0 THEN "none" ELSE scopes[k].functions[name]

------------------------------------------------------------------------------
(* Defining a name in the innermost scope.                                 *)

Define(scopes, table, name, value) ==
  [scopes EXCEPT ![Len(scopes)][table] = Insert(@, name, value)]

ScopeAddObject(scopes, name, slot) == Define(scopes, "locals", name, slot)

AddInterpretedFunction(scopes, name, slot) ==
  Define(Define(scopes, "functionLocals", name, slot), "functions", name, "ducklisp")

AddInterpretedGenerator(scopes, name) == Define(scopes, "functions", name, "macro")
=============================================================================
