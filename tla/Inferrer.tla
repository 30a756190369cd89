------------------------------ MODULE Inferrer -------------------------------
(***************************************************************************)
(* The parenthesis inferrer: duckLisp_inferParentheses walks the tree the  *)
(* reader made, counts the arguments of declared identifiers and wraps     *)
(* them in expressions of their own - in place: an expression's array of   *)
(* forms is rewritten and shortened while the functions above hold indices *)
(* into it and pointers to its elements.  Identifiers are declared with    *)
(* types in a stack of scopes.  A declaration may come with a script,      *)
(* which runs in a virtual machine before the arguments are counted and    *)
(* calls back: to infer the next argument - which may run other scripts -, *)
(* to declare identifiers and to open and close scopes.                    *)
(*                                                                         *)
(* Each C function is a frame of `frames'; arrays are known by their place *)
(* in `exprs', so that who shares an array in the code shares it here.     *)
(* Indices start at 1.  A script is the sequence of the calls it makes and *)
(* one atom of the source: its inference and compilation, and virtual      *)
(* machines that run out of memory, are left out (modules Compiler and     *)
(* Execution).  An error is final: nothing handles one, and the callers    *)
(* only free what they hold.                                               *)
(***************************************************************************)
EXTENDS InferenceRules

CONSTANTS Programs,     \* the trees to infer
          Externals,    \* what the application declared: name -> declaration
          ScriptOf      \* name of a script -> its calls

VARIABLES program,      \* the tree inferred
          exprs,        \* the arrays of forms
          scopes,       \* state.scopeStack
          contexts,     \* duckVM.inferrerContext: the calls whose scripts run
          frames,       \* the C functions in progress
          ret,          \* the index the last inferArgument ended at
          error,
          departures    \* history: what was done against the documentation

vars == <<program, exprs, scopes, contexts, frames, ret, error, departures>>
------------------------------------------------------------------------------
(* Trees in arrays.  A form in an array is a node whose items are elsewhere. *)
Stored(node, at) == [type |-> node.type, value |-> node.value, at |-> at]
IsList(form) == form.type \in {"expression", "literalExpression"}

\* The arrays with those of the nodes appended; result.forms stand for the nodes.
RECURSIVE Store(_, _)
Store(nodes, arrays) ==
  FoldLeft(LAMBDA acc, node :
             IF ~IsList(node) THEN [acc EXCEPT !.forms = Append(@, Stored(node, 0))]
             ELSE LET inner == Store(node.items, acc.arrays)
                  IN  [arrays |-> Append(inner.arrays, inner.forms),
                       forms |-> Append(acc.forms, Stored(node, Len(inner.arrays) + 1))],
           [arrays |-> arrays, forms |-> <<>>], nodes)

RECURSIVE Tree(_, _)
Tree(form, arrays) ==
  Node(form.type, form.value,
       IF IsList(form) THEN [k \in DOMAIN arrays[form.at] |-> Tree(arrays[form.at][k], arrays)] ELSE <<>>)

\* The array that holds the whole tree as its only form comes last.
Init ==
  /\ program \in Programs
  /\ LET stored == Store(<<program>>, <<>>)
     IN  exprs = Append(stored.arrays, stored.forms)
  /\ scopes = <<Externals>>
  /\ contexts = <<>> /\ ret = 0 /\ error = FALSE /\ departures = {}
  /\ frames = <<[kind |-> "compound", at |-> Len(exprs), index |-> 1, infer |-> TRUE]>>
------------------------------------------------------------------------------
Top == Last(frames)
Doing(kind) == frames # <<>> /\ Top.kind = kind
With(frame) == [frames EXCEPT ![Len(frames)] = frame]
Invoke(caller, frame) == Append(With(caller), frame)
Become(frame) == frames' = With(frame) /\ UNCHANGED ret
Return == frames' = Front(frames) /\ UNCHANGED ret
ReturnIndex(index) == frames' = Front(frames) /\ ret' = index
Fail == error' = TRUE /\ frames' = <<>> /\ UNCHANGED <<exprs, scopes, contexts, ret>>
NoError == UNCHANGED <<program, error, departures>>

(* Where the inferrer is known not to do what the documentation says:      *)
(* "declares"  a form declares that is not to be inferred: an argument of  *)
(*             type L, one marked with # or the head of which is, or an    *)
(*             argument of one,                                            *)
(* "head"      the head of a literal expression becomes an identifier      *)
(*             whatever it is,                                             *)
(* "again"     a script asks for an argument after the last one and gets   *)
(*             the last one again.                                         *)
Departs(how, does) == departures' = IF does THEN departures \cup {how} ELSE departures

Argument(at, index, parenthesized, infer) ==
  [kind |-> "argument", at |-> at, start |-> index, parenthesized |-> parenthesized, infer |-> infer]
Arguments(at, index, infer) ==
  [kind |-> "arguments", at |-> at, start |-> 0, index |-> index, infer |-> infer]
Compound(at, index, infer) == [kind |-> "compound", at |-> at, index |-> index, infer |-> infer]

\* Mutant: an outer declaration is found before an inner one.
FindOutermostDeclaration(name) ==
  LET found == {k \in DOMAIN scopes : name \in DOMAIN scopes[k]}
  IN  IF found = {} THEN Undeclared ELSE scopes[Min(found)][name]
FindDeclaration(name) == Lookup(scopes, name)
Here == exprs[Top.at][Top.start]
------------------------------------------------------------------------------
(* interpretDeclare: a form `(declare name type [script])' declares.       *)
IsDeclaration(form) ==
  /\ form.type = "expression" /\ Len(exprs[form.at]) \in {3, 4}
  /\ \A k \in {1, 2} : exprs[form.at][k].type = "identifier"
  /\ exprs[form.at][1].value = "declare"
DeclarationOf(form) ==
  LET items == exprs[form.at]
  IN  Declaration(Signature(Tree(items[3], exprs)), IF Len(items) = 4 THEN ScriptOf[items[4].value] ELSE <<>>)

InterpretDeclare(form) ==
  IF ~IsDeclaration(form) THEN UNCHANGED scopes
  ELSE scopes' = AddDeclaration(scopes, exprs[form.at][2].value, DeclarationOf(form))
DeclareFails(form) == IsDeclaration(form) /\ ~IsLegal(DeclarationOf(form))
------------------------------------------------------------------------------
(* inferArguments *)
InferArguments ==
  /\ Doing("arguments") /\ Top.start = 0
  /\ IF Top.index <= Len(exprs[Top.at])
     THEN frames' = Invoke([Top EXCEPT !.start = Top.index], Argument(Top.at, Top.index, FALSE, Top.infer))
     ELSE frames' = Front(frames)
  /\ UNCHANGED <<exprs, scopes, contexts, ret>> /\ NoError

\* Mutant: the index past the argument is not written back.
ArgumentInferredAgain ==
  /\ Doing("arguments") /\ Top.start # 0
  /\ IF DeclareFails(Here)
     THEN Fail /\ UNCHANGED <<program, departures>>
     ELSE /\ InterpretDeclare(Here)
          /\ Become([Top EXCEPT !.start = 0])
          /\ UNCHANGED <<exprs, contexts>> /\ NoError
ArgumentInferred ==
  /\ Doing("arguments") /\ Top.start # 0
  /\ IF DeclareFails(Here)
     THEN Fail /\ UNCHANGED <<program, departures>>
     ELSE /\ InterpretDeclare(Here)
          /\ Become([Top EXCEPT !.start = 0, !.index = ret])
          /\ UNCHANGED <<exprs, contexts>> /\ NoError
------------------------------------------------------------------------------
(* inferArgument *)
InArgument == Doing("argument") /\ Top.start <= Len(exprs[Top.at])
OnIdentifier == InArgument /\ Here.type = "identifier"
Found == FindDeclaration(Here.value) # Undeclared

NoArgument ==
  /\ Doing("argument") /\ Top.start > Len(exprs[Top.at])
  /\ Fail /\ UNCHANGED <<program, departures>>

\* An identifier that is declared a function: it is given its arguments, by its script first.
DeclaredFunction ==
  /\ OnIdentifier /\ Top.infer /\ Found /\ IsFunction(FindDeclaration(Here.value))
  /\ Become([kind |-> "call", at |-> Top.at, start |-> Top.start, index |-> Top.start + 1,
             parenthesized |-> Top.parenthesized, infer |-> Top.infer,
             declaration |-> FindDeclaration(Here.value), typeIndex |-> 1,
             newExpression |-> IF Top.parenthesized THEN <<>> ELSE <<Here>>,
             ran |-> FindDeclaration(Here.value).script = <<>>])
  /\ UNCHANGED <<exprs, scopes, contexts>> /\ NoError

DeclaredVariable ==
  /\ OnIdentifier /\ Top.infer /\ Found /\ ~IsFunction(FindDeclaration(Here.value))
  /\ \/ /\ ~Top.parenthesized
        /\ ReturnIndex(Top.start + 1)
        /\ UNCHANGED <<exprs, scopes, contexts>> /\ NoError
     \/ /\ Top.parenthesized /\ FindDeclaration(Here.value).signature.symbol = "L"
        /\ frames' = Append(Front(frames), Arguments(Top.at, 2, Top.infer))
        /\ UNCHANGED <<exprs, scopes, contexts, ret>> /\ NoError
     \/ /\ Top.parenthesized /\ FindDeclaration(Here.value).signature.symbol = "I"
        /\ Fail /\ UNCHANGED <<program, departures>>

UndeclaredIdentifier ==
  /\ OnIdentifier
  /\ \/ /\ ~Top.infer
        /\ ReturnIndex(Top.start + 1)
        /\ UNCHANGED <<exprs, scopes, contexts>> /\ NoError
     \/ Top.infer /\ ~Found /\ Fail /\ UNCHANGED <<program, departures>>

IsMarked(form) ==
  \/ form.type = "literalExpression"
  \/ form.type = "expression" /\ exprs[form.at] # <<>> /\ exprs[form.at][1].type = "callback"
NotAnIdentifier ==
  /\ InArgument /\ Here.type # "identifier"
  /\ frames' = Invoke([kind |-> "whole", at |-> Top.at, start |-> Top.start,
                       disabled |-> ~Top.infer \/ IsMarked(Here)],
                     Compound(Top.at, Top.start, Top.infer))
  /\ UNCHANGED <<exprs, scopes, contexts, ret>> /\ NoError
WholeInferred ==
  /\ Doing("whole")
  /\ Departs("declares", Top.disabled /\ IsDeclaration(Here))
  /\ \/ /\ ~DeclareFails(Here)
        /\ InterpretDeclare(Here)
        /\ ReturnIndex(Top.start + 1)
        /\ UNCHANGED <<program, exprs, contexts, error>>
     \/ DeclareFails(Here) /\ Fail /\ UNCHANGED program
------------------------------------------------------------------------------
(* inferArgument, for a function: runVm, then inferIncrementally as long   *)
(* as there are types, then the new expression takes its place and what    *)
(* follows moves up.                                                       *)
RunVm ==
  /\ Doing("call") /\ ~Top.ran
  /\ contexts' = Append(contexts, Len(frames))
  /\ frames' = Invoke([Top EXCEPT !.ran = TRUE],
                     [kind |-> "script", whole |-> Top.declaration.script, calls |-> Top.declaration.script, got |-> <<>>, since |-> <<>>])
  /\ UNCHANGED <<exprs, scopes, ret>> /\ NoError

InferTheRest ==
  /\ Doing("call") /\ Top.ran /\ Top.typeIndex <= Len(Top.declaration.signature.positional) + 1
  /\ frames' = Append(frames, [kind |-> "incrementally", of |-> Len(frames), last |-> 0, rest |-> 0])
  /\ UNCHANGED <<exprs, scopes, contexts, ret>> /\ NoError

CallInferred == Doing("call") /\ Top.ran /\ Top.typeIndex > Len(Top.declaration.signature.positional) + 1

CheckArity ==
  /\ CallInferred /\ Top.parenthesized
  /\ IF Top.index = Len(exprs[Top.at]) + 1
     THEN ReturnIndex(Top.index) /\ UNCHANGED <<exprs, scopes, contexts>> /\ NoError
     ELSE Fail /\ UNCHANGED <<program, departures>>

Wrap ==
  LET new == [type |-> "expression", value |-> "", at |-> Len(exprs) + 1]
      arguments == Len(Top.newExpression) - 1
      old == exprs[Top.at]
  IN  Append([exprs EXCEPT ![Top.at] = SubSeq(old, 1, Top.start - 1) \o <<new>>
                                         \o SubSeq(old, Top.start + 1 + arguments, Len(old))],
             Top.newExpression)
NewExpression ==
  /\ CallInferred /\ ~Top.parenthesized
  /\ exprs' = Wrap
  /\ frames' = With([kind |-> "whole", at |-> Top.at, start |-> Top.start, disabled |-> FALSE])
  /\ UNCHANGED <<scopes, contexts, ret>> /\ NoError
------------------------------------------------------------------------------
(* inferIncrementally: one more of the types, for the loop of              *)
(* inferArgument or for a script.  It works through pointers into the call *)
(* it was given.                                                           *)
CallOf == frames[Top.of]
Positional == CallOf.declaration.signature.positional
MoreForms == CallOf.index <= Len(exprs[CallOf.at])
OnPositional == CallOf.typeIndex <= Len(Positional)
OnRest == CallOf.typeIndex = Len(Positional) + 1 /\ CallOf.declaration.signature.variadic
RestLeft ==
  IF CallOf.parenthesized THEN MoreForms ELSE Top.rest < CallOf.declaration.signature.default

InferAs(letter) ==
  frames' = Invoke([Top EXCEPT !.last = CallOf.index],
                  Argument(CallOf.at, CallOf.index, FALSE, letter = "I" /\ CallOf.infer))

InferPositional ==
  /\ Doing("incrementally") /\ Top.last = 0 /\ OnPositional
  /\ IF MoreForms /\ Positional[CallOf.typeIndex] # "nested"
     THEN /\ InferAs(Positional[CallOf.typeIndex])
          /\ UNCHANGED <<exprs, scopes, contexts, ret>> /\ NoError
     ELSE Fail /\ UNCHANGED <<program, departures>>

InferRest ==
  /\ Doing("incrementally") /\ Top.last = 0 /\ OnRest
  /\ LET signature == CallOf.declaration.signature
     IN  \/ /\ ~CallOf.parenthesized /\ signature.default < 0
            /\ Fail /\ UNCHANGED <<program, departures>>
         \/ /\ RestLeft /\ signature.rest # "nested"
            /\ InferAs(signature.rest)
            /\ UNCHANGED <<exprs, scopes, contexts, ret>> /\ NoError
         \/ /\ RestLeft /\ signature.rest = "nested"
            /\ IF CallOf.parenthesized
               THEN frames' = With([Top EXCEPT !.rest = 1 - @])
                    /\ UNCHANGED <<exprs, scopes, contexts, ret>> /\ NoError
               ELSE Fail /\ UNCHANGED <<program, departures>>

AllTaken ==
  /\ CallOf.typeIndex = Len(Positional) + 1
  /\ OnRest => ~RestLeft /\ (CallOf.parenthesized \/ CallOf.declaration.signature.default >= 0)
NextType ==
  /\ Doing("incrementally") /\ Top.last = 0
  /\ \/ /\ AllTaken
        /\ frames' = Front([frames EXCEPT ![Top.of].typeIndex = @ + 1])
        /\ UNCHANGED <<exprs, scopes, contexts, ret>> /\ NoError
     \/ CallOf.typeIndex > Len(Positional) + 1 /\ Fail /\ UNCHANGED <<program, departures>>

\* The argument ended at ret and is now the one form at last.
\* Mutant: the argument is taken as it was before it was inferred.
TakenBefore(call) ==
  LET form == exprs[call.at][Top.last]
      head == IF IsList(form) /\ exprs[form.at] # <<>> THEN exprs[form.at][1] ELSE form
  IN  [call EXCEPT !.index = ret, !.newExpression = IF call.parenthesized THEN @ ELSE Append(@, head)]
Taken(call) ==
  [call EXCEPT !.index = ret,
               !.newExpression = IF call.parenthesized THEN @ ELSE Append(@, exprs[call.at][Top.last])]
IncrementDone ==
  /\ Doing("incrementally") /\ Top.last # 0
  /\ frames' = IF OnPositional
               THEN Front([frames EXCEPT ![Top.of] = [Taken(CallOf) EXCEPT !.typeIndex = @ + 1]])
               ELSE [frames EXCEPT ![Top.of] = Taken(CallOf),
                                   ![Len(frames)] = [Top EXCEPT !.last = 0, !.rest = @ + 1]]
  /\ UNCHANGED <<exprs, scopes, contexts, ret>> /\ NoError
------------------------------------------------------------------------------
(* The callbacks of scripts.  They find the call they work for on top of   *)
(* the contexts.                                                           *)
Calling(op) == Doing("script") /\ Top.calls # <<>> /\ Top.since = <<>> /\ Top.calls[1].op = op
Context == frames[Last(contexts)]
Called == [Top EXCEPT !.calls = Tail(@)]

InferNextArgument ==
  /\ Calling("get")
  /\ frames' = Invoke([Top EXCEPT !.since = <<Context.typeIndex, Context.index>>],
                     [kind |-> "incrementally", of |-> Last(contexts), last |-> 0, rest |-> 0])
  /\ UNCHANGED <<exprs, scopes, contexts, ret>> /\ NoError

\* The argument just inferred, as an object; the rest of the arguments is a list.
GetNextArgument ==
  /\ Doing("script") /\ Top.since # <<>>
  /\ LET signature == Context.declaration.signature
         form == IF signature.variadic /\ Top.since[1] = Len(signature.positional) + 1
                 THEN Form([k \in 1 .. Context.index - Top.since[2] |->
                              Tree(exprs[Context.at][Top.since[2] + k - 1], exprs)])
                 ELSE Tree(exprs[Context.at][Context.index - 1], exprs)
     IN  /\ Become([Called EXCEPT !.since = <<>>, !.got = Append(@, Postprocess(form))])
         /\ Departs("again", ~signature.variadic /\ Top.since[1] > Len(signature.positional))
  /\ UNCHANGED <<program, exprs, scopes, contexts, error>>

DeclareIdentifier ==
  /\ Calling("declare") \/ Calling("declareEach")
  /\ IF MayDeclare(Top.calls[1], Top.got)
     THEN /\ scopes' = DeclaredBy(Top.calls[1], Top.got, scopes)
          /\ Become(Called)
          /\ UNCHANGED <<exprs, contexts>> /\ NoError
     ELSE Fail /\ UNCHANGED <<program, departures>>

PushDeclarationScope ==
  /\ Calling("push")
  /\ scopes' = Append(scopes, <<>>)
  /\ Become(Called)
  /\ UNCHANGED <<exprs, contexts>> /\ NoError
PopDeclarationScope ==
  /\ Calling("pop")
  /\ scopes' = Front(scopes)
  /\ Become(Called)
  /\ UNCHANGED <<exprs, contexts>> /\ NoError

\* The script ends, and runVm pops the context.
ScriptEnds ==
  /\ Doing("script") /\ Top.calls = <<>>
  /\ contexts' = Front(contexts)
  /\ Return
  /\ UNCHANGED <<exprs, scopes>> /\ NoError
------------------------------------------------------------------------------
(* infer_compoundExpression and infer_expression.                          *)
Whole == exprs[Top.at][Top.index]
Items == exprs[Whole.at]
OnList == Doing("compound") /\ IsList(Whole) /\ Top.infer /\ Items # <<>>

\* infer_callback gives the type to whatever is there; no name comes with it.
NoName == "?"
InferCallback(form) ==
  [form EXCEPT !.type = "identifier",
               !.value = IF form.type \in {"identifier", "callback"} THEN @ ELSE NoName]

NothingToInfer ==
  /\ Doing("compound") /\ ~OnList
  /\ exprs' = IF Whole.type = "callback" THEN [exprs EXCEPT ![Top.at][Top.index] = InferCallback(@)] ELSE exprs
  /\ Return
  /\ UNCHANGED <<scopes, contexts>> /\ NoError

LiteralExpression ==
  /\ OnList /\ Whole.type = "literalExpression"
  /\ exprs' = [exprs EXCEPT ![Whole.at][1] = InferCallback(@)]
  /\ Departs("head", Items[1].type \notin {"identifier", "callback"})
  /\ frames' = Invoke([Top EXCEPT !.kind = "literal"], Arguments(Whole.at, 2, FALSE))
  /\ UNCHANGED <<program, scopes, contexts, ret, error>>
LiteralDone ==
  /\ Doing("literal")
  /\ exprs' = [exprs EXCEPT ![Top.at][Top.index].type = "expression"]
  /\ Return
  /\ UNCHANGED <<scopes, contexts>> /\ NoError

OnExpression(head) == OnList /\ Whole.type = "expression" /\ Items[1].type = head
CallbackExpression ==
  /\ OnExpression("callback")
  /\ exprs' = [exprs EXCEPT ![Whole.at][1] = InferCallback(@)]
  /\ Become(Arguments(Whole.at, 2, Top.infer))
  /\ UNCHANGED <<scopes, contexts>> /\ NoError

DeclaredExpression ==
  /\ OnExpression("identifier")
  /\ IF FindDeclaration(Items[1].value) # Undeclared
     THEN frames' = With(Argument(Whole.at, 1, TRUE, Top.infer))
     ELSE frames' = Invoke([kind |-> "undeclared"], Arguments(Whole.at, 2, Top.infer))
  /\ UNCHANGED <<exprs, scopes, contexts, ret>> /\ NoError
UndeclaredDone == Doing("undeclared") /\ Fail /\ UNCHANGED <<program, departures>>

Scope ==
  /\ OnList /\ Whole.type = "expression" /\ Items[1].type \notin {"identifier", "callback"}
  /\ scopes' = Append(scopes, <<>>)
  /\ frames' = Invoke([kind |-> "scope"], Arguments(Whole.at, 1, Top.infer))
  /\ UNCHANGED <<exprs, contexts, ret>> /\ NoError
\* Mutant: the scope of an expression is not closed.
ScopeDoneKeepsScope == Doing("scope") /\ Return /\ UNCHANGED <<exprs, scopes, contexts>> /\ NoError
ScopeDone ==
  /\ Doing("scope")
  /\ scopes' = Front(scopes)
  /\ Return
  /\ UNCHANGED <<exprs, contexts>> /\ NoError
------------------------------------------------------------------------------
Ended == frames = <<>>
Stay == Ended /\ UNCHANGED vars

Next ==
  \/ InferArguments \/ ArgumentInferred
  \/ NoArgument \/ DeclaredFunction \/ DeclaredVariable \/ UndeclaredIdentifier \/ NotAnIdentifier \/ WholeInferred
  \/ RunVm \/ InferTheRest \/ CheckArity \/ NewExpression
  \/ InferPositional \/ InferRest \/ NextType \/ IncrementDone
  \/ InferNextArgument \/ GetNextArgument \/ DeclareIdentifier
  \/ PushDeclarationScope \/ PopDeclarationScope \/ ScriptEnds
  \/ NothingToInfer \/ LiteralExpression \/ LiteralDone \/ CallbackExpression
  \/ DeclaredExpression \/ UndeclaredDone \/ Scope \/ ScopeDone
  \/ Stay
Spec == Init /\ [][Next]_vars /\ WF_vars(Next)
------------------------------------------------------------------------------
RootArray == Len(Store(<<program>>, <<>>).arrays) + 1
Result == Postprocess(Tree(exprs[RootArray][1], exprs))

\* Between any two steps there is a scope of declarations for the application, one for each pair of
\* parentheses without a head that is open and one for each that a running script opened; and the
\* contexts of the virtual machine are the calls whose scripts run, innermost last, so that a script
\* that was interrupted by another finds its own call again.
Scripted == {k \in DOMAIN frames : frames[k].kind = "script"}
OpenedBy(script) ==
  LET made == SubSeq(script.whole, 1, Len(script.whole) - Len(script.calls))
  IN  Len(SelectSeq(made, LAMBDA c : c = OpenScope)) - Len(SelectSeq(made, LAMBDA c : c = CloseScope))
ScopesInStep ==
  /\ ~Ended => Len(scopes) = 1 + Cardinality({k \in DOMAIN frames : frames[k].kind = "scope"})
                               + FoldSet(LAMBDA k, n : n + OpenedBy(frames[k]), 0, Scripted)
  /\ ~error => contexts = [j \in 1 .. Cardinality(Scripted) |-> SetToSortSeq(Scripted, <)[j] - 1]
  /\ Ended /\ ~error => Len(scopes) = 1

\* Wrapping moves forms from array to array.  It adds parentheses and does nothing else: the forms
\* of the program come out in their order, none lost or twice; and every array is the items of one
\* expression, so that freeing the tree frees everything once. The head of a literal expression is
\* excepted, by name: it is lost if it is no identifier.
RECURSIVE Leaves(_)
Leaves(node) ==
  IF node.type = "expression" THEN FlattenSeq([k \in DOMAIN node.items |-> Leaves(node.items[k])]) ELSE <<node>>
OnlyAddsParentheses ==
  Ended /\ ~error /\ "head" \notin departures =>
    /\ Leaves(Result) = Leaves(Postprocess(program))
    /\ \A a \in DOMAIN exprs :
         LET owners == {<<b, k>> \in (DOMAIN exprs) \X (1 .. 12) :
                          k \in DOMAIN exprs[b] /\ IsList(exprs[b][k]) /\ exprs[b][k].at = a}
         IN  Cardinality(owners) = (IF a = RootArray THEN 0 ELSE 1)

\* The inferrer, which rewrites the tree in place, accepts a program exactly if the grammar of
\* docs/parenthesis-inference.md derives it, and makes the tree the grammar says - unless it did one
\* of the three things it is known to do against that document.
InfersWhatIsMeant ==
  Ended /\ departures = {} =>
    LET meant == Means(program, Externals, ScriptOf)
    IN  IF error THEN ~meant.ok ELSE meant.ok /\ meant.tree = Result

\* A call in parentheses has arguments left for a `&rest' of a nested type. The loop that takes them
\* notes the error and goes round again without taking one, for ever.
TakesNothing ==
  /\ Doing("incrementally") /\ Top.last = 0 /\ OnRest
  /\ CallOf.parenthesized /\ MoreForms /\ CallOf.declaration.signature.rest = "nested"

\* The inferrer comes to an end, scripts that call back and forms that move under the indices of the
\* functions above included - except where TakesNothing, which no inference leaves again: every other
\* round of a loop takes a form or a type or fails.
InferenceEnds == <>(Ended \/ TakesNothing)
=============================================================================
