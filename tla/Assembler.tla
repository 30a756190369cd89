----------------------------- MODULE Assembler -----------------------------
(***************************************************************************)
(* duckLisp_assemble (src/assembler.c): the pushes and pops that cancel    *)
(* are removed, every instruction is written without displacements, the    *)
(* sizes of the displacements are chosen in a loop that shifts addresses   *)
(* while it walks them, and the displacements are inserted.  The virtual   *)
(* machine and the disassembler then walk the bytecode.                    *)
(*                                                                         *)
(* Addresses in the bytecode count from 0 and sequences from 1.            *)
(***************************************************************************)
EXTENDS Bytecode, TLC

CONSTANT Programs   \* high-level assemblies that a compiler may hand over

VARIABLES
  phase,     \* the part of the function that is running, then "running"
  program,   \* the assembly as the compiler wrote it
  assembly,  \* the assembly as the function edits it
  at,        \* the instruction that is handled (in "running": the one expected at ip)
  code,      \* the bytecode
  labels,    \* each label's target and the sources that refer to it
  links,     \* one jump each: its source, target and size
  change,    \* by how much the last pass over the links changed the length of the code
  passes,    \* passes over the links
  ip         \* where the virtual machine is

vars == <<phase, program, assembly, at, code, labels, links, change, passes, ip>>

TooFewPasses == 2
MaxPasses == 10

Pop(n) == Instruction("pop", <<n>>)
InternalNop == Instruction("internalNop", <<>>)
IsPop(i) == i.class = "pop"
Pushes ==
  {"nil", "makeType", "pushString", "pushBoolean", "pushInteger", "pushDoubleFloat", "pushIndex",
   "pushSymbol", "pushStrippedSymbol", "pushUpvalue", "pushClosure", "pushVaClosure", "pushGlobal"}

\* What the emitters write: operands are numbers, and no pop takes nothing (duckLisp_emit_pop).
LeastOperands(class) ==
  CASE class \in {"nop", "nil", "makeType", "halt", "internalNop"} -> 0
    [] class \in {"pushSymbol", "setUpvalue", "funcall", "apply", "acall", "brnz", "call"}
                 \cup ClosurePushes -> 2
    [] OTHER -> 1
WellFormed(i) ==
  /\ i \in [class : Classes, args : Seq(Int)]
  /\ Len(i.args) >= LeastOperands(i.class)
  /\ IsPop(i) => i.args[1] > 0
  /\ i.class = "label" => i = Instruction("label", <<i.args[1]>>)

Assemblies == {p \in Seq([class : Classes, args : Seq(Int)]) : \A k \in DOMAIN p : WellFormed(p[k])}

LabelsOf(p) == {p[k].args[1] : k \in {j \in DOMAIN p : p[j].class = "label"}}

\* Labels are numbered, and every jump's label is somewhere.
ASSUME ProgramsAssumption ==
  \A p \in Programs :
    /\ p \in Assemblies
    /\ LabelsOf(p) = 1 .. Cardinality(LabelsOf(p))
    /\ \A k \in DOMAIN p : p[k].class \in Labelled => p[k].args[1] \in LabelsOf(p)

Init ==
  /\ phase = "peephole"
  /\ program \in Programs
  /\ assembly = program
  /\ at = 1
  /\ code = <<>>
  /\ labels = [l \in LabelsOf(program) |-> [target |-> -1, sources |-> <<>>]]
  /\ links = <<>>
  /\ change = 0 /\ passes = 0 /\ ip = 0

------------------------------------------------------------------------------
(* Push-pop peephole optimization.                                         *)

Edit(this, next) ==
  /\ assembly' = [assembly EXCEPT ![at] = this, ![at + 1] = next]
  /\ at' = at + 1
  /\ UNCHANGED <<phase, program, code, labels, links, change, passes, ip>>

RemovePushKeepsPops ==
  /\ phase = "peephole" /\ at < Len(assembly)
  /\ assembly[at].class \in Pushes /\ IsPop(assembly[at + 1])
  /\ LET pops == assembly[at + 1].args[1]
     IN Edit(InternalNop, IF pops = 1 THEN InternalNop ELSE Pop(pops))

\* A push whose value the next instruction pops is not needed.
RemovePush ==
  /\ phase = "peephole" /\ at < Len(assembly)
  /\ assembly[at].class \in Pushes /\ IsPop(assembly[at + 1])
  /\ LET pops == assembly[at + 1].args[1] - 1
     IN Edit(InternalNop, IF pops = 0 THEN InternalNop ELSE Pop(pops))

\* Two pops in a row become the second.
MergePops ==
  /\ phase = "peephole" /\ at < Len(assembly)
  /\ IsPop(assembly[at]) /\ IsPop(assembly[at + 1])
  /\ Edit(InternalNop, Pop(assembly[at].args[1] + assembly[at + 1].args[1]))

LeaveInstruction ==
  /\ phase = "peephole" /\ at < Len(assembly)
  /\ ~IsPop(assembly[at + 1]) \/ assembly[at].class \notin Pushes \cup {"pop"}
  /\ Edit(assembly[at], assembly[at + 1])

EndPeephole ==
  /\ phase = "peephole" /\ at >= Len(assembly)
  /\ phase' = "encode" /\ at' = 1
  /\ UNCHANGED <<program, assembly, code, labels, links, change, passes, ip>>

------------------------------------------------------------------------------
(* Assemble to bytecode without displacements.                             *)

Encoding_ == phase = "encode" /\ at <= Len(assembly)
Emit(i) ==
  LET encoding == Encode(i)
  IN code' = code \o <<Opcode(i.class, encoding.size)>> \o encoding.operands
Advance ==
  /\ at' = at + 1
  /\ UNCHANGED <<phase, program, assembly, links, change, passes, ip>>

SkipNop ==
  /\ Encoding_ /\ assembly[at].class = "internalNop"
  /\ Advance
  /\ UNCHANGED <<code, labels>>

EncodeInstruction ==
  /\ Encoding_ /\ assembly[at].class \notin Labelled \cup {"label", "internalNop"}
  /\ Emit(assembly[at])
  /\ Advance
  /\ UNCHANGED labels

\* A label may be defined once; the compiler's labels are generated symbols.
PlaceLabel ==
  /\ Encoding_ /\ assembly[at].class = "label"
  /\ LET l == assembly[at].args[1]
     IN /\ Assert(labels[l].target = -1, "Redefinition of label.")
        /\ labels' = [labels EXCEPT ![l].target = Len(code)]
  /\ Advance
  /\ UNCHANGED code

\* The displacement will be inserted right after the opcode.
EncodeJump ==
  /\ Encoding_ /\ assembly[at].class \in Labelled
  /\ labels' = [labels EXCEPT ![assembly[at].args[1]].sources = Append(@, Len(code) + 1)]
  /\ Emit(assembly[at])
  /\ Advance

Links ==
  LET LinksTo(l) == [n \in DOMAIN labels[l].sources |->
                       [source |-> labels[l].sources[n], target |-> labels[l].target, size |-> 0]]
  IN FlattenSeq([l \in 1 .. Cardinality(DOMAIN labels) |-> LinksTo(l)])

LinkLabels ==
  /\ phase = "encode" /\ at > Len(assembly)
  /\ links' = Links
  /\ phase' = IF Links = <<>> THEN "running" ELSE "size"
  /\ at' = 1
  /\ UNCHANGED <<program, assembly, code, labels, change, passes, ip>>

------------------------------------------------------------------------------
(* Choose the sizes of the displacements.                                  *)

\* Where the links' two ends are in the bytecode, in the order of addresses:
\* a source comes before a target at the same address (jumpLink_less).
EndKey(link, end) == IF end = "target" THEN 2 * link.target + 1 ELSE 2 * link.source
Ends ==
  LET unsized == Links
      ends == (DOMAIN unsized) \X {"source", "target"}
      Key(e) == EndKey(unsized[e[1]], e[2])
      Before(d, e) == Key(d) < Key(e) \/ (Key(d) = Key(e) /\ d[1] < e[1])
      Earlier(e) == {d \in ends : Before(d, e)}
  IN [n \in 1 .. Cardinality(ends) |-> CHOOSE e \in ends : Cardinality(Earlier(e)) = n - 1]

Displacement(link) == link.target - (link.source + link.size)
Fits(displacement, size) ==
  CASE size = 1 -> displacement \in -128 .. 127
    [] size = 2 -> displacement \in -32768 .. 32767
    [] OTHER -> TRUE
SizeFor(displacement) ==
  CASE Fits(displacement, 1) -> 1
    [] Fits(displacement, 2) -> 2
    [] OTHER -> 4

\* One end: a target moves by what was inserted before it in this pass; a source moves, and its
\* size is chosen by the distance to a target that has not moved yet when it lies ahead.
ShiftEndForgetsSource(pass, end) ==
  LET index == end[1]
      link == pass.links[index]
      size == SizeFor(Displacement([link EXCEPT !.source = @ + pass.offset]))
  IN IF end[2] = "target"
     THEN [pass EXCEPT !.links[index].target = @ + pass.offset]
     ELSE [ links |-> [pass.links EXCEPT ![index].size = size],
            offset |-> pass.offset + size - link.size ]
ShiftEnd(pass, end) ==
  LET index == end[1]
      link == pass.links[index]
      moved == [link EXCEPT !.source = @ + pass.offset]
      size == SizeFor(Displacement(moved))
  IN IF end[2] = "target"
     THEN [pass EXCEPT !.links[index].target = @ + pass.offset]
     ELSE [ links |-> [pass.links EXCEPT ![index] = [moved EXCEPT !.size = size]],
            offset |-> pass.offset + size - link.size ]

\* A pass over all ends.
Pass ==
  LET ends == Ends
      pass[n \in 0 .. Len(ends)] ==
        IF n = 0 THEN [links |-> links, offset |-> 0] ELSE ShiftEnd(pass[n - 1], ends[n])
  IN pass[Len(ends)]

SizePass ==
  /\ phase = "size"
  /\ \E pass \in {Pass} :
       /\ links' = pass.links
       /\ change' = pass.offset
       /\ passes' = passes + 1
       /\ phase' = IF pass.offset = 0 \/ passes + 1 = MaxPasses THEN "insert" ELSE "size"
  /\ UNCHANGED <<program, assembly, at, code, labels, ip>>

Total(widths) ==
  LET sum[n \in 0 .. Len(widths)] == IF n = 0 THEN 0 ELSE sum[n - 1] + widths[n]
  IN sum[Len(widths)]

\* The displacements go where the opcodes are, whatever the addresses in the links have become:
\* what the first n - 1 links have inserted before the opcode of a link.
Inserted(link, n) ==
  Total([j \in DOMAIN links |->
           IF j < n /\ Links[j].source < Links[link].source THEN links[j].size ELSE 0])
OpcodeOf(link, n) == Links[link].source + Inserted(link, n)
InsertDisplacement ==
  /\ phase = "insert" /\ at <= Len(links)
  /\ LET source == OpcodeOf(at, at)
         size == links[at].size
         opcode == code[source] + (CASE size = 1 -> 0 [] size = 2 -> 1 [] OTHER -> 2)
     IN code' = SubSeq(code, 1, source - 1) \o <<opcode>>
                  \o Written(Displacement(links[at]), size)
                  \o SubSeq(code, source + 1, Len(code))
  /\ at' = at + 1
  /\ UNCHANGED <<phase, program, assembly, labels, links, change, passes, ip>>

EndAssembly ==
  /\ phase = "insert" /\ at > Len(links)
  /\ phase' = "running" /\ at' = 1
  /\ UNCHANGED <<program, assembly, code, labels, links, change, passes, ip>>

------------------------------------------------------------------------------
(* The virtual machine walks the bytecode.                                 *)

Instructions(p) == {k \in DOMAIN p : p[k].class \notin {"label", "internalNop"}}
NextInstruction(k) ==
  LET rest == {j \in Instructions(assembly) : j >= k}
  IN IF rest = {} THEN Len(assembly) + 1 ELSE Min(rest)
LabelAt(l) == CHOOSE k \in DOMAIN assembly : assembly[k] = Instruction("label", <<l>>)
Expected == NextInstruction(at)

GoTo(address, k) ==
  /\ ip' = address
  /\ at' = k
  /\ UNCHANGED <<phase, program, assembly, code, labels, links, change, passes>>

InTheCode == phase = "running" /\ ip \in 0 .. Len(code) - 1 /\ Expected <= Len(assembly)
\* Where a displacement leads: it counts from the byte after it.
Destination(i) == ip + 1 + i.size + i.fields[1]

RunStraight ==
  /\ InTheCode
  /\ \E i \in {Fetch(code, ip)} :
       /\ i.class \notin {"jump", "return", "halt"}
       /\ GoTo(i.next, Expected + 1)

\* A jump, a branch that is taken, and a call of the closure that is pushed here.
RunJump ==
  /\ InTheCode
  /\ \E i \in {Fetch(code, ip)} :
       /\ i.class \in Labelled
       /\ assembly[Expected].class \in Labelled
       /\ GoTo(Destination(i), LabelAt(assembly[Expected].args[1]))

Next ==
  \/ RemovePush \/ MergePops \/ LeaveInstruction \/ EndPeephole
  \/ SkipNop \/ EncodeInstruction \/ PlaceLabel \/ EncodeJump \/ LinkLabels
  \/ SizePass \/ InsertDisplacement \/ EndAssembly
  \/ RunStraight \/ RunJump

Spec == Init /\ [][Next]_vars

------------------------------------------------------------------------------
(* Properties.                                                             *)

\* The variables have their types.
TypeOK ==
  /\ phase \in {"peephole", "encode", "size", "insert", "running"}
  /\ Len(assembly) = Len(program)
  /\ at \in 1 .. Max({Len(assembly), Len(links)}) + 1
  /\ \A n \in DOMAIN code : code[n] \in 0 .. 255
  /\ \A n \in DOMAIN links : links[n].size \in {0, 1, 2, 4}
  /\ passes \in 0 .. MaxPasses

\* The values a straight piece of assembly leaves on a deep stack, seen at every instruction
\* that is not a plain push or pop: pushes are told apart by their places in the program.
Caller == [n \in 1 .. 12 |-> -n]
Start == [stack |-> Caller, seen |-> <<>>]
Step(i, run, k) ==
  CASE IsPop(i) -> [run EXCEPT !.stack = SubSeq(@, 1, Len(@) - i.args[1])]
    [] i.class = "internalNop" -> run
    [] i.class \in Pushes -> [run EXCEPT !.stack = Append(@, k)]
    [] OTHER -> [run EXCEPT !.seen = Append(@, <<k, run.stack>>)]
Run(p) ==
  LET run[k \in 0 .. Len(p)] == IF k = 0 THEN Start ELSE Step(p[k], run[k - 1], k)
  IN run
Seen(p) == Append(Run(p)[Len(p)].seen, Run(p)[Len(p)].stack)

\* The peephole pass removes pushes and pops only where no one can tell: every other
\* instruction, every label included, finds the stack that the compiler meant.
PeepholeKeepsStacks == phase = "encode" => Seen(assembly) = Seen(program)

\* Every edit keeps what is seen, so that it is kept whenever the pass stops.
PeepholeInv ==
  /\ program \in Assemblies /\ assembly \in Assemblies
  /\ Len(assembly) = Len(program)
  /\ phase \in {"peephole", "encode"} => at \in Nat \ {0}
  /\ Seen(assembly) = Seen(program)

\* The operands that the virtual machine should find.  Strings and symbols: only their numbers.
Operands(i) ==
  CASE i.class = "releaseUpvalues" -> i.args
    [] i.class = "pushStrippedSymbol" -> <<i.args[1]>>
    [] i.class \in Labelled -> Tail(i.args)
    [] i.class = "return" /\ i.args[1] = 0 -> <<>>
    [] OTHER -> i.args
Found(f) ==
  CASE f.class = "releaseUpvalues" -> f.items
    [] f.class = "vector" -> f.fields \o f.items
    [] f.class = "pushBoolean" -> <<f.size>>
    [] f.class \in ClosurePushes -> <<f.fields[2]>> \o f.items
    [] f.class \in Labelled -> Tail(f.fields)
    [] OTHER -> f.fields

\* Known limits of the encoding: an operand that did not choose the size of its instruction
\* is wider than that size.
Truncated(i) ==
  LET Wider(n, m) == Width(i.args[n]) > Width(i.args[m]) IN
  CASE i.class = "vector" -> \E n \in 2 .. Len(i.args) : Wider(n, 1)
    [] i.class = "setUpvalue" -> Width(i.args[1]) > 1 \/ Wider(2, 1)
    [] i.class \in {"setVecElt", "substring"} -> Wider(3, 1) /\ Wider(3, 2)
    [] i.class = "releaseUpvalues" -> \E n \in DOMAIN i.args : Width(i.args[n]) > 1
    [] OTHER -> FALSE

AllFit == \A n \in DOMAIN links : Fits(Displacement(links[n]), links[n].size)

\* Bytecode that can be read at all: the virtual machine takes one byte for the count of the
\* upvalues to release, which is not what the assembler writes for wide indices.
Readable ==
  /\ AllFit
  /\ \A k \in DOMAIN assembly : assembly[k].class = "releaseUpvalues" => ~Truncated(assembly[k])

\* Where the virtual machine is in the bytecode, it finds the instruction, and the operands,
\* that the assembly has there; every jump, branch and closure leads to its label.
VmFollowsAssembly ==
  phase = "running" /\ Readable /\ Expected <= Len(assembly) =>
    LET i == assembly[Expected] IN
    /\ ip \in 0 .. Len(code) - 1
    /\ Fetch(code, ip).class = i.class
    /\ Truncated(i) \/ Found(Fetch(code, ip)) = Operands(i)

\* The disassembler takes each instruction apart as the virtual machine does, but for stripped
\* symbols and for vectors with elements of less than four bytes.
DisassemblerInStep ==
  phase = "running" /\ Readable /\ Expected <= Len(assembly) =>
    LET i == assembly[Expected] IN
    \/ i.class \in {"vector", "pushStrippedSymbol"}
    \/ Disassembled(code, ip) = VmParsed(code, ip)

\* The addresses in the links are those of the finished bytecode: they were shifted by all
\* that is inserted before them, pass by pass, and by nothing else.
InsertedBefore(key) ==
  Total([k \in DOMAIN links |-> IF EndKey(Links[k], "source") < key THEN links[k].size ELSE 0])
LinksAreExact ==
  phase = "insert" =>
    \A k \in DOMAIN links :
      /\ links[k].source = Links[k].source + InsertedBefore(EndKey(Links[k], "source"))
      /\ links[k].target = Links[k].target + InsertedBefore(EndKey(Links[k], "target"))

\* Why: each jump has one source, at an address of its own in the code so far, under one label.
LabelsInv ==
  /\ Cardinality(DOMAIN labels) \in Nat
  /\ DOMAIN labels = 1 .. Cardinality(DOMAIN labels)
  /\ labels \in [DOMAIN labels -> [target : Int, sources : Seq(Nat)]]
  /\ \A k \in DOMAIN assembly :
       assembly[k].class \in Labelled \cup {"label"} => assembly[k].args[1] \in DOMAIN labels
  /\ \A l, m \in DOMAIN labels :
       \A i \in DOMAIN labels[l].sources, j \in DOMAIN labels[m].sources :
         labels[l].sources[i] = labels[m].sources[j] => l = m /\ i = j
  /\ phase \in {"peephole", "encode"} =>
       /\ code \in Seq(Range(code))
       /\ \A l \in DOMAIN labels : \A i \in DOMAIN labels[l].sources :
            labels[l].sources[i] <= Len(code)

\* Between passes the addresses are exact for the sizes that the last pass chose.
LinksInv ==
  phase \in {"size", "insert"} =>
    /\ links \in [DOMAIN Links -> [source : Int, target : Int, size : Int]]
    /\ \A k \in DOMAIN links :
         /\ links[k].source = Links[k].source + InsertedBefore(EndKey(Links[k], "source"))
         /\ links[k].target = Links[k].target + InsertedBefore(EndKey(Links[k], "target"))

\* Every displacement is inserted behind the opcode of a jump that has none yet, however many
\* were inserted before it; and the opcode has room to grow by its size.
Awaiting == {Opcode(class, 1) : class \in Labelled}
AwaitsAt(n) == n \in DOMAIN code /\ code[n] \in Awaiting
OpcodesInv ==
  /\ code \in Seq(0 .. 255)
  /\ phase \in {"peephole", "encode"} =>
       \A l \in DOMAIN labels : \A i \in DOMAIN labels[l].sources : AwaitsAt(labels[l].sources[i])
  /\ phase \in {"size", "insert"} => \A k \in at .. Len(links) : AwaitsAt(OpcodeOf(k, at))

\* The types, part by part.
PhasesInv ==
  /\ phase \in {"peephole", "encode", "size", "insert", "running"}
  /\ phase \in {"peephole", "encode", "running"} => at \in 1 .. Len(assembly) + 1
  /\ phase \in {"peephole", "encode"} => passes = 0
  /\ phase = "size" => at = 1 /\ passes < MaxPasses
  /\ phase = "insert" => at \in 1 .. Len(links) + 1
  /\ passes \in 0 .. MaxPasses
  /\ links \in Seq([source : Int, target : Int, size : {0, 1, 2, 4}])
  /\ \A l \in DOMAIN labels : \E k \in DOMAIN assembly : assembly[k] = Instruction("label", <<l>>)

\* Every jump can hold the distance to its target.
DisplacementsFit == phase = "insert" => AllFit

\* The loop over the sizes ends by itself, before it is cut off after ten passes.
SizesSettle == phase = "insert" => change = 0
=============================================================================
