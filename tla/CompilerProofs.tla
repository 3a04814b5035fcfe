--------------------------- MODULE CompilerProofs ---------------------------
(***************************************************************************)
(* The proofs about compile and link_import, for every set of modules, of  *)
(* names and of addresses: the inductive invariant Inv, which joins what   *)
(* compile knows (Base) with what the optimiser keeps (Optimizing), and the*)
(* invariants of Compiler that follow from it.                             *)
(***************************************************************************)
EXTENDS Compiler, LayoutProofs, CodeProofs

Base ==
  /\ Stage(pc, input, rest, c)
  /\ pc = "done" => Assembled(c, bound, binary) /\ SlotsLinked(c, bound, binary, linked)
  /\ pc # "done" => bound = <<>> /\ binary = <<>> /\ linked = <<>>

LEMMA BaseInit ==
  ASSUME Inductive, Init
  PROVE  Base
BY AssemblerKept, StagesKept DEF Init, Base

LEMMA SectionKeeps ==
  ASSUME Inductive, Base, NEW kind \in ItemSections, ReadSection(kind)
  PROVE  Base' /\ pc' = "parse" /\ UNCHANGED opt_vars
<1>1. /\ pc = "parse" /\ rest # <<>> /\ Head(rest).kind = kind /\ Head(rest).valid
      /\ c' = ReadItems(Head(rest).kind, c, Head(rest).items)
      /\ c'.function_index <= MaxFunctions
      /\ rest' = Tail(rest)
      /\ pc' = pc /\ input' = input /\ UNCHANGED <<bound, binary, linked, opt_vars>>
  BY DEF ReadSection, Section, Payload, Read
<1>2. Stage("parse", input, rest, c) /\ bound = <<>> /\ binary = <<>> /\ linked = <<>>
  BY <1>1 DEF Base
<1>3. Stage("parse", input, Tail(rest), c')
  BY <1>1, <1>2, AssemblerKept, StagesKept
<1> QED
  BY <1>1, <1>2, <1>3 DEF Base

LEMMA ParseKeeps ==
  ASSUME Inductive, Base, CodeSectionEntry \/ OtherSection
  PROVE  Base' /\ pc' = "parse" /\ UNCHANGED opt_vars
<1>1. /\ pc = "parse" /\ rest # <<>>
      /\ rest' = Tail(rest)
      /\ pc' = pc /\ input' = input /\ UNCHANGED <<bound, binary, linked, opt_vars>>
  BY DEF CodeSectionEntry, OtherSection, Section, Payload
<1>2. Stage("parse", input, rest, c) /\ bound = <<>> /\ binary = <<>> /\ linked = <<>>
  BY <1>1 DEF Base
<1>3. Stage("parse", input, Tail(rest), c')
  <2>1. CASE CodeSectionEntry
    <3>1. /\ Head(rest).kind = "Code" /\ c.function_body_index \in c.got
          /\ Generated.status = "ok" /\ c' = AddBody(c, Generated)
      BY <2>1 DEF CodeSectionEntry, Section, Payload
    <3>2. Position(input, rest, c) /\ ContextOK(c)
      BY <1>2 DEF Stage, Static, Indices
    <3>3. Head(rest).locals \in Seq(LocalRun) /\ Head(rest).body \in Seq(WasmOperator)
      <4>1. Head(rest) \in AnyPayload
        BY <1>1, <3>2, Advance
      <4>2. Head(rest) \in CodeEntry
        BY <3>1, <4>1, Zenon DEF AnyPayload, SectionOf
      <4> QED
        BY <4>2 DEF CodeEntry
    <3>4. IsBody(c, Generated.code)
      BY <3>1, <3>2, <3>3, FunctionCode DEF IsBody, Generated
    <3> QED
      BY <1>1, <1>2, <3>1, <3>4, AssemblerKept, StagesKept, Zenon
  <2>2. CASE OtherSection
    <3>1. Head(rest).kind = "Other" /\ c' = c
      BY <2>2 DEF OtherSection, Section, Payload
    <3> QED
      BY <1>1, <1>2, <3>1, AssemblerKept, StagesKept, Zenon
  <2> QED
    BY <2>1, <2>2
<1> QED
  BY <1>1, <1>2, <1>3 DEF Base

LEMMA StopKeeps ==
  ASSUME Base,
         CodeSectionEntryRejected \/ CodeSectionEntryPanics \/ Rejected \/ AssemblerError
  PROVE  Base' /\ pc' \in {"err", "panic"} /\ UNCHANGED opt_vars
<1>1. /\ pc # "done" /\ pc' \in {"err", "panic"}
      /\ UNCHANGED <<input, rest, c, bound, binary, linked, opt_vars>>
  BY DEF CodeSectionEntryRejected, CodeSectionEntryPanics, Rejected, AssemblerError, Stop,
     Section, Payload
<1> QED
  BY <1>1 DEF Base, Stage

LEMMA EndKeeps ==
  ASSUME Base, End
  PROVE  Base'
<1>1. /\ pc = "parse" /\ rest # <<>> /\ Head(rest).kind = "End" /\ pc' = "optimize"
      /\ c.function_body_index = c.function_index
      /\ UNCHANGED <<input, rest, c, bound, binary, linked>>
  BY DEF End, Section, Payload
<1>2. Head(rest) = rest[1]
  BY <1>1, Advance DEF Base, Stage
<1> QED
  BY <1>1, <1>2 DEF Base, Stage

LEMMA BindKeeps ==
  ASSUME Inductive, Base, Bind
  PROVE  Base' /\ pc' = "done" /\ UNCHANGED opt_vars
<1>1. /\ pc = "bind" /\ pc' = "done" /\ UNCHANGED <<input, rest, linked, opt_vars>>
      /\ bound' = BoundCode(c).bound /\ binary' = BoundCode(c).code
      /\ c' = [c EXCEPT !.entries = BoundCode(c).entries]
  BY DEF Bind
<1>2. Stage("bind", input, rest, c) /\ linked = <<>>
  BY <1>1 DEF Base
<1>3. /\ Stage("done", input, rest, c')
      /\ Assembled(c', bound', binary') /\ SlotsLinked(c', bound', binary', <<>>)
  <2>1. Stage("done", input, rest, c')
    BY <1>1, <1>2, AssemblerKept, StagesKept, Zenon
  <2>2. Assembled(c', bound', binary') /\ SlotsLinked(c', bound', binary', <<>>)
    BY <1>1, <1>2, AssemblerKept, Zenon
  <2> QED
    BY <2>1, <2>2, Zenon
<1> QED
  BY <1>1, <1>2, <1>3, Zenon DEF Base

LEMMA LinkKeeps ==
  ASSUME Inductive, Base, Link
  PROVE  /\ Base' /\ pc' = "done" /\ UNCHANGED opt_vars
         /\ \A k \in DOMAIN binary : binary'[k] # binary[k] => \E f \in c.ils : k = SlotOf(bound, f)
<1>1. PICK link \in LinkNames, addr \in Addresses : LinkImport(link, addr)
  BY DEF Link
<1>2. /\ pc = "done" /\ UNCHANGED <<pc, input, rest, c, bound, opt_vars>>
      /\ binary' = link_import(binary, c.imports, link, addr)
      /\ linked' = LinksAfter(c, linked, link, addr)
  BY <1>1 DEF LinkImport, LinksAfter
<1>3. /\ Stage("done", input, rest, c)
      /\ Assembled(c, bound, binary) /\ SlotsLinked(c, bound, binary, linked)
  BY <1>2 DEF Base
<1>4. Imported(c) /\ c.ils \subseteq Nat
  BY <1>3 DEF Stage, Static, Indices
<1>5. /\ Assembled(c, bound, binary') /\ SlotsLinked(c, bound, binary', linked')
      /\ \A k \in DOMAIN binary : binary'[k] # binary[k] => \E f \in c.ils : k = SlotOf(bound, f)
  <2>1. ASSUME NEW bin2, NEW links2, bin2 = link_import(binary, c.imports, link, addr),
               links2 = LinksAfter(c, linked, link, addr)
        PROVE  /\ Assembled(c, bound, bin2) /\ SlotsLinked(c, bound, bin2, links2)
               /\ \A k \in DOMAIN binary : bin2[k] # binary[k] => \E f \in c.ils : k = SlotOf(bound, f)
    <3>1. \A m, bnd, bin, links, b2, l2 : \A name \in LinkNames, a \in Addresses :
            /\ Imported(m) /\ m.ils \subseteq Nat
            /\ Assembled(m, bnd, bin) /\ SlotsLinked(m, bnd, bin, links)
            /\ b2 = link_import(bin, m.imports, name, a)
            /\ l2 = LinksAfter(m, links, name, a)
            => /\ Assembled(m, bnd, b2)
               /\ SlotsLinked(m, bnd, b2, l2)
               /\ \A k \in DOMAIN bin : b2[k] # bin[k] => \E f \in m.ils : k = SlotOf(bnd, f)
      BY AssemblerKept, Zenon
    <3> QED
      BY <2>1, <1>3, <1>4, <3>1
  <2> QED
    BY <2>1, <1>2
<1> QED
  BY <1>2, <1>3, <1>5 DEF Base

-----------------------------------------------------------------------------
LEMMA BaseCalls == Base => CallsResolve
<1> SUFFICES ASSUME Base, pc = "done",
                    NEW k \in DOMAIN binary,
                    NEW label \in {binary[k].op0, binary[k].op1} \cap AllLabels
             PROVE  /\ label \in DOMAIN bound
                    /\ IF label = FunctionLabel(label[2])
                       THEN Offset(binary, bound[label]) = c.entries[label[2]]
                       ELSE Offset(binary, bound[label]) = c.imports[label[2]].offset
  BY DEF CallsResolve, Offset
<1>1. Assembled(c, bound, binary)
  BY DEF Base
<1>2. label \in Operand(c.got, c.ils)
  <2>1. binary[k] \in Instr(c.got, c.ils)
    BY <1>1 DEF Assembled
  <2> QED
    BY <2>1, SMTT(30) DEF Instr
<1>3. /\ label[1] \in OperandNames
      /\ label[1] = "got" => label[2] \in c.got
      /\ label[1] = "ils" => label[2] \in c.ils
  BY <1>2 DEF Operand
<1>4. \/ label = FunctionLabel(label[2]) /\ label[1] = "got"
      \/ label = ImportLabel(label[2]) /\ label[1] = "ils" /\ label # FunctionLabel(label[2])
  BY <1>3, SMTT(30) DEF AllLabels, FunctionLabel, ImportLabel, SlotLabel, OperandNames, RegisterNames
<1> QED
  BY <1>1, <1>3, <1>4 DEF Assembled

LEMMA BaseExports == Base => ExportsResolve
<1> SUFFICES ASSUME Base, pc = "done", NEW p \in Range(input), p.kind = "Export",
                    NEW e \in Range(p.items)
             PROVE  function_entry_point(c, find_exported(c, e.name)) =
                      IF e.index \in c.got THEN {c.entries[e.index]} ELSE {}
  BY DEF ExportsResolve
<1>1. Stage("done", input, rest, c) /\ Assembled(c, bound, binary)
  BY DEF Base
<1>2. Position(input, rest, c) /\ rest # <<>> /\ rest[1].kind = "End"
  BY <1>1, SMTT(30) DEF Stage
<1>3. /\ Taken(input, rest) \in Nat /\ Taken(input, rest) + 1 \in 1 .. Len(input)
      /\ DOMAIN input = 1 .. Len(input) /\ input[Taken(input, rest) + 1].kind = "End"
  BY <1>2, Advance
<1>4. Len(input) = Taken(input, rest) + 1 /\ Len(input) \in Nat
  BY <1>2, <1>3, CompilerAssumption DEF Position, EndIsLast
<1>5. PICK k \in 1 .. Len(input) : p = input[k]
  BY <1>3 DEF Range
<1>6. k \in 1 .. Taken(input, rest)
  BY <1>3, <1>4, <1>5
<1>7. Exported(c, p.items, Len(p.items))
  BY <1>2, <1>5, <1>6, Zenon DEF Position
<1>8. DOMAIN p.items = 1 .. Len(p.items)
  BY <1>2, <1>5, CompilerAssumption DEF Position, AnyPayload, SectionOf, CodeEntry
<1>9. e.name \in DOMAIN c.exports /\ c.exports[e.name] = e.index
  BY <1>7, <1>8, Zenon DEF Exported, Range
<1>10. DOMAIN c.entries = c.got
  BY <1>1, Zenon DEF Assembled
<1> QED
  BY <1>9, <1>10 DEF function_entry_point, find_exported, find_function

LEMMA BaseLinkedSlots == Base => LinkedSlots
BY DEF Base, SlotsLinked, SlotOf, LinkedSlots, SlotIndex

LEMMA BaseOnlySlots ==
  ASSUME Inductive, Base, [Next]_vars, pc = "done", NEW k \in DOMAIN binary, binary'[k] # binary[k]
  PROVE  \E f \in c.ils : k = SlotIndex(f)
<1>1. CASE Link
  BY <1>1, LinkKeeps, Zenon DEF SlotOf, SlotIndex
<1>2. CASE Compile
  BY <1>2, SMTT(30) DEF Compile, TypeSection, ImportSection, FunctionSection, MemorySection, ExportSection,
     ReadSection, CodeSectionEntry, CodeSectionEntryRejected, CodeSectionEntryPanics, OtherSection,
     Rejected, NeedMoreData, End, Optimize, Optimized, Bind, AssemblerError, Section, Payload
<1>3. CASE UNCHANGED vars
  BY <1>3 DEF vars, compile_vars
<1> QED
  BY <1>1, <1>2, <1>3 DEF Next

-----------------------------------------------------------------------------
(* The invariant that a supported module adds. *)
SupportedRead == Supported(input) => TypesSupported(c)

(* The payload that is read next is one of the module. *)
LEMMA NextPayload ==
  ASSUME Base, pc = "parse", rest # <<>>
  PROVE  /\ Head(rest) \in AnyPayload /\ Head(rest) \in Range(input)
         /\ Static(c) /\ DOMAIN c = Fields
<1>1. Stage("parse", input, rest, c)
  BY DEF Base
<1>2. Static(c) /\ Position(input, rest, c)
  BY <1>1 DEF Stage
<1> QED
  BY <1>2, Advance DEF Range, Static

LEMMA SupportedReadKept ==
  ASSUME Inductive, Base, SupportedRead, [Next]_vars
  PROVE  SupportedRead' /\ input' = input
<1>1. ASSUME input' = input, c'.typedefs = c.typedefs
      PROVE  SupportedRead' /\ input' = input
  BY <1>1 DEF SupportedRead, TypesSupported
<1>2. ASSUME NEW kind \in ItemSections, ReadSection(kind)
      PROVE  SupportedRead' /\ input' = input
  <2> DEFINE p == Head(rest)
  <2>1. /\ pc = "parse" /\ rest # <<>> /\ p.kind = kind /\ input' = input
        /\ c' = ReadItems(p.kind, c, p.items)
    BY <1>2 DEF ReadSection, Section, Payload, Read
  <2>2. p \in AnyPayload /\ p \in Range(input) /\ DOMAIN c = Fields
    BY <2>1, NextPayload
  <2> HIDE DEF p
  <2>3. Len(p.items) \in Nat /\ DOMAIN p.items = 1 .. Len(p.items)
    BY <2>1, <2>2, PayloadItems, Zenon
  <2>4. ASSUME Supported(input), NEW k \in 1 .. Len(p.items), p.kind = "Type", p.items[k].kind = "Func"
        PROVE  SupportedType(p.items[k])
    <3>1. p.items[k] \in Range(p.items)
      BY <2>3 DEF Range
    <3> QED
      BY <2>2, <2>4, <3>1 DEF Supported, SupportedType
  <2>5. ASSUME Supported(input) PROVE TypesSupported(c')
    BY <2>1, <2>2, <2>3, <2>4, <2>5, AssemblerKept, StagesKept, Zenon DEF SupportedRead
  <2> QED
    BY <2>1, <2>5 DEF SupportedRead
<1>3. CASE TypeSection \/ ImportSection \/ FunctionSection \/ MemorySection \/ ExportSection
  BY <1>2, <1>3 DEF ItemSections, TypeSection, ImportSection, FunctionSection, MemorySection,
     ExportSection
<1>4. CASE CodeSectionEntry
  <2>1. pc = "parse" /\ rest # <<>> /\ input' = input /\ c' = AddBody(c, Generated)
    BY <1>4 DEF CodeSectionEntry, Section, Payload
  <2>2. Unchanged(c, c', {"function_bodies", "label_indices", "code", "heights",
                          "function_body_index"})
    BY <2>1, NextPayload, BodyFields, Zenon
  <2>3. c'.typedefs = c.typedefs
    BY <2>2 DEF Unchanged, Fields
  <2> QED
    BY <1>1, <2>1, <2>3
<1>5. CASE Optimized \/ Bind
  <2>1. DOMAIN c = Fields
    BY DEF Base, Stage, Static
  <2>2. input' = input /\ c'.typedefs = c.typedefs
    BY <1>5, <2>1, Zenon DEF Optimized, Bind, Fields
  <2> QED
    BY <1>1, <2>2
<1>6. CASE \/ CodeSectionEntryRejected \/ CodeSectionEntryPanics \/ OtherSection \/ Rejected
           \/ NeedMoreData \/ End \/ Optimize \/ AssemblerError \/ Link \/ UNCHANGED vars
  <2>1. input' = input /\ c' = c
    BY <1>6, Zenon DEF CodeSectionEntryRejected, CodeSectionEntryPanics, OtherSection, Rejected,
       NeedMoreData, End, Optimize, AssemblerError, Link, LinkImport, Stop, vars, compile_vars
  <2> QED
    BY <1>1, <2>1, Zenon
<1> QED
  BY <1>3, <1>4, <1>5, <1>6, Zenon DEF Next, Compile

(* Only a body makes compile panic, and nothing happens after that. *)
LEMMA PanicStep ==
  ASSUME [Next]_vars, pc' = "panic"
  PROVE  /\ UNCHANGED <<input, rest, c>>
         /\ pc = "panic" \/ CodeSectionEntryPanics
BY DEF Next, Compile, TypeSection, ImportSection, FunctionSection, MemorySection,
   ExportSection, ReadSection, CodeSectionEntry, CodeSectionEntryPanics, CodeSectionEntryRejected,
   OtherSection, Rejected, NeedMoreData, End, Optimize, Optimized, Bind, AssemblerError, Link,
   LinkImport, Stop, Section, Payload, vars, compile_vars

(* A body of a supported module makes compile panic only when a type is    *)
(* not found where it is declared.                                         *)
LEMMA SupportedStep ==
  ASSUME Inductive, Base, SupportedRead, PanicsExplained, [Next]_vars
  PROVE  PanicsExplained'
<1>1. SUFFICES ASSUME pc' = "panic", Supported(input)'
               PROVE  (/\ rest # <<>> /\ Head(rest).kind = "Code"
                       /\ ~BodyTypesFound(c, c.function_body_index, Head(rest).body))'
  BY Zenon DEF PanicsExplained
<1>2. /\ Supported(input) /\ UNCHANGED <<input, rest, c>>
      /\ pc = "panic" \/ CodeSectionEntryPanics
  BY <1>1, PanicStep, Zenon
<1> DEFINE p == Head(rest)
<1>3. rest # <<>> /\ p.kind = "Code" /\ ~BodyTypesFound(c, c.function_body_index, p.body)
  <2>1. CASE pc = "panic"
    BY <1>2, <2>1, Zenon DEF PanicsExplained
  <2>2. CASE CodeSectionEntryPanics
    <3>1. /\ pc = "parse" /\ rest # <<>> /\ p.kind = "Code"
          /\ c.function_body_index \in c.got /\ Generated.status = "panic"
      BY <2>2 DEF CodeSectionEntryPanics, Payload
    <3>2. p \in AnyPayload /\ p \in Range(input) /\ Static(c)
      BY <3>1, NextPayload
    <3>3. ContextOK(c) /\ c.function_body_index \in DOMAIN c.types
      BY <3>1, <3>2 DEF Static, Indices
    <3>4. p.locals \in Seq(LocalRun) /\ p.body \in Seq(WasmOperator)
      <4>1. p \in CodeEntry
        BY <3>1, <3>2 DEF AnyPayload, SectionOf
      <4> QED
        BY <4>1 DEF CodeEntry
    <3>5. /\ \A d \in Range(p.locals) : d.ty \in Sized /\ d.count <= MaxLocals
          /\ \A op \in Range(p.body) : op.name \notin Unsupported
      BY <1>2, <3>1, <3>2, Zenon DEF Supported
    <3>6. TypesSupported(c)
      BY <1>2, Zenon DEF SupportedRead
    <3> DEFINE f == c.function_body_index
    <3> HIDE DEF p, f
    <3>7. BodyTypesFound(c, f, p.body) => GenFunction(c, f, p.valid, p.locals, p.body).status # "panic"
      BY <3>3, <3>4, <3>5, <3>6, FunctionCode DEF f
    <3>8. GenFunction(c, f, p.valid, p.locals, p.body).status = "panic"
      BY <3>1, Zenon DEF Generated, f, p
    <3> QED
      BY <3>1, <3>7, <3>8, Zenon DEF f
  <2> QED
    BY <1>2, <2>1, <2>2
<1> QED
  BY <1>2, <1>3

-----------------------------------------------------------------------------
LEMMA IndexOfLabel ==
  ASSUME Static(c), c.function_index <= MaxFunctions
  PROVE  /\ \A j \in 1 .. Len(c.label_indices) :
              /\ c.label_indices[j].label \in AllLabels
              /\ IndexOf(c.label_indices[j].label) = c.label_indices[j].index
         /\ \A l \in AllLabels : IndexOf(l) = 0 \/ \E j \in 1 .. Len(c.label_indices) :
                                                    IndexOf(l) = c.label_indices[j].index
<1>1. /\ DOMAIN c.label_indices = 1 .. Len(c.label_indices)
      /\ \A i, j \in 1 .. Len(c.label_indices) :
           c.label_indices[i].label = c.label_indices[j].label => i = j
  BY DEF Static, Labelled
<1>2. ASSUME NEW j \in 1 .. Len(c.label_indices)
      PROVE  IndexOf(c.label_indices[j].label) = c.label_indices[j].index
  <2>1. c.label_indices[j] \in Range(c.label_indices)
    BY <1>1, SMTT(30) DEF Range
  <2>2. \A i \in Range(c.label_indices) :
          i.label = c.label_indices[j].label => i = c.label_indices[j]
    BY <1>1 DEF Range
  <2> QED
    BY <2>1, <2>2 DEF IndexOf
<1>3. \A l \in AllLabels : IndexOf(l) = 0 \/ \E j \in 1 .. Len(c.label_indices) :
                                              IndexOf(l) = c.label_indices[j].index
  BY <1>1, Zenon DEF IndexOf, Range
<1> QED
  BY <1>2, <1>3, LabelsKnown, Zenon

(* The call of optimize: the theorems about the optimiser, for the code    *)
(* and the labels of this compiler.                                        *)
OP == INSTANCE OptimizerProofs WITH
        pc <- opt_pc,
        Registers <- {Reg(r) : r \in RegisterNames},
        Operands <- OperandNames \X Int,
        OtherCodes <- AllCodes,
        Labels <- AllLabels,
        Inputs <- {}

(* Where the labels of label_indices are, by the map of the optimiser. *)
LabelsOf(m, indices) == [j \in 1 .. Len(m.label_indices) |-> indices[m.label_indices[j].label]]

(* During optimize: the labels are apart in the code that they are indices *)
(* of, and the slots of the imports are before all that a pass changes.    *)
Optimizing ==
  /\ OP!IInv
  /\ OP!OperandsIn(current, Operand(c.got, c.ils))
  /\ OP!OperandsIn(new, Operand(c.got, c.ils))
  /\ Apart(c, IF opt_pc = "compare" THEN new ELSE current, LabelsOf(c, labels))
  /\ \E n \in 0 .. Len(current) : OP!PrefixInv(n) /\ SlotsIn(c, current, LabelsOf(c, labels), n)

Inv ==
  /\ Base
  /\ opt_pc \in {"idle", "pass", "compare", "done"}
  /\ pc = "optimize" => Optimizing

LEMMA OptimizerParameters ==
  /\ {Reg(r) : r \in RegisterNames} \subseteq OperandNames \X Int
  /\ AllCodes \cap {"Push_r64", "Pop_r64", "Mov_rm64_r64"} = {}
BY DEF Reg, OperandNames, AllCodes

LEMMA InstrOptimized ==
  ASSUME NEW got, NEW ils, NEW code \in Seq(Instr(got, ils))
  PROVE  code \in Seq(OP!Instruction) /\ OP!OperandsIn(code, Operand(got, ils))
<1>1. /\ Instr(got, ils) \subseteq OP!Instruction
      /\ \A i \in Instr(got, ils) : i.op0 \in Operand(got, ils) /\ i.op1 \in Operand(got, ils)
  BY DEF Instr, Operand, Codes, OP!Instruction
<1>2. \A k \in 1 .. Len(code) : code[k] \in Instr(got, ils)
  OBVIOUS
<1> QED
  BY <1>1, <1>2, SeqSubset, Zenon DEF OP!OperandsIn

LEMMA EndOptimizes ==
  ASSUME Base, End
  PROVE  Optimizing' /\ opt_pc' = "pass"
<1>1. /\ Static(c) /\ c.function_index <= MaxFunctions /\ Laid(c) /\ c' = c
      /\ opt_pc' = "pass" /\ current' = c.code /\ head_idx' = 0 /\ new' = <<>>
      /\ source' = <<>> /\ labels_' = labels'
      /\ labels' = [l \in AllLabels |-> IndexOf(l)]
  BY ZenonT(60) DEF Base, Stage, End, Section, Payload
<1> USE <1>1
<1>2. /\ Apart(c, c.code, AsIndexed(c)) /\ BehindFixed(c, c.code, AsIndexed(c))
      /\ \E n \in 0 .. Len(c.code) : SlotsIn(c, c.code, AsIndexed(c), n)
  BY DEF Laid
<1>3. LabelsOf(c, labels') = AsIndexed(c)
  BY IndexOfLabel, Zenon DEF LabelsOf, AsIndexed
<1>4. current' \in Seq(OP!Instruction) /\ OP!OperandsIn(c.code, Operand(c.got, c.ils))
  BY InstrOptimized, ZenonT(60) DEF Static
<1>5. /\ \A j \in 1 .. Len(c.label_indices) :
            LET k == c.label_indices[j].index
            IN k \in Nat /\ k < Len(c.code) /\ (k = 0 \/ c.code[k].code \in AllCodes)
      /\ Len(c.code) \in Nat
  <2>1. c.code \in Seq(Instr(c.got, c.ils))
    BY DEF Static
  <2>2. \A j \in 1 .. Len(c.label_indices) : AsIndexed(c)[j] = c.label_indices[j].index
    BY DEF AsIndexed
  <2> QED
    BY <1>2, <2>1, <2>2 DEF Apart, BehindFixed, FixedAt
<1>6. labels' \in [AllLabels -> Nat] /\ OP!LabelsBehindFixed(current', labels')
  <2>1. ASSUME NEW l \in AllLabels
        PROVE  /\ IndexOf(l) \in Nat /\ IndexOf(l) <= Len(c.code)
               /\ IndexOf(l) = 0 \/ c.code[IndexOf(l) - 1 + 1].code \in AllCodes
    <3>1. IndexOf(l) = 0 \/ \E j \in 1 .. Len(c.label_indices) :
                               IndexOf(l) = c.label_indices[j].index
      BY IndexOfLabel, Zenon
    <3> QED
      BY <1>5, <3>1
  <2> QED
    BY <2>1, ZenonT(60) DEF OP!LabelsBehindFixed, OP!Fixed, OP!At
<1>7. OP!IInv'
  BY <1>4, <1>6, OptimizerParameters, OP!StartStep, Zenon
<1>8. PICK n \in 0 .. Len(c.code) : SlotsIn(c, c.code, AsIndexed(c), n)
  BY <1>2, Zenon
<1>9. OP!PrefixInv(n)'
  <2>1. n \in Nat /\ n <= Len(current') /\ \A i \in 1 .. n : OP!Fixed(current'[i])
    BY <1>5, <1>8 DEF SlotsIn, FixedAt, OP!Fixed
  <2> QED
    BY <2>1, OptimizerParameters, OP!PrefixStart, Zenon
<1>10. OP!OperandsIn(new', Operand(c.got, c.ils))
  BY DEF OP!OperandsIn
<1> QED
  BY <1>2, <1>3, <1>4, <1>7, <1>8, <1>9, <1>10, Zenon DEF Optimizing

(* The two instances of the optimiser are the same specification. *)
LEMMA SameOptimizer ==
  /\ O!Next <=> OP!Next
  /\ O!Instruction = OP!Instruction
  /\ O!LabelsStayBehindFixed <=> OP!LabelsStayBehindFixed
<1>1. O!Next <=> OP!Next
  BY Zenon DEF O!Next, O!PushPop, O!MovBack, O!MovSelf, O!Keep, O!EndPass, O!Return, O!NextPass,
     O!MatchPushPop, O!MatchMovBack, O!MatchMovSelf, O!update_labels, O!Mov, O!Head0, O!Head1,
     O!At, O!Remaining, O!IsPushPop, O!IsMovBack, O!IsMovSelf, O!IsRegisterMov,
     OP!Next, OP!PushPop, OP!MovBack, OP!MovSelf, OP!Keep, OP!EndPass, OP!Return, OP!NextPass,
     OP!MatchPushPop, OP!MatchMovBack, OP!MatchMovSelf, OP!update_labels, OP!Mov, OP!Head0,
     OP!Head1, OP!At, OP!Remaining, OP!IsPushPop, OP!IsMovBack, OP!IsMovSelf, OP!IsRegisterMov
<1>2. O!LabelsStayBehindFixed <=> OP!LabelsStayBehindFixed
  BY Zenon DEF O!LabelsStayBehindFixed, O!LabelsBehindFixed, O!Fixed, O!At,
     OP!LabelsStayBehindFixed, OP!LabelsBehindFixed, OP!Fixed, OP!At
<1> QED
  BY <1>1, <1>2, Zenon DEF O!Instruction, OP!Instruction

LEMMA OptimizeKeeps ==
  ASSUME Base, Optimizing, Optimize
  PROVE  Base' /\ Optimizing' /\ pc' = "optimize" /\ opt_pc' \in {"pass", "compare", "done"}
<1>1. pc = "optimize" /\ UNCHANGED compile_vars /\ OP!Next
  BY SameOptimizer, Zenon DEF Optimize
<1>2. Base' /\ pc' = "optimize" /\ c' = c /\ Static(c) /\ c.function_index <= MaxFunctions
  BY <1>1, Zenon DEF Base, Stage, compile_vars
<1>3. OP!IInv /\ OP!IInv'
  BY <1>1, OptimizerParameters, OP!StepInv, Zenon DEF Optimizing
<1>4. /\ labels \in [AllLabels -> Nat] /\ labels' \in [AllLabels -> Nat]
      /\ opt_pc' \in {"pass", "compare", "done"}
      /\ current \in Seq(OP!Instruction) /\ current' \in Seq(OP!Instruction)
  BY <1>3, Zenon DEF OP!IInv, OP!TypeOK
<1>5. \A j \in 1 .. Len(c.label_indices) :
        /\ c.label_indices[j].label \in AllLabels
        /\ LabelsOf(c, labels)[j] = labels[c.label_indices[j].label]
        /\ LabelsOf(c, labels')[j] = labels'[c.label_indices[j].label]
  BY <1>2, IndexOfLabel, Zenon DEF LabelsOf
<1>6. /\ OP!OperandsIn(current', Operand(c.got, c.ils))
      /\ OP!OperandsIn(new', Operand(c.got, c.ils))
  <2>1. PICK Q : Q = Operand(c.got, c.ils)
    OBVIOUS
  <2> QED
    BY <1>1, <1>3, <2>1, OptimizerParameters, OP!OperandsStep, Zenon DEF Optimizing
<1>7. Apart(c, IF opt_pc' = "compare" THEN new' ELSE current', LabelsOf(c, labels'))
  <2>1. Apart(c, IF opt_pc = "compare" THEN new ELSE current, LabelsOf(c, labels))
    BY DEF Optimizing
  <2>2. CASE OP!EndPass
    <3>1. opt_pc = "pass" /\ opt_pc' = "compare" /\ new' = new
      BY <2>2, Zenon DEF OP!EndPass
    <3>2. /\ \A l, m \in AllLabels : labels[l] < labels[m] => labels'[l] < labels'[m]
          /\ Len(current) > 0 /\ FixedAt(current, Len(current)) =>
               /\ Len(new) > 0 /\ FixedAt(new, Len(new))
               /\ \A l \in AllLabels : labels[l] < Len(current) => labels'[l] < Len(new)
      BY <1>3, <2>2, OptimizerParameters, OP!EndPassOrder, ZenonT(60) DEF OP!Fixed, FixedAt
    <3>3. Apart(c, current, LabelsOf(c, labels))
      BY <2>1, <3>1, Zenon
    <3>4. \A l \in AllLabels : labels[l] \in Nat /\ labels'[l] \in Nat
      BY <1>4, Zenon
    <3>5. /\ Len(current) \in Nat
          /\ Len(c.label_indices) > 0 => Len(current) > 0 /\ FixedAt(current, Len(current))
      BY <1>4, <3>3, SMTT(30) DEF Apart
    <3>6. Apart(c, new, LabelsOf(c, labels'))
      <4>1. ASSUME NEW j \in 1 .. Len(c.label_indices)
            PROVE  LabelsOf(c, labels')[j] \in Nat /\ LabelsOf(c, labels')[j] < Len(new)
        <5>1. /\ c.label_indices[j].label \in AllLabels
              /\ labels[c.label_indices[j].label] < Len(current)
              /\ Len(c.label_indices) > 0
          BY <1>5, <3>3 DEF Apart
        <5> QED
          BY <1>5, <3>2, <3>4, <3>5, <5>1, Zenon
      <4>2. ASSUME NEW i \in 1 .. Len(c.label_indices), NEW j \in 1 .. Len(c.label_indices), i < j
            PROVE  LabelsOf(c, labels')[i] < LabelsOf(c, labels')[j]
        <5>1. labels[c.label_indices[i].label] < labels[c.label_indices[j].label]
          BY <1>5, <3>3, <4>2, Zenon DEF Apart
        <5> QED
          BY <1>5, <3>2, <5>1, Zenon
      <4> QED
        BY <3>2, <3>5, <4>1, <4>2, Zenon DEF Apart
    <3> QED
      BY <3>1, <3>6, Zenon
  <2>3. CASE ~OP!EndPass
    <3>1. /\ labels' = labels
          /\ (IF opt_pc' = "compare" THEN new' ELSE current')
               = (IF opt_pc = "compare" THEN new ELSE current)
      BY <1>1, <2>3, Zenon DEF OP!Next, OP!PushPop, OP!MovBack, OP!MovSelf, OP!Keep, OP!Return, OP!NextPass
    <3> QED
      BY <2>1, <3>1, Zenon
  <2> QED
    BY <2>2, <2>3, Zenon
<1>8. \E n \in 0 .. Len(current') :
        OP!PrefixInv(n)' /\ SlotsIn(c, current', LabelsOf(c, labels'), n)
  <2>1. PICK n \in 0 .. Len(current) : OP!PrefixInv(n) /\ SlotsIn(c, current, LabelsOf(c, labels), n)
    BY DEF Optimizing
  <2>2. n \in Nat /\ Len(current') \in Nat
    BY <1>4, SMTT(30)
  <2>3. /\ OP!PrefixInv(n)'
        /\ \A j \in 1 .. n : current'[j] = current[j]
        /\ \A l \in AllLabels : labels[l] <= n => labels'[l] = labels[l]
    BY <1>1, <1>3, <2>1, <2>2, OptimizerParameters, OP!PrefixStep, Zenon
  <2>4. n <= Len(current')
    BY <2>3 DEF OP!PrefixInv
  <2>5. \A j \in 1 .. Len(c.label_indices) :
          /\ LabelsOf(c, labels)[j] \in Nat
          /\ LabelsOf(c, labels)[j] <= n => LabelsOf(c, labels')[j] = LabelsOf(c, labels)[j]
    BY <1>4, <1>5, <2>3, ZenonT(40)
  <2>6. SlotsIn(c, current', LabelsOf(c, labels'), n)
    BY <1>4, <2>1, <2>2, <2>3, <2>4, <2>5, SlotsKept, Zenon
  <2> QED
    BY <2>2, <2>3, <2>4, <2>6
<1> QED
  BY <1>2, <1>3, <1>4, <1>6, <1>7, <1>8, Zenon DEF Optimizing

LEMMA OptimizedKeeps ==
  ASSUME Base, Optimizing, Optimized
  PROVE  Base' /\ pc' = "bind" /\ UNCHANGED opt_vars
<1> DEFINE L == c.label_indices
<1>1. /\ pc = "optimize" /\ opt_pc = "done" /\ pc' = "bind"
      /\ UNCHANGED <<input, rest, bound, binary, linked, opt_vars>>
      /\ c' = [c EXCEPT
                 !.code = current,
                 !.label_indices = [k \in DOMAIN L |-> [index |-> labels[L[k].label], label |-> L[k].label]]]
  BY DEF Optimized
<1>2. Stage("optimize", input, rest, c) /\ bound = <<>> /\ binary = <<>> /\ linked = <<>>
  BY <1>1, Zenon DEF Base
<1>3. /\ Static(c) /\ DOMAIN c = Fields /\ c.function_index <= MaxFunctions
      /\ L \in Seq(LabelIndex) /\ DOMAIN L = 1 .. Len(L) /\ Len(L) \in Nat
  <2>1. Static(c) /\ c.function_index <= MaxFunctions
    BY <1>2, Zenon DEF Stage
  <2>2. DOMAIN c = Fields /\ Labelled(c)
    BY <2>1, Zenon DEF Static
  <2> QED
    BY <2>1, <2>2 DEF Labelled
<1>4. /\ DOMAIN c' = Fields /\ c'.code = current
      /\ c'.label_indices = [k \in 1 .. Len(L) |-> [index |-> labels[L[k].label], label |-> L[k].label]]
      /\ Unchanged(c, c', {"code", "label_indices"})
  <2>1. DOMAIN c' = Fields
    BY <1>1, <1>3, Zenon DEF Fields
  <2> QED
    BY <1>1, <1>3, ZenonT(40) DEF Fields, Unchanged
<1>5. /\ current \in Seq(OP!Instruction) /\ labels \in [AllLabels -> Nat]
      /\ OP!OperandsIn(current, Operand(c.got, c.ils))
      /\ Apart(c, current, LabelsOf(c, labels))
      /\ \E n \in 0 .. Len(current) : SlotsIn(c, current, LabelsOf(c, labels), n)
  BY <1>1, Zenon DEF Optimizing, OP!IInv, OP!TypeOK
<1>6. \A j \in 1 .. Len(L) : L[j].label \in AllLabels /\ L[j] \in LabelIndex
  BY <1>3, LabelsKnown, Zenon
<1>7. /\ c'.label_indices \in Seq(LabelIndex) /\ Len(c'.label_indices) = Len(L)
      /\ \A j \in 1 .. Len(L) :
           c'.label_indices[j].label = L[j].label /\ c'.label_indices[j].index = labels[L[j].label]
  <2>1. \A j \in 1 .. Len(L) : [index |-> labels[L[j].label], label |-> L[j].label] \in LabelIndex
    BY <1>5, <1>6, Zenon DEF LabelIndex
  <2>2. c'.label_indices \in Seq(LabelIndex) /\ Len(c'.label_indices) = Len(L)
    BY <1>3, <1>4, <2>1, GeneratedSeq
  <2> QED
    BY <1>4, <2>2, SMTT(30)
<1>8. AsIndexed(c') = LabelsOf(c, labels)
  BY <1>7, Zenon DEF AsIndexed, LabelsOf
<1>9. c'.code \in Seq(Instr(c'.got, c'.ils))
  <2>1. c'.got = c.got /\ c'.ils = c.ils
    BY <1>4, Zenon DEF Unchanged, Fields
  <2>2. \A k \in 1 .. Len(current) : current[k] \in Instr(c.got, c.ils)
    <3>1. \A i \in OP!Instruction :
            i.op0 \in Operand(c.got, c.ils) /\ i.op1 \in Operand(c.got, c.ils) =>
              i \in Instr(c.got, c.ils)
      BY Zenon DEF OP!Instruction, Instr, Codes
    <3> QED
      BY <1>5, <3>1 DEF OP!OperandsIn
  <2> QED
    BY <1>4, <1>5, <2>1, <2>2
<1>10. /\ c'.function_index = c.function_index /\ c'.function_body_index = c.function_body_index
       /\ c'.types = c.types /\ c'.typedefs = c.typedefs /\ c'.got = c.got /\ c'.ils = c.ils
       /\ c'.function_bodies = c.function_bodies /\ c'.imports = c.imports
       /\ c'.exports = c.exports
  BY <1>4, Zenon DEF Unchanged, Fields
<1>11. Static(c')
  <2>1. Indices(c')
    BY <1>3, <1>10, Zenon DEF Static, Indices, ContextOK
  <2>2. Bodied(c') /\ Imported(c')
    BY <1>3, <1>10, SMTT(30) DEF Static, Bodied, Imported, BodiesWith
  <2>3. Labelled(c')
    <3>1. DOMAIN c'.label_indices = 1 .. Len(L)
      BY <1>4, Zenon
    <3>2. \A label : HasLabel(c, label) => HasLabel(c', label)
      BY <1>3, <1>7, <3>1, Zenon DEF HasLabel
    <3> QED
      BY <1>3, <1>7, <1>10, <3>2, ZenonT(40) DEF Static, Labelled
  <2> QED
    BY <1>4, <1>9, <2>1, <2>2, <2>3, Zenon DEF Static
<1>12. Placed(c')
  <2>1. Apart(c', current, LabelsOf(c, labels))
    BY <1>5, <1>7, Zenon DEF Apart
  <2>2. ASSUME NEW n, SlotsIn(c, current, LabelsOf(c, labels), n)
        PROVE  SlotsIn(c', current, LabelsOf(c, labels), n)
    <3>1. ASSUME NEW j \in 1 .. Len(L), c'.label_indices[j].label[1] = "ils"
          PROVE  /\ LabelsOf(c, labels)[j] < n
                 /\ current[LabelsOf(c, labels)[j] + 1] = Qword(Unlinked)
                 /\ c'.imports[c'.label_indices[j].label[2]].offset
                      = Offset(current, LabelsOf(c, labels)[j])
      <4>1. c'.label_indices[j].label = L[j].label /\ c'.imports = c.imports
        BY <1>7, <1>10, Zenon
      <4>2. L[j].label[1] = "ils" =>
              /\ LabelsOf(c, labels)[j] < n
              /\ current[LabelsOf(c, labels)[j] + 1] = Qword(Unlinked)
              /\ c.imports[L[j].label[2]].offset = Offset(current, LabelsOf(c, labels)[j])
        BY <2>2, Zenon DEF SlotsIn
      <4> QED
        BY <3>1, <4>1, <4>2, Zenon
    <3> QED
      BY <1>7, <2>2, <3>1, Zenon DEF SlotsIn
  <2> QED
    BY <1>4, <1>5, <1>8, <2>1, <2>2, Zenon DEF Placed
<1>13. Stage("bind", input, rest, c')
  <2>1. Position(input, rest, c')
    BY <1>2, <1>10, Zenon DEF Stage, Position, Exported
  <2> QED
    BY <1>2, <1>10, <1>11, <1>12, <2>1, Zenon DEF Stage
<1> QED
  BY <1>1, <1>2, <1>13, Zenon DEF Base

-----------------------------------------------------------------------------
(* Inv is inductive. *)
LEMMA InitInv ==
  ASSUME Inductive, Init
  PROVE  Inv
BY BaseInit, Zenon DEF Init, Inv

LEMMA StepInv ==
  ASSUME Inductive, Inv, [Next]_vars
  PROVE  Inv'
<1>1. Base /\ opt_pc \in {"idle", "pass", "compare", "done"} /\ (pc = "optimize" => Optimizing)
  BY Zenon DEF Inv
<1> USE <1>1
<1>2. ASSUME Base', pc' # "optimize", UNCHANGED opt_vars
      PROVE  Inv'
  BY <1>2, Zenon DEF Inv, opt_vars
<1>3. ASSUME NEW kind \in ItemSections, ReadSection(kind)
      PROVE  Inv'
  BY <1>2, <1>3, SectionKeeps, Zenon
<1>4. CASE TypeSection \/ ImportSection \/ FunctionSection \/ MemorySection \/ ExportSection
  BY <1>3, <1>4, Zenon DEF ItemSections, TypeSection, ImportSection, FunctionSection, MemorySection,
     ExportSection
<1>5. CASE CodeSectionEntry \/ OtherSection
  BY <1>2, <1>5, ParseKeeps, Zenon
<1>6. CASE CodeSectionEntryRejected \/ CodeSectionEntryPanics \/ Rejected \/ AssemblerError
  BY <1>2, <1>6, StopKeeps, Zenon
<1>7. CASE End
  BY <1>7, EndKeeps, EndOptimizes, Zenon DEF Inv
<1>8. CASE Optimize
  <2>1. Optimizing
    BY <1>8 DEF Optimize
  <2> QED
    BY <1>8, <2>1, OptimizeKeeps, Zenon DEF Inv
<1>9. CASE Optimized
  <2>1. Optimizing
    BY <1>9, Zenon DEF Optimized
  <2> QED
    BY <1>2, <1>9, <2>1, OptimizedKeeps, Zenon
<1>10. CASE Bind
  BY <1>2, <1>10, BindKeeps, Zenon
<1>11. CASE Link
  BY <1>2, <1>11, LinkKeeps, Zenon
<1>12. CASE NeedMoreData \/ UNCHANGED vars
  <2>1. UNCHANGED <<compile_vars, opt_vars>>
    BY <1>12, Zenon DEF NeedMoreData, vars
  <2>2. UNCHANGED <<pc, input, rest, c, bound, binary, linked>>
    BY <2>1, Zenon DEF compile_vars
  <2>3. UNCHANGED <<opt_pc, current, labels, head_idx, new, labels_, source>>
    BY <2>1, Zenon DEF opt_vars
  <2>4. Base'
    BY <2>2, Zenon DEF Base
  <2>5. ASSUME Optimizing PROVE Optimizing'
    <3>1. OP!IInv'
      BY <2>3, <2>5, OptimizerParameters, OP!StepInv, Zenon DEF Optimizing, OP!vars
    <3>2. \A n : OP!PrefixInv(n)' <=> OP!PrefixInv(n)
      BY <2>3, Zenon DEF OP!PrefixInv, OP!Fixed
    <3> QED
      BY <2>2, <2>3, <2>5, <3>1, <3>2, Zenon DEF Optimizing, OP!OperandsIn
  <2> QED
    BY <2>2, <2>3, <2>4, <2>5, Zenon DEF Inv
<1> QED
  BY <1>4, <1>5, <1>6, <1>7, <1>8, <1>9, <1>10, <1>11, <1>12, Zenon DEF Next, Compile

(* What Inv says of the compiler. *)
LEMMA InvTypes == Inv => TypeOK
<1> SUFFICES ASSUME Inv PROVE TypeOK
  OBVIOUS
<1>1. /\ Stage(pc, input, rest, c) /\ opt_pc \in {"idle", "pass", "compare", "done"}
      /\ pc = "done" => Assembled(c, bound, binary)
      /\ pc # "done" => bound = <<>> /\ binary = <<>>
  BY DEF Inv, Base
<1>2. /\ pc \in {"parse", "optimize", "bind", "done", "err", "panic"}
      /\ Static(c) /\ c.function_index <= MaxFunctions
  BY <1>1, Zenon DEF Stage
<1>3. /\ c.function_index \in 0 .. MaxFunctions
      /\ c.function_body_index \in 0 .. c.function_index
      /\ DOMAIN c.types = 0 .. c.function_index - 1
      /\ c.got \cup c.ils = DOMAIN c.types /\ c.got \cap c.ils = {}
  BY <1>2, CompilerAssumption DEF Static, Indices
<1>4. c.code \in Seq(O!Instruction)
  BY <1>2, InstrOptimized, SameOptimizer, Zenon DEF Static
<1>5. Range(c.label_indices) \subseteq [index: Nat, label: AllLabels]
  <2>1. DOMAIN c.label_indices = 1 .. Len(c.label_indices)
    BY <1>2 DEF Static, Labelled
  <2>2. \A j \in 1 .. Len(c.label_indices) :
          c.label_indices[j] \in LabelIndex /\ c.label_indices[j].label \in AllLabels
    BY <1>2, LabelsKnown, Zenon
  <2> QED
    BY <2>1, <2>2, Zenon DEF LabelIndex, Range
<1>6. DOMAIN bound \subseteq AllLabels /\ binary \in Seq(O!Instruction)
  <2>1. CASE pc = "done"
    BY <1>1, <2>1, InstrOptimized, SameOptimizer, Zenon DEF Assembled
  <2>2. CASE pc # "done"
    BY <1>1, <2>2, SMTT(30)
  <2> QED
    BY <2>1, <2>2, Zenon
<1> QED
  BY <1>1, <1>2, <1>3, <1>4, <1>5, <1>6, Zenon DEF TypeOK

LEMMA InvOptimizerInput == Inv => OptimizerInput
BY SameOptimizer, Zenon DEF Inv, Optimizing, OP!IInv, OptimizerInput

LEMMA BaseOf == Inv => Base
BY DEF Inv


-----------------------------------------------------------------------------
(* Induction over the natural numbers, from the library. *)
W == INSTANCE WellFoundedInduction

(* The hypothesis of the lemmas above and of LayoutProofs and CodeProofs. *)
LEMMA NatInductive == Inductive
<1> SUFFICES ASSUME NEW S, 0 \in S, \A n \in Nat : n \in S => n + 1 \in S,
                    NEW n \in Nat, n \notin S
             PROVE  FALSE
  BY DEF Inductive
<1> DEFINE T == {k \in Nat : k \notin S}
<1>1. PICK m \in T : \A k \in T : m <= k
  <2> DEFINE Less == {ss \in Nat \X Nat : ss[1] < ss[2]}
  <2>1. W!IsWellFoundedOn(Less, Nat)
    BY W!NatLessThanWellFounded, Zenon DEF W!OpToRel
  <2>2. T \subseteq Nat /\ T # {}
    OBVIOUS
  <2>3. \E x \in T : \A y \in T : ~ (<<y, x>> \in Less)
    <3> HIDE DEF Less, T
    <3> QED
      BY <2>1, <2>2, W!WFMin, Zenon
  <2>4. PICK x \in T : \A y \in T : ~ (<<y, x>> \in Less)
    BY <2>3, Zenon
  <2>5. \A y \in T : ~ (y < x)
    BY <2>4, Zenon
  <2> QED
    BY <2>5
<1>2. m \in Nat \ {0}
  OBVIOUS
<1>3. m - 1 \in Nat /\ m - 1 \in S
  BY <1>1, <1>2
<1>4. (m - 1) + 1 \in S /\ (m - 1) + 1 = m
  BY <1>2, <1>3
<1> QED
  BY <1>4, Zenon

(* CodeProofs!FunctionCode, without its hypothesis.  The code of a         *)
(* function (mod.rs:309-432, instructions.rs:14-129) refers to functions   *)
(* and imports that compile knows and ends with RET.  And no todo!(),      *)
(* unwrap, drain or overflow panics for a function of a supported type     *)
(* with a supported body, when the two lookups of a type find the declared *)
(* one, of the function and of those that it calls (BodyTypesFound).       *)
THEOREM GeneratedCode ==
  ASSUME NEW ctx, ContextOK(ctx), NEW f, NEW readable,
         NEW declared \in Seq(LocalRun), NEW body \in Seq(WasmOperator)
  PROVE  LET gen == GenFunction(ctx, f, readable, declared, body)
         IN /\ gen.status = "ok" =>
                 /\ gen.code \in Seq(Instr(ctx.got, ctx.ils))
                 /\ Len(gen.code) > 0 /\ gen.code[Len(gen.code)] = Ret
            /\ /\ BodyTypesFound(ctx, f, body) /\ TypesSupported(ctx) /\ f \in DOMAIN ctx.types
               /\ \A d \in Range(declared) : d.ty \in Sized /\ d.count <= MaxLocals
               /\ \A op \in Range(body) : op.name \notin Unsupported
               => gen.status # "panic"
BY NatInductive, FunctionCode, Zenon

THEOREM Invariance == Spec => []Inv
<1>1. Init => Inv
  BY NatInductive, InitInv, Zenon
<1>2. Inv /\ [Next]_vars => Inv'
  BY NatInductive, StepInv, Zenon
<1> QED
  BY <1>1, <1>2, PTL DEF Spec


-----------------------------------------------------------------------------
(* compile keeps the types of its variables: only labels that it creates   *)
(* are in label_indices and are bound, the indices of the functions and of *)
(* their types agree, and the code is instructions throughout.             *)
THEOREM TypeCorrect == Spec => []TypeOK
BY Invariance, InvTypes, PTL

(* Whatever module is compiled, the code and the labels that optimize is   *)
(* called with (mod.rs:484), and that one pass hands to the next, are ones *)
(* that the optimiser is proved for: every label is at the start or behind *)
(* an instruction that no pass touches.                                    *)
THEOREM OptimizerInputMet == Spec => []OptimizerInput
BY Invariance, InvOptimizerInput, PTL

(* Every label that the assembled code refers to is bound, after any       *)
(* number of passes that move labels: a call goes to the entry point that  *)
(* function_entry_point returns, and the address of an import is read at   *)
(* the offset that link_import writes.                                     *)
THEOREM CallsResolved == Spec => []CallsResolve
BY Invariance, BaseOf, BaseCalls, PTL

(* An exported function is found by its name, at its entry point; what is  *)
(* not a function of the module is not found (mod.rs:82-126).              *)
THEOREM ExportsResolved == Spec => []ExportsResolve
BY Invariance, BaseOf, BaseExports, PTL

(* However often and in whatever order link_import is called, a slot holds *)
(* the last address linked under its name, or the marker of a slot that    *)
(* was never linked.                                                       *)
THEOREM SlotsHoldLinks == Spec => []LinkedSlots
BY Invariance, BaseOf, BaseLinkedSlots, PTL

(* link_import writes nothing of the assembled code but slots of imports.  *)
THEOREM LinkWritesSlots == Spec => OnlySlotsChange
<1> DEFINE SlotsOnly == pc = "done" => \A k \in DOMAIN binary :
                      binary'[k] # binary[k] => \E f \in c.ils : k = SlotIndex(f)
<1>1. Inv /\ [Next]_vars => [SlotsOnly]_vars
  BY BaseOf, BaseOnlySlots, NatInductive, Zenon
<1> QED
  BY <1>1, Invariance, PTL DEF Spec, OnlySlotsChange

(* When a module that uses nothing compile marks todo!() makes it panic,   *)
(* then in a body for which a type is not found where it is declared: the  *)
(* two lookups of a type with indices of different kinds (mod.rs:311-316   *)
(* and instructions.rs:50-55) are the only cause, for any types, locals    *)
(* and operators.                                                          *)
THEOREM PanicsAreExplained == Spec => []PanicsExplained
<1>1. Init => SupportedRead /\ PanicsExplained
  BY NewFields DEF Init, SupportedRead, PanicsExplained, TypesSupported
<1>2. Inv /\ SupportedRead /\ [Next]_vars => SupportedRead'
  BY BaseOf, SupportedReadKept, NatInductive, Zenon
<1>3. Inv /\ SupportedRead /\ PanicsExplained /\ [Next]_vars => PanicsExplained'
  BY BaseOf, SupportedStep, NatInductive, Zenon
<1> QED
  BY <1>1, <1>2, <1>3, Invariance, PTL DEF Spec

=============================================================================
