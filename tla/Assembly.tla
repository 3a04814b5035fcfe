------------------------------ MODULE Assembly ------------------------------
(***************************************************************************)
(* What X86_64Compiler::compile and AssembledModule compute                *)
(* (parawasm/src/x86_64/mod.rs), without the loop of compile, which is     *)
(* Compiler: the payloads of a WebAssembly module, the variables of        *)
(* compile and how every payload changes them, the binding of the labels,  *)
(* the linking of imports and the lookups in the assembled module.         *)
(*                                                                         *)
(* The input is the sequence of payloads that wasmparser reads.  It ends   *)
(* with End unless the binary is cut off in the middle of a section.       *)
(***************************************************************************)
EXTENDS CodeGen, FiniteSets

CONSTANTS
  Modules,       \* the inputs of compile
  MaxFunctions,  \* wasmparser's limit of functions and imports of functions
  LinkNames,     \* link_import is called with these [module, name]
  Addresses      \* and with these addresses

NoName == "none"    \* Option::None for the name of an import
Unlinked == -1      \* 0xBADC0FFEE0DDF00D

(* The payloads that wasmparser reads, each with whether it can be read    *)
(* and the validator accepts it, apart from what the variables of compile  *)
(* decide; of a body only whether its locals can be read.  The fields of a *)
(* section, the locals and the operators of a body are read when the       *)
(* payload is.  Other stands for the payloads that add no type and no      *)
(* function: there are no alias sections and no nested modules.            *)
TypeDef == FuncType \cup [kind: {"Instance", "Module"}]

ImportEntry ==
  [kind: {"Function", "Table", "Memory", "Global"}, module: STRING, name: STRING, ty: Nat]

ExportEntry == [name: STRING, kind: {"Function", "Table", "Memory", "Global"}, index: Nat]

ItemSections == {"Type", "Import", "Function", "Memory", "Export"}

SectionOf(kind, Item) == [kind: {kind}, valid: BOOLEAN, items: Seq(Item)]

CodeEntry == [kind: {"Code"}, valid: BOOLEAN, locals: Seq(LocalRun), body: Seq(WasmOperator)]

AnyPayload ==
  SectionOf("Type", TypeDef) \cup SectionOf("Import", ImportEntry)
  \cup SectionOf("Function", Nat) \cup SectionOf("Memory", Nat)
  \cup SectionOf("Export", ExportEntry) \cup CodeEntry
  \cup [kind: {"Other", "End"}, valid: BOOLEAN]

(* The validator's order of the sections: with module_linking, types and   *)
(* imports may be mixed.  Bodies follow each other.                        *)
Order ==
  [Other |-> 0, Type |-> 1, Import |-> 1, Function |-> 2, Memory |-> 3, Export |-> 4,
   Code |-> 5, End |-> 6]

SameOrder == {"Type", "Import", "Code"}

(* The parser stops at End.  What the validator accepts is in order, and   *)
(* no export has the name of another one.                                  *)
EndIsLast(module) == \A k \in DOMAIN module : module[k].kind = "End" => k = Len(module)

Validated(module) ==
  \A k \in DOMAIN module : module[k].valid =>
    /\ \A j \in 1 .. k - 1 :
         \/ module[k].kind = "Other"
         \/ Order[module[j].kind] < Order[module[k].kind]
         \/ module[k].kind \in SameOrder /\ Order[module[j].kind] = Order[module[k].kind]
    /\ module[k].kind = "Export" =>
         \A i, j \in DOMAIN module[k].items :
           module[k].items[i].name = module[k].items[j].name => i = j

ASSUME CompilerAssumption ==
  /\ MaxFunctions \in Nat
  /\ Addresses \subseteq Nat \ {0}
  /\ LinkNames \subseteq [module: STRING, name: STRING]
  /\ Modules \subseteq Seq(AnyPayload)
  /\ \A module \in Modules : EndIsLast(module) /\ Validated(module)

(* FunctionSection's labels of the slots of functions are never used. *)
SlotLabel(f) == <<"slot", f>>

FunctionIndices == 0 .. MaxFunctions - 1
AllLabels ==
  {FunctionLabel(f) : f \in FunctionIndices} \cup {ImportLabel(f) : f \in FunctionIndices}
  \cup {SlotLabel(f) : f \in FunctionIndices}

-----------------------------------------------------------------------------
(* BTreeMap::insert. *)
Insert(map, key, value) ==
  [y \in DOMAIN map \cup {key} |-> IF y = key THEN value ELSE map[y]]

Smallest(S) == CHOOSE f \in S : \A g \in S : f <= g

ByteOffset(code) == FoldOnce(LAMBDA n, i : n + Length(i), 0, code)

(* mod.rs:67-74, 98-107 and 208-221.  all_types is the validator's own     *)
(* sequence of types, numbered from 0 (mod.rs:189 and 240).                *)
NewCompile ==
  [function_index |-> 0, function_body_index |-> 0, typedefs |-> <<>>,
   function_type_index |-> 0, all_types |-> <<>>, types |-> <<>>, got |-> {}, ils |-> {},
   label_indices |-> <<>>, function_bodies |-> <<>>, code |-> <<>>,
   functions |-> <<>>, entries |-> <<>>, heights |-> <<>>,
   exports |-> <<>>, imports |-> <<>>, memories |-> <<>>]

(* mod.rs:240-250: compile numbers the types of functions only. *)
AddType(m, t) ==
  IF t.kind = "Func"
  THEN [m EXCEPT !.typedefs = Insert(@, m.function_type_index, t),
                 !.function_type_index = @ + 1,
                 !.all_types = Append(@, t)]
  ELSE [m EXCEPT !.all_types = Append(@, t)]

(* Mutant of OtherImport: an import of a memory takes the index of a body. *)
OtherImportCounted(m) ==
  [m EXCEPT !.code = Append(@, ZeroBytes), !.function_body_index = @ + 1]

(* mod.rs:256-258 and 282: every import adds zero_bytes. *)
OtherImport(m) == [m EXCEPT !.code = Append(@, ZeroBytes)]

(* Mutant of ImportLabelIndex: the label is taken behind the address slot. *)
ImportLabelIndexBehind(m) == Len(m.code) + 2

(* mod.rs:258 and 275: behind zero_bytes, in front of the address slot. *)
ImportLabelIndex(m) == Len(m.code) + 1

(* Mutant of ImportOffset: the offset behind the address slot.             *)
ImportOffsetBehind(m) == ByteOffset(m.code) + 8

(* mod.rs:256-265: the offset of a label in front of zero_bytes. *)
ImportOffset(m) == ByteOffset(m.code)

(* mod.rs:254-284. *)
AddImport(m, i) ==
  LET f == m.function_index IN
  IF i.kind = "Function"
  THEN [OtherImport(m) EXCEPT
          !.imports = Insert(@, f, [module |-> i.module, name |-> i.name,
                                    offset |-> ImportOffset(m)]),
          !.label_indices = Append(@, [index |-> ImportLabelIndex(m), label |-> ImportLabel(f)]),
          !.code = Append(@, Qword(Unlinked)),
          !.ils = @ \cup {f},
          !.types = Insert(@, f, i.ty),
          !.function_index = @ + 1,
          !.function_body_index = @ + 1]
  ELSE OtherImport(m)

(* mod.rs:288-298. *)
AddFunction(m, ty) ==
  LET f == m.function_index IN
  [m EXCEPT
     !.label_indices = Append(@, [index |-> Len(m.code), label |-> SlotLabel(f)]),
     !.code = Append(@, Qword(0)),
     !.functions = Insert(@, f, Len(m.code)),
     !.got = @ \cup {f},
     !.types = Insert(@, f, ty),
     !.function_index = @ + 1]

(* Mutant of AddExport: the index is counted without the imports.          *)
AddExportOfBody(m, e) == [m EXCEPT !.exports = Insert(@, e.name, e.index - Cardinality(m.ils))]

(* mod.rs:302-307: the export's index is kept, not what it is an index of. *)
AddExport(m, e) == [m EXCEPT !.exports = Insert(@, e.name, e.index)]

(* mod.rs:234-237. *)
AddMemory(m, memory) == [m EXCEPT !.memories = Append(@, memory)]

(* Mutant of BodyLabelIndex: the label is taken behind the prologue's PUSH. *)
BodyLabelIndexBehind(m) == Len(m.code) + 1

(* mod.rs:319. *)
BodyLabelIndex(m) == Len(m.code)

(* mod.rs:317-319, 404-406 and 431. *)
AddBody(m, gen) ==
  LET f == m.function_body_index IN
  [m EXCEPT
     !.function_bodies = Append(@, [label |-> FunctionLabel(f), index |-> f]),
     !.label_indices = Append(@, [index |-> BodyLabelIndex(m), label |-> FunctionLabel(f)]),
     !.code = @ \o gen.code,
     !.heights = Insert(@, f, gen.height),
     !.function_body_index = @ + 1]

AddItem(kind, m, item) ==
  CASE kind = "Type" -> AddType(m, item)
    [] kind = "Import" -> AddImport(m, item)
    [] kind = "Function" -> AddFunction(m, item)
    [] kind = "Memory" -> AddMemory(m, item)
    [] kind = "Export" -> AddExport(m, item)

(* import_section and function_section (mod.rs:253 and 287) reject a       *)
(* function of which the type is not defined, or is not that of a function. *)
TypesOfFunctions(kind, items) ==
  CASE kind = "Function" -> Range(items)
    [] kind = "Import" -> {i.ty : i \in {j \in Range(items) : j.kind = "Function"}}
    [] OTHER -> {}

TypesDefined(m, kind, items) ==
  \A t \in TypesOfFunctions(kind, items) :
    t < Len(m.all_types) /\ m.all_types[t + 1].kind = "Func"

(* The fields of an accepted section, one after the other. *)
ReadItems(kind, m, items) == FoldOnce(LAMBDA acc, item : AddItem(kind, acc, item), m, items)

-----------------------------------------------------------------------------
(* mod.rs:488-507, for the instruction k of the optimised code: the first  *)
(* label with its index is bound in front of it, to zero_bytes.  An entry  *)
(* point is the offset of the label of a body.                             *)
LabelsAt(m, idx) == {j \in DOMAIN m.label_indices : m.label_indices[j].index = idx}
BodiesWith(m, label) == {j \in DOMAIN m.function_bodies : m.function_bodies[j].label = label}

BindNext(m, acc, k) ==
  LET label  == m.label_indices[Smallest(LabelsAt(m, k - 1))].label
      bodies == BodiesWith(m, label)
  IN IF LabelsAt(m, k - 1) = {}
     THEN [acc EXCEPT !.code = Append(@, m.code[k])]
     ELSE [code    |-> acc.code \o <<ZeroBytes, m.code[k]>>,
           bound   |-> Insert(acc.bound, label, Len(acc.code)),
           entries |-> IF bodies = {} THEN acc.entries
                       ELSE Insert(acc.entries, m.function_bodies[Smallest(bodies)].index,
                                   ByteOffset(acc.code))]

BoundCode(m) ==
  FoldOnce(LAMBDA acc, k : BindNext(m, acc, k), [code |-> <<>>, bound |-> <<>>, entries |-> <<>>],
           [k \in DOMAIN m.code |-> k])

Encodable(code) == \A k \in DOMAIN code : code[k].code \notin NotEncodable

-----------------------------------------------------------------------------
(* Mutant of names_equal: two names that are missing are equal.            *)
names_equal_none(name, name_) == name = name_

(* mod.rs:162-167. *)
names_equal(name, name_) == name # NoName /\ name_ # NoName /\ name = name_

(* mod.rs:158-173: imports is ordered by the index of the function. *)
Matching(imports, link) ==
  {f \in DOMAIN imports :
     imports[f].module = link.module /\ names_equal(link.name, imports[f].name)}

(* The instruction that has the byte at the offset. *)
InstructionAt(code, offset) ==
  CHOOSE k \in DOMAIN code :
    LET first == ByteOffset(SubSeq(code, 1, k - 1))
    IN first <= offset /\ offset < first + Length(code[k])

(* mod.rs:157-181: the assembled code with the address in the slot. *)
link_import(code, imports, link, addr) ==
  IF Matching(imports, link) = {} THEN code
  ELSE LET offset == imports[Smallest(Matching(imports, link))].offset
       IN [code EXCEPT ![InstructionAt(code, offset)] = Qword(addr)]

NameOf(import) == [module |-> import.module, name |-> import.name]

(* mod.rs:82-95 and 116-126: the lookups by index and by exported name. *)
find_function(m, index) == IF index \in DOMAIN m.entries THEN {index} ELSE {}

find_exported(m, name) ==
  IF name \in DOMAIN m.exports THEN find_function(m, m.exports[name]) ELSE {}

function_entry_point(m, found) == {m.entries[f] : f \in found}
function_stack_height(m, found) == {m.heights[f] : f \in found}

=============================================================================
