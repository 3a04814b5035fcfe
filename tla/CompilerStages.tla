--------------------------- MODULE CompilerStages ---------------------------
(***************************************************************************)
(* What is true of the variables of compile at each stage, in terms of the *)
(* payloads that are read: the parts of the inductive invariant of         *)
(* CompilerProofs.  Nothing here refers to a variable of Compiler, so that *)
(* the lemmas about these definitions hold of a state and of the next one. *)
(***************************************************************************)
EXTENDS Assembly, CodeTypes

(* The first n instructions have this many bytes. *)
Offset(code, n) == ByteOffset(SubSeq(code, 1, n))

(* What the proofs about the layout use of byte offsets: they are natural  *)
(* numbers, and zero_bytes takes none.  It is proved in CodeProofs         *)
(* (AssemblerKept).                                                        *)
ByteOffsets ==
  \A S : \A code \in Seq(S) :
    ByteOffset(code) \in Nat /\ ByteOffset(Append(code, ZeroBytes)) = ByteOffset(code)

-----------------------------------------------------------------------------
Fields ==
  {"function_index", "function_body_index", "typedefs", "function_type_index", "all_types", "types", "got",
   "ils", "label_indices", "function_bodies", "code", "functions", "entries", "heights",
   "exports", "imports", "memories"}

LabelIndex == [index: Nat, label: {"got", "ils", "slot"} \X Nat]

HasLabel(m, label) == \E j \in DOMAIN m.label_indices : m.label_indices[j].label = label

(* The indices of functions, the types, the labels and the imports fit     *)
(* together: every import has the label of its slot, every function of     *)
(* which the body was read has a label and a place in function_bodies.     *)
Indices(m) ==
  /\ m.function_index \in Nat /\ m.function_body_index \in 0 .. m.function_index
  /\ DOMAIN m.types = 0 .. m.function_index - 1
  /\ m.got \cup m.ils = 0 .. m.function_index - 1 /\ m.got \cap m.ils = {}
  /\ m.got = {} => m.function_body_index = m.function_index
  /\ ContextOK(m)

Labelled(m) ==
  /\ m.label_indices \in Seq(LabelIndex)
  /\ \A i, j \in 1 .. Len(m.label_indices) :
       m.label_indices[i].label = m.label_indices[j].label => i = j
  /\ \A j \in 1 .. Len(m.label_indices) :
       LET label == m.label_indices[j].label
       IN /\ label[1] = "got" => label[2] \in m.got /\ label[2] < m.function_body_index
          /\ label[1] = "ils" => label[2] \in m.ils
          /\ label[1] = "slot" => label[2] \in m.got
  /\ \A f \in m.ils : HasLabel(m, ImportLabel(f))
  /\ \A f \in m.got : f < m.function_body_index => HasLabel(m, FunctionLabel(f))

Bodied(m) ==
  /\ m.function_bodies \in Seq([label: {"got"} \X Nat, index: Nat])
  /\ \A j \in 1 .. Len(m.function_bodies) :
       m.function_bodies[j].label = FunctionLabel(m.function_bodies[j].index)
  /\ \A f \in m.got : f < m.function_body_index => BodiesWith(m, FunctionLabel(f)) # {}

Imported(m) ==
  /\ DOMAIN m.imports = m.ils
  /\ \A f \in m.ils : m.imports[f] \in [module: STRING, name: STRING, offset: Nat]

Static(m) ==
  /\ DOMAIN m = Fields
  /\ Indices(m) /\ Labelled(m) /\ Bodied(m) /\ Imported(m)
  /\ m.code \in Seq(Instr(m.got, m.ils))

FixedAt(code, k) == code[k].code \in AllCodes

(* Where the labels are: at[j] is the index of label_indices[j].  They are *)
(* in order, apart from each other and inside of the code, which ends with *)
(* an instruction that no pass of the optimiser touches.                   *)
Apart(m, code, at) ==
  /\ \A j \in 1 .. Len(m.label_indices) : at[j] \in Nat /\ at[j] < Len(code)
  /\ \A i, j \in 1 .. Len(m.label_indices) : i < j => at[i] < at[j]
  /\ Len(m.label_indices) > 0 => FixedAt(code, Len(code))

(* Every label, and the end of the code, is behind such an instruction. *)
BehindFixed(m, code, at) ==
  /\ Len(code) > 0 => FixedAt(code, Len(code))
  /\ \A j \in 1 .. Len(m.label_indices) : at[j] = 0 \/ FixedAt(code, at[j])

(* The slots of the imports are among the first n instructions, which no   *)
(* pass touches, at the offsets that Module keeps for link_import.         *)
SlotsIn(m, code, at, n) ==
  /\ n \in 0 .. Len(code)
  /\ \A k \in 1 .. n : FixedAt(code, k)
  /\ \A j \in 1 .. Len(m.label_indices) : m.label_indices[j].label[1] = "ils" =>
       /\ at[j] < n
       /\ code[at[j] + 1] = Qword(Unlinked)
       /\ m.imports[m.label_indices[j].label[2]].offset = Offset(code, at[j])

AsIndexed(m) == [j \in 1 .. Len(m.label_indices) |-> m.label_indices[j].index]

Laid(m) ==
  /\ Apart(m, m.code, AsIndexed(m))
  /\ BehindFixed(m, m.code, AsIndexed(m))
  /\ \E n \in 0 .. Len(m.code) :
       /\ SlotsIn(m, m.code, AsIndexed(m), n)
       /\ m.function_bodies = <<>> => n = Len(m.code)

-----------------------------------------------------------------------------
(* m2 differs from m in no field but those in fields. *)
Unchanged(m, m2, fields) == \A x \in Fields \ fields : m2[x] = m[x]

(* The first k exports are found by their names. *)
Exported(m, items, k) ==
  \A i \in 1 .. k : items[i].name \in DOMAIN m.exports /\ m.exports[items[i].name] = items[i].index

-----------------------------------------------------------------------------
(* The loop over the payloads. *)

(* How many payloads of module are read when those in left are not. *)
Taken(module, left) == Len(module) - Len(left)

(* What the payloads that are read say about the variables of compile. *)
Position(module, left, m) ==
  /\ module \in Modules
  /\ left \in Seq(AnyPayload)
  /\ Len(left) <= Len(module)
  /\ \A k \in 1 .. Len(left) : left[k] = module[Taken(module, left) + k]
  /\ \A k \in 1 .. Taken(module, left) : module[k].kind # "End"
  /\ m.got # {} => \E k \in 1 .. Taken(module, left) : module[k].kind = "Function"
  /\ m.function_bodies # <<>> => \E k \in 1 .. Taken(module, left) : module[k].kind = "Code"
  /\ \A k \in 1 .. Taken(module, left) : module[k].kind = "Export" =>
       Exported(m, module[k].items, Len(module[k].items))

Placed(m) ==
  /\ Apart(m, m.code, AsIndexed(m))
  /\ \E n \in 0 .. Len(m.code) : SlotsIn(m, m.code, AsIndexed(m), n)

(* The variables of compile at each of its stages. *)
Stage(at, module, left, m) ==
  /\ at \in {"parse", "optimize", "bind", "done", "err", "panic"}
  /\ Static(m) /\ m.function_index <= MaxFunctions
  /\ Position(module, left, m)
  /\ at = "parse" => Laid(m)
  /\ at \in {"optimize", "bind", "done"} =>
       left # <<>> /\ left[1].kind = "End" /\ m.function_body_index = m.function_index
  /\ at = "bind" => Placed(m)

-----------------------------------------------------------------------------
(* The assembled code, and link_import. *)

(* The index of the slot that a call of import f reads: Compiler!SlotIndex. *)
SlotOf(bnd, f) == bnd[ImportLabel(f)] + 2

(* Every function is at the label of its body, and every import has a slot *)
(* of its own, at the offset that Module keeps for link_import.            *)
Assembled(m, bnd, bin) ==
  /\ bin \in Seq(Instr(m.got, m.ils))
  /\ DOMAIN bnd \subseteq AllLabels
  /\ DOMAIN m.entries = m.got
  /\ \A f \in m.got :
       /\ FunctionLabel(f) \in DOMAIN bnd
       /\ bnd[FunctionLabel(f)] \in 0 .. Len(bin)
       /\ m.entries[f] = Offset(bin, bnd[FunctionLabel(f)])
  /\ \A f \in m.ils :
       /\ ImportLabel(f) \in DOMAIN bnd
       /\ bnd[ImportLabel(f)] \in 0 .. Len(bin) - 2
       /\ bin[bnd[ImportLabel(f)] + 1] = ZeroBytes
       /\ \E v \in Int : bin[SlotOf(bnd, f)] = Qword(v)
       /\ m.imports[f].offset = Offset(bin, bnd[ImportLabel(f)])
  /\ \A f, g \in m.ils : bnd[ImportLabel(f)] = bnd[ImportLabel(g)] => f = g

(* Compiler!LinkedSlots, of any code and any links. *)
SlotsLinked(m, bnd, bin, links) ==
  \A f \in m.ils :
    LET name == NameOf(m.imports[f])
        slot == bin[SlotOf(bnd, f)]
    IN /\ name \notin DOMAIN links \/ name.name = NoName => slot = Qword(Unlinked)
       /\ name \in DOMAIN links /\ Matching(m.imports, name) = {f} => slot = Qword(links[name])

=============================================================================
