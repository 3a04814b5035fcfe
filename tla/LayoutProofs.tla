---------------------------- MODULE LayoutProofs ----------------------------
(***************************************************************************)
(* The layout of the code that compile accumulates, while it reads payload *)
(* after payload (mod.rs:222-482): where labels and import slots are, what *)
(* is in front of them, and that each kind of payload keeps Stage.         *)
(* Induction over the natural numbers and what is needed of byte offsets   *)
(* are hypotheses (CompilerProofs!NatInductive, CodeProofs!AssemblerKept). *)
(***************************************************************************)
EXTENDS CompilerStages, TLAPS

LEMMA SeqSubset ==
  ASSUME NEW S, NEW T, S \subseteq T, NEW s \in Seq(S)
  PROVE  s \in Seq(T)
OBVIOUS

LEMMA SameOffsets ==
  ASSUME NEW S, NEW code \in Seq(S), NEW other \in Seq(S),
         NEW n \in Nat, n <= Len(code), n <= Len(other),
         \A k \in 1 .. n : code[k] = other[k]
  PROVE  Offset(code, n) = Offset(other, n)
<1>1. SubSeq(code, 1, n) = SubSeq(other, 1, n)
  OBVIOUS
<1> QED
  BY <1>1, Zenon DEF Offset

(* The steps of compile and link_import, but for what the optimiser does. *)
LEMMA SlotsKept ==
  ASSUME NEW m, NEW S, NEW code \in Seq(S), NEW code2 \in Seq(S), NEW at, NEW at2, NEW n \in Nat,
         SlotsIn(m, code, at, n), n <= Len(code2), \A k \in 1 .. n : code2[k] = code[k],
         \A j \in 1 .. Len(m.label_indices) : at[j] \in Nat /\ (at[j] <= n => at2[j] = at[j])
  PROVE  SlotsIn(m, code2, at2, n)
<1>1. n \in 0 .. Len(code) /\ n \in 0 .. Len(code2)
  BY DEF SlotsIn
<1>2. ASSUME NEW k \in Nat, k < n
      PROVE  code2[k + 1] = code[k + 1] /\ Offset(code2, k) = Offset(code, k)
  <2>1. k <= Len(code2) /\ k <= Len(code) /\ \A i \in 1 .. k : code[i] = code2[i]
    BY <1>1, <1>2, SMTT(30)
  <2> QED
    BY <1>2, <2>1, SameOffsets, SMTT(30)
<1>3. \A k \in 1 .. n : FixedAt(code2, k)
  BY SMTT(30) DEF SlotsIn, FixedAt
<1>4. ASSUME NEW j \in 1 .. Len(m.label_indices), m.label_indices[j].label[1] = "ils"
      PROVE  /\ at2[j] < n
             /\ code2[at2[j] + 1] = Qword(Unlinked)
             /\ m.imports[m.label_indices[j].label[2]].offset = Offset(code2, at2[j])
  <2>1. /\ at[j] \in Nat /\ at[j] < n /\ at2[j] = at[j]
        /\ code[at[j] + 1] = Qword(Unlinked)
        /\ m.imports[m.label_indices[j].label[2]].offset = Offset(code, at[j])
    BY <1>4 DEF SlotsIn
  <2> QED
    BY <1>2, <2>1, SMTT(30)
<1> QED
  BY <1>1, <1>3, <1>4, ZenonT(40) DEF SlotsIn

-----------------------------------------------------------------------------
(* Code is only added at the end, with at most one label more. *)
Grows(m, m2) ==
  /\ Len(m.code) <= Len(m2.code)
  /\ \A k \in 1 .. Len(m.code) : m2.code[k] = m.code[k]
  /\ Len(m2.label_indices) \in {Len(m.label_indices), Len(m.label_indices) + 1}
  /\ \A j \in 1 .. Len(m.label_indices) : m2.label_indices[j] = m.label_indices[j]

(* The types that a step of the proof needs, and what it needs of the      *)
(* label that is added.                                                    *)
Typed(S, m) == m.code \in Seq(S) /\ m.label_indices \in Seq(LabelIndex)

LastLabel(m) == m.label_indices[Len(m.label_indices)]

LabelAdded(m, m2) ==
  /\ Len(m2.code) > 0 => FixedAt(m2.code, Len(m2.code))
  /\ Len(m2.label_indices) = Len(m.label_indices) + 1 =>
       /\ Len(m.code) <= LastLabel(m2).index /\ LastLabel(m2).index < Len(m2.code)
       /\ LastLabel(m2).index = 0 \/ FixedAt(m2.code, LastLabel(m2).index)

SlotAdded(m, m2, n2) ==
  /\ \A k \in 1 .. n2 : FixedAt(m2.code, k)
  /\ \A j \in 1 .. Len(m.label_indices) : m.label_indices[j].label[1] = "ils" =>
       m2.imports[m.label_indices[j].label[2]] = m.imports[m.label_indices[j].label[2]]
  /\ Len(m2.label_indices) = Len(m.label_indices) + 1 /\ LastLabel(m2).label[1] = "ils" =>
         /\ LastLabel(m2).index < n2
         /\ m2.code[LastLabel(m2).index + 1] = Qword(Unlinked)
         /\ m2.imports[LastLabel(m2).label[2]].offset = Offset(m2.code, LastLabel(m2).index)

(* What Static and Laid do not look at. *)
Untouched ==
  {"typedefs", "function_type_index", "all_types", "functions", "entries", "heights", "exports", "memories"}

(* One label more. *)
LabelFits(m, m2, p, l) ==
  /\ p \in Nat /\ l \in {"got", "ils", "slot"} \X Nat
  /\ m2.label_indices = Append(m.label_indices, [index |-> p, label |-> l])
  /\ \A j \in 1 .. Len(m.label_indices) : m.label_indices[j].label # l
  /\ m.got \subseteq m2.got /\ m.ils \subseteq m2.ils /\ m2.got \subseteq Nat
  /\ m.function_body_index \in Nat /\ m2.function_body_index \in Nat
  /\ m.function_body_index <= m2.function_body_index
  /\ l[1] = "got" => l[2] \in m2.got /\ l[2] < m2.function_body_index
  /\ l[1] = "ils" => l[2] \in m2.ils
  /\ l[1] = "slot" => l[2] \in m2.got
  /\ \A f \in m2.ils : f \in m.ils \/ l = ImportLabel(f)
  /\ \A f \in m2.got : f < m2.function_body_index =>
       (f \in m.got /\ f < m.function_body_index) \/ l = FunctionLabel(f)

(* The generated code of a body. *)
IsBody(m, code) ==
  code \in Seq(Instr(m.got, m.ils)) /\ Len(code) > 0 /\ code[Len(code)] = Ret

(* The fields of a section.  Imports come in front of the functions, and   *)
(* both in front of the bodies.                                            *)
InPlace(kind, m) ==
  /\ kind \in {"Import", "Function"} => m.function_bodies = <<>>
  /\ kind = "Import" => m.got = {}

ItemOf(kind, item) ==
  /\ kind = "Type" => item \in TypeDef
  /\ kind = "Import" => item \in ImportEntry

(* What an item leaves as it is. *)
ItemKeeps(kind, m, m2) ==
  /\ m2.function_bodies = m.function_bodies
  /\ kind # "Function" => m2.got = m.got
  /\ kind # "Export" => m2.exports = m.exports

ItemsStep(env, acc, item) == AddItem(env.kind, acc, item)

ItemsInv(env, k, acc) ==
  /\ Static(acc) /\ Laid(acc) /\ InPlace(env.kind, acc) /\ ItemKeeps(env.kind, env.m, acc)
  /\ env.kind = "Export" => Exported(acc, env.items, k)

ItemsFold == INSTANCE FoldInduction WITH Op <- ItemsStep, P <- ItemsInv

Distinct(items) == \A i, j \in 1 .. Len(items) : items[i].name = items[j].name => i = j

TypesInv(env, k, acc) == DOMAIN acc = Fields /\ TypesSupported(acc)

ReadFold == INSTANCE FoldInduction WITH Op <- ItemsStep, P <- TypesInv

-----------------------------------------------------------------------------
(* What the operations of Module and of the assembler change. *)
LEMMA NewFields ==
  /\ DOMAIN NewCompile = Fields
  /\ NewCompile.function_index = 0 /\ NewCompile.function_body_index = 0
  /\ NewCompile.typedefs = <<>> /\ NewCompile.types = <<>>
  /\ NewCompile.got = {} /\ NewCompile.ils = {}
  /\ NewCompile.label_indices = <<>> /\ NewCompile.function_bodies = <<>>
  /\ NewCompile.code = <<>> /\ NewCompile.imports = <<>>
BY DEF NewCompile, Fields

LEMMA BodyFields ==
  ASSUME NEW m, DOMAIN m = Fields, NEW gen
  PROVE  LET f == m.function_body_index
             m2 == AddBody(m, gen)
         IN /\ DOMAIN m2 = Fields
            /\ m2.function_bodies =
                 Append(m.function_bodies, [label |-> FunctionLabel(f), index |-> f])
            /\ m2.label_indices =
                 Append(m.label_indices, [index |-> BodyLabelIndex(m), label |-> FunctionLabel(f)])
            /\ m2.code = m.code \o gen.code
            /\ m2.function_body_index = f + 1
            /\ Unchanged(m, m2, {"function_bodies", "label_indices", "code", "heights",
                                 "function_body_index"})
BY Zenon DEF AddBody, Fields, Unchanged

(* The loop over the payloads. *)
LEMMA Advance ==
  ASSUME NEW module, NEW left, NEW m, Position(module, left, m), left # <<>>
  PROVE  LET t == Taken(module, left)
         IN /\ t \in Nat /\ t + 1 \in 1 .. Len(module) /\ DOMAIN module = 1 .. Len(module)
            /\ Taken(module, Tail(left)) = t + 1
            /\ Tail(left) \in Seq(AnyPayload) /\ Len(Tail(left)) <= Len(module)
            /\ \A k \in 1 .. Len(Tail(left)) : Tail(left)[k] = module[t + 1 + k]
            /\ Head(left) = module[t + 1] /\ Head(left) = left[1] /\ Head(left) \in AnyPayload
<1> DEFINE t == Taken(module, left)
           n == Len(left)
           short == Tail(left)
<1>1. /\ left \in Seq(AnyPayload) /\ module \in Seq(AnyPayload)
      /\ n <= Len(module)
      /\ \A k \in 1 .. n : left[k] = module[t + k]
  BY CompilerAssumption DEF Position
<1>2. n \in Nat /\ n > 0 /\ Len(module) \in Nat /\ DOMAIN module = 1 .. Len(module)
  BY <1>1
<1>3. /\ Head(left) = left[1] /\ left[1] \in AnyPayload
      /\ short \in Seq(AnyPayload) /\ Len(short) = n - 1
      /\ \A k \in 1 .. n - 1 : short[k] = left[k + 1]
  BY <1>1, <1>2
<1>4. t = Len(module) - n /\ Taken(module, short) = Len(module) - Len(short)
  BY DEF Taken
<1> HIDE DEF t, short, n
<1>5. /\ t \in Nat /\ t + 1 \in 1 .. Len(module)
      /\ Taken(module, short) = t + 1 /\ Len(short) <= Len(module)
  BY <1>1, <1>2, <1>3, <1>4
<1>6. Head(left) = module[t + 1]
  BY <1>1, <1>2, <1>3
<1>7. ASSUME NEW k \in 1 .. Len(short)
      PROVE  short[k] = module[t + 1 + k]
  <2>1. k \in 1 .. n - 1 /\ k + 1 \in 1 .. n /\ t + (k + 1) = t + 1 + k
    BY <1>2, <1>3, <1>5, <1>7, SMTT(30)
  <2> QED
    BY <1>1, <1>3, <2>1
<1> QED
  BY <1>2, <1>3, <1>5, <1>6, <1>7, SMTT(30) DEF t, short

LEMMA PayloadItems ==
  ASSUME NEW p \in AnyPayload, p.kind \in ItemSections
  PROVE  /\ Len(p.items) \in Nat /\ DOMAIN p.items = 1 .. Len(p.items)
         /\ \A k \in 1 .. Len(p.items) : ItemOf(p.kind, p.items[k])
<1>1. \/ p \in SectionOf("Type", TypeDef) \/ p \in SectionOf("Import", ImportEntry)
      \/ p \in SectionOf("Function", Nat) \/ p \in SectionOf("Memory", Nat)
      \/ p \in SectionOf("Export", ExportEntry)
  BY DEF AnyPayload, ItemSections, CodeEntry
<1>2. ASSUME NEW kind, NEW Item, p \in SectionOf(kind, Item)
      PROVE  p.kind = kind /\ p.items \in Seq(Item)
  BY <1>2 DEF SectionOf
<1>3. ASSUME NEW Item, p.items \in Seq(Item)
      PROVE  /\ Len(p.items) \in Nat /\ DOMAIN p.items = 1 .. Len(p.items)
             /\ \A k \in 1 .. Len(p.items) : p.items[k] \in Item
  BY <1>3
<1>4. CASE p \in SectionOf("Type", TypeDef)
  <2>1. p.kind = "Type" /\ p.items \in Seq(TypeDef)
    BY <1>2, <1>4
  <2> QED
    BY <1>3, <2>1 DEF ItemOf
<1>5. CASE p \in SectionOf("Import", ImportEntry)
  <2>1. p.kind = "Import" /\ p.items \in Seq(ImportEntry)
    BY <1>2, <1>5
  <2> QED
    BY <1>3, <2>1 DEF ItemOf
<1>6. CASE p \in SectionOf("Function", Nat) \/ p \in SectionOf("Memory", Nat)
  <2>1. p.kind \notin {"Type", "Import"} /\ p.items \in Seq(Nat)
    BY <1>2, <1>6
  <2> QED
    BY <1>3, <2>1 DEF ItemOf
<1>7. CASE p \in SectionOf("Export", ExportEntry)
  <2>1. p.kind = "Export" /\ p.items \in Seq(ExportEntry)
    BY <1>2, <1>7, SMTT(30)
  <2> QED
    BY <1>3, <2>1 DEF ItemOf
<1> QED
  BY <1>1, <1>4, <1>5, <1>6, <1>7

-----------------------------------------------------------------------------
(* What compile reads keeps Stage, from the first payload to the binding   *)
(* of the labels: sections of items, sections without code, bodies, of     *)
(* which the code generator neither fails nor panics; and the types that   *)
(* it has read of a supported module are supported.                        *)
THEOREM StagesKept ==
  ASSUME Inductive, ByteOffsets
  PROVE  /\ \A module \in Modules : Stage("parse", module, module, NewCompile)
         /\ \A module, left, m, m2 :
              /\ Stage("parse", module, left, m) /\ left # <<>>
              /\ Head(left).kind \in ItemSections /\ Head(left).valid
              /\ m2 = ReadItems(Head(left).kind, m, Head(left).items)
              /\ m2.function_index <= MaxFunctions
              => Stage("parse", module, Tail(left), m2)
         /\ \A module, left, m :
              Stage("parse", module, left, m) /\ left # <<>> /\ Head(left).kind = "Other" =>
                Stage("parse", module, Tail(left), m)
         /\ \A module, left, m, gen :
              /\ Stage("parse", module, left, m) /\ left # <<>>
              /\ Head(left).kind = "Code" /\ m.function_body_index \in m.got /\ IsBody(m, gen.code)
              => Stage("parse", module, Tail(left), AddBody(m, gen))
         /\ \A module, left, m, m2, entries :
              Stage("bind", module, left, m) /\ m2 = [m EXCEPT !.entries = entries] =>
                Stage("done", module, left, m2)
         /\ \A m, items : \A kind \in ItemSections :
              /\ DOMAIN m = Fields /\ TypesSupported(m) /\ Len(items) \in Nat
              /\ \A k \in 1 .. Len(items) :
                   kind = "Type" /\ items[k].kind = "Func" => SupportedType(items[k])
              => TypesSupported(ReadItems(kind, m, items))

<1>AppendOne.
      ASSUME NEW S, NEW s \in Seq(S), NEW x \in S
      PROVE  /\ Append(s, x) \in Seq(S)
             /\ Len(s) \in Nat /\ Len(Append(s, x)) = Len(s) + 1
             /\ \A j \in 1 .. Len(s) : Append(s, x)[j] = s[j]
             /\ Append(s, x)[Len(s) + 1] = x
  OBVIOUS

<1>DataInstr.
      ASSUME NEW got, NEW ils, NEW n \in Int
      PROVE  Qword(n) \in Instr(got, ils) /\ ZeroBytes \in Instr(got, ils)
  BY DEF Qword, ZeroBytes, Ins, Imm, None, Instr, Operand, Codes, AllCodes, OperandNames, RegisterNames

<1>TypeFields.
      ASSUME NEW m, DOMAIN m = Fields, NEW t
      PROVE  /\ DOMAIN AddType(m, t) = Fields
             /\ AddType(m, t).typedefs \in
                  {m.typedefs, Insert(m.typedefs, m.function_type_index, t)}
             /\ t.kind # "Func" => AddType(m, t).typedefs = m.typedefs
             /\ Unchanged(m, AddType(m, t), {"typedefs", "function_type_index", "all_types"})
  BY <1>TypeFields, Zenon DEF AddType, Fields, Unchanged

<1>OtherImportFields.
      ASSUME NEW m, DOMAIN m = Fields
      PROVE  /\ DOMAIN OtherImport(m) = Fields
             /\ OtherImport(m).code = Append(m.code, ZeroBytes)
             /\ Unchanged(m, OtherImport(m), {"code"})
  BY <1>OtherImportFields, Zenon DEF OtherImport, Fields, Unchanged

<1>ImportFields.
      ASSUME NEW m, DOMAIN m = Fields, NEW i, i.kind = "Function"
      PROVE  LET f == m.function_index
                 m2 == AddImport(m, i)
             IN /\ DOMAIN m2 = Fields
                /\ m2.imports = Insert(m.imports, f, [module |-> i.module, name |-> i.name,
                                                      offset |-> ImportOffset(m)])
                /\ m2.label_indices =
                     Append(m.label_indices, [index |-> ImportLabelIndex(m), label |-> ImportLabel(f)])
                /\ m2.code = Append(Append(m.code, ZeroBytes), Qword(Unlinked))
                /\ m2.ils = m.ils \cup {f}
                /\ m2.types = Insert(m.types, f, i.ty)
                /\ m2.function_index = f + 1
                /\ m2.function_body_index = m.function_body_index + 1
                /\ Unchanged(m, m2, {"imports", "label_indices", "code", "ils", "types",
                                     "function_index", "function_body_index"})
  <2> USE <1>ImportFields
  <2> DEFINE o == OtherImport(m)
  <2>1. /\ DOMAIN o = Fields /\ o.code = Append(m.code, ZeroBytes)
        /\ \A x \in Fields \ {"code"} : o[x] = m[x]
    BY <1>OtherImportFields DEF Unchanged
  <2>2. /\ o.imports = m.imports /\ o.label_indices = m.label_indices /\ o.ils = m.ils
        /\ o.types = m.types /\ o.function_index = m.function_index
        /\ o.function_body_index = m.function_body_index
    BY <2>1 DEF Fields
  <2> HIDE DEF o
  <2> QED
    BY <2>1, <2>2, Zenon DEF AddImport, Fields, Unchanged, o

<1>FunctionFields.
      ASSUME NEW m, DOMAIN m = Fields, NEW ty
      PROVE  LET f == m.function_index
                 m2 == AddFunction(m, ty)
             IN /\ DOMAIN m2 = Fields
                /\ m2.label_indices =
                     Append(m.label_indices, [index |-> Len(m.code), label |-> SlotLabel(f)])
                /\ m2.code = Append(m.code, Qword(0))
                /\ m2.got = m.got \cup {f}
                /\ m2.types = Insert(m.types, f, ty)
                /\ m2.function_index = f + 1
                /\ Unchanged(m, m2, {"functions", "label_indices", "code", "got", "types",
                                     "function_index"})
  BY <1>FunctionFields, Zenon DEF AddFunction, Fields, Unchanged

<1>ExportFields.
      ASSUME NEW m, DOMAIN m = Fields, NEW e
      PROVE  /\ DOMAIN AddExport(m, e) = Fields
             /\ AddExport(m, e).exports = Insert(m.exports, e.name, e.index)
             /\ Unchanged(m, AddExport(m, e), {"exports"})
  BY <1>ExportFields, Zenon DEF AddExport, Fields, Unchanged

<1>MemoryFields.
      ASSUME NEW m, DOMAIN m = Fields, NEW memory
      PROVE  /\ DOMAIN AddMemory(m, memory) = Fields
             /\ Unchanged(m, AddMemory(m, memory), {"memories"})
  BY <1>MemoryFields, Zenon DEF AddMemory, Fields, Unchanged

<1>TypedFacts.
      ASSUME NEW S, NEW m, Typed(S, m)
      PROVE  /\ Len(m.label_indices) \in Nat /\ Len(m.code) \in Nat
             /\ \A j \in 1 .. Len(m.label_indices) :
                  m.label_indices[j].index \in Nat /\ AsIndexed(m)[j] = m.label_indices[j].index
  <2> USE <1>TypedFacts
  <2>1. Len(m.label_indices) \in Nat /\ Len(m.code) \in Nat
    BY DEF Typed
  <2>2. \A j \in 1 .. Len(m.label_indices) : m.label_indices[j] \in LabelIndex
    BY DEF Typed
  <2>3. \A j \in 1 .. Len(m.label_indices) : m.label_indices[j].index \in Nat
    BY <2>2 DEF LabelIndex
  <2> QED
    BY <2>1, <2>3 DEF AsIndexed

<1>ApartStep.
      ASSUME NEW S, NEW m, NEW m2, Typed(S, m), Typed(S, m2), Grows(m, m2), LabelAdded(m, m2),
             Apart(m, m.code, AsIndexed(m)), BehindFixed(m, m.code, AsIndexed(m))
      PROVE  Apart(m2, m2.code, AsIndexed(m2)) /\ BehindFixed(m2, m2.code, AsIndexed(m2))
  <2> USE <1>ApartStep
  <2> DEFINE N == Len(m.label_indices)
             N2 == Len(m2.label_indices)
             L == Len(m.code)
             L2 == Len(m2.code)
             at == AsIndexed(m)
             at2 == AsIndexed(m2)
  <2>1. N \in Nat /\ N2 \in Nat /\ L \in Nat /\ L2 \in Nat
    BY <1>TypedFacts
  <2>2. /\ \A j \in 1 .. N2 : at2[j] \in Nat /\ at2[j] = m2.label_indices[j].index
        /\ \A j \in 1 .. N : at[j] \in Nat /\ at[j] = m.label_indices[j].index
    BY <1>TypedFacts
  <2>3. N2 \in {N, N + 1} /\ L <= L2 /\ \A k \in 1 .. L : m2.code[k] = m.code[k]
    BY DEF Grows
  <2>4. \A j \in 1 .. N : at2[j] = at[j]
    <3>1. \A j \in 1 .. N : j \in 1 .. N2 /\ m2.label_indices[j] = m.label_indices[j]
      BY <2>1, <2>3 DEF Grows
    <3> QED
      BY <2>2, <3>1
  <2>5. /\ \A j \in 1 .. N : at[j] < L /\ (at[j] = 0 \/ FixedAt(m.code, at[j]))
        /\ \A i, j \in 1 .. N : i < j => at[i] < at[j]
    BY DEF Apart, BehindFixed
  <2>6. N2 = N + 1 => L <= at2[N2] /\ at2[N2] < L2 /\ (at2[N2] = 0 \/ FixedAt(m2.code, at2[N2]))
    <3>1. N2 = N + 1 => N2 \in 1 .. N2
      BY <2>1
    <3> QED
      BY <2>2, <3>1 DEF LabelAdded, LastLabel
  <2>7. L2 > 0 => FixedAt(m2.code, L2)
    BY DEF LabelAdded
  <2> HIDE DEF N, N2, L, L2, at, at2
  <2>8. \A k \in 1 .. L : FixedAt(m.code, k) => FixedAt(m2.code, k)
    BY <2>3 DEF FixedAt
  <2>9. \A j \in 1 .. N2 : j \in 1 .. N \/ (j = N2 /\ N2 = N + 1)
    <3>1. N2 = N \/ N2 = N + 1
      BY <2>3
    <3> QED
      BY <2>1, <3>1
  <2>10. \A j \in 1 .. N2 : at2[j] < L2
    BY <2>1, <2>2, <2>3, <2>4, <2>5, <2>6, <2>9
  <2>11. \A j \in 1 .. N2 : at2[j] = 0 \/ FixedAt(m2.code, at2[j])
    <3> SUFFICES ASSUME NEW j \in 1 .. N, at2[j] # 0 PROVE FixedAt(m2.code, at2[j])
      BY <2>6, <2>9
    <3>1. at2[j] = at[j] /\ at[j] \in Nat /\ at[j] < L /\ FixedAt(m.code, at[j])
      BY <2>2, <2>4, <2>5
    <3>2. at[j] \in 1 .. L
      BY <2>1, <3>1
    <3> QED
      BY <2>8, <3>1, <3>2
  <2>12. \A i, j \in 1 .. N2 : i < j => at2[i] < at2[j]
    <3> SUFFICES ASSUME NEW i \in 1 .. N2, NEW j \in 1 .. N2, i < j PROVE at2[i] < at2[j]
      OBVIOUS
    <3>1. i \in 1 .. N
      BY <2>1, <2>9
    <3>2. CASE j \in 1 .. N
      BY <2>4, <2>5, <3>1, <3>2
    <3>3. CASE j = N2 /\ N2 = N + 1
      <4>1. at2[i] \in Nat /\ at2[i] < L /\ at2[j] \in Nat /\ L <= at2[j]
        BY <2>2, <2>4, <2>5, <2>6, <3>1, <3>3
      <4> QED
        BY <2>1, <4>1
    <3> QED
      BY <2>9, <3>2, <3>3
  <2>13. N2 > 0 => L2 > 0
    <3>1. N2 > 0 => 1 \in 1 .. N2
      BY <2>1
    <3> QED
      BY <2>1, <2>2, <2>10, <3>1
  <2> QED
    BY <2>2, <2>7, <2>10, <2>11, <2>12, <2>13 DEF Apart, BehindFixed, N2, L2, at2

<1>SlotsStep.
      ASSUME NEW S, NEW m, NEW m2, Typed(S, m), Typed(S, m2), Grows(m, m2),
             NEW n, SlotsIn(m, m.code, AsIndexed(m), n),
             NEW n2 \in 0 .. Len(m2.code), n <= n2, SlotAdded(m, m2, n2)
      PROVE  SlotsIn(m2, m2.code, AsIndexed(m2), n2)
  <2> USE <1>SlotsStep
  <2> DEFINE N == Len(m.label_indices)
             N2 == Len(m2.label_indices)
             L == Len(m.code)
             L2 == Len(m2.code)
             at == AsIndexed(m)
             at2 == AsIndexed(m2)
             label(j) == m2.label_indices[j].label
  <2>1. N \in Nat /\ N2 \in Nat /\ L \in Nat /\ L2 \in Nat
    BY <1>TypedFacts
  <2>2. /\ \A j \in 1 .. N2 : at2[j] \in Nat /\ at2[j] = m2.label_indices[j].index
        /\ \A j \in 1 .. N : at[j] \in Nat /\ at[j] = m.label_indices[j].index
    BY <1>TypedFacts
  <2>3. N2 \in {N, N + 1} /\ L <= L2 /\ \A k \in 1 .. L : m2.code[k] = m.code[k]
    BY DEF Grows
  <2>4. \A j \in 1 .. N : m2.label_indices[j] = m.label_indices[j]
    BY DEF Grows
  <2>5. n \in 0 .. L /\ n2 \in 0 .. L2
    BY DEF SlotsIn
  <2>6. \A k \in 1 .. n2 : FixedAt(m2.code, k)
    BY SMTT(30) DEF SlotAdded
  <2>7. ASSUME NEW j \in 1 .. N2, label(j)[1] = "ils"
        PROVE  /\ at2[j] < n2
               /\ m2.code[at2[j] + 1] = Qword(Unlinked)
               /\ m2.imports[label(j)[2]].offset = Offset(m2.code, at2[j])
    <3>1. CASE j \in 1 .. N
      <4>1. at2[j] = at[j] /\ at[j] \in Nat /\ m.label_indices[j].label = label(j)
        BY <2>2, <2>4, <3>1
      <4>2. /\ at[j] < n /\ m.code[at[j] + 1] = Qword(Unlinked)
            /\ m.imports[label(j)[2]].offset = Offset(m.code, at[j])
        BY <2>7, <3>1, <4>1, Zenon DEF SlotsIn
      <4>3. m2.imports[label(j)[2]] = m.imports[label(j)[2]]
        <5>1. m.label_indices[j].label[1] = "ils"
          BY <2>7, <4>1
        <5>2. m2.imports[m.label_indices[j].label[2]] = m.imports[m.label_indices[j].label[2]]
          BY <3>1, <5>1 DEF SlotAdded
        <5> QED
          BY <4>1, <5>2
      <4> HIDE DEF N, N2, L, L2, at, at2, label
      <4>4. at[j] + 1 \in 1 .. L /\ at[j] <= L /\ at[j] <= L2 /\ at[j] < n2
        BY <2>1, <2>3, <2>5, <4>1, <4>2
      <4>5. \A k \in 1 .. at[j] : m.code[k] = m2.code[k]
        <5>1. \A k \in 1 .. at[j] : k \in 1 .. L
          BY <2>1, <4>1, <4>4
        <5> QED
          BY <2>3, <5>1
      <4>6. Offset(m.code, at[j]) = Offset(m2.code, at[j])
        <5>1. m.code \in Seq(S) /\ m2.code \in Seq(S)
          BY DEF Typed
        <5> QED
          BY <4>1, <4>4, <4>5, <5>1, SameOffsets, Zenon DEF L, L2
      <4>7. m2.code[at[j] + 1] = Qword(Unlinked)
        BY <2>3, <4>2, <4>4
      <4> QED
        BY <4>1, <4>2, <4>3, <4>4, <4>6, <4>7
    <3>2. CASE ~ (j \in 1 .. N)
      <4>1. j = N2 /\ N2 = N + 1
        BY <2>1, <2>3, <3>2
      <4> QED
        BY <2>2, <2>7, <4>1, Zenon DEF SlotAdded, LastLabel
    <3> QED
      BY <3>1, <3>2
  <2> QED
    BY <2>5, <2>6, <2>7, Zenon DEF SlotsIn

(* Every payload keeps what compile has built in order. *)
<1>MoreLabels.
      ASSUME NEW got, NEW ils, NEW got2, NEW ils2, got \subseteq got2, ils \subseteq ils2
      PROVE  Instr(got, ils) \subseteq Instr(got2, ils2)
  <2> USE <1>MoreLabels
  <2>1. Operand(got, ils) \subseteq Operand(got2, ils2)
    BY DEF Operand
  <2> QED
    BY <2>1 DEF Instr

<1>StaticKept.
      ASSUME NEW m, NEW m2, Static(m), DOMAIN m2 = Fields, Unchanged(m, m2, Untouched), ContextOK(m2)
      PROVE  /\ Static(m2)
             /\ Laid(m) => Laid(m2)
             /\ m2.function_index = m.function_index
             /\ m2.got = m.got /\ m2.function_bodies = m.function_bodies
  <2> USE <1>StaticKept
  <2>1. /\ m2.function_index = m.function_index /\ m2.function_body_index = m.function_body_index
        /\ m2.types = m.types /\ m2.got = m.got /\ m2.ils = m.ils
        /\ m2.label_indices = m.label_indices /\ m2.function_bodies = m.function_bodies
        /\ m2.code = m.code /\ m2.imports = m.imports
    BY DEF Unchanged, Untouched, Fields
  <2>2. Indices(m2)
    BY <2>1, SMTT(30) DEF Static, Indices
  <2>3. Labelled(m2)
    BY <2>1 DEF Static, Labelled, HasLabel
  <2>4. Bodied(m2)
    BY <2>1 DEF Static, Bodied, BodiesWith
  <2>5. Imported(m2)
    BY <2>1 DEF Static, Imported
  <2>6. m2.code \in Seq(Instr(m2.got, m2.ils))
    BY <2>1 DEF Static
  <2>7. AsIndexed(m2) = AsIndexed(m)
    BY <2>1 DEF AsIndexed
  <2>8. /\ Apart(m, m.code, AsIndexed(m)) => Apart(m2, m2.code, AsIndexed(m2))
        /\ BehindFixed(m, m.code, AsIndexed(m)) => BehindFixed(m2, m2.code, AsIndexed(m2))
    BY <2>1, <2>7 DEF Apart, BehindFixed
  <2>9. \A n : SlotsIn(m, m.code, AsIndexed(m), n) => SlotsIn(m2, m2.code, AsIndexed(m2), n)
    BY <2>1, <2>7, Zenon DEF SlotsIn
  <2>10. Laid(m) => Laid(m2)
    BY <2>1, <2>8, <2>9 DEF Laid
  <2> QED
    BY <2>1, <2>2, <2>3, <2>4, <2>5, <2>6, <2>10 DEF Static

<1>TypeStep.
      ASSUME NEW m, Static(m), Laid(m), NEW t \in TypeDef
      PROVE  /\ Static(AddType(m, t)) /\ Laid(AddType(m, t))
             /\ AddType(m, t).got = m.got /\ AddType(m, t).function_bodies = m.function_bodies
  <2> USE <1>TypeStep
  <2> DEFINE m2 == AddType(m, t)
  <2>1. DOMAIN m2 = Fields /\ Unchanged(m, m2, {"typedefs", "function_type_index", "all_types"})
    BY <1>TypeFields, Zenon DEF Static
  <2>2. ContextOK(m2)
    <3>1. ContextOK(m)
      BY DEF Static, Indices
    <3>2. CASE m2.typedefs = m.typedefs
      BY <3>1, <3>2 DEF ContextOK
    <3>3. CASE m2.typedefs # m.typedefs
      <4>1. t.kind = "Func" /\ m2.typedefs = Insert(m.typedefs, m.function_type_index, t)
        BY <3>3, <1>TypeFields, Zenon DEF Static
      <4>2. t \in FuncType
        BY <4>1 DEF TypeDef
      <4> HIDE DEF m2
      <4>3. /\ DOMAIN m2.typedefs = DOMAIN m.typedefs \cup {m.function_type_index}
            /\ m2.typedefs[m.function_type_index] = t
            /\ \A y \in DOMAIN m.typedefs : y # m.function_type_index => m2.typedefs[y] = m.typedefs[y]
        BY <4>1 DEF Insert
      <4> QED
        BY <3>1, <4>2, <4>3 DEF ContextOK
    <3> QED
      BY <3>2, <3>3
  <2>3. Unchanged(m, m2, Untouched)
    BY <2>1 DEF Unchanged, Untouched
  <2> HIDE DEF m2
  <2>4. Static(m2) /\ Laid(m2) /\ m2.got = m.got /\ m2.function_bodies = m.function_bodies
    BY <2>1, <2>2, <2>3, <1>StaticKept
  <2> QED
    BY <2>4 DEF m2

<1>MemoryStep.
      ASSUME NEW m, Static(m), Laid(m), NEW memory
      PROVE  /\ Static(AddMemory(m, memory)) /\ Laid(AddMemory(m, memory))
             /\ AddMemory(m, memory).got = m.got
             /\ AddMemory(m, memory).function_bodies = m.function_bodies
  <2> USE <1>MemoryStep
  <2> DEFINE m2 == AddMemory(m, memory)
  <2>1. DOMAIN m2 = Fields /\ Unchanged(m, m2, {"memories"})
    BY <1>MemoryFields DEF Static
  <2> HIDE DEF m2
  <2>2. ContextOK(m2) /\ Unchanged(m, m2, Untouched)
    BY <2>1 DEF Static, Indices, ContextOK, Unchanged, Untouched, Fields
  <2>3. Static(m2) /\ Laid(m2) /\ m2.got = m.got /\ m2.function_bodies = m.function_bodies
    BY <2>1, <2>2, <1>StaticKept
  <2> QED
    BY <2>3 DEF m2

<1>ExportStep.
      ASSUME NEW m, Static(m), Laid(m), NEW e
      PROVE  /\ Static(AddExport(m, e)) /\ Laid(AddExport(m, e))
             /\ AddExport(m, e).got = m.got
             /\ AddExport(m, e).function_bodies = m.function_bodies
  <2> USE <1>ExportStep
  <2> DEFINE m2 == AddExport(m, e)
  <2>1. DOMAIN m2 = Fields /\ Unchanged(m, m2, {"exports"})
    BY <1>ExportFields, Zenon DEF Static
  <2> HIDE DEF m2
  <2>2. ContextOK(m2) /\ Unchanged(m, m2, Untouched)
    BY <2>1 DEF Static, Indices, ContextOK, Unchanged, Untouched, Fields
  <2>3. Static(m2) /\ Laid(m2) /\ m2.got = m.got /\ m2.function_bodies = m.function_bodies
    BY <2>1, <2>2, <1>StaticKept
  <2> QED
    BY <2>3 DEF m2

<1>DataFixed.
      ASSUME NEW m, Laid(m), m.function_bodies = <<>>
      PROVE  \A k \in 1 .. Len(m.code) : FixedAt(m.code, k)
  BY <1>DataFixed DEF Laid, SlotsIn

<1>DataLaid.
      ASSUME NEW S, NEW m, NEW m2, Typed(S, m), Typed(S, m2), Grows(m, m2), LabelAdded(m, m2), Laid(m),
             m.function_bodies = <<>>, SlotAdded(m, m2, Len(m2.code))
      PROVE  Laid(m2)
  <2> USE <1>DataLaid
  <2>1. PICK n \in 0 .. Len(m.code) : SlotsIn(m, m.code, AsIndexed(m), n)
    BY DEF Laid
  <2>2. Len(m.code) \in Nat /\ Len(m2.code) \in Nat /\ Len(m.code) <= Len(m2.code)
    BY <1>TypedFacts DEF Grows
  <2>3. n <= Len(m2.code) /\ Len(m2.code) \in 0 .. Len(m2.code)
    BY <2>2
  <2>4. SlotsIn(m2, m2.code, AsIndexed(m2), Len(m2.code))
    BY <2>1, <2>3, <1>SlotsStep
  <2>5. Apart(m2, m2.code, AsIndexed(m2)) /\ BehindFixed(m2, m2.code, AsIndexed(m2))
    BY <1>ApartStep DEF Laid
  <2> QED
    BY <2>3, <2>4, <2>5 DEF Laid

<1>StaticTyped.
      ASSUME NEW m, Static(m)
      PROVE  Typed(Instr(m.got, m.ils), m)
  BY <1>StaticTyped DEF Static, Labelled, Typed

<1>OtherImportStep.
      ASSUME NEW m, Static(m), Laid(m), m.function_bodies = <<>>
      PROVE  /\ Static(OtherImport(m)) /\ Laid(OtherImport(m))
             /\ OtherImport(m).got = m.got /\ OtherImport(m).function_bodies = <<>>
  <2> USE <1>OtherImportStep
  <2> DEFINE m2 == OtherImport(m)
             S == Instr(m.got, m.ils)
  <2>0. DOMAIN m2 = Fields /\ m2.code = Append(m.code, ZeroBytes) /\ Unchanged(m, m2, {"code"})
    BY <1>OtherImportFields DEF Static
  <2> HIDE DEF m2
  <2>1. /\ m2.function_index = m.function_index /\ m2.function_body_index = m.function_body_index
        /\ m2.types = m.types /\ m2.got = m.got /\ m2.ils = m.ils /\ m2.typedefs = m.typedefs
        /\ m2.label_indices = m.label_indices /\ m2.function_bodies = m.function_bodies
        /\ m2.imports = m.imports
    BY <2>0 DEF Unchanged, Fields
  <2>2. ZeroBytes \in S
    BY <1>DataInstr DEF AllRegisters, RegisterNames
  <2>3. m.code \in Seq(S)
    BY DEF Static
  <2> HIDE DEF S
  <2>4. /\ m2.code \in Seq(S) /\ Len(m.code) \in Nat /\ Len(m2.code) = Len(m.code) + 1
        /\ \A k \in 1 .. Len(m.code) : m2.code[k] = m.code[k]
        /\ m2.code[Len(m.code) + 1] = ZeroBytes
    BY <2>0, <2>2, <2>3, <1>AppendOne
  <2>5. Indices(m2) /\ Labelled(m2) /\ Bodied(m2) /\ Imported(m2)
    <3>1. Indices(m2)
      BY <2>1 DEF Static, Indices, ContextOK
    <3>2. Labelled(m2)
      BY <2>1 DEF Static, Labelled, HasLabel
    <3>3. Bodied(m2)
      BY <2>1 DEF Static, Bodied, BodiesWith
    <3>4. Imported(m2)
      BY <2>1 DEF Static, Imported
    <3> QED
      BY <3>1, <3>2, <3>3, <3>4
  <2>6. Static(m2)
    BY <2>0, <2>1, <2>4, <2>5 DEF Static, S
  <2>7. Typed(S, m) /\ Typed(S, m2)
    BY <2>1, <2>6, <1>StaticTyped DEF S
  <2>8. Len(m.label_indices) \in Nat
    BY <2>7, <1>TypedFacts
  <2>9. Grows(m, m2)
    BY <2>1, <2>4 DEF Grows
  <2>10. \A k \in 1 .. Len(m2.code) : FixedAt(m2.code, k)
    <3>1. ZeroBytes.code \in AllCodes
      BY DEF ZeroBytes, Ins, AllCodes
    <3>2. \A k \in 1 .. Len(m2.code) : k \in 1 .. Len(m.code) \/ k = Len(m.code) + 1
      BY <2>4
    <3>3. \A k \in 1 .. Len(m.code) : FixedAt(m.code, k)
      BY <1>DataFixed
    <3> QED
      BY <2>4, <3>1, <3>2, <3>3, Zenon DEF FixedAt
  <2>11. LabelAdded(m, m2)
    BY <2>1, <2>4, <2>8, <2>10 DEF LabelAdded
  <2>12. SlotAdded(m, m2, Len(m2.code))
    BY <2>1, <2>8, <2>10 DEF SlotAdded
  <2>13. Laid(m2)
    BY <2>7, <2>9, <2>11, <2>12, <1>DataLaid
  <2> QED
    BY <2>1, <2>6, <2>13 DEF m2

<1>LabelStep.
      ASSUME NEW m, NEW m2, NEW p, NEW l, Labelled(m), LabelFits(m, m2, p, l)
      PROVE  /\ Labelled(m2)
             /\ Len(m.label_indices) \in Nat /\ Len(m2.label_indices) = Len(m.label_indices) + 1
             /\ \A j \in 1 .. Len(m.label_indices) : m2.label_indices[j] = m.label_indices[j]
             /\ LastLabel(m2) = [index |-> p, label |-> l]
  <2> USE <1>LabelStep
  <2> DEFINE N == Len(m.label_indices)
             e == [index |-> p, label |-> l]
             li == m.label_indices
             li2 == m2.label_indices
  <2>1. e \in LabelIndex /\ e.label = l
    BY DEF LabelIndex, LabelFits
  <2>2. li \in Seq(LabelIndex) /\ li2 = Append(li, e)
    BY DEF Labelled, LabelFits
  <2> HIDE DEF e
  <2>3. /\ N \in Nat /\ li2 \in Seq(LabelIndex) /\ Len(li2) = N + 1
        /\ \A j \in 1 .. N : li2[j] = li[j]
        /\ li2[N + 1] = e
    BY <2>1, <2>2, <1>AppendOne
  <2>4. /\ \A i, j \in 1 .. N : li[i].label = li[j].label => i = j
        /\ \A j \in 1 .. N : /\ li[j].label[1] = "got" => /\ li[j].label[2] \in m.got
                                                         /\ li[j].label[2] < m.function_body_index
                             /\ li[j].label[1] = "ils" => li[j].label[2] \in m.ils
                             /\ li[j].label[1] = "slot" => li[j].label[2] \in m.got
    BY DEF Labelled
  <2>5. /\ \A f \in m.ils : \E j \in 1 .. N : li[j].label = ImportLabel(f)
        /\ \A f \in m.got : f < m.function_body_index => \E j \in 1 .. N : li[j].label = FunctionLabel(f)
    <3>1. DOMAIN li = 1 .. N
      BY <2>2
    <3> QED
      BY <3>1 DEF Labelled, HasLabel
  <2>6. DOMAIN li2 = 1 .. N + 1 /\ 1 .. N \subseteq 1 .. N + 1 /\ N + 1 \in 1 .. N + 1
    BY <2>3
  <2>7. \A j \in 1 .. N + 1 : j \in 1 .. N \/ j = N + 1
    BY <2>3
  <2> HIDE DEF N, li, li2
  <2>8. \A i, j \in 1 .. N + 1 : li2[i].label = li2[j].label => i = j
    <3>1. \A j \in 1 .. N : li[j].label # l
      BY DEF LabelFits, li, N
    <3> QED
      BY <2>1, <2>3, <2>4, <2>7, <3>1
  <2>9. \A j \in 1 .. N + 1 : /\ li2[j].label[1] = "got" => /\ li2[j].label[2] \in m2.got
                                                            /\ li2[j].label[2] < m2.function_body_index
                              /\ li2[j].label[1] = "ils" => li2[j].label[2] \in m2.ils
                              /\ li2[j].label[1] = "slot" => li2[j].label[2] \in m2.got
    <3>1. /\ li2[N + 1].label[1] = "got" => /\ li2[N + 1].label[2] \in m2.got
                                           /\ li2[N + 1].label[2] < m2.function_body_index
          /\ li2[N + 1].label[1] = "ils" => li2[N + 1].label[2] \in m2.ils
          /\ li2[N + 1].label[1] = "slot" => li2[N + 1].label[2] \in m2.got
      BY <2>1, <2>3 DEF LabelFits
    <3>2. ASSUME NEW j \in 1 .. N
          PROVE  /\ li2[j].label[1] = "got" => /\ li2[j].label[2] \in m2.got
                                              /\ li2[j].label[2] < m2.function_body_index
                 /\ li2[j].label[1] = "ils" => li2[j].label[2] \in m2.ils
                 /\ li2[j].label[1] = "slot" => li2[j].label[2] \in m2.got
      <4>1. li2[j].label = li[j].label
        BY <2>3
      <4>2. li2[j].label[1] = "got" => li2[j].label[2] \in Nat /\ li2[j].label[2] < m.function_body_index
        BY <2>4, <4>1 DEF LabelFits
      <4>3. /\ m.got \subseteq m2.got /\ m.ils \subseteq m2.ils
            /\ m.function_body_index \in Nat /\ m2.function_body_index \in Nat
            /\ m.function_body_index <= m2.function_body_index
        BY DEF LabelFits
      <4> QED
        BY <2>4, <4>1, <4>2, <4>3
    <3> QED
      BY <2>7, <3>1, <3>2
  <2>10. ASSUME NEW f \in m2.ils
         PROVE  \E j \in 1 .. N + 1 : li2[j].label = ImportLabel(f)
    <3>1. CASE l = ImportLabel(f)
      BY <2>1, <2>3, <2>6, <3>1
    <3>2. CASE f \in m.ils
      BY <2>3, <2>5, <2>6, <3>2
    <3>3. f \in m.ils \/ l = ImportLabel(f)
      BY DEF LabelFits
    <3> QED
      BY <3>1, <3>2, <3>3
  <2>11. ASSUME NEW f \in m2.got, f < m2.function_body_index
         PROVE  \E j \in 1 .. N + 1 : li2[j].label = FunctionLabel(f)
    <3>1. CASE l = FunctionLabel(f)
      BY <2>1, <2>3, <2>6, <3>1
    <3>2. CASE f \in m.got /\ f < m.function_body_index
      BY <2>3, <2>5, <2>6, <3>2
    <3>3. (f \in m.got /\ f < m.function_body_index) \/ l = FunctionLabel(f)
      BY <2>11 DEF LabelFits
    <3> QED
      BY <3>1, <3>2, <3>3
  <2>12. Labelled(m2)
    BY <2>3, <2>6, <2>8, <2>9, <2>10, <2>11, Zenon DEF Labelled, HasLabel, li2
  <2> QED
    BY <2>3, <2>12 DEF LastLabel, N, e, li, li2

<1>LabelSets.
      ASSUME NEW f \in Nat
      PROVE  /\ FunctionLabel(f) \in {"got", "ils", "slot"} \X Nat
             /\ ImportLabel(f) \in {"got", "ils", "slot"} \X Nat
             /\ SlotLabel(f) \in {"got", "ils", "slot"} \X Nat
             /\ FunctionLabel(f)[1] = "got" /\ FunctionLabel(f)[2] = f
             /\ ImportLabel(f)[1] = "ils" /\ ImportLabel(f)[2] = f
             /\ SlotLabel(f)[1] = "slot" /\ SlotLabel(f)[2] = f
  BY DEF FunctionLabel, ImportLabel, SlotLabel

<1>FunctionStep.
      ASSUME NEW m, Static(m), Laid(m), m.function_bodies = <<>>, NEW ty
      PROVE  /\ Static(AddFunction(m, ty)) /\ Laid(AddFunction(m, ty))
             /\ AddFunction(m, ty).function_bodies = <<>>
  <2> USE <1>FunctionStep
  <2> DEFINE m2 == AddFunction(m, ty)
             f == m.function_index
             S == Instr(m.got, m.ils)
             S2 == Instr(m2.got, m2.ils)
  <2>0. /\ DOMAIN m2 = Fields
        /\ m2.label_indices = Append(m.label_indices, [index |-> Len(m.code), label |-> SlotLabel(f)])
        /\ m2.code = Append(m.code, Qword(0))
        /\ m2.got = m.got \cup {f} /\ m2.types = Insert(m.types, f, ty) /\ m2.function_index = f + 1
        /\ Unchanged(m, m2, {"functions", "label_indices", "code", "got", "types", "function_index"})
    BY <1>FunctionFields, Zenon DEF Static
  <2> HIDE DEF m2
  <2>1. /\ m2.function_body_index = m.function_body_index
        /\ m2.ils = m.ils /\ m2.typedefs = m.typedefs /\ m2.function_bodies = m.function_bodies
        /\ m2.imports = m.imports
    BY <2>0 DEF Unchanged, Fields
  <2>2. /\ f \in Nat /\ m.function_body_index \in Nat /\ m.function_body_index <= f
        /\ DOMAIN m.types = 0 .. f - 1 /\ m.got \cup m.ils = 0 .. f - 1 /\ m.got \cap m.ils = {}
        /\ ContextOK(m)
    BY DEF Static, Indices
  <2>3. Indices(m2)
    <3>1. DOMAIN m2.types = 0 .. m2.function_index - 1
      <4>1. DOMAIN m2.types = DOMAIN m.types \cup {f}
        BY <2>0 DEF Insert
      <4> QED
        BY <2>0, <2>2, <4>1
    <3>2. m2.got \cup m2.ils = 0 .. m2.function_index - 1 /\ m2.got \cap m2.ils = {} /\ m2.got # {}
      BY <2>0, <2>1, <2>2, SMTT(30)
    <3>3. m2.function_index \in Nat /\ m2.function_body_index \in 0 .. m2.function_index
      BY <2>0, <2>1, <2>2
    <3>4. ContextOK(m2)
      BY <2>1, <2>2 DEF ContextOK
    <3> QED
      BY <3>1, <3>2, <3>3, <3>4 DEF Indices
  <2>4. m.got \subseteq m2.got /\ m.ils \subseteq m2.ils /\ f \in m2.got /\ m2.got \subseteq Nat
    BY <2>0, <2>1, <2>2
  <2>5. Qword(0) \in S2 /\ Qword(0).code \in AllCodes
    <3>1. Qword(0) \in S2
      BY <1>DataInstr DEF AllRegisters, RegisterNames
    <3> QED
      BY <3>1 DEF Qword, Ins, AllCodes
  <2>6. m.code \in Seq(S2)
    <3>1. m.code \in Seq(S) /\ S \subseteq S2
      BY <2>4, <1>MoreLabels DEF Static
    <3> HIDE DEF S, S2
    <3> QED
      BY <3>1, SeqSubset
  <2> HIDE DEF S, S2
  <2>7. /\ m2.code \in Seq(S2) /\ Len(m.code) \in Nat /\ Len(m2.code) = Len(m.code) + 1
        /\ \A k \in 1 .. Len(m.code) : m2.code[k] = m.code[k]
        /\ m2.code[Len(m.code) + 1] = Qword(0)
    BY <2>0, <2>5, <2>6, <1>AppendOne
  <2>8. Labelled(m)
    BY DEF Static
  <2>9. \A j \in 1 .. Len(m.label_indices) : m.label_indices[j].label # SlotLabel(f)
    <3>1. f \notin m.got
      BY <2>2
    <3> QED
      BY <2>2, <2>8, <3>1, <1>LabelSets DEF Labelled
  <2>10. /\ SlotLabel(f) \in {"got", "ils", "slot"} \X Nat
         /\ SlotLabel(f)[1] = "slot" /\ SlotLabel(f)[2] = f
    BY <2>2, <1>LabelSets
  <2>11. \A g \in m2.got : g < m2.function_body_index => g \in m.got /\ g < m.function_body_index
    BY <2>0, <2>1, <2>2
  <2>12. /\ Labelled(m2)
         /\ Len(m.label_indices) \in Nat /\ Len(m2.label_indices) = Len(m.label_indices) + 1
         /\ \A j \in 1 .. Len(m.label_indices) : m2.label_indices[j] = m.label_indices[j]
         /\ LastLabel(m2) = [index |-> Len(m.code), label |-> SlotLabel(f)]
    <3> DEFINE l == SlotLabel(f)
    <3>1. /\ l[1] = "got" => l[2] \in m2.got /\ l[2] < m2.function_body_index
          /\ l[1] = "ils" => l[2] \in m2.ils
          /\ l[1] = "slot" => l[2] \in m2.got
      BY <2>4, <2>10
    <3>2. /\ \A g \in m2.ils : g \in m.ils \/ l = ImportLabel(g)
          /\ \A g \in m2.got : g < m2.function_body_index =>
               (g \in m.got /\ g < m.function_body_index) \/ l = FunctionLabel(g)
      BY <2>1, <2>11
    <3>3. /\ m.function_body_index \in Nat /\ m2.function_body_index \in Nat
          /\ m.function_body_index <= m2.function_body_index
      BY <2>1, <2>2
    <3>4. /\ Len(m.code) \in Nat /\ l \in {"got", "ils", "slot"} \X Nat
          /\ m2.label_indices = Append(m.label_indices, [index |-> Len(m.code), label |-> l])
          /\ \A j \in 1 .. Len(m.label_indices) : m.label_indices[j].label # l
      BY <2>0, <2>7, <2>9, <2>10
    <3> SUFFICES /\ Labelled(m2)
                 /\ Len(m.label_indices) \in Nat /\ Len(m2.label_indices) = Len(m.label_indices) + 1
                 /\ \A j \in 1 .. Len(m.label_indices) : m2.label_indices[j] = m.label_indices[j]
                 /\ LastLabel(m2) = [index |-> Len(m.code), label |-> l]
      OBVIOUS
    <3> HIDE DEF l, f
    <3> QED
      <4>1. LabelFits(m, m2, Len(m.code), l)
        BY <2>4, <3>1, <3>2, <3>3, <3>4 DEF LabelFits
      <4> QED
        BY <2>8, <4>1, <1>LabelStep
  <2>13. Bodied(m2)
    <3>1. Bodied(m)
      BY DEF Static
    <3> QED
      BY <2>1, <2>11, <3>1 DEF Bodied, BodiesWith
  <2>14. Imported(m2)
    BY <2>1 DEF Static, Imported
  <2>15. Static(m2)
    BY <2>0, <2>3, <2>7, <2>12, <2>13, <2>14 DEF Static, S2
  <2>16. Typed(S2, m) /\ Typed(S2, m2)
    BY <2>6, <2>7, <2>8, <2>12, Zenon DEF Typed, Labelled
  <2>17. Grows(m, m2)
    BY <2>7, <2>12 DEF Grows
  <2>18. \A k \in 1 .. Len(m2.code) : FixedAt(m2.code, k)
    <3>2. \A k \in 1 .. Len(m2.code) : k \in 1 .. Len(m.code) \/ k = Len(m.code) + 1
      BY <2>7
    <3>3. \A k \in 1 .. Len(m.code) : FixedAt(m.code, k)
      BY <1>DataFixed
    <3> QED
      BY <2>5, <2>7, <3>2, <3>3 DEF FixedAt
  <2>19. LabelAdded(m, m2)
    <3>1. LastLabel(m2).index = Len(m.code)
      BY <2>12
    <3>2. Len(m.code) # 0 => Len(m.code) \in 1 .. Len(m2.code)
      BY <2>7
    <3>3. Len(m2.code) \in 1 .. Len(m2.code) /\ Len(m.code) <= Len(m.code) /\ Len(m.code) < Len(m2.code)
      BY <2>7
    <3> QED
      BY <2>18, <3>1, <3>2, <3>3 DEF LabelAdded
  <2>20. SlotAdded(m, m2, Len(m2.code))
    <3>1. LastLabel(m2).label[1] = "slot"
      BY <2>10, <2>12
    <3> QED
      BY <2>1, <2>18, <3>1 DEF SlotAdded
  <2>21. Laid(m2)
    BY <2>16, <2>17, <2>19, <2>20, <1>DataLaid
  <2> QED
    BY <2>1, <2>15, <2>21, SMTT(30) DEF m2

<1>ImportStep.
      ASSUME NEW m, Static(m), Laid(m), m.function_bodies = <<>>, m.got = {},
             NEW i \in ImportEntry, i.kind = "Function"
      PROVE  /\ Static(AddImport(m, i)) /\ Laid(AddImport(m, i))
             /\ AddImport(m, i).function_bodies = <<>> /\ AddImport(m, i).got = {}
  <2> USE <1>ImportStep
  <2> DEFINE m2 == AddImport(m, i)
             f == m.function_index
             S == Instr(m.got, m.ils)
             S2 == Instr(m2.got, m2.ils)
             L == Len(m.code)
             import == [module |-> i.module, name |-> i.name, offset |-> ImportOffset(m)]
  <2>0. /\ DOMAIN m2 = Fields
        /\ m2.imports = Insert(m.imports, f, import)
        /\ m2.label_indices =
             Append(m.label_indices, [index |-> ImportLabelIndex(m), label |-> ImportLabel(f)])
        /\ m2.code = Append(Append(m.code, ZeroBytes), Qword(Unlinked))
        /\ m2.ils = m.ils \cup {f} /\ m2.types = Insert(m.types, f, i.ty)
        /\ m2.function_index = f + 1 /\ m2.function_body_index = m.function_body_index + 1
        /\ Unchanged(m, m2, {"imports", "label_indices", "code", "ils", "types",
                             "function_index", "function_body_index"})
    BY <1>ImportFields, Zenon DEF Static
  <2> HIDE DEF m2
  <2>1. m2.got = {} /\ m2.typedefs = m.typedefs /\ m2.function_bodies = m.function_bodies
    BY <2>0, Zenon DEF Unchanged, Fields
  <2>2. /\ f \in Nat /\ m.function_body_index = f
        /\ DOMAIN m.types = 0 .. f - 1 /\ m.ils = 0 .. f - 1 /\ ContextOK(m)
    BY DEF Static, Indices
  <2>3. Indices(m2)
    <3>1. DOMAIN m2.types = 0 .. m2.function_index - 1
      <4>1. DOMAIN m2.types = DOMAIN m.types \cup {f}
        BY <2>0, SMTT(30) DEF Insert
      <4> QED
        BY <2>0, <2>2, <4>1
    <3>2. m2.got \cup m2.ils = 0 .. m2.function_index - 1 /\ m2.got \cap m2.ils = {}
      BY <2>0, <2>1, <2>2, SMTT(30)
    <3>3. m2.function_index \in Nat /\ m2.function_body_index = m2.function_index
      BY <2>0, <2>2, SMTT(40)
    <3>4. ContextOK(m2)
      BY <2>1, <2>2, SMTT(30) DEF ContextOK
    <3> QED
      BY <3>1, <3>2, <3>3, <3>4, SMTT(30) DEF Indices
  <2>4. m.got \subseteq m2.got /\ m.ils \subseteq m2.ils /\ f \in m2.ils /\ m2.ils \subseteq Nat
    BY <2>0, <2>1, <2>2
  <2>5. /\ ZeroBytes \in S2 /\ ZeroBytes.code \in AllCodes
        /\ Qword(Unlinked) \in S2 /\ Qword(Unlinked).code \in AllCodes
    <3>1. ZeroBytes \in S2 /\ Qword(Unlinked) \in S2
      BY <1>DataInstr DEF AllRegisters, RegisterNames, Unlinked
    <3> QED
      BY <3>1 DEF Qword, ZeroBytes, Ins, AllCodes
  <2>6. m.code \in Seq(S2)
    <3>1. m.code \in Seq(S) /\ S \subseteq S2
      BY <2>4, <1>MoreLabels DEF Static
    <3> HIDE DEF S, S2
    <3> QED
      BY <3>1, SeqSubset, SMTT(30)
  <2> HIDE DEF S, S2
  <2>7. /\ m2.code \in Seq(S2) /\ L \in Nat /\ Len(m2.code) = L + 2
        /\ \A k \in 1 .. L : m2.code[k] = m.code[k]
        /\ m2.code[L + 1] = ZeroBytes /\ m2.code[L + 2] = Qword(Unlinked)
    <3> DEFINE mid == Append(m.code, ZeroBytes)
    <3>1. /\ mid \in Seq(S2) /\ L \in Nat /\ Len(mid) = L + 1
          /\ \A k \in 1 .. L : mid[k] = m.code[k]
          /\ mid[L + 1] = ZeroBytes
      BY <2>5, <2>6, <1>AppendOne
    <3>2. m2.code = Append(mid, Qword(Unlinked))
      BY <2>0
    <3> HIDE DEF mid
    <3>3. /\ m2.code \in Seq(S2) /\ Len(m2.code) = (L + 1) + 1
          /\ \A k \in 1 .. L + 1 : m2.code[k] = mid[k]
          /\ m2.code[(L + 1) + 1] = Qword(Unlinked)
      BY <2>5, <3>1, <3>2, <1>AppendOne
    <3>4. (L + 1) + 1 = L + 2 /\ L + 1 \in 1 .. L + 1 /\ 1 .. L \subseteq 1 .. L + 1
      BY <3>1
    <3> QED
      BY <3>1, <3>3, <3>4
  <2>8. Labelled(m) /\ Imported(m)
    BY DEF Static
  <2>9. ImportOffset(m) \in Nat /\ ImportOffset(m) = Offset(m2.code, L + 1)
    <3> DEFINE mid == Append(m.code, ZeroBytes)
    <3>1. /\ mid \in Seq(S2) /\ L \in Nat /\ Len(mid) = L + 1
          /\ \A k \in 1 .. L : mid[k] = m.code[k]
          /\ mid[L + 1] = ZeroBytes
      BY <2>5, <2>6, <1>AppendOne
    <3>2. ByteOffset(m.code) \in Nat /\ ByteOffset(mid) = ByteOffset(m.code)
      BY <2>6 DEF ByteOffsets
    <3> HIDE DEF mid
    <3>3. SubSeq(m2.code, 1, L + 1) = mid
      BY <2>7, <3>1
    <3> QED
      BY <3>2, <3>3, Zenon DEF Offset, ImportOffset
  <2>10. ImportLabelIndex(m) = L + 1
    BY DEF ImportLabelIndex
  <2>11. /\ ImportLabel(f) \in {"got", "ils", "slot"} \X Nat
         /\ ImportLabel(f)[1] = "ils" /\ ImportLabel(f)[2] = f
    BY <2>2, <1>LabelSets
  <2>12. \A j \in 1 .. Len(m.label_indices) : m.label_indices[j].label # ImportLabel(f)
    <3>1. f \notin m.ils
      BY <2>2
    <3> QED
      BY <2>8, <2>11, <3>1, Zenon DEF Labelled
  <2>13. /\ Labelled(m2)
         /\ Len(m.label_indices) \in Nat /\ Len(m2.label_indices) = Len(m.label_indices) + 1
         /\ \A j \in 1 .. Len(m.label_indices) : m2.label_indices[j] = m.label_indices[j]
         /\ LastLabel(m2) = [index |-> L + 1, label |-> ImportLabel(f)]
    <3> DEFINE l == ImportLabel(f)
               p == L + 1
    <3>1. /\ l[1] = "got" => l[2] \in m2.got /\ l[2] < m2.function_body_index
          /\ l[1] = "ils" => l[2] \in m2.ils
          /\ l[1] = "slot" => l[2] \in m2.got
      BY <2>4, <2>11
    <3>2. /\ \A g \in m2.ils : g \in m.ils \/ l = ImportLabel(g)
          /\ \A g \in m2.got : g < m2.function_body_index =>
               (g \in m.got /\ g < m.function_body_index) \/ l = FunctionLabel(g)
      BY <2>0, <2>1, SMTT(30)
    <3>3. /\ m.function_body_index \in Nat /\ m2.function_body_index \in Nat
          /\ m.function_body_index <= m2.function_body_index /\ m2.got \subseteq Nat
      BY <2>0, <2>1, <2>2
    <3>4. /\ p \in Nat /\ l \in {"got", "ils", "slot"} \X Nat
          /\ m2.label_indices = Append(m.label_indices, [index |-> p, label |-> l])
          /\ \A j \in 1 .. Len(m.label_indices) : m.label_indices[j].label # l
      BY <2>0, <2>7, <2>10, <2>11, <2>12
    <3> SUFFICES /\ Labelled(m2)
                 /\ Len(m.label_indices) \in Nat /\ Len(m2.label_indices) = Len(m.label_indices) + 1
                 /\ \A j \in 1 .. Len(m.label_indices) : m2.label_indices[j] = m.label_indices[j]
                 /\ LastLabel(m2) = [index |-> p, label |-> l]
      OBVIOUS
    <3> HIDE DEF l, f, p
    <3>5. LabelFits(m, m2, p, l)
      BY <2>4, <3>1, <3>2, <3>3, <3>4, SMTT(30) DEF LabelFits
    <3> QED
      BY <2>8, <3>5, <1>LabelStep, SMTT(30)
  <2>14. Bodied(m2)
    BY <2>1 DEF Static, Bodied, BodiesWith
  <2>15. import \in [module: STRING, name: STRING, offset: Nat]
    <3>1. i.module \in STRING /\ i.name \in STRING
      BY DEF ImportEntry
    <3> QED
      BY <2>9, <3>1
  <2>16. /\ DOMAIN m2.imports = m2.ils /\ m2.imports[f] = import
         /\ \A g \in m.ils : m2.imports[g] = m.imports[g]
    <3>1. f \notin m.ils /\ DOMAIN m.imports = m.ils
      BY <2>2, <2>8 DEF Imported
    <3> HIDE DEF import
    <3> QED
      BY <2>0, <3>1 DEF Insert
  <2>17. Imported(m2)
    <3> HIDE DEF import, f
    <3> QED
      BY <2>0, <2>8, <2>15, <2>16, ZenonT(40) DEF Imported
  <2>18. Static(m2)
    BY <2>0, <2>3, <2>7, <2>13, <2>14, <2>17, ZenonT(40) DEF Static, S2
  <2>19. Typed(S2, m) /\ Typed(S2, m2)
    BY <2>6, <2>7, <2>8, <2>13, Zenon DEF Typed, Labelled
  <2>20. Grows(m, m2)
    BY <2>7, <2>13 DEF Grows
  <2>21. \A k \in 1 .. Len(m2.code) : FixedAt(m2.code, k)
    <3>2. \A k \in 1 .. Len(m2.code) : k \in 1 .. L \/ k = L + 1 \/ k = L + 2
      BY <2>7
    <3>3. \A k \in 1 .. Len(m.code) : FixedAt(m.code, k)
      BY <1>DataFixed
    <3> QED
      BY <2>5, <2>7, <3>2, <3>3, Zenon DEF FixedAt
  <2>22. LabelAdded(m, m2)
    <3>1. LastLabel(m2).index = L + 1
      BY <2>13
    <3>2. L + 1 \in 1 .. Len(m2.code) /\ Len(m2.code) \in 1 .. Len(m2.code)
          /\ L <= L + 1 /\ L + 1 < Len(m2.code)
      BY <2>7, SMTT(40)
    <3> QED
      BY <2>21, <3>1, <3>2 DEF LabelAdded
  <2>23. SlotAdded(m, m2, Len(m2.code))
    <3>1. LastLabel(m2).label[1] = "ils" /\ LastLabel(m2).label[2] = f /\ LastLabel(m2).index = L + 1
      BY <2>11, <2>13
    <3>2. L + 1 < Len(m2.code) /\ (L + 1) + 1 = L + 2
      BY <2>7
    <3>3. m2.imports[f].offset = Offset(m2.code, L + 1)
      BY <2>9, <2>16
    <3>4. \A j \in 1 .. Len(m.label_indices) : m.label_indices[j].label[1] = "ils" =>
            m.label_indices[j].label[2] \in m.ils
      BY <2>8 DEF Labelled
    <3>5. \A j \in 1 .. Len(m.label_indices) : m.label_indices[j].label[1] = "ils" =>
            m2.imports[m.label_indices[j].label[2]] = m.imports[m.label_indices[j].label[2]]
      BY <2>16, <3>4
    <3>6. m2.code[LastLabel(m2).index + 1] = Qword(Unlinked)
      BY <2>7, <3>1, <3>2
    <3> QED
      BY <2>21, <3>1, <3>2, <3>3, <3>5, <3>6, Zenon DEF SlotAdded
  <2>24. Laid(m2)
    BY <2>19, <2>20, <2>22, <2>23, <1>DataLaid
  <2> QED
    BY <2>1, <2>18, <2>24 DEF m2

<1>ConcatTwo.
      ASSUME NEW S, NEW s \in Seq(S), NEW t \in Seq(S)
      PROVE  /\ s \o t \in Seq(S)
             /\ Len(s) \in Nat /\ Len(t) \in Nat /\ Len(s \o t) = Len(s) + Len(t)
             /\ \A j \in 1 .. Len(s) : (s \o t)[j] = s[j]
             /\ Len(t) > 0 => (s \o t)[Len(s \o t)] = t[Len(t)]
  OBVIOUS

<1>BodyStep.
      ASSUME NEW m, Static(m), Laid(m), m.function_body_index \in m.got,
             NEW gen, IsBody(m, gen.code)
      PROVE  Static(AddBody(m, gen)) /\ Laid(AddBody(m, gen))
  <2> USE <1>BodyStep
  <2> DEFINE m2 == AddBody(m, gen)
             f == m.function_body_index
             S == Instr(m.got, m.ils)
             L == Len(m.code)
             body == [label |-> FunctionLabel(f), index |-> f]
             added == gen.code
  <2>0. /\ DOMAIN m2 = Fields
        /\ m2.function_bodies = Append(m.function_bodies, body)
        /\ m2.label_indices =
             Append(m.label_indices, [index |-> BodyLabelIndex(m), label |-> FunctionLabel(f)])
        /\ m2.code = m.code \o added
        /\ m2.function_body_index = f + 1
        /\ Unchanged(m, m2, {"function_bodies", "label_indices", "code", "heights",
                             "function_body_index"})
    BY BodyFields, Zenon DEF Static
  <2> HIDE DEF m2
  <2>1. /\ m2.got = m.got /\ m2.ils = m.ils /\ m2.typedefs = m.typedefs /\ m2.types = m.types
        /\ m2.imports = m.imports /\ m2.function_index = m.function_index
    BY <2>0, Zenon DEF Unchanged, Fields
  <2>2. /\ m.function_index \in Nat /\ f \in Nat /\ f < m.function_index
        /\ m.got \subseteq Nat /\ Indices(m)
    BY DEF Static, Indices
  <2>3. Indices(m2)
    <3>1. m2.function_body_index \in 0 .. m2.function_index
      BY <2>0, <2>1, <2>2
    <3>2. m2.got # {}
      BY <2>1
    <3> QED
      BY <2>1, <2>2, <3>1, <3>2 DEF Indices, ContextOK
  <2>4. m.code \in Seq(S) /\ Labelled(m) /\ Bodied(m)
    BY DEF Static
  <2>5. added \in Seq(S) /\ Len(added) > 0 /\ added[Len(added)] = Ret
    BY DEF IsBody
  <2> HIDE DEF S, added
  <2>6. /\ m2.code \in Seq(S) /\ L \in Nat /\ Len(m2.code) \in Nat /\ L < Len(m2.code)
        /\ \A k \in 1 .. L : m2.code[k] = m.code[k]
        /\ m2.code[Len(m2.code)] = Ret
    <3>1. /\ m2.code \in Seq(S) /\ L \in Nat /\ Len(added) \in Nat /\ Len(m2.code) = L + Len(added)
          /\ \A k \in 1 .. L : m2.code[k] = m.code[k]
          /\ m2.code[Len(m2.code)] = Ret
      BY <2>0, <2>4, <2>5, <1>ConcatTwo
    <3> QED
      BY <2>5, <3>1
  <2>7. /\ FunctionLabel(f) \in {"got", "ils", "slot"} \X Nat
        /\ FunctionLabel(f)[1] = "got" /\ FunctionLabel(f)[2] = f
    BY <2>2, <1>LabelSets
  <2>8. \A j \in 1 .. Len(m.label_indices) : m.label_indices[j].label # FunctionLabel(f)
    BY <2>2, <2>4, <2>7 DEF Labelled
  <2>9. /\ Labelled(m2)
        /\ Len(m.label_indices) \in Nat /\ Len(m2.label_indices) = Len(m.label_indices) + 1
        /\ \A j \in 1 .. Len(m.label_indices) : m2.label_indices[j] = m.label_indices[j]
        /\ LastLabel(m2) = [index |-> L, label |-> FunctionLabel(f)]
    <3> DEFINE l == FunctionLabel(f)
               p == L
    <3>1. /\ l[1] = "got" => l[2] \in m2.got /\ l[2] < m2.function_body_index
          /\ l[1] = "ils" => l[2] \in m2.ils
          /\ l[1] = "slot" => l[2] \in m2.got
      BY <2>0, <2>1, <2>2, <2>7, SMTT(40)
    <3>2. /\ \A g \in m2.ils : g \in m.ils \/ l = ImportLabel(g)
          /\ \A g \in m2.got : g < m2.function_body_index =>
               (g \in m.got /\ g < m.function_body_index) \/ l = FunctionLabel(g)
      <4>1. \A g \in m.got : g < f + 1 => g < f \/ g = f
        BY <2>2
      <4> QED
        BY <2>0, <2>1, <4>1
    <3>3. /\ m.function_body_index \in Nat /\ m2.function_body_index \in Nat
          /\ m.function_body_index <= m2.function_body_index /\ m2.got \subseteq Nat
          /\ m.got \subseteq m2.got /\ m.ils \subseteq m2.ils
      BY <2>0, <2>1, <2>2, SMTT(30)
    <3>4. /\ p \in Nat /\ l \in {"got", "ils", "slot"} \X Nat
          /\ m2.label_indices = Append(m.label_indices, [index |-> p, label |-> l])
          /\ \A j \in 1 .. Len(m.label_indices) : m.label_indices[j].label # l
      BY <2>0, <2>6, <2>7, <2>8, SMTT(30) DEF BodyLabelIndex
    <3> SUFFICES /\ Labelled(m2)
                 /\ Len(m.label_indices) \in Nat /\ Len(m2.label_indices) = Len(m.label_indices) + 1
                 /\ \A j \in 1 .. Len(m.label_indices) : m2.label_indices[j] = m.label_indices[j]
                 /\ LastLabel(m2) = [index |-> p, label |-> l]
      OBVIOUS
    <3> HIDE DEF l, f, p
    <3>5. LabelFits(m, m2, p, l)
      BY <3>1, <3>2, <3>3, <3>4 DEF LabelFits
    <3> QED
      BY <2>4, <3>5, <1>LabelStep, SMTT(30)
  <2>10. Bodied(m2) /\ m2.function_bodies # <<>>
    <3> DEFINE T == [label: {"got"} \X Nat, index: Nat]
               fb == m.function_bodies
               fb2 == m2.function_bodies
               M == Len(m.function_bodies)
    <3>1. body \in T /\ body.label = FunctionLabel(body.index) /\ body.label = FunctionLabel(f)
      BY <2>2, SMTT(30) DEF FunctionLabel
    <3>2. fb \in Seq(T) /\ fb2 = Append(fb, body)
      BY <2>0, <2>4 DEF Bodied
    <3>3. /\ \A j \in 1 .. M : fb[j].label = FunctionLabel(fb[j].index)
          /\ \A g \in m.got : g < f => BodiesWith(m, FunctionLabel(g)) # {}
      BY <2>4 DEF Bodied
    <3> HIDE DEF body, T
    <3>4. /\ M \in Nat /\ fb2 \in Seq(T) /\ Len(fb2) = M + 1
          /\ \A j \in 1 .. M : fb2[j] = fb[j]
          /\ fb2[M + 1] = body
      BY <3>1, <3>2, <1>AppendOne
    <3>5. DOMAIN fb = 1 .. M /\ DOMAIN fb2 = 1 .. M + 1
      BY <3>2, <3>4
    <3>6. \A j \in 1 .. M + 1 : j \in 1 .. M \/ j = M + 1
      BY <3>4
    <3>7. 1 .. M \subseteq 1 .. M + 1 /\ M + 1 \in 1 .. M + 1
      BY <3>4
    <3>8. \A j \in 1 .. M + 1 : fb2[j].label = FunctionLabel(fb2[j].index)
      BY <3>1, <3>3, <3>4, <3>6, ZenonT(40)
    <3>9. ASSUME NEW g \in m.got, g < f + 1
          PROVE  \E j \in 1 .. M + 1 : fb2[j].label = FunctionLabel(g)
      <4>1. CASE g = f
        BY <3>1, <3>4, <3>7, <4>1
      <4>2. CASE g # f
        <5>1. g < f
          BY <2>2, <3>9, <4>2
        <5>2. \E j \in 1 .. M : fb[j].label = FunctionLabel(g)
          BY <3>3, <3>5, <5>1 DEF BodiesWith
        <5> QED
          BY <3>4, <3>7, <5>2
      <4> QED
        BY <4>1, <4>2
    <3>10. \A g \in m2.got : g < m2.function_body_index => BodiesWith(m2, FunctionLabel(g)) # {}
      BY <2>0, <2>1, <3>5, <3>9, Zenon DEF BodiesWith
    <3>11. fb2 # <<>>
      BY <3>4
    <3> QED
      BY <3>4, <3>8, <3>10, <3>11, ZenonT(40) DEF Bodied, T
  <2>11. Imported(m2)
    BY <2>1 DEF Static, Imported
  <2>12. Static(m2)
    BY <2>0, <2>1, <2>3, <2>6, <2>9, <2>10, <2>11, Zenon DEF Static, S
  <2>13. Typed(S, m) /\ Typed(S, m2)
    BY <2>4, <2>6, <2>9, Zenon DEF Typed, Labelled
  <2>14. Grows(m, m2)
    BY <2>6, <2>9 DEF Grows
  <2>15. Ret.code \in AllCodes
    BY DEF Ret, Ins, AllCodes
  <2>16. LabelAdded(m, m2)
    <3>1. LastLabel(m2).index = L
      BY <2>9
    <3>2. FixedAt(m2.code, Len(m2.code))
      BY <2>6, <2>15 DEF FixedAt
    <3>3. L = 0 \/ FixedAt(m2.code, L)
      <4>1. L > 0 => FixedAt(m.code, L)
        BY DEF Laid, BehindFixed
      <4>2. L = 0 \/ L \in 1 .. L
        BY <2>6
      <4> QED
        BY <2>6, <4>1, <4>2, SMTT(30) DEF FixedAt
    <3>4. L <= L
      BY <2>6
    <3> QED
      BY <2>6, <3>1, <3>2, <3>3, <3>4, SMTT(30) DEF LabelAdded
  <2>17. PICK n \in 0 .. Len(m.code) : SlotsIn(m, m.code, AsIndexed(m), n)
    BY SMTT(30) DEF Laid
  <2>18. SlotAdded(m, m2, n)
    <3>1. LastLabel(m2).label[1] = "got"
      BY <2>7, <2>9, SMTT(30)
    <3>2. \A k \in 1 .. n : k \in 1 .. L /\ FixedAt(m.code, k)
      BY <2>6, <2>17 DEF SlotsIn
    <3>3. \A k \in 1 .. n : FixedAt(m2.code, k)
      BY <2>6, <3>2 DEF FixedAt
    <3> QED
      BY <2>1, <3>1, <3>3 DEF SlotAdded
  <2>19. n \in 0 .. Len(m2.code) /\ n <= n
    BY <2>6
  <2>20. SlotsIn(m2, m2.code, AsIndexed(m2), n)
    BY <2>13, <2>14, <2>17, <2>18, <2>19, <1>SlotsStep, Zenon
  <2>21. Apart(m2, m2.code, AsIndexed(m2)) /\ BehindFixed(m2, m2.code, AsIndexed(m2))
    BY <2>13, <2>14, <2>16, <1>ApartStep, Zenon DEF Laid
  <2>22. Laid(m2)
    BY <2>10, <2>19, <2>20, <2>21, ZenonT(40) DEF Laid
  <2> QED
    BY <2>12, <2>22 DEF m2

<1>ImportItem.
      ASSUME NEW m, NEW i \in ImportEntry, Static(m), Laid(m), InPlace("Import", m)
      PROVE  /\ Static(AddImport(m, i)) /\ Laid(AddImport(m, i))
             /\ AddImport(m, i).function_bodies = <<>> /\ AddImport(m, i).got = {}
             /\ AddImport(m, i).exports = m.exports
  <2> USE <1>ImportItem
  <2>1. m.function_bodies = <<>> /\ m.got = {} /\ DOMAIN m = Fields
    BY SMTT(30) DEF InPlace, Static
  <2>2. CASE i.kind = "Function"
    <3>1. AddImport(m, i).exports = m.exports
      <4>1. Unchanged(m, AddImport(m, i), {"imports", "label_indices", "code", "ils", "types",
                                                 "function_index", "function_body_index"})
        BY <2>1, <2>2, <1>ImportFields, Zenon
      <4> QED
        BY <4>1 DEF Unchanged, Fields
    <3> QED
      BY <2>1, <2>2, <3>1, <1>ImportStep
  <2>3. CASE i.kind # "Function"
    <3>1. AddImport(m, i) = OtherImport(m)
      BY <2>3 DEF AddImport
    <3>2. OtherImport(m).exports = m.exports
      BY <2>1, <1>OtherImportFields, Zenon DEF Unchanged, Fields
    <3> QED
      BY <2>1, <3>1, <3>2, <1>OtherImportStep
  <2> QED
    BY <2>2, <2>3

<1>ItemStep.
      ASSUME NEW kind \in ItemSections, NEW m, NEW item, Static(m), Laid(m), InPlace(kind, m), ItemOf(kind, item)
      PROVE  /\ Static(AddItem(kind, m, item)) /\ Laid(AddItem(kind, m, item))
             /\ InPlace(kind, AddItem(kind, m, item))
             /\ ItemKeeps(kind, m, AddItem(kind, m, item))
             /\ kind = "Export" =>
                  AddItem(kind, m, item).exports = Insert(m.exports, item.name, item.index)
  <2> USE <1>ItemStep
  <2>0. DOMAIN m = Fields
    BY DEF Static
  <2>1. CASE kind = "Type"
    <3>1. AddItem(kind, m, item) = AddType(m, item)
      BY <2>1, Zenon DEF AddItem
    <3>2. item \in TypeDef
      BY <2>1, SMTT(30) DEF ItemOf
    <3>3. AddType(m, item).exports = m.exports
      <4>1. Unchanged(m, AddType(m, item), {"typedefs", "function_type_index", "all_types"})
        BY <2>0, <1>TypeFields
      <4> QED
        BY <4>1 DEF Unchanged, Fields
    <3>4. /\ Static(AddType(m, item)) /\ Laid(AddType(m, item))
          /\ AddType(m, item).got = m.got /\ AddType(m, item).function_bodies = m.function_bodies
      BY <3>2, <1>TypeStep, SMTT(30)
    <3> QED
      BY <2>1, <3>1, <3>3, <3>4 DEF InPlace, ItemKeeps
  <2>2. CASE kind = "Import"
    <3>1. AddItem(kind, m, item) = AddImport(m, item)
      BY <2>2, Zenon DEF AddItem
    <3>2. item \in ImportEntry /\ InPlace("Import", m)
      BY <2>2 DEF ItemOf
    <3>3. m.function_bodies = <<>> /\ m.got = {}
      BY <3>2 DEF InPlace
    <3>4. /\ Static(AddImport(m, item)) /\ Laid(AddImport(m, item))
          /\ AddImport(m, item).function_bodies = <<>> /\ AddImport(m, item).got = {}
          /\ AddImport(m, item).exports = m.exports
      BY <3>2, <1>ImportItem
    <3> QED
      BY <2>2, <3>1, <3>3, <3>4 DEF InPlace, ItemKeeps
  <2>3. CASE kind = "Function"
    <3>1. AddItem(kind, m, item) = AddFunction(m, item)
      BY <2>3, Zenon DEF AddItem
    <3>2. m.function_bodies = <<>>
      BY <2>3 DEF InPlace
    <3>3. AddFunction(m, item).exports = m.exports
      <4>1. Unchanged(m, AddFunction(m, item), {"functions", "label_indices", "code", "got", "types",
                                                      "function_index"})
        BY <2>0, <1>FunctionFields, Zenon
      <4> QED
        BY <4>1 DEF Unchanged, Fields
    <3>4. /\ Static(AddFunction(m, item)) /\ Laid(AddFunction(m, item))
          /\ AddFunction(m, item).function_bodies = <<>>
      BY <3>2, <1>FunctionStep
    <3> QED
      BY <2>3, <3>1, <3>2, <3>3, <3>4 DEF InPlace, ItemKeeps
  <2>4. CASE kind = "Memory"
    <3>1. AddItem(kind, m, item) = AddMemory(m, item)
      BY <2>4, ZenonT(40) DEF AddItem
    <3>2. AddMemory(m, item).exports = m.exports
      BY <2>0, <1>MemoryFields DEF Unchanged, Fields
    <3>3. /\ Static(AddMemory(m, item)) /\ Laid(AddMemory(m, item))
          /\ AddMemory(m, item).got = m.got /\ AddMemory(m, item).function_bodies = m.function_bodies
      BY <1>MemoryStep, SMTT(30)
    <3> QED
      BY <2>4, <3>1, <3>2, <3>3 DEF InPlace, ItemKeeps
  <2>5. CASE kind = "Export"
    <3>1. AddItem(kind, m, item) = AddExport(m, item)
      BY <2>5, Zenon DEF AddItem
    <3>2. AddExport(m, item).exports = Insert(m.exports, item.name, item.index)
      BY <2>0, <1>ExportFields, Zenon
    <3>3. /\ Static(AddExport(m, item)) /\ Laid(AddExport(m, item))
          /\ AddExport(m, item).got = m.got /\ AddExport(m, item).function_bodies = m.function_bodies
      BY <1>ExportStep
    <3> QED
      BY <2>5, <3>1, <3>2, <3>3 DEF InPlace, ItemKeeps
  <2> QED
    BY <2>1, <2>2, <2>3, <2>4, <2>5 DEF ItemSections

<1>SectionStep.
      ASSUME NEW kind \in ItemSections, NEW m, NEW items, Len(items) \in Nat, Static(m), Laid(m),
             InPlace(kind, m), \A k \in 1 .. Len(items) : ItemOf(kind, items[k]),
             kind = "Export" => Distinct(items)
      PROVE  /\ Static(ReadItems(kind, m, items)) /\ Laid(ReadItems(kind, m, items))
             /\ ItemKeeps(kind, m, ReadItems(kind, m, items))
             /\ kind = "Export" => Exported(ReadItems(kind, m, items), items, Len(items))
  <2> USE <1>SectionStep
  <2> DEFINE env == [kind |-> kind, m |-> m, items |-> items]
  <2>1. ReadItems(kind, m, items) = ItemsFold!Result(env, m, items)
    BY DEF ReadItems, FoldOnce, ItemsFold!Result, ItemsStep
  <2>2. env.kind = kind /\ env.m = m /\ env.items = items
    OBVIOUS
  <2> HIDE DEF env
  <2>3. ItemsInv(env, 0, m)
    BY <2>2 DEF ItemsInv, ItemKeeps, Exported
  <2>4. ASSUME NEW k \in 1 .. Len(items), NEW acc, ItemsInv(env, k - 1, acc)
        PROVE  ItemsInv(env, k, ItemsStep(env, acc, items[k]))
    <3> DEFINE m2 == AddItem(kind, acc, items[k])
    <3>1. /\ Static(acc) /\ Laid(acc) /\ InPlace(kind, acc) /\ ItemKeeps(kind, m, acc)
          /\ kind = "Export" => Exported(acc, items, k - 1)
      BY <2>2, <2>4 DEF ItemsInv
    <3>2. ItemsStep(env, acc, items[k]) = m2
      BY <2>2, Zenon DEF ItemsStep
    <3>3. ItemOf(kind, items[k])
      OBVIOUS
    <3>4. /\ Static(m2) /\ Laid(m2) /\ InPlace(kind, m2) /\ ItemKeeps(kind, acc, m2)
          /\ kind = "Export" => m2.exports = Insert(acc.exports, items[k].name, items[k].index)
      BY <3>1, <3>3, <1>ItemStep
    <3> HIDE DEF m2
    <3>5. ItemKeeps(kind, m, m2)
      BY <3>1, <3>4 DEF ItemKeeps
    <3>6. ASSUME kind = "Export" PROVE Exported(m2, items, k)
      <4>1. /\ DOMAIN m2.exports = DOMAIN acc.exports \cup {items[k].name}
            /\ m2.exports[items[k].name] = items[k].index
            /\ \A y \in DOMAIN acc.exports : y # items[k].name => m2.exports[y] = acc.exports[y]
        BY <3>4, <3>6 DEF Insert
      <4> SUFFICES ASSUME NEW i \in 1 .. k
                   PROVE  items[i].name \in DOMAIN m2.exports /\ m2.exports[items[i].name] = items[i].index
        BY DEF Exported
      <4>2. CASE i = k
        BY <4>1, <4>2, SMTT(30)
      <4>3. CASE i # k
        <5>1. i \in 1 .. k - 1 /\ i \in 1 .. Len(items)
          BY <4>3
        <5>2. items[i].name \in DOMAIN acc.exports /\ acc.exports[items[i].name] = items[i].index
          BY <3>1, <3>6, <5>1 DEF Exported
        <5>3. items[i].name # items[k].name
          BY <3>6, <4>3, <5>1 DEF Distinct
        <5> QED
          BY <4>1, <5>2, <5>3
      <4> QED
        BY <4>2, <4>3, Zenon
    <3> QED
      BY <2>2, <3>2, <3>4, <3>5, <3>6, ZenonT(40) DEF ItemsInv
  <2>5. ItemsInv(env, Len(items), ItemsFold!Result(env, m, items))
    BY <2>3, <2>4, ItemsFold!FoldInvariant DEF ItemsFold!Inductive, Inductive
  <2> QED
    BY <2>1, <2>2, <2>5, ZenonT(40) DEF ItemsInv

(* The start of compile. *)
<1>StartLaid. Static(NewCompile) /\ Laid(NewCompile)
  <2> DEFINE m == NewCompile
  <2>1. /\ DOMAIN m = Fields
        /\ m.function_index = 0 /\ m.function_body_index = 0
        /\ m.typedefs = <<>> /\ m.types = <<>> /\ m.got = {} /\ m.ils = {}
        /\ m.label_indices = <<>> /\ m.function_bodies = <<>>
        /\ m.code = <<>> /\ m.imports = <<>>
    BY NewFields
  <2> HIDE DEF m
  <2>2. /\ DOMAIN <<>> = {} /\ Len(<<>>) = 0 /\ 0 .. 0 - 1 = {} /\ 1 .. 0 = {}
    OBVIOUS
  <2>3. Indices(m)
    BY <2>1, <2>2, SMTT(30) DEF Indices, ContextOK
  <2>4. Labelled(m) /\ Bodied(m) /\ Imported(m)
    BY <2>1, <2>2 DEF Labelled, Bodied, Imported
  <2>5. Static(m)
    BY <2>1, <2>3, <2>4 DEF Static
  <2>6. Apart(m, m.code, AsIndexed(m)) /\ BehindFixed(m, m.code, AsIndexed(m))
    BY <2>1, <2>2, SMTT(30) DEF Apart, BehindFixed
  <2>7. SlotsIn(m, m.code, AsIndexed(m), 0) /\ 0 \in 0 .. Len(m.code) /\ 0 = Len(m.code)
    BY <2>1, <2>2, SMTT(30) DEF SlotsIn
  <2>8. Laid(m)
    BY <2>6, <2>7, SMTT(30) DEF Laid
  <2> QED
    BY <2>5, <2>8 DEF m

(* What the validator guarantees of a payload that it accepts. *)
<1>InOrder.
      ASSUME NEW module \in Modules, NEW k \in DOMAIN module, module[k].valid
      PROVE  /\ \A j \in 1 .. k - 1 :
                  \/ module[k].kind = "Other"
                  \/ Order[module[j].kind] < Order[module[k].kind]
                  \/ module[k].kind \in SameOrder /\ Order[module[j].kind] = Order[module[k].kind]
             /\ module[k].kind = "Export" =>
                  \A i, j \in DOMAIN module[k].items :
                    module[k].items[i].name = module[k].items[j].name => i = j
  BY <1>InOrder, CompilerAssumption DEF Validated

<1>OrderOf. /\ Order["Import"] = 1 /\ Order["Function"] = 2 /\ Order["Export"] = 4 /\ Order["Code"] = 5
  BY SMTT(30) DEF Order

<1>SectionStage.
      ASSUME NEW module, NEW left, NEW m, Stage("parse", module, left, m),
             left # <<>>, Head(left).kind \in ItemSections, Head(left).valid,
             NEW m2, m2 = ReadItems(Head(left).kind, m, Head(left).items),
             m2.function_index <= MaxFunctions
      PROVE  Stage("parse", module, Tail(left), m2)
  <2> USE <1>SectionStage
  <2> DEFINE t == Taken(module, left)
             p == Head(left)
             short == Tail(left)
  <2>1. Static(m) /\ Laid(m) /\ Position(module, left, m)
    BY SMTT(30) DEF Stage
  <2>2. /\ t \in Nat /\ t + 1 \in 1 .. Len(module) /\ DOMAIN module = 1 .. Len(module)
        /\ Taken(module, short) = t + 1
        /\ short \in Seq(AnyPayload) /\ Len(short) <= Len(module)
        /\ \A k \in 1 .. Len(short) : short[k] = module[t + 1 + k]
        /\ p = module[t + 1] /\ p \in AnyPayload
    BY <2>1, Advance, ZenonT(40)
  <2>3. /\ module \in Modules
        /\ \A k \in 1 .. t : module[k].kind # "End"
        /\ m.got # {} => \E k \in 1 .. t : module[k].kind = "Function"
        /\ m.function_bodies # <<>> => \E k \in 1 .. t : module[k].kind = "Code"
        /\ \A k \in 1 .. t : module[k].kind = "Export" =>
             Exported(m, module[k].items, Len(module[k].items))
    BY <2>1, ZenonT(40) DEF Position
  <2> HIDE DEF t, p, short
  <2>0. p.kind \in ItemSections /\ p.valid /\ m2 = ReadItems(p.kind, m, p.items)
    BY SMTT(30) DEF p
  <2>4. /\ \A j \in 1 .. t :
             \/ Order[module[j].kind] < Order[p.kind]
             \/ p.kind \in SameOrder /\ Order[module[j].kind] = Order[p.kind]
        /\ p.kind = "Export" =>
             \A i, j \in DOMAIN p.items : p.items[i].name = p.items[j].name => i = j
    <3>1. t + 1 \in DOMAIN module /\ (t + 1) - 1 = t
      BY <2>2
    <3>2. p.kind # "Other"
      BY <2>0 DEF ItemSections
    <3>3. module[t + 1].valid /\ p = module[t + 1] /\ module \in Modules
      BY <2>0, <2>2, <2>3
    <3>4. ASSUME NEW k \in DOMAIN module, p = module[k], k - 1 = t, module[k].valid
          PROVE  /\ \A j \in 1 .. t :
                      \/ p.kind = "Other"
                      \/ Order[module[j].kind] < Order[p.kind]
                      \/ p.kind \in SameOrder /\ Order[module[j].kind] = Order[p.kind]
                 /\ p.kind = "Export" =>
                      \A i, j \in DOMAIN p.items : p.items[i].name = p.items[j].name => i = j
      BY <3>3, <3>4, <1>InOrder
    <3> QED
      BY <3>1, <3>2, <3>3, <3>4, Zenon
  <2>5. /\ Len(p.items) \in Nat /\ DOMAIN p.items = 1 .. Len(p.items)
        /\ \A k \in 1 .. Len(p.items) : ItemOf(p.kind, p.items[k])
    BY <2>0, <2>2, PayloadItems
  <2>6. InPlace(p.kind, m)
    <3>1. ASSUME p.kind \in {"Import", "Function"}, m.function_bodies # <<>>
          PROVE  FALSE
      <4>1. PICK j \in 1 .. t : module[j].kind = "Code"
        BY <2>3, <3>1
      <4>2. 5 < Order[p.kind] \/ 5 = Order[p.kind]
        BY <2>4, <4>1, <1>OrderOf
      <4> QED
        BY <3>1, <4>2, <1>OrderOf, SMTT(30)
    <3>2. ASSUME p.kind = "Import", m.got # {}
          PROVE  FALSE
      <4>1. PICK j \in 1 .. t : module[j].kind = "Function"
        BY <2>3, <3>2
      <4>2. 2 < Order[p.kind] \/ 2 = Order[p.kind]
        BY <2>4, <4>1, <1>OrderOf
      <4> QED
        BY <3>2, <4>2, <1>OrderOf
    <3> QED
      BY <3>1, <3>2 DEF InPlace
  <2>7. p.kind = "Export" => Distinct(p.items)
    BY <2>4, <2>5, SMTT(30) DEF Distinct
  <2>8. /\ Static(m2) /\ Laid(m2) /\ ItemKeeps(p.kind, m, m2)
        /\ p.kind = "Export" => Exported(m2, p.items, Len(p.items))
    BY <2>0, <2>1, <2>5, <2>6, <2>7, <1>SectionStep, ZenonT(40)
  <2>9. /\ m2.function_bodies = m.function_bodies
        /\ p.kind # "Function" => m2.got = m.got
        /\ p.kind # "Export" => m2.exports = m.exports
    BY <2>8, SMTT(30) DEF ItemKeeps
  <2>10. Position(module, short, m2)
    <3>1. \A k \in 1 .. t + 1 : module[k].kind # "End"
      <4>1. p.kind # "End"
        BY <2>0 DEF ItemSections
      <4> QED
        BY <2>2, <2>3, <4>1
    <3>2. m2.got # {} => \E k \in 1 .. t + 1 : module[k].kind = "Function"
      BY <2>2, <2>3, <2>9, SMTT(30)
    <3>3. m2.function_bodies # <<>> => \E k \in 1 .. t + 1 : module[k].kind = "Code"
      BY <2>2, <2>3, <2>9, SMTT(30)
    <3>4. ASSUME NEW k \in 1 .. t + 1, module[k].kind = "Export"
          PROVE  Exported(m2, module[k].items, Len(module[k].items))
      <4>1. CASE k = t + 1
        BY <2>2, <2>8, <3>4, <4>1, ZenonT(40)
      <4>2. CASE k \in 1 .. t
        <5>1. p.kind # "Export"
          <6>1. 4 < Order[p.kind] \/ (p.kind \in SameOrder /\ 4 = Order[p.kind])
            BY <2>4, <3>4, <4>2, <1>OrderOf, SMTT(30)
          <6> QED
            BY <6>1, <1>OrderOf, SMTT(30) DEF SameOrder
        <5>2. Exported(m, module[k].items, Len(module[k].items))
          BY <2>3, <3>4, <4>2
        <5> QED
          BY <2>9, <5>1, <5>2, Zenon DEF Exported
      <4> QED
        BY <2>2, <3>4, <4>1, <4>2, SMTT(30)
    <3> QED
      BY <2>2, <2>3, <3>1, <3>2, <3>3, <3>4, ZenonT(40) DEF Position
  <2> QED
    BY <2>8, <2>10, ZenonT(40) DEF Stage, short

(* A payload that is neither a Function nor an Export section. *)
<1>PositionMoves.
      ASSUME NEW module, NEW left, NEW m, Position(module, left, m), left # <<>>,
             Head(left).kind \notin {"End", "Export"},
             NEW m2, m2.got = m.got, m2.exports = m.exports,
             m2.function_bodies = m.function_bodies \/ Head(left).kind = "Code"
      PROVE  Position(module, Tail(left), m2)
  <2> USE <1>PositionMoves
  <2> DEFINE t == Taken(module, left)
             p == Head(left)
             short == Tail(left)
  <2>0. /\ Taken(module, short) = t + 1
        /\ short \in Seq(AnyPayload) /\ Len(short) <= Len(module)
        /\ \A k \in 1 .. Len(short) : short[k] = module[t + 1 + k]
    BY Advance
  <2>1. t \in Nat /\ p = module[t + 1]
    BY Advance
  <2>2. /\ module \in Modules
        /\ \A k \in 1 .. t : module[k].kind # "End"
        /\ m.got # {} => \E k \in 1 .. t : module[k].kind = "Function"
        /\ m.function_bodies # <<>> => \E k \in 1 .. t : module[k].kind = "Code"
        /\ \A k \in 1 .. t : module[k].kind = "Export" =>
             Exported(m, module[k].items, Len(module[k].items))
    BY DEF Position
  <2>3. p.kind \notin {"End", "Export"} /\ (m2.function_bodies = m.function_bodies \/ p.kind = "Code")
    BY DEF p
  <2> HIDE DEF t, p, short
  <2>4. \A k \in 1 .. t + 1 : module[k].kind # "End"
    BY <2>1, <2>2, <2>3
  <2>7. /\ m2.got # {} => \E k \in 1 .. t + 1 : module[k].kind = "Function"
        /\ m2.function_bodies # <<>> => \E k \in 1 .. t + 1 : module[k].kind = "Code"
    BY <2>1, <2>2, <2>3
  <2>5. ASSUME NEW k \in 1 .. t + 1, module[k].kind = "Export"
        PROVE  Exported(m2, module[k].items, Len(module[k].items))
    <3>1. k \in 1 .. t
      BY <2>1, <2>3, <2>5, SMTT(30)
    <3> QED
      BY <2>2, <2>5, <3>1 DEF Exported
  <2>6. Position(module, short, m2)
    BY <2>0, <2>2, <2>4, <2>5, <2>7, Zenon DEF Position
  <2> QED
    BY <2>6, Zenon DEF short

<1>OtherStage.
      ASSUME NEW module, NEW left, NEW m, Stage("parse", module, left, m),
             left # <<>>, Head(left).kind = "Other"
      PROVE  Stage("parse", module, Tail(left), m)
  BY <1>OtherStage, <1>PositionMoves DEF Stage

(* The code of a body, when the code generator neither fails nor panics. *)
<1>BodyStage.
      ASSUME NEW module, NEW left, NEW m, Stage("parse", module, left, m),
             left # <<>>, Head(left).kind = "Code", m.function_body_index \in m.got,
             NEW gen, IsBody(m, gen.code)
      PROVE  Stage("parse", module, Tail(left), AddBody(m, gen))
  <2> USE <1>BodyStage
  <2> DEFINE m2 == AddBody(m, gen)
  <2>1. Static(m) /\ Laid(m) /\ Position(module, left, m) /\ m.function_index <= MaxFunctions
    BY DEF Stage
  <2>3. ContextOK(m) /\ DOMAIN m = Fields
    BY <2>1 DEF Static, Indices
  <2>5. Static(m2) /\ Laid(m2)
    BY <2>1, <1>BodyStep
  <2>6. Unchanged(m, m2, {"function_bodies", "label_indices", "code", "heights", "function_body_index"})
    BY <2>3, BodyFields, Zenon
  <2>7. m2.got = m.got /\ m2.exports = m.exports /\ m2.function_index = m.function_index
    BY <2>6 DEF Unchanged, Fields
  <2> HIDE DEF m2
  <2>8. Position(module, Tail(left), m2)
    BY <2>1, <2>7, <1>PositionMoves, SMTT(30)
  <2>9. Stage("parse", module, Tail(left), m2)
    BY <2>1, <2>5, <2>7, <2>8, SMTT(30) DEF Stage
  <2> QED
    BY <2>9 DEF m2

<1>FirstStage.
      ASSUME NEW module \in Modules
      PROVE  Stage("parse", module, module, NewCompile)
  <2>1. module \in Seq(AnyPayload) /\ MaxFunctions \in Nat
    BY CompilerAssumption
  <2>2. Taken(module, module) = 0
    BY <2>1 DEF Taken
  <2>3. /\ NewCompile.got = {} /\ NewCompile.function_bodies = <<>>
        /\ NewCompile.function_index = 0
    BY NewFields
  <2>4. Position(module, module, NewCompile)
    BY <2>1, <2>2, <2>3 DEF Position
  <2> QED
    BY <2>1, <2>3, <2>4, <1>StartLaid DEF Stage

<1>BindStage.
      ASSUME NEW module, NEW left, NEW m, Stage("bind", module, left, m),
             NEW entries, NEW m2, m2 = [m EXCEPT !.entries = entries]
      PROVE  Stage("done", module, left, m2)
  <2> USE <1>BindStage
  <2>1. /\ Static(m) /\ m.function_index <= MaxFunctions /\ Position(module, left, m)
        /\ left # <<>> /\ left[1].kind = "End" /\ m.function_body_index = m.function_index
    BY DEF Stage
  <2>2. DOMAIN m = Fields /\ ContextOK(m)
    BY <2>1 DEF Static, Indices
  <2>3. DOMAIN m2 = Fields /\ Unchanged(m, m2, {"entries"})
    BY <2>2, Zenon DEF Fields, Unchanged
  <2>4. /\ m2.got = m.got /\ m2.exports = m.exports /\ m2.typedefs = m.typedefs
        /\ m2.function_bodies = m.function_bodies /\ m2.function_index = m.function_index
        /\ m2.function_body_index = m.function_body_index
    BY <2>3 DEF Unchanged, Fields
  <2>5. Static(m2)
    <3>1. Unchanged(m, m2, Untouched) /\ ContextOK(m2)
      BY <2>2, <2>3, <2>4 DEF Unchanged, Untouched, Fields, ContextOK
    <3> QED
      BY <2>1, <2>3, <3>1, <1>StaticKept
  <2>6. Position(module, left, m2)
    BY <2>1, <2>4 DEF Position, Exported
  <2> QED
    BY <2>1, <2>4, <2>5, <2>6 DEF Stage

(* The types of a supported module that are read are supported. *)
<1>ItemTypes.
      ASSUME NEW kind \in ItemSections, NEW m, DOMAIN m = Fields, TypesSupported(m), NEW item,
             kind = "Type" /\ item.kind = "Func" => SupportedType(item)
      PROVE  DOMAIN AddItem(kind, m, item) = Fields /\ TypesSupported(AddItem(kind, m, item))
  <2> USE <1>ItemTypes
  <2> DEFINE m2 == AddItem(kind, m, item)
  <2>1. ASSUME DOMAIN m2 = Fields, NEW fields, Unchanged(m, m2, fields), "typedefs" \notin fields
        PROVE  DOMAIN m2 = Fields /\ TypesSupported(m2)
    <3>1. m2.typedefs = m.typedefs
      BY <2>1 DEF Unchanged, Fields
    <3> QED
      BY <2>1, <3>1 DEF TypesSupported
  <2>2. CASE kind = "Type"
    <3>1. m2 = AddType(m, item)
      BY <2>2, Zenon DEF AddItem
    <3>2. \/ m2.typedefs = m.typedefs
          \/ item.kind = "Func" /\ m2.typedefs = Insert(m.typedefs, m.function_type_index, item)
      BY <3>1, <1>TypeFields, Zenon
    <3> QED
      BY <2>2, <3>1, <3>2, <1>TypeFields DEF TypesSupported, Insert
  <2>3. CASE kind = "Import"
    <3>1. m2 = AddImport(m, item)
      BY <2>3, Zenon DEF AddItem
    <3>2. CASE item.kind = "Function"
      <4>1. /\ DOMAIN m2 = Fields
            /\ Unchanged(m, m2, {"imports", "label_indices", "code", "ils", "types",
                                 "function_index", "function_body_index"})
        BY <3>1, <3>2, <1>ImportFields, Zenon
      <4> QED
        BY <2>1, <4>1
    <3>3. CASE item.kind # "Function"
      <4>1. m2 = OtherImport(m)
        BY <3>1, <3>3 DEF AddImport
      <4> QED
        BY <2>1, <4>1, <1>OtherImportFields, Zenon
    <3> QED
      BY <3>2, <3>3
  <2>4. CASE kind = "Function"
    <3>1. m2 = AddFunction(m, item)
      BY <2>4, Zenon DEF AddItem
    <3>2. /\ DOMAIN m2 = Fields
          /\ Unchanged(m, m2, {"functions", "label_indices", "code", "got", "types", "function_index"})
      BY <3>1, <1>FunctionFields, Zenon
    <3> QED
      BY <2>1, <3>2
  <2>5. CASE kind = "Memory"
    <3>1. m2 = AddMemory(m, item)
      BY <2>5, Zenon DEF AddItem
    <3> QED
      BY <2>1, <3>1, <1>MemoryFields, Zenon
  <2>6. CASE kind = "Export"
    <3>1. m2 = AddExport(m, item)
      BY <2>6, Zenon DEF AddItem
    <3> QED
      BY <2>1, <3>1, <1>ExportFields, Zenon
  <2> QED
    BY <2>2, <2>3, <2>4, <2>5, <2>6 DEF ItemSections

<1>SectionTypes.
      ASSUME NEW kind \in ItemSections, NEW m, DOMAIN m = Fields, TypesSupported(m),
             NEW items, Len(items) \in Nat,
             \A k \in 1 .. Len(items) : kind = "Type" /\ items[k].kind = "Func" => SupportedType(items[k])
      PROVE  TypesSupported(ReadItems(kind, m, items))
  <2> USE <1>SectionTypes
  <2> DEFINE env == [kind |-> kind]
  <2>1. ReadItems(kind, m, items) = ReadFold!Result(env, m, items)
    BY DEF ReadItems, FoldOnce, ReadFold!Result, ItemsStep
  <2>2. TypesInv(env, 0, m)
    BY DEF TypesInv
  <2>3. ASSUME NEW k \in 1 .. Len(items), NEW acc, TypesInv(env, k - 1, acc)
        PROVE  TypesInv(env, k, ItemsStep(env, acc, items[k]))
    <3>1. ItemsStep(env, acc, items[k]) = AddItem(kind, acc, items[k])
      BY Zenon DEF ItemsStep
    <3> QED
      BY <2>3, <3>1, <1>ItemTypes DEF TypesInv
  <2> HIDE DEF env
  <2>4. TypesInv(env, Len(items), ReadFold!Result(env, m, items))
    BY <2>2, <2>3, ReadFold!FoldInvariant DEF ReadFold!Inductive, Inductive
  <2> QED
    BY <2>1, <2>4 DEF TypesInv

<1> QED
  BY <1>FirstStage, <1>SectionStage, <1>OtherStage, <1>BodyStage, <1>BindStage, <1>SectionTypes, Zenon

=============================================================================
