----------------------------- MODULE CodeProofs -----------------------------
(***************************************************************************)
(* What binding does with optimised code (mod.rs:487-509), what link_import*)
(* does with bound code (mod.rs:157-181), and what the code generator emits*)
(* for a body (mod.rs:309-432 and instructions.rs).  Induction over the    *)
(* natural numbers is a hypothesis (CompilerProofs!NatInductive).          *)
(***************************************************************************)
EXTENDS CompilerStages, TLAPS

LEMMA GeneratedSeq ==
  ASSUME NEW S, NEW n \in Nat, NEW s \in [1 .. n -> S]
  PROVE  s \in Seq(S) /\ Len(s) = n
OBVIOUS

(* What a label is the label of. *)
LEMMA LabelsKnown ==
  ASSUME NEW m, Static(m), m.function_index <= MaxFunctions,
         NEW j \in 1 .. Len(m.label_indices)
  PROVE  /\ m.label_indices[j] \in LabelIndex
         /\ m.label_indices[j].label \in AllLabels
<1> DEFINE l == m.label_indices[j].label
<1>1. /\ m.label_indices \in Seq(LabelIndex)
      /\ l[1] = "got" => l[2] \in m.got
      /\ l[1] = "ils" => l[2] \in m.ils
      /\ l[1] = "slot" => l[2] \in m.got
  BY DEF Static, Labelled
<1>2. m.label_indices[j] \in LabelIndex
  BY <1>1
<1>3. l \in {"got", "ils", "slot"} \X Nat
  BY <1>2 DEF LabelIndex
<1>4. l[1] \in {"got", "ils", "slot"} /\ l = <<l[1], l[2]>>
  BY <1>3
<1> HIDE DEF l
<1>5. l[2] \in m.got \cup m.ils
  BY <1>1, <1>4
<1>6. l[2] \in FunctionIndices
  <2>1. m.got \cup m.ils = 0 .. m.function_index - 1 /\ m.function_index \in Nat
    BY DEF Static, Indices
  <2>2. MaxFunctions \in Nat
    BY CompilerAssumption
  <2> QED
    BY <1>5, <2>1, <2>2 DEF FunctionIndices
<1>7. l \in AllLabels
  BY <1>4, <1>6 DEF AllLabels, FunctionLabel, ImportLabel, SlotLabel
<1> QED
  BY <1>2, <1>7, SMTT(30) DEF l

-----------------------------------------------------------------------------
(* The offsets of instructions. *)
AddLength(env, n, i) == n + Length(i)

IsOffset(env, k, n) == n \in Nat

OffsetFold == INSTANCE FoldInduction WITH Op <- AddLength, P <- IsOffset

(* The binding of the labels. *)
Extends(S, code, code2) ==
  /\ code \in Seq(S) /\ code2 \in Seq(S) /\ Len(code) <= Len(code2)
  /\ \A k \in 1 .. Len(code) : code2[k] = code[k]

(* A label that is bound to the instruction p of the code, in front of the *)
(* instruction with the index idx of the code that was not bound yet.      *)
BoundAt(m, code, p, idx) ==
  /\ p \in Nat /\ p + 2 <= Len(code)
  /\ code[p + 1] = ZeroBytes /\ code[p + 2] = m.code[idx + 1]
  /\ Offset(code, p) = Offset(m.code, idx)

LabelNo(m, j) == m.label_indices[j].label

IndexNo(m, j) == m.label_indices[j].index

(* The labels in front of the instruction n, all of which are bound. *)
Before(m, n) == {j \in 1 .. Len(m.label_indices) : IndexNo(m, j) < n}

LabelsBound(m, n, acc) ==
  /\ DOMAIN acc.bound = {LabelNo(m, j) : j \in Before(m, n)}
  /\ \A j \in Before(m, n) : BoundAt(m, acc.code, acc.bound[LabelNo(m, j)], IndexNo(m, j))

BoundInOrder(m, n, acc) ==
  \A i, j \in Before(m, n) : i < j => acc.bound[LabelNo(m, i)] < acc.bound[LabelNo(m, j)]

EntriesAt(m, n, acc) ==
  /\ DOMAIN acc.entries = {LabelNo(m, j)[2] : j \in {i \in Before(m, n) : LabelNo(m, i)[1] = "got"}}
  /\ \A j \in Before(m, n) : LabelNo(m, j)[1] = "got" =>
       acc.entries[LabelNo(m, j)[2]] = Offset(acc.code, acc.bound[LabelNo(m, j)])

BindInv(m, n, acc) ==
  /\ DOMAIN acc = {"code", "bound", "entries"}
  /\ acc.code \in Seq(Instr(m.got, m.ils))
  /\ ByteOffset(acc.code) = Offset(m.code, n)
  /\ LabelsBound(m, n, acc) /\ BoundInOrder(m, n, acc) /\ EntriesAt(m, n, acc)

BindStart == [code |-> <<>>, bound |-> <<>>, entries |-> <<>>]

BindStep(m, acc, k) == BindNext(m, acc, k)

BindFold == INSTANCE FoldInduction WITH Op <- BindStep, P <- BindInv

(* Once all bodies are read, every function has an entry point, at its     *)
(* label, and the labels of the imports are in front of their slots.       *)
BoundAs(m, bnd, bin, entries) ==
  /\ bin \in Seq(Instr(m.got, m.ils))
  /\ DOMAIN bnd \subseteq {LabelNo(m, j) : j \in 1 .. Len(m.label_indices)}
  /\ DOMAIN entries = m.got
  /\ \A f \in m.got :
       /\ FunctionLabel(f) \in DOMAIN bnd
       /\ bnd[FunctionLabel(f)] \in 0 .. Len(bin)
       /\ entries[f] = Offset(bin, bnd[FunctionLabel(f)])
  /\ \A f \in m.ils :
       /\ ImportLabel(f) \in DOMAIN bnd
       /\ bnd[ImportLabel(f)] \in 0 .. Len(bin) - 2
       /\ bin[bnd[ImportLabel(f)] + 1] = ZeroBytes
       /\ bin[bnd[ImportLabel(f)] + 2] = Qword(Unlinked)
       /\ m.imports[f].offset = Offset(bin, bnd[ImportLabel(f)])
  /\ \A f, g \in m.ils : bnd[ImportLabel(f)] = bnd[ImportLabel(g)] => f = g

(* What is linked after one more call of link_import (mod.rs:157-181). *)
LinksAfter(m, links, link, addr) ==
  IF \E f \in m.ils : NameOf(m.imports[f]) = link THEN Insert(links, link, addr) ELSE links

Patched(code, k, i) == [code EXCEPT ![k] = i]

Fills(m, bnd, bin, bin2, f, addr) ==
  /\ bin2[SlotOf(bnd, f)] = Qword(addr)
  /\ \A k \in DOMAIN bin : k # SlotOf(bnd, f) => bin2[k] = bin[k]
  /\ \A g \in m.ils : g # f => bin2[SlotOf(bnd, g)] = bin[SlotOf(bnd, g)]

(* The assembler: byte offsets are natural numbers that zero_bytes does    *)
(* not change; what is bound is Assembled, with every label where the      *)
(* optimiser left it (mod.rs:487-509); and link_import writes the slots of *)
(* the import of that name and nothing else (mod.rs:157-181).              *)
THEOREM AssemblerKept ==
  ASSUME Inductive
  PROVE  /\ ByteOffsets
         /\ \A module, left, m, m2, bnd, bin :
              /\ Stage("bind", module, left, m)
              /\ m2 = [m EXCEPT !.entries = BoundCode(m).entries]
              /\ bnd = BoundCode(m).bound /\ bin = BoundCode(m).code
              => Assembled(m2, bnd, bin) /\ SlotsLinked(m2, bnd, bin, <<>>)
         /\ \A m, bnd, bin, links, bin2, links2 : \A link \in LinkNames, addr \in Addresses :
              /\ Imported(m) /\ m.ils \subseteq Nat
              /\ Assembled(m, bnd, bin) /\ SlotsLinked(m, bnd, bin, links)
              /\ bin2 = link_import(bin, m.imports, link, addr)
              /\ links2 = LinksAfter(m, links, link, addr)
              => /\ Assembled(m, bnd, bin2)
                 /\ SlotsLinked(m, bnd, bin2, links2)
                 /\ \A k \in DOMAIN bin : bin2[k] # bin[k] => \E f \in m.ils : k = SlotOf(bnd, f)

(* A set of numbers that is not empty has a least element. *)
<1>Least.
      ASSUME NEW T \in SUBSET Nat, T # {}
      PROVE  \E m \in T : \A k \in T : m <= k
  <2> USE <1>Least
  <2> DEFINE S == {n \in Nat : \A k \in T : k > n}
  <2> SUFFICES ASSUME \A m \in T : \E k \in T : k < m PROVE FALSE
    OBVIOUS
  <2>1. 0 \in S
    OBVIOUS
  <2>2. ASSUME NEW n \in Nat, n \in S PROVE n + 1 \in S
    BY <2>2
  <2> HIDE DEF S
  <2>3. Nat \subseteq S
    BY <2>1, <2>2 DEF Inductive
  <2>4. PICK x : x \in T
    OBVIOUS
  <2>5. x \in Nat /\ x \in S
    BY <2>3, <2>4
  <2> QED
    BY <2>4, <2>5 DEF S

<1>CodeAppended.
      ASSUME NEW S, NEW s \in Seq(S), NEW x \in S
      PROVE  /\ Append(s, x) \in Seq(S)
             /\ Len(s) \in Nat /\ Len(Append(s, x)) = Len(s) + 1
             /\ \A j \in 1 .. Len(s) : Append(s, x)[j] = s[j]
             /\ Append(s, x)[Len(s) + 1] = x
  OBVIOUS

<1>QwordInstr.
      ASSUME NEW got, NEW ils, NEW n \in Int
      PROVE  Qword(n) \in Instr(got, ils) /\ ZeroBytes \in Instr(got, ils)
  BY DEF Qword, ZeroBytes, Ins, Imm, None, Instr, Operand, Codes, AllCodes, OperandNames, RegisterNames

<1>OffsetUnfold.
      ASSUME NEW code
      PROVE  ByteOffset(code) = OffsetFold!Result(0, 0, code)
  BY DEF ByteOffset, FoldOnce, OffsetFold!Result, AddLength

<1>LengthNat.
      ASSUME NEW i
      PROVE  Length(i) \in Nat
  <2>1. Length(i) = 8 \/ Length(i) = 0 \/ Length(i) = 1
    BY Zenon DEF Length
  <2> QED
    BY <2>1

<1>DataLengths.
      ASSUME NEW value
      PROVE  Length(Qword(value)) = 8 /\ Length(ZeroBytes) = 0
  <2>1. Qword(value).code = "DeclareQword" /\ ZeroBytes.code = "Zero_bytes"
    BY DEF Qword, ZeroBytes, Ins
  <2> QED
    BY <2>1, Zenon DEF Length

<1>Prefix.
      ASSUME NEW S, NEW code \in Seq(S), NEW n \in 0 .. Len(code)
      PROVE  /\ SubSeq(code, 1, n) \in Seq(S) /\ Len(SubSeq(code, 1, n)) = n
             /\ \A k \in 1 .. n : SubSeq(code, 1, n)[k] = code[k]
             /\ SubSeq(code, 1, Len(code)) = code
  OBVIOUS

<1>OffsetZero.
      ASSUME NEW S, NEW code \in Seq(S)
      PROVE  Offset(code, 0) = 0
  <2> DEFINE none == SubSeq(code, 1, 0)
  <2>1. Len(none) = 0
    BY <1>Prefix
  <2> HIDE DEF none
  <2>2. \E f : OffsetFold!Steps(f, 0, 0, none, 0) /\ OffsetFold!Result(0, 0, none) = f[0]
    BY <2>1, OffsetFold!Unfold DEF OffsetFold!Inductive, Inductive
  <2>3. OffsetFold!Result(0, 0, none) = 0
    BY <2>2 DEF OffsetFold!Steps
  <2> QED
    BY <2>3, <1>OffsetUnfold DEF Offset, none

(* One more instruction: the steps of the longer fold begin with those of  *)
(* the shorter one.                                                        *)
<1>OffsetStep.
      ASSUME NEW S, NEW code \in Seq(S), NEW n \in 0 .. Len(code) - 1
      PROVE  Offset(code, n + 1) = Offset(code, n) + Length(code[n + 1])
  <2> DEFINE short == SubSeq(code, 1, n)
             long == SubSeq(code, 1, n + 1)
  <2>1. n \in 0 .. Len(code) /\ n + 1 \in 0 .. Len(code) /\ n \in Nat /\ n + 1 \in Nat
    OBVIOUS
  <2>2. /\ Len(short) = n /\ Len(long) = n + 1
        /\ \A k \in 1 .. n : long[k] = short[k]
        /\ long[n + 1] = code[n + 1]
    BY <2>1, <1>Prefix
  <2> HIDE DEF short, long
  <2>3. PICK f : OffsetFold!Steps(f, 0, 0, short, n) /\ OffsetFold!Result(0, 0, short) = f[n]
    <3>1. Len(short) \in Nat
      BY <2>1, <2>2
    <3>2. \E f : OffsetFold!Steps(f, 0, 0, short, Len(short))
                 /\ OffsetFold!Result(0, 0, short) = f[Len(short)]
      BY <3>1, OffsetFold!Unfold, Zenon DEF OffsetFold!Inductive, Inductive
    <3> QED
      BY <2>2, <3>2, Zenon
  <2>4. PICK g : OffsetFold!Steps(g, 0, 0, long, n + 1) /\ OffsetFold!Result(0, 0, long) = g[n + 1]
    <3>1. Len(long) \in Nat
      BY <2>1, <2>2
    <3>2. \E g : OffsetFold!Steps(g, 0, 0, long, Len(long))
                 /\ OffsetFold!Result(0, 0, long) = g[Len(long)]
      BY <3>1, OffsetFold!Unfold, Zenon DEF OffsetFold!Inductive, Inductive
    <3> QED
      BY <2>2, <3>2, Zenon
  <2>5. /\ f[0] = 0 /\ \A k \in 1 .. n : f[k] = AddLength(0, f[k - 1], short[k])
        /\ g[0] = 0 /\ \A k \in 1 .. n + 1 : g[k] = AddLength(0, g[k - 1], long[k])
    BY <2>3, <2>4, Zenon DEF OffsetFold!Steps
  <2> DEFINE T == {k \in Nat : k <= n => f[k] = g[k]}
  <2>6. 0 \in T
    BY <2>5
  <2>7. ASSUME NEW k \in Nat, k \in T
        PROVE  k + 1 \in T
    <3> SUFFICES ASSUME k + 1 <= n PROVE f[k + 1] = g[k + 1]
      OBVIOUS
    <3>1. f[k] = g[k] /\ k + 1 \in 1 .. n /\ k + 1 \in 1 .. n + 1 /\ (k + 1) - 1 = k
      BY <2>1, <2>7
    <3> QED
      BY <2>2, <2>5, <3>1
  <2> HIDE DEF T
  <2>8. Nat \subseteq T
    BY <2>6, <2>7 DEF Inductive
  <2>9. f[n] = g[n] /\ n + 1 \in 1 .. n + 1 /\ (n + 1) - 1 = n
    BY <2>1, <2>8 DEF T
  <2>10. g[n + 1] = AddLength(0, f[n], long[n + 1])
    BY <2>5, <2>9
  <2> QED
    BY <2>2, <2>3, <2>4, <2>10, <1>OffsetUnfold DEF Offset, AddLength, short, long

<1>OffsetWhole.
      ASSUME NEW S, NEW code \in Seq(S)
      PROVE  ByteOffset(code) = Offset(code, Len(code))
  <2>1. Len(code) \in 0 .. Len(code)
    OBVIOUS
  <2> QED
    BY <2>1, <1>Prefix, Zenon DEF Offset

<1>OffsetNat.
      ASSUME NEW S, NEW code \in Seq(S), NEW n \in 0 .. Len(code)
      PROVE  Offset(code, n) \in Nat
  <2> DEFINE T == {k \in Nat : k <= Len(code) => Offset(code, k) \in Nat}
  <2>1. 0 \in T
    BY <1>OffsetZero
  <2>2. ASSUME NEW k \in Nat, k \in T
        PROVE  k + 1 \in T
    <3> SUFFICES ASSUME k + 1 <= Len(code) PROVE Offset(code, k + 1) \in Nat
      OBVIOUS
    <3>1. k \in 0 .. Len(code) - 1 /\ Offset(code, k) \in Nat
      BY <2>2
    <3> QED
      BY <3>1, <1>OffsetStep, <1>LengthNat
  <2> HIDE DEF T
  <2>3. Nat \subseteq T
    BY <2>1, <2>2 DEF Inductive
  <2> QED
    BY <2>3 DEF T

<1>OffsetsGrow.
      ASSUME NEW S, NEW code \in Seq(S), NEW m \in 0 .. Len(code), NEW n \in 0 .. Len(code), m <= n
      PROVE  Offset(code, m) <= Offset(code, n)
  <2> USE <1>OffsetsGrow
  <2> DEFINE T == {k \in Nat : m <= k /\ k <= Len(code) => Offset(code, m) <= Offset(code, k)}
  <2>1. 0 \in T
    BY <1>OffsetNat
  <2>2. ASSUME NEW k \in Nat, k \in T
        PROVE  k + 1 \in T
    <3> SUFFICES ASSUME m <= k + 1, k + 1 <= Len(code) PROVE Offset(code, m) <= Offset(code, k + 1)
      OBVIOUS
    <3>1. Offset(code, m) \in Nat
      BY <1>OffsetNat
    <3>2. CASE m = k + 1
      BY <3>1, <3>2
    <3>3. CASE m # k + 1
      <4>1. k \in 0 .. Len(code) - 1 /\ k \in 0 .. Len(code) /\ Offset(code, m) <= Offset(code, k)
        BY <2>2, <3>3
      <4>2. Offset(code, k) \in Nat /\ Length(code[k + 1]) \in Nat
        BY <4>1, <1>OffsetNat, <1>LengthNat
      <4> QED
        BY <3>1, <4>1, <4>2, <1>OffsetStep
    <3> QED
      BY <3>2, <3>3
  <2> HIDE DEF T
  <2>3. Nat \subseteq T
    BY <2>1, <2>2 DEF Inductive
  <2> QED
    BY <2>3 DEF T

(* Only the lengths of the instructions matter. *)
<1>OffsetsAgree.
      ASSUME NEW S, NEW code \in Seq(S), NEW other \in Seq(S),
             NEW n \in Nat, n <= Len(code), n <= Len(other),
             \A k \in 1 .. n : Length(code[k]) = Length(other[k])
      PROVE  Offset(code, n) = Offset(other, n)
  <2> USE <1>OffsetsAgree
  <2> DEFINE T == {k \in Nat : k <= n => Offset(code, k) = Offset(other, k)}
  <2>1. 0 \in T
    BY <1>OffsetZero
  <2>2. ASSUME NEW k \in Nat, k \in T
        PROVE  k + 1 \in T
    <3> SUFFICES ASSUME k + 1 <= n PROVE Offset(code, k + 1) = Offset(other, k + 1)
      OBVIOUS
    <3>1. /\ k \in 0 .. Len(code) - 1 /\ k \in 0 .. Len(other) - 1 /\ k + 1 \in 1 .. n
          /\ Offset(code, k) = Offset(other, k)
      BY <2>2
    <3> QED
      BY <3>1, <1>OffsetStep
  <2> HIDE DEF T
  <2>3. Nat \subseteq T
    BY <2>1, <2>2, Zenon DEF Inductive
  <2> QED
    BY <2>3 DEF T

(* What CHOOSE finds in link_import: the only instruction with the byte. *)
<1>InstructionFound.
      ASSUME NEW S, NEW code \in Seq(S), NEW k \in 1 .. Len(code), NEW offset \in Nat,
             Offset(code, k - 1) <= offset, offset < Offset(code, k - 1) + Length(code[k])
      PROVE  InstructionAt(code, offset) = k
  <2> USE <1>InstructionFound
  <2> DEFINE Has(i) == LET first == ByteOffset(SubSeq(code, 1, i - 1))
                       IN first <= offset /\ offset < first + Length(code[i])
  <2>1. ASSUME NEW i \in 1 .. Len(code), NEW j \in 1 .. Len(code), Has(i), Has(j), i < j
        PROVE  FALSE
    <3>1. i - 1 \in 0 .. Len(code) - 1 /\ (i - 1) + 1 = i /\ i \in 0 .. Len(code)
          /\ j - 1 \in 0 .. Len(code) /\ i <= j - 1 /\ i - 1 \in 0 .. Len(code)
      BY <2>1
    <3>2. Offset(code, i) = Offset(code, i - 1) + Length(code[i])
      BY <3>1, <1>OffsetStep
    <3>3. Offset(code, i) <= Offset(code, j - 1)
      BY <3>1, <1>OffsetsGrow
    <3>4. Offset(code, i) \in Nat /\ Offset(code, j - 1) \in Nat
      BY <3>1, <1>OffsetNat
    <3>5. offset < Offset(code, i) /\ Offset(code, j - 1) <= offset
      BY <2>1, <3>2 DEF Offset
    <3> QED
      BY <3>3, <3>4, <3>5
  <2>2. Has(k)
    BY DEF Offset
  <2>3. DOMAIN code = 1 .. Len(code)
    OBVIOUS
  <2>4. InstructionAt(code, offset) = CHOOSE i \in 1 .. Len(code) : Has(i)
    BY <2>3 DEF InstructionAt
  <2> HIDE DEF Has
  <2>5. \A i \in 1 .. Len(code) : Has(i) => i = k
    BY <2>1, <2>2
  <2> QED
    BY <2>2, <2>4, <2>5

(* What the proofs about the layout use. *)
<1>ByteOffsetsHold. ByteOffsets
  <2> SUFFICES ASSUME NEW S, NEW code \in Seq(S)
               PROVE  ByteOffset(code) \in Nat /\ ByteOffset(Append(code, ZeroBytes)) = ByteOffset(code)
    BY Zenon DEF ByteOffsets
  <2> DEFINE T == S \cup {ZeroBytes}
             L == Len(code)
             longer == Append(code, ZeroBytes)
  <2>1. code \in Seq(T) /\ ZeroBytes \in T
    OBVIOUS
  <2> HIDE DEF T
  <2>2. /\ longer \in Seq(T) /\ L \in Nat /\ Len(longer) = L + 1
        /\ \A k \in 1 .. L : longer[k] = code[k]
        /\ longer[L + 1] = ZeroBytes
    BY <2>1, <1>CodeAppended
  <2> HIDE DEF longer
  <2>3. /\ L \in 0 .. Len(code) /\ L \in 0 .. Len(longer) - 1 /\ L <= Len(longer)
        /\ \A k \in 1 .. L : Length(longer[k]) = Length(code[k])
    BY <2>2
  <2>4. ByteOffset(code) = Offset(code, L) /\ ByteOffset(longer) = Offset(longer, L + 1)
    BY <2>1, <2>2, <1>OffsetWhole
  <2>5. Offset(code, L) \in Nat /\ Offset(longer, L) = Offset(code, L)
    <3>1. Offset(code, L) \in Nat
      BY <2>1, <2>3, <1>OffsetNat
    <3> HIDE DEF L
    <3>2. L <= Len(code) /\ L \in Nat
      BY <2>2, <2>3
    <3>3. Offset(longer, L) = Offset(code, L)
      BY <2>1, <2>2, <2>3, <3>2, <1>OffsetsAgree, Zenon
    <3> QED
      BY <3>1, <3>3
  <2>6. Offset(longer, L + 1) = Offset(longer, L) + 0
    <3>1. Offset(longer, L + 1) = Offset(longer, L) + Length(longer[L + 1])
      BY <2>2, <2>3, <1>OffsetStep, Zenon
    <3>2. Length(longer[L + 1]) = 0
      BY <2>2, <1>DataLengths, Zenon
    <3> QED
      BY <3>1, <3>2, Zenon
  <2> QED
    BY <2>4, <2>5, <2>6 DEF longer

(* The binding of the labels. *)
<1>ExtendsOffset.
      ASSUME NEW S, NEW code, NEW code2, Extends(S, code, code2), NEW n \in 0 .. Len(code)
      PROVE  Offset(code2, n) = Offset(code, n)
  <2> USE <1>ExtendsOffset
  <2>1. /\ code \in Seq(S) /\ code2 \in Seq(S) /\ Len(code) <= Len(code2)
        /\ \A k \in 1 .. Len(code) : code2[k] = code[k]
    BY DEF Extends
  <2>2. n \in Nat /\ n <= Len(code) /\ n <= Len(code2) /\ \A k \in 1 .. n : k \in 1 .. Len(code)
    BY <2>1
  <2>3. \A k \in 1 .. n : Length(code[k]) = Length(code2[k])
    BY <2>1, <2>2
  <2> QED
    BY <2>1, <2>2, <2>3, <1>OffsetsAgree

<1>OffsetAppend.
      ASSUME NEW S, NEW code \in Seq(S), NEW i \in S
      PROVE  Extends(S, code, Append(code, i))
             /\ ByteOffset(Append(code, i)) = ByteOffset(code) + Length(i)
  <2> DEFINE code2 == Append(code, i)
             n == Len(code)
  <2>1. /\ code2 \in Seq(S) /\ n \in Nat /\ Len(code2) = n + 1
        /\ \A k \in 1 .. n : code2[k] = code[k]
        /\ code2[n + 1] = i
    BY <1>CodeAppended
  <2> HIDE DEF code2
  <2>2. Extends(S, code, code2)
    BY <2>1 DEF Extends
  <2>3. n \in 0 .. n /\ n \in 0 .. Len(code2) - 1
    BY <2>1
  <2>4. Offset(code2, n + 1) = Offset(code2, n) + Length(i)
    BY <2>1, <2>3, <1>OffsetStep
  <2>5. Offset(code2, n) = Offset(code, n)
    BY <2>2, <2>3, <1>ExtendsOffset
  <2>6. ByteOffset(code2) = Offset(code2, n + 1) /\ ByteOffset(code) = Offset(code, n)
    BY <2>1, <1>OffsetWhole
  <2> QED
    BY <2>2, <2>4, <2>5, <2>6 DEF code2

<1>TwoMore.
      ASSUME NEW S, NEW code \in Seq(S), NEW i \in S, NEW j \in S
      PROVE  LET code2 == code \o <<i, j>>
             IN /\ code2 = Append(Append(code, i), j)
                /\ Extends(S, code, code2) /\ Len(code2) = Len(code) + 2
                /\ code2[Len(code) + 1] = i /\ code2[Len(code) + 2] = j
  <2> DEFINE code2 == code \o <<i, j>>
             n == Len(code)
  <2>1. /\ code2 \in Seq(S) /\ Len(code2) = n + 2 /\ n \in Nat
        /\ \A k \in 1 .. n : code2[k] = code[k]
        /\ code2[n + 1] = i /\ code2[n + 2] = j
    OBVIOUS
  <2>2. code2 = Append(Append(code, i), j)
    OBVIOUS
  <2> HIDE DEF code2, n
  <2> QED
    BY <2>1, <2>2 DEF Extends, code2, n

<1>BoundKept.
      ASSUME NEW S, NEW m, NEW code, NEW code2, Extends(S, code, code2), NEW p, NEW idx,
             BoundAt(m, code, p, idx)
      PROVE  BoundAt(m, code2, p, idx) /\ Offset(code2, p) = Offset(code, p) /\ p \in Nat /\ p < Len(code)
  <2> USE <1>BoundKept
  <2>1. /\ code \in Seq(S) /\ code2 \in Seq(S) /\ Len(code) <= Len(code2)
        /\ \A k \in 1 .. Len(code) : code2[k] = code[k]
    BY DEF Extends
  <2>2. /\ p \in Nat /\ p + 2 <= Len(code) /\ code[p + 1] = ZeroBytes
        /\ code[p + 2] = m.code[idx + 1] /\ Offset(code, p) = Offset(m.code, idx)
    BY DEF BoundAt
  <2>3. p \in 0 .. Len(code) /\ p + 1 \in 1 .. Len(code) /\ p + 2 \in 1 .. Len(code)
        /\ p + 2 <= Len(code2) /\ p < Len(code)
    BY <2>1, <2>2
  <2>4. Offset(code2, p) = Offset(code, p)
    BY <2>3, <1>ExtendsOffset
  <2> QED
    BY <2>1, <2>2, <2>3, <2>4 DEF BoundAt

(* What the labels of a module in parse are like. *)
<1>LabelFacts.
      ASSUME NEW m, Static(m), Apart(m, m.code, AsIndexed(m))
      PROVE  /\ Len(m.label_indices) \in Nat /\ DOMAIN m.label_indices = 1 .. Len(m.label_indices)
             /\ \A j \in 1 .. Len(m.label_indices) :
                  /\ IndexNo(m, j) \in Nat /\ IndexNo(m, j) < Len(m.code)
                  /\ LabelNo(m, j) \in {"got", "ils", "slot"} \X Nat
             /\ \A i, j \in 1 .. Len(m.label_indices) :
                  /\ i < j => IndexNo(m, i) < IndexNo(m, j)
                  /\ LabelNo(m, i) = LabelNo(m, j) => i = j
  <2> USE <1>LabelFacts
  <2>1. m.label_indices \in Seq(LabelIndex)
    BY DEF Static, Labelled
  <2>2. /\ Len(m.label_indices) \in Nat /\ DOMAIN m.label_indices = 1 .. Len(m.label_indices)
        /\ \A j \in 1 .. Len(m.label_indices) : m.label_indices[j] \in LabelIndex
    BY <2>1
  <2>3. \A j \in 1 .. Len(m.label_indices) :
          IndexNo(m, j) \in Nat /\ LabelNo(m, j) \in {"got", "ils", "slot"} \X Nat
    BY <2>2 DEF LabelIndex, IndexNo, LabelNo
  <2>4. \A j \in 1 .. Len(m.label_indices) : AsIndexed(m)[j] = IndexNo(m, j)
    BY DEF AsIndexed, IndexNo
  <2>5. \A i, j \in 1 .. Len(m.label_indices) : LabelNo(m, i) = LabelNo(m, j) => i = j
    BY DEF Static, Labelled, LabelNo
  <2> QED
    BY <2>2, <2>3, <2>4, <2>5, Zenon DEF Apart

(* The body of which a label is the start. *)
<1>BodyOfLabel.
      ASSUME NEW m, Static(m), NEW j \in 1 .. Len(m.label_indices)
      PROVE  LET bodies == BodiesWith(m, LabelNo(m, j))
             IN /\ LabelNo(m, j)[1] # "got" => bodies = {}
                /\ LabelNo(m, j)[1] = "got" =>
                     bodies # {} /\ m.function_bodies[Smallest(bodies)].index = LabelNo(m, j)[2]
  <2> USE <1>BodyOfLabel
  <2> DEFINE l == LabelNo(m, j)
             bodies == BodiesWith(m, l)
             fb == m.function_bodies
  <2>1. /\ fb \in Seq([label: {"got"} \X Nat, index: Nat])
        /\ \A i \in 1 .. Len(fb) : fb[i].label = FunctionLabel(fb[i].index)
        /\ \A f \in m.got : f < m.function_body_index => BodiesWith(m, FunctionLabel(f)) # {}
    BY DEF Static, Bodied
  <2>2. DOMAIN fb = 1 .. Len(fb) /\ Len(fb) \in Nat
    BY <2>1
  <2>3. bodies = {i \in 1 .. Len(fb) : fb[i].label = l}
    BY <2>2 DEF BodiesWith
  <2>4. l[1] = "got" => l[2] \in m.got /\ l[2] < m.function_body_index
    BY DEF Static, Labelled, LabelNo
  <2>5. l \in {"got", "ils", "slot"} \X Nat
    <3>1. m.label_indices \in Seq(LabelIndex)
      BY DEF Static, Labelled
    <3>2. m.label_indices[j] \in LabelIndex
      BY <3>1
    <3> QED
      BY <3>2 DEF LabelIndex, LabelNo
  <2> HIDE DEF l, fb
  <2>6. l[1] = "got" => l = FunctionLabel(l[2])
    BY <2>5 DEF FunctionLabel
  <2>7. l[1] # "got" => bodies = {}
    BY <2>1, <2>3 DEF FunctionLabel
  <2>8. ASSUME l[1] = "got"
        PROVE  bodies # {} /\ fb[Smallest(bodies)].index = l[2]
    <3>1. bodies # {}
      BY <2>1, <2>4, <2>6, <2>8
    <3>2. bodies \in SUBSET Nat
      BY <2>2, <2>3
    <3> HIDE DEF bodies
    <3>3. \E i \in bodies : \A k \in bodies : i <= k
      BY <3>1, <3>2, <1>Least
    <3>4. Smallest(bodies) \in bodies
      BY <3>3 DEF Smallest
    <3>5. Smallest(bodies) \in 1 .. Len(fb) /\ fb[Smallest(bodies)].label = l
      BY <2>3, <3>4 DEF bodies
    <3>6. l = FunctionLabel(fb[Smallest(bodies)].index)
      BY <2>1, <3>5
    <3> QED
      BY <3>1, <3>6 DEF FunctionLabel
  <2> QED
    BY <2>7, <2>8 DEF l, fb

<1>BindInit.
      ASSUME NEW m, Static(m), Apart(m, m.code, AsIndexed(m))
      PROVE  BindInv(m, 0, BindStart)
  <2> USE <1>BindInit
  <2>1. /\ DOMAIN BindStart = {"code", "bound", "entries"} /\ BindStart.code = <<>>
        /\ BindStart.bound = <<>> /\ BindStart.entries = <<>>
    BY DEF BindStart
  <2>2. Before(m, 0) = {}
    BY <1>LabelFacts DEF Before
  <2>3. ByteOffset(<<>>) = Offset(m.code, 0)
    <3>1. <<>> \in Seq({}) /\ Len(<<>>) = 0 /\ m.code \in Seq(Instr(m.got, m.ils))
      BY DEF Static
    <3>2. ByteOffset(<<>>) = Offset(<<>>, 0)
      BY <3>1, <1>OffsetWhole, Zenon
    <3> QED
      BY <3>1, <3>2, <1>OffsetZero, Zenon
  <2>4. DOMAIN <<>> = {} /\ <<>> \in Seq(Instr(m.got, m.ils))
    OBVIOUS
  <2> QED
    BY <2>1, <2>2, <2>3, <2>4 DEF BindInv, LabelsBound, BoundInOrder, EntriesAt

(* An instruction without a label. *)
<1>BindPlain.
      ASSUME NEW m, Static(m), Apart(m, m.code, AsIndexed(m)),
             NEW k \in 1 .. Len(m.code), NEW acc, BindInv(m, k - 1, acc), LabelsAt(m, k - 1) = {}
      PROVE  BindInv(m, k, BindNext(m, acc, k))
  <2> USE <1>BindPlain
  <2> DEFINE S == Instr(m.got, m.ils)
             next == BindNext(m, acc, k)
             N == Len(m.label_indices)
  <2>1. /\ DOMAIN acc = {"code", "bound", "entries"} /\ acc.code \in Seq(S)
        /\ ByteOffset(acc.code) = Offset(m.code, k - 1)
        /\ LabelsBound(m, k - 1, acc) /\ BoundInOrder(m, k - 1, acc) /\ EntriesAt(m, k - 1, acc)
    BY DEF BindInv
  <2>2. next = [acc EXCEPT !.code = Append(@, m.code[k])]
    BY DEF BindNext
  <2>3. /\ DOMAIN next = {"code", "bound", "entries"} /\ next.code = Append(acc.code, m.code[k])
        /\ next.bound = acc.bound /\ next.entries = acc.entries
    BY <2>1, <2>2, Zenon
  <2>4. m.code \in Seq(S)
    BY DEF Static
  <2>5. m.code[k] \in S /\ k - 1 \in 0 .. Len(m.code) - 1 /\ (k - 1) + 1 = k /\ k \in Nat
    BY <2>4
  <2> HIDE DEF S, next
  <2>6. /\ Extends(S, acc.code, next.code)
        /\ ByteOffset(next.code) = ByteOffset(acc.code) + Length(m.code[k])
    BY <2>1, <2>3, <2>5, <1>OffsetAppend
  <2>7. ByteOffset(next.code) = Offset(m.code, k)
    <3>1. Offset(m.code, k) = Offset(m.code, k - 1) + Length(m.code[k])
      BY <2>4, <2>5, <1>OffsetStep
    <3> QED
      BY <2>1, <2>6, <3>1
  <2>8. Before(m, k) = Before(m, k - 1)
    <3>1. /\ DOMAIN m.label_indices = 1 .. N
          /\ \A j \in 1 .. N : IndexNo(m, j) \in Nat
      BY <1>LabelFacts
    <3>2. \A j \in 1 .. N : IndexNo(m, j) # k - 1
      BY <3>1, SMTT(40) DEF LabelsAt, IndexNo
    <3>3. \A j \in 1 .. N : IndexNo(m, j) < k <=> IndexNo(m, j) < k - 1
      BY <2>5, <3>1, <3>2, SMTT(30)
    <3> QED
      BY <3>3 DEF Before
  <2>9. \A j \in Before(m, k) :
          /\ BoundAt(m, acc.code, acc.bound[LabelNo(m, j)], IndexNo(m, j))
          /\ LabelNo(m, j)[1] = "got" =>
               acc.entries[LabelNo(m, j)[2]] = Offset(acc.code, acc.bound[LabelNo(m, j)])
    BY <2>1, <2>8, SMTT(30) DEF LabelsBound, EntriesAt
  <2>10. \A j \in Before(m, k) :
           /\ BoundAt(m, next.code, acc.bound[LabelNo(m, j)], IndexNo(m, j))
           /\ Offset(next.code, acc.bound[LabelNo(m, j)]) = Offset(acc.code, acc.bound[LabelNo(m, j)])
    BY <2>6, <2>9, <1>BoundKept, SMTT(30)
  <2>11. LabelsBound(m, k, next)
    BY <2>1, <2>3, <2>8, <2>10, SMTT(30) DEF LabelsBound
  <2>12. BoundInOrder(m, k, next)
    BY <2>1, <2>3, <2>8, SMTT(30) DEF BoundInOrder
  <2>13. EntriesAt(m, k, next)
    <3>1. DOMAIN next.entries =
            {LabelNo(m, j)[2] : j \in {i \in Before(m, k) : LabelNo(m, i)[1] = "got"}}
      BY <2>1, <2>3, <2>8 DEF EntriesAt
    <3> QED
      BY <2>3, <2>9, <2>10, <3>1, SMTT(30) DEF EntriesAt
  <2>14. next.code \in Seq(S)
    BY <2>6 DEF Extends
  <2> QED
    BY <2>3, <2>7, <2>11, <2>12, <2>13, <2>14 DEF BindInv, S, next

(* An instruction that the label l, with the number j0, is in front of. *)
<1>BindLabel.
      ASSUME NEW m, Static(m), Apart(m, m.code, AsIndexed(m)),
             NEW k \in 1 .. Len(m.code), NEW acc, BindInv(m, k - 1, acc), LabelsAt(m, k - 1) # {}
      PROVE  BindInv(m, k, BindNext(m, acc, k))
  <2> USE <1>BindLabel
  <2> DEFINE S == Instr(m.got, m.ils)
             next == BindNext(m, acc, k)
             N == Len(m.label_indices)
             p == Len(acc.code)
  <2>1. /\ acc.code \in Seq(S)
        /\ ByteOffset(acc.code) = Offset(m.code, k - 1)
        /\ LabelsBound(m, k - 1, acc) /\ BoundInOrder(m, k - 1, acc) /\ EntriesAt(m, k - 1, acc)
    BY SMTT(30) DEF BindInv
  <2>2. /\ N \in Nat /\ DOMAIN m.label_indices = 1 .. N
        /\ \A j \in 1 .. N : /\ IndexNo(m, j) \in Nat
                             /\ LabelNo(m, j) \in {"got", "ils", "slot"} \X Nat
        /\ \A i, j \in 1 .. N : /\ i < j => IndexNo(m, i) < IndexNo(m, j)
                                /\ LabelNo(m, i) = LabelNo(m, j) => i = j
    BY <1>LabelFacts, Zenon
  <2>3. LabelsAt(m, k - 1) = {j \in 1 .. N : IndexNo(m, j) = k - 1}
    BY <2>2 DEF LabelsAt, IndexNo
  <2>4. PICK j0 \in 1 .. N : IndexNo(m, j0) = k - 1
    BY <2>3
  <2> HIDE DEF N
  <2>5. LabelsAt(m, k - 1) = {j0}
    <3>1. ASSUME NEW j \in 1 .. N, IndexNo(m, j) = k - 1, j # j0
          PROVE  FALSE
      <4>1. IndexNo(m, j) < IndexNo(m, j0) \/ IndexNo(m, j0) < IndexNo(m, j)
        <5>1. j < j0 \/ j0 < j
          BY <2>2, <3>1
        <5> QED
          BY <2>2, <5>1
      <4>2. k - 1 \in Int
        OBVIOUS
      <4> QED
        BY <2>4, <3>1, <4>1, <4>2
    <3> QED
      BY <2>3, <2>4, <3>1
  <2>6. Smallest(LabelsAt(m, k - 1)) = j0
    BY <2>2, <2>5 DEF Smallest
  <2> DEFINE l == LabelNo(m, j0)
             bodies == BodiesWith(m, l)
             entries == IF bodies = {} THEN acc.entries
                        ELSE Insert(acc.entries, m.function_bodies[Smallest(bodies)].index,
                                    ByteOffset(acc.code))
  <2>7. next = [code    |-> acc.code \o <<ZeroBytes, m.code[k]>>,
                bound   |-> Insert(acc.bound, l, Len(acc.code)),
                entries |-> entries]
    BY <2>6, Zenon DEF BindNext, LabelNo
  <2>8. /\ DOMAIN next = {"code", "bound", "entries"}
        /\ next.code = acc.code \o <<ZeroBytes, m.code[k]>>
        /\ next.bound = Insert(acc.bound, l, p) /\ next.entries = entries
    BY <2>7
  <2>9. /\ l[1] # "got" => bodies = {}
        /\ l[1] = "got" => bodies # {} /\ m.function_bodies[Smallest(bodies)].index = l[2]
    BY <2>4, <1>BodyOfLabel, SMTT(30) DEF N
  <2>10. /\ l[1] # "got" => next.entries = acc.entries
         /\ l[1] = "got" => next.entries = Insert(acc.entries, l[2], ByteOffset(acc.code))
    BY <2>8, <2>9
  <2> HIDE DEF entries, bodies, next
  <2>11. m.code \in Seq(S) /\ ZeroBytes \in S
    <3>1. ZeroBytes \in S
      BY <1>QwordInstr, SMTT(30) DEF AllRegisters, RegisterNames
    <3> QED
      BY <3>1 DEF Static
  <2>12. m.code[k] \in S /\ k - 1 \in 0 .. Len(m.code) - 1 /\ (k - 1) + 1 = k /\ k \in Nat
         /\ p \in Nat /\ p \in 0 .. p
    BY <2>1, <2>11, SMTT(30)
  <2> HIDE DEF S
  <2> DEFINE code1 == Append(acc.code, ZeroBytes)
  <2>13. /\ next.code = Append(code1, m.code[k])
         /\ Extends(S, acc.code, next.code) /\ Len(next.code) = p + 2
         /\ next.code[p + 1] = ZeroBytes /\ next.code[p + 2] = m.code[k]
    <3> DEFINE a == acc.code
               x == m.code[k]
    <3>1. a \in Seq(S) /\ x \in S /\ ZeroBytes \in S /\ next.code = a \o <<ZeroBytes, x>>
      BY <2>1, <2>8, <2>11, <2>12
    <3> SUFFICES /\ next.code = Append(Append(a, ZeroBytes), x)
                 /\ Extends(S, a, next.code) /\ Len(next.code) = Len(a) + 2
                 /\ next.code[Len(a) + 1] = ZeroBytes /\ next.code[Len(a) + 2] = x
      OBVIOUS
    <3> HIDE DEF a, x
    <3> QED
      BY <3>1, <1>TwoMore
  <2>14. ByteOffset(next.code) = Offset(m.code, k)
    <3>1. Extends(S, acc.code, code1) /\ ByteOffset(code1) = ByteOffset(acc.code) + Length(ZeroBytes)
      BY <2>1, <2>11, <1>OffsetAppend
    <3>2. code1 \in Seq(S)
      BY <3>1 DEF Extends
    <3> HIDE DEF code1
    <3>3. ByteOffset(next.code) = ByteOffset(code1) + Length(m.code[k])
      BY <2>12, <2>13, <3>2, <1>OffsetAppend
    <3>4. Offset(m.code, k) = Offset(m.code, k - 1) + Length(m.code[k])
      BY <2>11, <2>12, <1>OffsetStep
    <3>5. Length(ZeroBytes) = 0
      BY <1>DataLengths
    <3>6. Offset(m.code, k - 1) \in Nat
      BY <2>11, <2>12, <1>OffsetNat, SMTT(30)
    <3> QED
      BY <2>1, <3>1, <3>3, <3>4, <3>5, <3>6
  <2> HIDE DEF code1
  <2>15. BoundAt(m, next.code, p, k - 1) /\ Offset(next.code, p) = ByteOffset(acc.code)
    <3>1. Offset(next.code, p) = Offset(acc.code, p)
      BY <2>12, <2>13, <1>ExtendsOffset, SMTT(30)
    <3>2. ByteOffset(acc.code) = Offset(acc.code, p)
      BY <2>1, <1>OffsetWhole
    <3> QED
      BY <2>1, <2>12, <2>13, <3>1, <3>2, SMTT(30) DEF BoundAt
  <2>16. /\ DOMAIN next.bound = DOMAIN acc.bound \cup {l} /\ next.bound[l] = p
         /\ \A y \in DOMAIN acc.bound : y # l => next.bound[y] = acc.bound[y]
    <3> HIDE DEF l, p
    <3> QED
      BY <2>8 DEF Insert
  <2>17. Before(m, k) = Before(m, k - 1) \cup {j0} /\ j0 \notin Before(m, k - 1)
    <3>1. \A j \in 1 .. N : IndexNo(m, j) < k <=> IndexNo(m, j) < k - 1 \/ IndexNo(m, j) = k - 1
      <4> TAKE j \in 1 .. N
      <4>1. IndexNo(m, j) \in Nat /\ k \in Nat
        BY <2>2, <2>12
      <4> QED
        BY <4>1
    <3>2. \A j \in 1 .. N : IndexNo(m, j) = k - 1 <=> j = j0
      BY <2>3, <2>5
    <3>3. ~ (IndexNo(m, j0) < k - 1)
      BY <2>4, <2>12
    <3> QED
      BY <3>1, <3>2, <3>3 DEF Before, N
  <2>18. Before(m, k - 1) \subseteq 1 .. N
    BY DEF Before, N
  <2>19. /\ DOMAIN acc.bound = {LabelNo(m, j) : j \in Before(m, k - 1)}
         /\ \A j \in Before(m, k - 1) : BoundAt(m, acc.code, acc.bound[LabelNo(m, j)], IndexNo(m, j))
    BY <2>1 DEF LabelsBound
  <2>20. \A j \in Before(m, k - 1) : LabelNo(m, j) # l /\ next.bound[LabelNo(m, j)] = acc.bound[LabelNo(m, j)]
    <3>1. \A j \in Before(m, k - 1) : LabelNo(m, j) # l
      BY <2>2, <2>17, <2>18, SMTT(30)
    <3> HIDE DEF l
    <3> QED
      BY <2>16, <2>19, <3>1
  <2>21. \A j \in Before(m, k - 1) :
           /\ BoundAt(m, next.code, acc.bound[LabelNo(m, j)], IndexNo(m, j))
           /\ Offset(next.code, acc.bound[LabelNo(m, j)]) = Offset(acc.code, acc.bound[LabelNo(m, j)])
           /\ acc.bound[LabelNo(m, j)] \in Nat /\ acc.bound[LabelNo(m, j)] < p
    BY <2>13, <2>19, <1>BoundKept, SMTT(40)
  <2>22. LabelsBound(m, k, next)
    <3>1. DOMAIN next.bound = {LabelNo(m, j) : j \in Before(m, k)}
      BY <2>16, <2>17, <2>19
    <3>2. BoundAt(m, next.code, next.bound[LabelNo(m, j0)], IndexNo(m, j0))
      BY <2>4, <2>15, <2>16, SMTT(30)
    <3>3. \A j \in Before(m, k - 1) : BoundAt(m, next.code, next.bound[LabelNo(m, j)], IndexNo(m, j))
      BY <2>20, <2>21
    <3> HIDE DEF l, p
    <3> QED
      BY <2>17, <3>1, <3>2, <3>3 DEF LabelsBound
  <2>23. BoundInOrder(m, k, next)
    <3> SUFFICES ASSUME NEW i \in Before(m, k), NEW j \in Before(m, k), i < j
                 PROVE  next.bound[LabelNo(m, i)] < next.bound[LabelNo(m, j)]
      BY DEF BoundInOrder
    <3>1. CASE i \in Before(m, k - 1) /\ j \in Before(m, k - 1)
      <4>1. acc.bound[LabelNo(m, i)] < acc.bound[LabelNo(m, j)]
        BY <2>1, <3>1 DEF BoundInOrder
      <4> QED
        BY <2>20, <3>1, <4>1
    <3>2. CASE i \in Before(m, k - 1) /\ j = j0
      BY <2>16, <2>20, <2>21, <3>2, ZenonT(40)
    <3>3. CASE i = j0
      <4>1. j \in 1 .. N /\ IndexNo(m, j) < k /\ IndexNo(m, j) \in Nat
        BY <2>2 DEF Before, N
      <4>2. IndexNo(m, j0) < IndexNo(m, j)
        BY <2>2, <2>4, <3>3, <4>1, SMTT(30)
      <4> QED
        BY <2>4, <2>12, <4>1, <4>2, SMTT(30)
    <3> QED
      BY <2>17, <3>1, <3>2, <3>3
  <2>24. /\ DOMAIN acc.entries =
              {LabelNo(m, j)[2] : j \in {i \in Before(m, k - 1) : LabelNo(m, i)[1] = "got"}}
         /\ \A j \in Before(m, k - 1) : LabelNo(m, j)[1] = "got" =>
              acc.entries[LabelNo(m, j)[2]] = Offset(acc.code, acc.bound[LabelNo(m, j)])
    BY <2>1 DEF EntriesAt
  <2>25. EntriesAt(m, k, next)
    <3>1. CASE l[1] # "got"
      <4>1. {i \in Before(m, k) : LabelNo(m, i)[1] = "got"} =
              {i \in Before(m, k - 1) : LabelNo(m, i)[1] = "got"}
        BY <2>17, <3>1
      <4>2. next.entries = acc.entries
        BY <2>10, <3>1
      <4>3. \A j \in Before(m, k) : LabelNo(m, j)[1] = "got" => j \in Before(m, k - 1)
        BY <2>17, <3>1, SMTT(30)
      <4>4. \A j \in Before(m, k) : LabelNo(m, j)[1] = "got" =>
              next.entries[LabelNo(m, j)[2]] = Offset(next.code, next.bound[LabelNo(m, j)])
        BY <2>20, <2>21, <2>24, <4>2, <4>3, SMTT(30)
      <4> QED
        BY <2>24, <4>1, <4>2, <4>4 DEF EntriesAt
    <3>2. CASE l[1] = "got"
      <4>1. /\ DOMAIN next.entries = DOMAIN acc.entries \cup {l[2]}
            /\ next.entries[l[2]] = ByteOffset(acc.code)
            /\ \A y \in DOMAIN acc.entries : y # l[2] => next.entries[y] = acc.entries[y]
        <5>1. next.entries = Insert(acc.entries, l[2], ByteOffset(acc.code))
          BY <2>10, <3>2
        <5> QED
          BY <5>1 DEF Insert
      <4>2. {i \in Before(m, k) : LabelNo(m, i)[1] = "got"} =
              {i \in Before(m, k - 1) : LabelNo(m, i)[1] = "got"} \cup {j0}
        BY <2>17, <3>2
      <4>3. DOMAIN next.entries =
              {LabelNo(m, j)[2] : j \in {i \in Before(m, k) : LabelNo(m, i)[1] = "got"}}
        BY <2>24, <4>1, <4>2, SMTT(30)
      <4>4. ASSUME NEW j \in Before(m, k - 1), LabelNo(m, j)[1] = "got"
            PROVE  next.entries[LabelNo(m, j)[2]] = Offset(next.code, next.bound[LabelNo(m, j)])
        <5>1. LabelNo(m, j)[2] # l[2]
          <6>1. LabelNo(m, j) \in {"got", "ils", "slot"} \X Nat /\ l \in {"got", "ils", "slot"} \X Nat
            BY <2>2, <2>4, <2>18
          <6>2. LabelNo(m, j) # l
            BY <2>20
          <6> QED
            BY <3>2, <4>4, <6>1, <6>2
        <5>2. LabelNo(m, j)[2] \in DOMAIN acc.entries
          BY <2>24, <4>4
        <5> QED
          BY <2>20, <2>21, <2>24, <4>1, <4>4, <5>1, <5>2, Zenon
      <4>5. next.entries[LabelNo(m, j0)[2]] = Offset(next.code, next.bound[LabelNo(m, j0)])
        BY <2>15, <2>16, <4>1
      <4> HIDE DEF l
      <4> QED
        BY <2>17, <4>3, <4>4, <4>5 DEF EntriesAt
    <3> QED
      BY <3>1, <3>2, SMTT(30)
  <2>26. next.code \in Seq(S)
    BY <2>13 DEF Extends
  <2> QED
    BY <2>8, <2>14, <2>22, <2>23, <2>25, <2>26 DEF BindInv, S, next

<1>BindResult.
      ASSUME NEW m, Static(m), Apart(m, m.code, AsIndexed(m))
      PROVE  BindInv(m, Len(m.code), BoundCode(m))
  <2> USE <1>BindResult
  <2> DEFINE n == Len(m.code)
             numbers == [k \in DOMAIN m.code |-> k]
  <2>1. BoundCode(m) = BindFold!Result(m, BindStart, numbers)
    BY DEF BoundCode, FoldOnce, BindFold!Result, BindStep, BindStart
  <2>2. m.code \in Seq(Instr(m.got, m.ils))
    BY DEF Static
  <2>3. n \in Nat /\ DOMAIN m.code = 1 .. n
    BY <2>2
  <2>4. numbers \in [1 .. n -> 1 .. n] /\ \A k \in 1 .. n : numbers[k] = k
    BY <2>3
  <2> HIDE DEF numbers, n
  <2>5. Len(numbers) = n
    BY <2>3, <2>4, GeneratedSeq
  <2>6. BindInv(m, 0, BindStart)
    BY <1>BindInit
  <2>7. ASSUME NEW k \in 1 .. Len(numbers), NEW acc, BindInv(m, k - 1, acc)
        PROVE  BindInv(m, k, BindStep(m, acc, numbers[k]))
    <3>1. k \in 1 .. Len(m.code) /\ numbers[k] = k
      BY <2>4, <2>5 DEF n
    <3>2. BindInv(m, k, BindNext(m, acc, k))
      BY <2>7, <3>1, <1>BindPlain, <1>BindLabel
    <3> QED
      BY <3>1, <3>2 DEF BindStep
  <2>8. BindInv(m, Len(numbers), BindFold!Result(m, BindStart, numbers))
    BY <2>3, <2>5, <2>6, <2>7, BindFold!FoldInvariant DEF BindFold!Inductive, Inductive
  <2> QED
    BY <2>1, <2>5, <2>8 DEF n

<1>BoundModule.
      ASSUME NEW m, Static(m), Apart(m, m.code, AsIndexed(m)),
             m.function_body_index = m.function_index,
             NEW n, SlotsIn(m, m.code, AsIndexed(m), n),
             NEW bnd, bnd = BoundCode(m).bound, NEW bin, bin = BoundCode(m).code
      PROVE  BoundAs(m, bnd, bin, BoundCode(m).entries)
  <2> USE <1>BoundModule
  <2> DEFINE N == Len(m.label_indices)
             acc == BoundCode(m)
  <2>1. BindInv(m, Len(m.code), acc)
    BY <1>BindResult
  <2>2. acc.code \in Seq(Instr(m.got, m.ils))
        /\ LabelsBound(m, Len(m.code), acc) /\ BoundInOrder(m, Len(m.code), acc) /\ EntriesAt(m, Len(m.code), acc)
    BY <2>1 DEF BindInv
  <2>3. /\ N \in Nat /\ DOMAIN m.label_indices = 1 .. N
        /\ \A j \in 1 .. N : /\ IndexNo(m, j) \in Nat /\ IndexNo(m, j) < Len(m.code)
                             /\ LabelNo(m, j) \in {"got", "ils", "slot"} \X Nat
    BY <1>LabelFacts
  <2> HIDE DEF acc, N
  <2>4. Before(m, Len(m.code)) = 1 .. N
    BY <2>3 DEF Before, N
  <2>5. /\ DOMAIN bnd = {LabelNo(m, j) : j \in 1 .. N}
        /\ \A j \in 1 .. N : BoundAt(m, bin, bnd[LabelNo(m, j)], IndexNo(m, j))
    BY <2>2, <2>4, SMTT(30) DEF LabelsBound, acc
  <2>6. \A i, j \in 1 .. N : i < j => bnd[LabelNo(m, i)] < bnd[LabelNo(m, j)]
    BY <2>2, <2>4, SMTT(30) DEF BoundInOrder, acc
  <2>7. /\ DOMAIN acc.entries = {LabelNo(m, j)[2] : j \in {i \in 1 .. N : LabelNo(m, i)[1] = "got"}}
        /\ \A j \in 1 .. N : LabelNo(m, j)[1] = "got" =>
             acc.entries[LabelNo(m, j)[2]] = Offset(bin, bnd[LabelNo(m, j)])
    BY <2>2, <2>4, SMTT(30) DEF EntriesAt, acc
  <2>8. bin \in Seq(Instr(m.got, m.ils)) /\ Len(bin) \in Nat
    BY <2>2, SMTT(30) DEF acc
  <2>9. \A j \in 1 .. N :
          /\ LabelNo(m, j)[1] = "got" => LabelNo(m, j)[2] \in m.got
          /\ LabelNo(m, j)[1] = "ils" => LabelNo(m, j)[2] \in m.ils
    BY SMTT(30) DEF Static, Labelled, LabelNo, N
  <2>10. \A f \in m.ils : \E j \in 1 .. N : LabelNo(m, j) = ImportLabel(f)
    BY <2>3 DEF Static, Labelled, HasLabel, LabelNo
  <2>11. \A f \in m.got : \E j \in 1 .. N : LabelNo(m, j) = FunctionLabel(f)
    <3>1. \A f \in m.got : f < m.function_body_index
      BY DEF Static, Indices
    <3> QED
      BY <2>3, <3>1, Zenon DEF Static, Labelled, HasLabel, LabelNo
  <2>12. DOMAIN acc.entries = m.got
    <3>1. \A f \in m.got : \E j \in 1 .. N : LabelNo(m, j)[1] = "got" /\ LabelNo(m, j)[2] = f
      BY <2>11, SMTT(30) DEF FunctionLabel
    <3> QED
      BY <2>7, <2>9, <3>1, SMTT(30)
  <2>13. ASSUME NEW f \in m.got
         PROVE  /\ FunctionLabel(f) \in DOMAIN bnd
                /\ bnd[FunctionLabel(f)] \in 0 .. Len(bin)
                /\ acc.entries[f] = Offset(bin, bnd[FunctionLabel(f)])
    <3>1. PICK j \in 1 .. N : LabelNo(m, j) = FunctionLabel(f)
      BY <2>11
    <3>2. LabelNo(m, j)[1] = "got" /\ LabelNo(m, j)[2] = f
      BY <3>1, SMTT(30) DEF FunctionLabel
    <3>3. bnd[LabelNo(m, j)] \in Nat /\ bnd[LabelNo(m, j)] + 2 <= Len(bin)
      BY <2>5, SMTT(30) DEF BoundAt
    <3> QED
      BY <2>5, <2>7, <2>8, <3>1, <3>2, <3>3
  <2>14. ASSUME NEW f \in m.ils
         PROVE  \E j \in 1 .. N :
                  /\ LabelNo(m, j) = ImportLabel(f)
                  /\ ImportLabel(f) \in DOMAIN bnd
                  /\ bnd[ImportLabel(f)] \in 0 .. Len(bin) - 2
                  /\ bin[bnd[ImportLabel(f)] + 1] = ZeroBytes
                  /\ bin[bnd[ImportLabel(f)] + 2] = Qword(Unlinked)
                  /\ m.imports[f].offset = Offset(bin, bnd[ImportLabel(f)])
    <3>1. PICK j \in 1 .. N : LabelNo(m, j) = ImportLabel(f)
      BY <2>10
    <3>2. LabelNo(m, j)[1] = "ils" /\ LabelNo(m, j)[2] = f
      BY <3>1 DEF ImportLabel
    <3>3. AsIndexed(m)[j] = IndexNo(m, j)
      BY SMTT(30) DEF AsIndexed, IndexNo, N
    <3>4. /\ m.code[IndexNo(m, j) + 1] = Qword(Unlinked)
          /\ m.imports[f].offset = Offset(m.code, IndexNo(m, j))
      BY <3>2, <3>3, ZenonT(40) DEF SlotsIn, LabelNo, N
    <3>5. /\ bnd[LabelNo(m, j)] \in Nat /\ bnd[LabelNo(m, j)] + 2 <= Len(bin)
          /\ bin[bnd[LabelNo(m, j)] + 1] = ZeroBytes
          /\ bin[bnd[LabelNo(m, j)] + 2] = m.code[IndexNo(m, j) + 1]
          /\ Offset(bin, bnd[LabelNo(m, j)]) = Offset(m.code, IndexNo(m, j))
      BY <2>5, ZenonT(40) DEF BoundAt
    <3>6. bnd[LabelNo(m, j)] \in 0 .. Len(bin) - 2
      BY <2>8, <3>5
    <3> QED
      BY <2>5, <3>1, <3>4, <3>5, <3>6, Zenon
  <2>15. ASSUME NEW f \in m.ils, NEW g \in m.ils, bnd[ImportLabel(f)] = bnd[ImportLabel(g)]
         PROVE  f = g
    <3>1. PICK i \in 1 .. N : LabelNo(m, i) = ImportLabel(f) /\ bnd[ImportLabel(f)] \in 0 .. Len(bin) - 2
      BY <2>14
    <3>2. PICK j \in 1 .. N : LabelNo(m, j) = ImportLabel(g) /\ bnd[ImportLabel(g)] \in 0 .. Len(bin) - 2
      BY <2>14
    <3>3. i = j
      <4>1. i < j \/ i = j \/ j < i
        BY <2>3
      <4> QED
        BY <2>6, <2>8, <2>15, <3>1, <3>2, <4>1
    <3> QED
      BY <3>1, <3>2, <3>3, SMTT(30) DEF ImportLabel
  <2> QED
    BY <2>5, <2>8, <2>12, <2>13, <2>14, <2>15, Zenon DEF acc, N, BoundAs

<1>Assembles.
      ASSUME NEW module, NEW left, NEW m, Stage("bind", module, left, m),
             NEW m2, m2 = [m EXCEPT !.entries = BoundCode(m).entries],
             NEW bnd, bnd = BoundCode(m).bound, NEW bin, bin = BoundCode(m).code
      PROVE  Assembled(m2, bnd, bin) /\ SlotsLinked(m2, bnd, bin, <<>>)
  <2> USE <1>Assembles
  <2>1. /\ Static(m) /\ m.function_index <= MaxFunctions /\ Position(module, left, m)
        /\ m.function_body_index = m.function_index /\ Placed(m)
    BY DEF Stage
  <2>2. PICK n \in 0 .. Len(m.code) : SlotsIn(m, m.code, AsIndexed(m), n)
    BY <2>1 DEF Placed
  <2>3. Apart(m, m.code, AsIndexed(m))
    BY <2>1 DEF Placed
  <2>4. DOMAIN m = Fields /\ ContextOK(m)
    BY <2>1 DEF Static, Indices
  <2>5. /\ DOMAIN m2 = Fields /\ m2.entries = BoundCode(m).entries
        /\ Unchanged(m, m2, {"entries"})
    BY <2>4, Zenon DEF Fields, Unchanged
  <2>6. m2.got = m.got /\ m2.ils = m.ils /\ m2.imports = m.imports
    BY <2>5 DEF Unchanged, Fields
  <2>10. /\ bin \in Seq(Instr(m.got, m.ils))
         /\ DOMAIN bnd \subseteq {LabelNo(m, j) : j \in 1 .. Len(m.label_indices)}
         /\ DOMAIN BoundCode(m).entries = m.got
         /\ \A f \in m.got :
              /\ FunctionLabel(f) \in DOMAIN bnd
              /\ bnd[FunctionLabel(f)] \in 0 .. Len(bin)
              /\ BoundCode(m).entries[f] = Offset(bin, bnd[FunctionLabel(f)])
         /\ \A f \in m.ils :
              /\ ImportLabel(f) \in DOMAIN bnd
              /\ bnd[ImportLabel(f)] \in 0 .. Len(bin) - 2
              /\ bin[bnd[ImportLabel(f)] + 1] = ZeroBytes
              /\ bin[bnd[ImportLabel(f)] + 2] = Qword(Unlinked)
              /\ m.imports[f].offset = Offset(bin, bnd[ImportLabel(f)])
         /\ \A f, g \in m.ils : bnd[ImportLabel(f)] = bnd[ImportLabel(g)] => f = g
    <3>1. BoundAs(m, bnd, bin, BoundCode(m).entries)
      BY <2>1, <2>2, <2>3, <1>BoundModule
    <3> QED
      BY <3>1 DEF BoundAs
  <2>11. DOMAIN bnd \subseteq AllLabels
    <3>1. \A j \in 1 .. Len(m.label_indices) : LabelNo(m, j) \in AllLabels
      BY <2>1, LabelsKnown DEF LabelNo
    <3> QED
      BY <2>10, <3>1
  <2>12. Unlinked \in Int
    BY DEF Unlinked
  <2>13. Assembled(m2, bnd, bin)
    BY <2>5, <2>6, <2>10, <2>11, <2>12, SMTT(30) DEF Assembled, SlotOf
  <2>14. SlotsLinked(m2, bnd, bin, <<>>)
    BY <2>6, <2>10 DEF SlotsLinked, SlotOf
  <2> QED
    BY <2>13, <2>14

(* link_import finds the slot of an import by its offset. *)
<1>SlotFound.
      ASSUME NEW m, NEW bnd, NEW bin, Assembled(m, bnd, bin), NEW f \in m.ils
      PROVE  /\ SlotOf(bnd, f) \in 1 .. Len(bin)
             /\ Length(bin[SlotOf(bnd, f)]) = 8
             /\ InstructionAt(bin, m.imports[f].offset) = SlotOf(bnd, f)
  <2> USE <1>SlotFound
  <2> DEFINE b == bnd[ImportLabel(f)]
             S == Instr(m.got, m.ils)
  <2>1. /\ bin \in Seq(S) /\ b \in 0 .. Len(bin) - 2 /\ bin[b + 1] = ZeroBytes
        /\ m.imports[f].offset = Offset(bin, b)
    BY DEF Assembled
  <2>2. PICK v : bin[SlotOf(bnd, f)] = Qword(v)
    BY DEF Assembled
  <2>3. SlotOf(bnd, f) = b + 2
    BY DEF SlotOf
  <2> HIDE DEF b, S
  <2>4. /\ b \in 0 .. Len(bin) /\ b \in 0 .. Len(bin) - 1 /\ b + 2 \in 1 .. Len(bin)
        /\ b + 1 \in 0 .. Len(bin) /\ (b + 2) - 1 = b + 1
    BY <2>1
  <2>5. Length(bin[b + 1]) = 0 /\ Length(bin[b + 2]) = 8
    BY <2>1, <2>2, <2>3, <1>DataLengths
  <2>6. Offset(bin, b) \in Nat /\ Offset(bin, b + 1) = Offset(bin, b) + 0
    BY <2>1, <2>4, <2>5, <1>OffsetNat, <1>OffsetStep
  <2>7. /\ Offset(bin, (b + 2) - 1) <= Offset(bin, b)
        /\ Offset(bin, b) < Offset(bin, (b + 2) - 1) + Length(bin[b + 2])
    BY <2>4, <2>5, <2>6
  <2>8. InstructionAt(bin, Offset(bin, b)) = b + 2
    BY <2>1, <2>4, <2>6, <2>7, <1>InstructionFound
  <2> QED
    BY <2>1, <2>3, <2>4, <2>5, <2>8

(* An address in a slot moves nothing. *)
<1>SlotWritten.
      ASSUME NEW m, NEW bnd, NEW bin, Assembled(m, bnd, bin), NEW f \in m.ils, NEW addr \in Nat,
             NEW bin2, bin2 = Patched(bin, SlotOf(bnd, f), Qword(addr))
      PROVE  Assembled(m, bnd, bin2) /\ Fills(m, bnd, bin, bin2, f, addr)
  <2> USE <1>SlotWritten
  <2> DEFINE S == Instr(m.got, m.ils)
             s == SlotOf(bnd, f)
  <2>0. bin \in Seq(S)
    BY DEF Assembled
  <2>1. bin \in Seq(S) /\ s \in 1 .. Len(bin) /\ Length(bin[s]) = 8
    BY <2>0, <1>SlotFound
  <2>2. Qword(addr) \in S /\ Length(Qword(addr)) = 8
    BY <1>QwordInstr, <1>DataLengths
  <2>3. /\ bin2 \in Seq(S) /\ Len(bin2) = Len(bin) /\ bin2[s] = Qword(addr)
        /\ \A k \in 1 .. Len(bin) : k # s => bin2[k] = bin[k]
    <3> HIDE DEF S, s
    <3> QED
      BY <2>1, <2>2 DEF s, Patched
  <2>4. \A k \in 1 .. Len(bin) : Length(bin[k]) = Length(bin2[k])
    BY <2>1, <2>2, <2>3, SMTT(30)
  <2>5. ASSUME NEW n \in 0 .. Len(bin)
        PROVE  Offset(bin2, n) = Offset(bin, n)
    <3>1. n \in Nat /\ n <= Len(bin) /\ n <= Len(bin2) /\ \A k \in 1 .. n : k \in 1 .. Len(bin)
      BY <2>1, <2>3, <2>5, SMTT(30)
    <3>2. \A k \in 1 .. n : Length(bin[k]) = Length(bin2[k])
      BY <2>4, <3>1, SMTT(30)
    <3> QED
      BY <2>1, <2>3, <3>1, <3>2, <1>OffsetsAgree
  <2>6. ASSUME NEW g \in m.ils
        PROVE  /\ bnd[ImportLabel(g)] \in 0 .. Len(bin) - 2
               /\ SlotOf(bnd, g) \in 1 .. Len(bin)
               /\ SlotOf(bnd, g) = s => g = f
               /\ bnd[ImportLabel(g)] + 1 \in 1 .. Len(bin)
               /\ bnd[ImportLabel(g)] \in 0 .. Len(bin)
    <3>1. /\ bnd[ImportLabel(g)] \in 0 .. Len(bin) - 2 /\ bnd[ImportLabel(f)] \in 0 .. Len(bin) - 2
          /\ bnd[ImportLabel(g)] = bnd[ImportLabel(f)] => g = f
      BY SMTT(30) DEF Assembled
    <3> QED
      BY <2>1, <3>1, SMTT(30) DEF SlotOf
  <2>7. ASSUME NEW g \in m.ils
        PROVE  bin2[bnd[ImportLabel(g)] + 1] = ZeroBytes
    <3>1. bin[bnd[ImportLabel(g)] + 1] = ZeroBytes
      BY DEF Assembled
    <3>2. bnd[ImportLabel(g)] + 1 # s
      BY <2>1, <3>1, <1>DataLengths, SMTT(30)
    <3> QED
      BY <2>3, <2>6, <3>1, <3>2
  <2>8. ASSUME NEW g \in m.ils, g # f
        PROVE  bin2[SlotOf(bnd, g)] = bin[SlotOf(bnd, g)]
    BY <2>3, <2>6, <2>8
  <2>9. ASSUME NEW g \in m.ils
        PROVE  \E v \in Int : bin2[SlotOf(bnd, g)] = Qword(v)
    <3>1. CASE g = f
      BY <2>3, <3>1, SMTT(30)
    <3>2. CASE g # f
      BY <2>8, <3>2, SMTT(30) DEF Assembled
    <3> QED
      BY <3>1, <3>2
  <2>10. /\ DOMAIN bnd \subseteq AllLabels
         /\ DOMAIN m.entries = m.got
         /\ \A g \in m.got :
              /\ FunctionLabel(g) \in DOMAIN bnd
              /\ bnd[FunctionLabel(g)] \in 0 .. Len(bin)
              /\ m.entries[g] = Offset(bin, bnd[FunctionLabel(g)])
         /\ \A g \in m.ils :
              ImportLabel(g) \in DOMAIN bnd /\ m.imports[g].offset = Offset(bin, bnd[ImportLabel(g)])
         /\ \A g, h \in m.ils : bnd[ImportLabel(g)] = bnd[ImportLabel(h)] => g = h
    BY SMTT(30) DEF Assembled
  <2>11. Assembled(m, bnd, bin2)
    <3>1. /\ \A g \in m.got : /\ bnd[FunctionLabel(g)] \in 0 .. Len(bin2)
                              /\ m.entries[g] = Offset(bin2, bnd[FunctionLabel(g)])
          /\ \A g \in m.ils : /\ bnd[ImportLabel(g)] \in 0 .. Len(bin2) - 2
                              /\ m.imports[g].offset = Offset(bin2, bnd[ImportLabel(g)])
      BY <2>3, <2>5, <2>6, <2>10, SMTT(30)
    <3> QED
      BY <2>3, <2>7, <2>9, <2>10, <3>1, ZenonT(40) DEF Assembled
  <2>12. DOMAIN bin = 1 .. Len(bin)
    BY <2>1, SMTT(30)
  <2> QED
    BY <2>3, <2>8, <2>11, <2>12 DEF s, Fills

<1>Links.
      ASSUME NEW m, Imported(m), m.ils \subseteq Nat, NEW bnd, NEW bin, Assembled(m, bnd, bin),
             NEW links, SlotsLinked(m, bnd, bin, links),
             NEW link \in LinkNames, NEW addr \in Addresses,
             NEW bin2, bin2 = link_import(bin, m.imports, link, addr),
             NEW links2, links2 = LinksAfter(m, links, link, addr)
      PROVE  /\ Assembled(m, bnd, bin2)
             /\ SlotsLinked(m, bnd, bin2, links2)
             /\ \A k \in DOMAIN bin : bin2[k] # bin[k] => \E f \in m.ils : k = SlotOf(bnd, f)
  <2> USE <1>Links
  <2>1. /\ link \in [module: STRING, name: STRING] /\ addr \in Nat
        /\ link = [module |-> link.module, name |-> link.name]
    BY CompilerAssumption, Zenon
  <2>2. DOMAIN m.imports = m.ils
    BY DEF Imported
  <2>3. ASSUME NEW f \in m.ils
        PROVE  f \in Matching(m.imports, link) <=>
                 NameOf(m.imports[f]) = link /\ link.name # NoName
    BY <2>1, <2>2, SMTT(30) DEF Matching, names_equal, NameOf
  <2>4. \A f \in m.ils : NameOf(m.imports[f]) = link => links2 = Insert(links, link, addr)
    BY DEF LinksAfter
  <2>5. ASSUME NEW name, name \in DOMAIN links
        PROVE  name \in DOMAIN links2 /\ (name # link => links2[name] = links[name])
    BY <2>5 DEF Insert, LinksAfter
  <2>6. ASSUME NEW name, name \in DOMAIN links2, name # link
        PROVE  name \in DOMAIN links
    BY <2>6, SMTT(30) DEF Insert, LinksAfter
  <2>7. ASSUME NEW f \in m.ils, bin2[SlotOf(bnd, f)] = bin[SlotOf(bnd, f)],
               ~(Matching(m.imports, link) = {f})
        PROVE  LET name == NameOf(m.imports[f])
                   slot == bin2[SlotOf(bnd, f)]
               IN /\ name \notin DOMAIN links2 \/ name.name = NoName => slot = Qword(Unlinked)
                  /\ name \in DOMAIN links2 /\ Matching(m.imports, name) = {f} =>
                       slot = Qword(links2[name])
    <3> DEFINE name == NameOf(m.imports[f])
               slot == bin2[SlotOf(bnd, f)]
    <3>1. /\ name \notin DOMAIN links \/ name.name = NoName => slot = Qword(Unlinked)
          /\ name \in DOMAIN links /\ Matching(m.imports, name) = {f} => slot = Qword(links[name])
      BY <2>7, ZenonT(40) DEF SlotsLinked
    <3>2. Matching(m.imports, name) = {f} => name # link
      BY <2>7, ZenonT(40)
    <3> HIDE DEF name, slot
    <3>3. name \notin DOMAIN links2 \/ name.name = NoName => slot = Qword(Unlinked)
      BY <2>5, <3>1, ZenonT(40)
    <3>4. name \in DOMAIN links2 /\ Matching(m.imports, name) = {f} => slot = Qword(links2[name])
      BY <2>5, <2>6, <3>1, <3>2, Zenon
    <3> QED
      BY <3>3, <3>4, ZenonT(40) DEF name, slot
  <2>8. CASE Matching(m.imports, link) = {}
    <3>1. bin2 = bin
      BY <2>8, SMTT(30) DEF link_import
    <3>2. SlotsLinked(m, bnd, bin2, links2)
      BY <2>7, <2>8, <3>1, ZenonT(40) DEF SlotsLinked
    <3> QED
      BY <3>1, <3>2, SMTT(30)
  <2>9. CASE Matching(m.imports, link) # {}
    <3> DEFINE f == Smallest(Matching(m.imports, link))
    <3>1. f \in Matching(m.imports, link)
      <4>1. Matching(m.imports, link) \subseteq Nat
        BY <2>2 DEF Matching
      <4>2. \E x \in Matching(m.imports, link) : \A y \in Matching(m.imports, link) : x <= y
        BY <2>9, <4>1, <1>Least, SMTT(30)
      <4> QED
        BY <4>2, ZenonT(40) DEF Smallest
    <3>2. f \in m.ils
      BY <2>2, <3>1, ZenonT(40) DEF Matching
    <3>3. bin2 = [bin EXCEPT ![InstructionAt(bin, m.imports[f].offset)] = Qword(addr)]
      BY <2>9 DEF link_import
    <3> HIDE DEF f
    <3>4. bin2 = Patched(bin, SlotOf(bnd, f), Qword(addr))
      <4>1. InstructionAt(bin, m.imports[f].offset) = SlotOf(bnd, f)
        BY <3>2, <1>SlotFound, SMTT(30)
      <4> QED
        BY <3>3, <4>1, SMTT(30) DEF Patched
    <3>5. /\ Assembled(m, bnd, bin2)
          /\ bin2[SlotOf(bnd, f)] = Qword(addr)
          /\ \A k \in DOMAIN bin : k # SlotOf(bnd, f) => bin2[k] = bin[k]
          /\ \A g \in m.ils : g # f => bin2[SlotOf(bnd, g)] = bin[SlotOf(bnd, g)]
      <4>1. addr \in Nat
        BY <2>1, SMTT(30)
      <4>2. Assembled(m, bnd, bin2) /\ Fills(m, bnd, bin, bin2, f, addr)
        BY <3>2, <3>4, <4>1, <1>SlotWritten, ZenonT(40)
      <4> QED
        BY <4>2, ZenonT(40) DEF Fills
    <3>6. NameOf(m.imports[f]) = link /\ link.name # NoName /\ links2 = Insert(links, link, addr)
      BY <2>3, <2>4, <3>1, <3>2, Zenon
    <3>7. link \in DOMAIN links2 /\ links2[link] = addr
      BY <3>6, SMTT(30) DEF Insert
    <3>8. ASSUME NEW g \in m.ils
          PROVE  LET name == NameOf(m.imports[g])
                     slot == bin2[SlotOf(bnd, g)]
                 IN /\ name \notin DOMAIN links2 \/ name.name = NoName => slot = Qword(Unlinked)
                    /\ name \in DOMAIN links2 /\ Matching(m.imports, name) = {g} =>
                         slot = Qword(links2[name])
      <4>1. CASE g = f
        BY <3>5, <3>6, <3>7, <4>1, SMTT(30)
      <4>2. CASE g # f
        BY <2>7, <3>1, <3>5, <4>2, ZenonT(40)
      <4> QED
        BY <4>1, <4>2, ZenonT(40)
    <3>9. SlotsLinked(m, bnd, bin2, links2)
      BY <3>8, Zenon DEF SlotsLinked
    <3> QED
      BY <3>2, <3>5, <3>9, ZenonT(40)
  <2> QED
    BY <2>8, <2>9, ZenonT(40)

<1>1. \A module, left, m, m2, bnd, bin :
        /\ Stage("bind", module, left, m)
        /\ m2 = [m EXCEPT !.entries = BoundCode(m).entries]
        /\ bnd = BoundCode(m).bound /\ bin = BoundCode(m).code
        => Assembled(m2, bnd, bin) /\ SlotsLinked(m2, bnd, bin, <<>>)
  BY <1>Assembles
<1>2. \A m, bnd, bin, links, bin2, links2 : \A link \in LinkNames, addr \in Addresses :
        /\ Imported(m) /\ m.ils \subseteq Nat
        /\ Assembled(m, bnd, bin) /\ SlotsLinked(m, bnd, bin, links)
        /\ bin2 = link_import(bin, m.imports, link, addr)
        /\ links2 = LinksAfter(m, links, link, addr)
        => /\ Assembled(m, bnd, bin2)
           /\ SlotsLinked(m, bnd, bin2, links2)
           /\ \A k \in DOMAIN bin : bin2[k] # bin[k] => \E f \in m.ils : k = SlotOf(bnd, f)
  BY <1>Links
<1> QED
  BY <1>ByteOffsetsHold, <1>1, <1>2, Zenon

-----------------------------------------------------------------------------
(* The operators of a body. *)
GenStep(env, acc, op) == GenOperator(env.ctx, env.slots, env.sig, acc, op)

GenInv(env, k, acc) ==
  /\ DOMAIN acc = {"status", "code", "stack", "height", "open"}
  /\ acc.status = "ok" => acc.code \in Seq(Instr(env.ctx.got, env.ctx.ils))

OperatorsFold == INSTANCE FoldInduction WITH Op <- GenStep, P <- GenInv

(* The slots of parameters and of declared locals. *)
ParamStep(env, acc, ty) == AddParam(acc, ty)

LocalStep(env, acc, d) == AddLocals(acc, d)

Layout(acc) == acc.slots \in Seq(Nat) /\ acc.size \in Nat

ParamInv(env, k, acc) == Layout(acc) /\ Len(acc.slots) = k /\ acc.size <= 16 * k

(* The slots of the locals, of which types are g after each run. *)
TypesStep(env, acc, d) == acc \o [i \in 1 .. d.count |-> d.ty]

LocalFields == {"slots", "size", "room", "status"}

(* What a run of locals adds to the layout. *)
RunAdded(acc, d, next) ==
  LET end   == acc.size + encoding_size(d.ty) * d.count
      added == [i \in 1 .. d.count |-> acc.size + encoding_size(d.ty) * (i - 1)]
  IN /\ DOMAIN next = LocalFields
     /\ \/ acc.status # "ok" /\ next = acc
        \/ /\ acc.status = "ok" /\ (d.ty \notin Sized \/ end >= U32End)
           /\ next.status = "panic"
        \/ acc.status = "ok" /\ next.status = "err"
        \/ /\ acc.status = "ok" /\ d.ty \in Sized /\ ~(end >= U32End) /\ ~(d.count > acc.room)
           /\ next.status = "ok" /\ next.size = end /\ next.room = acc.room - d.count
           /\ next.slots = acc.slots \o added

LocalInv(env, k, acc) ==
  /\ DOMAIN acc = LocalFields
  /\ acc.status = "ok" =>
       Layout(acc) /\ env.g[k] \in Seq(ValType) /\ Len(acc.slots) = env.n + Len(env.g[k])

(* The frame stays below what the locals that the validator admits need,   *)
(* so that one more run of them does not overflow.                         *)
RoomInv(env, k, acc) ==
  /\ DOMAIN acc = LocalFields
  /\ acc.status \in {"ok", "err"}
  /\ acc.status = "ok" =>
       /\ acc.size \in Nat /\ acc.room \in Int /\ acc.room >= -6
       /\ acc.size + 16 * acc.room <= 16 * MaxLocals

ParamFold == INSTANCE FoldInduction WITH Op <- ParamStep, P <- ParamInv

LocalFold == INSTANCE FoldInduction WITH Op <- LocalStep, P <- LocalInv

RoomFold == INSTANCE FoldInduction WITH Op <- LocalStep, P <- RoomInv

TypesFold == INSTANCE FoldInduction WITH Op <- TypesStep, P <- LocalInv

SafeInv(env, k, acc) ==
  DOMAIN acc = {"status", "code", "stack", "height", "open"} /\ acc.status \in {"ok", "err"}

SafeFold == INSTANCE FoldInduction WITH Op <- GenStep, P <- SafeInv

(* The code of a function (mod.rs:309-432, instructions.rs:14-129): its    *)
(* labels are those of functions and imports that compile knows, its last  *)
(* instruction is RET.  And no todo!(), unwrap, drain or overflow panics   *)
(* for a function of a supported type with a supported body, when the two  *)
(* lookups of a type find the declared one, of the function and of those   *)
(* that it calls (BodyTypesFound).                                         *)
THEOREM FunctionCode ==
  ASSUME Inductive
  PROVE  \A ctx, f, readable, declared, body :
           ContextOK(ctx) /\ declared \in Seq(LocalRun) /\ body \in Seq(WasmOperator) =>
             LET gen == GenFunction(ctx, f, readable, declared, body)
             IN /\ gen.status = "ok" =>
                     /\ gen.code \in Seq(Instr(ctx.got, ctx.ils))
                     /\ Len(gen.code) > 0 /\ gen.code[Len(gen.code)] = Ret
                /\ /\ BodyTypesFound(ctx, f, body) /\ TypesSupported(ctx) /\ f \in DOMAIN ctx.types
                   /\ \A d \in Range(declared) : d.ty \in Sized /\ d.count <= MaxLocals
                   /\ \A op \in Range(body) : op.name \notin Unsupported
                   => gen.status # "panic"
<1>RegOperand.
      ASSUME NEW got, NEW ils, NEW r \in AllRegisters
      PROVE  Reg(r) \in Operand(got, ils)
  BY DEF Reg, Operand, AllRegisters, OperandNames, RegisterNames

<1>ImmOperand.
      ASSUME NEW got, NEW ils, NEW n \in Int
      PROVE  Imm(n) \in Operand(got, ils)
  BY DEF Imm, Operand, OperandNames

<1>SlotOperand.
      ASSUME NEW got, NEW ils, NEW n \in Int
      PROVE  Slot(n) \in Operand(got, ils)
  BY DEF Slot, Operand, OperandNames

<1>NoneOperand.
      ASSUME NEW got, NEW ils
      PROVE  None \in Operand(got, ils)
  BY DEF None, Operand, OperandNames

<1>LabelOperand.
      ASSUME NEW got, NEW ils, NEW f \in Int
      PROVE  /\ f \in got => FunctionLabel(f) \in Operand(got, ils)
             /\ f \in ils => ImportLabel(f) \in Operand(got, ils)
  BY DEF FunctionLabel, ImportLabel, Operand, OperandNames

<1>InsInstr.
      ASSUME NEW got, NEW ils, NEW code \in Codes,
             NEW op0 \in Operand(got, ils), NEW op1 \in Operand(got, ils)
      PROVE  Ins(code, op0, op1) \in Instr(got, ils)
  BY DEF Ins, Instr

(* The instructions of the code generator. *)
<1>RegisterInstr.
      ASSUME NEW got, NEW ils, NEW r \in AllRegisters, NEW q \in AllRegisters
      PROVE  /\ Push(r) \in Instr(got, ils)
             /\ Pop(r) \in Instr(got, ils)
             /\ MovReg(r, q) \in Instr(got, ils)
             /\ Ins("Pop_r32", Reg(r), None) \in Instr(got, ils)
             /\ Ins("Push_r32", Reg(r), None) \in Instr(got, ils)
             /\ Ins("Call_rm64", Reg(r), None) \in Instr(got, ils)
             /\ \A code \in AllCodes : Ins(code, Reg(r), Reg(q)) \in Instr(got, ils)
  <2>1. Reg(r) \in Operand(got, ils) /\ Reg(q) \in Operand(got, ils) /\ None \in Operand(got, ils)
    BY <1>RegOperand, <1>NoneOperand
  <2>2. {"Push_r64", "Pop_r64", "Mov_rm64_r64", "Pop_r32", "Push_r32", "Call_rm64"} \subseteq Codes
    BY DEF Codes, AllCodes
  <2>3. AllCodes \subseteq Codes
    BY DEF Codes
  <2> QED
    BY <2>1, <2>2, <2>3, <1>InsInstr DEF Push, Pop, MovReg

<1>OtherInstr.
      ASSUME NEW got, NEW ils, NEW r \in AllRegisters, NEW n \in Int
      PROVE  /\ Store(Slot(n), r) \in Instr(got, ils)
             /\ Load(r, Slot(n)) \in Instr(got, ils)
             /\ MovImm(r, n) \in Instr(got, ils)
             /\ Ret \in Instr(got, ils)
             /\ Qword(n) \in Instr(got, ils)
             /\ ZeroBytes \in Instr(got, ils)
             /\ Ins("Nopd", None, None) \in Instr(got, ils)
             /\ Ins("Sub_rm64_imm32", Reg(r), Imm(n)) \in Instr(got, ils)
             /\ Ins("Add_rm64_imm32", Reg(r), Imm(n)) \in Instr(got, ils)
  <2>1. /\ Reg(r) \in Operand(got, ils)
        /\ Slot(n) \in Operand(got, ils)
        /\ Imm(n) \in Operand(got, ils)
        /\ None \in Operand(got, ils)
    BY <1>RegOperand, <1>NoneOperand, <1>SlotOperand, <1>ImmOperand
  <2>2. {"Mov_rm64_r64", "Mov_r64_rm64", "Mov_r64_imm64", "Retnq", "DeclareQword", "Zero_bytes",
         "Nopd", "Sub_rm64_imm32", "Add_rm64_imm32"} \subseteq Codes
    BY DEF Codes, AllCodes
  <2> QED
    BY <2>1, <2>2, <1>InsInstr DEF Store, Load, MovImm, Ret, Qword, ZeroBytes

<1>CallInstr.
      ASSUME NEW got, NEW ils, NEW f \in Int
      PROVE  /\ f \in got => Ins("Call_rel32_64", FunctionLabel(f), None) \in Instr(got, ils)
             /\ f \in ils => Load("r10", ImportLabel(f)) \in Instr(got, ils)
  <2>1. None \in Operand(got, ils) /\ Reg("r10") \in Operand(got, ils)
    BY <1>NoneOperand, <1>RegOperand DEF AllRegisters, RegisterNames
  <2>2. {"Call_rel32_64", "Mov_r64_rm64"} \subseteq Codes
    BY DEF Codes, AllCodes
  <2> QED
    BY <2>1, <2>2, <1>LabelOperand, <1>InsInstr DEF Load

(* Short sequences of instructions. *)
<1>Sequences14.
      ASSUME NEW S, NEW a \in S, NEW b \in S, NEW d \in S, NEW e \in S
      PROVE  /\ <<>> \in Seq(S)
             /\ <<a>> \in Seq(S)
             /\ <<a, b>> \in Seq(S)
             /\ <<a, b, d>> \in Seq(S)
             /\ <<a, b, d, e>> \in Seq(S)
  OBVIOUS

<1>Sequences2.
      ASSUME NEW S, NEW a \in S, NEW b \in S
      PROVE  <<a, b>> \in Seq(S) /\ Emit(<<a, b>>).code = <<a, b>>
  BY DEF Emit

<1>IntegerOrderRegisters.
      /\ Len(IntegerOrder) = 6
      /\ \A i \in 1 .. 6 : IntegerOrder[i] \in AllRegisters
      /\ Len(ReturnOrder) = 2
      /\ \A i \in 1 .. 2 : ReturnOrder[i] \in AllRegisters
  BY DEF IntegerOrder, ReturnOrder, AllRegisters, RegisterNames

<1>ArgumentPopsCode.
      ASSUME NEW got, NEW ils, NEW n \in 0 .. 6
      PROVE  ArgumentPops(n) \in Seq(Instr(got, ils))
  <2>1. ASSUME NEW i \in 1 .. n
        PROVE  Pop(IntegerOrder[n + 1 - i]) \in Instr(got, ils)
    <3>1. n + 1 - i \in 1 .. 6
      OBVIOUS
    <3> QED
      BY <3>1, <1>IntegerOrderRegisters, <1>RegisterInstr
  <2>2. ArgumentPops(n) \in [1 .. n -> Instr(got, ils)]
    BY <2>1 DEF ArgumentPops
  <2> QED
    BY <2>2, GeneratedSeq, SMTT(30)

(* FirstN(ReturnOrder, n) are registers. *)
<1>ResultRegisters.
      ASSUME NEW n \in Nat
      PROVE  LET results == FirstN(ReturnOrder, n)
             IN /\ \E k \in 0 .. 2 : DOMAIN results = 1 .. k
                /\ \A i \in DOMAIN results : results[i] \in AllRegisters
  <2> DEFINE k == IF n < 2 THEN n ELSE 2
  <2>1. FirstN(ReturnOrder, n) = SubSeq(ReturnOrder, 1, k)
    BY <1>IntegerOrderRegisters DEF FirstN
  <2>2. k \in 0 .. 2
    OBVIOUS
  <2>3. ReturnOrder \in Seq(AllRegisters)
    BY DEF ReturnOrder, AllRegisters, RegisterNames
  <2> HIDE DEF k
  <2>4. SubSeq(ReturnOrder, 1, k) \in Seq(AllRegisters) /\ Len(SubSeq(ReturnOrder, 1, k)) = k
    BY <2>2, <2>3, <1>IntegerOrderRegisters
  <2>5. DOMAIN SubSeq(ReturnOrder, 1, k) = 1 .. k
    BY <2>2, <2>4
  <2> QED
    BY <2>1, <2>2, <2>4, <2>5

<1>ResultsCode.
      ASSUME NEW got, NEW ils, NEW n \in Nat
      PROVE  LET results == FirstN(ReturnOrder, n)
             IN /\ [i \in DOMAIN results |-> Push(results[i])] \in Seq(Instr(got, ils))
                /\ [i \in DOMAIN results |-> Pop(results[i])] \in Seq(Instr(got, ils))
  <2> DEFINE results == FirstN(ReturnOrder, n)
  <2>1. PICK k \in 0 .. 2 : DOMAIN results = 1 .. k
    BY <1>ResultRegisters
  <2>2. \A i \in 1 .. k : results[i] \in AllRegisters
    BY <2>1, <1>ResultRegisters
  <2> HIDE DEF results
  <2>3. \A i \in 1 .. k : Push(results[i]) \in Instr(got, ils) /\ Pop(results[i]) \in Instr(got, ils)
    BY <2>2, <1>RegisterInstr
  <2>4. /\ [i \in DOMAIN results |-> Push(results[i])] \in [1 .. k -> Instr(got, ils)]
        /\ [i \in DOMAIN results |-> Pop(results[i])] \in [1 .. k -> Instr(got, ils)]
    BY <2>1, <2>3
  <2>5. k \in Nat
    OBVIOUS
  <2>6. /\ [i \in DOMAIN results |-> Push(results[i])] \in Seq(Instr(got, ils))
        /\ [i \in DOMAIN results |-> Pop(results[i])] \in Seq(Instr(got, ils))
    BY <2>4, <2>5, GeneratedSeq
  <2> QED
    BY <2>6 DEF results

<1>LookupIsType.
      ASSUME NEW ctx, ContextOK(ctx), NEW f, HasLookup(ctx, f)
      PROVE  LookupType(ctx, f) \in FuncType
  BY <1>LookupIsType DEF ContextOK, HasLookup, LookupType

<1>GenCallCode.
      ASSUME NEW ctx, ContextOK(ctx), NEW f \in Int, GenCall(ctx, f).status = "ok"
      PROVE  GenCall(ctx, f).code \in Seq(Instr(ctx.got, ctx.ils))
  <2> USE <1>GenCallCode
  <2> DEFINE S == Instr(ctx.got, ctx.ils)
             type == LookupType(ctx, f)
             n == Len(type.params)
             call == IF f \in ctx.got
                     THEN <<Ins("Call_rel32_64", FunctionLabel(f), None)>>
                     ELSE IF f \in ctx.ils
                     THEN <<Load("r10", ImportLabel(f)), Ins("Call_rm64", Reg("r10"), None)>>
                     ELSE <<>>
             results == FirstN(ReturnOrder, Len(type.returns))
             pushes == [i \in DOMAIN results |-> Push(results[i])]
             legal == HasLookup(ctx, f) /\ n <= Len(IntegerOrder)
                        /\ Range(type.params) \cup Range(type.returns) \subseteq Integer
  <2>1. GenCall(ctx, f) = IF legal THEN Emit(ArgumentPops(n) \o call \o pushes) ELSE Panic
    BY DEF GenCall
  <2>2. legal
    <3> SUFFICES ASSUME ~legal PROVE FALSE
      OBVIOUS
    <3> HIDE DEF legal
    <3>1. GenCall(ctx, f) = Panic
      BY <2>1
    <3> QED
      BY <3>1 DEF Panic
  <2>3. GenCall(ctx, f).code = ArgumentPops(n) \o call \o pushes
    <3> HIDE DEF legal, call, pushes
    <3> QED
      BY <2>1, <2>2 DEF Emit
  <2>4. type \in FuncType
    BY <2>2, <1>LookupIsType
  <2>5. n \in 0 .. 6 /\ Len(type.returns) \in Nat
    <3>1. type.params \in Seq(ValType) /\ type.returns \in Seq(ValType)
      BY <2>4 DEF FuncType
    <3>2. n \in Nat /\ Len(type.returns) \in Nat
      BY <3>1
    <3>3. n <= 6
      BY <2>2, <1>IntegerOrderRegisters
    <3> HIDE DEF n
    <3> QED
      BY <3>2, <3>3
  <2>6. ArgumentPops(n) \in Seq(S)
    BY <2>5, <1>ArgumentPopsCode, Zenon
  <2>7. pushes \in Seq(S)
    BY <2>5, <1>ResultsCode, ZenonT(40)
  <2>8. call \in Seq(S)
    <3>1. Ins("Call_rm64", Reg("r10"), None) \in S
      BY <1>RegisterInstr, Zenon DEF AllRegisters, RegisterNames
    <3>2. f \in ctx.got => Ins("Call_rel32_64", FunctionLabel(f), None) \in S
      BY <1>CallInstr
    <3>3. f \in ctx.ils => Load("r10", ImportLabel(f)) \in S
      BY <1>CallInstr
    <3> HIDE DEF S
    <3> QED
      BY <3>1, <3>2, <3>3, <1>Sequences14
  <2> HIDE DEF S, call, pushes
  <2>9. ArgumentPops(n) \o call \o pushes \in Seq(S)
    BY <2>6, <2>7, <2>8
  <2> QED
    BY <2>3, <2>9 DEF S

(* What handle_instruction does, one operator after the other. *)
<1>HandleCases.
      ASSUME NEW ctx, NEW slots, NEW op
      PROVE  \/ op.name = "I64Const"
                /\ handle_instruction(ctx, slots, op) = Emit(<<MovImm("rax", op.arg), Push("rax")>>)
             \/ handle_instruction(ctx, slots, op) = Emit(Arithmetic64("Add_rm64_r64"))
             \/ handle_instruction(ctx, slots, op) = Emit(Arithmetic64("Sub_rm64_r64"))
             \/ handle_instruction(ctx, slots, op) = Emit(Arithmetic32("Add_rm32_r32"))
             \/ handle_instruction(ctx, slots, op) = Emit(Arithmetic32("Sub_rm32_r32"))
             \/ op.name = "Call" /\ handle_instruction(ctx, slots, op) = GenCall(ctx, op.arg)
             \/ handle_instruction(ctx, slots, op) = Emit(<<Ins("Nopd", None, None)>>)
             \/ handle_instruction(ctx, slots, op) = Emit(<<>>)
             \/ op.name = "LocalGet" /\ op.arg < Len(slots)
                /\ handle_instruction(ctx, slots, op) =
                     Emit(<<Load("rax", Slot(slots[op.arg + 1])), Push("rax")>>)
             \/ op.name = "LocalSet" /\ op.arg < Len(slots)
                /\ handle_instruction(ctx, slots, op) =
                     Emit(<<Pop("rax"), Store(Slot(slots[op.arg + 1]), "rax")>>)
             \/ /\ handle_instruction(ctx, slots, op) = Panic
                /\ op.name \notin SupportedOperators \ {"LocalGet", "LocalSet"}
                /\ op.name \in {"LocalGet", "LocalSet"} => ~(op.arg < Len(slots))
  BY Zenon DEF handle_instruction, SupportedOperators

<1>EmitFields.
      ASSUME NEW code
      PROVE  /\ Emit(code).status = "ok" /\ Emit(code).code = code
             /\ Panic.status = "panic" /\ Panic.code = <<>>
  BY DEF Emit, Panic

<1>ArithmeticCode.
      ASSUME NEW got, NEW ils
      PROVE  /\ Arithmetic64("Add_rm64_r64") \in Seq(Instr(got, ils))
             /\ Arithmetic64("Sub_rm64_r64") \in Seq(Instr(got, ils))
             /\ Arithmetic32("Add_rm32_r32") \in Seq(Instr(got, ils))
             /\ Arithmetic32("Sub_rm32_r32") \in Seq(Instr(got, ils))
  <2>1. {"rax", "rbx", "eax", "ebx"} \subseteq AllRegisters
    BY DEF AllRegisters, RegisterNames
  <2>2. {"Add_rm64_r64", "Sub_rm64_r64", "Add_rm32_r32", "Sub_rm32_r32"} \subseteq AllCodes
    BY DEF AllCodes
  <2>3. /\ Pop("rax") \in Instr(got, ils) /\ Pop("rbx") \in Instr(got, ils)
        /\ Push("rax") \in Instr(got, ils)
        /\ Ins("Pop_r32", Reg("eax"), None) \in Instr(got, ils)
        /\ Ins("Pop_r32", Reg("ebx"), None) \in Instr(got, ils)
        /\ Ins("Push_r32", Reg("eax"), None) \in Instr(got, ils)
    BY <2>1, <1>RegisterInstr
  <2>4. /\ Ins("Add_rm64_r64", Reg("rax"), Reg("rbx")) \in Instr(got, ils)
        /\ Ins("Sub_rm64_r64", Reg("rax"), Reg("rbx")) \in Instr(got, ils)
        /\ Ins("Add_rm32_r32", Reg("eax"), Reg("ebx")) \in Instr(got, ils)
        /\ Ins("Sub_rm32_r32", Reg("eax"), Reg("ebx")) \in Instr(got, ils)
    BY <2>1, <2>2, <1>RegisterInstr, SMTT(30)
  <2> QED
    BY <2>3, <2>4, <1>Sequences14 DEF Arithmetic64, Arithmetic32

(* The code of one operator. *)
<1>HandleCode.
      ASSUME NEW ctx, ContextOK(ctx), NEW slots \in Seq(Int), NEW op \in WasmOperator,
             handle_instruction(ctx, slots, op).status = "ok"
      PROVE  handle_instruction(ctx, slots, op).code \in Seq(Instr(ctx.got, ctx.ils))
  <2> USE <1>HandleCode
  <2> DEFINE h == handle_instruction(ctx, slots, op)
             S == Instr(ctx.got, ctx.ils)
  <2>1. op.arg \in Int /\ (op.name # "I64Const" => op.arg \in Nat)
    BY DEF WasmOperator
  <2>2. "rax" \in AllRegisters
    BY DEF AllRegisters, RegisterNames
  <2>3. Push("rax") \in S /\ Pop("rax") \in S
    BY <2>2, <1>RegisterInstr
  <2>4. \A i \in Int : /\ Load("rax", Slot(i)) \in S
                       /\ Store(Slot(i), "rax") \in S
                       /\ MovImm("rax", i) \in S
    BY <2>2, <1>OtherInstr, Zenon
  <2>5. Ins("Nopd", None, None) \in S
    <3>1. 0 \in Int
      OBVIOUS
    <3> QED
      BY <2>2, <3>1, <1>OtherInstr, Zenon
  <2>6. op.name # "I64Const" /\ op.arg < Len(slots) => slots[op.arg + 1] \in Int
    BY <2>1
  <2>0. h.status = "ok"
    OBVIOUS
  <2> SUFFICES h.code \in Seq(S)
    OBVIOUS
  <2> HIDE DEF S, h
  <2>7. CASE op.name = "I64Const" /\ h = Emit(<<MovImm("rax", op.arg), Push("rax")>>)
    <3>1. MovImm("rax", op.arg) \in S
      BY <2>1, <2>4, SMTT(30)
    <3> QED
      BY <2>3, <2>7, <3>1, <1>Sequences2, Zenon
  <2>8. CASE \/ h = Emit(Arithmetic64("Add_rm64_r64")) \/ h = Emit(Arithmetic64("Sub_rm64_r64"))
             \/ h = Emit(Arithmetic32("Add_rm32_r32")) \/ h = Emit(Arithmetic32("Sub_rm32_r32"))
    BY <2>8, <1>ArithmeticCode, <1>EmitFields DEF S
  <2>9. CASE op.name = "Call" /\ h = GenCall(ctx, op.arg)
    BY <2>1, <2>9, <1>GenCallCode DEF S, h
  <2>10. CASE h = Emit(<<Ins("Nopd", None, None)>>) \/ h = Emit(<<>>)
    BY <2>5, <2>10, <1>EmitFields, <1>Sequences14, ZenonT(40)
  <2>11. CASE op.name = "LocalGet" /\ op.arg < Len(slots)
              /\ h = Emit(<<Load("rax", Slot(slots[op.arg + 1])), Push("rax")>>)
    <3>1. Load("rax", Slot(slots[op.arg + 1])) \in S
      BY <2>4, <2>6, <2>11
    <3> QED
      BY <2>3, <2>11, <3>1, <1>Sequences2, Zenon
  <2>12. CASE op.name = "LocalSet" /\ op.arg < Len(slots)
              /\ h = Emit(<<Pop("rax"), Store(Slot(slots[op.arg + 1]), "rax")>>)
    <3>1. Store(Slot(slots[op.arg + 1]), "rax") \in S
      BY <2>4, <2>6, <2>12
    <3> QED
      BY <2>3, <2>12, <3>1, <1>Sequences2, Zenon
  <2>13. CASE h = Panic
    BY <2>0, <2>13, <1>EmitFields, SMTT(30)
  <2> QED
    BY <2>7, <2>8, <2>9, <2>10, <2>11, <2>12, <2>13, <1>HandleCases, Zenon DEF h

<1>OperatorsUnfold.
      ASSUME NEW ctx, NEW slots, NEW sig, NEW body
      PROVE  GenOperators(ctx, slots, sig, body) =
               OperatorsFold!Result([ctx |-> ctx, slots |-> slots, sig |-> sig],
                                    [status |-> "ok", code |-> <<>>, stack |-> <<>>, height |-> 0, open |-> TRUE], body)
  BY DEF GenOperators, FoldOnce, OperatorsFold!Result, GenStep

<1>OperatorsCode.
      ASSUME NEW ctx, ContextOK(ctx), NEW slots \in Seq(Int), NEW sig, NEW body \in Seq(WasmOperator),
             GenOperators(ctx, slots, sig, body).status = "ok"
      PROVE  GenOperators(ctx, slots, sig, body).code \in Seq(Instr(ctx.got, ctx.ils))
  <2> USE <1>OperatorsCode
  <2> DEFINE env == [ctx |-> ctx, slots |-> slots, sig |-> sig]
             base == [status |-> "ok", code |-> <<>>, stack |-> <<>>, height |-> 0, open |-> TRUE]
  <2>0. \A T : <<>> \in Seq(T)
    OBVIOUS
  <2>1. GenInv(env, 0, base)
    BY <2>0, Zenon DEF GenInv
  <2>2. ASSUME NEW k \in 1 .. Len(body), NEW acc, GenInv(env, k - 1, acc)
        PROVE  GenInv(env, k, GenStep(env, acc, body[k]))
    <3> DEFINE op == body[k]
               gen == handle_instruction(ctx, slots, op)
               stack == StackAfter(ctx, sig, acc.stack, op)
               more == [status |-> gen.status, code |-> acc.code \o gen.code, stack |-> stack,
                        height |-> Larger(acc.height, Len(stack)), open |-> op.name # "End"]
               next == GenStep(env, acc, op)
    <3>1. op \in WasmOperator
      OBVIOUS
    <3>2. next = IF acc.status # "ok" THEN acc
                 ELSE IF ~acc.open \/ ~Accepts(ctx, sig, acc.stack, op)
                 THEN [acc EXCEPT !.status = "err"]
                 ELSE more
      BY DEF GenStep, GenOperator
    <3>3. gen.status = "ok" => gen.code \in Seq(Instr(ctx.got, ctx.ils))
      BY <3>1, <1>HandleCode
    <3>4. env.ctx = ctx
      OBVIOUS
    <3>5. DOMAIN more = {"status", "code", "stack", "height", "open"} /\ more.status = gen.status
          /\ more.code = acc.code \o gen.code
      BY Zenon
    <3> HIDE DEF env, op, gen, stack, more, next
    <3>6. CASE acc.status # "ok"
      BY <2>2, <3>2, <3>6 DEF GenInv, next, op
    <3>7. CASE acc.status = "ok" /\ next = [acc EXCEPT !.status = "err"]
      <4>1. DOMAIN next = DOMAIN acc
        BY <3>7, Zenon
      <4>2. next.status = "err"
        BY <2>2, <3>7, Zenon DEF GenInv
      <4> QED
        BY <2>2, <4>1, <4>2 DEF GenInv, next, op
    <3>8. CASE acc.status = "ok" /\ next = more
      <4>1. more.status = "ok" => more.code \in Seq(Instr(ctx.got, ctx.ils))
        BY <2>2, <3>3, <3>4, <3>5, <3>8 DEF GenInv
      <4> QED
        BY <3>4, <3>5, <3>8, <4>1, Zenon DEF GenInv, next, op
    <3> QED
      BY <3>2, <3>6, <3>7, <3>8
  <2>3. Len(body) \in Nat
    OBVIOUS
  <2> HIDE DEF env, base
  <2>4. GenInv(env, Len(body), OperatorsFold!Result(env, base, body))
    BY <2>1, <2>2, <2>3, OperatorsFold!FoldInvariant DEF OperatorsFold!Inductive, Inductive
  <2>5. env.ctx = ctx
    BY DEF env
  <2> QED
    BY <2>4, <2>5, <1>OperatorsUnfold, SMTT(30) DEF GenInv, env, base

<1>EncodingSize.
      ASSUME NEW ty \in Sized
      PROVE  encoding_size(ty) \in {4, 8, 16}
  <2>1. encoding_size(ty) = 4 \/ encoding_size(ty) = 8 \/ encoding_size(ty) = 16
    BY Zenon DEF encoding_size, Sized
  <2> QED
    BY <2>1

<1>SeqOfSized.
      ASSUME NEW S, NEW s \in Seq(S), \A i \in 1 .. Len(s) : s[i] \in Sized
      PROVE  s \in Seq(Sized)
  BY <1>SeqOfSized

<1>ParamLayout.
      ASSUME NEW params \in Seq(Sized)
      PROVE  /\ Layout(ParamSlots(params)) /\ Len(ParamSlots(params).slots) = Len(params)
             /\ ParamSlots(params).size <= 16 * Len(params)
  <2> DEFINE base == [slots |-> <<>>, size |-> 0]
  <2>1. ParamSlots(params) = ParamFold!Result(0, base, params)
    BY DEF ParamSlots, FoldOnce, ParamFold!Result, ParamStep
  <2>2. ParamInv(0, 0, base)
    BY DEF ParamInv, Layout
  <2>3. ASSUME NEW k \in 1 .. Len(params), NEW acc, ParamInv(0, k - 1, acc)
        PROVE  ParamInv(0, k, ParamStep(0, acc, params[k]))
    <3> DEFINE sz == encoding_size(params[k])
    <3>1. sz \in Nat /\ sz <= 16
      BY <1>EncodingSize
    <3>2. ParamStep(0, acc, params[k]) = [slots |-> Append(acc.slots, acc.size + sz), size |-> acc.size + sz]
      BY DEF ParamStep, AddParam
    <3> HIDE DEF sz
    <3>3. acc.slots \in Seq(Nat) /\ acc.size \in Nat /\ Len(acc.slots) = k - 1
          /\ acc.size <= 16 * (k - 1)
      BY <2>3 DEF ParamInv, Layout
    <3>4. Append(acc.slots, acc.size + sz) \in Seq(Nat) /\ Len(Append(acc.slots, acc.size + sz)) = k
      BY <3>1, <3>3
    <3> DEFINE longer == Append(acc.slots, acc.size + sz)
    <3>5. acc.size + sz \in Nat /\ acc.size + sz <= 16 * k
      BY <3>1, <3>3
    <3> HIDE DEF longer
    <3>6. LET r == [slots |-> longer, size |-> acc.size + sz]
          IN r.slots = longer /\ r.size = acc.size + sz
      OBVIOUS
    <3> QED
      BY <3>2, <3>4, <3>5, <3>6, Zenon DEF ParamInv, Layout, longer
  <2>4. Len(params) \in Nat
    OBVIOUS
  <2> HIDE DEF base
  <2>5. ParamInv(0, Len(params), ParamFold!Result(0, base, params))
    BY <2>2, <2>3, <2>4, ParamFold!FoldInvariant DEF ParamFold!Inductive, Inductive
  <2> QED
    BY <2>1, <2>5 DEF ParamInv

<1>LocalCases.
      ASSUME NEW acc, NEW d, DOMAIN acc = LocalFields
      PROVE  RunAdded(acc, d, AddLocals(acc, d))
  <2> USE <1>LocalCases
  <2> DEFINE sz    == encoding_size(d.ty)
             next  == AddLocals(acc, d)
             end   == acc.size + sz * d.count
             added == [i \in 1 .. d.count |-> acc.size + sz * (i - 1)]
             more  == [slots |-> acc.slots \o added, size |-> end, room |-> acc.room - d.count, status |-> "ok"]
             failed(status) == [acc EXCEPT !.status = status]
  <2>1. next = IF acc.status # "ok" THEN acc
               ELSE IF d.ty \notin Sized \/ end >= U32End THEN failed("panic")
               ELSE IF d.count > acc.room THEN failed("err") ELSE more
    BY Zenon DEF AddLocals
  <2>2. \A status : DOMAIN failed(status) = LocalFields /\ failed(status).status = status
    BY Zenon DEF LocalFields
  <2>3. /\ DOMAIN more = LocalFields /\ more.status = "ok" /\ more.size = end
        /\ more.room = acc.room - d.count /\ more.slots = acc.slots \o added
    BY Zenon DEF LocalFields
  <2> HIDE DEF next, end, added, more, failed, sz
  <2> SUFFICES /\ DOMAIN next = LocalFields
               /\ \/ acc.status # "ok" /\ next = acc
                  \/ /\ acc.status = "ok" /\ (d.ty \notin Sized \/ end >= U32End)
                     /\ next.status = "panic"
                  \/ acc.status = "ok" /\ next.status = "err"
                  \/ /\ acc.status = "ok" /\ d.ty \in Sized /\ ~(end >= U32End) /\ ~(d.count > acc.room)
                     /\ next.status = "ok" /\ next.size = end /\ next.room = acc.room - d.count
                     /\ next.slots = acc.slots \o added
    BY Zenon DEF RunAdded, next, end, added, sz
  <2>4. CASE acc.status # "ok"
    BY <2>1, <2>4, Zenon
  <2>5. CASE acc.status = "ok" /\ (d.ty \notin Sized \/ end >= U32End)
    BY <2>1, <2>2, <2>5, Zenon
  <2>6. CASE acc.status = "ok" /\ ~(d.ty \notin Sized \/ end >= U32End) /\ d.count > acc.room
    BY <2>1, <2>2, <2>6, Zenon
  <2>7. CASE acc.status = "ok" /\ ~(d.ty \notin Sized \/ end >= U32End) /\ ~(d.count > acc.room)
    BY <2>1, <2>3, <2>7, Zenon
  <2> QED
    BY <2>4, <2>5, <2>6, <2>7, Zenon

(* There is one slot for every parameter and every declared local. *)
<1>LocalLayout.
      ASSUME NEW params \in Seq(Sized), NEW declared \in Seq(LocalRun), NEW room,
             LocalSlots(params, declared, room).status = "ok"
      PROVE  LET layout == LocalSlots(params, declared, room)
             IN /\ Layout(layout)
                /\ DeclaredLocals(declared) \in Seq(ValType)
                /\ Len(layout.slots) = Len(params) + Len(DeclaredLocals(declared))
  <2> USE <1>LocalLayout
  <2>1. Len(declared) \in Nat
    OBVIOUS
  <2>2. PICK g : /\ TypesFold!Steps(g, 0, <<>>, declared, Len(declared))
                 /\ TypesFold!Result(0, <<>>, declared) = g[Len(declared)]
    BY <2>1, TypesFold!Unfold, SMTT(30) DEF TypesFold!Inductive, Inductive
  <2>3. DeclaredLocals(declared) = g[Len(declared)]
    BY <2>2, Zenon DEF DeclaredLocals, FoldOnce, TypesFold!Result, TypesStep
  <2> DEFINE front == ParamSlots(params)
             base == [slots |-> front.slots, size |-> front.size, room |-> room, status |-> "ok"]
             env == [n |-> Len(params), g |-> g]
  <2>0. env.n = Len(params) /\ env.g = g
    OBVIOUS
  <2>4. LocalSlots(params, declared, room) = LocalFold!Result(env, base, declared)
    BY DEF LocalSlots, FoldOnce, LocalFold!Result, LocalStep
  <2>5. LocalInv(env, 0, base)
    <3>1. g[0] = <<>>
      BY <2>2 DEF TypesFold!Steps
    <3>2. <<>> \in Seq(ValType) /\ Len(params) \in Nat /\ Len(<<>>) = 0
      OBVIOUS
    <3>3. DOMAIN base = LocalFields /\ base.slots = front.slots /\ base.size = front.size
      BY Zenon DEF LocalFields
    <3>4. Layout(front) /\ Len(front.slots) = Len(params)
      BY <1>ParamLayout, Zenon
    <3> HIDE DEF base, env, front
    <3>5. Len(base.slots) = env.n + Len(env.g[0]) /\ env.g[0] \in Seq(ValType)
      BY <2>0, <3>1, <3>2, <3>3, <3>4
    <3> QED
      BY <3>3, <3>4, <3>5, Zenon DEF LocalInv, Layout
  <2>6. ASSUME NEW k \in 1 .. Len(declared), NEW acc, LocalInv(env, k - 1, acc)
        PROVE  LocalInv(env, k, LocalStep(env, acc, declared[k]))
    <3> DEFINE next == AddLocals(acc, declared[k])
    <3>1. next = LocalStep(env, acc, declared[k])
      BY DEF LocalStep
    <3>0. DOMAIN acc = LocalFields
      BY <2>6, Zenon DEF LocalInv
    <3> DEFINE sz == encoding_size(declared[k].ty)
               count == declared[k].count
               end == acc.size + sz * count
               added == [i \in 1 .. count |-> acc.size + sz * (i - 1)]
               types == [i \in 1 .. count |-> declared[k].ty]
    <3>2. /\ DOMAIN next = LocalFields
          /\ \/ acc.status # "ok" /\ next = acc
             \/ /\ acc.status = "ok" /\ (declared[k].ty \notin Sized \/ end >= U32End)
                /\ next.status = "panic"
             \/ acc.status = "ok" /\ next.status = "err"
             \/ /\ acc.status = "ok" /\ declared[k].ty \in Sized /\ ~(end >= U32End) /\ ~(count > acc.room)
                /\ next.status = "ok" /\ next.size = end /\ next.room = acc.room - count
                /\ next.slots = acc.slots \o added
      <4>1. RunAdded(acc, declared[k], next)
        BY <3>0, <1>LocalCases, Zenon
      <4> HIDE DEF next
      <4> QED
        BY <4>1, Zenon DEF RunAdded
    <3> HIDE DEF next, end, sz, count, added, types
    <3> SUFFICES ASSUME next.status = "ok"
                 PROVE  /\ Layout(next) /\ env.g[k] \in Seq(ValType)
                        /\ Len(next.slots) = env.n + Len(env.g[k])
      BY <3>1, <3>2, Zenon DEF LocalInv
    <3>3. /\ acc.status = "ok" /\ declared[k].ty \in Sized
          /\ next.size = acc.size + sz * count /\ next.slots = acc.slots \o added
      BY <3>2 DEF end
    <3>4. sz \in Nat
      BY <3>3, <1>EncodingSize DEF sz
    <3>5. count \in Nat /\ declared[k].ty \in ValType
      <4>1. declared[k] \in LocalRun
        OBVIOUS
      <4> QED
        BY <4>1 DEF LocalRun, count
    <3>6. g[k] = g[k - 1] \o types
      BY <2>2, Zenon DEF TypesFold!Steps, TypesStep, types, count
    <3>7. types \in Seq(ValType) /\ Len(types) = count
      <4>1. types \in [1 .. count -> ValType]
        BY <3>5, Zenon DEF types
      <4> QED
        BY <3>5, <4>1, GeneratedSeq, Zenon
    <3>8. /\ acc.slots \in Seq(Nat) /\ acc.size \in Nat
          /\ g[k - 1] \in Seq(ValType) /\ Len(acc.slots) = Len(params) + Len(g[k - 1])
      BY <2>0, <2>6, <3>3, Zenon DEF LocalInv, Layout
    <3> HIDE DEF env
    <3>9. \A a, b \in Nat : a * b \in Nat /\ a + b \in Nat
      OBVIOUS
    <3>10. next.size \in Nat
      BY <3>3, <3>4, <3>5, <3>8, <3>9, Zenon
    <3>11. ASSUME NEW i \in 1 .. count
           PROVE  acc.size + sz * (i - 1) \in Nat
      <4>1. i - 1 \in Nat
        BY <3>5
      <4> QED
        BY <3>4, <3>8, <3>9, <4>1, Zenon
    <3>12. added \in Seq(Nat) /\ Len(added) = count
      <4>1. added \in [1 .. count -> Nat]
        BY <3>11, Zenon DEF added
      <4> QED
        BY <3>5, <4>1, GeneratedSeq, Zenon
    <3>13. /\ next.slots \in Seq(Nat) /\ g[k - 1] \o types \in Seq(ValType)
           /\ Len(next.slots) = Len(params) + Len(g[k - 1] \o types)
      <4>1. \A S : \A s, u \in Seq(S) : s \o u \in Seq(S) /\ Len(s \o u) = Len(s) + Len(u)
        OBVIOUS
      <4>2. Len(g[k - 1]) \in Nat /\ Len(params) \in Nat
        BY <3>8
      <4>6. acc.slots \o added \in Seq(Nat) /\ Len(acc.slots \o added) = Len(acc.slots) + count
        BY <3>8, <3>12, <4>1, Zenon
      <4>3. next.slots \in Seq(Nat) /\ Len(next.slots) = Len(acc.slots) + count
        BY <3>3, <4>6, Zenon
      <4>4. /\ g[k - 1] \o types \in Seq(ValType)
            /\ Len(g[k - 1] \o types) = Len(g[k - 1]) + count
        BY <3>7, <3>8, <4>1, Zenon
      <4>5. Len(acc.slots) = Len(params) + Len(g[k - 1])
        BY <3>8
      <4> QED
        BY <3>5, <4>2, <4>3, <4>4, <4>5
    <3> QED
      BY <2>0, <3>6, <3>10, <3>13, Zenon DEF Layout
  <2> HIDE DEF base, env
  <2>7. LocalInv(env, Len(declared), LocalFold!Result(env, base, declared))
    BY <2>1, <2>5, <2>6, LocalFold!FoldInvariant DEF LocalFold!Inductive, Inductive
  <2> QED
    BY <2>0, <2>3, <2>4, <2>7, Zenon DEF LocalInv

(* Runs of locals that are no longer than the limit do not overflow. *)
<1>LocalsFit.
      ASSUME NEW params \in Seq(Sized), Len(params) <= 6, NEW declared \in Seq(LocalRun),
             \A i \in 1 .. Len(declared) : declared[i].ty \in Sized /\ declared[i].count <= MaxLocals
      PROVE  LocalSlots(params, declared, MaxLocals - Len(params)).status \in {"ok", "err"}
  <2> USE <1>LocalsFit
  <2> DEFINE room == MaxLocals - Len(params)
             front == ParamSlots(params)
             base == [slots |-> front.slots, size |-> front.size, room |-> room, status |-> "ok"]
  <2>1. LocalSlots(params, declared, room) = RoomFold!Result(0, base, declared)
    BY DEF LocalSlots, FoldOnce, RoomFold!Result, LocalStep
  <2>2. RoomInv(0, 0, base)
    <3>1. /\ DOMAIN base = LocalFields /\ base.size = front.size /\ base.room = room
          /\ base.status = "ok"
      BY Zenon DEF LocalFields
    <3>2. front.size \in Nat /\ front.size <= 16 * Len(params)
      BY <1>ParamLayout, Zenon DEF Layout
    <3>3. Len(params) \in Nat /\ MaxLocals \in Nat
      BY LocalsAssumption
    <3> HIDE DEF base, front
    <3>4. room \in Int /\ room >= -6 /\ front.size + 16 * room <= 16 * MaxLocals
      BY <3>2, <3>3
    <3> HIDE DEF room
    <3> QED
      BY <3>1, <3>2, <3>4 DEF RoomInv
  <2>3. ASSUME NEW k \in 1 .. Len(declared), NEW acc, RoomInv(0, k - 1, acc)
        PROVE  RoomInv(0, k, LocalStep(0, acc, declared[k]))
    <3> DEFINE next == AddLocals(acc, declared[k])
               sz == encoding_size(declared[k].ty)
               count == declared[k].count
    <3>1. next = LocalStep(0, acc, declared[k])
      BY DEF LocalStep
    <3> SUFFICES RoomInv(0, k, next)
      BY <3>1, Zenon
    <3>2. sz \in {4, 8, 16}
      BY <1>EncodingSize
    <3>3. count \in Nat /\ count <= MaxLocals /\ declared[k].ty \in Sized
      <4>1. declared[k] \in LocalRun
        OBVIOUS
      <4> QED
        BY <4>1 DEF LocalRun
    <3>0. DOMAIN acc = LocalFields
      BY <2>3, Zenon DEF RoomInv
    <3> DEFINE run == sz * count
               added == [i \in 1 .. count |-> acc.size + sz * (i - 1)]
    <3>4. /\ DOMAIN next = LocalFields
          /\ \/ acc.status # "ok" /\ next = acc
             \/ /\ acc.status = "ok" /\ (declared[k].ty \notin Sized \/ acc.size + run >= U32End)
                /\ next.status = "panic"
             \/ acc.status = "ok" /\ next.status = "err"
             \/ /\ acc.status = "ok" /\ declared[k].ty \in Sized /\ ~(acc.size + run >= U32End)
                /\ ~(count > acc.room)
                /\ next.status = "ok" /\ next.size = acc.size + run /\ next.room = acc.room - count
                /\ next.slots = acc.slots \o added
      <4>1. RunAdded(acc, declared[k], next)
        BY <3>0, <1>LocalCases, Zenon
      <4> HIDE DEF next
      <4> QED
        BY <4>1, Zenon DEF RunAdded
    <3>5. acc.status = "ok" =>
            /\ acc.size \in Nat /\ acc.room \in Int /\ acc.room >= -6
            /\ acc.size + 16 * acc.room <= 16 * MaxLocals
      BY <2>3 DEF RoomInv
    <3> HIDE DEF next, sz, count, run, added
    <3>6. sz * count \in Nat /\ sz * count <= 16 * count
      BY <3>2, <3>3
    <3>7. run \in Nat /\ run <= 16 * count /\ MaxLocals \in Nat /\ U32End \in Nat
          /\ 16 * (2 * MaxLocals + 6) < U32End
      BY <3>6, LocalsAssumption DEF run
    <3>8. CASE acc.status # "ok" /\ next = acc
      BY <2>3, <3>8 DEF RoomInv
    <3>12. ASSUME NEW size \in Nat, NEW left \in Int, left >= -6, size + 16 * left <= 16 * MaxLocals
           PROVE  /\ ~(size + run >= U32End) /\ size + run \in Nat /\ left - count \in Int
                  /\ ~(count > left) =>
                       left - count >= -6 /\ (size + run) + 16 * (left - count) <= 16 * MaxLocals
      BY <3>3, <3>7, <3>12
    <3>13. acc.status = "ok" =>
             /\ ~(acc.size + run >= U32End) /\ acc.size + run \in Nat /\ acc.room - count \in Int
             /\ ~(count > acc.room) =>
                  acc.room - count >= -6 /\ (acc.size + run) + 16 * (acc.room - count) <= 16 * MaxLocals
      BY <3>5, <3>12, Zenon
    <3>9. CASE acc.status = "ok" /\ (declared[k].ty \notin Sized \/ acc.size + run >= U32End)
      BY <3>3, <3>9, <3>13, Zenon
    <3>10. CASE acc.status = "ok" /\ next.status = "err"
      BY <3>4, <3>10 DEF RoomInv
    <3>11. CASE /\ acc.status = "ok" /\ ~(count > acc.room)
                /\ next.status = "ok" /\ next.size = acc.size + run
                /\ next.room = acc.room - count
      <4>1. /\ next.size \in Nat /\ next.room \in Int /\ next.room >= -6
            /\ next.size + 16 * next.room <= 16 * MaxLocals
        BY <3>11, <3>13, Zenon
      <4> QED
        BY <3>4, <3>11, <4>1, Zenon DEF RoomInv
    <3> QED
      BY <3>4, <3>8, <3>9, <3>10, <3>11, Zenon
  <2>4. Len(declared) \in Nat
    OBVIOUS
  <2> HIDE DEF base
  <2>5. RoomInv(0, Len(declared), RoomFold!Result(0, base, declared))
    BY <2>2, <2>3, <2>4, RoomFold!FoldInvariant, Zenon DEF RoomFold!Inductive, Inductive
  <2> QED
    BY <2>1, <2>5, Zenon DEF RoomInv

<1>SpillsCode.
      ASSUME NEW got, NEW ils, NEW S, NEW params \in Seq(S), Len(params) <= 6,
             NEW slots \in Seq(Nat), Len(slots) >= Len(params)
      PROVE  Spills(params, slots) \in Seq(Instr(got, ils))
  <2> USE <1>SpillsCode
  <2>1. ASSUME NEW i \in 1 .. Len(params)
        PROVE  Store(Slot(slots[i]), IntegerOrder[Len(params) + 1 - i]) \in Instr(got, ils)
    <3>1. Len(params) + 1 - i \in 1 .. 6
      <4>1. Len(params) \in Nat
        OBVIOUS
      <4>2. \A a \in Nat : a <= 6 => \A b \in 1 .. a : a + 1 - b \in 1 .. 6
        OBVIOUS
      <4> QED
        BY <4>1, <4>2, Zenon
    <3>2. slots[i] \in Int
      OBVIOUS
    <3> QED
      BY <3>1, <3>2, <1>IntegerOrderRegisters, <1>OtherInstr, Zenon
  <2>2. Spills(params, slots) \in [1 .. Len(params) -> Instr(got, ils)]
    BY <2>1, SMTT(30) DEF Spills
  <2>3. Len(params) \in Nat
    OBVIOUS
  <2> QED
    BY <2>2, <2>3, GeneratedSeq, Zenon

<1>Code.
      ASSUME NEW ctx, ContextOK(ctx), NEW f, NEW readable,
             NEW declared \in Seq(LocalRun), NEW body \in Seq(WasmOperator),
             GenFunction(ctx, f, readable, declared, body).status = "ok"
      PROVE  LET code == GenFunction(ctx, f, readable, declared, body).code
             IN /\ code \in Seq(Instr(ctx.got, ctx.ils))
                /\ Len(code) > 0 /\ code[Len(code)] = Ret
  <2> USE <1>Code
  <2> DEFINE S == Instr(ctx.got, ctx.ils)
             type == LookupType(ctx, f)
             sig == [returns     |-> DeclaredType(ctx, f).returns,
                     local_types |-> DeclaredType(ctx, f).params \o DeclaredLocals(declared)]
             layout == LocalSlots(type.params, declared, MaxLocals - Len(DeclaredType(ctx, f).params))
             ops == GenOperators(ctx, layout.slots, sig, body)
             front == Prologue \o AdjustStack("Sub_rm64_imm32", layout.size)
                        \o Spills(type.params, layout.slots) \o ops.code
                        \o ResultPops(type.returns)
                        \o AdjustStack("Add_rm64_imm32", layout.size)
             result == [status |-> "ok", code |-> front \o Epilogue, height |-> ops.height]
             gen == GenFunction(ctx, f, readable, declared, body)
             bad1 == ParamsPanic(type.params)
             bad3 == ~(Range(type.params) \subseteq Integer)
             bad2 == ~(Range(type.returns) \subseteq Integer)
  <2>1. gen = IF ~HasLookup(ctx, f) THEN NoCode("panic") ELSE IF ~readable THEN NoCode("err")
              ELSE IF bad1 THEN NoCode("panic") ELSE IF layout.status # "ok" THEN NoCode(layout.status)
              ELSE IF bad3 THEN NoCode("panic") ELSE IF ops.status # "ok" THEN NoCode(ops.status)
              ELSE IF ops.open THEN NoCode("err") ELSE IF bad2 THEN NoCode("panic") ELSE result
    BY Zenon DEF GenFunction
  <2>2. \A st : NoCode(st).status = st
    BY DEF NoCode
  <2>3. gen.status = "ok"
    OBVIOUS
  <2> SUFFICES /\ gen.code \in Seq(S)
               /\ Len(gen.code) > 0 /\ gen.code[Len(gen.code)] = Ret
    OBVIOUS
  <2>4. /\ HasLookup(ctx, f) /\ ~bad1 /\ layout.status = "ok" /\ ~bad3 /\ ops.status = "ok"
        /\ gen.code = front \o Epilogue
    <3>1. result.code = front \o Epilogue
      BY Zenon
    <3> HIDE DEF bad1, bad2, bad3, layout, ops, result, gen, front
    <3> QED
      BY <2>1, <2>2, <2>3, <3>1
  <2>5. type \in FuncType
    BY <2>4, <1>LookupIsType, Zenon
  <2>6. type.params \in Seq(ValType) /\ type.returns \in Seq(ValType)
    BY <2>5 DEF FuncType
  <2> HIDE DEF type
  <2>7. Len(type.params) <= 6 /\ Range(type.params) \subseteq Integer
    <3>1. Len(type.params) \in Nat
      BY <2>6
    <3>2. ~(Len(type.params) > 6)
      BY <2>4, <1>IntegerOrderRegisters, Zenon DEF ParamsPanic
    <3>3. Range(type.params) \subseteq Integer
      BY <2>4, Zenon
    <3> QED
      BY <3>1, <3>2, <3>3
  <2>9. type.params \in Seq(Sized)
    <3>1. \A i \in 1 .. Len(type.params) : type.params[i] \in Sized
      <4>1. \A i \in 1 .. Len(type.params) : type.params[i] \in Range(type.params)
        BY <2>6 DEF Range
      <4>2. Integer \subseteq Sized
        BY DEF Integer, Sized
      <4> QED
        BY <2>7, <4>1, <4>2
    <3> QED
      BY <2>6, <3>1, <1>SeqOfSized, Zenon
  <2>10. layout.slots \in Seq(Nat) /\ layout.size \in Nat /\ Len(layout.slots) >= Len(type.params)
    <3>1. /\ Layout(layout) /\ DeclaredLocals(declared) \in Seq(ValType)
          /\ Len(layout.slots) = Len(type.params) + Len(DeclaredLocals(declared))
      BY <2>4, <2>9, <1>LocalLayout, Zenon
    <3> HIDE DEF layout
    <3> QED
      BY <2>6, <3>1 DEF Layout
  <2> HIDE DEF layout, sig, gen
  <2>11. ops.code \in Seq(S)
    <3>1. layout.slots \in Seq(Int)
      BY <2>10, SMTT(30)
    <3> QED
      BY <2>4, <3>1, <1>OperatorsCode
  <2>12. Spills(type.params, layout.slots) \in Seq(S)
    BY <2>7, <2>9, <2>10, <1>SpillsCode, ZenonT(40)
  <2>13. ResultPops(type.returns) \in Seq(S)
    <3>1. Len(type.returns) \in Nat
      BY <2>6
    <3> QED
      BY <3>1, <1>ResultsCode, Zenon DEF ResultPops
  <2>14. {"rbp", "rsp"} \subseteq AllRegisters
    BY DEF AllRegisters, RegisterNames
  <2>15. /\ AdjustStack("Sub_rm64_imm32", layout.size) \in Seq(S)
         /\ AdjustStack("Add_rm64_imm32", layout.size) \in Seq(S)
    <3>1. layout.size \in Int
      BY <2>10, SMTT(30)
    <3>2. /\ Ins("Sub_rm64_imm32", Reg("rsp"), Imm(layout.size)) \in S
          /\ Ins("Add_rm64_imm32", Reg("rsp"), Imm(layout.size)) \in S
      BY <2>14, <3>1, <1>OtherInstr
    <3> HIDE DEF S
    <3> QED
      BY <3>2, <1>Sequences14 DEF AdjustStack
  <2>16. Push("rbp") \in S /\ MovReg("rbp", "rsp") \in S /\ MovReg("rsp", "rbp") \in S
         /\ Pop("rbp") \in S
    BY <2>14, <1>RegisterInstr, Zenon
  <2>17. Ret \in S
    <3>1. 0 \in Int
      OBVIOUS
    <3> QED
      BY <2>14, <3>1, <1>OtherInstr, Zenon
  <2> HIDE DEF S, ops
  <2>18. Prologue \in Seq(S) /\ Epilogue \in Seq(S)
    BY <2>16, <2>17, <1>Sequences14 DEF Prologue, Epilogue
  <2>19. Len(Epilogue) = 3 /\ Epilogue[3] = Ret
    BY DEF Epilogue
  <2>20. front \in Seq(S)
    BY <2>11, <2>12, <2>13, <2>15, <2>18
  <2> HIDE DEF front
  <2>21. front \o Epilogue \in Seq(S) /\ Len(front \o Epilogue) = Len(front) + 3
         /\ (front \o Epilogue)[Len(front) + 3] = Epilogue[3]
    <3>1. Len(front) \in Nat /\ Len(front) + 3 \in Len(front) + 1 .. Len(front) + Len(Epilogue)
      BY <2>19, <2>20
    <3>2. (Len(front) + 3) - Len(front) = 3
      BY <3>1
    <3>3. /\ front \o Epilogue \in Seq(S)
          /\ Len(front \o Epilogue) = Len(front) + Len(Epilogue)
          /\ \A i \in 1 .. Len(front) + Len(Epilogue) :
               (front \o Epilogue)[i] = IF i <= Len(front) THEN front[i] ELSE Epilogue[i - Len(front)]
      BY <2>18, <2>20
    <3>4. Len(front) + 3 \in 1 .. Len(front) + Len(Epilogue) /\ ~(Len(front) + 3 <= Len(front))
      BY <2>19, <3>1
    <3> QED
      BY <2>19, <3>2, <3>3, <3>4
  <2>22. Len(front) \in Nat
    BY <2>20
  <2> QED
    BY <2>4, <2>19, <2>21, <2>22

(* What is supported never panics, if types are found where they are       *)
(* declared.                                                               *)
<1>HandleSupported.
      ASSUME NEW ctx, TypesSupported(ctx), NEW slots, NEW sig, NEW stack,
             Len(slots) = Len(sig.local_types),
             NEW op \in WasmOperator, op.name \notin Unsupported, Accepts(ctx, sig, stack, op),
             op.name = "Call" /\ op.arg \in DOMAIN ctx.types => TypeFound(ctx, op.arg)
      PROVE  handle_instruction(ctx, slots, op).status = "ok"
  <2> USE <1>HandleSupported
  <2> DEFINE h == handle_instruction(ctx, slots, op)
  <2>1. /\ op.name \in SupportedOperators
        /\ op.name \in {"LocalGet", "LocalSet"} => op.arg < Len(slots)
        /\ op.name = "Call" => op.arg \in DOMAIN ctx.types
    BY DEF WasmOperator, SupportedOperators, Accepts
  <2>2. ASSUME op.name = "Call", h = GenCall(ctx, op.arg)
        PROVE  h.status = "ok"
    <3> DEFINE type == LookupType(ctx, op.arg)
    <3>1. HasLookup(ctx, op.arg) /\ SupportedType(type)
      BY <2>1, <2>2, ZenonT(30) DEF TypeFound, TypesSupported, HasLookup, LookupType
    <3> HIDE DEF h
    <3> QED
      BY <2>2, <3>1, <1>EmitFields, Zenon DEF GenCall, SupportedType
  <2>3. \A code : Emit(code).status = "ok"
    BY <1>EmitFields
  <2>4. ~ /\ op.name \notin SupportedOperators \ {"LocalGet", "LocalSet"}
          /\ op.name \in {"LocalGet", "LocalSet"} => ~(op.arg < Len(slots))
    BY <2>1
  <2>5. \/ \E code : h = Emit(code)
        \/ op.name = "Call" /\ h = GenCall(ctx, op.arg)
    BY <2>4, <1>HandleCases, Zenon
  <2> HIDE DEF h
  <2> QED
    BY <2>2, <2>3, <2>5 DEF h

<1>OperatorsSupported.
      ASSUME NEW ctx, TypesSupported(ctx), NEW slots, NEW sig, NEW f,
             Len(slots) = Len(sig.local_types), NEW body \in Seq(WasmOperator),
             BodyTypesFound(ctx, f, body),
             \A op \in Range(body) : op.name \notin Unsupported
      PROVE  GenOperators(ctx, slots, sig, body).status \in {"ok", "err"}
  <2> USE <1>OperatorsSupported
  <2> DEFINE env == [ctx |-> ctx, slots |-> slots, sig |-> sig]
             base == [status |-> "ok", code |-> <<>>, stack |-> <<>>, height |-> 0, open |-> TRUE]
  <2>1. SafeInv(env, 0, base)
    BY DEF SafeInv
  <2>2. ASSUME NEW k \in 1 .. Len(body), NEW acc, SafeInv(env, k - 1, acc)
        PROVE  SafeInv(env, k, GenStep(env, acc, body[k]))
    <3> DEFINE op == body[k]
               gen == handle_instruction(ctx, slots, op)
               stack == StackAfter(ctx, sig, acc.stack, op)
               more == [status |-> gen.status, code |-> acc.code \o gen.code, stack |-> stack,
                        height |-> Larger(acc.height, Len(stack)), open |-> op.name # "End"]
               next == GenStep(env, acc, op)
    <3>1. op \in WasmOperator /\ op.name \notin Unsupported
      BY DEF Range
    <3>2. next = IF acc.status # "ok" THEN acc
                 ELSE IF ~acc.open \/ ~Accepts(ctx, sig, acc.stack, op)
                 THEN [acc EXCEPT !.status = "err"]
                 ELSE more
      BY DEF GenStep, GenOperator
    <3>3. Accepts(ctx, sig, acc.stack, op) => gen.status = "ok"
      <4>1. k \in DOMAIN body
        OBVIOUS
      <4>2. op.name = "Call" /\ op.arg \in DOMAIN ctx.types => TypeFound(ctx, op.arg)
        BY <4>1, Zenon DEF BodyTypesFound
      <4> QED
        BY <3>1, <4>2, <1>HandleSupported, Zenon
    <3>4. DOMAIN more = {"status", "code", "stack", "height", "open"} /\ more.status = gen.status
      BY Zenon
    <3>5. LET failed == [acc EXCEPT !.status = "err"]
          IN DOMAIN failed = DOMAIN acc /\ failed.status = "err"
      BY <2>2, Zenon DEF SafeInv
    <3> HIDE DEF env, op, gen, stack, more, next
    <3>6. DOMAIN next = {"status", "code", "stack", "height", "open"} /\ next.status \in {"ok", "err"}
      BY <2>2, <3>2, <3>3, <3>4, <3>5, Zenon DEF SafeInv
    <3> QED
      BY <3>6 DEF SafeInv, next, op
  <2>3. Len(body) \in Nat
    OBVIOUS
  <2> HIDE DEF env, base
  <2>4. SafeInv(env, Len(body), SafeFold!Result(env, base, body))
    BY <2>1, <2>2, <2>3, SafeFold!FoldInvariant DEF SafeFold!Inductive, Inductive
  <2>5. GenOperators(ctx, slots, sig, body) = SafeFold!Result(env, base, body)
    BY DEF GenOperators, FoldOnce, SafeFold!Result, GenStep, env, base
  <2> QED
    BY <2>4, <2>5 DEF SafeInv

<1>NoPanic.
      ASSUME NEW ctx, ContextOK(ctx), TypesSupported(ctx),
             NEW f \in DOMAIN ctx.types, NEW readable,
             NEW declared \in Seq(LocalRun),
             \A d \in Range(declared) : d.ty \in Sized /\ d.count <= MaxLocals,
             NEW body \in Seq(WasmOperator), BodyTypesFound(ctx, f, body),
             \A op \in Range(body) : op.name \notin Unsupported
      PROVE  GenFunction(ctx, f, readable, declared, body).status # "panic"
  <2> USE <1>NoPanic
  <2> DEFINE type == LookupType(ctx, f)
             sig == [returns     |-> DeclaredType(ctx, f).returns,
                     local_types |-> DeclaredType(ctx, f).params \o DeclaredLocals(declared)]
             layout == LocalSlots(type.params, declared, MaxLocals - Len(DeclaredType(ctx, f).params))
             ops == GenOperators(ctx, layout.slots, sig, body)
             result == [status |-> "ok",
                        code   |-> Prologue \o AdjustStack("Sub_rm64_imm32", layout.size)
                                   \o Spills(type.params, layout.slots) \o ops.code
                                   \o ResultPops(type.returns)
                                   \o AdjustStack("Add_rm64_imm32", layout.size) \o Epilogue,
                        height |-> ops.height]
             gen == GenFunction(ctx, f, readable, declared, body)
             bad1 == ParamsPanic(type.params)
             bad3 == ~(Range(type.params) \subseteq Integer)
             bad2 == ~(Range(type.returns) \subseteq Integer)
  <2>1. gen = IF ~HasLookup(ctx, f) THEN NoCode("panic") ELSE IF ~readable THEN NoCode("err")
              ELSE IF bad1 THEN NoCode("panic") ELSE IF layout.status # "ok" THEN NoCode(layout.status)
              ELSE IF bad3 THEN NoCode("panic") ELSE IF ops.status # "ok" THEN NoCode(ops.status)
              ELSE IF ops.open THEN NoCode("err") ELSE IF bad2 THEN NoCode("panic") ELSE result
    BY Zenon DEF GenFunction
  <2>2. (\A st : NoCode(st).status = st) /\ result.status = "ok"
    BY Zenon DEF NoCode
  <2>3. HasLookup(ctx, f) /\ type = DeclaredType(ctx, f) /\ SupportedType(type)
    BY Zenon DEF BodyTypesFound, TypeFound, TypesSupported, HasLookup, LookupType
  <2>4. type \in FuncType
    BY <2>3, <1>LookupIsType, Zenon
  <2> HIDE DEF type
  <2>5. type.params \in Seq(ValType) /\ type.returns \in Seq(ValType)
    BY <2>4 DEF FuncType
  <2>7. \A i \in 1 .. Len(declared) : declared[i].ty \in Sized /\ declared[i].count <= MaxLocals
    BY DEF Range
  <2>8. type.params \in Seq(Sized)
    <3>1. \A i \in 1 .. Len(type.params) : type.params[i] \in Range(type.params)
      BY <2>5 DEF Range
    <3>2. Integer \subseteq Sized /\ Range(type.params) \subseteq Integer
      BY <2>3 DEF Integer, Sized, SupportedType
    <3>3. \A i \in 1 .. Len(type.params) : type.params[i] \in Sized
      BY <3>1, <3>2
    <3> QED
      BY <2>5, <3>3, <1>SeqOfSized, Zenon
  <2>6. ~bad1 /\ ~bad2 /\ ~bad3 /\ Len(type.params) <= 6
    <3>1. Len(type.params) \in Nat /\ Len(IntegerOrder) = 6
      BY <2>5 DEF IntegerOrder
    <3>2. ~(Len(type.params) > Len(IntegerOrder)) /\ Len(type.params) <= 6
      BY <2>3, <3>1 DEF SupportedType
    <3>3. Range(type.params) \subseteq Integer /\ Range(type.returns) \subseteq Integer
      BY <2>3, Zenon DEF SupportedType
    <3>4. Range(type.params) \subseteq Sized
      BY <3>3 DEF Integer, Sized
    <3> QED
      BY <3>2, <3>3, <3>4, Zenon DEF ParamsPanic
  <2>12. layout.status \in {"ok", "err"}
    BY <2>3, <2>6, <2>7, <2>8, <1>LocalsFit, Zenon
  <2>9. layout.status = "ok" => Len(layout.slots) = Len(sig.local_types)
    <3> SUFFICES ASSUME layout.status = "ok"
                 PROVE  Len(layout.slots) = Len(sig.local_types)
      OBVIOUS
    <3>1. /\ DeclaredLocals(declared) \in Seq(ValType)
          /\ Len(layout.slots) = Len(type.params) + Len(DeclaredLocals(declared))
      BY <2>8, <1>LocalLayout, ZenonT(40)
    <3>2. sig.local_types = type.params \o DeclaredLocals(declared)
      BY <2>3
    <3> HIDE DEF layout, sig
    <3> QED
      BY <2>5, <3>1, <3>2
  <2> HIDE DEF layout, sig
  <2>10. layout.status = "ok" => ops.status \in {"ok", "err"}
    BY <2>9, <1>OperatorsSupported, Zenon
  <2> HIDE DEF gen, ops, bad1, bad2, bad3, result
  <2>11. gen.status \in {"ok", "err"}
    BY <2>1, <2>2, <2>3, <2>6, <2>10, <2>12
  <2> QED
    BY <2>11 DEF gen

<1> QED
  BY <1>Code, <1>NoPanic

=============================================================================
