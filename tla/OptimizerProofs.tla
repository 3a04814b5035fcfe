--------------------------- MODULE OptimizerProofs ---------------------------
(***************************************************************************)
(* For every code and every set of labels that are behind instructions the *)
(* optimiser does not touch: labels keep their place through every pass,   *)
(* no other instruction is lost or moved, and the result is a fixed point. *)
(***************************************************************************)
EXTENDS Optimizer, TLAPS

(* Nothing to rewrite at index i. *)
NoMatch(i) ==
  /\ ~IsMovSelf(At(current, i))
  /\ i + 1 < Len(current) =>
       /\ ~IsPushPop(At(current, i), At(current, i + 1))
       /\ ~IsMovBack(At(current, i), At(current, i + 1))

(* What a pass has emitted comes from what it has consumed. *)
SourceInv ==
  /\ \A j \in 1 .. Len(new) : source[j] < head_idx
  /\ \A j, k \in 1 .. Len(new) : j < k => source[j] < source[k]

KeptInv ==
  \A i \in 0 .. head_idx - 1 :
    Fixed(At(current, i)) =>
      \E j \in 1 .. Len(new) : source[j] = i /\ new[j] = At(current, i)

(* A pass that has emitted as much as it has consumed has found nothing. *)
NoMatchInv ==
  /\ Len(new) <= head_idx
  /\ Len(new) = head_idx => \A i \in 0 .. head_idx - 1 : NoMatch(i)

(* The labels of the instructions ahead keep their distance to the window, *)
(* so that the subtraction of update_labels never goes below zero.         *)
LabelsAhead ==
  pc = "pass" =>
    \A l \in Labels : labels[l] >= head_idx =>
      labels_[l] = labels[l] - head_idx + Len(new)

IInv ==
  /\ TypeOK
  /\ SourceInv
  /\ KeptInv
  /\ NoMatchInv
  /\ LabelsAhead
  /\ LabelsKeepPlace
  /\ LabelsStayBehindFixed
  /\ pc # "pass" => head_idx = Len(current)
  /\ pc = "done" => new = current

-----------------------------------------------------------------------------
LEMMA AppendFacts ==
  ASSUME NEW S, NEW s \in Seq(S), NEW x \in S
  PROVE  /\ Append(s, x) \in Seq(S)
         /\ Len(Append(s, x)) = Len(s) + 1
         /\ \A j \in 1 .. Len(s) : Append(s, x)[j] = s[j]
         /\ Append(s, x)[Len(s) + 1] = x
OBVIOUS

LEMMA InitInv == Init => IInv
<1> SUFFICES ASSUME NEW i \in Inputs, StartWith(i.instructions, i.labels) PROVE IInv
  BY DEF Init
<1>1. /\ i.instructions \in Seq(Instruction)
      /\ i.labels \in [Labels -> Nat]
      /\ LabelsBehindFixed(i.instructions, i.labels)
  BY OptimizerAssumption, InputsAssumption
<1>2. TypeOK
  BY <1>1 DEF StartWith, TypeOK
<1>3. SourceInv /\ KeptInv /\ NoMatchInv
  BY DEF StartWith, SourceInv, KeptInv, NoMatchInv
<1>4. LabelsAhead /\ LabelsKeepPlace /\ LabelsStayBehindFixed
  BY <1>1 DEF StartWith, LabelsAhead, LabelsKeepPlace, LabelsStayBehindFixed
<1> QED
  BY <1>2, <1>3, <1>4 DEF IInv, StartWith

(* An instruction of the two that the optimiser rewrites is not fixed, so  *)
(* that no label is behind it.                                             *)
LEMMA RewrittenNotFixed ==
  ASSUME NEW i, i.code \in {"Push_r64", "Pop_r64", "Mov_rm64_r64"}
  PROVE  ~Fixed(i)
BY OptimizerAssumption DEF Fixed

(* What a step of a pass does to the labels: n instructions are consumed,  *)
(* the first n - 1 of them are no place for a label, and e are emitted.    *)
LEMMA ShiftLabels ==
  ASSUME IInv, pc = "pass", pc' = "pass", UNCHANGED <<current, labels>>,
         NEW n \in {1, 2}, NEW e \in {0, 1}, e <= n,
         head_idx' = head_idx + n, head_idx' <= Len(current),
         n = 2 => ~Fixed(At(current, head_idx)),
         Len(new') = Len(new) + e,
         \A j \in 1 .. Len(new) : source'[j] = source[j],
         e = 1 => source'[Len(new) + 1] = head_idx,
         labels_' = [l \in Labels |->
                      IF labels[l] >= head_idx' THEN labels_[l] - (n - e) ELSE labels_[l]]
  PROVE  /\ labels_' \in [Labels -> Nat]
         /\ LabelsAhead'
         /\ LabelsKeepPlace'
<1>1. /\ labels \in [Labels -> Nat] /\ labels_ \in [Labels -> Nat]
      /\ head_idx \in Nat /\ Len(new) \in Nat
      /\ \A j \in 1 .. Len(new) : source[j] \in Nat
  BY DEF IInv, TypeOK
<1>2. \A l \in Labels : labels[l] >= head_idx =>
        labels_[l] = labels[l] - head_idx + Len(new)
  BY DEF IInv, LabelsAhead
<1>3. \A l \in Labels : labels[l] >= head_idx' =>
        labels_'[l] = labels[l] - head_idx' + Len(new') /\ labels_'[l] \in Nat
  <2> SUFFICES ASSUME NEW l \in Labels, labels[l] >= head_idx'
               PROVE  /\ labels_'[l] = labels[l] - head_idx' + Len(new')
                      /\ labels_'[l] \in Nat
    OBVIOUS
  <2>1. labels[l] \in Nat /\ labels[l] >= head_idx + n /\ n - e \in Nat
    BY <1>1
  <2>2. labels_'[l] = labels_[l] - (n - e)
    OBVIOUS
  <2>3. labels_[l] = labels[l] - head_idx + Len(new)
    BY <1>1, <1>2, <2>1
  <2> QED
    BY <1>1, <2>1, <2>2, <2>3
<1>4. labels_' \in [Labels -> Nat]
  BY <1>1, <1>3
<1>5. LabelsAhead'
  BY <1>3 DEF LabelsAhead
<1>6. LabelsKeepPlace'
  <2> SUFFICES ASSUME NEW l \in Labels, labels[l] <= head_idx'
               PROVE  /\ labels_'[l] <= Len(new')
                      /\ \A j \in 1 .. Len(new') : j <= labels_'[l] <=> source'[j] < labels[l]
    BY DEF LabelsKeepPlace
  <2>1. CASE labels[l] <= head_idx
    <3>1. /\ labels_[l] <= Len(new)
          /\ \A j \in 1 .. Len(new) : j <= labels_[l] <=> source[j] < labels[l]
      BY <2>1 DEF IInv, LabelsKeepPlace
    <3>2. labels_'[l] = labels_[l] /\ labels[l] \in Nat /\ labels_[l] \in Nat
      BY <1>1, <2>1
    <3>3. ASSUME NEW j \in 1 .. Len(new')
          PROVE  j <= labels_[l] <=> source'[j] < labels[l]
      <4>1. CASE j \in 1 .. Len(new)
        BY <3>1, <4>1
      <4>2. CASE j = Len(new) + 1 /\ e = 1
        BY <1>1, <2>1, <3>1, <3>2, <4>2
      <4> QED
        BY <1>1, <4>1, <4>2
    <3> QED
      BY <1>1, <3>1, <3>2, <3>3
  <2>2. CASE labels[l] = head_idx'
    <3>1. labels_'[l] = Len(new')
      BY <1>1, <1>3, <2>2
    <3>2. ASSUME NEW j \in 1 .. Len(new') PROVE source'[j] < labels[l]
      <4>1. CASE j \in 1 .. Len(new)
        <5>1. source[j] < head_idx
          BY <4>1 DEF IInv, SourceInv
        <5> QED
          BY <1>1, <2>2, <4>1, <5>1
      <4>2. CASE j = Len(new) + 1 /\ e = 1
        BY <1>1, <2>2, <4>2
      <4> QED
        BY <1>1, <4>1, <4>2
    <3> QED
      BY <3>1, <3>2, <1>1
  <2>3. CASE labels[l] > head_idx /\ labels[l] < head_idx'
    <3>1. n = 2 /\ labels[l] = head_idx + 1
      BY <1>1, <2>3
    <3>2. Fixed(At(current, labels[l] - 1))
      <4>1. LabelsBehindFixed(current, labels)
        BY DEF IInv, LabelsStayBehindFixed
      <4>2. labels[l] # 0
        BY <1>1, <3>1
      <4> QED
        BY <4>1, <4>2, Zenon DEF LabelsBehindFixed
    <3>3. labels[l] - 1 = head_idx
      BY <1>1, <3>1
    <3> QED
      BY <3>1, <3>2, <3>3
  <2> QED
    BY <1>1, <2>1, <2>2, <2>3
<1> QED
  BY <1>4, <1>5, <1>6

(* What a step of a pass does to the code, in the same terms. *)
LEMMA ConsumeAndEmit ==
  ASSUME IInv, pc = "pass", pc' = "pass", UNCHANGED current,
         NEW n \in {1, 2}, NEW e \in {0, 1}, e <= n,
         head_idx' = head_idx + n, head_idx' <= Len(current),
         Len(new') = Len(new) + e,
         \A j \in 1 .. Len(new) : source'[j] = source[j] /\ new'[j] = new[j],
         e = 1 => source'[Len(new) + 1] = head_idx,
         \A i \in head_idx .. head_idx + n - 1 : Fixed(At(current, i)) =>
           e = 1 /\ i = head_idx /\ new'[Len(new) + 1] = At(current, i),
         n = e => NoMatch(head_idx)
  PROVE  SourceInv' /\ KeptInv' /\ NoMatchInv'
<1>1. /\ head_idx \in Nat /\ Len(new) \in Nat /\ Len(current) \in Nat
      /\ \A j \in 1 .. Len(new) : source[j] \in Nat
  BY DEF IInv, TypeOK
<1>2. SourceInv'
  <2>1. ASSUME NEW j \in 1 .. Len(new') PROVE source'[j] < head_idx'
    <3>1. CASE j \in 1 .. Len(new)
      <4>1. source[j] < head_idx
        BY <3>1 DEF IInv, SourceInv
      <4> QED
        BY <1>1, <3>1, <4>1
    <3>2. CASE j = Len(new) + 1 /\ e = 1
      BY <1>1, <3>2
    <3> QED
      BY <1>1, <3>1, <3>2
  <2>2. ASSUME NEW j \in 1 .. Len(new'), NEW k \in 1 .. Len(new'), j < k
        PROVE  source'[j] < source'[k]
    <3>1. j \in 1 .. Len(new)
      BY <1>1, <2>2
    <3>2. CASE k \in 1 .. Len(new)
      BY <2>2, <3>1, <3>2 DEF IInv, SourceInv
    <3>3. CASE k = Len(new) + 1 /\ e = 1
      BY <3>1, <3>3 DEF IInv, SourceInv
    <3> QED
      BY <1>1, <3>2, <3>3
  <2> QED
    BY <2>1, <2>2 DEF SourceInv
<1>3. KeptInv'
  <2> SUFFICES ASSUME NEW i \in 0 .. head_idx' - 1, Fixed(At(current, i))
               PROVE  \E j \in 1 .. Len(new') : source'[j] = i /\ new'[j] = At(current, i)
    BY Zenon DEF KeptInv, Fixed, At
  <2>1. CASE i \in 0 .. head_idx - 1
    <3>1. PICK j \in 1 .. Len(new) : source[j] = i /\ new[j] = At(current, i)
      BY <2>1 DEF IInv, KeptInv
    <3> QED
      BY <1>1, <3>1, SMTT(40)
  <2>2. CASE i \in head_idx .. head_idx + n - 1
    <3>1. e = 1 /\ i = head_idx /\ new'[Len(new) + 1] = At(current, i)
      BY <2>2
    <3>2. Len(new) + 1 \in 1 .. Len(new')
      BY <1>1, <3>1
    <3> QED
      BY <3>1, <3>2
  <2> QED
    BY <1>1, <2>1, <2>2
<1>4. NoMatchInv'
  <2>1. Len(new) <= head_idx
    BY DEF IInv, NoMatchInv
  <2>2. ASSUME Len(new') = head_idx', NEW i \in 0 .. head_idx' - 1 PROVE NoMatch(i)
    <3>1. n = 1 /\ e = 1 /\ Len(new) = head_idx
      BY <1>1, <2>1, <2>2
    <3>2. CASE i \in 0 .. head_idx - 1
      BY <3>1, <3>2 DEF IInv, NoMatchInv
    <3>3. CASE i = head_idx
      BY <3>1, <3>3
    <3> QED
      BY <1>1, <3>1, <3>2, <3>3
  <2>3. \A i : NoMatch(i)' <=> NoMatch(i)
    BY DEF NoMatch, At
  <2> QED
    BY <1>1, <2>1, <2>2, <2>3 DEF NoMatchInv
<1> QED
  BY <1>2, <1>3, <1>4

LEMMA HeadFacts ==
  ASSUME IInv
  PROVE  /\ head_idx \in Nat /\ Len(new) \in Nat /\ Len(current) \in Nat
         /\ Remaining >= 1 => Head0 \in Instruction /\ head_idx + 1 <= Len(current)
         /\ Remaining >= 2 => Head1 \in Instruction /\ head_idx + 2 <= Len(current)
BY DEF IInv, TypeOK, Remaining, Head0, Head1, At

LEMMA PassStep ==
  ASSUME IInv, PushPop \/ MovBack \/ MovSelf \/ Keep
  PROVE  IInv'
<1>1. /\ pc = "pass" /\ pc' = "pass" /\ UNCHANGED <<current, labels>>
      /\ new \in Seq(Instruction) /\ source \in Seq(Nat) /\ Len(source) = Len(new)
      /\ labels_ \in [Labels -> Nat]
      /\ current \in Seq(Instruction) /\ labels \in [Labels -> Nat]
  BY DEF PushPop, MovBack, MovSelf, Keep, IInv, TypeOK
<1>2. /\ head_idx \in Nat /\ Len(new) \in Nat /\ Len(current) \in Nat
      /\ Remaining >= 1 => Head0 \in Instruction /\ head_idx + 1 <= Len(current)
      /\ Remaining >= 2 => Head1 \in Instruction /\ head_idx + 2 <= Len(current)
  BY HeadFacts
<1>3. LabelsStayBehindFixed'
  BY <1>1 DEF IInv, LabelsStayBehindFixed
(* The three conclusions of a step, once its lengths are known. *)
<1>4. ASSUME new' \in Seq(Instruction), source' \in Seq(Nat), Len(source') = Len(new'),
             head_idx' \in Nat, head_idx' <= Len(current),
             labels_' \in [Labels -> Nat], LabelsAhead', LabelsKeepPlace',
             SourceInv', KeptInv', NoMatchInv'
      PROVE  IInv'
  <2>1. TypeOK'
    BY <1>1, <1>2, <1>4 DEF TypeOK
  <2> QED
    BY <1>1, <1>3, <1>4, <2>1 DEF IInv
<1>5. CASE PushPop
  <2>1. /\ Head0 \in Instruction /\ Head1 \in Instruction
        /\ head_idx' = head_idx + 2 /\ head_idx' <= Len(current)
        /\ Head0.code = "Push_r64" /\ Head1.code = "Pop_r64"
    <3>1. MatchPushPop /\ head_idx' = head_idx + 2
      BY <1>5 DEF PushPop
    <3> QED
      BY <1>2, <3>1 DEF MatchPushPop, IsPushPop, Remaining
  <2>2. ~Fixed(At(current, head_idx)) /\ ~Fixed(At(current, head_idx + 1))
    BY <2>1, RewrittenNotFixed DEF Head0, Head1
  <2>3. Mov(Head1.op0, Head0.op0) \in Instruction
    BY <2>1 DEF Mov, Instruction
  <2>4. /\ new' \in Seq(Instruction) /\ source' \in Seq(Nat)
        /\ Len(new') = Len(new) + 1 /\ Len(source') = Len(new')
        /\ \A j \in 1 .. Len(new) : source'[j] = source[j] /\ new'[j] = new[j]
        /\ source'[Len(new) + 1] = head_idx
    BY <1>1, <1>2, <1>5, <2>3, AppendFacts DEF PushPop
  <2>5. labels_' = [l \in Labels |->
          IF labels[l] >= head_idx' THEN labels_[l] - (2 - 1) ELSE labels_[l]]
    BY <1>5 DEF PushPop, update_labels
  <2>6. labels_' \in [Labels -> Nat] /\ LabelsAhead' /\ LabelsKeepPlace'
    BY <1>1, <2>1, <2>2, <2>4, <2>5, ShiftLabels
  <2>7. \A i \in head_idx .. head_idx + 2 - 1 : ~Fixed(At(current, i))
    BY <1>2, <2>2
  <2>8. SourceInv' /\ KeptInv' /\ NoMatchInv'
    BY <1>1, <2>1, <2>4, <2>7, ConsumeAndEmit
  <2> QED
    BY <1>2, <1>4, <2>1, <2>4, <2>6, <2>8
<1>6. CASE MovBack
  <2>1. /\ head_idx' = head_idx + 2 /\ head_idx' <= Len(current)
        /\ Head0.code = "Mov_rm64_r64" /\ Head1.code = "Mov_rm64_r64"
        /\ new' = new /\ source' = source
    BY <1>2, <1>6 DEF MovBack, MatchMovBack, IsMovBack, IsRegisterMov
  <2>2. ~Fixed(At(current, head_idx)) /\ ~Fixed(At(current, head_idx + 1))
    BY <2>1, RewrittenNotFixed DEF Head0, Head1
  <2>3. labels_' = [l \in Labels |->
          IF labels[l] >= head_idx' THEN labels_[l] - (2 - 0) ELSE labels_[l]]
    BY <1>6 DEF MovBack, update_labels
  <2>4. Len(new') = Len(new) + 0
    BY <1>2, <2>1
  <2>5. labels_' \in [Labels -> Nat] /\ LabelsAhead' /\ LabelsKeepPlace'
    BY <1>1, <2>1, <2>2, <2>3, <2>4, ShiftLabels
  <2>6. \A i \in head_idx .. head_idx + 2 - 1 : ~Fixed(At(current, i))
    BY <1>2, <2>2
  <2>7. SourceInv' /\ KeptInv' /\ NoMatchInv'
    BY <1>1, <2>1, <2>4, <2>6, ConsumeAndEmit
  <2> QED
    BY <1>1, <1>2, <1>4, <2>1, <2>5, <2>7
<1>7. CASE MovSelf
  <2>1. /\ head_idx' = head_idx + 1 /\ head_idx' <= Len(current)
        /\ Head0.code = "Mov_rm64_r64"
        /\ new' = new /\ source' = source
    BY <1>2, <1>7 DEF MovSelf, MatchMovSelf, IsMovSelf, IsRegisterMov
  <2>2. ~Fixed(At(current, head_idx))
    BY <2>1, RewrittenNotFixed DEF Head0
  <2>3. labels_' = [l \in Labels |->
          IF labels[l] >= head_idx' THEN labels_[l] - (1 - 0) ELSE labels_[l]]
    BY <1>7 DEF MovSelf, update_labels
  <2>4. Len(new') = Len(new) + 0
    BY <1>2, <2>1
  <2>5. labels_' \in [Labels -> Nat] /\ LabelsAhead' /\ LabelsKeepPlace'
    BY <1>1, <2>1, <2>3, <2>4, ShiftLabels
  <2>6. \A i \in head_idx .. head_idx + 1 - 1 : ~Fixed(At(current, i))
    BY <1>2, <2>2
  <2>7. SourceInv' /\ KeptInv' /\ NoMatchInv'
    BY <1>1, <2>1, <2>4, <2>6, ConsumeAndEmit
  <2> QED
    BY <1>1, <1>2, <1>4, <2>1, <2>5, <2>7
<1>8. CASE Keep
  <2>1. /\ head_idx' = head_idx + 1 /\ head_idx' <= Len(current)
        /\ Head0 \in Instruction
    BY <1>2, <1>8 DEF Keep
  <2>2. /\ new' \in Seq(Instruction) /\ source' \in Seq(Nat)
        /\ Len(new') = Len(new) + 1 /\ Len(source') = Len(new')
        /\ \A j \in 1 .. Len(new) : source'[j] = source[j] /\ new'[j] = new[j]
        /\ source'[Len(new) + 1] = head_idx /\ new'[Len(new) + 1] = Head0
    BY <1>1, <1>2, <1>8, <2>1, AppendFacts DEF Keep
  <2>3. labels_' = [l \in Labels |->
          IF labels[l] >= head_idx' THEN labels_[l] - (1 - 1) ELSE labels_[l]]
    BY <1>1, <1>8 DEF Keep
  <2>4. labels_' \in [Labels -> Nat] /\ LabelsAhead' /\ LabelsKeepPlace'
    BY <1>1, <2>1, <2>2, <2>3, ShiftLabels
  <2>5. NoMatch(head_idx)
    BY <1>2, <1>8 DEF Keep, NoMatch, MatchPushPop, MatchMovBack, MatchMovSelf,
         Remaining, Head0, Head1
  <2>6. \A i \in head_idx .. head_idx + 1 - 1 :
          i = head_idx /\ new'[Len(new) + 1] = At(current, i)
    BY <1>2, <2>2 DEF Head0
  <2>7. SourceInv' /\ KeptInv' /\ NoMatchInv'
    BY <1>1, <2>1, <2>2, <2>5, <2>6, ConsumeAndEmit
  <2> QED
    BY <1>2, <1>4, <2>1, <2>2, <2>4, <2>7
<1> QED
  BY <1>5, <1>6, <1>7, <1>8

(* At the end of a pass every label is behind an emitted instruction that  *)
(* the next pass will not touch either.                                    *)
LEMMA EndPassStep ==
  ASSUME IInv, EndPass
  PROVE  IInv'
<1>1. /\ pc = "pass" /\ pc' = "compare" /\ labels' = labels_
      /\ UNCHANGED <<current, head_idx, new, labels_, source>>
      /\ head_idx = Len(current)
  <2>1. Len(current) \in Nat /\ head_idx \in Nat
    BY HeadFacts
  <2> QED
    BY <2>1 DEF EndPass, Remaining
<1>2. /\ TypeOK' /\ SourceInv' /\ KeptInv' /\ NoMatchInv'
  BY <1>1 DEF IInv, TypeOK, SourceInv, KeptInv, NoMatchInv, NoMatch, Fixed, At
<1>3. LabelsAhead' /\ LabelsKeepPlace'
  BY <1>1 DEF LabelsAhead, LabelsKeepPlace
<1>4. LabelsBehindFixed(new, labels_)
  <2> SUFFICES ASSUME NEW l \in Labels
               PROVE  /\ labels_[l] <= Len(new)
                      /\ labels_[l] = 0 \/ Fixed(At(new, labels_[l] - 1))
    BY DEF LabelsBehindFixed
  <2>1. /\ labels[l] \in Nat /\ labels_[l] \in Nat /\ Len(new) \in Nat
        /\ \A j \in 1 .. Len(new) : source[j] \in Nat
    BY DEF IInv, TypeOK
  <2>2. LabelsBehindFixed(current, labels)
    BY <1>1 DEF IInv, LabelsStayBehindFixed
  <2>3. labels[l] <= head_idx
    BY <1>1, <2>2 DEF LabelsBehindFixed
  <2>4. /\ labels_[l] <= Len(new)
        /\ \A j \in 1 .. Len(new) : j <= labels_[l] <=> source[j] < labels[l]
    BY <1>1, <2>3 DEF IInv, LabelsKeepPlace
  <2>5. CASE labels[l] = 0
    <3>1. labels_[l] = 0
      BY <2>1, <2>4, <2>5
    <3> QED
      BY <2>4, <3>1
  <2>6. CASE labels[l] # 0
    <3>1. Fixed(At(current, labels[l] - 1))
      BY <2>2, <2>6, Zenon DEF LabelsBehindFixed
    <3>2. labels[l] - 1 \in 0 .. head_idx - 1
      BY <1>1, <2>1, <2>3, <2>6 DEF IInv, TypeOK
    <3>3. PICK j \in 1 .. Len(new) :
            source[j] = labels[l] - 1 /\ new[j] = At(current, labels[l] - 1)
      BY <3>1, <3>2 DEF IInv, KeptInv
    <3>4. j <= labels_[l]
      BY <2>1, <2>4, <3>3
    <3>5. ~(j + 1 <= labels_[l])
      <4> SUFFICES ASSUME j + 1 <= labels_[l] PROVE FALSE
        OBVIOUS
      <4>1. j + 1 \in 1 .. Len(new)
        BY <2>1, <2>4
      <4>2. source[j] < source[j + 1]
        BY <4>1 DEF IInv, SourceInv
      <4>3. source[j + 1] < labels[l]
        BY <2>4, <4>1
      <4> QED
        BY <2>1, <3>3, <4>1, <4>2, <4>3
    <3>6. labels_[l] = j
      BY <2>1, <3>4, <3>5
    <3>7. At(new, labels_[l] - 1) = new[j]
      BY <3>6 DEF At
    <3> QED
      BY <2>4, <3>1, <3>3, <3>7
  <2> QED
    BY <2>5, <2>6
<1>5. LabelsStayBehindFixed'
  BY <1>1, <1>4 DEF LabelsStayBehindFixed, LabelsBehindFixed, Fixed, At
<1> QED
  BY <1>1, <1>2, <1>3, <1>5 DEF IInv

LEMMA StepInv == IInv /\ [Next]_vars => IInv'
<1> SUFFICES ASSUME IInv, [Next]_vars PROVE IInv'
  OBVIOUS
<1>1. CASE UNCHANGED vars
  BY <1>1 DEF vars, IInv, TypeOK, SourceInv, KeptInv, NoMatchInv, NoMatch, LabelsAhead,
       LabelsKeepPlace, LabelsStayBehindFixed, LabelsBehindFixed, Fixed, At
<1>2. CASE Return
  <2>1. /\ pc = "compare" /\ pc' = "done" /\ new = current
        /\ UNCHANGED <<current, labels, head_idx, new, labels_, source>>
    BY <1>2 DEF Return
  <2>2. TypeOK' /\ SourceInv' /\ KeptInv' /\ NoMatchInv'
    BY <2>1 DEF IInv, TypeOK, SourceInv, KeptInv, NoMatchInv, NoMatch, Fixed, At
  <2>3. LabelsAhead' /\ LabelsKeepPlace' /\ LabelsStayBehindFixed'
    BY <2>1 DEF IInv, LabelsAhead, LabelsKeepPlace, LabelsStayBehindFixed,
         LabelsBehindFixed, Fixed, At
  <2> QED
    BY <2>1, <2>2, <2>3 DEF IInv
<1>3. CASE NextPass
  <2>1. /\ pc = "compare" /\ pc' = "pass" /\ current' = new /\ head_idx' = 0
        /\ new' = <<>> /\ labels_' = labels /\ source' = <<>> /\ labels' = labels
    BY <1>3 DEF NextPass
  <2>2. TypeOK'
    BY <2>1 DEF IInv, TypeOK
  <2>3. SourceInv' /\ KeptInv' /\ NoMatchInv'
    BY <2>1 DEF SourceInv, KeptInv, NoMatchInv
  <2>4. LabelsAhead' /\ LabelsKeepPlace'
    BY <2>1 DEF IInv, TypeOK, LabelsAhead, LabelsKeepPlace
  <2>5. LabelsStayBehindFixed'
    BY <2>1 DEF IInv, LabelsStayBehindFixed, LabelsBehindFixed, Fixed, At
  <2> QED
    BY <2>1, <2>2, <2>3, <2>4, <2>5 DEF IInv
<1> QED
  BY <1>1, <1>2, <1>3, PassStep, EndPassStep DEF Next

(* The inductive invariant holds in every state of optimize                *)
(* (optimizer.rs:6-95).                                                    *)
THEOREM Invariance == Spec => []IInv
BY InitInv, StepInv, PTL DEF Spec

(* The variables of optimize and optimize_loop keep their types: head_idx  *)
(* stays within the code and no index of a label goes below 0.             *)
THEOREM TypeCorrect == Spec => []TypeOK
<1>1. IInv => TypeOK
  BY DEF IInv
<1> QED
  BY <1>1, Invariance, PTL

(* optimize keeps every label in its place, and never subtracts below 0    *)
(* from a usize index (update_labels, optimizer.rs:97-103).                *)
THEOREM LabelsSound == Spec => [](TypeOK /\ LabelsKeepPlace /\ LabelsAhead)
<1>1. IInv => TypeOK /\ LabelsKeepPlace /\ LabelsAhead
  BY DEF IInv
<1> QED
  BY <1>1, Invariance, PTL

(* After each pass of optimize_loop every label is again behind an         *)
(* instruction that no pass touches, however many passes there are.        *)
THEOREM LabelsStable == Spec => []LabelsStayBehindFixed
<1>1. IInv => LabelsStayBehindFixed
  BY DEF IInv
<1> QED
  BY <1>1, Invariance, PTL

(* optimize_loop neither drops nor reorders what it does not recognise.    *)
THEOREM OthersKept == Spec => []FixedKept
<1>1. IInv => FixedKept
  BY DEF IInv, SourceInv, KeptInv, FixedKept
<1> QED
  BY <1>1, Invariance, PTL

(* The comparison of optimizer.rs:16 ends the loop only when there is      *)
(* nothing left to rewrite.                                                *)
THEOREM ResultIsFixedPoint == Spec => []FixedPoint
<1>1. IInv => FixedPoint
  BY DEF IInv, NoMatchInv, NoMatch, FixedPoint
<1> QED
  BY <1>1, Invariance, PTL

-----------------------------------------------------------------------------
(* What the caller of optimize relies on.                                  *)

(* A call of optimize in which every label is behind an instruction that   *)
(* no pass touches starts in the invariant.                                *)
LEMMA StartStep ==
  ASSUME pc' = "pass", head_idx' = 0, new' = <<>>, source' = <<>>, labels_' = labels',
         current' \in Seq(Instruction), labels' \in [Labels -> Nat],
         LabelsBehindFixed(current', labels')
  PROVE  IInv'
<1>1. TypeOK'
  BY DEF TypeOK
<1>2. SourceInv' /\ KeptInv' /\ NoMatchInv'
  BY DEF SourceInv, KeptInv, NoMatchInv
<1>3. LabelsAhead' /\ LabelsKeepPlace' /\ LabelsStayBehindFixed'
  BY DEF LabelsAhead, LabelsKeepPlace, LabelsStayBehindFixed, LabelsBehindFixed, Fixed, At
<1> QED
  BY <1>1, <1>2, <1>3 DEF IInv

(* Between two labels there is an instruction that stays: a pass keeps     *)
(* them apart and in order, and a label that is not at the end stays away  *)
(* from the end.                                                           *)
LEMMA EndPassOrder ==
  ASSUME IInv, EndPass
  PROVE  /\ \A l, m \in Labels : labels[l] < labels[m] => labels'[l] < labels'[m]
         /\ Len(current) > 0 /\ Fixed(current[Len(current)]) =>
              /\ Len(new) > 0 /\ Fixed(new[Len(new)])
              /\ \A l \in Labels : labels[l] < Len(current) => labels'[l] < Len(new)
<1>1. pc = "pass" /\ labels' = labels_ /\ head_idx = Len(current)
  <2>1. Len(current) \in Nat /\ head_idx \in Nat
    BY HeadFacts
  <2> QED
    BY <2>1 DEF EndPass, Remaining
<1>2. /\ labels \in [Labels -> Nat] /\ labels_ \in [Labels -> Nat]
      /\ Len(new) \in Nat /\ Len(current) \in Nat
      /\ \A j \in 1 .. Len(new) : source[j] \in Nat
  BY DEF IInv, TypeOK
<1>3. LabelsBehindFixed(current, labels)
  BY <1>1 DEF IInv, LabelsStayBehindFixed
<1>4. ASSUME NEW l \in Labels
      PROVE  /\ labels_[l] <= Len(new)
             /\ \A j \in 1 .. Len(new) : j <= labels_[l] <=> source[j] < labels[l]
  <2>1. labels[l] <= head_idx
    BY <1>1, <1>3 DEF LabelsBehindFixed
  <2> QED
    BY <1>1, <2>1 DEF IInv, LabelsKeepPlace
<1>5. ASSUME NEW i \in 0 .. Len(current) - 1, Fixed(At(current, i))
      PROVE  \E j \in 1 .. Len(new) : source[j] = i /\ new[j] = At(current, i)
  BY <1>1, <1>5 DEF IInv, KeptInv
<1>6. ASSUME NEW l \in Labels, NEW m \in Labels, labels[l] < labels[m]
      PROVE  labels_[l] < labels_[m]
  <2>1. labels[l] \in Nat /\ labels[m] \in Nat /\ labels_[l] \in Nat /\ labels_[m] \in Nat
    BY <1>2
  <2>2. labels[m] # 0 /\ labels[m] <= Len(current)
    BY <1>3, <1>6, <2>1 DEF LabelsBehindFixed
  <2>3. Fixed(At(current, labels[m] - 1))
    BY <1>3, <2>2, Zenon DEF LabelsBehindFixed
  <2>4. labels[m] - 1 \in 0 .. Len(current) - 1
    BY <1>2, <2>1, <2>2
  <2>5. PICK j \in 1 .. Len(new) : source[j] = labels[m] - 1
    BY <1>5, <2>3, <2>4
  <2>6. j <= labels_[m]
    BY <1>4, <2>1, <2>5
  <2>7. ~(j <= labels_[l])
    BY <1>4, <1>6, <2>1, <2>5
  <2> QED
    BY <2>1, <2>6, <2>7
<1>7. ASSUME Len(current) > 0, Fixed(current[Len(current)])
      PROVE  /\ Len(new) > 0 /\ Fixed(new[Len(new)])
             /\ \A l \in Labels : labels[l] < Len(current) => labels_[l] < Len(new)
  <2>1. Len(current) - 1 \in 0 .. Len(current) - 1 /\ At(current, Len(current) - 1) = current[Len(current)]
    BY <1>2, <1>7 DEF At
  <2>2. PICK j \in 1 .. Len(new) : source[j] = Len(current) - 1 /\ new[j] = current[Len(current)]
    BY <1>5, <1>7, <2>1
  <2>3. j = Len(new)
    <3> SUFFICES ASSUME j < Len(new) PROVE FALSE
      BY <1>2
    <3>1. Len(new) \in 1 .. Len(new)
      BY <1>2, <2>2
    <3>2. source[j] < source[Len(new)] /\ source[Len(new)] < head_idx
      BY <3>1 DEF IInv, SourceInv
    <3> QED
      BY <1>1, <1>2, <2>2, <3>1, <3>2
  <2>4. ASSUME NEW l \in Labels, labels[l] < Len(current)
        PROVE  labels_[l] < Len(new)
    <3>1. labels[l] \in Nat /\ labels_[l] \in Nat
      BY <1>2
    <3>2. ~(j <= labels_[l])
      BY <1>2, <1>4, <2>2, <2>4, <3>1
    <3> QED
      BY <1>2, <2>3, <3>1, <3>2
  <2> QED
    BY <1>2, <1>7, <2>2, <2>3, <2>4
<1> QED
  BY <1>1, <1>6, <1>7

(* optimize only puts operands into the code that were in it. *)
OperandsIn(s, Q) == \A i \in 1 .. Len(s) : s[i].op0 \in Q /\ s[i].op1 \in Q

LEMMA OperandsStep ==
  ASSUME NEW Q, IInv, Next, OperandsIn(current, Q), OperandsIn(new, Q)
  PROVE  OperandsIn(current', Q) /\ OperandsIn(new', Q)
<1>1. current \in Seq(Instruction) /\ new \in Seq(Instruction)
  BY DEF IInv, TypeOK
<1>2. /\ head_idx \in Nat /\ Len(new) \in Nat /\ Len(current) \in Nat
      /\ Remaining >= 1 => Head0 \in Instruction /\ head_idx + 1 <= Len(current)
      /\ Remaining >= 2 => Head1 \in Instruction /\ head_idx + 2 <= Len(current)
  BY HeadFacts
<1>3. ASSUME NEW i \in Instruction, i.op0 \in Q, i.op1 \in Q, new' = Append(new, i)
      PROVE  OperandsIn(new', Q)
  <2>1. /\ Len(new') = Len(new) + 1
        /\ \A j \in 1 .. Len(new) : new'[j] = new[j]
        /\ new'[Len(new) + 1] = i
    BY <1>1, <1>3, AppendFacts
  <2>2. ASSUME NEW j \in 1 .. Len(new')
        PROVE  new'[j].op0 \in Q /\ new'[j].op1 \in Q
    <3>1. CASE j \in 1 .. Len(new)
      BY <2>1, <3>1 DEF OperandsIn
    <3>2. CASE j = Len(new) + 1
      BY <1>3, <2>1, <3>2
    <3> QED
      BY <1>2, <2>1, <3>1, <3>2
  <2> QED
    BY <2>2 DEF OperandsIn
<1>4. CASE PushPop
  <2>1. Remaining >= 2 /\ current' = current /\ new' = Append(new, Mov(Head1.op0, Head0.op0))
    BY <1>4 DEF PushPop, MatchPushPop
  <2>2. head_idx + 1 \in 1 .. Len(current) /\ (head_idx + 1) + 1 \in 1 .. Len(current)
    BY <1>2, <2>1
  <2>3. Head0.op0 \in Q /\ Head1.op0 \in Q
    BY <2>2 DEF OperandsIn, Head0, Head1, At
  <2>4. Remaining >= 1
    BY <1>2, <2>1 DEF Remaining
  <2>5. Mov(Head1.op0, Head0.op0) \in Instruction
    BY <1>2, <2>1, <2>4 DEF Mov, Instruction
  <2>6. Mov(Head1.op0, Head0.op0).op0 \in Q /\ Mov(Head1.op0, Head0.op0).op1 \in Q
    BY <2>3 DEF Mov
  <2> QED
    BY <1>3, <2>1, <2>5, <2>6
<1>5. CASE Keep
  <2>1. Remaining >= 1 /\ current' = current /\ new' = Append(new, Head0)
    BY <1>5 DEF Keep
  <2>2. head_idx + 1 \in 1 .. Len(current)
    BY <1>2, <2>1
  <2>3. Head0.op0 \in Q /\ Head0.op1 \in Q
    BY <2>2 DEF OperandsIn, Head0, At
  <2> QED
    BY <1>2, <1>3, <2>1, <2>3
<1>6. CASE MovBack \/ MovSelf \/ EndPass \/ Return
  BY <1>6 DEF MovBack, MovSelf, EndPass, Return
<1>7. CASE NextPass
  BY <1>7 DEF NextPass, OperandsIn
<1> QED
  BY <1>4, <1>5, <1>6, <1>7 DEF Next

(* The first N instructions are fixed: a pass emits them as they are, and  *)
(* leaves the labels among them.                                           *)
PrefixInv(N) ==
  /\ N <= Len(current)
  /\ \A i \in 1 .. N : Fixed(current[i])
  /\ head_idx <= N => Len(new) = head_idx
  /\ head_idx >= N => Len(new) >= N
  /\ \A j \in 1 .. Len(new) : j <= N => new[j] = current[j]
  /\ pc = "pass" => \A l \in Labels : labels[l] <= N => labels_[l] = labels[l]

LEMMA PrefixStart ==
  ASSUME NEW N \in Nat, N <= Len(current'), \A i \in 1 .. N : Fixed(current'[i]),
         head_idx' = 0, new' = <<>>, labels_' = labels'
  PROVE  PrefixInv(N)'
BY DEF PrefixInv, Fixed

LEMMA PrefixStep ==
  ASSUME NEW N \in Nat, IInv, PrefixInv(N), Next
  PROVE  /\ PrefixInv(N)'
         /\ \A j \in 1 .. N : current'[j] = current[j]
         /\ \A l \in Labels : labels[l] <= N => labels'[l] = labels[l]
<1>1. /\ current \in Seq(Instruction) /\ new \in Seq(Instruction)
      /\ labels \in [Labels -> Nat] /\ labels_ \in [Labels -> Nat]
  BY DEF IInv, TypeOK
<1>2. /\ head_idx \in Nat /\ Len(new) \in Nat /\ Len(current) \in Nat
      /\ Remaining >= 1 => Head0 \in Instruction /\ head_idx + 1 <= Len(current)
      /\ Remaining >= 2 => Head1 \in Instruction /\ head_idx + 2 <= Len(current)
  BY HeadFacts
<1>3. ASSUME head_idx < N
      PROVE  ~(Head0.code \in {"Push_r64", "Pop_r64", "Mov_rm64_r64"})
  <2>1. head_idx + 1 \in 1 .. N
    BY <1>2, <1>3
  <2>2. Fixed(Head0)
    BY <2>1 DEF PrefixInv, Head0, At
  <2> QED
    BY <2>2, RewrittenNotFixed
<1>4. ASSUME pc = "pass", pc' = "pass", UNCHANGED <<current, labels>>, head_idx >= N,
             head_idx' \in Nat, head_idx' > head_idx,
             NEW count \in Nat, labels_' = [l \in Labels |-> IF labels[l] >= head_idx' THEN labels_[l] - count ELSE labels_[l]],
             new' = new \/ \E i : new' = Append(new, i)
      PROVE  PrefixInv(N)'
  <2>1. Len(new') \in Nat /\ Len(new') >= Len(new) /\ \A j \in 1 .. Len(new) : new'[j] = new[j]
    <3>1. CASE new' = new
      BY <1>2, <3>1
    <3>2. CASE new' # new
      <4>1. PICK i : new' = Append(new, i)
        BY <1>4, <3>2
      <4>2. new \in Seq(Instruction \cup {i}) /\ i \in Instruction \cup {i}
        BY <1>1
      <4> QED
        BY <1>2, <4>1, <4>2, AppendFacts
    <3> QED
      BY <3>1, <3>2
  <2>2. Len(new) >= N
    BY <1>4 DEF PrefixInv
  <2>3. \A l \in Labels : labels'[l] <= N => labels_'[l] = labels'[l]
    BY <1>1, <1>2, <1>4 DEF PrefixInv
  <2>4. \A j \in 1 .. Len(new') : j <= N => new'[j] = current'[j]
    BY <1>2, <1>4, <2>1, <2>2 DEF PrefixInv
  <2>5. ~(head_idx' <= N) /\ Len(new') >= N
    BY <1>2, <1>4, <2>1, <2>2
  <2>6. N <= Len(current') /\ \A i \in 1 .. N : Fixed(current'[i])
    BY <1>4 DEF PrefixInv
  <2> QED
    BY <2>3, <2>4, <2>5, <2>6 DEF PrefixInv, Fixed
<1>5. CASE Keep
  <2>1. /\ pc = "pass" /\ pc' = "pass" /\ UNCHANGED <<current, labels, labels_>>
        /\ head_idx' = head_idx + 1 /\ new' = Append(new, Head0) /\ Head0 \in Instruction
    BY <1>2, <1>5 DEF Keep
  <2>2. CASE head_idx >= N
    <3>1. labels_' = [l \in Labels |-> IF labels[l] >= head_idx' THEN labels_[l] - 0 ELSE labels_[l]]
      BY <1>1, <2>1
    <3>2. 0 \in Nat /\ head_idx' \in Nat /\ head_idx' > head_idx
      BY <1>2, <2>1
    <3>3. \E i : new' = Append(new, i)
      BY <2>1
    <3> QED
      BY <1>4, <2>1, <2>2, <3>1, <3>2, <3>3
  <2>3. CASE head_idx < N
    <3>1. Len(new) = head_idx
      BY <1>2, <2>3 DEF PrefixInv
    <3>2. /\ Len(new') = head_idx + 1
          /\ \A j \in 1 .. Len(new) : new'[j] = new[j]
          /\ new'[head_idx + 1] = current[head_idx + 1]
      BY <1>1, <2>1, <3>1, AppendFacts DEF Head0, At
    <3>3. \A j \in 1 .. Len(new') : j <= N => new'[j] = current'[j]
      BY <1>2, <2>1, <3>1, <3>2 DEF PrefixInv
    <3>4. (head_idx' >= N => Len(new') >= N) /\ Len(new') = head_idx'
      BY <1>2, <2>1, <2>3, <3>2
    <3>5. \A l \in Labels : labels'[l] <= N => labels_'[l] = labels'[l]
      BY <2>1 DEF PrefixInv
    <3>6. N <= Len(current') /\ \A i \in 1 .. N : Fixed(current'[i])
      BY <2>1 DEF PrefixInv
    <3>7. PrefixInv(N)'
      BY <3>3, <3>4, <3>5, <3>6 DEF PrefixInv, Fixed
    <3> QED
      BY <2>1, <3>7
  <2> QED
    BY <1>2, <2>2, <2>3, <2>1
<1>6. CASE PushPop \/ MovBack \/ MovSelf
  <2>1. /\ pc = "pass" /\ pc' = "pass" /\ UNCHANGED <<current, labels>>
        /\ new' = new \/ \E i : new' = Append(new, i)
    BY <1>6 DEF PushPop, MovBack, MovSelf
  <2>2. /\ Head0.code \in {"Push_r64", "Pop_r64", "Mov_rm64_r64"}
        /\ head_idx' \in Nat /\ head_idx' > head_idx
    BY <1>2, <1>6 DEF PushPop, MovBack, MovSelf, MatchPushPop, MatchMovBack, MatchMovSelf,
         IsPushPop, IsMovBack, IsMovSelf, IsRegisterMov
  <2>3. head_idx >= N
    BY <1>2, <1>3, <2>2
  <2>4. \E count \in Nat : labels_' = [l \in Labels |->
          IF labels[l] >= head_idx' THEN labels_[l] - count ELSE labels_[l]]
    BY <1>6 DEF PushPop, MovBack, MovSelf, update_labels
  <2>5. PICK count \in Nat : labels_' = [l \in Labels |->
          IF labels[l] >= head_idx' THEN labels_[l] - count ELSE labels_[l]]
    BY <2>4
  <2>6. PrefixInv(N)'
    BY <1>4, <2>1, <2>2, <2>3, <2>5
  <2> QED
    BY <2>1, <2>6
<1>7. CASE EndPass
  <2>1. pc = "pass" /\ pc' = "compare" /\ labels' = labels_ /\ UNCHANGED <<current, new, head_idx>>
    BY <1>7 DEF EndPass
  <2>2. PrefixInv(N)'
    BY <2>1 DEF PrefixInv, Fixed
  <2> QED
    BY <2>1, <2>2 DEF PrefixInv
<1>8. CASE Return
  <2>1. pc' = "done" /\ UNCHANGED <<current, labels, new, head_idx>>
    BY <1>8 DEF Return
  <2>2. PrefixInv(N)'
    BY <2>1 DEF PrefixInv, Fixed
  <2> QED
    BY <2>1, <2>2
<1>9. CASE NextPass
  <2>1. /\ pc = "compare" /\ current' = new /\ head_idx' = 0 /\ new' = <<>>
        /\ labels_' = labels /\ labels' = labels
    BY <1>9 DEF NextPass
  <2>2. head_idx = Len(current)
    BY <2>1 DEF IInv
  <2>3. N <= Len(new) /\ \A j \in 1 .. N : new[j] = current[j]
    BY <1>2, <2>2 DEF PrefixInv
  <2>4. N <= Len(current') /\ \A i \in 1 .. N : Fixed(current'[i])
    BY <2>1, <2>3 DEF PrefixInv
  <2>5. PrefixInv(N)'
    BY <2>1, <2>4, PrefixStart
  <2> QED
    BY <2>1, <2>3, <2>5
<1> QED
  BY <1>5, <1>6, <1>7, <1>8, <1>9 DEF Next

(* The order of two labels never changes, and they never meet: an entry    *)
(* point of a function stays in front of the next one.                     *)
THEOREM LabelsStayApart ==
  Spec => [][\A l, m \in Labels : labels[l] < labels[m] => labels'[l] < labels'[m]]_vars
<1> DEFINE Apart == \A l, m \in Labels : labels[l] < labels[m] => labels'[l] < labels'[m]
<1>1. IInv /\ Next => Apart
  <2> SUFFICES ASSUME IInv, Next PROVE Apart
    OBVIOUS
  <2>1. CASE EndPass
    BY <2>1, EndPassOrder
  <2>2. CASE ~EndPass
    <3>1. labels' = labels
      BY <2>2 DEF Next, PushPop, MovBack, MovSelf, Keep, Return, NextPass
    <3> QED
      BY <3>1
  <2> QED
    BY <2>1, <2>2
<1>2. IInv /\ [Next]_vars => [Apart]_vars
  BY <1>1
<1> QED
  BY <1>2, Invariance, PTL DEF Spec

=============================================================================
