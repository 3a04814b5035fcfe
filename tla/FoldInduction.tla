---------------------------- MODULE FoldInduction ----------------------------
(***************************************************************************)
(* Induction over CodeGen!FoldOnce.  The folded operator and the invariant *)
(* are constants: a proof that needs them instantiates this module, once   *)
(* for each fold and invariant.  Induction over the natural numbers is a   *)
(* hypothesis here, so that an instance has no copy of the library         *)
(* modules that prove it.                                                  *)
(***************************************************************************)
EXTENDS Integers, Sequences

CONSTANTS
  Op(_, _, _),   \* the step of the fold: its parameters, the accumulator, an element
  P(_, _, _)     \* the invariant: its parameters, the number of steps, the accumulator

Result(env, base, seq) ==
  LET acc[k \in 0 .. Len(seq)] ==
        IF k = 0 THEN base ELSE CHOOSE r \in {Op(env, a, seq[k]) : a \in {acc[k - 1]}} : TRUE
  IN acc[Len(seq)]

(* Induction over the natural numbers, for the set S of those for which    *)
(* something holds: CompilerProofs!NatInductive.                           *)
Inductive == \A S : 0 \in S /\ (\A n \in Nat : n \in S => n + 1 \in S) => Nat \subseteq S

Steps(f, env, base, seq, n) ==
  /\ f = [k \in 0 .. n |-> f[k]]
  /\ f[0] = base
  /\ \A k \in 1 .. n : f[k] = Op(env, f[k - 1], seq[k])

-----------------------------------------------------------------------------
(* What FoldOnce computes: the last of its steps, which exist. *)
THEOREM Unfold ==
  ASSUME Inductive, NEW env, NEW base, NEW seq, Len(seq) \in Nat
  PROVE  \E f : Steps(f, env, base, seq, Len(seq)) /\ Result(env, base, seq) = f[Len(seq)]
<1>0. ASSUME NEW N \in Nat
      PROVE  \E f : Steps(f, env, base, seq, N)
  <2> DEFINE S == {n \in Nat : \E f : Steps(f, env, base, seq, n)}
  <2>1. 0 \in S
    <3>1. Steps([k \in 0 .. 0 |-> base], env, base, seq, 0)
      BY DEF Steps
    <3> QED
      BY <3>1
  <2>2. ASSUME NEW n \in Nat, n \in S
        PROVE  n + 1 \in S
    <3>1. PICK f : Steps(f, env, base, seq, n)
      BY <2>2
    <3> DEFINE g == [k \in 0 .. n + 1 |-> IF k = n + 1 THEN Op(env, f[n], seq[n + 1]) ELSE f[k]]
    <3>2. g = [k \in 0 .. n + 1 |-> g[k]] /\ g[0] = base
      BY <3>1 DEF Steps
    <3>3. ASSUME NEW k \in 1 .. n + 1
          PROVE  g[k] = Op(env, g[k - 1], seq[k])
      <4>1. \A j \in 1 .. n : f[j] = Op(env, f[j - 1], seq[j])
        BY <3>1 DEF Steps
      <4>2. k - 1 \in 0 .. n /\ g[k - 1] = f[k - 1]
        OBVIOUS
      <4>3. CASE k = n + 1
        <5>1. g[k] = Op(env, f[n], seq[n + 1]) /\ k - 1 = n
          BY <4>3
        <5> QED
          BY <4>2, <4>3, <5>1
      <4>4. CASE k # n + 1
        <5>1. k \in 1 .. n /\ g[k] = f[k]
          BY <4>4
        <5> QED
          BY <4>1, <4>2, <5>1
      <4> QED
        BY <4>3, <4>4
    <3> HIDE DEF g
    <3>4. Steps(g, env, base, seq, n + 1)
      BY <3>2, <3>3 DEF Steps
    <3> QED
      BY <3>4
  <2> HIDE DEF S
  <2>3. Nat \subseteq S
    BY <2>1, <2>2 DEF Inductive
  <2> QED
    BY <2>3 DEF S
<1> DEFINE acc[k \in 0 .. Len(seq)] ==
             IF k = 0 THEN base ELSE CHOOSE r \in {Op(env, a, seq[k]) : a \in {acc[k - 1]}} : TRUE
<1>1. \E f : f = [k \in 0 .. Len(seq) |->
                    IF k = 0 THEN base ELSE CHOOSE r \in {Op(env, a, seq[k]) : a \in {f[k - 1]}} : TRUE]
  <2>1. PICK f : Steps(f, env, base, seq, Len(seq))
    BY <1>0
  <2>2. ASSUME NEW k \in 1 .. Len(seq)
        PROVE  f[k] = CHOOSE r \in {Op(env, a, seq[k]) : a \in {f[k - 1]}} : TRUE
    <3>1. {Op(env, a, seq[k]) : a \in {f[k - 1]}} = {Op(env, f[k - 1], seq[k])}
      OBVIOUS
    <3> QED
      BY <2>1, <3>1 DEF Steps
  <2>3. f = [k \in 0 .. Len(seq) |->
               IF k = 0 THEN base ELSE CHOOSE r \in {Op(env, a, seq[k]) : a \in {f[k - 1]}} : TRUE]
    BY <2>1, <2>2 DEF Steps
  <2> QED
    BY <2>3
<1>2. acc = [k \in 0 .. Len(seq) |->
               IF k = 0 THEN base ELSE CHOOSE r \in {Op(env, a, seq[k]) : a \in {acc[k - 1]}} : TRUE]
  BY <1>1
<1>3. Result(env, base, seq) = acc[Len(seq)]
  BY DEF Result
<1> HIDE DEF acc
<1>4. Steps(acc, env, base, seq, Len(seq))
  <2>1. acc = [k \in 0 .. Len(seq) |-> acc[k]] /\ acc[0] = base
    BY <1>2
  <2>2. ASSUME NEW k \in 1 .. Len(seq)
        PROVE  acc[k] = Op(env, acc[k - 1], seq[k])
    <3>1. acc[k] = CHOOSE r \in {Op(env, a, seq[k]) : a \in {acc[k - 1]}} : TRUE
      <4>1. k \in 0 .. Len(seq) /\ k # 0
        OBVIOUS
      <4>2. acc[k] = IF k = 0 THEN base
                     ELSE CHOOSE r \in {Op(env, a, seq[k]) : a \in {acc[k - 1]}} : TRUE
        BY <1>2, <4>1
      <4> QED
        BY <4>1, <4>2
    <3>2. {Op(env, a, seq[k]) : a \in {acc[k - 1]}} = {Op(env, acc[k - 1], seq[k])}
      OBVIOUS
    <3> QED
      BY <3>1, <3>2
  <2> QED
    BY <2>1, <2>2 DEF Steps
<1> QED
  BY <1>3, <1>4

(* An invariant of the steps holds of what FoldOnce computes. *)
THEOREM FoldInvariant ==
  ASSUME Inductive, NEW env, NEW base, NEW seq, Len(seq) \in Nat,
         P(env, 0, base),
         \A k \in 1 .. Len(seq) : \A a : P(env, k - 1, a) => P(env, k, Op(env, a, seq[k]))
  PROVE  P(env, Len(seq), Result(env, base, seq))
<1>1. PICK f : Steps(f, env, base, seq, Len(seq)) /\ Result(env, base, seq) = f[Len(seq)]
  BY Unfold
<1> DEFINE S == {n \in Nat : n <= Len(seq) => P(env, n, f[n])}
<1>2. 0 \in S
  BY <1>1 DEF Steps
<1>3. ASSUME NEW n \in Nat, n \in S
      PROVE  n + 1 \in S
  <2>1. CASE n + 1 <= Len(seq)
    <3>1. n + 1 \in 1 .. Len(seq) /\ (n + 1) - 1 = n
      BY <2>1
    <3>2. P(env, n, f[n])
      BY <1>3, <2>1
    <3>3. f[n + 1] = Op(env, f[n], seq[n + 1])
      BY <1>1, <3>1 DEF Steps
    <3> QED
      BY <3>1, <3>2, <3>3
  <2>2. CASE ~ (n + 1 <= Len(seq))
    BY <2>2
  <2> QED
    BY <2>1, <2>2
<1> HIDE DEF S
<1>4. Nat \subseteq S
  BY <1>2, <1>3 DEF Inductive
<1>5. P(env, Len(seq), f[Len(seq)])
  BY <1>4 DEF S
<1> QED
  BY <1>1, <1>5

=============================================================================
