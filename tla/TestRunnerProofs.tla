-------------------------- MODULE TestRunnerProofs --------------------------
(***************************************************************************)
(* For every number of cores and tests: on a machine with one package both *)
(* elections of the harness, which share one barrier, have at most one     *)
(* winner, and a run that ends with success is one and is fully reported.  *)
(***************************************************************************)
EXTENDS TestRunner, FiniteSetTheorems, TLAPS

-----------------------------------------------------------------------------
(* Sequences. *)
LEMMA SequenceOf ==
  ASSUME NEW S, NEW n \in Nat, NEW f \in [1 .. n -> S]
  PROVE  f \in Seq(S) /\ Len(f) = n
OBVIOUS

LEMMA EqualSequences ==
  ASSUME NEW S, NEW s \in Seq(S), NEW t \in Seq(S),
         Len(s) = Len(t), \A i \in 1 .. Len(s) : s[i] = t[i]
  PROVE  s = t
OBVIOUS

LEMMA Joined ==
  ASSUME NEW S, NEW s \in Seq(S), NEW t \in Seq(S)
  PROVE  /\ s \o t \in Seq(S) /\ Len(s \o t) = Len(s) + Len(t)
         /\ \A i \in 1 .. Len(s) + Len(t) :
              (s \o t)[i] = IF i <= Len(s) THEN s[i] ELSE t[i - Len(s)]
OBVIOUS

LEMMA Appended ==
  ASSUME NEW S, NEW s \in Seq(S), NEW x \in S
  PROVE  /\ Len(Append(s, x)) = Len(s) + 1 /\ Append(s, x)[Len(s) + 1] = x
         /\ \A i \in 1 .. Len(s) : Append(s, x)[i] = s[i]
OBVIOUS

-----------------------------------------------------------------------------
OnePackage == \A c, d \in Cores : Package[c] = Package[d]

N == Cardinality(Cores)
waiting(p) == {c \in Cores : phase[c] = p /\ pc[c] = "wait"}

BeforeBarrier == {"call_once", "new_barrier", "panic", "exit_failure"}

(* A core gets past its first call_once only when the barrier exists; one  *)
(* core at a time creates it.                                              *)
OnceInv ==
  /\ barriers[0].once = "Complete" =>
       barriers[0].num_threads = N /\ "topology" \in cpuid
  /\ \A c \in Cores :
       barriers[0].once = "Complete" \/ (phase[c] = 0 /\ pc[c] \in BeforeBarrier)
  /\ \A c \in Cores : pc[c] = "new_barrier" /\ BarrierOf(phase[c]) = 0 =>
       barriers[0].once = "Running"
  /\ \A c, d \in Cores :
       /\ pc[c] = "new_barrier" /\ BarrierOf(phase[c]) = 0
       /\ pc[d] = "new_barrier" /\ BarrierOf(phase[d]) = 0
       => c = d

(* The three rounds of the barrier of the elections: before the first one  *)
(* is decided, between the two, and after the second one.                  *)
First(p, l) == p = 0 /\ l \in BeforeBarrier \cup {"arrive", "wait"}
Middle(p, l) ==
  /\ p = 0 => l \in {"wait", "port_init", "running", "next_test"}
  /\ l \notin {"exit", "loop"}
Final(p, l) == p = LastPhase /\ l \in {"wait", "exit", "loop"}

Round0 ==
  /\ barriers[0].generation_id = 0
  /\ barriers[0].count = Cardinality(waiting(0)) /\ barriers[0].count < N
  /\ \A c \in Cores : First(phase[c], pc[c]) /\ (pc[c] = "wait" => local_gen[c] = 0)
  /\ leaders[0] = {} /\ leaders[LastPhase] = {}

Round1 ==
  /\ barriers[0].generation_id = 1
  /\ barriers[0].count = Cardinality(waiting(LastPhase)) /\ barriers[0].count < N
  /\ \A c \in Cores : Middle(phase[c], pc[c])
  /\ \A c \in waiting(LastPhase) : local_gen[c] = 1
  /\ \E d \in Cores : leaders[0] = {d}
  /\ leaders[LastPhase] = {}

Round2 ==
  /\ \A c \in Cores : Final(phase[c], pc[c])
  /\ \E d \in Cores : leaders[0] = {d}
  /\ \E d \in Cores : leaders[LastPhase] = {d}

RoundInv ==
  IF barriers[0].once = "Complete" THEN Round0 \/ Round1 \/ Round2
  ELSE leaders[0] = {} /\ leaders[LastPhase] = {}

(* What a core has behind it has held. *)
HasPassed(c, k) == phase[c] > k \/ (phase[c] = k /\ pc[c] \in {"dot", "next_test"})
HasFeatures(c, k) ==
  phase[c] > k \/ (phase[c] = k /\ pc[c] \in {"arrive", "wait", "assert", "dot", "next_test"})

PassedInv ==
  \A c \in Cores : \A k \in 1 .. Len(Tests) :
    /\ HasPassed(c, k) => <<c, k>> \notin fails
    /\ HasFeatures(c, k) /\ Tests[k] = "rendezvous" => "features" \in cpuid

(* Only the first election is followed by port::init. *)
PortInv == \A c \in Cores : pc[c] \in {"port_init", "running"} => phase[c] = 0

QemuInv == qemu = "success" => \E c \in Cores : pc[c] = "exit"

(* What the leader of the first election has written, by where it is,      *)
(* unless a panic is about to end the run.                                 *)
Text(i) == IF i = 1 THEN "Running" ELSE IF i <= LastPhase THEN "." ELSE "newline"
Written(p, l) ==
  IF p = LastPhase THEN LastPhase + 1 ELSE IF l = "next_test" THEN p + 1 ELSE p
Reported(texts, n) == Len(texts) = n /\ \A i \in 1 .. n : texts[i] = Text(i)

ReportInv ==
  \/ \E c \in Cores : pc[c] = "exit_failure"
  \/ leaders[0] = {} /\ Reported(console, 0)
  \/ \E d \in Cores : leaders[0] = {d} /\ Reported(console, Written(phase[d], pc[d]))

PlaceInv ==
  \A c \in Cores :
    /\ pc[c] = "running" => c \in leaders[0]
    /\ pc[c] \in {"assert", "dot"} => phase[c] \in 1 .. Len(Tests)

IInv ==
  /\ TypeOK /\ OnceInv /\ RoundInv /\ PortInv /\ PassedInv /\ QemuInv
  /\ PlaceInv /\ ReportInv

-----------------------------------------------------------------------------
LEMMA Phases ==
  /\ Len(Tests) \in Nat /\ LastPhase \in Nat \ {0}
  /\ LastPhase = Len(Tests) + 1
  /\ \A p \in 0 .. LastPhase :
       BarrierOf(p) \in BarrierIds /\ (BarrierOf(p) = 0 <=> p \in {0, LastPhase})
BY TestsAssumption DEF LastPhase, BarrierOf, BarrierIds

LEMMA CoresCardinality ==
  ASSUME NEW S \in SUBSET Cores
  PROVE  /\ IsFiniteSet(S) /\ Cardinality(S) \in Nat
         /\ Cardinality(S) = N => S = Cores
         /\ \A c \in Cores \ S : Cardinality(S \cup {c}) = Cardinality(S) + 1
         /\ Cardinality({}) = 0
         /\ N \in Nat \ {0}
         /\ Cardinality(S) <= N
<1>1. /\ IsFiniteSet(S) /\ Cardinality(S) \in Nat
      /\ Cardinality(S) = N => S = Cores
      /\ Cardinality(S) <= N
  BY TestsAssumption, FS_Subset, FS_CardinalityType DEF N
<1>2. \A c \in Cores \ S : Cardinality(S \cup {c}) = Cardinality(S) + 1
  BY <1>1, FS_AddElement
<1>3. N \in Nat \ {0}
  BY TestsAssumption, FS_CardinalityType, FS_EmptySet DEF N
<1> QED
  BY <1>1, <1>2, <1>3, FS_EmptySet

LEMMA NumCoresAll ==
  ASSUME OnePackage, NEW c \in Cores
  PROVE  num_cores(c) = N
<1>1. {d \in Cores : Package[d] = Package[c]} = Cores
  BY DEF OnePackage
<1> QED
  BY <1>1 DEF num_cores, N

(* Barrier::wait keeps the barrier well typed. *)
LEMMA BarrierTypes ==
  ASSUME NEW b \in OnceBarrier, NEW n \in Nat
  PROVE  /\ ClaimedOnce(b) \in OnceBarrier /\ CompletedOnce(n) \in OnceBarrier
         /\ Arrived(b) \in OnceBarrier
BY DEF OnceBarrier, OnceState, ClaimedOnce, CompletedOnce, Arrived, IsLastArrival

LEMMA LeaderAdded ==
  ASSUME NEW D, NEW f \in [D -> SUBSET Cores], NEW p \in D, NEW c \in Cores
  PROVE  [f EXCEPT ![p] = @ \cup {c}] \in [D -> SUBSET Cores]
<1>1. f[p] \cup {c} \in SUBSET Cores
  OBVIOUS
<1> QED
  BY <1>1

(* What follows Barrier::wait, phase by phase. *)
LEMMA AfterWaitCases ==
  ASSUME TypeOK, NEW c \in Cores, NEW is_leader \in BOOLEAN, AfterWait(c, is_leader)
  PROVE  /\ leaders' = IF is_leader /\ phase[c] \in {0, LastPhase}
                       THEN [leaders EXCEPT ![phase[c]] = @ \cup {c}] ELSE leaders
         /\ \E l \in {"port_init", "exit", "loop", "assert"} :
              /\ Goto(c, l)
              /\ phase[c] = 0 => l = "port_init"
              /\ phase[c] = LastPhase => l = IF is_leader THEN "exit" ELSE "loop"
              /\ phase[c] \notin {0, LastPhase} => l = "assert"
<1>1. DOMAIN leaders = {0, LastPhase}
  BY DEF TypeOK
<1>2. LastPhase # 0
  BY Phases
<1>3. CASE phase[c] = 0
  BY <1>1, <1>2, <1>3, Zenon DEF AfterWait
<1>4. CASE phase[c] = LastPhase
  BY <1>1, <1>2, <1>4, Zenon DEF AfterWait
<1>5. CASE phase[c] \notin {0, LastPhase}
  BY <1>1, <1>5, Zenon DEF AfterWait
<1> QED
  BY <1>3, <1>4, <1>5, Zenon

-----------------------------------------------------------------------------
LEMMA InitTypeOK == Init => TypeOK
<1> SUFFICES ASSUME Init PROVE TypeOK
  OBVIOUS
<1>1. NewOnce \in OnceBarrier
  BY DEF NewOnce, OnceBarrier, OnceState
<1> QED
  BY <1>1, Phases DEF Init, TypeOK, Labels

LEMMA StepTypeOK == TypeOK /\ [Next]_vars => TypeOK'
<1> SUFFICES ASSUME TypeOK, [Next]_vars PROVE TypeOK'
  OBVIOUS
<1> USE DEF environment, Goto, Labels
<1>1. CASE UNCHANGED vars
  BY <1>1 DEF vars, TypeOK
<1>2. ASSUME NEW c \in Cores, Run(c) PROVE TypeOK'
  <2>1. /\ BarrierOf(phase[c]) \in BarrierIds /\ barrier(c) \in OnceBarrier
        /\ phase[c] \in 0 .. LastPhase
    BY Phases DEF TypeOK, barrier
  <2>2. \A b \in OnceBarrier : SetBarrier(c, b) => barriers' \in [BarrierIds -> OnceBarrier]
    BY <2>1 DEF SetBarrier, TypeOK
  <2>3. AfterOnce(c) \in Labels
    BY DEF AfterOnce
  <2>4. CASE ClaimOnce(c)
    <3>1. barriers' \in [BarrierIds -> OnceBarrier]
      BY <2>1, <2>2, <2>4, BarrierTypes, Zenon DEF ClaimOnce
    <3> QED
      BY <2>4, <3>1 DEF ClaimOnce, TypeOK
  <2>5. CASE NewBarrier(c)
    <3>1. num_cores(c) \in Nat
      <4>1. {d \in Cores : Package[d] = Package[c]} \in SUBSET Cores
        OBVIOUS
      <4> QED
        BY <4>1, CoresCardinality DEF num_cores
    <3>2. barriers' \in [BarrierIds -> OnceBarrier]
      BY <2>1, <2>2, <2>5, <3>1, BarrierTypes, Zenon DEF NewBarrier
    <3> QED
      BY <2>3, <2>5, <3>2, Zenon DEF NewBarrier, TypeOK
  <2>6. ASSUME NEW l \in Labels, Goto(c, l) PROVE pc' \in [Cores -> Labels]
    BY <2>6 DEF TypeOK
  <2>14. CASE NewBarrierPanics(c) \/ FindOnce(c) \/ ReadApicId(c) \/ PortInit(c)
              \/ AssertTest(c)
    <3>1. pc' \in [Cores -> Labels]
      BY <2>3, <2>6, <2>14, Zenon DEF NewBarrierPanics, FindOnce, ReadApicId, PortInit, AssertTest
    <3>2. UNCHANGED <<phase, barriers, local_gen, leaders, console, qemu, fails, cpuid>>
      BY <2>14 DEF NewBarrierPanics, FindOnce, ReadApicId, PortInit, AssertTest
    <3> QED
      BY <3>1, <3>2, Zenon DEF TypeOK
  <2>15. CASE Exit(c) \/ ExitFailure(c)
    BY <2>15, Zenon DEF Exit, ExitFailure, TypeOK
  <2>16. \A text \in {"Running", ".", "newline", "panic"} :
           Write(text) => console' \in Seq({"Running", ".", "newline", "panic"})
    BY DEF Write, TypeOK
  <2>7. ASSUME NEW is_leader \in BOOLEAN, AfterWait(c, is_leader)
        PROVE  pc' \in [Cores -> Labels] /\ leaders' \in [{0, LastPhase} -> SUBSET Cores]
    <3>1. \/ leaders' = leaders
          \/ phase[c] \in {0, LastPhase} /\ leaders' = [leaders EXCEPT ![phase[c]] = @ \cup {c}]
      BY <2>7, AfterWaitCases, Zenon
    <3>2. \E l \in {"port_init", "exit", "loop", "assert"} : Goto(c, l)
      BY <2>7, AfterWaitCases, Zenon
    <3>3. leaders' \in [{0, LastPhase} -> SUBSET Cores]
      <4>1. leaders \in [{0, LastPhase} -> SUBSET Cores]
        BY DEF TypeOK
      <4>2. phase[c] \in {0, LastPhase} =>
              [leaders EXCEPT ![phase[c]] = @ \cup {c}] \in [{0, LastPhase} -> SUBSET Cores]
        BY <4>1, LeaderAdded
      <4> QED
        BY <3>1, <4>1, <4>2, Zenon
    <3> QED
      BY <2>6, <3>2, <3>3, Zenon
  <2>8. CASE Arrive(c)
    <3>1. barriers' \in [BarrierIds -> OnceBarrier]
      BY <2>1, <2>2, <2>8, BarrierTypes DEF Arrive
    <3>2. pc' \in [Cores -> Labels] /\ leaders' \in [{0, LastPhase} -> SUBSET Cores]
      BY <2>7, <2>8, Zenon DEF Arrive, TypeOK
    <3>3. local_gen' \in [Cores -> Nat]
      BY <2>1, <2>8 DEF Arrive, OnceBarrier, TypeOK
    <3> QED
      BY <2>8, <3>1, <3>2, <3>3 DEF Arrive, TypeOK
  <2>9. CASE Leave(c)
    BY <2>7, <2>9, Zenon DEF Leave, TypeOK
  <2>10. CASE Running(c) \/ Panic(c)
    <3>1. console' \in Seq({"Running", ".", "newline", "panic"})
      BY <2>10, <2>16 DEF Running, Panic
    <3>2. pc' \in [Cores -> Labels]
      BY <2>6, <2>10 DEF Running, Panic
    <3> QED
      BY <2>10, <3>1, <3>2, ZenonT(60) DEF Running, Panic, TypeOK
  <2>11. CASE StartTest(c)
    <3>1. phase[c] + 1 \in 0 .. LastPhase
      BY <2>1, <2>11, Phases DEF StartTest
    <3> QED
      BY <2>11, <3>1, Zenon DEF StartTest, TypeOK
  <2>12. CASE Dot(c)
    <3>1. console' \in Seq({"Running", ".", "newline", "panic"})
      BY <2>12, <2>16 DEF Dot, TypeOK
    <3> QED
      BY <2>12, <3>1, Zenon DEF Dot, TypeOK
  <2>13. CASE EndTests(c)
    <3>1. LastPhase \in 0 .. LastPhase
      BY Phases
    <3>2. console' \in Seq({"Running", ".", "newline", "panic"})
      BY <2>13, <2>16 DEF EndTests, TypeOK
    <3> QED
      BY <2>13, <3>1, <3>2 DEF EndTests, TypeOK
  <2> QED
    BY <1>2, <2>4, <2>5, <2>8, <2>9, <2>10, <2>11, <2>12, <2>13, Zenon,
       <2>14, <2>15 DEF Run
<1> QED
  BY <1>1, <1>2 DEF Next

(* The state of the harness stays well typed, whatever CPUID says, for     *)
(* every number of cores, packages and tests.                              *)
THEOREM TypeCorrect == Spec => []TypeOK
BY InitTypeOK, StepTypeOK, PTL DEF Spec

-----------------------------------------------------------------------------
Elections == {0, LastPhase}

(* What a step that is not part of an election may do to a core. *)
LocalMove(p, l, q, m) ==
  /\ ~(p \in Elections /\ l = "wait") /\ ~(q \in Elections /\ m = "wait")
  /\ l \notin {"exit", "loop"}
  /\ First(p, l) => First(q, m)
  /\ Middle(p, l) => Middle(q, m)
  /\ m = "new_barrier" => q \notin Elections
  /\ \/ barriers[0].once = "Complete"
     \/ p = 0 /\ l \in BeforeBarrier => q = 0 /\ m \in BeforeBarrier

LocalStep(c) ==
  /\ \E q \in 0 .. LastPhase, m \in Labels :
       /\ phase' = [phase EXCEPT ![c] = q] /\ pc' = [pc EXCEPT ![c] = m]
       /\ LocalMove(phase[c], pc[c], q, m)
  /\ barriers'[0] = barriers[0]
  /\ \A d \in Cores \ {c} : local_gen'[d] = local_gen[d]
  /\ UNCHANGED <<leaders, cpuid>>

ElectionStep(c) ==
  /\ phase[c] \in Elections
  /\ ClaimOnce(c) \/ NewBarrier(c) \/ Arrive(c) \/ Leave(c)

LEMMA RunSteps ==
  ASSUME NEW c \in Cores, TypeOK, Run(c)
  PROVE  LocalStep(c) \/ ElectionStep(c) \/ Exit(c) \/ ExitFailure(c)
<1> USE DEF Elections
<1>1. /\ phase[c] \in 0 .. LastPhase /\ pc[c] \in Labels
      /\ BarrierOf(phase[c]) \in BarrierIds
      /\ BarrierOf(phase[c]) = 0 <=> phase[c] \in {0, LastPhase}
      /\ LastPhase \in Nat \ {0} /\ Len(Tests) \in Nat /\ LastPhase = Len(Tests) + 1
  BY Phases DEF TypeOK
<1>2. phase = [phase EXCEPT ![c] = phase[c]] /\ DOMAIN leaders = {0, LastPhase}
  BY DEF TypeOK
<1>3. \A b : SetBarrier(c, b) /\ phase[c] \notin {0, LastPhase} => barriers'[0] = barriers[0]
  BY <1>1 DEF SetBarrier, TypeOK
<1>4. ASSUME NEW m \in Labels, Goto(c, m), UNCHANGED <<phase, leaders, cpuid>>,
             barriers'[0] = barriers[0], \A d \in Cores \ {c} : local_gen'[d] = local_gen[d],
             LocalMove(phase[c], pc[c], phase[c], m)
      PROVE  LocalStep(c)
  BY <1>1, <1>2, <1>4, ZenonT(60) DEF LocalStep, Goto
<1> USE DEF environment, First, Middle, LocalMove, BeforeBarrier, Labels
<1>5. CASE ClaimOnce(c) /\ phase[c] \notin {0, LastPhase}
  BY <1>1, <1>3, <1>4, <1>5, Zenon DEF ClaimOnce
<1>6. CASE NewBarrier(c) /\ phase[c] \notin {0, LastPhase}
  BY <1>1, <1>2, <1>3, <1>4, <1>6, Zenon DEF NewBarrier, AfterOnce
<1>7. CASE NewBarrierPanics(c)
  BY <1>1, <1>4, <1>7, Zenon DEF NewBarrierPanics
<1>8. CASE FindOnce(c)
  <2>1. phase[c] \in {0, LastPhase} => barriers[0].once = "Complete"
    BY <1>1, <1>8 DEF FindOnce, barrier
  <2>2. PICK m \in {"arrive", "apic_id"} :
          Goto(c, m) /\ (phase[c] \in {0, LastPhase} <=> m = "arrive")
    BY <1>2, <1>8 DEF FindOnce, AfterOnce
  <2>3. LocalMove(phase[c], pc[c], phase[c], m)
    BY <1>1, <1>8, <2>1, <2>2, Zenon DEF FindOnce
  <2> QED
    BY <1>4, <1>8, <2>2, <2>3, Zenon DEF FindOnce
<1>9. CASE ReadApicId(c)
  BY <1>1, <1>4, <1>9, Zenon DEF ReadApicId
<1>10. CASE Arrive(c) /\ phase[c] \notin {0, LastPhase}
  <2>1. barriers'[0] = barriers[0] /\ \A d \in Cores \ {c} : local_gen'[d] = local_gen[d]
    BY <1>3, <1>10 DEF Arrive, TypeOK
  <2>2. \E m \in {"wait", "assert"} : Goto(c, m) /\ UNCHANGED leaders
    BY <1>10, AfterWaitCases, Zenon DEF Arrive
  <2> QED
    BY <1>1, <1>4, <1>10, <2>1, <2>2 DEF Arrive
<1>11. CASE Leave(c) /\ phase[c] \notin {0, LastPhase}
  <2>1. Goto(c, "assert") /\ UNCHANGED leaders
    BY <1>11, AfterWaitCases, Zenon DEF Leave
  <2> QED
    BY <1>1, <1>4, <1>11, <2>1 DEF Leave
<1>12. CASE PortInit(c) \/ Running(c) \/ AssertTest(c) \/ Dot(c) \/ Panic(c)
  BY <1>1, <1>4, <1>12 DEF PortInit, Running, AssertTest, Dot, Panic
<1>13. CASE StartTest(c)
  <2>1. PICK m \in {"call_once", "assert"} : Goto(c, m)
    BY <1>13 DEF StartTest
  <2>2. /\ phase[c] + 1 \in 0 .. LastPhase
        /\ LocalMove(phase[c], pc[c], phase[c] + 1, m)
    BY <1>1, <1>13 DEF StartTest
  <2> QED
    BY <1>13, <2>1, <2>2, Zenon DEF StartTest, LocalStep, Goto
<1>14. CASE EndTests(c)
  <2>1. LastPhase \in 0 .. LastPhase /\ LocalMove(phase[c], pc[c], LastPhase, "call_once")
    BY <1>1, <1>14 DEF EndTests
  <2> QED
    BY <1>14, <2>1, ZenonT(60) DEF EndTests, LocalStep, Goto
<1> QED
  BY <1>5, <1>6, <1>7, <1>8, <1>9, <1>10, <1>11, <1>12, <1>13, <1>14, Zenon DEF Run, ElectionStep

LEMMA OnceStep ==
  ASSUME NEW c \in Cores, OnePackage, TypeOK, OnceInv, Run(c)
  PROVE  OnceInv'
<1> USE DEF Elections, environment, Goto, BeforeBarrier
<1>1. /\ LastPhase \in Nat \ {0} /\ 0 \in BarrierIds
      /\ \A p \in 0 .. LastPhase : BarrierOf(p) = 0 <=> p \in {0, LastPhase}
  BY Phases DEF BarrierIds
<1>2. phase \in [Cores -> 0 .. LastPhase] /\ pc \in [Cores -> Labels]
      /\ barriers \in [BarrierIds -> OnceBarrier]
  BY DEF TypeOK
<1>3. CASE LocalStep(c)
  <2>1. PICK q \in 0 .. LastPhase, m \in Labels :
          /\ phase' = [phase EXCEPT ![c] = q] /\ pc' = [pc EXCEPT ![c] = m]
          /\ LocalMove(phase[c], pc[c], q, m)
    BY <1>3, ZenonT(60) DEF LocalStep
  <2> QED
    BY <1>1, <1>2, <1>3, <2>1 DEF LocalStep, LocalMove, OnceInv
<1>4. CASE ElectionStep(c)
  <2>1. phase[c] \in {0, LastPhase} /\ BarrierOf(phase[c]) = 0 /\ barrier(c) = barriers[0]
    BY <1>1, <1>2, <1>4 DEF ElectionStep, barrier
  <2>2. \A b : SetBarrier(c, b) => barriers'[0] = b
    BY <1>1, <1>2, <2>1 DEF SetBarrier
  <2>3. CASE ClaimOnce(c)
    <3>1. barriers'[0].once = "Running" /\ barriers[0].once = "Incomplete"
      BY <1>1, <1>2, <2>1, <2>2, <2>3 DEF ClaimOnce, ClaimedOnce, OnceBarrier
    <3> QED
      BY <1>1, <1>2, <2>1, <2>3, <3>1 DEF ClaimOnce, OnceInv
  <2>4. CASE NewBarrier(c)
    <3>1. barriers'[0].once = "Complete" /\ barriers'[0].num_threads = N
      BY <2>2, <2>4, NumCoresAll DEF NewBarrier, CompletedOnce
    <3>2. \A d \in Cores : pc'[d] # "new_barrier" \/ BarrierOf(phase[d]) # 0
      BY <1>2, <2>1, <2>4 DEF NewBarrier, AfterOnce, OnceInv, Labels, TypeOK
    <3>3. phase' = phase /\ "topology" \in cpuid'
      BY <2>4 DEF NewBarrier
    <3> QED
      BY <3>1, <3>2, <3>3 DEF OnceInv, BarrierOf
  <2>5. CASE Arrive(c) \/ Leave(c)
    <3>1. barriers[0].once = "Complete"
      BY <2>5, Zenon DEF Arrive, Leave, OnceInv
    <3>2. barriers'[0].once = "Complete" /\ barriers'[0].num_threads = barriers[0].num_threads
      <4>1. barriers'[0] = Arrived(barriers[0]) \/ barriers'[0] = barriers[0]
        BY <2>1, <2>2, <2>5, Zenon DEF Arrive, Leave
      <4> QED
        BY <3>1, <4>1 DEF Arrived
    <3>3. \E m \in {"wait", "port_init", "exit", "loop", "assert"} : pc' = [pc EXCEPT ![c] = m]
      BY <2>5, AfterWaitCases, Zenon DEF Arrive, Leave
    <3> QED
      BY <1>2, <2>5, <3>1, <3>2, <3>3, Zenon DEF Arrive, Leave, OnceInv
  <2> QED
    BY <1>4, <2>3, <2>4, <2>5 DEF ElectionStep
<1>5. CASE Exit(c) \/ ExitFailure(c)
  BY <1>5 DEF Exit, ExitFailure, OnceInv
<1> QED
  BY <1>3, <1>4, <1>5, RunSteps

(* A step of core c that is not part of an election keeps the round. *)
LEMMA RoundLocalStep ==
  ASSUME NEW c \in Cores, TypeOK, RoundInv, LocalStep(c)
  PROVE  RoundInv'
<1>1. LastPhase \in Nat \ {0}
  BY Phases
<1>2. phase \in [Cores -> 0 .. LastPhase] /\ pc \in [Cores -> Labels]
  BY DEF TypeOK
<1>3. PICK q \in 0 .. LastPhase, m \in Labels :
        /\ phase' = [phase EXCEPT ![c] = q] /\ pc' = [pc EXCEPT ![c] = m]
        /\ LocalMove(phase[c], pc[c], q, m)
  BY Zenon DEF LocalStep
<1>4. /\ barriers'[0] = barriers[0] /\ UNCHANGED leaders
      /\ \A d \in Cores \ {c} : local_gen'[d] = local_gen[d]
  BY DEF LocalStep
<1>5. \A p \in Elections : waiting(p)' = waiting(p) /\ c \notin waiting(p)
  BY <1>2, <1>3 DEF waiting, LocalMove, Elections
<1>6. \A d \in Cores \ {c} : phase'[d] = phase[d] /\ pc'[d] = pc[d]
  BY <1>2, <1>3
<1>7. phase'[c] = q /\ pc'[c] = m
  BY <1>2, <1>3
<1>8. CASE barriers[0].once # "Complete"
  BY <1>4, <1>8 DEF RoundInv
<1>9. ASSUME Round0 PROVE Round0'
  <2>1. waiting(0)' = waiting(0)
    BY <1>5 DEF Elections
  <2>2. ASSUME NEW d \in Cores
        PROVE  First(phase'[d], pc'[d]) /\ (pc'[d] = "wait" => local_gen'[d] = 0)
    <3>1. CASE d = c
      BY <1>3, <1>7, <1>9, <3>1 DEF Round0, LocalMove, First, Elections
    <3>2. CASE d # c
      BY <1>4, <1>6, <1>9, <2>2, <3>2, Zenon DEF Round0
    <3> QED
      BY <3>1, <3>2
  <2> QED
    BY <1>4, <1>9, <2>1, <2>2 DEF Round0, First
<1>10. ASSUME Round1 PROVE Round1'
  <2>1. waiting(LastPhase)' = waiting(LastPhase) /\ c \notin waiting(LastPhase)
    BY <1>5 DEF Elections
  <2>2. ASSUME NEW d \in Cores PROVE Middle(phase'[d], pc'[d])
    <3>1. CASE d = c
      BY <1>3, <1>7, <1>10, <3>1 DEF Round1, LocalMove
    <3>2. CASE d # c
      BY <1>6, <1>10, <2>2, <3>2, Zenon DEF Round1
    <3> QED
      BY <3>1, <3>2
  <2>3. \A d \in waiting(LastPhase)' : local_gen'[d] = 1
    BY <1>4, <1>10, <2>1 DEF Round1, waiting
  <2> QED
    BY <1>4, <1>10, <2>1, <2>2, <2>3 DEF Round1, Middle
<1>11. ~Round2
  BY <1>3 DEF Round2, LocalMove, Final, Elections
<1> QED
  BY <1>4, <1>8, <1>9, <1>10, <1>11 DEF RoundInv

(* An arrival in the election of phase p, in the round in which the waiting *)
(* cores of that phase are counted.                                        *)
LEMMA ArriveInElection ==
  ASSUME NEW c \in Cores, TypeOK, OnceInv, Arrive(c), NEW p \in Elections, phase[c] = p,
         barriers[0].count = Cardinality(waiting(p)), barriers[0].count < N
  PROVE  \/ /\ pc' = [pc EXCEPT ![c] = "wait"] /\ UNCHANGED leaders
            /\ waiting(p)' = waiting(p) \cup {c}
            /\ barriers'[0].generation_id = barriers[0].generation_id
            /\ barriers'[0].count = Cardinality(waiting(p)') /\ barriers'[0].count < N
         \/ /\ pc' = [pc EXCEPT ![c] = IF p = 0 THEN "port_init" ELSE "exit"]
            /\ leaders' = [leaders EXCEPT ![p] = @ \cup {c}]
            /\ waiting(p) = Cores \ {c}
            /\ barriers'[0].generation_id = barriers[0].generation_id + 1
            /\ barriers'[0].count = 0
<1> USE DEF Elections, environment
<1>1. /\ LastPhase \in Nat \ {0} /\ 0 \in BarrierIds /\ BarrierOf(p) = 0
  BY Phases DEF BarrierIds
<1>2. /\ pc \in [Cores -> Labels] /\ phase \in [Cores -> 0 .. LastPhase]
      /\ barriers \in [BarrierIds -> OnceBarrier] /\ phase' = phase /\ pc[c] = "arrive"
  BY DEF TypeOK, Arrive
<1>3. barrier(c) = barriers[0] /\ barriers'[0] = Arrived(barriers[0])
  BY <1>1, <1>2 DEF barrier, Arrive, SetBarrier
<1>4. waiting(p) \in SUBSET Cores /\ c \notin waiting(p)
  BY <1>2 DEF waiting
<1>5. /\ waiting(p) \cup {c} \in SUBSET Cores
      /\ Cardinality(waiting(p) \cup {c}) = barriers[0].count + 1
      /\ barriers[0].count \in Nat /\ N \in Nat
  BY <1>4, CoresCardinality
<1>6. barriers[0].num_threads = N
  BY <1>2 DEF OnceInv, BeforeBarrier
<1>7. CASE IsLastArrival(barriers[0])
  <2>1. AfterWait(c, TRUE)
    BY <1>3, <1>7, Zenon DEF Arrive
  <2>2. /\ leaders' = [leaders EXCEPT ![p] = @ \cup {c}]
        /\ pc' = [pc EXCEPT ![c] = IF p = 0 THEN "port_init" ELSE "exit"]
    BY <1>1, <2>1, AfterWaitCases, ZenonT(60) DEF Goto
  <2>3. waiting(p) \cup {c} = Cores
    <3>1. Cardinality(waiting(p) \cup {c}) = N
      BY <1>5, <1>6, <1>7 DEF IsLastArrival
    <3> QED
      BY <1>5, <3>1, CoresCardinality
  <2>4. barriers'[0].generation_id = barriers[0].generation_id + 1 /\ barriers'[0].count = 0
    BY <1>3, <1>7 DEF Arrived
  <2> QED
    BY <1>4, <2>2, <2>3, <2>4
<1>8. CASE ~IsLastArrival(barriers[0])
  <2>1. pc' = [pc EXCEPT ![c] = "wait"] /\ UNCHANGED leaders
    BY <1>3, <1>8 DEF Arrive, Goto
  <2>2. waiting(p)' = waiting(p) \cup {c}
    BY <1>2, <2>1, Zenon DEF waiting
  <2>3. /\ barriers'[0].generation_id = barriers[0].generation_id
        /\ barriers'[0].count = barriers[0].count + 1
    BY <1>3, <1>8 DEF Arrived
  <2>4. barriers[0].count + 1 < N
    BY <1>5, <1>6, <1>8 DEF IsLastArrival
  <2> QED
    BY <1>5, <2>1, <2>2, <2>3, <2>4, Zenon
<1> QED
  BY <1>7, <1>8

LEMMA RoundStep ==
  ASSUME NEW c \in Cores, OnePackage, TypeOK, OnceInv, RoundInv, Run(c)
  PROVE  RoundInv'
<1> USE DEF Elections, environment
<1>1. LastPhase \in Nat \ {0} /\ 0 \in BarrierIds /\ BarrierOf(0) = 0 /\ BarrierOf(LastPhase) = 0
  BY Phases DEF BarrierIds
<1>2. /\ pc \in [Cores -> Labels] /\ phase \in [Cores -> 0 .. LastPhase]
      /\ barriers \in [BarrierIds -> OnceBarrier]
      /\ leaders \in [{0, LastPhase} -> SUBSET Cores] /\ local_gen \in [Cores -> Nat]
  BY DEF TypeOK
<1>3. Cardinality({}) = 0 /\ N \in Nat \ {0}
  BY CoresCardinality
<1>4. CASE LocalStep(c)
  BY <1>4, RoundLocalStep, Zenon
<1>5. CASE Exit(c) \/ ExitFailure(c)
  BY <1>5, Zenon DEF Exit, ExitFailure, RoundInv, Round0, Round1, Round2, waiting
<1>6. CASE ElectionStep(c)
  <2>1. phase[c] \in {0, LastPhase} /\ barrier(c) = barriers[0]
    BY <1>1, <1>6 DEF ElectionStep, barrier
  <2>2. \A b : SetBarrier(c, b) => barriers'[0] = b
    BY <1>1, <1>2, <2>1 DEF SetBarrier
  <2>3. CASE ClaimOnce(c)
    <3>1. barriers[0].once = "Incomplete" /\ barriers'[0].once = "Running" /\ UNCHANGED leaders
      BY <1>1, <1>2, <2>1, <2>2, <2>3, SMTT(40) DEF ClaimOnce, ClaimedOnce, OnceBarrier
    <3> QED
      BY <3>1 DEF RoundInv
  <2>4. CASE NewBarrier(c)
    <3>1. /\ barriers'[0] = CompletedOnce(num_cores(c))
          /\ UNCHANGED <<leaders, phase, local_gen>> /\ pc[c] = "new_barrier"
      BY <2>2, <2>4, Zenon DEF NewBarrier
    <3>2. barriers[0].once # "Complete"
      BY <1>1, <2>1, <3>1, Zenon DEF OnceInv
    <3>3. /\ \A d \in Cores : phase[d] = 0 /\ pc[d] \in BeforeBarrier
          /\ leaders[0] = {} /\ leaders[LastPhase] = {}
      BY <3>2 DEF OnceInv, RoundInv
    <3>4. pc' = [pc EXCEPT ![c] = "arrive"]
      BY <1>2, <2>1, <2>4, ZenonT(60) DEF NewBarrier, AfterOnce, Goto
    <3>5. \A d \in Cores : First(phase'[d], pc'[d]) /\ pc'[d] # "wait"
      BY <1>2, <3>1, <3>3, <3>4 DEF First, BeforeBarrier
    <3>6. waiting(0)' = {}
      BY <3>5 DEF waiting
    <3>7. /\ barriers'[0].generation_id = 0 /\ barriers'[0].count = 0
          /\ barriers'[0].once = "Complete"
      BY <3>1 DEF CompletedOnce
    <3>8. barriers'[0].count = Cardinality(waiting(0)') /\ barriers'[0].count < N
      <4>1. \A n \in Nat \ {0} : 0 < n
        OBVIOUS
      <4> QED
        BY <1>3, <3>6, <3>7, <4>1, Zenon
    <3>9. Round0'
      BY <3>1, <3>3, <3>5, <3>7, <3>8, Zenon DEF Round0
    <3> QED
      BY <3>7, <3>9, Zenon DEF RoundInv
  <2>5. CASE Arrive(c)
    <3>1. barriers[0].once = "Complete" /\ pc[c] = "arrive" /\ UNCHANGED phase
      BY <2>5, Zenon DEF Arrive, OnceInv, BeforeBarrier
    <3>2. barriers'[0].once = "Complete" /\ local_gen' = [local_gen EXCEPT ![c] = barriers[0].generation_id]
      BY <2>1, <2>2, <2>5, <3>1 DEF Arrive, Arrived
    <3>3. CASE Round0
      <4>1. phase[c] = 0 /\ \A d \in Cores : phase[d] = 0
        BY <3>3, Zenon DEF Round0, First
      <4>2. CASE /\ pc' = [pc EXCEPT ![c] = "wait"] /\ UNCHANGED leaders
                 /\ barriers'[0].generation_id = barriers[0].generation_id
                 /\ barriers'[0].count = Cardinality(waiting(0)') /\ barriers'[0].count < N
        <5>1. ASSUME NEW d \in Cores
              PROVE  First(phase'[d], pc'[d]) /\ (pc'[d] = "wait" => local_gen'[d] = 0)
          BY <1>2, <3>1, <3>2, <3>3, <4>2, Zenon DEF Round0, First
        <5> QED
          BY <3>2, <3>3, <4>2, <5>1, Zenon DEF Round0, RoundInv, First
      <4>3. CASE /\ pc' = [pc EXCEPT ![c] = "port_init"]
                 /\ leaders' = [leaders EXCEPT ![0] = @ \cup {c}]
                 /\ waiting(0) = Cores \ {c}
                 /\ barriers'[0].generation_id = barriers[0].generation_id + 1
                 /\ barriers'[0].count = 0
        <5>1. \A d \in Cores : pc'[d] \in {"wait", "port_init"} /\ phase'[d] = 0
          BY <1>2, <3>1, <4>1, <4>3, Zenon DEF waiting
        <5>2. waiting(LastPhase)' = {}
          BY <1>1, <5>1, Zenon DEF waiting
        <5>3. leaders'[0] = {c} /\ leaders'[LastPhase] = {}
          BY <1>1, <1>2, <3>3, <4>3, Zenon DEF Round0
        <5>4. barriers'[0].generation_id = 1
          BY <3>3, <4>3 DEF Round0
        <5> QED
          BY <1>3, <3>2, <4>3, <5>1, <5>2, <5>3, <5>4 DEF Round1, RoundInv, Middle
      <4> QED
        BY <2>5, <3>3, <4>1, <4>2, <4>3, ArriveInElection, Zenon DEF Round0
    <3>4. CASE Round1
      <4>1. phase[c] = LastPhase
        BY <2>1, <3>1, <3>4, Zenon DEF Round1, Middle
      <4>2. CASE /\ pc' = [pc EXCEPT ![c] = "wait"] /\ UNCHANGED leaders
                 /\ waiting(LastPhase)' = waiting(LastPhase) \cup {c}
                 /\ barriers'[0].generation_id = barriers[0].generation_id
                 /\ barriers'[0].count = Cardinality(waiting(LastPhase)') /\ barriers'[0].count < N
        <5>1. \A d \in Cores : Middle(phase'[d], pc'[d])
          BY <1>1, <1>2, <3>1, <3>4, <4>1, <4>2, Zenon DEF Round1, Middle
        <5>2. \A d \in waiting(LastPhase)' : local_gen'[d] = 1
          BY <1>2, <3>2, <3>4, <4>2, Zenon DEF Round1, waiting
        <5> QED
          BY <3>2, <3>4, <4>2, <5>1, <5>2, Zenon DEF Round1, RoundInv, Middle
      <4>3. CASE /\ pc' = [pc EXCEPT ![c] = "exit"]
                 /\ leaders' = [leaders EXCEPT ![LastPhase] = @ \cup {c}]
                 /\ waiting(LastPhase) = Cores \ {c}
        <5>1. \A d \in Cores : Final(phase'[d], pc'[d])
          BY <1>2, <3>1, <4>1, <4>3, Zenon DEF waiting, Final
        <5>2. leaders'[LastPhase] = {c} /\ leaders'[0] = leaders[0]
          BY <1>1, <1>2, <3>4, <4>3, Zenon DEF Round1
        <5> QED
          BY <3>2, <3>4, <5>1, <5>2, Zenon DEF Round1, Round2, RoundInv, Final
      <4> QED
        BY <1>1, <2>5, <3>4, <4>1, <4>2, <4>3, ArriveInElection, Zenon DEF Round1
    <3>5. ~Round2
      BY <3>1 DEF Round2, Final
    <3> QED
      BY <3>1, <3>3, <3>4, <3>5, Zenon DEF RoundInv
  <2>6. CASE Leave(c)
    <3>1. /\ barriers[0].once = "Complete" /\ pc[c] = "wait"
          /\ UNCHANGED <<phase, barriers, local_gen, leaders>>
      BY <2>6, AfterWaitCases, Zenon DEF Leave, OnceInv, BeforeBarrier
    <3>2. pc' = [pc EXCEPT ![c] = IF phase[c] = 0 THEN "port_init" ELSE "loop"]
      BY <1>1, <2>1, <2>6, AfterWaitCases, Zenon DEF Leave, Goto
    <3>3. local_gen[c] # barriers[0].generation_id \/ barriers[0].count >= N
      BY <2>1, <2>6, <3>1 DEF Leave, MayLeave, OnceInv
    <3>4. barriers[0].count \in Nat
      BY <1>1, <1>2 DEF OnceBarrier
    <3>5. ~Round0
      BY <1>3, <3>1, <3>3, <3>4 DEF Round0
    <3>6. CASE Round1
      <4>1. phase[c] = 0
        <5>1. c \notin waiting(LastPhase)
          BY <1>3, <3>3, <3>4, <3>6 DEF Round1
        <5> QED
          BY <2>1, <3>1, <5>1, Zenon DEF waiting
      <4>2. pc' = [pc EXCEPT ![c] = "port_init"] /\ waiting(LastPhase)' = waiting(LastPhase)
        BY <1>1, <1>2, <3>1, <3>2, <4>1, Zenon DEF waiting
      <4>3. \A d \in Cores : Middle(phase'[d], pc'[d])
        BY <1>2, <3>1, <3>6, <4>1, <4>2, Zenon DEF Round1, Middle
      <4> QED
        BY <3>1, <3>6, <4>2, <4>3, Zenon DEF Round1, RoundInv, Middle
    <3>7. CASE Round2
      <4>1. \A d \in Cores : Final(phase'[d], pc'[d])
        BY <1>1, <1>2, <3>1, <3>2, <3>7, Zenon DEF Round2, Final
      <4> QED
        BY <3>1, <3>7, <4>1 DEF Round2, RoundInv, Final
    <3> QED
      BY <3>1, <3>5, <3>6, <3>7, SMTT(40) DEF RoundInv
  <2> QED
    BY <1>6, <2>3, <2>4, <2>5, <2>6 DEF ElectionStep
<1> QED
  BY <1>4, <1>5, <1>6, RunSteps

-----------------------------------------------------------------------------
LEMMA PortStep ==
  ASSUME NEW c \in Cores, TypeOK, PortInv, Run(c)
  PROVE  PortInv'
<1> USE DEF Goto
<1>1. pc \in [Cores -> Labels] /\ phase \in [Cores -> 0 .. LastPhase]
  BY DEF TypeOK
<1>2. CASE Arrive(c) \/ Leave(c)
  <2>1. \E m \in {"wait", "port_init", "exit", "loop", "assert"} :
          Goto(c, m) /\ (m = "port_init" => phase[c] = 0)
    BY <1>2, AfterWaitCases, ZenonT(60) DEF Arrive, Leave
  <2> QED
    BY <1>1, <1>2, <2>1, Zenon DEF Arrive, Leave, PortInv
<1>3. CASE NewBarrier(c) \/ FindOnce(c)
  BY <1>1, <1>3, Zenon DEF NewBarrier, FindOnce, AfterOnce, PortInv
<1>4. CASE PortInit(c) \/ Running(c)
  BY <1>1, <1>4, Zenon DEF PortInit, Running, PortInv
<1>5. CASE StartTest(c) \/ EndTests(c)
  BY <1>1, <1>5, Zenon DEF StartTest, EndTests, PortInv
<1>6. CASE ClaimOnce(c) \/ NewBarrierPanics(c) \/ ReadApicId(c) \/ AssertTest(c) \/ Dot(c)
             \/ Panic(c)
  BY <1>1, <1>6 DEF ClaimOnce, NewBarrierPanics, ReadApicId, AssertTest, Dot, Panic, PortInv
<1>7. CASE Exit(c) \/ ExitFailure(c)
  BY <1>1, <1>7 DEF Exit, ExitFailure, PortInv
<1> QED
  BY <1>2, <1>3, <1>4, <1>5, <1>6, <1>7, Zenon DEF Run

LEMMA PassedStep ==
  ASSUME NEW c \in Cores, TypeOK, PortInv, PassedInv, Run(c)
  PROVE  PassedInv'
<1> USE DEF environment, Goto
<1>1. /\ pc \in [Cores -> Labels] /\ phase \in [Cores -> 0 .. LastPhase]
      /\ LastPhase = Len(Tests) + 1 /\ Len(Tests) \in Nat
  BY Phases, SMTT(40) DEF TypeOK
<1>2. UNCHANGED <<fails, cpuid>>
  BY ZenonT(60) DEF Run, ClaimOnce, NewBarrier, NewBarrierPanics, FindOnce, ReadApicId, Arrive, Leave,
       PortInit, Running, StartTest, AssertTest, Dot, EndTests, Exit, Panic, ExitFailure
<1>3. ASSUME \A d \in Cores \ {c} : phase'[d] = phase[d] /\ pc'[d] = pc[d],
             \A k \in 1 .. Len(Tests) :
               /\ HasPassed(c, k)' => <<c, k>> \notin fails
               /\ HasFeatures(c, k)' /\ Tests[k] = "rendezvous" => "features" \in cpuid
      PROVE  PassedInv'
  BY <1>2, <1>3, ZenonT(60) DEF PassedInv, HasPassed, HasFeatures
<1>4. ASSUME NEW m \in Labels, Goto(c, m), UNCHANGED phase,
             m \in {"dot", "next_test"} =>
               pc[c] \in {"dot", "next_test"} \/ phase[c] = 0 \/ <<c, phase[c]>> \notin fails,
             m \in {"arrive", "wait", "assert", "dot", "next_test"} =>
               \/ pc[c] \in {"arrive", "wait", "assert", "dot", "next_test"}
               \/ phase[c] \in {0, LastPhase} \/ "features" \in cpuid
      PROVE  PassedInv'
  <2>1. /\ \A d \in Cores \ {c} : phase'[d] = phase[d] /\ pc'[d] = pc[d]
        /\ phase'[c] = phase[c] /\ pc'[c] = m
    BY <1>1, <1>4
  <2>2. ASSUME NEW k \in 1 .. Len(Tests)
        PROVE  /\ HasPassed(c, k)' => <<c, k>> \notin fails
               /\ HasFeatures(c, k)' /\ Tests[k] = "rendezvous" => "features" \in cpuid
    <3>1. /\ HasPassed(c, k) => <<c, k>> \notin fails
          /\ HasFeatures(c, k) /\ Tests[k] = "rendezvous" => "features" \in cpuid
      BY DEF PassedInv
    <3>2. CASE phase[c] = k
      BY <1>1, <1>4, <2>1, <3>1, <3>2 DEF HasPassed, HasFeatures
    <3>3. CASE phase[c] # k
      BY <1>1, <2>1, <3>1, <3>3, Zenon DEF HasPassed, HasFeatures
    <3> QED
      BY <3>2, <3>3
  <2> QED
    BY <1>3, <2>1, <2>2, ZenonT(60)
<1> USE DEF Labels
<1>5. CASE ClaimOnce(c) \/ NewBarrierPanics(c) \/ Panic(c)
  BY <1>4, <1>5, Zenon DEF ClaimOnce, NewBarrierPanics, Panic
<1>6. CASE NewBarrier(c) \/ FindOnce(c)
  <2>1. DOMAIN leaders = {0, LastPhase}
    BY Zenon DEF TypeOK
  <2> QED
    BY <1>4, <1>6, <2>1 DEF NewBarrier, FindOnce, AfterOnce
<1>7. CASE ReadApicId(c) \/ AssertTest(c) \/ Dot(c)
  BY <1>4, <1>7 DEF ReadApicId, AssertTest, Dot
<1>8. CASE Arrive(c) \/ Leave(c)
  <2>1. \E m \in {"wait", "port_init", "exit", "loop", "assert"} : Goto(c, m)
    BY <1>8, AfterWaitCases, Zenon DEF Arrive, Leave
  <2> QED
    BY <1>4, <1>8, <2>1, Zenon DEF Arrive, Leave
<1>9. CASE Exit(c) \/ ExitFailure(c)
  <2>1. UNCHANGED <<pc, phase>>
    BY <1>9 DEF Exit, ExitFailure
  <2>2. \A k \in 1 .. Len(Tests) :
          /\ HasPassed(c, k)' <=> HasPassed(c, k)
          /\ HasFeatures(c, k)' <=> HasFeatures(c, k)
    BY <2>1, Zenon DEF HasPassed, HasFeatures
  <2> QED
    BY <1>3, <2>1, <2>2, Zenon DEF PassedInv
<1>10. CASE PortInit(c) \/ Running(c)
  BY <1>4, <1>10, Zenon DEF PortInit, Running, PortInv
<1>11. CASE StartTest(c)
  <2>1. /\ pc[c] = "next_test" /\ phase[c] < Len(Tests)
        /\ phase' = [phase EXCEPT ![c] = @ + 1]
        /\ pc' = [pc EXCEPT ![c] = IF Tests[phase[c] + 1] = "rendezvous" THEN "call_once" ELSE "assert"]
    BY <1>11 DEF StartTest
  <2>2. /\ \A d \in Cores \ {c} : phase'[d] = phase[d] /\ pc'[d] = pc[d]
        /\ phase'[c] = phase[c] + 1
        /\ pc'[c] = IF Tests[phase[c] + 1] = "rendezvous" THEN "call_once" ELSE "assert"
    BY <1>1, <2>1
  <2>3. ASSUME NEW k \in 1 .. Len(Tests)
        PROVE  /\ HasPassed(c, k)' => HasPassed(c, k)
               /\ HasFeatures(c, k)' /\ Tests[k] = "rendezvous" => HasFeatures(c, k)
    BY <1>1, <2>1, <2>2 DEF HasPassed, HasFeatures
  <2> QED
    BY <1>3, <2>2, <2>3, ZenonT(60) DEF PassedInv
<1>12. CASE EndTests(c)
  <2>1. /\ pc[c] = "next_test" /\ phase[c] = Len(Tests)
        /\ phase' = [phase EXCEPT ![c] = LastPhase] /\ pc' = [pc EXCEPT ![c] = "call_once"]
    BY <1>12 DEF EndTests
  <2>2. /\ \A d \in Cores \ {c} : phase'[d] = phase[d] /\ pc'[d] = pc[d]
        /\ phase'[c] = phase[c] + 1 /\ pc'[c] = "call_once"
    BY <1>1, <2>1
  <2>3. ASSUME NEW k \in 1 .. Len(Tests)
        PROVE  /\ HasPassed(c, k)' => HasPassed(c, k)
               /\ HasFeatures(c, k)' => HasFeatures(c, k)
    BY <1>1, <2>1, <2>2 DEF HasPassed, HasFeatures
  <2> QED
    BY <1>3, <2>2, <2>3, ZenonT(60) DEF PassedInv
<1> QED
  BY <1>5, <1>6, <1>7, <1>8, <1>9, <1>10, <1>11, <1>12, Zenon DEF Run

LEMMA QemuStep ==
  ASSUME NEW c \in Cores, TypeOK, Run(c)
  PROVE  QemuInv'
<1> USE DEF environment
<1>1. qemu = "running" /\ (UNCHANGED qemu \/ Exit(c) \/ ExitFailure(c))
  BY ZenonT(60) DEF Run, ClaimOnce, NewBarrier, NewBarrierPanics, FindOnce, ReadApicId, Arrive, Leave,
       PortInit, Running, StartTest, AssertTest, Dot, EndTests, Panic
<1> QED
  BY <1>1, SMTT(40) DEF Exit, ExitFailure, QemuInv

LEMMA PlaceStep ==
  ASSUME NEW c \in Cores, TypeOK, PlaceInv, Run(c)
  PROVE  PlaceInv'
<1> USE DEF Goto
<1>1. /\ pc \in [Cores -> Labels] /\ phase \in [Cores -> 0 .. LastPhase]
      /\ leaders \in [{0, LastPhase} -> SUBSET Cores]
      /\ LastPhase = Len(Tests) + 1 /\ Len(Tests) \in Nat
  BY Phases, Zenon DEF TypeOK
<1>2. CASE Arrive(c) \/ Leave(c)
  <2>1. \E m \in {"wait", "port_init", "exit", "loop", "assert"} :
          Goto(c, m) /\ (m = "assert" => phase[c] \notin {0, LastPhase})
    BY <1>2, AfterWaitCases, Zenon DEF Arrive, Leave
  <2>2. leaders[0] \subseteq leaders'[0]
    <3>1. leaders' = leaders \/ leaders' = [leaders EXCEPT ![phase[c]] = @ \cup {c}]
      BY <1>2 DEF Arrive, Leave, AfterWait
    <3> QED
      BY <1>1, <3>1
  <2>3. PICK m \in {"wait", "port_init", "exit", "loop", "assert"} :
          pc' = [pc EXCEPT ![c] = m] /\ (m = "assert" => phase[c] \notin {0, LastPhase})
    BY <2>1, Zenon
  <2>4. phase' = phase
    BY <1>2, ZenonT(60) DEF Arrive, Leave
  <2>5. m = "assert" => phase'[c] \in 1 .. Len(Tests)
    BY <1>1, <2>3, <2>4
  <2>6. /\ pc'[c] = m /\ \A d \in Cores \ {c} : pc'[d] = pc[d] /\ phase'[d] = phase[d]
    BY <1>1, <2>3, <2>4, Zenon
  <2> QED
    BY <2>2, <2>5, <2>6 DEF PlaceInv
<1>3. CASE NewBarrier(c) \/ FindOnce(c)
  BY <1>1, <1>3, Zenon DEF NewBarrier, FindOnce, AfterOnce, PlaceInv
<1>4. CASE PortInit(c) \/ Running(c)
  BY <1>1, <1>4 DEF PortInit, Running, PlaceInv
<1>5. CASE StartTest(c) \/ EndTests(c)
  BY <1>1, <1>5 DEF StartTest, EndTests, PlaceInv
<1>6. CASE ClaimOnce(c) \/ NewBarrierPanics(c) \/ ReadApicId(c) \/ AssertTest(c) \/ Dot(c)
             \/ Panic(c)
  BY <1>1, <1>6 DEF ClaimOnce, NewBarrierPanics, ReadApicId, AssertTest, Dot, Panic, PlaceInv
<1>7. CASE Exit(c) \/ ExitFailure(c)
  BY <1>1, <1>7 DEF Exit, ExitFailure, PlaceInv
<1> QED
  BY <1>2, <1>3, <1>4, <1>5, <1>6, <1>7 DEF Run

Texts == {"Running", ".", "newline", "panic"}

(* One more text. *)
LEMMA ReportedNext ==
  ASSUME NEW texts \in Seq(Texts), NEW n \in Nat, Reported(texts, n)
  PROVE  Reported(Append(texts, Text(n + 1)), n + 1)
<1>1. Text(n + 1) \in Texts
  BY DEF Text, Texts
<1>2. /\ Len(Append(texts, Text(n + 1))) = n + 1
      /\ Append(texts, Text(n + 1))[n + 1] = Text(n + 1)
      /\ \A i \in 1 .. n : Append(texts, Text(n + 1))[i] = texts[i]
  BY <1>1, Appended DEF Reported
<1> QED
  BY <1>2 DEF Reported

(* The whole report. *)
LEMMA WholeReport ==
  ASSUME NEW texts \in Seq(Texts), Reported(texts, LastPhase + 1)
  PROVE  texts = <<"Running">> \o [i \in 1 .. Len(Tests) |-> "."] \o <<"newline">>
<1> DEFINE dots == [i \in 1 .. Len(Tests) |-> "."]
           first == <<"Running">> \o dots
           report == first \o <<"newline">>
<1>1. LastPhase = Len(Tests) + 1 /\ Len(Tests) \in Nat
  BY Phases
<1>2. dots \in Seq(Texts) /\ Len(dots) = Len(Tests) /\ \A i \in 1 .. Len(Tests) : dots[i] = "."
  <2>1. \A i \in 1 .. Len(Tests) : "." \in Texts
    BY DEF Texts
  <2> QED
    BY <1>1, <2>1, SequenceOf
<1>3. /\ <<"Running">> \in Seq(Texts) /\ Len(<<"Running">>) = 1 /\ <<"Running">>[1] = "Running"
      /\ <<"newline">> \in Seq(Texts) /\ Len(<<"newline">>) = 1 /\ <<"newline">>[1] = "newline"
  BY DEF Texts
<1> HIDE DEF dots
<1>4. /\ first \in Seq(Texts) /\ Len(first) = LastPhase
      /\ \A i \in 1 .. LastPhase : first[i] = Text(i)
  <2>1. /\ first \in Seq(Texts) /\ Len(first) = 1 + Len(dots)
        /\ \A i \in 1 .. 1 + Len(dots) :
             first[i] = IF i <= 1 THEN <<"Running">>[i] ELSE dots[i - 1]
    BY <1>2, <1>3, Joined
  <2> QED
    BY <1>1, <1>2, <1>3, <2>1 DEF Text
<1> HIDE DEF first
<1>5. /\ report \in Seq(Texts) /\ Len(report) = LastPhase + 1
      /\ \A i \in 1 .. LastPhase + 1 : report[i] = Text(i)
  <2>1. /\ report \in Seq(Texts) /\ Len(report) = Len(first) + 1
        /\ \A i \in 1 .. Len(first) + 1 :
             report[i] = IF i <= Len(first) THEN first[i] ELSE <<"newline">>[i - Len(first)]
    BY <1>3, <1>4, Joined
  <2> QED
    BY <1>1, <1>3, <1>4, <2>1 DEF Text
<1> HIDE DEF report
<1>6. texts = report
  BY <1>1, <1>5, EqualSequences, Zenon DEF Reported
<1> QED
  BY <1>6 DEF report, first, dots

LEMMA ReportStep ==
  ASSUME NEW c \in Cores, TypeOK, PortInv, PlaceInv, ReportInv, Run(c),
         leaders[0] = {} \/ \E d \in Cores : leaders[0] = {d},
         leaders'[0] = {} \/ \E d \in Cores : leaders'[0] = {d}
  PROVE  ReportInv'
<1> USE DEF Goto
<1>1. /\ pc \in [Cores -> Labels] /\ phase \in [Cores -> 0 .. LastPhase]
      /\ leaders \in [{0, LastPhase} -> SUBSET Cores]
      /\ LastPhase = Len(Tests) + 1 /\ Len(Tests) \in Nat
  BY Phases DEF TypeOK
<1>2. CASE \E d \in Cores : pc[d] = "exit_failure"
  <2>1. PICK d \in Cores : pc[d] = "exit_failure"
    BY <1>2, SMTT(40)
  <2>2. d = c => pc' = pc
    BY <2>1, ZenonT(60) DEF Run, ClaimOnce, NewBarrier, NewBarrierPanics, FindOnce, ReadApicId, Arrive, Leave,
         PortInit, Running, StartTest, AssertTest, Dot, EndTests, Exit, Panic, ExitFailure
  <2>3. pc' = pc \/ \E m : pc' = [pc EXCEPT ![c] = m]
    BY AfterWaitCases, Zenon
    DEF Run, ClaimOnce, NewBarrier, NewBarrierPanics, FindOnce, ReadApicId, Arrive, Leave,
         PortInit, Running, StartTest, AssertTest, Dot, EndTests, Exit, Panic, ExitFailure, AfterWait
  <2>4. pc'[d] = "exit_failure"
    BY <1>1, <2>1, <2>2, <2>3, Zenon
  <2> QED
    BY <2>4 DEF ReportInv
<1> SUFFICES ASSUME ~ \E d \in Cores : pc[d] = "exit_failure" PROVE ReportInv'
  BY <1>2, Zenon
<1>3. \/ leaders[0] = {} /\ Reported(console, 0)
      \/ \E d \in Cores : leaders[0] = {d} /\ Reported(console, Written(phase[d], pc[d]))
  BY Zenon DEF ReportInv
<1>4. ASSUME leaders'[0] = leaders[0], console' = console,
             \A d \in Cores \ {c} : phase'[d] = phase[d] /\ pc'[d] = pc[d],
             c \in leaders[0] => Written(phase'[c], pc'[c]) = Written(phase[c], pc[c])
      PROVE  ReportInv'
  <2>1. CASE leaders[0] = {} /\ Reported(console, 0)
    BY <1>4, <2>1, Zenon DEF ReportInv
  <2>2. CASE \E d \in Cores : leaders[0] = {d} /\ Reported(console, Written(phase[d], pc[d]))
    <3>1. PICK d \in Cores : leaders[0] = {d} /\ Reported(console, Written(phase[d], pc[d]))
      BY <2>2, SMTT(40)
    <3>2. Written(phase'[d], pc'[d]) = Written(phase[d], pc[d])
      BY <1>4, <3>1, ZenonT(60)
    <3>3. Reported(console', Written(phase'[d], pc'[d]))
      BY <1>4, <3>1, <3>2, Zenon
    <3> QED
      BY <1>4, <3>1, <3>3, Zenon DEF ReportInv
  <2> QED
    BY <1>3, <2>1, <2>2, Zenon
<1>5. ASSUME c \in leaders[0], leaders' = leaders,
             Write(Text(Written(phase[c], pc[c]) + 1)),
             Written(phase'[c], pc'[c]) = Written(phase[c], pc[c]) + 1
      PROVE  ReportInv'
  <2>1. leaders[0] = {c} /\ Reported(console, Written(phase[c], pc[c]))
    BY <1>3, <1>5
  <2>2. Written(phase[c], pc[c]) \in Nat
    BY <1>1, SMTT(40) DEF Written
  <2>3. Reported(console', Written(phase[c], pc[c]) + 1)
    <3>1. console \in Seq(Texts)
      BY DEF TypeOK, Texts
    <3>2. Reported(Append(console, Text(Written(phase[c], pc[c]) + 1)), Written(phase[c], pc[c]) + 1)
      BY <2>1, <2>2, <3>1, ReportedNext, Zenon
    <3> QED
      BY <1>5, <3>2 DEF Write
  <2> QED
    BY <1>5, <2>1, <2>3, Zenon DEF ReportInv
<1>6. CASE Arrive(c) \/ Leave(c)
  <2>1. console' = console /\ phase' = phase /\ pc[c] # "next_test"
    BY <1>6, Zenon DEF Arrive, Leave
  <2>2. \E m \in Labels \ {"next_test"} : pc' = [pc EXCEPT ![c] = m]
    BY <1>6, AfterWaitCases, ZenonT(60) DEF Arrive, Leave, Labels
  <2>3. \A d \in Cores \ {c} : phase'[d] = phase[d] /\ pc'[d] = pc[d]
    BY <1>1, <2>1, <2>2, Zenon
  <2>4. Written(phase'[c], pc'[c]) = Written(phase[c], pc[c])
    BY <1>1, <2>1, <2>2, Zenon DEF Written
  <2>5. CASE leaders'[0] = leaders[0]
    BY <1>4, <2>1, <2>3, <2>4, <2>5, Zenon
  <2>6. CASE leaders'[0] # leaders[0]
    <3>1. phase[c] = 0 /\ leaders'[0] = leaders[0] \cup {c}
      <4>1. leaders' = leaders \/ leaders' = [leaders EXCEPT ![phase[c]] = @ \cup {c}]
        BY <1>6, Zenon DEF Arrive, Leave, AfterWait
      <4> QED
        BY <1>1, <2>6, <4>1
    <3>2. leaders[0] = {} /\ leaders'[0] = {c}
      BY <2>6, <3>1
    <3>3. Reported(console, 0)
      BY <1>3, <3>2, Zenon
    <3>4. Written(phase'[c], pc'[c]) = 0
      BY <1>1, <2>1, <2>4, <3>1 DEF Written
    <3> QED
      BY <2>1, <3>2, <3>3, <3>4, Zenon DEF ReportInv
  <2> QED
    BY <2>5, <2>6
<1>7. CASE \/ ClaimOnce(c) \/ NewBarrier(c) \/ NewBarrierPanics(c) \/ FindOnce(c)
           \/ ReadApicId(c) \/ AssertTest(c)
  <2>1. /\ leaders' = leaders /\ console' = console /\ phase' = phase /\ pc[c] # "next_test"
        /\ \E m \in Labels \ {"next_test"} : pc' = [pc EXCEPT ![c] = m]
    BY <1>7, Zenon DEF ClaimOnce, NewBarrier, NewBarrierPanics, FindOnce, ReadApicId, AssertTest,
         AfterOnce, Labels
  <2>2. Written(phase'[c], pc'[c]) = Written(phase[c], pc[c])
    BY <1>1, <2>1, SMTT(40) DEF Written
  <2> QED
    BY <1>1, <1>4, <2>1, <2>2, Zenon
<1>8. CASE Exit(c) \/ ExitFailure(c)
  BY <1>4, <1>8, ZenonT(60) DEF Exit, ExitFailure
<1>9. CASE Panic(c)
  BY <1>1, <1>9, Zenon DEF Panic, ReportInv
<1>10. CASE PortInit(c)
  <2>1. /\ leaders' = leaders /\ console' = console /\ phase' = phase /\ pc[c] = "port_init"
        /\ pc' = [pc EXCEPT ![c] = IF c \in leaders[0] THEN "running" ELSE "next_test"]
    BY <1>10 DEF PortInit
  <2>2. c \in leaders[0] => Written(phase'[c], pc'[c]) = Written(phase[c], pc[c])
    BY <1>1, <2>1, Zenon DEF Written
  <2> QED
    BY <1>1, <1>4, <2>1, <2>2, Zenon
<1>11. CASE Running(c)
  <2>1. /\ c \in leaders[0] /\ leaders' = leaders /\ phase' = phase /\ phase[c] = 0
        /\ pc[c] = "running" /\ pc' = [pc EXCEPT ![c] = "next_test"] /\ Write("Running")
    BY <1>11 DEF Running, PortInv, PlaceInv
  <2>2. Written(phase[c], pc[c]) = 0 /\ Written(phase'[c], pc'[c]) = 1 /\ Text(1) = "Running"
    BY <1>1, <2>1 DEF Written, Text
  <2> QED
    BY <1>5, <2>1, <2>2
<1>12. CASE Dot(c)
  <2>1. /\ leaders' = leaders /\ phase' = phase /\ phase[c] \in 1 .. Len(Tests)
        /\ pc[c] = "dot" /\ pc' = [pc EXCEPT ![c] = "next_test"]
        /\ IF c \in leaders[0] THEN Write(".") ELSE UNCHANGED console
    BY <1>12 DEF Dot, PlaceInv
  <2>2. /\ Written(phase[c], pc[c]) = phase[c] /\ Written(phase'[c], pc'[c]) = phase[c] + 1
        /\ Text(phase[c] + 1) = "."
    BY <1>1, <2>1, SMTT(40) DEF Written, Text
  <2>3. CASE c \in leaders[0]
    BY <1>5, <2>1, <2>2, <2>3, Zenon
  <2>4. CASE c \notin leaders[0]
    BY <1>1, <1>4, <2>1, <2>4, Zenon
  <2> QED
    BY <2>3, <2>4, Zenon
<1>13. CASE StartTest(c)
  <2>1. /\ leaders' = leaders /\ console' = console /\ phase[c] < Len(Tests)
        /\ phase' = [phase EXCEPT ![c] = @ + 1] /\ pc[c] = "next_test"
        /\ \E m \in {"call_once", "assert"} : pc' = [pc EXCEPT ![c] = m]
    BY <1>13, ZenonT(60) DEF StartTest
  <2>2. Written(phase'[c], pc'[c]) = Written(phase[c], pc[c])
    BY <1>1, <2>1 DEF Written
  <2> QED
    BY <1>1, <1>4, <2>1, <2>2, SMTT(40)
<1>14. CASE EndTests(c)
  <2>1. /\ leaders' = leaders /\ phase[c] = Len(Tests)
        /\ phase' = [phase EXCEPT ![c] = LastPhase] /\ pc[c] = "next_test"
        /\ pc' = [pc EXCEPT ![c] = "call_once"]
        /\ IF c \in leaders[0] THEN Write("newline") ELSE UNCHANGED console
    BY <1>14 DEF EndTests
  <2>2. /\ Written(phase[c], pc[c]) = LastPhase /\ Written(phase'[c], pc'[c]) = LastPhase + 1
        /\ Text(LastPhase + 1) = "newline"
    BY <1>1, <2>1 DEF Written, Text
  <2>3. CASE c \in leaders[0]
    BY <1>5, <2>1, <2>2, <2>3, Zenon
  <2>4. CASE c \notin leaders[0]
    BY <1>1, <1>4, <2>1, <2>4
  <2> QED
    BY <2>3, <2>4
<1> QED
  BY <1>6, <1>7, <1>8, <1>9, <1>10, <1>11, <1>12, <1>13, <1>14, Zenon DEF Run

LEMMA InitInv == Init => IInv
<1> SUFFICES ASSUME Init PROVE IInv
  OBVIOUS
<1>1. barriers[0] = NewOnce /\ leaders[0] = {} /\ leaders[LastPhase] = {}
  BY Phases DEF Init, BarrierIds
<1>2. OnceInv
  BY <1>1 DEF Init, OnceInv, NewOnce, BeforeBarrier
<1>3. RoundInv
  BY <1>1 DEF RoundInv, NewOnce
<1>4. PassedInv
  BY Phases DEF Init, PassedInv, HasPassed, HasFeatures
<1>5. QemuInv
  BY DEF Init, QemuInv
<1>6. PortInv /\ PlaceInv
  BY DEF Init, PortInv, PlaceInv
<1>7. ReportInv
  BY <1>1 DEF Init, ReportInv, Reported
<1> QED
  BY <1>2, <1>3, <1>4, <1>5, <1>6, <1>7, InitTypeOK, Zenon DEF IInv

LEMMA StepInv ==
  ASSUME OnePackage
  PROVE  IInv /\ [Next]_vars => IInv'
<1> SUFFICES ASSUME IInv, [Next]_vars PROVE IInv'
  OBVIOUS
<1>1. TypeOK'
  BY StepTypeOK, SMTT(40) DEF IInv
<1>2. CASE UNCHANGED vars
  BY <1>1, <1>2, ZenonT(60) DEF vars, IInv, OnceInv, RoundInv, Round0, Round1, Round2, waiting,
       PortInv, PassedInv, HasPassed, HasFeatures, QemuInv, BarrierOf,
       PlaceInv, ReportInv
<1>3. CASE Next
  <2>1. PICK c \in Cores : Run(c)
    BY <1>3 DEF Next
  <2>2. OnceInv' /\ RoundInv' /\ PortInv' /\ PassedInv' /\ QemuInv' /\ PlaceInv'
    BY <1>1, <2>1, OnceStep, RoundStep, PortStep, PassedStep, QemuStep, PlaceStep, Zenon DEF IInv
  <2>3. leaders[0] = {} \/ \E d \in Cores : leaders[0] = {d}
    BY SMTT(40) DEF IInv, RoundInv, Round0, Round1, Round2
  <2>4. leaders'[0] = {} \/ \E d \in Cores : leaders'[0] = {d}
    BY <2>2, Zenon DEF RoundInv, Round0, Round1, Round2
  <2> QED
    BY <1>1, <2>1, <2>2, <2>3, <2>4, ReportStep, ZenonT(60) DEF IInv
<1> QED
  BY <1>2, <1>3

(* The inductive invariant holds in every state of a run of the tests on a *)
(* machine with one package (test.rs, platform.rs).                        *)
THEOREM Invariance ==
  ASSUME OnePackage
  PROVE  Spec => []IInv
<1>1. Init => IInv
  BY InitInv
<1>2. IInv /\ [Next]_vars => IInv'
  BY StepInv
<1> QED
  BY <1>1, <1>2, PTL DEF Spec

(* pick_leader_core is true for at most one core in each of its two uses,  *)
(* although both wait on the barrier of platform.rs:17, for every number   *)
(* of cores and tests.                                                     *)
THEOREM LeaderIsUnique ==
  ASSUME OnePackage
  PROVE  Spec => []OneLeader
<1>1. IInv => OneLeader
  <2> SUFFICES ASSUME IInv, NEW p \in {0, LastPhase} PROVE Cardinality(leaders[p]) <= 1
    BY Zenon DEF OneLeader, IInv, TypeOK
  <2>1. leaders[p] = {} \/ \E d \in Cores : leaders[p] = {d}
    BY DEF IInv, RoundInv, Round0, Round1, Round2
  <2>2. Cardinality({}) = 0 /\ \A d \in Cores : Cardinality({d}) = 1
    BY FS_EmptySet, FS_Singleton, ZenonT(60)
  <2> QED
    BY <2>1, <2>2
<1> QED
  BY <1>1, Invariance, PTL

(* A run that ends QEMU with success (test.rs:31) is one: every core has   *)
(* run every test and none has failed, for every number of cores and       *)
(* tests, and whichever of them fail.                                      *)
THEOREM SuccessSound ==
  ASSUME OnePackage
  PROVE  Spec => []SuccessIsSound
<1>1. IInv => SuccessIsSound
  <2> SUFFICES ASSUME IInv, qemu = "success"
               PROVE  Passes /\ \A c \in Cores : phase[c] = LastPhase
    BY DEF SuccessIsSound
  <2>1. PICK e \in Cores : pc[e] = "exit"
    BY Zenon DEF IInv, QemuInv
  <2>2. barriers[0].once = "Complete" /\ Round2
    BY <2>1 DEF IInv, OnceInv, BeforeBarrier, RoundInv, Round0, Round1, First, Middle
  <2>3. \A c \in Cores : phase[c] = LastPhase
    BY <2>2 DEF Round2, Final
  <2>4. \A c \in Cores : \A k \in 1 .. Len(Tests) :
          /\ <<c, k>> \notin fails
          /\ Tests[k] = "rendezvous" => "features" \in cpuid
    <3> SUFFICES ASSUME NEW c \in Cores, NEW k \in 1 .. Len(Tests)
                 PROVE  /\ <<c, k>> \notin fails
                        /\ Tests[k] = "rendezvous" => "features" \in cpuid
      BY Zenon
    <3>1. phase[c] > k
      BY <2>3, Phases
    <3>2. HasPassed(c, k) /\ HasFeatures(c, k)
      BY <3>1 DEF HasPassed, HasFeatures
    <3> QED
      BY <3>2 DEF IInv, PassedInv
  <2>5. fails = {}
    <3> SUFFICES ASSUME NEW f \in fails PROVE FALSE
      OBVIOUS
    <3>1. PICK c \in Cores, k \in 1 .. Len(Tests) : f = <<c, k>>
      BY DEF IInv, TypeOK
    <3> QED
      BY <2>4, <3>1
  <2>6. "topology" \in cpuid
    BY <2>2 DEF IInv, OnceInv
  <2>7. "features" \in cpuid \/ \A k \in DOMAIN Tests : Tests[k] = "local"
    <3>1. DOMAIN Tests = 1 .. Len(Tests) /\ \A k \in DOMAIN Tests : Tests[k] \in {"rendezvous", "local"}
      BY TestsAssumption
    <3> QED
      BY <2>1, <2>4, <3>1, ZenonT(60)
  <2> QED
    BY <2>3, <2>5, <2>6, <2>7 DEF Passes
<1> QED
  BY <1>1, Invariance, PTL

(* A run that ends with success has written its whole report: the leader   *)
(* that reports (test.rs:9-20) is done before the second election, which   *)
(* waits for it, lets any core end QEMU.  For every number of cores and    *)
(* tests.                                                                  *)
THEOREM ReportIsComplete ==
  ASSUME OnePackage
  PROVE  Spec => []ReportComplete
<1>1. IInv => ReportComplete
  <2> SUFFICES ASSUME IInv, qemu = "success" PROVE ReportComplete
    BY DEF ReportComplete
  <2>1. PICK e \in Cores : pc[e] = "exit"
    BY DEF IInv, QemuInv
  <2>2. barriers[0].once = "Complete" /\ Round2
    BY <2>1 DEF IInv, OnceInv, BeforeBarrier, RoundInv, Round0, Round1, First, Middle
  <2>3. PICK d \in Cores : leaders[0] = {d} /\ Reported(console, Written(phase[d], pc[d]))
    BY <2>2, Zenon DEF IInv, ReportInv, Round2, Final
  <2>4. Reported(console, LastPhase + 1)
    BY <2>2, <2>3 DEF Round2, Final, Written
  <2>5. console \in Seq(Texts)
    BY DEF IInv, TypeOK, Texts
  <2> QED
    BY <2>4, <2>5, WholeReport, Zenon DEF ReportComplete
<1> QED
  BY <1>1, Invariance, PTL

=============================================================================
