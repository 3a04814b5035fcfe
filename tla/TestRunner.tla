----------------------------- MODULE TestRunner -----------------------------
(***************************************************************************)
(* The kernel's test harness (paraos/src/test.rs, platform.rs and the test *)
(* of kernel.rs).  Every core runs every test.  pick_leader_core elects a  *)
(* core with the result of a barrier: a first election decides who         *)
(* reports, a second one, on the same barrier, who ends the run by writing *)
(* to the port of QEMU's isa-debug-exit device.  A core that panics writes *)
(* to the same port.                                                       *)
(*                                                                         *)
(* Phase 0 is the first election, phase k is test k, and phase             *)
(* Len(Tests) + 1 the second election.                                     *)
(***************************************************************************)
EXTENDS Naturals, FiniteSets, Sequences, SpinBarrier

CONSTANTS
  Cores,     \* the cores, all of which enter _start
  Package,   \* the package of each core
  Tests,     \* the tests: "rendezvous" for one that runs Kernel::run, or "local"
  MaxFails   \* bound: number of (core, test) pairs that fail in a run

ASSUME TestsAssumption ==
  /\ IsFiniteSet(Cores) /\ Cores # {}
  /\ Tests \in Seq({"rendezvous", "local"})
  /\ MaxFails \in Nat

VARIABLES
  pc, phase,   \* where each core is
  barriers,    \* the Once<Barrier> of pick_leader_core and those of the tests
  local_gen,   \* Barrier::wait, the generation a core arrived in
  leaders,     \* the cores for which each pick_leader_core was true, by phase
  console,     \* history: the report on the serial port
  qemu,        \* "running", or how the exit port was written: 0 or 1
  fails,       \* the (core, test) pairs whose assertion does not hold
  cpuid        \* the CPUID leaves this machine has

vars == <<pc, phase, barriers, local_gen, leaders, console, qemu, fails, cpuid>>
environment == <<fails, cpuid>>

LastPhase == Len(Tests) + 1

(* The barrier of a phase: both elections use the static of platform.rs:17 *)
(* and each test its own (kernel.rs:85).                                   *)
BarrierIds == 0 .. Len(Tests)
BarrierOf(p) == IF p = LastPhase THEN 0 ELSE p

Labels == {"call_once", "new_barrier", "apic_id", "arrive", "wait", "port_init",
           "running", "next_test", "assert", "dot", "exit", "loop", "panic", "exit_failure"}

TypeOK ==
  /\ pc \in [Cores -> Labels]
  /\ phase \in [Cores -> 0 .. LastPhase]
  /\ barriers \in [BarrierIds -> OnceBarrier]
  /\ local_gen \in [Cores -> Nat]
  /\ leaders \in [{0, LastPhase} -> SUBSET Cores]
  /\ console \in Seq({"Running", ".", "newline", "panic"})
  /\ qemu \in {"running", "success", "failure"}
  /\ fails \subseteq Cores \X (1 .. Len(Tests))
  /\ cpuid \subseteq {"topology", "features"}

num_cores(c) == Cardinality({d \in Cores : Package[d] = Package[c]})

Goto(c, label) == pc' = [pc EXCEPT ![c] = label]
Write(text) == console' = Append(console, text)
barrier(c) == barriers[BarrierOf(phase[c])]
SetBarrier(c, b) == barriers' = [barriers EXCEPT ![BarrierOf(phase[c])] = b]

(* What follows call_once: the wait of platform.rs:19, or in a test the    *)
(* rest of Kernel::run.                                                    *)
AfterOnce(c) == IF phase[c] \in DOMAIN leaders THEN "arrive" ELSE "apic_id"

(* What follows a return of Barrier::wait: platform.rs:19 and its callers  *)
(* (test.rs:6 and 27), or the assertions of the test (kernel.rs:92-96).    *)
AfterWait(c, is_leader) ==
  /\ leaders' = IF is_leader /\ phase[c] \in DOMAIN leaders
                THEN [leaders EXCEPT ![phase[c]] = @ \cup {c}]
                ELSE leaders
  /\ Goto(c, CASE phase[c] = 0 -> "port_init"
               [] phase[c] = LastPhase -> IF is_leader THEN "exit" ELSE "loop"
               [] OTHER -> "assert")

-----------------------------------------------------------------------------
(* platform.rs:18, and kernel.rs:58-60 in a test. *)
ClaimOnce(c) ==
  /\ pc[c] = "call_once"
  /\ barrier(c).once = "Incomplete"
  /\ SetBarrier(c, ClaimedOnce(barrier(c)))
  /\ Goto(c, "new_barrier")
  /\ UNCHANGED <<phase, local_gen, leaders, console, qemu, environment>>

(* The closure; num_cores panics without the CPUID leaf, and the other     *)
(* cores then spin on the Once until QEMU exits.                           *)
NewBarrier(c) ==
  /\ pc[c] = "new_barrier"
  /\ "topology" \in cpuid
  /\ SetBarrier(c, CompletedOnce(num_cores(c)))
  /\ Goto(c, AfterOnce(c))
  /\ UNCHANGED <<phase, local_gen, leaders, console, qemu, environment>>

NewBarrierPanics(c) ==
  /\ pc[c] = "new_barrier"
  /\ "topology" \notin cpuid
  /\ Goto(c, "panic")
  /\ UNCHANGED <<phase, barriers, local_gen, leaders, console, qemu, environment>>

FindOnce(c) ==
  /\ pc[c] = "call_once"
  /\ barrier(c).once = "Complete"
  /\ Goto(c, AfterOnce(c))
  /\ UNCHANGED <<phase, barriers, local_gen, leaders, console, qemu, environment>>

(* kernel.rs:61-68 in a test; expect panics without the leaf, in front of  *)
(* the barrier.                                                            *)
ReadApicId(c) ==
  /\ pc[c] = "apic_id"
  /\ Goto(c, IF "features" \in cpuid THEN "arrive" ELSE "panic")
  /\ UNCHANGED <<phase, barriers, local_gen, leaders, console, qemu, environment>>

(* platform.rs:19, and kernel.rs:69 in a test. *)
Arrive(c) ==
  /\ pc[c] = "arrive"
  /\ SetBarrier(c, Arrived(barrier(c)))
  /\ local_gen' = [local_gen EXCEPT ![c] = barrier(c).generation_id]
  /\ IF IsLastArrival(barrier(c))
     THEN AfterWait(c, TRUE)
     ELSE Goto(c, "wait") /\ UNCHANGED leaders
  /\ UNCHANGED <<phase, console, qemu, environment>>

Leave(c) ==
  /\ pc[c] = "wait"
  /\ MayLeave(barrier(c), local_gen[c])
  /\ AfterWait(c, FALSE)
  /\ UNCHANGED <<phase, barriers, local_gen, console, qemu, environment>>

(* test.rs:8. *)
PortInit(c) ==
  /\ pc[c] = "port_init"
  /\ Goto(c, IF c \in leaders[0] THEN "running" ELSE "next_test")
  /\ UNCHANGED <<phase, barriers, local_gen, leaders, console, qemu, environment>>

(* test.rs:10. *)
Running(c) ==
  /\ pc[c] = "running"
  /\ Write("Running")
  /\ Goto(c, "next_test")
  /\ UNCHANGED <<phase, barriers, local_gen, leaders, qemu, environment>>

(* test.rs:12-13. *)
StartTest(c) ==
  /\ pc[c] = "next_test"
  /\ phase[c] < Len(Tests)
  /\ phase' = [phase EXCEPT ![c] = @ + 1]
  /\ Goto(c, IF Tests[phase[c] + 1] = "rendezvous" THEN "call_once" ELSE "assert")
  /\ UNCHANGED <<barriers, local_gen, leaders, console, qemu, environment>>

(* kernel.rs:92-96, the assertions of a test. *)
AssertTest(c) ==
  /\ pc[c] = "assert"
  /\ Goto(c, IF <<c, phase[c]>> \in fails THEN "panic" ELSE "dot")
  /\ UNCHANGED <<phase, barriers, local_gen, leaders, console, qemu, environment>>

(* test.rs:14-16. *)
Dot(c) ==
  /\ pc[c] = "dot"
  /\ IF c \in leaders[0] THEN Write(".") ELSE UNCHANGED console
  /\ Goto(c, "next_test")
  /\ UNCHANGED <<phase, barriers, local_gen, leaders, qemu, environment>>

(* Mutant of EndTests: the core that reports goes on to end the run.       *)
EndTestsWithoutElection(c) ==
  /\ pc[c] = "next_test"
  /\ phase[c] = Len(Tests)
  /\ IF c \in leaders[0] THEN Write("newline") ELSE UNCHANGED console
  /\ phase' = [phase EXCEPT ![c] = LastPhase]
  /\ Goto(c, IF c \in leaders[0] THEN "exit" ELSE "loop")
  /\ UNCHANGED <<barriers, local_gen, leaders, qemu, environment>>

(* test.rs:18-20, then test.rs:27. *)
EndTests(c) ==
  /\ pc[c] = "next_test"
  /\ phase[c] = Len(Tests)
  /\ IF c \in leaders[0] THEN Write("newline") ELSE UNCHANGED console
  /\ phase' = [phase EXCEPT ![c] = LastPhase]
  /\ Goto(c, "call_once")
  /\ UNCHANGED <<barriers, local_gen, leaders, qemu, environment>>

(* test.rs:28-32: QEMU ends at the write, so nothing follows it.  The      *)
(* status it ends with, 2 * value + 1, is halved by .cargo/runner.sh.      *)
Exit(c) ==
  /\ pc[c] = "exit"
  /\ qemu' = "success"
  /\ UNCHANGED <<pc, phase, barriers, local_gen, leaders, console, environment>>

(* test.rs:41-42. *)
Panic(c) ==
  /\ pc[c] = "panic"
  /\ Write("panic")
  /\ Goto(c, "exit_failure")
  /\ UNCHANGED <<phase, barriers, local_gen, leaders, qemu, environment>>

(* Mutant of ExitFailure: the handler of the kernel proper, which only     *)
(* loops.                                                                  *)
LoopAfterPanic(c) ==
  /\ pc[c] = "exit_failure"
  /\ Goto(c, "loop")
  /\ UNCHANGED <<phase, barriers, local_gen, leaders, console, qemu, environment>>

(* test.rs:43-45. *)
ExitFailure(c) ==
  /\ pc[c] = "exit_failure"
  /\ qemu' = "failure"
  /\ UNCHANGED <<pc, phase, barriers, local_gen, leaders, console, environment>>

-----------------------------------------------------------------------------
Init ==
  /\ pc = [c \in Cores |-> "call_once"]
  /\ phase = [c \in Cores |-> 0]
  /\ barriers = [i \in BarrierIds |-> NewOnce]
  /\ local_gen = [c \in Cores |-> 0]
  /\ leaders = [p \in {0, LastPhase} |-> {}]
  /\ console = <<>>
  /\ qemu = "running"
  /\ fails \in {F \in SUBSET (Cores \X (1 .. Len(Tests))) : Cardinality(F) <= MaxFails}
  /\ cpuid \in SUBSET {"topology", "features"}

(* A core runs until QEMU exits. *)
Run(c) ==
  /\ qemu = "running"
  /\ \/ ClaimOnce(c) \/ NewBarrier(c) \/ NewBarrierPanics(c) \/ FindOnce(c)
     \/ ReadApicId(c) \/ Arrive(c) \/ Leave(c) \/ PortInit(c) \/ Running(c) \/ StartTest(c)
     \/ AssertTest(c) \/ Dot(c) \/ EndTests(c) \/ Exit(c) \/ Panic(c) \/ ExitFailure(c)

Next == \E c \in Cores : Run(c)

Fairness == \A c \in Cores : WF_vars(Run(c))

Spec == Init /\ [][Next]_vars /\ Fairness

-----------------------------------------------------------------------------
(* "Pick a leader process" (platform.rs:15): each of the two elections has *)
(* at most one winner.                                                     *)
OneLeader == \A p \in DOMAIN leaders : Cardinality(leaders[p]) <= 1

(* No assertion fails, and no call of CPUID that the tests make. *)
Passes ==
  /\ fails = {}
  /\ "topology" \in cpuid
  /\ "features" \in cpuid \/ \A k \in DOMAIN Tests : Tests[k] = "local"

(* A run that QEMU reports as a success is one: every core has run every   *)
(* test and none has failed.                                               *)
SuccessIsSound ==
  qemu = "success" => Passes /\ \A c \in Cores : phase[c] = LastPhase

(* The report of a successful run is complete: the second election waits   *)
(* for the core that writes it.                                            *)
ReportComplete ==
  qemu = "success" =>
    console = <<"Running">> \o [i \in 1 .. Len(Tests) |-> "."] \o <<"newline">>

(* The harness comes to a verdict: success when every test holds on every  *)
(* core, failure otherwise, also when the failing core leaves the others   *)
(* waiting at a barrier.                                                   *)
Verdict == <>(qemu = IF Passes THEN "success" ELSE "failure")

=============================================================================
