------------------------------ MODULE MCSerial ------------------------------
(* Instances of Serial for TLC.  The programs are the sequences of driver  *)
(* calls of the kernel, with shorter texts.                                *)
EXTENDS Serial, TLC

CONSTANTS c1, c2, c3

init == NoText
write_str(text) == [op |-> "write_str", text |-> text]
write_char(char) == [op |-> "write_char", text |-> <<char>>]
rendezvous == [op |-> "rendezvous", text |-> <<>>]

(* kernel.rs:65, main.rs:46-54 and kernel.rs:73. *)
BootProgram == <<init, init, write_str(<<201, 202>>), write_str(<<203, 204, 205>>)>>

(* test.rs:8-20 around the test of kernel.rs:81: the core that reports, and *)
(* another one.  The bootstrap core calls init in the test as well         *)
(* (kernel.rs:65); a core that panics in it, in the panic handler          *)
(* (panic.rs:14).                                                          *)
LeaderProgram ==
  <<init, write_str(<<211, 212, 213>>), rendezvous, write_char(214), write_char(215)>>
BootstrapLeaderProgram ==
  <<init, write_str(<<211, 212, 213>>), init, rendezvous, write_char(214), write_char(215)>>
OtherProgram == <<init, rendezvous>>
BootstrapProgram == <<init, init, rendezvous>>
LeaderPanicProgram ==
  <<init, write_str(<<211, 212, 213>>), init, write_str(<<221, 222>>)>>

(* Another core that panics in a test: test.rs:8 and panic.rs:13-15. *)
PanicProgram == <<init, init, write_str(<<221, 222, 223>>)>>

(* One core at a time: the others make no call. *)
ThreeCores == {c1, c2, c3}
Alone(p) == [c \in ThreeCores |-> IF c = c1 THEN p ELSE <<>>]

(* test.rs:8 on every core, before anything is written. *)
AllInit == [c \in ThreeCores |-> <<init>>]

(* The test harness on two cores: the leader is the bootstrap core, or the *)
(* other core is.                                                          *)
Harness(leader, other) ==
  (c1 :> leader) @@ (c2 :> other) @@ [c \in ThreeCores |-> <<>>]

KernelPrograms ==
  {Alone(BootProgram), Alone(BootstrapLeaderProgram),
   Alone(LeaderPanicProgram), Alone(PanicProgram), AllInit,
   Harness(LeaderProgram, BootstrapProgram), Harness(BootstrapLeaderProgram, OtherProgram)}

(* The hypotheses of SerialProofs. *)
ASSUME KernelProgramsAssumption ==
  \A p \in KernelPrograms : InitFirst(p) /\ Ascending(p) /\ PollsLate(p)

(* test.rs:8-10: a leader, and a core that only initialises the port. *)
TwoCores == {c1, c2}
HarnessPrograms == {(c1 :> <<init, write_str(<<201>>)>>) @@ (c2 :> <<init>>)}

=============================================================================
