---------------------------- MODULE MCTestRunner ----------------------------
(* Instances of TestRunner for TLC. *)
EXTENDS TestRunner, TLC

CONSTANTS c1, c2, c3

MCCores == {c1, c2, c3}

OneSocket == [c \in MCCores |-> "socket0"]
TwoSockets == (c1 :> "socket0") @@ (c2 :> "socket0") @@ (c3 :> "socket1")

(* The kernel's one test, and one without a barrier after it. *)
MCTests == <<"rendezvous", "local">>

=============================================================================
