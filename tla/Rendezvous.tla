----------------------------- MODULE Rendezvous -----------------------------
(***************************************************************************)
(* What the start-up of the kernel promises, without saying how: the       *)
(* bootstrap core initialises the machine, every core arrives at the       *)
(* rendezvous, the bootstrap core only after the initialisation, and a     *)
(* core is released only when every core has arrived.                      *)
(***************************************************************************)
CONSTANTS Cores, Bootstrap   \* the cores, and the one that initialises

VARIABLES
  initialized,   \* has the bootstrap initialisation ended?
  arrived,       \* cores that have reached the rendezvous
  released       \* cores that have left it

vars == <<initialized, arrived, released>>

Init ==
  /\ initialized = FALSE
  /\ arrived = {}
  /\ released = {}

Initialize ==
  /\ ~initialized
  /\ Bootstrap \notin arrived
  /\ initialized' = TRUE
  /\ UNCHANGED <<arrived, released>>

(* The last core to arrive does not wait. *)
Arrive(c) ==
  /\ c \notin arrived
  /\ c = Bootstrap => initialized
  /\ arrived' = arrived \cup {c}
  /\ released' = IF arrived' = Cores THEN released \cup {c} ELSE released
  /\ UNCHANGED initialized

Release(c) ==
  /\ arrived = Cores
  /\ c \notin released
  /\ released' = released \cup {c}
  /\ UNCHANGED <<initialized, arrived>>

Next == Initialize \/ \E c \in Cores : Arrive(c) \/ Release(c)

Spec == Init /\ [][Next]_vars

=============================================================================
