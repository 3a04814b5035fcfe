---------------------------- MODULE SpinBarrier ----------------------------
(***************************************************************************)
(* The spin crate's Once<Barrier>, as the kernel uses it: a barrier that   *)
(* the first caller of call_once creates (kernel.rs:58-60 and              *)
(* platform.rs:17-18) and that every core then waits on (kernel.rs:69 and  *)
(* platform.rs:19).  The crate is external; each operator below is one     *)
(* critical section of its spin lock, or one atomic access to the state of *)
(* the Once.  The operators are pure, so that a specification may hold     *)
(* several barriers.                                                       *)
(***************************************************************************)
EXTENDS Naturals

OnceState == {"Incomplete", "Running", "Complete"}

OnceBarrier == [once: OnceState, num_threads: Nat, count: Nat, generation_id: Nat]

(* Once::new(): the barrier does not exist yet. *)
NewOnce == [once |-> "Incomplete", num_threads |-> 0, count |-> 0, generation_id |-> 0]

(* call_once, winner of the compare-and-swap: it runs the closure, the     *)
(* others spin until the state is Complete.                                *)
ClaimedOnce(b) == [b EXCEPT !.once = "Running"]

(* call_once, end of the closure || Barrier::new(n).                       *)
CompletedOnce(n) ==
  [once |-> "Complete", num_threads |-> n, count |-> 0, generation_id |-> 0]

(* Mutant: a barrier that opens one caller early. *)
IsLastArrivalEarly(b) == b.count + 2 >= b.num_threads

(* Barrier::wait, first critical section.  The caller that makes the count *)
(* reach num_threads is the leader: it resets the count, starts the next   *)
(* generation and returns at once.                                         *)
IsLastArrival(b) == b.count + 1 >= b.num_threads

(* Mutant: a barrier that counts the callers that are missing. *)
ArrivedCountingDown(b) ==
  [once          |-> b.once,
   num_threads   |-> b.num_threads,
   count         |-> IF IsLastArrival(b) THEN 0 ELSE b.count - 1,
   generation_id |-> IF IsLastArrival(b) THEN b.generation_id + 1 ELSE b.generation_id]

Arrived(b) ==
  [once          |-> b.once,
   num_threads   |-> b.num_threads,
   count         |-> IF IsLastArrival(b) THEN 0 ELSE b.count + 1,
   generation_id |-> IF IsLastArrival(b) THEN b.generation_id + 1 ELSE b.generation_id]

(* Mutant: a waiter that only looks at the count, which the leader resets. *)
MayLeaveOnCount(b, local_gen) == b.count >= b.num_threads

(* Barrier::wait, the spin loop of the others: they leave in a critical    *)
(* section that sees another generation than the one they arrived in.      *)
MayLeave(b, local_gen) == local_gen # b.generation_id \/ b.count >= b.num_threads

=============================================================================
