----------------------------- MODULE Rendezvous -----------------------------
(***************************************************************************)
(* What barrier.c promises to threads that use a barrier once: nobody      *)
(* leaves before everybody has arrived.                                    *)
(***************************************************************************)
CONSTANT Threads

VARIABLES
  arrived,   \* the threads that have reached the barrier
  left       \* the threads that are past it

vars == <<arrived, left>>

Init == arrived = {} /\ left = {}

Arrive(t) ==
  /\ t \in Threads \ arrived
  /\ arrived' = arrived \cup {t}
  /\ UNCHANGED left

Leave(t) ==
  /\ arrived = Threads
  /\ t \in Threads \ left
  /\ left' = left \cup {t}
  /\ UNCHANGED arrived

Next == \E t \in Threads : Arrive(t) \/ Leave(t)

Spec == Init /\ [][Next]_vars

=============================================================================
