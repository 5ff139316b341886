------------------------- MODULE CountingSemaphore -------------------------
(***************************************************************************)
(* What a semaphore promises (zemaphore.c builds one): a wait takes effect *)
(* when the value is positive and takes one from it, a post adds one, and  *)
(* while the value is positive somebody who waits is let through.          *)
(***************************************************************************)
EXTENDS Integers

CONSTANTS Threads, InitialValues

VARIABLES
  value,     \* the semaphore's value
  waiting    \* the threads whose wait has not taken effect

vars == <<value, waiting>>

Init == value \in InitialValues /\ waiting = {}

CallWait(t) ==
  /\ t \notin waiting
  /\ waiting' = waiting \cup {t}
  /\ UNCHANGED value

Grant(t) ==
  /\ t \in waiting
  /\ value > 0
  /\ value' = value - 1
  /\ waiting' = waiting \ {t}

Post == value' = value + 1 /\ UNCHANGED waiting

Next == Post \/ \E t \in Threads : CallWait(t) \/ Grant(t)

Spec == Init /\ [][Next]_vars

FairSpec == Spec /\ WF_vars(\E t \in Threads : Grant(t))

=============================================================================
