--------------------------- MODULE LaggingCounter ---------------------------
(***************************************************************************)
(* What approximate_counter.c promises: a global value that runs behind    *)
(* the exact one, never ahead of it and by at most Lag for the updates     *)
(* that have returned, and that never goes back.                           *)
(***************************************************************************)
EXTENDS Integers

CONSTANTS Amounts, Lag

VARIABLES
  exact,      \* the sum of the updates that have taken effect
  returned,   \* the sum of the updates that have returned
  global      \* what get reads

vars == <<exact, returned, global>>

Init == exact = 0 /\ returned = 0 /\ global = 0

Update ==
  /\ \E amt \in Amounts : exact' = exact + amt
  /\ UNCHANGED <<returned, global>>

Return ==
  /\ \E amt \in Amounts : returned' = returned + amt
  /\ returned' \in 0 .. exact
  /\ returned' - global <= Lag
  /\ UNCHANGED <<exact, global>>

Publish ==
  /\ global' \in global + 1 .. exact
  /\ UNCHANGED <<exact, returned>>

Next == Update \/ Return \/ Publish

Spec == Init /\ [][Next]_vars

=============================================================================
