---------------------------- MODULE MCZemaphore ----------------------------
(***************************************************************************)
(* Zemaphore with a negative, a zero and a positive initial value.         *)
(***************************************************************************)
EXTENDS Zemaphore

Values == -1 .. 1

=============================================================================
