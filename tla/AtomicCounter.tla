--------------------------- MODULE AtomicCounter ---------------------------
(***************************************************************************)
(* What counter.c promises its callers.  A call of inc, dec or get takes   *)
(* effect in one step between its call and its return, once, and returns   *)
(* the value that step produced.  A turn of incloop adds one to a counter  *)
(* below Limit, once, and the loop is left only at the limit.              *)
(***************************************************************************)
EXTENDS Integers

CONSTANTS
  Loopers,   \* the threads that run incloop
  Clients,   \* the threads that call inc, dec and get
  Limit      \* LIMIT, where incloop stops

VARIABLES
  val,       \* the value of the counter
  op,        \* the operation each thread executes, or executed last
  phase,     \* "out" of the counter, "called", "answered" or "left"
  res        \* res[t] is what the last call of t returns, 0 before it

vars == <<val, op, phase, res>>

Init ==
  /\ val = 0
  /\ op = [t \in Loopers \cup Clients |->
             IF t \in Loopers THEN "incloop" ELSE "get"]
  /\ phase = [t \in Loopers \cup Clients |->
                IF t \in Loopers THEN "called" ELSE "out"]
  /\ res = [t \in Loopers \cup Clients |-> 0]

Go(t, from, to) == phase[t] = from /\ phase' = [phase EXCEPT ![t] = to]

Call(t) ==
  /\ Go(t, "out", "called")
  /\ \E o \in {"inc", "dec", "get"} : op' = [op EXCEPT ![t] = o]
  /\ UNCHANGED <<val, res>>

\* The instant at which the call in hand takes effect.
Effect(t) ==
  /\ Go(t, "called", "answered")
  /\ \/ op[t] = "inc" /\ val' = val + 1
     \/ op[t] = "dec" /\ val' = val - 1
     \/ op[t] = "get" /\ val' = val
  /\ res' = [res EXCEPT ![t] = val']
  /\ UNCHANGED op

Return(t) == Go(t, "answered", "out") /\ UNCHANGED <<val, op, res>>

\* One turn of incloop counts one.
Turn(t) ==
  /\ Go(t, "called", "answered")
  /\ val < Limit
  /\ val' = val + 1
  /\ UNCHANGED <<op, res>>

NextTurn(t) == Go(t, "answered", "called") /\ UNCHANGED <<val, op, res>>

Leave(t) ==
  /\ Go(t, "called", "left")
  /\ val >= Limit
  /\ UNCHANGED <<val, op, res>>

Next ==
  \/ \E t \in Clients : Call(t) \/ Effect(t) \/ Return(t)
  \/ \E t \in Loopers : Turn(t) \/ NextTurn(t) \/ Leave(t)

Spec == Init /\ [][Next]_vars

=============================================================================
