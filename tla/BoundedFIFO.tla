---------------------------- MODULE BoundedFIFO ----------------------------
(***************************************************************************)
(* What buffer.c promises: a queue of at most MAX items that hands every   *)
(* item a producer puts to exactly one consumer, in the order of the puts. *)
(* A put waits while the queue is full, a get while it is empty.           *)
(***************************************************************************)
EXTENDS Integers, Sequences

CONSTANTS Producers, Consumers, MAX, NoItem

VARIABLES
  queue,   \* the items put and not yet got, oldest first
  sent,    \* sent[p] is how many items p has put
  got      \* got[c] is the last item c got

Init ==
  /\ queue = <<>>
  /\ sent = [p \in Producers |-> 0]
  /\ got = [c \in Consumers |-> NoItem]

\* The next item of producer p is its loop counter, 0, 1, 2 ...
Put(p) ==
  /\ Len(queue) < MAX
  /\ queue' = Append(queue, <<p, sent[p]>>)
  /\ sent' = [sent EXCEPT ![p] = @ + 1]
  /\ UNCHANGED got

Get(c) ==
  /\ queue # <<>>
  /\ got' = [got EXCEPT ![c] = Head(queue)]
  /\ queue' = Tail(queue)
  /\ UNCHANGED sent

Next == (\E p \in Producers : Put(p)) \/ (\E c \in Consumers : Get(c))

Spec == Init /\ [][Next]_<<queue, sent, got>>

=============================================================================
