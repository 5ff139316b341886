------------------------------- MODULE Vector -------------------------------
(***************************************************************************)
(* mem_api/vector.c: an array that grows by a quarter when one place is    *)
(* left.  realloc is given the new capacity as a number of bytes.          *)
(***************************************************************************)
EXTENDS Unix

CONSTANTS
  Capacities,   \* the capacities a vector is begun with, 3 in main
  Pushes        \* the calls of push_back, 5 in main

ASSUME VectorAssumption == Capacities \subseteq 1..10 /\ Pushes \in Nat

IntBytes == 4   \* sizeof(int)

\* main allocates ten ints whatever capacity it states.  bytes is what the
\* allocator was last asked for.
VectorInit ==
  \E first \in Capacities :
    Begin("vector", [main |-> "push"],
          [first |-> first, capacity |-> first, size |-> 0,
           bytes |-> 10 * IntBytes, overrun |-> FALSE],
          <<>>)

\* Mutant of Grows: the last place is filled before the array grows.
GrowsLate == mem.size = mem.capacity

Grows == mem.size + 1 = mem.capacity

\* (int) (capacity * 1.25)
Larger(capacity) == (5 * capacity) \div 4

\* overrun is whether an element was written past the end.  If so, a call
\* may find the heap damaged and abort.
PushBack ==
  /\ program = "vector" /\ mem.size < Pushes
  /\ LET capacity == IF Grows THEN Larger(mem.capacity) ELSE mem.capacity
         bytes == IF Grows THEN capacity ELSE mem.bytes
     IN  Compute("vector", "main", "push", "push",
                 [mem EXCEPT !.capacity = capacity, !.bytes = bytes,
                             !.size = @ + 1,
                             !.overrun = @ \/ IntBytes * (mem.size + 1) > bytes])

FreeData ==
  Goto("vector", "main", "push", "done") /\ mem.size = Pushes

AbortOverrun == Goto("vector", "main", "push", "aborted") /\ mem.overrun

VectorNext == PushBack \/ FreeData \/ AbortOverrun

VectorFairness == WF_vars(VectorNext)

VectorEnds == program = "vector" /\ pc["main"] \in {"done", "aborted"}

(***************************************************************************)
(* A vector begun with a capacity of four or more always has more places   *)
(* than elements; a smaller one never grows, a quarter of its capacity     *)
(* being none, and is outgrown: main's is.  Every element up to the first  *)
(* realloc is inside the memory, and the one that causes it is not         *)
(* (vector.c:36-43).                                                       *)
(***************************************************************************)
VectorFits ==
  program = "vector" =>
    /\ IF mem.first >= 4 THEN mem.size < mem.capacity
                         ELSE mem.capacity = mem.first
    /\ mem.overrun <=> mem.size >= mem.first

=============================================================================
