----------------------------- MODULE ObjectStore -----------------------------
(***************************************************************************)
(* What swapping must be invisible to: a heap of objects whose fields keep *)
(* the last value the program stored in them until the object is           *)
(* collected.  Swap.tla is shown to implement it.                          *)
(***************************************************************************)
CONSTANTS Objects, Fields, Values, InitialValue, Unallocated

VARIABLE contents   \* the fields of every object, as the program sees them

Init == contents = [o \in Objects |-> Unallocated]

Allocate(o) ==
  /\ contents[o] = Unallocated
  /\ contents' = [contents EXCEPT ![o] = [f \in Fields |-> InitialValue]]

Store(o, f, v) ==
  /\ contents[o] # Unallocated
  /\ contents' = [contents EXCEPT ![o] = [@ EXCEPT ![f] = v]]

Collect(dead) ==
  contents' = [o \in Objects |-> IF o \in dead THEN Unallocated ELSE contents[o]]

Next ==
  \/ \E o \in Objects : Allocate(o)
  \/ \E o \in Objects, f \in Fields, v \in Values : Store(o, f, v)
  \/ \E dead \in SUBSET Objects : Collect(dead)

Spec == Init /\ [][Next]_contents

=============================================================================
