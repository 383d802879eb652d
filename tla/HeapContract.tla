----------------------------- MODULE HeapContract ----------------------------
(***************************************************************************)
(* What GETMAIN and FREEMAIN promise, with no list and no headers: the     *)
(* program owns extents of the buffer; an allocation adds one that meets   *)
(* none of the others, a free removes one.                                 *)
(***************************************************************************)
EXTENDS Integers

CONSTANTS First, Last    \* the buffer: addresses First .. Last
VARIABLE owned

Extents == [lo : First .. Last, hi : First .. Last]
Apart(d, e) == d.hi < e.lo \/ e.hi < d.lo

Init == owned = {}

Allocate(e) ==
  /\ e \in Extents /\ e.lo <= e.hi
  /\ \A d \in owned : Apart(d, e)
  /\ owned' = owned \cup {e}

Release(e) == e \in owned /\ owned' = owned \ {e}

Next == (\E e \in owned' : Allocate(e)) \/ (\E e \in owned : Release(e))
Spec == Init /\ [][Next]_owned
=============================================================================
