------------------------------- MODULE HeapLifo ------------------------------
(***************************************************************************)
(* The heap, and what is known of the order of its calls: whether the      *)
(* program has so far freed in the reverse of the order it allocates in,   *)
(* as pattern-match scratch does (docs/storage-allocation.md, "Forward     *)
(* coalesce only").                                                        *)
(***************************************************************************)
EXTENDS Heap, FiniteSets, Sequences, SequencesExt

VARIABLES
  lifo,     \* history: every free was of the youngest block
  order     \* history: while it was, the blocks owned, the oldest first

LifoInit == Init /\ lifo = TRUE /\ order = <<>>

Granted ==
  /\ GetmainSplit \/ GetmainWhole
  /\ order' = IF lifo THEN Append(order, curr) ELSE order
  /\ UNCHANGED lifo

Freed ==
  /\ FreemainLink
  /\ lifo' = (lifo /\ block = Last(order))
  /\ order' = IF lifo' THEN Front(order) ELSE <<>>

LifoNext ==
  \/ Granted
  \/ Freed
  \/ /\ \/ \E n \in Sizes : GetmainCall(n)
        \/ GetmainNext \/ GetmainOom
        \/ \E h \in Hdr, n \in Sizes : FreemainCall(h, n)
        \/ FreemainNext
        \/ \E h \in live : Fill(h)
     /\ UNCHANGED <<lifo, order>>

LifoSpec == LifoInit /\ [][LifoNext]_<<vars, lifo, order>>
                     /\ WF_vars(Getmain) /\ WF_vars(Freemain)

(* Freeing in reverse order chain-coalesces: the forward coalesce of       *)
(* _PLSW_FREEMAIN alone then keeps the free memory in one piece.           *)
LifoStaysWhole == lifo /\ pc = "idle" => Cardinality(free) <= 1
=============================================================================
