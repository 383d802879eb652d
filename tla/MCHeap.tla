-------------------------------- MODULE MCHeap -------------------------------
(* A heap of 25 bytes: up to four blocks, exact fits, whole-block grants   *)
(* with 1 to 6 spare bytes, splits, and requests nothing can satisfy.      *)
EXTENDS HeapLifo

MCBase == 1
MCHeapSize == 25
MCSizes == {0, 2, 30}
(* Two addresses where blocks start in some orders of the calls, and which *)
(* in others lie in the data of a block or across the edge of a header.    *)
MCMarks == {7, 9}
MCForges == FALSE

(* Outside the checked claim: FREEMAIN given an address whose sentinel is  *)
(* a forgery takes memory the program owns into the free list.             *)
AnyAddress == TRUE
=============================================================================
