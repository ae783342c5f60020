------------------------------- MODULE MCHeap -------------------------------
(***************************************************************************)
(* Small heaps for TLC.  MCSizes holds requests that fit and one that is   *)
(* larger than the heap.                                                   *)
(***************************************************************************)
EXTENDS Heap

MCSizes == {1, 2, 40}
=============================================================================
