------------------------------- MODULE MCHeap -------------------------------
(* Heap on a pool of a few bytes. *)
EXTENDS Heap
=============================================================================
