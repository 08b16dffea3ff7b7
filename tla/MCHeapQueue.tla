---------------------------- MODULE MCHeapQueue ----------------------------
(* Instances of HeapQueue for TLC: the sizes are in the .cfg files.        *)
EXTENDS HeapQueue
=============================================================================
