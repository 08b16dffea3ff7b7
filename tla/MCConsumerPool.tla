--------------------------- MODULE MCConsumerPool ---------------------------
(* Instances of ConsumerPool for TLC: the sizes are in the .cfg files.     *)
EXTENDS ConsumerPool
=============================================================================
