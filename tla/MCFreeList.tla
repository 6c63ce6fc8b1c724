----------------------------- MODULE MCFreeList -----------------------------
(* Three threads and two nodes: one thread can stall with a reference to a   *)
(* node while another takes and returns it and the third works on the head.  *)
EXTENDS FreeList, TLC

Alike == Permutations(Nodes) \cup Permutations(Threads)
=============================================================================
