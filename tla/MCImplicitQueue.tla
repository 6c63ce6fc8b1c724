--------------------------- MODULE MCImplicitQueue ---------------------------
(* Two consumers, blocks of two items, an index of two entries that may be   *)
(* replaced once, bulks that need two new blocks.  The model begins after    *)
(* two items, so that the index is not in the order of its entries any more  *)
(* when it is replaced.                                                      *)
EXTENDS ImplicitQueue, TLC

Alike == Permutations(Consumers)
=============================================================================
