---------------------------- MODULE MCPrismStrategy ----------------------------
(* Bars around a level of 1000, where the tolerance of the retest is one     *)
(* tick: a bar without a range, one that breaks out, one that touches the    *)
(* level exactly at the tolerance and closes exactly in the middle of its    *)
(* range, one that misses the tolerance by a tick, one that closes below the *)
(* level, and one that closes near its low.  Windows of a few bars let a     *)
(* setup expire, be retested on its last bar and run into the cooldown.      *)
EXTENDS PrismStrategy

MCBar(o, h, l, c, atr) == [open |-> o, high |-> h, low |-> l, close |-> c, atr_14 |-> atr]

MCBars == {MCBar(1000, 1000, 1000, 1000, 0), MCBar(1000, 1004, 999, 1003, 4),
           MCBar(1004, 1005, 1001, 1003, 2), MCBar(1003, 1006, 1002, 1006, 1),
           MCBar(1001, 1002, 998, 999, 3), MCBar(1000, 1005, 1000, 1001, 5)}
==============================================================================
