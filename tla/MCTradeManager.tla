---------------------------- MODULE MCTradeManager ----------------------------
(* Two valid signals with different risks, so that their levels interleave,  *)
(* one that is inactive and one without risk; prices on, between and beyond  *)
(* every level, so that each exit also happens with a gap.                   *)
EXTENDS TradeManager

Signal(active, entry, stop, t1, t2) ==
  [active |-> active, entry_price |-> entry, stop_loss |-> stop,
   target1 |-> t1, target2 |-> t2]

MCSignals == {Signal(TRUE, 10, 8, 13, 15), Signal(TRUE, 9, 5, 15, 19),
              Signal(FALSE, 10, 8, 13, 15), Signal(TRUE, 9, 9, 9, 9)}
MCPrices == {4, 5, 8, 9, 10, 12, 13, 15, 19, 20}
==============================================================================
