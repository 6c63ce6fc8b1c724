------------------------- MODULE MCBenchmarkEngine -------------------------
(* A ring of four slots and ten packets, which can be told apart: the ring   *)
(* wraps, fills up and empties on the way.                                   *)
EXTENDS BenchmarkEngine

TradeIds == 0 .. MaxPushes - 1
=============================================================================
