-------------------------- MODULE MCPrismBacktest --------------------------
(* Bars around a level of 100 with an ATR of 20: the zone reaches from 98 to *)
(* 102, an accepted entry at 112 risks 24, its targets are 148 and 172.      *)
EXTENDS PrismBacktest

Bar(high, low, close) ==
  [high |-> high, low |-> low, close |-> close, atr14 |-> 20,
   regime |-> "NORMAL", mse_state |-> "TREND_UP", mps_state |-> "PASS",
   above_vwap |-> TRUE, liquidity |-> 8, spread_ok |-> TRUE, healthy |-> TRUE,
   volume_ok |-> TRUE, aligned |-> TRUE]

Quiet == Bar(100, 94, 96)
Above == Bar(114, 106, 112)      \* above the zone: no retest, and no exit
Good == Bar(112, 100, 112)       \* retests and passes, also right at the breakout
Far == Bar(138, 100, 138)        \* passes with a risk of 40
Stopped == Bar(112, 84, 112)     \* takes the stop out and is a good retest itself
Crash == Bar(112, 80, 82)        \* closes below the stop
AtTarget1 == Bar(150, 106, 112)
AtTarget2 == Bar(180, 106, 112)
Shock == [Good EXCEPT !.regime = "SHOCK"]
\* Passes every filter except the score, which is 6.015.
LowScore == [Bar(120, 100, 112) EXCEPT !.regime = "OTHER", !.mse_state = "RANGE",
               !.liquidity = 6, !.healthy = FALSE, !.aligned = FALSE]

BarKinds ==
  {Quiet, Above, Good, Far, Stopped, Crash, AtTarget1, AtTarget2, Shock, LowScore}
==============================================================================
