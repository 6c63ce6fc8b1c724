--------------------------- MODULE MCPrismLiveEngine ---------------------------
(* Two prices around a level of 1000 that is within the tolerance of one of  *)
(* them, time stamps one or two to a bucket and one in milliseconds, trades  *)
(* without a price, a volume or a time stamp.  Settings are small: a         *)
(* breakout looks at one bar, a setup lives two bars.                        *)
EXTENDS PrismLiveEngine

Trade(price, ts) == [price |-> price, volume |-> 1, exchange_ts_ns |-> ts]

\* 2 is a time stamp in milliseconds (of bucket 12), all others are in
\* nanoseconds.
MCTimes == {2, 12, 16, 20, 24, 28}
MCTrades == {Trade(p, ts) : p \in {1000, 1004}, ts \in MCTimes}
            \cup {[price |-> 1000, volume |-> 0, exchange_ts_ns |-> 12],
                  Trade(0, 12), Trade(1000, 0)}

\* The same market with a silence in the middle of a setup: no
\* trade falls into the buckets 20 and 24.
MCSparseTrades == {Trade(p, ts) : p \in {1000, 1004}, ts \in {12, 16, 28, 32}}
==============================================================================
