---------------------------- MODULE MCEngineThread ----------------------------
(* A market told bucket by bucket, so that there is a first signal after     *)
(* three bars, a tick that reaches its stop, its first or its second target  *)
(* as the fourth bar is formed, and a second signal while the first trade is *)
(* still open or after it was closed; and a packet without a time stamp,     *)
(* which moves the trade but forms no bar.                                   *)
EXTENDS EngineThread

Trade(price, ts) == [price |-> price, volume |-> 1, exchange_ts_ns |-> ts]

PricesOf ==
  12 :> {1000} @@ 16 :> {1004} @@ 20 :> {1000, 1004} @@ 24 :> {998, 1012}
  @@ 28 :> {1004, 1012} @@ 32 :> {1000, 1012} @@ 36 :> {1000}

MCTrades == UNION {{Trade(price, ts) : price \in PricesOf[ts]} : ts \in DOMAIN PricesOf}
            \cup {Trade(1018, 0), Trade(1004, 0)}
==============================================================================
