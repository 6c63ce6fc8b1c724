-------------------------- MODULE TradeManager_proofs --------------------------
(***************************************************************************)
(* Proofs about TradeManager, for every set of prices and of signals whose *)
(* levels are ordered.                                                     *)
(*                                                                         *)
(* The argument: while a trade is open its levels keep the order of the    *)
(* signal, and its stop is the initial one until the first target is hit   *)
(* and the entry price after.  So a price that reaches the stop lies at    *)
(* least one risk below the entry in the first case and not above it in    *)
(* the second, and the sign of r_multiple follows from the reason of the   *)
(* exit.                                                                   *)
(*                                                                         *)
(* The summary and an open log agree because close_trade() adds one to a   *)
(* counter and a row with the result of that name, and the R of that row   *)
(* to gross_r.  The sum over the rows is a recursive function: that there  *)
(* is one is shown from the least number of rows for which it failed.      *)
(***************************************************************************)
EXTENDS TradeManager, SequenceTheorems, FiniteSetTheorems, WellFoundedInduction, TLAPS

-----------------------------------------------------------------------------
(* The inductive invariant *)

\* The open trade has the levels of an accepted signal.
Levels(t) ==
  /\ t.initial_risk = t.entry_price - t.initial_stop_loss
  /\ t.initial_risk > 0
  /\ t.entry_price < t.target1 /\ t.target1 < t.target2
  /\ t.stop_loss = IF t.target1_hit THEN t.entry_price ELSE t.initial_stop_loss
  /\ R_UNIT \div t.initial_risk \in Nat \ {0}
  /\ R_UNIT = t.initial_risk * (R_UNIT \div t.initial_risk)

\* What the properties say about one row of the log.
RowOK(row) ==
  LET actual == (row.exit - row.entry) * (R_UNIT \div row.risk) IN
  /\ row.result = "WIN" <=> row.exit_reason = "TARGET2_HIT"
  /\ row.result = "LOSS" <=> row.exit_reason = "STOP_LOSS"
  /\ row.result = "WIN" => row.exit >= row.target2
  /\ row.result = "LOSS" => row.r <= 0 - R_UNIT
  /\ row.final_stop = IF row.result = "LOSS" THEN row.initial_stop ELSE row.entry
  /\ row.r >= actual
  /\ row.exit_reason # "BREAKEVEN_STOP" => row.r = actual

RowsOK == \A i \in 1 .. Len(csv) : RowOK(csv[i])

TMInv ==
  /\ TMTypeOK
  /\ TradesAccounted
  /\ IsOpen => Levels(trade)
  /\ RowsOK
  /\ OpenTradeBracketed

-----------------------------------------------------------------------------
(* Booking a trade *)

\* When close_trade() runs, the reason fits the price and the stop.
Closable(t, price, reason) ==
  \/ reason = "TARGET2_HIT" /\ price >= t.target2 /\ t.target1_hit
  \/ reason = "STOP_LOSS" /\ price <= t.stop_loss /\ ~t.target1_hit
  \/ reason = "BREAKEVEN_STOP" /\ price <= t.stop_loss /\ t.target1_hit

\* The row of a closed trade is booked as the reason of its exit says
\* (trade_manager.cpp:117-141, :162-168).
LEMMA RowIsOK ==
  ASSUME NEW t \in TradeType, NEW price \in Int, NEW reason \in Reasons,
         Levels(t), Closable(t, price, reason)
  PROVE  /\ RowOK(Row(t, price, reason))
         /\ Row(t, price, reason) \in RowType
         /\ ReportedR(t, price, reason) \in Int
<1> DEFINE k == R_UNIT \div t.initial_risk
           d == price - t.entry_price
           row == Row(t, price, reason)
<1>1. /\ k \in Nat \ {0} /\ d \in Int
      /\ R_UNIT = t.initial_risk * k
      /\ t.initial_risk \in Nat \ {0} /\ R_UNIT \in Nat \ {0}
  BY RUnitAssumption DEF Levels, TradeType
<1>2. ActualR(t, price) = d * k
  BY DEF ActualR
<1>3. /\ row.exit = price /\ row.entry = t.entry_price
      /\ row.risk = t.initial_risk /\ row.target2 = t.target2
      /\ row.final_stop = t.stop_loss /\ row.initial_stop = t.initial_stop_loss
      /\ row.exit_reason = reason
      /\ row.r = ReportedR(t, price, reason)
      /\ row.result = ResultOf(ReportedR(t, price, reason))
      /\ row.trade_id = t.trade_id
      /\ (row.exit - row.entry) * (R_UNIT \div row.risk) = d * k
  BY DEF Row
<1>4. row = [trade_id |-> t.trade_id, entry |-> t.entry_price, exit |-> price,
             initial_stop |-> t.initial_stop_loss, final_stop |-> t.stop_loss,
             target2 |-> t.target2, risk |-> t.initial_risk,
             r |-> row.r, result |-> row.result, exit_reason |-> reason]
  BY DEF Row
<1> HIDE DEF k, d, row
<1>5. CASE reason = "TARGET2_HIT"
  <2>1. d >= 1 /\ price >= t.target2 /\ t.target1_hit
    BY <1>5 DEF Closable, Levels, TradeType, d
  <2>2. d * k >= 1
    BY <2>1, <1>1
  <2>3. ReportedR(t, price, reason) = d * k
    BY <1>2, <1>5 DEF ReportedR
  <2>4. d * k \in Int
    BY <1>1
  <2>5. row.result = "WIN"
    BY <1>3, <2>2, <2>3, <2>4 DEF ResultOf
  <2>6. t.stop_loss = t.entry_price
    BY <2>1 DEF Levels
  <2>7. RowOK(row)
    BY <1>3, <1>5, <2>1, <2>3, <2>4, <2>5, <2>6 DEF RowOK
  <2>8. row.r \in Int /\ row.result \in {"WIN", "LOSS", "BREAKEVEN"}
    BY <1>3, <2>3, <2>4, <2>5
  <2>9. row \in RowType
    BY <1>4, <2>8 DEF RowType, TradeType
  <2> QED BY <2>3, <2>4, <2>7, <2>9 DEF row
<1>6. CASE reason = "STOP_LOSS"
  <2>1. /\ ~t.target1_hit /\ t.stop_loss = t.initial_stop_loss
        /\ d <= 0 - t.initial_risk
    BY <1>6 DEF Closable, Levels, TradeType, d
  <2>2. d * k <= (0 - t.initial_risk) * k
    BY <2>1, <1>1
  <2>3. (0 - t.initial_risk) * k = 0 - R_UNIT
    BY <1>1
  <2>4. d * k \in Int /\ d * k <= 0 - R_UNIT
    BY <2>2, <2>3, <1>1
  <2>5. ReportedR(t, price, reason) = d * k
    BY <1>2, <1>6 DEF ReportedR
  <2>6. row.result = "LOSS"
    BY <1>1, <1>3, <2>4, <2>5 DEF ResultOf
  <2>7. RowOK(row)
    BY <1>3, <1>6, <2>1, <2>4, <2>5, <2>6 DEF RowOK
  <2>8. row.r \in Int /\ row.result \in {"WIN", "LOSS", "BREAKEVEN"}
    BY <1>3, <2>4, <2>5, <2>6
  <2>9. row \in RowType
    BY <1>4, <2>8 DEF RowType, TradeType
  <2> QED BY <2>4, <2>5, <2>7, <2>9 DEF row
<1>7. CASE reason = "BREAKEVEN_STOP"
  <2>1. d <= 0 /\ t.stop_loss = t.entry_price
    BY <1>7 DEF Closable, Levels, TradeType, d
  <2>2. d * k <= 0 /\ d * k \in Int
    BY <2>1, <1>1
  <2>3. ReportedR(t, price, reason) = 0
    BY <1>7 DEF ReportedR
  <2>4. row.result = "BREAKEVEN"
    BY <1>3, <2>3 DEF ResultOf
  <2>5. RowOK(row)
    BY <1>3, <1>7, <2>1, <2>2, <2>3, <2>4 DEF RowOK
  <2>6. row \in RowType
    BY <1>3, <1>4, <2>3, <2>4 DEF RowType, TradeType
  <2> QED BY <2>3, <2>5, <2>6 DEF row
<1> QED BY <1>5, <1>6, <1>7 DEF Reasons

\* Looking at the first target keeps the levels and the identity of the trade
\* and never lowers its stop (trade_manager.cpp:90-92).
LEMMA AfterTarget1Keeps ==
  ASSUME TMTypeOK, Levels(trade), NEW price \in Int
  PROVE  LET t == AfterTarget1(price) IN
         /\ t \in TradeType
         /\ Levels(t)
         /\ t.trade_id = trade.trade_id
         /\ t.stop_loss >= trade.stop_loss
         /\ trade.target1_hit => t.target1_hit
         /\ price >= t.target1 => t.target1_hit
<1>1. trade \in TradeType
  BY DEF TMTypeOK
<1>2. CASE ~trade.target1_hit /\ price >= trade.target1
  <2>1. AfterTarget1(price) =
          [trade EXCEPT !.target1_hit = TRUE, !.stop_loss = trade.entry_price]
    BY <1>2 DEF AfterTarget1
  <2> DEFINE t == AfterTarget1(price)
  <2>2. /\ t \in TradeType
        /\ t.stop_loss = trade.entry_price /\ t.target1_hit = TRUE
        /\ t.initial_risk = trade.initial_risk
        /\ t.entry_price = trade.entry_price
        /\ t.initial_stop_loss = trade.initial_stop_loss
        /\ t.target1 = trade.target1 /\ t.target2 = trade.target2
        /\ t.trade_id = trade.trade_id
    BY <1>1, <2>1 DEF TradeType
  <2>3. trade.stop_loss = trade.initial_stop_loss
    BY <1>2 DEF Levels
  <2>4. trade.entry_price >= trade.stop_loss
    BY <1>1, <2>3 DEF TradeType, Levels
  <2> HIDE DEF t
  <2>5. Levels(t)
    BY <2>2 DEF Levels
  <2> QED BY <2>2, <2>4, <2>5 DEF t
<1>3. CASE ~(~trade.target1_hit /\ price >= trade.target1)
  <2>1. AfterTarget1(price) = trade
    BY <1>3 DEF AfterTarget1
  <2> QED BY <1>1, <1>3, <2>1 DEF TradeType, Levels
<1> QED BY <1>2, <1>3

\* close_trade() keeps the invariant and books exactly one trade.
LEMMA CloseTradeInv ==
  ASSUME TMInv, IsOpen, NEW t \in TradeType, NEW price \in Int,
         NEW reason \in Reasons,
         Levels(t), t.trade_id = trade.trade_id, Closable(t, price, reason),
         close_trade(t, price, reason), trade' = t, quote' = {price},
         UNCHANGED <<next_trade_id, csv_is_open>>
  PROVE  TMInv' /\ total_trades' = total_trades + 1
<1> DEFINE row == Row(t, price, reason)
           r == ReportedR(t, price, reason)
<1>1. RowOK(row) /\ row \in RowType /\ r \in Int
  BY RowIsOK
<1>2. /\ state' = "FLAT"
      /\ total_trades' = total_trades + 1
      /\ gross_r' = gross_r + r
      /\ wins' = IF r > 0 THEN wins + 1 ELSE wins
      /\ losses' = IF r < 0 THEN losses + 1 ELSE losses
      /\ breakevens' = IF r = 0 THEN breakevens + 1 ELSE breakevens
      /\ csv' = IF csv_is_open THEN Append(csv, row) ELSE csv
  BY DEF close_trade
<1>3. row.trade_id = next_trade_id - 1
  BY DEF Row, TMInv, TradesAccounted
<1> HIDE DEF row, r
<1>4. /\ csv \in Seq(RowType) /\ total_trades \in Nat /\ next_trade_id \in Nat
      /\ wins \in Nat /\ losses \in Nat /\ breakevens \in Nat /\ gross_r \in Int
      /\ csv_is_open \in BOOLEAN
  BY DEF TMInv, TMTypeOK
<1>5. /\ wins' \in Nat /\ losses' \in Nat /\ breakevens' \in Nat
      /\ wins' + losses' + breakevens' = wins + losses + breakevens + 1
  BY <1>1, <1>2, <1>4
<1>6. ~IsOpen'
  BY <1>2 DEF IsOpen
<1>7. /\ csv' \in Seq(RowType)
      /\ csv_is_open => Len(csv') = Len(csv) + 1
      /\ ~csv_is_open => csv' = csv
      /\ \A i \in 1 .. Len(csv) : csv'[i] = csv[i]
      /\ csv_is_open => csv'[Len(csv) + 1] = row
  BY <1>1, <1>2, <1>4, AppendProperties
<1>8. TMTypeOK'
  BY <1>1, <1>2, <1>4, <1>5, <1>7 DEF TMInv, TMTypeOK
<1>9. TradesAccounted'
  <2>1. total_trades' = wins' + losses' + breakevens'
    BY <1>2, <1>4, <1>5 DEF TMInv, TradesAccounted
  <2>2. next_trade_id' = 1 + total_trades' + OpenTrades'
    BY <1>2, <1>4, <1>6 DEF TMInv, TradesAccounted, OpenTrades
  <2>3. csv_is_open' => Len(csv') = total_trades'
    BY <1>2, <1>4, <1>7 DEF TMInv, TradesAccounted
  <2>4. ASSUME NEW i \in 1 .. Len(csv') PROVE csv'[i].trade_id = i
    <3>1. CASE i \in 1 .. Len(csv)
      BY <1>7, <3>1 DEF TMInv, TradesAccounted
    <3>2. CASE i \notin 1 .. Len(csv)
      <4>1. csv_is_open /\ i = Len(csv) + 1
        BY <1>4, <1>7, <3>2
      <4>2. csv'[i].trade_id = next_trade_id - 1
        BY <1>3, <1>7, <4>1
      <4>3. next_trade_id - 1 = Len(csv) + 1
        BY <1>4, <4>1 DEF TMInv, TradesAccounted, OpenTrades
      <4> QED BY <4>1, <4>2, <4>3
    <3> QED BY <3>1, <3>2
  <2> QED BY <1>6, <2>1, <2>2, <2>3, <2>4 DEF TradesAccounted
<1>10. RowsOK'
  <2>1. ASSUME NEW i \in 1 .. Len(csv') PROVE RowOK(csv'[i])
    <3>1. CASE i \in 1 .. Len(csv)
      BY <1>7, <3>1 DEF TMInv, RowsOK
    <3>2. CASE i \notin 1 .. Len(csv)
      <4>1. csv_is_open /\ i = Len(csv) + 1
        BY <1>4, <1>7, <3>2
      <4> QED BY <1>1, <1>7, <4>1
    <3> QED BY <3>1, <3>2
  <2>2. RowsOK' <=> \A i \in 1 .. Len(csv') : RowOK(csv'[i])
    BY DEF RowsOK, RowOK
  <2> QED BY <2>1, <2>2
<1> QED BY <1>2, <1>6, <1>8, <1>9, <1>10 DEF TMInv, OpenTradeBracketed

-----------------------------------------------------------------------------
(* The rows of the log *)

\* Every set of numbers with 0 that is closed under successor holds them all.
LEMMA Induct ==
  ASSUME NEW P, 0 \in P, \A n \in Nat : n \in P => n + 1 \in P
  PROVE  Nat \subseteq P
<1> SUFFICES ASSUME Nat \ P # {} PROVE FALSE
  OBVIOUS
<1>1. \A x, y \in Nat : x < y => <<x, y>> \in OpToRel(<, Nat)
  BY Zenon DEF OpToRel
<1>2. PICK x \in Nat \ P : \A y \in Nat \ P : ~(<<y, x>> \in OpToRel(<, Nat))
  <2>1. Nat \ P \subseteq Nat /\ Nat \ P # {}
    OBVIOUS
  <2> QED BY <2>1, NatLessThanWellFounded, WFMin, Zenon
<1>3. \A y \in Nat \ P : ~(y < x)
  BY <1>1, <1>2, Zenon
<1>4. x # 0 /\ x - 1 \in Nat /\ (x - 1) + 1 = x
  <2>1. x \in Nat /\ x # 0
    BY Zenon
  <2> QED BY <2>1
<1>5. x - 1 \in P
  BY <1>3, <1>4
<1> QED BY <1>2, <1>4, <1>5, Zenon

\* g adds up the R of the first n rows of c, place by place.
UpTo(g, c, n) == g = [k \in 0 .. n |-> IF k = 0 THEN 0 ELSE g[k - 1] + c[k].r]

\* There is such a function for every number of rows.
LEMMA SumExists ==
  ASSUME NEW c
  PROVE  \A n \in Nat : \E g : UpTo(g, c, n)
<1> DEFINE P == {n \in Nat : \E g : UpTo(g, c, n)}
<1>1. 0 \in P
  <2> DEFINE g == [k \in 0 .. 0 |-> 0]
  <2>1. UpTo(g, c, 0)
    BY DEF UpTo
  <2> QED BY <2>1
<1>2. ASSUME NEW n \in Nat, n \in P
      PROVE  n + 1 \in P
  <2>1. PICK g : UpTo(g, c, n)
    BY <1>2
  <2> DEFINE h == [k \in 0 .. n + 1 |-> IF k <= n THEN g[k] ELSE g[n] + c[n + 1].r]
  <2>2. \A k \in 0 .. n + 1 : h[k] = IF k = 0 THEN 0 ELSE h[k - 1] + c[k].r
    <3> SUFFICES ASSUME NEW k \in 0 .. n + 1
                 PROVE  h[k] = IF k = 0 THEN 0 ELSE h[k - 1] + c[k].r
      OBVIOUS
    <3>1. CASE k = 0
      BY <2>1, <3>1 DEF UpTo
    <3>2. CASE k \in 1 .. n
      <4>1. h[k] = g[k] /\ h[k - 1] = g[k - 1] /\ k \in 0 .. n /\ k # 0
        BY <3>2
      <4>2. g[k] = g[k - 1] + c[k].r
        BY <2>1, <4>1 DEF UpTo
      <4> HIDE DEF h
      <4> QED BY <4>1, <4>2, Zenon
    <3>3. CASE k = n + 1
      <4>1. h[k] = g[n] + c[k].r /\ h[k - 1] = g[n] /\ k # 0
        BY <3>3
      <4> HIDE DEF h
      <4> QED BY <4>1, Zenon
    <3> QED BY <3>1, <3>2, <3>3
  <2>3. h = [k \in 0 .. n + 1 |-> h[k]]
    OBVIOUS
  <2> HIDE DEF h
  <2>4. UpTo(h, c, n + 1)
    BY <2>2, <2>3 DEF UpTo
  <2> QED BY <2>4
<1>3. Nat \subseteq P
  <2> HIDE DEF P
  <2> QED BY <1>1, <1>2, Induct
<1> QED BY <1>3

\* The R of the rows of c, added up row by row.
SumR(c) == CHOOSE s : s = [n \in Nat |-> IF n = 0 THEN 0 ELSE s[n - 1] + c[n].r]

\* It adds up the rows indeed.
LEMMA SumEquation ==
  ASSUME NEW c
  PROVE  /\ SumR(c)[0] = 0
         /\ \A n \in Nat : SumR(c)[n + 1] = SumR(c)[n] + c[n + 1].r
<1> DEFINE A(n) == CHOOSE g : UpTo(g, c, n)
           G == [n \in Nat |-> A(n)[n]]
           P == {k \in Nat : \A m, n \in Nat : k <= m /\ k <= n => A(m)[k] = A(n)[k]}
<1>1. \A n \in Nat : UpTo(A(n), c, n)
  BY SumExists
<1> HIDE DEF A
<1>2. \A n \in Nat : /\ A(n)[0] = 0
                     /\ \A k \in Nat : k + 1 <= n => A(n)[k + 1] = A(n)[k] + c[k + 1].r
  <2> SUFFICES ASSUME NEW n \in Nat
               PROVE  /\ A(n)[0] = 0
                      /\ \A k \in Nat : k + 1 <= n => A(n)[k + 1] = A(n)[k] + c[k + 1].r
    OBVIOUS
  <2> DEFINE g == A(n)
  <2>1. \A k \in 0 .. n : g[k] = IF k = 0 THEN 0 ELSE g[k - 1] + c[k].r
    BY <1>1 DEF UpTo
  <2> HIDE DEF g
  <2>2. g[0] = 0
    BY <2>1
  <2>3. ASSUME NEW k \in Nat, k + 1 <= n PROVE g[k + 1] = g[k] + c[k + 1].r
    <3>1. k + 1 \in 0 .. n /\ k + 1 # 0 /\ (k + 1) - 1 = k
      BY <2>3
    <3>2. g[k + 1] = g[(k + 1) - 1] + c[k + 1].r
      BY <2>1, <3>1, Zenon
    <3> QED BY <3>1, <3>2, Zenon
  <2> QED BY <2>2, <2>3 DEF g
<1>3. 0 \in P
  BY <1>2
<1>4. ASSUME NEW k \in Nat, k \in P PROVE k + 1 \in P
  <2> SUFFICES ASSUME NEW m \in Nat, NEW n \in Nat, k + 1 <= m, k + 1 <= n
               PROVE  A(m)[k + 1] = A(n)[k + 1]
    OBVIOUS
  <2>1. A(m)[k] = A(n)[k]
    BY <1>4
  <2>2. A(m)[k + 1] = A(m)[k] + c[k + 1].r /\ A(n)[k + 1] = A(n)[k] + c[k + 1].r
    BY <1>2
  <2> QED BY <2>1, <2>2, Zenon
<1>5. Nat \subseteq P
  <2> HIDE DEF P
  <2> QED BY <1>3, <1>4, Induct
<1>6. G[0] = 0 /\ \A n \in Nat : G[n + 1] = G[n] + c[n + 1].r
  <2>1. ASSUME NEW n \in Nat PROVE G[n + 1] = G[n] + c[n + 1].r
    <3>1. n \in P /\ n + 1 \in Nat /\ n <= n + 1 /\ n <= n /\ n + 1 <= n + 1
      BY <1>5
    <3>2. A(n + 1)[n] = A(n)[n]
      BY <3>1
    <3>3. A(n + 1)[n + 1] = A(n + 1)[n] + c[n + 1].r
      BY <1>2, <3>1
    <3>4. G[n + 1] = A(n + 1)[n + 1] /\ G[n] = A(n)[n]
      BY <3>1
    <3> HIDE DEF G
    <3> QED BY <3>2, <3>3, <3>4, Zenon
  <2> QED BY <1>2, <2>1
<1> HIDE DEF G
<1>7. \A n \in Nat : G[n] = IF n = 0 THEN 0 ELSE G[n - 1] + c[n].r
  <2> SUFFICES ASSUME NEW n \in Nat, n # 0 PROVE G[n] = G[n - 1] + c[n].r
    BY <1>6
  <2>1. n - 1 \in Nat /\ (n - 1) + 1 = n
    OBVIOUS
  <2>2. G[(n - 1) + 1] = G[n - 1] + c[(n - 1) + 1].r
    BY <1>6, <2>1, Zenon
  <2> QED BY <2>1, <2>2, Zenon
<1>8. G = [n \in Nat |-> IF n = 0 THEN 0 ELSE G[n - 1] + c[n].r]
  <2>1. G = [n \in Nat |-> G[n]]
    BY DEF G
  <2> QED BY <1>7, <2>1
<1>9. \E s : s = [n \in Nat |-> IF n = 0 THEN 0 ELSE s[n - 1] + c[n].r]
  BY <1>8, Zenon
<1> DEFINE S == SumR(c)
<1>10. S = [n \in Nat |-> IF n = 0 THEN 0 ELSE S[n - 1] + c[n].r]
  BY <1>9, Zenon DEF SumR
<1> HIDE DEF S
<1>11. S[0] = 0 /\ \A n \in Nat : S[n + 1] = S[n] + c[n + 1].r
  <2>1. S[0] = 0
    BY <1>10
  <2>2. ASSUME NEW n \in Nat PROVE S[n + 1] = S[n] + c[n + 1].r
    <3>1. n + 1 \in Nat /\ n + 1 # 0 /\ (n + 1) - 1 = n
      OBVIOUS
    <3>2. S[n + 1] = S[(n + 1) - 1] + c[n + 1].r
      BY <1>10, <3>1
    <3> QED BY <3>1, <3>2, Zenon
  <2> QED BY <2>1, <2>2
<1> QED BY <1>11 DEF S

\* One more row adds its R.
LEMMA SumOneMore ==
  ASSUME NEW c \in Seq(RowType), NEW row \in RowType
  PROVE  SumR(Append(c, row))[Len(c) + 1] = SumR(c)[Len(c)] + row.r
<1> DEFINE d == Append(c, row)
           S == SumR(c)
           T == SumR(d)
           P == {n \in Nat : n <= Len(c) => T[n] = S[n]}
<1>1. /\ Len(c) \in Nat /\ d[Len(c) + 1] = row
      /\ \A i \in 1 .. Len(c) : d[i] = c[i]
  OBVIOUS
<1>2. /\ S[0] = 0 /\ \A n \in Nat : S[n + 1] = S[n] + c[n + 1].r
      /\ T[0] = 0 /\ \A n \in Nat : T[n + 1] = T[n] + d[n + 1].r
  BY SumEquation, Zenon
<1> HIDE DEF d, S, T
<1>3. 0 \in P
  BY <1>2
<1>4. ASSUME NEW n \in Nat, n \in P PROVE n + 1 \in P
  <2> SUFFICES ASSUME n + 1 <= Len(c) PROVE T[n + 1] = S[n + 1]
    OBVIOUS
  <2>1. n <= Len(c) /\ n + 1 \in 1 .. Len(c)
    BY <1>1
  <2>2. T[n] = S[n] /\ d[n + 1] = c[n + 1]
    BY <1>1, <1>4, <2>1
  <2> QED BY <1>2, <2>2, Zenon
<1>5. Nat \subseteq P
  <2> HIDE DEF P
  <2> QED BY <1>3, <1>4, Induct
<1>6. T[Len(c)] = S[Len(c)]
  BY <1>1, <1>5
<1> QED BY <1>1, <1>2, <1>6, Zenon DEF d, S, T

\* How many rows of c have a result.
Rows(c, result) == Cardinality({i \in 1 .. Len(c) : c[i].result = result})

\* One more row counts for its own result only.
LEMMA RowsOneMore ==
  ASSUME NEW c \in Seq(RowType), NEW row \in RowType, NEW result
  PROVE  /\ Rows(c, result) \in Nat
         /\ Rows(Append(c, row), result) =
              IF row.result = result THEN Rows(c, result) + 1 ELSE Rows(c, result)
<1> DEFINE d == Append(c, row)
           n == Len(c) + 1
           S == {i \in 1 .. Len(c) : c[i].result = result}
           T == {i \in 1 .. Len(d) : d[i].result = result}
<1>1. /\ Len(d) = n /\ Len(c) \in Nat /\ d[n] = row
      /\ \A i \in 1 .. Len(c) : d[i] = c[i]
  OBVIOUS
<1>2. IsFiniteSet(S)
  <2>1. IsFiniteSet(1 .. Len(c))
    BY <1>1, FS_Interval
  <2>2. S \in SUBSET (1 .. Len(c))
    OBVIOUS
  <2> HIDE DEF S
  <2> QED BY <2>1, <2>2, FS_Subset, Zenon
<1>3. n \notin S
  BY <1>1
<1>4. T = IF row.result = result THEN S \cup {n} ELSE S
  <2>1. 1 .. Len(d) = (1 .. Len(c)) \cup {n}
    BY <1>1
  <2> QED BY <1>1, <2>1
<1>5. Rows(c, result) = Cardinality(S) /\ Rows(d, result) = Cardinality(T)
  BY Zenon DEF Rows
<1> HIDE DEF d, S, T
<1>6. Cardinality(S) \in Nat
  BY <1>2, FS_CardinalityType
<1>7. CASE row.result = result
  <2>1. Cardinality(S \cup {n}) = Cardinality(S) + 1
    BY <1>2, <1>3, FS_AddElement
  <2> QED BY <1>4, <1>5, <1>6, <1>7, <2>1, Zenon DEF d
<1>8. CASE row.result # result
  BY <1>4, <1>5, <1>6, <1>8, Zenon DEF d
<1> QED BY <1>7, <1>8

\* The counters of the summary and the rows c of an open log tell the same.
Tell(w, l, b, g, c) ==
  /\ w = Rows(c, "WIN") /\ l = Rows(c, "LOSS") /\ b = Rows(c, "BREAKEVEN")
  /\ g = SumR(c)[Len(c)]

CsvInv == csv_is_open => Tell(wins, losses, breakevens, gross_r, csv)

\* close_trade() counts a trade as the row says, and adds the R that it says
\* (trade_manager.cpp:132-143, :162-168).
LEMMA CloseTradeBooks ==
  ASSUME TMInv, CsvInv, NEW t, NEW price, NEW reason,
         Row(t, price, reason) \in RowType, ReportedR(t, price, reason) \in Int,
         close_trade(t, price, reason), UNCHANGED csv_is_open
  PROVE  CsvInv'
<1> DEFINE row == Row(t, price, reason)
           r == ReportedR(t, price, reason)
<1>1. /\ gross_r' = gross_r + r
      /\ wins' = IF r > 0 THEN wins + 1 ELSE wins
      /\ losses' = IF r < 0 THEN losses + 1 ELSE losses
      /\ breakevens' = IF r = 0 THEN breakevens + 1 ELSE breakevens
      /\ csv' = IF csv_is_open THEN Append(csv, row) ELSE csv
      /\ r \in Int /\ row \in RowType
  BY DEF close_trade
<1>2. row.r = r /\ row.result = IF r > 0 THEN "WIN" ELSE IF r < 0 THEN "LOSS" ELSE "BREAKEVEN"
  BY DEF Row, ResultOf
<1> HIDE DEF row, r
<1>3. SUFFICES ASSUME csv_is_open PROVE Tell(wins', losses', breakevens', gross_r', csv')
  BY DEF CsvInv
<1>4. csv \in Seq(RowType) /\ csv' = Append(csv, row)
  BY <1>1, <1>3 DEF TMInv, TMTypeOK
<1>5. Tell(wins, losses, breakevens, gross_r, csv)
  BY <1>3 DEF CsvInv
<1>6. gross_r' = SumR(csv')[Len(csv')]
  <2>1. SumR(csv')[Len(csv) + 1] = SumR(csv)[Len(csv)] + row.r
    BY <1>1, <1>4, SumOneMore, Zenon
  <2>2. Len(csv') = Len(csv) + 1
    BY <1>1, <1>4, AppendProperties
  <2> QED BY <1>1, <1>2, <1>5, <2>1, <2>2, Zenon DEF Tell
<1>7. \A result : Rows(csv', result) =
        IF row.result = result THEN Rows(csv, result) + 1 ELSE Rows(csv, result)
  <2>1. \A result : Rows(Append(csv, row), result) =
           IF row.result = result THEN Rows(csv, result) + 1 ELSE Rows(csv, result)
    BY <1>1, <1>4, RowsOneMore, Zenon
  <2>2. csv' = Append(csv, row)
    BY <1>4
  <2> QED BY <2>1, <2>2, Zenon
<1>8. /\ row.result = "WIN" <=> r > 0
      /\ row.result = "LOSS" <=> r < 0
      /\ row.result = "BREAKEVEN" <=> r = 0
  BY <1>1, <1>2
<1>9. /\ wins' = Rows(csv', "WIN") /\ losses' = Rows(csv', "LOSS")
      /\ breakevens' = Rows(csv', "BREAKEVEN")
  BY <1>1, <1>5, <1>7, <1>8, Zenon DEF Tell
<1> QED BY <1>6, <1>9, Zenon DEF Tell

-----------------------------------------------------------------------------
(* The steps *)

\* A fresh TradeManager satisfies the invariant (trade_manager.cpp:11-21).
LEMMA TMInitInv == TMInit => TMInv
<1> SUFFICES ASSUME TMInit PROVE TMInv
  OBVIOUS
<1> USE DEF TMInit
<1>1. TMTypeOK
  BY DEF TMTypeOK, NoTrade, TradeType
<1>2. TradesAccounted /\ RowsOK /\ OpenTradeBracketed
  BY DEF TradesAccounted, OpenTrades, IsOpen, RowsOK, OpenTradeBracketed
<1> QED BY <1>1, <1>2 DEF TMInv, IsOpen

\* A call that changes nothing keeps the invariant.
LEMMA TMStutterInv ==
  ASSUME TMInv, UNCHANGED tmVars
  PROVE  TMInv'
BY DEF tmVars, TMInv, TMTypeOK, TradesAccounted, OpenTrades, IsOpen,
   Levels, RowsOK, RowOK, OpenTradeBracketed

\* on_signal() keeps the invariant: what it opens has the levels of the signal
\* and the next id (trade_manager.cpp:45-70).
LEMMA OnSignalInv ==
  ASSUME TMInv, NEW s \in Signals, on_signal(s)
  PROVE  TMInv'
<1>1. UNCHANGED <<total_trades, wins, losses, breakevens, gross_r, csv_is_open, csv>>
  BY DEF on_signal
<1>2. CASE Accepts(s)
  <2>1. /\ trade' = Opened(s) /\ next_trade_id' = next_trade_id + 1
        /\ state' = "LONG_OPEN" /\ quote' = {} /\ ~IsOpen
    BY <1>2 DEF on_signal, Accepts, IsOpen
  <2>2. s.active /\ Risk(s) > 0 /\ Risk(s) \in Int /\ LevelsOrdered(s)
    BY <1>2, SignalsAssumption DEF Accepts, Risk
  <2>3. /\ s.entry_price \in Int /\ s.stop_loss \in Int
        /\ s.target1 \in Int /\ s.target2 \in Int
    BY SignalsAssumption
  <2>4. next_trade_id \in Nat
    BY DEF TMInv, TMTypeOK
  <2>5. Opened(s) \in TradeType
    BY <2>2, <2>3, <2>4 DEF Opened, TradeType
  <2>6. Levels(Opened(s))
    BY <2>2, <2>3, RUnitAssumption DEF Opened, Levels, LevelsOrdered, Risk
  <2>7. TMTypeOK'
    BY <1>1, <2>1, <2>4, <2>5 DEF TMInv, TMTypeOK
  <2>8. TradesAccounted'
    BY <1>1, <2>1, <2>4 DEF TMInv, TradesAccounted, OpenTrades, IsOpen, Opened, TMTypeOK
  <2>9. (IsOpen => Levels(trade))'
    BY <2>1, <2>6 DEF Levels
  <2>10. RowsOK' /\ OpenTradeBracketed'
    BY <1>1, <2>1 DEF TMInv, RowsOK, RowOK, OpenTradeBracketed
  <2> QED BY <2>7, <2>8, <2>9, <2>10 DEF TMInv
<1>3. CASE ~Accepts(s)
  <2>1. UNCHANGED tmVars
    BY <1>1, <1>3 DEF on_signal, tmVars
  <2> QED BY <2>1, TMStutterInv
<1> QED BY <1>2, <1>3

\* on_price() keeps the invariant, never lowers the stop of the open trade
\* and ends it only by booking it (trade_manager.cpp:85-115).
LEMMA OnPriceInv ==
  ASSUME TMInv, NEW price \in Prices, on_price(price)
  PROVE  TMInv' /\ OpenTradeKept
<1>1. UNCHANGED <<next_trade_id, csv_is_open>> /\ price \in Int
  BY PricesAssumption DEF on_price
<1>2. CASE ~IsOpen
  <2>1. UNCHANGED tmVars
    BY <1>1, <1>2 DEF on_price, StaysOpen, tmVars, IsOpen
  <2> QED BY <1>2, <2>1, TMStutterInv DEF OpenTradeKept
<1>3. CASE IsOpen
  <2> DEFINE t == AfterTarget1(price)
  <2>1. /\ trade' = t /\ quote' = {price}
        /\ IF price >= t.target2
             THEN close_trade(t, price, "TARGET2_HIT")
             ELSE IF price <= t.stop_loss
             THEN close_trade(t, price,
                    IF t.target1_hit THEN "BREAKEVEN_STOP" ELSE "STOP_LOSS")
             ELSE StaysOpen
    BY <1>3 DEF on_price, StopHit, IsOpen
  <2>2. /\ t \in TradeType /\ Levels(t) /\ t.trade_id = trade.trade_id
        /\ t.stop_loss >= trade.stop_loss
        /\ trade.target1_hit => t.target1_hit
        /\ price >= t.target1 => t.target1_hit
    BY <1>1, <1>3, AfterTarget1Keeps DEF TMInv
  <2> HIDE DEF t
  <2>3. /\ t.target1 \in Int /\ t.target2 \in Int /\ t.stop_loss \in Int
        /\ t.target1_hit \in BOOLEAN
    BY <2>2 DEF TradeType
  <2>4. ASSUME NEW reason \in Reasons, Closable(t, price, reason),
               close_trade(t, price, reason)
        PROVE  TMInv' /\ OpenTradeKept
    <3>1. TMInv' /\ total_trades' = total_trades + 1
      BY <1>1, <1>3, <2>1, <2>2, <2>4, CloseTradeInv
    <3> QED BY <2>1, <2>2, <3>1 DEF OpenTradeKept
  <2>5. CASE price >= t.target2
    <3>1. price >= t.target1
      BY <1>1, <2>2, <2>3, <2>5 DEF Levels
    <3>2. Closable(t, price, "TARGET2_HIT")
      BY <2>2, <2>5, <3>1 DEF Closable
    <3> QED BY <2>1, <2>4, <2>5, <3>2 DEF Reasons
  <2>6. CASE ~(price >= t.target2) /\ price <= t.stop_loss /\ t.target1_hit
    BY <2>1, <2>4, <2>6 DEF Reasons, Closable
  <2>7. CASE ~(price >= t.target2) /\ price <= t.stop_loss /\ ~t.target1_hit
    BY <2>1, <2>4, <2>7 DEF Reasons, Closable
  <2>8. CASE ~(price >= t.target2) /\ ~(price <= t.stop_loss)
    <3>1. UNCHANGED <<state, total_trades, wins, losses, breakevens, gross_r, csv>>
      BY <2>1, <2>8 DEF StaysOpen
    <3>2. TMTypeOK'
      BY <1>1, <2>1, <2>2, <3>1 DEF TMInv, TMTypeOK
    <3>3. TradesAccounted'
      BY <1>1, <2>1, <2>2, <3>1 DEF TMInv, TradesAccounted, OpenTrades, IsOpen
    <3>4. (IsOpen => Levels(trade))'
      BY <2>1, <2>2 DEF Levels
    <3>5. RowsOK' /\ OpenTradeBracketed'
      BY <1>1, <2>1, <2>3, <2>8, <3>1
         DEF TMInv, RowsOK, RowOK, OpenTradeBracketed
    <3>6. OpenTradeKept
      BY <1>3, <2>1, <2>2, <3>1 DEF OpenTradeKept, IsOpen
    <3> QED BY <3>2, <3>3, <3>4, <3>5, <3>6 DEF TMInv
  <2> QED BY <2>3, <2>5, <2>6, <2>7, <2>8
<1> QED BY <1>2, <1>3

\* Every step keeps the invariant.
LEMMA TMStepInv == TMInv /\ [TMNext]_tmVars => TMInv'
<1> SUFFICES ASSUME TMInv, [TMNext]_tmVars PROVE TMInv'
  OBVIOUS
<1>1. ASSUME NEW s \in Signals, on_signal(s) PROVE TMInv'
  BY <1>1, OnSignalInv
<1>2. ASSUME NEW p \in Prices, on_price(p) PROVE TMInv'
  BY <1>2, OnPriceInv
<1>3. CASE UNCHANGED tmVars
  BY <1>3, TMStutterInv
<1> QED BY <1>1, <1>2, <1>3 DEF TMNext

\* A fresh log tells of no trade (trade_manager.cpp:11-37).
LEMMA CsvInitInv == TMInit => CsvInv
<1> SUFFICES ASSUME TMInit PROVE CsvInv
  OBVIOUS
<1>1. csv = <<>> /\ wins = 0 /\ losses = 0 /\ breakevens = 0 /\ gross_r = 0
  BY DEF TMInit
<1>2. \A result : Rows(<<>>, result) = 0
  <2> SUFFICES ASSUME NEW result PROVE Rows(<<>>, result) = 0
    OBVIOUS
  <2>1. {i \in 1 .. Len(<<>>) : <<>>[i].result = result} = {}
    OBVIOUS
  <2> QED BY <2>1, FS_EmptySet, Zenon DEF Rows
<1>3. SumR(<<>>)[Len(<<>>)] = 0
  <2>1. Len(<<>>) = 0
    OBVIOUS
  <2> QED BY <2>1, SumEquation, Zenon
<1>4. Tell(wins, losses, breakevens, gross_r, csv)
  <2>1. Rows(csv, "WIN") = 0 /\ Rows(csv, "LOSS") = 0 /\ Rows(csv, "BREAKEVEN") = 0
    BY <1>1, <1>2, Zenon
  <2>2. SumR(csv)[Len(csv)] = 0
    BY <1>1, <1>3, Zenon
  <2> QED BY <1>1, <2>1, <2>2, Zenon DEF Tell
<1> QED BY <1>4, Zenon DEF CsvInv

\* Every step keeps log and summary in agreement.
LEMMA CsvStepInv == TMInv /\ CsvInv /\ [TMNext]_tmVars => CsvInv'
<1> SUFFICES ASSUME TMInv, CsvInv, [TMNext]_tmVars PROVE CsvInv'
  OBVIOUS
<1>1. CASE UNCHANGED <<wins, losses, breakevens, gross_r, csv_is_open, csv>>
  BY <1>1, Zenon DEF CsvInv
<1>2. ASSUME NEW s \in Signals, on_signal(s) PROVE CsvInv'
  BY <1>1, <1>2 DEF on_signal
<1>3. ASSUME NEW price \in Prices, on_price(price) PROVE CsvInv'
  <2> DEFINE t == AfterTarget1(price)
  <2>1. CASE ~IsOpen
    BY <1>1, <1>3, <2>1 DEF on_price, StaysOpen, IsOpen
  <2>2. CASE IsOpen
    <3>1. /\ price \in Int /\ csv_is_open' = csv_is_open
          /\ \/ /\ price >= t.target2
                /\ close_trade(t, price, "TARGET2_HIT")
             \/ /\ price <= t.stop_loss /\ t.target1_hit
                /\ close_trade(t, price, "BREAKEVEN_STOP")
             \/ /\ price <= t.stop_loss /\ ~t.target1_hit
                /\ close_trade(t, price, "STOP_LOSS")
             \/ StaysOpen
      BY <1>3, <2>2, PricesAssumption DEF on_price, StopHit, IsOpen
    <3>2. /\ t \in TradeType /\ Levels(t)
          /\ price >= t.target1 => t.target1_hit
      BY <2>2, <3>1, AfterTarget1Keeps DEF TMInv
    <3> HIDE DEF t
    <3>3. ASSUME NEW reason \in Reasons, Closable(t, price, reason),
                 close_trade(t, price, reason)
          PROVE  CsvInv'
      <4>1. Row(t, price, reason) \in RowType /\ ReportedR(t, price, reason) \in Int
        BY <3>1, <3>2, <3>3, RowIsOK, Zenon
      <4> QED BY <3>1, <3>3, <4>1, CloseTradeBooks
    <3>4. CASE price >= t.target2 /\ close_trade(t, price, "TARGET2_HIT")
      <4>1. t.target1 \in Int /\ t.target2 \in Int /\ t.target1 < t.target2
        BY <3>2 DEF TradeType, Levels
      <4>2. price >= t.target1
        BY <3>1, <3>4, <4>1
      <4>3. Closable(t, price, "TARGET2_HIT")
        BY <3>2, <3>4, <4>2 DEF Closable
      <4> QED BY <3>3, <3>4, <4>3 DEF Reasons
    <3>5. CASE price <= t.stop_loss /\ t.target1_hit /\ close_trade(t, price, "BREAKEVEN_STOP")
      BY <3>3, <3>5 DEF Reasons, Closable
    <3>6. CASE price <= t.stop_loss /\ ~t.target1_hit /\ close_trade(t, price, "STOP_LOSS")
      BY <3>3, <3>6 DEF Reasons, Closable
    <3>7. CASE StaysOpen
      BY <1>1, <3>1, <3>7 DEF StaysOpen
    <3> QED BY <3>1, <3>4, <3>5, <3>6, <3>7
  <2> QED BY <2>1, <2>2
<1>4. CASE UNCHANGED tmVars
  BY <1>1, <1>4 DEF tmVars
<1> QED BY <1>2, <1>3, <1>4 DEF TMNext

\* TMInv holds in every reachable state.
THEOREM TMInvariance == TMSpec => []TMInv
  BY TMInitInv, TMStepInv, PTL DEF TMSpec

-----------------------------------------------------------------------------
(* What the trade manager promises *)

\* Every trade opened is still open or booked once (trade_manager.cpp:60-140).
THEOREM Accounted == TMSpec => []TradesAccounted
<1>1. TMInv => TradesAccounted
  BY DEF TMInv
<1> QED BY <1>1, TMInvariance, PTL

\* The exit reason decides the result, and a loss is at least one R
\* (trade_manager.cpp:104-140).
THEOREM ResultFollowsExit == TMSpec => []ResultMatchesExit
<1>1. TMInv => ResultMatchesExit
  BY DEF TMInv, RowsOK, RowOK, ResultMatchesExit
<1> QED BY <1>1, TMInvariance, PTL

\* A stop that was moved to the entry rules out a loss (:90-92, :107-112).
THEOREM Target1Protects == TMSpec => []NoLossAfterTarget1
<1>1. TMInv => NoLossAfterTarget1
  BY DEF TMInv, RowsOK, RowOK, NoLossAfterTarget1, Levels
<1> QED BY <1>1, TMInvariance, PTL

\* The reported R is never below the R that was made (:123-129).
THEOREM ReportBounds == TMSpec => []ReportNeverBelowActual
<1>1. TMInv => ReportNeverBelowActual
  BY DEF TMInv, RowsOK, RowOK, ReportNeverBelowActual
<1> QED BY <1>1, TMInvariance, PTL

\* The log, where it could be opened, and the summary tell the same story
\* (:132-143, :156-183).
THEOREM LogAgrees == TMSpec => []CsvAgreesWithSummary
<1>1. TMSpec => []CsvInv
  BY CsvInitInv, CsvStepInv, TMInvariance, PTL DEF TMSpec
<1>2. CsvInv => CsvAgreesWithSummary
  <2> SUFFICES ASSUME CsvInv, csv_is_open
               PROVE  /\ wins = RowsWith("WIN") /\ losses = RowsWith("LOSS")
                      /\ breakevens = RowsWith("BREAKEVEN") /\ gross_r = RSum[Len(csv)]
    BY DEF CsvAgreesWithSummary
  <2>1. \A result : RowsWith(result) = Rows(csv, result)
    BY Zenon DEF RowsWith, Rows
  <2>2. RSum = SumR(csv)
    BY Zenon DEF RSum, SumR
  <2> QED BY <2>1, <2>2, Zenon DEF CsvInv, Tell
<1> QED BY <1>1, <1>2, PTL

\* Both exits of an open trade are still ahead of the last price (:104-112).
THEOREM Bracketed == TMSpec => []OpenTradeBracketed
<1>1. TMInv => OpenTradeBracketed
  BY DEF TMInv
<1> QED BY <1>1, TMInvariance, PTL

\* An open trade is not replaced, its stop is not lowered, and it ends only by
\* being booked (:50, :90-92, :117-154).
THEOREM KeptUntilBooked == TMSpec => TradeKeptUntilBooked
<1>1. TMInv /\ [TMNext]_tmVars => [OpenTradeKept]_tmVars
  <2> SUFFICES ASSUME TMInv, TMNext PROVE OpenTradeKept
    OBVIOUS
  <2>1. ASSUME NEW s \in Signals, on_signal(s) PROVE OpenTradeKept
    <3>1. CASE IsOpen
      <4>1. UNCHANGED <<trade, state>>
        BY <2>1, <3>1 DEF on_signal, Accepts, IsOpen
      <4>2. trade.stop_loss \in Int
        BY DEF TMInv, TMTypeOK, TradeType
      <4> QED BY <4>1, <4>2, <3>1 DEF OpenTradeKept, IsOpen
    <3> QED BY <3>1 DEF OpenTradeKept
  <2>2. ASSUME NEW p \in Prices, on_price(p) PROVE OpenTradeKept
    BY <2>2, OnPriceInv
  <2> QED BY <2>1, <2>2 DEF TMNext
<1> QED BY <1>1, TMInvariance, PTL DEF TMSpec, TradeKeptUntilBooked
==============================================================================
