----------------------------- MODULE TradeManager -----------------------------
(***************************************************************************)
(* TradeManager (trade_manager.cpp): at most one long position, opened by  *)
(* a PRISM signal and closed by a price; the summary counters; and the CSV *)
(* log with one row per closed trade.                                      *)
(*                                                                         *)
(* Prices are integers: the code only subtracts and compares them.  The    *)
(* quotient r_multiple is kept exact by counting it in units of 1/R_UNIT,  *)
(* where R_UNIT is a common multiple of the risks.                         *)
(***************************************************************************)
EXTENDS Integers, Sequences, FiniteSets

CONSTANTS
  Prices,     \* prices of the ticks
  Signals,    \* what on_signal() may be given: records [active, entry_price,
              \* stop_loss, target1, target2]
  R_UNIT,     \* one R, the unit of r_multiple
  MaxTrades   \* bound of the model: trades opened

Risk(signal) == signal.entry_price - signal.stop_loss

\* An order of the levels that PrismStrategy guarantees for what it emits
\* (prism_strategy.cpp:246-257) and TradeManager relies on without a test.
LevelsOrdered(signal) ==
  signal.entry_price < signal.target1 /\ signal.target1 < signal.target2

ASSUME PricesAssumption == Prices \subseteq Int
ASSUME SignalsAssumption ==
  \A s \in Signals :
    /\ s.active \in BOOLEAN
    /\ {s.entry_price, s.stop_loss, s.target1, s.target2} \subseteq Int
    /\ s.active /\ Risk(s) > 0 => LevelsOrdered(s)
ASSUME RUnitAssumption ==
  /\ R_UNIT \in Nat \ {0}
  /\ \A s \in Signals : Risk(s) > 0 =>
       R_UNIT \div Risk(s) \in Nat \ {0} /\ R_UNIT = Risk(s) * (R_UNIT \div Risk(s))
ASSUME MaxTradesAssumption == MaxTrades \in Nat

VARIABLES
  state,          \* state_
  trade,          \* trade_, the open trade or the last one closed
  next_trade_id,
  total_trades, wins, losses, breakevens, gross_r,
  csv_is_open,    \* whether open_csv() could open the log
  csv,            \* the rows of the log
  quote           \* history: the price of the last on_price() since the
                  \* trade was opened, as a set; empty before the first

tmVars == <<state, trade, next_trade_id, total_trades, wins, losses,
            breakevens, gross_r, csv_is_open, csv, quote>>

\* ManagedTrade{}
NoTrade ==
  [trade_id |-> 0, entry_price |-> 0, stop_loss |-> 0, initial_stop_loss |-> 0,
   initial_risk |-> 0, target1 |-> 0, target2 |-> 0, target1_hit |-> FALSE]

TMInit ==
  /\ state = "FLAT"
  /\ trade = NoTrade
  /\ next_trade_id = 1
  /\ total_trades = 0 /\ wins = 0 /\ losses = 0 /\ breakevens = 0
  /\ gross_r = 0
  /\ csv_is_open \in BOOLEAN
  /\ csv = <<>>
  /\ quote = {}

-----------------------------------------------------------------------------
(* on_signal() *)

\* Mistake caught by TradesAccounted: an open trade is overwritten.
AcceptsAlways(signal) == signal.active /\ Risk(signal) > 0

Accepts(signal) == signal.active /\ state = "FLAT" /\ Risk(signal) > 0

\* Mistake caught by EngineThread's ThreadTypeOK: the risk is not the distance
\* to the stop.
OpenedWithoutRisk(signal) ==
  [trade_id |-> next_trade_id,
   entry_price |-> signal.entry_price,
   stop_loss |-> signal.stop_loss,
   initial_stop_loss |-> signal.stop_loss,
   initial_risk |-> signal.entry_price,
   target1 |-> signal.target1,
   target2 |-> signal.target2,
   target1_hit |-> FALSE]

Opened(signal) ==
  [trade_id |-> next_trade_id,
   entry_price |-> signal.entry_price,
   stop_loss |-> signal.stop_loss,
   initial_stop_loss |-> signal.stop_loss,
   initial_risk |-> Risk(signal),
   target1 |-> signal.target1,
   target2 |-> signal.target2,
   target1_hit |-> FALSE]

\* A signal that is inactive, has no risk or meets an open trade is dropped.
on_signal(signal) ==
  /\ IF Accepts(signal)
       THEN /\ trade' = Opened(signal)
            /\ next_trade_id' = next_trade_id + 1
            /\ state' = "LONG_OPEN"
            /\ quote' = {}
       ELSE UNCHANGED <<trade, next_trade_id, state, quote>>
  /\ UNCHANGED <<total_trades, wins, losses, breakevens, gross_r, csv_is_open, csv>>

-----------------------------------------------------------------------------
(* on_price() and close_trade() *)

\* Mistake caught by NoLossAfterTarget1: the stop is not moved.
AfterTarget1KeepsStop(price) ==
  IF ~trade.target1_hit /\ price >= trade.target1
    THEN [trade EXCEPT !.target1_hit = TRUE]
    ELSE trade

\* Mistake caught by TradeKeptUntilBooked: every price decides anew.
AfterTarget1Recomputed(price) ==
  IF price >= trade.target1
    THEN [trade EXCEPT !.target1_hit = TRUE, !.stop_loss = trade.entry_price]
    ELSE [trade EXCEPT !.target1_hit = FALSE]

\* The trade after the first target was looked at: a hit moves the stop to
\* the entry price.
AfterTarget1(price) ==
  IF ~trade.target1_hit /\ price >= trade.target1
    THEN [trade EXCEPT !.target1_hit = TRUE, !.stop_loss = trade.entry_price]
    ELSE trade

\* (exit - entry) / initial_risk, in units of 1 / R_UNIT
ActualR(t, price) == (price - t.entry_price) * (R_UNIT \div t.initial_risk)

\* Mistake caught by ResultMatchesExit: a gap through the break-even stop is
\* booked with its R.
ReportedRUnforced(t, price, reason) == ActualR(t, price)

\* r_multiple as close_trade() reports it
ReportedR(t, price, reason) ==
  IF reason = "BREAKEVEN_STOP" THEN 0 ELSE ActualR(t, price)

ResultOf(r) == IF r > 0 THEN "WIN" ELSE IF r < 0 THEN "LOSS" ELSE "BREAKEVEN"

\* Mistake caught by CsvAgreesWithSummary: the row judges by the price alone.
RowUnforced(t, price, reason) ==
  [trade_id |-> t.trade_id, entry |-> t.entry_price, exit |-> price,
   initial_stop |-> t.initial_stop_loss, final_stop |-> t.stop_loss,
   target2 |-> t.target2, risk |-> t.initial_risk,
   r |-> ReportedR(t, price, reason),
   result |-> ResultOf(ActualR(t, price)), exit_reason |-> reason]

Row(t, price, reason) ==
  [trade_id |-> t.trade_id, entry |-> t.entry_price, exit |-> price,
   initial_stop |-> t.initial_stop_loss, final_stop |-> t.stop_loss,
   target2 |-> t.target2, risk |-> t.initial_risk,
   r |-> ReportedR(t, price, reason),
   result |-> ResultOf(ReportedR(t, price, reason)), exit_reason |-> reason]

\* close_trade(): counters, the row if the log is open, and back to FLAT.  The
\* closed trade stays in trade_.
close_trade(t, price, reason) ==
  LET r == ReportedR(t, price, reason) IN
  /\ state' = "FLAT"
  /\ total_trades' = total_trades + 1
  /\ gross_r' = gross_r + r
  /\ wins' = IF r > 0 THEN wins + 1 ELSE wins
  /\ losses' = IF r < 0 THEN losses + 1 ELSE losses
  /\ breakevens' = IF r = 0 THEN breakevens + 1 ELSE breakevens
  /\ csv' = IF csv_is_open THEN Append(csv, Row(t, price, reason)) ELSE csv

StaysOpen == UNCHANGED <<state, total_trades, wins, losses, breakevens, gross_r, csv>>

StopHit(t, price) == price <= t.stop_loss

\* The second target is tested before the stop.
on_price(price) ==
  /\ IF state = "LONG_OPEN"
       THEN LET t == AfterTarget1(price) IN
            /\ trade' = t
            /\ quote' = {price}
            /\ IF price >= t.target2
                 THEN close_trade(t, price, "TARGET2_HIT")
                 ELSE IF StopHit(t, price)
                 THEN close_trade(t, price,
                        IF t.target1_hit THEN "BREAKEVEN_STOP" ELSE "STOP_LOSS")
                 ELSE StaysOpen
       ELSE StaysOpen /\ UNCHANGED <<trade, quote>>
  /\ UNCHANGED <<next_trade_id, csv_is_open>>

-----------------------------------------------------------------------------
TMNext ==
  \/ \E s \in Signals : next_trade_id <= MaxTrades /\ on_signal(s)
  \/ \E p \in Prices : on_price(p)

TMSpec == TMInit /\ [][TMNext]_tmVars

-----------------------------------------------------------------------------
(* Properties *)

Reasons == {"TARGET2_HIT", "BREAKEVEN_STOP", "STOP_LOSS"}

TradeType ==
  [trade_id : Nat, entry_price : Int, stop_loss : Int, initial_stop_loss : Int,
   initial_risk : Int, target1 : Int, target2 : Int, target1_hit : BOOLEAN]

RowType ==
  [trade_id : Nat, entry : Int, exit : Int, initial_stop : Int,
   final_stop : Int, target2 : Int, risk : Int, r : Int,
   result : {"WIN", "LOSS", "BREAKEVEN"}, exit_reason : Reasons]

\* The members of TradeManager have their types (trade_manager.hpp:16-74).
TMTypeOK ==
  /\ state \in {"FLAT", "LONG_OPEN"}
  /\ trade \in TradeType
  /\ next_trade_id \in Nat
  /\ {total_trades, wins, losses, breakevens} \subseteq Nat
  /\ gross_r \in Int
  /\ csv_is_open \in BOOLEAN
  /\ csv \in Seq(RowType)
  /\ quote \subseteq Int

IsOpen == state = "LONG_OPEN"
OpenTrades == IF IsOpen THEN 1 ELSE 0

\* No trade is lost or counted twice between on_signal() and the summary that
\* write_summary_json() prints (trade_manager.cpp:60, :131-140): every trade
\* opened is closed and classified, or it is the one still open; and the rows
\* are the closed trades in the order of their ids.
TradesAccounted ==
  /\ total_trades = wins + losses + breakevens
  /\ next_trade_id = 1 + total_trades + OpenTrades
  /\ IsOpen => trade.trade_id = next_trade_id - 1
  /\ csv_is_open => Len(csv) = total_trades
  /\ \A i \in 1 .. Len(csv) : csv[i].trade_id = i

\* How a trade ended decides how it is booked, whatever price gaps there were
\* (trade_manager.cpp:104-112, :123-140): only the second target wins, only
\* the initial stop loses, and then it loses one R or more.
ResultMatchesExit ==
  \A i \in 1 .. Len(csv) :
    LET row == csv[i] IN
    /\ row.result = "WIN" <=> row.exit_reason = "TARGET2_HIT"
    /\ row.result = "LOSS" <=> row.exit_reason = "STOP_LOSS"
    /\ row.result = "WIN" => row.exit >= row.target2
    /\ row.result = "LOSS" => row.r <= 0 - R_UNIT

\* A trade whose stop was moved to its entry (trade_manager.cpp:90-92) is
\* never booked as a loss, and a trade that was booked as a loss still had
\* its initial stop.
NoLossAfterTarget1 ==
  /\ \A i \in 1 .. Len(csv) :
       IF csv[i].result = "LOSS" THEN csv[i].final_stop = csv[i].initial_stop
                                 ELSE csv[i].final_stop = csv[i].entry
  /\ IsOpen => trade.stop_loss = IF trade.target1_hit THEN trade.entry_price
                                                      ELSE trade.initial_stop_loss

\* Forcing r_multiple to 0 on a break-even stop (trade_manager.cpp:127-129)
\* never reports less than was made, and any other row reports it exactly.
ReportNeverBelowActual ==
  \A i \in 1 .. Len(csv) :
    LET row == csv[i]
        actual == (row.exit - row.entry) * (R_UNIT \div row.risk)
    IN  /\ row.r >= actual
        /\ row.exit_reason # "BREAKEVEN_STOP" => row.r = actual

\* A trade that survived a price is strictly between its stop and its second
\* target, so every later tick still has both exits ahead (:104-112).
OpenTradeBracketed ==
  IsOpen => \A q \in quote : trade.stop_loss < q /\ q < trade.target2

\* The log and the summary tell the same story: per result as many rows as the
\* counter says, and the R of the rows add up to gross_r (:131-142).
RowsWith(result) == Cardinality({i \in 1 .. Len(csv) : csv[i].result = result})
RSum[n \in Nat] == IF n = 0 THEN 0 ELSE RSum[n - 1] + csv[n].r
CsvAgreesWithSummary ==
  csv_is_open => /\ wins = RowsWith("WIN")
                 /\ losses = RowsWith("LOSS")
                 /\ breakevens = RowsWith("BREAKEVEN")
                 /\ gross_r = RSum[Len(csv)]

\* While a trade is open nothing replaces it (:50) and its stop only rises
\* (:90-92); a trade can only end by being booked.
OpenTradeKept ==
  IsOpen => /\ trade'.trade_id = trade.trade_id
            /\ trade'.stop_loss >= trade.stop_loss
            /\ trade.target1_hit => trade'.target1_hit
            /\ IsOpen' \/ total_trades' = total_trades + 1
TradeKeptUntilBooked == [][OpenTradeKept]_tmVars
==============================================================================
