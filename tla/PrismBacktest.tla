---------------------------- MODULE PrismBacktest ----------------------------
(***************************************************************************)
(* The bar loop of prism_backtest.cpp:main(): one pass over the bars of a  *)
(* CSV file that looks for a breakout above the previous highs, enters on  *)
(* a retest that passes the filters, leaves on a stop, a target, an        *)
(* invalidation or the time limit, may enter once more after a stop, and   *)
(* books a trade that is still open when the data end.                     *)
(*                                                                         *)
(* The locals of main() are the fields of one record, bt, with a history,  *)
(* entered: the accepted ones among intents.  Each block of the loop body  *)
(* is an operator from record to record, and the body is their composition *)
(* in the order of the source: one bar is one step.                        *)
(*                                                                         *)
(* Prices are integers in a unit that makes zone, stop, targets and risk   *)
(* integers too (BarsAssumption); r_multiple is counted in 1/R_UNIT.       *)
(***************************************************************************)
EXTENDS Integers, Sequences, FiniteSets, SequencesExt, FiniteSetsExt

CONSTANTS
  Bars,           \* the bars a file may hold
  LOOKBACK,       \* lookback, 20
  ENTRY_TTL,      \* entry_ttl, 5
  REENTRY_EXTRA,  \* the 10 in entry_ttl + 10
  TRADE_TTL,      \* trade_ttl, 20
  R_UNIT,         \* one R, the unit of r_multiple and equity
  MaxBars         \* bound of the model: bars in the file

ASSUME BacktestSettingsAssumption ==
  /\ LOOKBACK \in Nat \ {0} /\ ENTRY_TTL \in Nat /\ REENTRY_EXTRA \in Nat
  /\ TRADE_TTL \in Nat /\ R_UNIT \in Nat \ {0} /\ R_UNIT % 2 = 0 /\ MaxBars \in Nat
  /\ ENTRY_TTL + REENTRY_EXTRA < TRADE_TTL

\* Prices are even and atr14 is a multiple of 20, so that 0.10 * atr14,
\* 1.2 * atr14, 1.5 * R and 2.5 * R are integers.  R_UNIT is even for the same
\* reason, and no smaller than the risk of any entry: r_multiple rounded to
\* 1/R_UNIT still tells two prices apart.
ASSUME BarsAssumption ==
  \A b \in Bars :
    /\ \A p \in {b.high, b.low, b.close} : p \in Nat /\ p % 2 = 0
    /\ b.atr14 \in Nat /\ b.atr14 % 20 = 0
    /\ b.low <= b.close /\ b.close <= b.high
    /\ b.close + 2 * b.atr14 <= R_UNIT

VARIABLES bt,        \* the locals of main()
          finished   \* the loop is over and the summary is written

backtestVars == <<bt, finished>>

BacktestInit ==
  /\ bt = [i |-> 0, recent |-> <<>>,
           trade_open |-> FALSE, prior_breakout |-> FALSE,
           can_reentry |-> FALSE, reentry_used |-> FALSE,
           breakout |-> 0, breakout_i |-> 0, entry_i |-> 0,
           entry |-> 0, stop |-> 0, t1 |-> 0, t2 |-> 0, R |-> 0,
           breakouts |-> 0, expired |-> 0, retests |-> 0, entries |-> 0,
           reentries |-> 0, rejections |-> 0, stops |-> 0, t1hits |-> 0,
           t2hits |-> 0, invalidations |-> 0, timeexits |-> 0, trade_id |-> 0,
           equity |-> 0, peak_equity |-> 0, max_dd |-> 0,
           intents |-> <<>>, entered |-> <<>>, trades |-> <<>>]
  /\ finished = FALSE

\* bars[i - lookback .. i - 1] once there are that many.
HasLookback(s) == s.i >= LOOKBACK

PrevHigh(s) == Max({0} \cup {s.recent[k].high : k \in 1 .. Len(s.recent)})

-----------------------------------------------------------------------------
(* score_bar(): every component in tenths, the score in thousandths *)

Points(test, yes, no) == IF test THEN yes ELSE no

\* A bar whose high is its low has no close position.
ClosePosition(b) ==
  IF b.high > b.low THEN ((b.close - b.low) * 100) \div (b.high - b.low) ELSE 0

setup_score(b, level) ==
  LET structure == Points(b.close > level, 60, 30) + Points(b.above_vwap, 20, 0)
                     + Points(b.mse_state = "TREND_UP", 20, 0)
      positioning == ClosePosition(b)
      regime == IF b.regime = "NORMAL" THEN 80 ELSE Points(b.regime = "SHOCK", 0, 55)
      microstructure == Min({100, b.liquidity * 6 + Points(b.spread_ok, 20, 0)
                                    + Points(b.healthy, 20, 0)})
      interaction == Points(b.volume_ok, 40, 20) + Points(b.aligned, 30, 10)
                       + Points(b.mps_state # "BLOCK", 30, 0)
  IN  structure * 25 + positioning * 25 + regime * 15 + microstructure * 15
        + interaction * 20

-----------------------------------------------------------------------------
(* The exit of an open trade *)

Multiple(s, price) == ((price - s.entry) * R_UNIT) \div s.R

\* What the log keeps of a trade; its targets follow from entry and stop.
TradeRow(s, reason, price) ==
  [trade_id |-> s.trade_id, entry |-> s.entry, stop |-> s.stop, reason |-> reason,
   r |-> Multiple(s, price), holding_bars |-> s.i - s.entry_i]

\* The four INVALID_ reasons, which count as one and close at the same price.
Invalidated(s, b) ==
  \/ b.close < s.breakout
  \/ b.regime = "SHOCK"
  \/ b.mse_state = "TREND_DOWN"
  \/ b.mps_state = "BLOCK"

\* Mistake caught by RBracketed: the stop is looked at after the invalidations.
ExitTestsStopLate(s, b) ==
  << [on |-> b.high >= s.t2, reason |-> "TARGET2_HIT", price |-> s.t2],
     [on |-> b.high >= s.t1, reason |-> "TARGET1_HIT", price |-> s.t1],
     [on |-> Invalidated(s, b), reason |-> "INVALID", price |-> b.close],
     [on |-> b.low <= s.stop, reason |-> "STOP_HIT", price |-> s.stop],
     [on |-> s.i - s.entry_i >= TRADE_TTL, reason |-> "TIME_EXIT", price |-> b.close] >>

\* The tests in their order; the first that holds decides.
ExitTests(s, b) ==
  << [on |-> b.low <= s.stop, reason |-> "STOP_HIT", price |-> s.stop],
     [on |-> b.high >= s.t2, reason |-> "TARGET2_HIT", price |-> s.t2],
     [on |-> b.high >= s.t1, reason |-> "TARGET1_HIT", price |-> s.t1],
     [on |-> Invalidated(s, b), reason |-> "INVALID", price |-> b.close],
     [on |-> s.i - s.entry_i >= TRADE_TTL, reason |-> "TIME_EXIT", price |-> b.close] >>

\* equity, peak_equity, max_dd
Book(s, row) ==
  LET eq == s.equity + row.r
      peak == Max({s.peak_equity, eq})
  IN  [s EXCEPT !.trades = Append(@, row), !.equity = eq, !.peak_equity = peak,
                !.max_dd = Max({@, peak - eq})]

CountExit(s, reason) ==
  [s EXCEPT !.stops = @ + Points(reason = "STOP_HIT", 1, 0),
            !.t1hits = @ + Points(reason = "TARGET1_HIT", 1, 0),
            !.t2hits = @ + Points(reason = "TARGET2_HIT", 1, 0),
            !.invalidations = @ + Points(reason = "INVALID", 1, 0),
            !.timeexits = @ + Points(reason = "TIME_EXIT", 1, 0)]

MayReenter(reason) == reason \in {"STOP_HIT", "TIME_EXIT"}

ExitTrade(s, b) ==
  LET tests == ExitTests(s, b)
      first == SelectInSeq(tests, LAMBDA e : e.on)
  IN  IF ~s.trade_open \/ first = 0 THEN s
      ELSE LET e == tests[first] IN
           [Book(CountExit(s, e.reason), TradeRow(s, e.reason, e.price))
              EXCEPT !.trade_open = FALSE, !.can_reentry = MayReenter(e.reason)]

-----------------------------------------------------------------------------
(* A new breakout, its expiry, and the entry *)

\* A breakout starts anew: a re-entry is neither used up nor open.
NewBreakout(s, b) ==
  IF Last(s.recent).close <= PrevHigh(s) /\ b.close > PrevHigh(s)
    THEN [s EXCEPT !.prior_breakout = TRUE, !.breakout = PrevHigh(s),
                   !.breakout_i = s.i, !.breakouts = @ + 1,
                   !.can_reentry = FALSE, !.reentry_used = FALSE]
    ELSE s

Expire(s) ==
  IF s.prior_breakout /\ s.i - s.breakout_i > ENTRY_TTL
    THEN [s EXCEPT !.prior_breakout = FALSE, !.expired = @ + 1]
    ELSE s

EligibleWindow(s) ==
  \/ s.prior_breakout
  \/ /\ s.can_reentry /\ ~s.reentry_used
     /\ s.i - s.breakout_i <= ENTRY_TTL + REENTRY_EXTRA

ZoneLow(s, b) == s.breakout - b.atr14 \div 10
ZoneHigh(s, b) == s.breakout + b.atr14 \div 10
Retest(s, b) == b.low <= ZoneHigh(s, b) /\ b.high >= ZoneLow(s, b)

\* entry, stop, R, t1, t2 are set by every retest, accepted or not.
Levels(s, b) ==
  LET stop == Min({b.close - (6 * b.atr14) \div 5, ZoneLow(s, b)})
      R == b.close - stop
  IN  [s EXCEPT !.retests = @ + 1, !.entry = b.close, !.stop = stop, !.R = R,
                !.t1 = b.close + (3 * R) \div 2, !.t2 = b.close + (5 * R) \div 2]

\* None of the eleven reasons applies; the midpoint of the zone is the breakout.
NoReason(s, b) ==
  /\ b.close > s.breakout
  /\ b.above_vwap
  /\ ClosePosition(b) >= 60
  /\ setup_score(b, PrevHigh(s)) >= 6500
  /\ b.liquidity >= 6
  /\ b.volume_ok
  /\ b.spread_ok
  /\ b.mps_state # "BLOCK" /\ b.regime # "SHOCK" /\ b.mse_state # "TREND_DOWN"
  /\ s.R > 0

\* The row of a retest.  accepted stands for reason_codes = "ACCEPTED";
\* breakout_i is not in the file.
Intent(s, ok) ==
  [type |-> IF s.can_reentry THEN "RE_ENTRY" ELSE "RETEST_ENTRY",
   at |-> s.i, breakout_i |-> s.breakout_i, breakout |-> s.breakout,
   entry |-> s.entry, stop |-> s.stop, accepted |-> ok]

\* Mistake caught by BooksAgree: a rejected retest has no row.
LogAccepted(s, b) ==
  LET t == Levels(s, b) IN
  IF NoReason(t, b) THEN [t EXCEPT !.intents = Append(@, Intent(t, TRUE))] ELSE t

\* Every retest gets its row, before it is accepted or rejected.
LogRetest(s, b) ==
  LET t == Levels(s, b) IN [t EXCEPT !.intents = Append(@, Intent(t, NoReason(t, b)))]

\* Mistake caught by EntriesFollowBreakouts: a re-entry is not used up.
AcceptUncounted(s) ==
  [s EXCEPT !.trade_open = TRUE, !.entry_i = s.i, !.trade_id = @ + 1,
            !.entries = @ + 1, !.entered = Append(@, Intent(s, TRUE)),
            !.reentries = @ + Points(s.can_reentry, 1, 0),
            !.prior_breakout = FALSE, !.can_reentry = FALSE]

Accept(s) ==
  [s EXCEPT !.trade_open = TRUE, !.entry_i = s.i, !.trade_id = @ + 1,
            !.entries = @ + 1, !.entered = Append(@, Intent(s, TRUE)),
            !.reentries = @ + Points(s.can_reentry, 1, 0),
            !.reentry_used = @ \/ s.can_reentry,
            !.prior_breakout = FALSE, !.can_reentry = FALSE]

Reject(s) == [s EXCEPT !.rejections = @ + 1]

TryEntry(s, b) ==
  IF ~(EligibleWindow(s) /\ Retest(s, b)) THEN s
  ELSE LET t == LogRetest(s, b) IN IF NoReason(t, b) THEN Accept(t) ELSE Reject(t)

LookForEntry(s, b) ==
  IF HasLookback(s) /\ ~s.trade_open THEN TryEntry(Expire(NewBreakout(s, b)), b) ELSE s

\* ++i
NextBar(s, b) ==
  LET seen == Append(s.recent, b) IN
  [s EXCEPT !.i = @ + 1,
            !.recent = IF Len(seen) > LOOKBACK THEN Tail(seen) ELSE seen]

\* The body of the loop.
OnBar(b) ==
  /\ ~finished /\ bt.i < MaxBars
  /\ bt' = NextBar(LookForEntry(ExitTrade(bt, b), b), b)
  /\ UNCHANGED finished

-----------------------------------------------------------------------------
(* After the loop: an open trade is closed at the last close *)

DataEndRow(s) ==
  [TradeRow(s, "DATA_END_EXIT", Last(s.recent).close) EXCEPT !.holding_bars = @ - 1]

\* equity is updated, peak_equity and max_dd are not.
EndOfData(s) ==
  IF s.trade_open THEN [s EXCEPT !.trades = Append(@, DataEndRow(s)),
                                 !.equity = @ + DataEndRow(s).r]
                  ELSE s

Finish ==
  /\ ~finished
  /\ bt' = EndOfData(bt)
  /\ finished' = TRUE

BacktestNext == (\E b \in Bars : OnBar(b)) \/ Finish

BacktestSpec == BacktestInit /\ [][BacktestNext]_backtestVars

-----------------------------------------------------------------------------
(* Properties *)

Exits(reason) == Cardinality({k \in 1 .. Len(bt.trades) : bt.trades[k].reason = reason})
OpenInLoop == IF bt.trade_open /\ ~finished THEN 1 ELSE 0

AfterTrade(c, r) ==
  LET eq == c.equity + r
      peak == Max({c.peak, eq})
  IN  [equity |-> eq, peak |-> peak, dd |-> Max({c.dd, peak - eq})]

\* The equity curve of a sequence of trades, left out those that ended for skip.
Curve(ts, skip) ==
  LET curve[k \in 0 .. Len(ts)] ==
        IF k = 0 THEN [equity |-> 0, peak |-> 0, dd |-> 0]
        ELSE IF ts[k].reason = skip THEN curve[k - 1]
        ELSE AfterTrade(curve[k - 1], ts[k].r)
  IN  curve

AllTrades(ts) == Curve(ts, "NO_EXIT")[Len(ts)]
LoopTrades(ts) == Curve(ts, "DATA_END_EXIT")[Len(ts)]

IntentsWith(its, ok) == Cardinality({k \in 1 .. Len(its) : its[k].accepted = ok})
ReentriesIn(its) == Cardinality({k \in 1 .. Len(its) : its[k].type = "RE_ENTRY"})

\* Every retest has its row of intents: the accepted ones are the entries, the
\* others the rejections.  The row of a trade has the levels of the intent that
\* was accepted, though every later retest sets entry and stop anew (:186).
LogsAgree ==
  /\ bt.retests = Len(bt.intents)
  /\ bt.entries = IntentsWith(bt.intents, TRUE)
  /\ bt.rejections = IntentsWith(bt.intents, FALSE)
  /\ Range(bt.entered) = {it \in Range(bt.intents) : it.accepted}
  /\ bt.reentries = ReentriesIn(bt.entered)
  /\ \A k \in 1 .. Len(bt.trades) :
       bt.trades[k].entry = bt.entered[k].entry /\ bt.trades[k].stop = bt.entered[k].stop

\* Every entry is a trade or the open one, each counter of exits counts its
\* rows, also when the data end, and the R of the rows add up to equity.
TotalsAgree ==
  /\ bt.retests = bt.entries + bt.rejections
  /\ bt.entries = bt.trade_id /\ bt.entries = Len(bt.entered)
  /\ bt.entries = Len(bt.trades) + OpenInLoop
  /\ \A k \in 1 .. Len(bt.trades) : bt.trades[k].trade_id = k
  /\ bt.stops = Exits("STOP_HIT") /\ bt.timeexits = Exits("TIME_EXIT")
  /\ bt.t1hits = Exits("TARGET1_HIT") /\ bt.t2hits = Exits("TARGET2_HIT")
  /\ bt.invalidations = Exits("INVALID")
  /\ bt.expired <= bt.breakouts
  /\ bt.equity = AllTrades(bt.trades).equity
  /\ bt.max_dd = LoopTrades(bt.trades).dd

\* The logs, counters and totals that main() updates in different branches tell
\* one story (prism_backtest.cpp:147-197).
BooksAgree == LogsAgree /\ TotalsAgree

\* The flags that four branches set and reset (prism_backtest.cpp:159, :165,
\* :166, :190-191) allow at most one re-entry per breakout, and only after the
\* stop of the first entry: a trade that ran out of time is too old for one.
\* Every entry lies in the window of its breakout, and its levels are in order:
\* stop below the broken level, entry above it.
EntriesFollowBreakouts ==
  \A k \in 1 .. Len(bt.entered) :
    LET it == bt.entered[k]
        window == IF it.type = "RE_ENTRY" THEN ENTRY_TTL + REENTRY_EXTRA ELSE ENTRY_TTL
    IN
    /\ it.type = "RE_ENTRY" =>
         /\ k > 1 /\ bt.entered[k - 1].breakout_i = it.breakout_i
         /\ bt.trades[k - 1].reason = "STOP_HIT"
    /\ it.type = "RETEST_ENTRY" =>
         \A j \in 1 .. k - 1 : bt.entered[j].breakout_i < it.breakout_i
    /\ Cardinality({j \in 1 .. Len(bt.entered) :
                      bt.entered[j].breakout_i = it.breakout_i}) <= 2
    /\ it.breakout_i <= it.at /\ it.at - it.breakout_i <= window
    /\ it.stop <= it.breakout /\ it.breakout < it.entry

\* Whatever bars come, no trade loses more than one R and none wins more than
\* 2.5 R: the order of the exits books a stop at the stop even when a target or
\* an invalidation is met on the same bar (prism_backtest.cpp:147-154, :197).
RBracketed ==
  \A k \in 1 .. Len(bt.trades) :
    LET t == bt.trades[k] IN
    /\ t.r = 0 - R_UNIT <=> t.reason = "STOP_HIT"
    /\ 0 - R_UNIT <= t.r /\ 2 * t.r <= 5 * R_UNIT
    /\ 2 * t.r >= 3 * R_UNIT <=> t.reason \in {"TARGET1_HIT", "TARGET2_HIT"}
    /\ t.holding_bars <= TRADE_TTL

\* What the summary calls max_drawdown_in_R is the drawdown of the trades it
\* summarises (prism_backtest.cpp:203).  The trade closed when the data end is
\* left out of it (:197).
DrawdownOfAllTrades == finished => bt.max_dd = AllTrades(bt.trades).dd
==============================================================================
