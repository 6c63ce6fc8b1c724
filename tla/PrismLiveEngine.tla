---------------------------- MODULE PrismLiveEngine ----------------------------
(***************************************************************************)
(* PrismLiveEngine (prism_live_engine.cpp): folds trades into bars of      *)
(* bar_seconds seconds.  A trade of another bucket than the current one    *)
(* closes the current bar: the bar gets its ATR, goes into the deque and   *)
(* to the strategy of PrismStrategy, and what the strategy says becomes    *)
(* last_signal_.  The modules are one: the strategy is a static object     *)
(* that only close_current_bar() calls.                                    *)
(*                                                                         *)
(* Volume and VWAP are kept in the code for an evaluation that is disabled *)
(* and are left out, except that a trade without volume is ignored.        *)
(***************************************************************************)
EXTENDS PrismStrategy, SequencesExt

CONSTANTS
  Trades,           \* trades [price, volume, exchange_ts_ns] that may arrive
  bar_seconds,
  NS_PER_SECOND, NS_PER_MS, NS_PER_US,
  MS_LIMIT, US_LIMIT,   \* timestamps below are milli-, microseconds
  ATR_PERIOD,       \* bars in the mean true range, 14 in the code
  BAR_CAP,          \* bars kept, 200 in the code
  MaxBarTrades,     \* bound of the model: trades in a bar
  MaxDelay          \* bound of the model: how late a trade may arrive

ASSUME EngineAssumption ==
  /\ {bar_seconds, NS_PER_SECOND, NS_PER_MS, NS_PER_US, ATR_PERIOD,
      MaxBarTrades} \subseteq Nat \ {0}
  /\ MaxDelay \in Nat
  /\ MS_LIMIT \in Nat /\ US_LIMIT \in Nat /\ MS_LIMIT <= US_LIMIT
  /\ BAR_CAP \in Nat /\ BAR_CAP > ATR_PERIOD
  /\ Trades \subseteq [price : Nat, volume : Nat, exchange_ts_ns : Nat]
\* The mean true range is exact in integers.
ASSUME ExactMeans ==
  \A t \in Trades : \A n \in 1 .. ATR_PERIOD : t.price % n = 0

VARIABLES
  has_current_bar, current_bar_start_ns,
  current_bar,      \* PrismBar: [ts, open, high, low, close, atr_14]
  bars,             \* bars_, oldest first
  last_signal,      \* last_signal_, a PrismSignal
  bar_prices,       \* history: prices of the trades in the current bar
  bar_starts,       \* history: start of the bucket of every closed bar
  newest_ts,        \* history: the newest time stamp of a trade so far
  in_order,         \* history: no trade was older than one before it
  setup_start       \* history: start of the bucket that last broke out

engineVars == <<has_current_bar, current_bar_start_ns, current_bar, bars,
                last_signal, bar_prices, bar_starts, newest_ts, in_order, setup_start>>
liveVars == <<strategyVars, engineVars>>

\* PrismSignal{}, and what close_current_bar() makes of a strategy signal
NoLiveSignal == [active |-> FALSE, entry_price |-> 0, stop_loss |-> 0,
                 target1 |-> 0, target2 |-> 0]

\* Mistake caught by EngineThread's SignalsTradable: the targets are swapped.
LiveSignalSwapped(s) == [active |-> TRUE, entry_price |-> s.entry_price,
                         stop_loss |-> s.stop_loss,
                         target1 |-> s.target2, target2 |-> s.target1]

LiveSignal(s) == [active |-> TRUE, entry_price |-> s.entry_price,
                  stop_loss |-> s.stop_loss,
                  target1 |-> s.target1, target2 |-> s.target2]

EmptyBar == [ts |-> 0, open |-> 0, high |-> 0, low |-> 0, close |-> 0, atr_14 |-> 0]

LiveInit ==
  /\ StrategyInit
  /\ has_current_bar = FALSE /\ current_bar_start_ns = 0
  /\ current_bar = EmptyBar
  /\ bars = <<>>
  /\ last_signal = NoLiveSignal
  /\ bar_prices = <<>> /\ bar_starts = <<>>
  /\ newest_ts = 0 /\ in_order = TRUE /\ setup_start = 0

-----------------------------------------------------------------------------
(* Time *)

normalize_timestamp_ns(ts) ==
  IF ts > 0 /\ ts < MS_LIMIT THEN ts * NS_PER_MS
  ELSE IF ts >= MS_LIMIT /\ ts < US_LIMIT THEN ts * NS_PER_US
  ELSE ts

bar_ns == bar_seconds * NS_PER_SECOND

\* Start of the bucket a trade falls into.
BarStart(trade) ==
  (normalize_timestamp_ns(trade.exchange_ts_ns) \div bar_ns) * bar_ns

Usable(trade) ==
  /\ trade.price > 0 /\ trade.volume > 0
  /\ normalize_timestamp_ns(trade.exchange_ts_ns) # 0

-----------------------------------------------------------------------------
(* start_new_bar(), update_current_bar() *)

\* Mistake caught by OneBarPerBucket: the bucket is only set for the first bar.
StartInOldBucket(trade) ==
  /\ has_current_bar' = TRUE
  /\ current_bar_start_ns' = IF has_current_bar THEN current_bar_start_ns ELSE BarStart(trade)
  /\ current_bar' =
       [ts |-> normalize_timestamp_ns(trade.exchange_ts_ns) \div NS_PER_SECOND,
        open |-> trade.price, high |-> trade.price, low |-> trade.price,
        close |-> trade.price, atr_14 |-> 0]
  /\ bar_prices' = <<trade.price>>

start_new_bar(trade) ==
  /\ has_current_bar' = TRUE
  /\ current_bar_start_ns' = BarStart(trade)
  /\ current_bar' =
       [ts |-> normalize_timestamp_ns(trade.exchange_ts_ns) \div NS_PER_SECOND,
        open |-> trade.price, high |-> trade.price, low |-> trade.price,
        close |-> trade.price, atr_14 |-> 0]
  /\ bar_prices' = <<trade.price>>

update_current_bar(trade) ==
  /\ current_bar' = [current_bar EXCEPT !.high = Max({@, trade.price}),
                                        !.low = Min({@, trade.price}),
                                        !.close = trade.price]
  /\ bar_prices' = Append(bar_prices, trade.price)
  /\ UNCHANGED <<has_current_bar, current_bar_start_ns>>

-----------------------------------------------------------------------------
(* close_current_bar(), compute_atr() *)

Abs(x) == IF x < 0 THEN 0 - x ELSE x

TrueRange(bar, prev) ==
  Max({bar.high - bar.low, Abs(bar.high - prev.close), Abs(bar.low - prev.close)})

\* The mean true range of the newest bars, or the range of a lone bar.
compute_atr(d) ==
  IF Len(d) < 2 THEN Last(d).high - Last(d).low
  ELSE LET count == Min({ATR_PERIOD, Len(d) - 1})
           start == Len(d) - count
       IN  FoldSeq(+, 0, [i \in 1 .. count |-> TrueRange(d[start + i], d[start + i - 1])])
             \div count

to_strategy_bar(b) ==
  [open |-> b.open, high |-> b.high, low |-> b.low, close |-> b.close, atr_14 |-> b.atr_14]

\* Mistake caught by StrategySeesBars: the bar before its ATR was computed.
BarWithoutAtr(closed) == to_strategy_bar(current_bar)

BarForStrategy(closed) == to_strategy_bar(Last(closed))

\* Mistake caught by SignalIsFresh: a signal survives a bar without one.
SignalKept(s) == IF s.valid THEN LiveSignal(s) ELSE last_signal

SignalAfter(s) == IF s.valid THEN LiveSignal(s) ELSE NoLiveSignal

close_current_bar ==
  LET d == PushCapped(bars, current_bar, BAR_CAP)
      closed == [d EXCEPT ![Len(d)].atr_14 = compute_atr(d)]
  IN  /\ bars' = closed
      /\ on_new_bar(BarForStrategy(closed))
      /\ last_signal' = SignalAfter(signal')
      /\ bar_starts' = Append(bar_starts, current_bar_start_ns)
      /\ setup_start' = IF state = "IDLE" /\ state' = "BREAKOUT"
                          THEN current_bar_start_ns ELSE setup_start

KeepBars == UNCHANGED <<strategyVars, bars, last_signal, bar_starts, setup_start>>

-----------------------------------------------------------------------------
(* on_trade() *)

SameBar(trade) == has_current_bar /\ BarStart(trade) = current_bar_start_ns

\* Does the trade close the current bar?  A trade that is older than the
\* current bucket closes it, too.
ClosesBar(trade) == Usable(trade) /\ has_current_bar /\ ~SameBar(trade)

\* What the history variables learn of the order of the feed.
Watch(trade) ==
  LET ts == normalize_timestamp_ns(trade.exchange_ts_ns) IN
  /\ newest_ts' = Max({newest_ts, ts})
  /\ in_order' = (in_order /\ ts >= newest_ts)

on_trade(trade) ==
  IF ~Usable(trade) THEN UNCHANGED liveVars
  ELSE /\ Watch(trade)
       /\ IF SameBar(trade)
            THEN update_current_bar(trade) /\ KeepBars
            ELSE /\ start_new_bar(trade)
                 /\ IF has_current_bar THEN close_current_bar ELSE KeepBars

\* The bounds of the model.
InBounds(trade) ==
  /\ Usable(trade) => normalize_timestamp_ns(trade.exchange_ts_ns) + MaxDelay >= newest_ts
  /\ ClosesBar(trade) => bars_processed < MaxBars
  /\ SameBar(trade) => Len(bar_prices) < MaxBarTrades

LiveNext == \E t \in Trades : InBounds(t) /\ on_trade(t)

LiveSpec == LiveInit /\ [][LiveNext]_liveVars

-----------------------------------------------------------------------------
(* Properties *)

PrismBars == [ts : Nat, open : Nat, high : Nat, low : Nat, close : Nat, atr_14 : Nat]

\* The members of PrismLiveEngine and of its strategy have their types
\* (prism_live_engine.hpp:42-54), which includes that every bar handed to the
\* strategy is one that PrismStrategy assumes.
LiveTypeOK ==
  /\ StrategyTypeOK
  /\ has_current_bar \in BOOLEAN /\ current_bar_start_ns \in Nat
  /\ current_bar \in PrismBars
  /\ bars \in Seq(PrismBars) /\ Len(bars) <= BAR_CAP
  /\ last_signal \in [active : BOOLEAN, entry_price : Int, stop_loss : Int,
                      target1 : Int, target2 : Int]

\* The current bar is the open, high, low and close of the trades that fell
\* into it since it was started (prism_live_engine.cpp:101-125).
BarIsItsTrades ==
  has_current_bar =>
    /\ bar_prices # <<>>
    /\ current_bar.open = Head(bar_prices)
    /\ current_bar.close = Last(bar_prices)
    /\ current_bar.high = Max(ToSet(bar_prices))
    /\ current_bar.low = Min(ToSet(bar_prices))

\* What the strategy decides on is what was traded: the current bar sums up its
\* trades, the strategy has processed every closed bar once, and where both
\* deques still hold a bar it is the same one with the same ATR (:142-167).
StrategySeesBars ==
  /\ BarIsItsTrades
  /\ bars_processed = Len(bar_starts)
  /\ \A i \in 0 .. Min({Len(bars), Len(history)}) - 1 :
       history[Len(history) - i] = to_strategy_bar(bars[Len(bars) - i])

\* last_signal_ is the verdict on the bar closed last: it is active exactly
\* when that bar gave a signal, with the levels of that signal, and no signal
\* survives the next bar (:169-193).
SignalIsFresh ==
  /\ last_signal.active <=> bars_processed > 0 /\ last_signal_bar = bars_processed
  /\ last_signal = IF signal.valid THEN LiveSignal(signal) ELSE NoLiveSignal

\* As long as the feed is in order, a bucket gives at most one bar, and bars
\* are closed in the order of their buckets (:82-96).
OneBarPerBucket ==
  in_order =>
    /\ \A i, j \in 1 .. Len(bar_starts) : i < j => bar_starts[i] < bar_starts[j]
    /\ has_current_bar /\ bar_starts # <<>> => Last(bar_starts) < current_bar_start_ns

\* prism_strategy.cpp:15-16 measures the window of a retest in minutes: with
\* bars of a fixed length, MAX_RETEST_BARS bars are a fixed time.
WithinWindowOfTime ==
  NewSignal => current_bar_start_ns - setup_start <= MAX_RETEST_BARS * bar_ns
RetestWindowIsTime == [][WithinWindowOfTime]_liveVars
==============================================================================
