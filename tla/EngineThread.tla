----------------------------- MODULE EngineThread -----------------------------
(***************************************************************************)
(* The body of the engine thread of live_binance_engine.cpp: every packet  *)
(* goes to the bar builder, then its price to the trade manager, and a     *)
(* rising edge of has_signal() opens a trade.  The thread runs alone on    *)
(* these objects, so a step is one call; the order of the calls is kept.   *)
(*                                                                         *)
(* Composes PrismLiveEngine, with its strategy, and TradeManager.  Prices  *)
(* meet in sixteenths of a tick, the unit of the levels of a signal.       *)
(***************************************************************************)
EXTENDS PrismLiveEngine

CONSTANTS R_UNIT      \* unit of r_multiple, see TradeManager

\* What the strategy can be fed from these trades: prices that were traded, and
\* an ATR that is a range of such prices or the mean of up to ATR_PERIOD of them.
BarPrices == {t.price : t \in {t \in Trades : Usable(t)}}
Ranges == {Abs(x - y) : x \in BarPrices, y \in BarPrices}
Means == UNION {{FoldSeq(+, 0, f) \div n : f \in [1 .. n -> Ranges]} : n \in 1 .. ATR_PERIOD}
FeedBars ==
  {b \in [open : BarPrices, high : BarPrices, low : BarPrices, close : BarPrices,
          atr_14 : Ranges \cup Means] : b.low <= b.close /\ b.close <= b.high}

\* The unit is a common multiple of the risks that their signals can have.
ASSUME UnitAssumption ==
  /\ R_UNIT \in Nat \ {0}
  /\ \A b \in FeedBars :
       LET risk == SignalFor(b).entry_price - SignalFor(b).stop_loss IN
       risk > 0 => R_UNIT \div risk \in Nat \ {0} /\ R_UNIT = risk * (R_UNIT \div risk)

VARIABLES
  pc,                       \* next call: "pop", "on_trade", "on_price", "signal"
  p,                        \* the packet
  previous_signal_state,
  prism_signals,
  position,                 \* TradeManager's state_
  trade, next_trade_id, total_trades, wins, losses, breakevens, gross_r,
  csv_is_open, csv, quote,  \* see TradeManager
  emitted,                  \* history: signals the strategy gave
  ignored                   \* history: signals that met an open trade

TM == INSTANCE TradeManager
        WITH state <- position, Prices <- {16 * t.price : t \in Trades},
             Signals <- {}, MaxTrades <- MaxBars

trader == <<position, trade, next_trade_id, total_trades, wins, losses,
            breakevens, gross_r, csv_is_open, csv, quote>>
threadVars == <<liveVars, pc, p, previous_signal_state, prism_signals, trader,
                emitted, ignored>>

NoPacket == [price |-> 0, volume |-> 0, exchange_ts_ns |-> 0]

ThreadInit ==
  /\ LiveInit
  /\ TM!TMInit
  /\ pc = "pop" /\ p = NoPacket
  /\ previous_signal_state = FALSE
  /\ prism_signals = 0
  /\ emitted = 0 /\ ignored = 0

\* trade_queue.pop(p).  BinanceClient lets no packet without a price or a
\* volume into the queue.
Pop ==
  /\ pc = "pop"
  /\ \E t \in Trades : t.price > 0 /\ t.volume > 0 /\ InBounds(t) /\ p' = t
  /\ pc' = "on_trade"
  /\ UNCHANGED <<liveVars, previous_signal_state, prism_signals, trader, emitted, ignored>>

\* prism.on_trade(p)
OnTrade ==
  /\ pc = "on_trade"
  /\ on_trade(p)
  /\ emitted' = IF NewSignal THEN emitted + 1 ELSE emitted
  /\ pc' = "on_price"
  /\ UNCHANGED <<p, previous_signal_state, prism_signals, trader, ignored>>

\* trade_manager.on_price(p.price)
OnPrice ==
  /\ pc = "on_price"
  /\ TM!on_price(16 * p.price)
  /\ pc' = "signal"
  /\ UNCHANGED <<liveVars, p, previous_signal_state, prism_signals, emitted, ignored>>

\* Mistake caught by SignalsCountedOnce and TradesOpenOnFirstPacket: the level
\* of has_signal() instead of its edge.
SignalLevel == last_signal.active

RisingEdge == last_signal.active /\ ~previous_signal_state

\* The rising edge of has_signal() goes to trade_manager.on_signal().
OnSignal ==
  /\ pc = "signal"
  /\ IF RisingEdge
       THEN /\ prism_signals' = prism_signals + 1
            /\ TM!on_signal(last_signal)
            /\ ignored' = IF TM!IsOpen THEN ignored + 1 ELSE ignored
       ELSE UNCHANGED <<prism_signals, trader, ignored>>
  /\ previous_signal_state' = last_signal.active
  /\ pc' = "pop"
  /\ UNCHANGED <<liveVars, p, emitted>>

ThreadNext == Pop \/ OnTrade \/ OnPrice \/ OnSignal

ThreadSpec == ThreadInit /\ [][ThreadNext]_threadVars

-----------------------------------------------------------------------------
(* Properties *)

\* The counters and registers of the thread and the members of the bar builder,
\* its strategy and the trade manager have their types, and the unit of
\* r_multiple fits the trade that is open.
ThreadTypeOK ==
  /\ LiveTypeOK /\ TM!TMTypeOK
  /\ pc \in {"pop", "on_trade", "on_price", "signal"}
  /\ p \in Trades \cup {NoPacket}
  /\ previous_signal_state \in BOOLEAN
  /\ {prism_signals, emitted, ignored} \subseteq Nat
  /\ TM!IsOpen => R_UNIT % trade.initial_risk = 0

\* Edge detection neither loses nor repeats a signal of the strategy
\* (live_binance_engine.cpp:71-87): between two packets every signal has been
\* counted once, and it has opened a trade unless one was open already.
SignalsCountedOnce ==
  pc = "pop" => /\ prism_signals = emitted
                /\ prism_signals = (next_trade_id - 1) + ignored

\* What PrismStrategy makes is what TradeManager relies on without a test
\* (trade_manager.cpp:54-68): a call of on_signal() never carries a signal
\* that is inactive, without risk, or with its targets out of order.
SignalsTradable ==
  pc = "signal" /\ RisingEdge =>
    last_signal.active /\ TM!Risk(last_signal) > 0 /\ TM!LevelsOrdered(last_signal)

\* A trade is opened by the first packet of a bar, at the close of the bar
\* before it, whatever the price of that packet is: on_price() has already run
\* and will only see the next packet (live_binance_engine.cpp:67-83).
OpensOnFirstPacket ==
  ~TM!IsOpen /\ TM!IsOpen' =>
    /\ bar_prices = <<p.price>>
    /\ trade'.entry_price = 16 * Last(bars).close
    /\ quote' = {}
TradesOpenOnFirstPacket == [][OpensOnFirstPacket]_threadVars
==============================================================================
