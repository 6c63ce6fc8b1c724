----------------------------- MODULE PrismStrategy -----------------------------
(***************************************************************************)
(* PrismStrategy (prism_strategy.cpp): looks at one closed bar at a time.  *)
(* A close above the highs of the last LOOKBACK_BARS bars is a breakout;   *)
(* within MAX_RETEST_BARS bars a retest of the broken level that is        *)
(* accepted gives a signal to buy.                                         *)
(*                                                                         *)
(* Prices of bars are integers (ticks).  The products with 0.25, 0.75,     *)
(* 1.25, 1.5 and 2.5 that make the levels of a signal are exact because    *)
(* those levels are counted in sixteenths of a tick; scores are counted in *)
(* halves.  Volumes only reach the debug output and are left out.          *)
(***************************************************************************)
EXTENDS Integers, Sequences, FiniteSetsExt

CONSTANTS
  Bars,                   \* bars [open, high, low, close, atr_14] to be fed
  LOOKBACK_BARS, MAX_RETEST_BARS, SIGNAL_COOLDOWN_BARS,
  MIN_SCORE,              \* in half points
  HISTORY_CAP,            \* bars kept, 200 in the code
  MaxBars                 \* bound of the model: bars processed

\* The bars the bar builder can make.
Price == Nat \ {0}
ValidBars ==
  {b \in [open : Price, high : Price, low : Price, close : Price, atr_14 : Nat] :
     /\ b.low <= b.open /\ b.open <= b.high
     /\ b.low <= b.close /\ b.close <= b.high}

ASSUME BarsAssumption == Bars \subseteq ValidBars
ASSUME SettingsAssumption ==
  /\ {LOOKBACK_BARS, MAX_RETEST_BARS, SIGNAL_COOLDOWN_BARS} \subseteq Nat \ {0}
  /\ MIN_SCORE \in Nat
  /\ HISTORY_CAP \in Nat /\ HISTORY_CAP >= LOOKBACK_BARS + 1
  /\ MaxBars \in Nat

VARIABLES
  bars_processed,
  history,              \* history_, oldest first
  state,                \* state_
  breakout_bar_index, last_signal_bar, breakout_level,
  signal                \* signal_, what the last bar gave

strategyVars == <<bars_processed, history, state, breakout_bar_index,
                  last_signal_bar, breakout_level, signal>>

\* Signal{}
NoSignal == [valid |-> FALSE, entry_price |-> 0, stop_loss |-> 0,
             target1 |-> 0, target2 |-> 0, setup_score |-> 0]

StrategyInit ==
  /\ bars_processed = 0
  /\ history = <<>>
  /\ state = "IDLE"
  /\ breakout_bar_index = 0 /\ last_signal_bar = 0 /\ breakout_level = 0
  /\ signal = NoSignal

-----------------------------------------------------------------------------
(* detect_breakout() *)

\* A deque that drops its oldest element when it grows beyond cap.
PushCapped(deque, element, cap) ==
  LET d == Append(deque, element)
  IN  IF Len(d) > cap THEN Tail(d) ELSE d

\* Mistake caught by LevelIsBrokenHigh: one bar too few.
PreviousHighOneShort(h) ==
  Max({h[i].high : i \in Len(h) - LOOKBACK_BARS + 1 .. Len(h) - 1})

\* The highest high of the LOOKBACK_BARS bars before the last one of h.
PreviousHigh(h) ==
  Max({h[i].high : i \in Len(h) - LOOKBACK_BARS .. Len(h) - 1})

\* Mistake caught by SignalsFromRetest: there is no cooldown.
InCooldownNever(n) == FALSE

InCooldown(n) == n - last_signal_bar < SIGNAL_COOLDOWN_BARS

detect_breakout(bar, n, h) ==
  /\ IF ~InCooldown(n) /\ bar.close > PreviousHigh(h)
       THEN /\ breakout_level' = PreviousHigh(h)
            /\ breakout_bar_index' = n
            /\ state' = "BREAKOUT"
       ELSE UNCHANGED <<breakout_level, breakout_bar_index, state>>
  /\ signal' = NoSignal
  /\ UNCHANGED last_signal_bar

-----------------------------------------------------------------------------
(* detect_retest() *)

BarRange(bar) == bar.high - bar.low

\* low <= level + 0.001 * level
TouchedBreakout(bar) == 1000 * bar.low <= 1001 * breakout_level

\* close_position >= quarters / 4, for a bar that has a range
ClosesAbove(bar, quarters) == 4 * (bar.close - bar.low) >= quarters * BarRange(bar)

RetestAccepted(bar) ==
  TouchedBreakout(bar) /\ ClosesAbove(bar, 2) /\ bar.close >= breakout_level

\* calculate_score(), in half points; the last 7 are the permissive 1.5 + 2.0
calculate_score(bar) ==
  LET position == IF BarRange(bar) <= 0 THEN 0
                  ELSE IF ClosesAbove(bar, 3) THEN 8
                  ELSE IF ClosesAbove(bar, 2) THEN 6 ELSE 0
      body == IF bar.close >= bar.open THEN 4 ELSE 0
  IN  Min({position + body + 7, 20})

\* Entry, stop and risk of a setup in eighths of a tick.
Entry(bar) == 8 * bar.close
AtrComponent(bar) == IF bar.atr_14 > 0 THEN 6 * bar.atr_14 ELSE 10 * BarRange(bar)
Stop(bar) == Min({8 * bar.low - 2 * BarRange(bar), Entry(bar) - AtrComponent(bar)})

\* Mistake caught by SignalWellFormed: the operands are swapped.
SetupRiskSwapped(bar) == Stop(bar) - Entry(bar)

SetupRisk(bar) == Entry(bar) - Stop(bar)

\* The levels of the signal, in sixteenths of a tick.
SignalFor(bar) ==
  [valid |-> TRUE,
   entry_price |-> 2 * Entry(bar),
   stop_loss |-> 2 * Stop(bar),
   target1 |-> 2 * Entry(bar) + 3 * SetupRisk(bar),
   target2 |-> 2 * Entry(bar) + 5 * SetupRisk(bar),
   setup_score |-> calculate_score(bar)]

\* Mistake caught by SetupConsistent: the level outlives its setup.
DropStateOnly == /\ state' = "IDLE"
                 /\ signal' = NoSignal
                 /\ UNCHANGED <<breakout_level, breakout_bar_index, last_signal_bar>>

DropSetup == /\ state' = "IDLE" /\ breakout_level' = 0 /\ breakout_bar_index' = 0
             /\ signal' = NoSignal
             /\ UNCHANGED last_signal_bar

KeepSetup(s) == /\ state' = s
                /\ signal' = NoSignal
                /\ UNCHANGED <<breakout_level, breakout_bar_index, last_signal_bar>>

EmitSignal(bar, n) ==
  /\ state' = "IDLE" /\ breakout_level' = 0 /\ breakout_bar_index' = 0
  /\ signal' = SignalFor(bar)
  /\ last_signal_bar' = n

detect_retest(bar, n) ==
  IF breakout_level <= 0
    THEN /\ state' = "IDLE" /\ signal' = NoSignal
         /\ UNCHANGED <<breakout_level, breakout_bar_index, last_signal_bar>>
  ELSE IF n - breakout_bar_index > MAX_RETEST_BARS \/ InCooldown(n)
    THEN DropSetup
  ELSE IF BarRange(bar) <= 0
    THEN KeepSetup(state)
  ELSE IF /\ RetestAccepted(bar)
          /\ calculate_score(bar) >= MIN_SCORE
          /\ SetupRisk(bar) > 0
    THEN EmitSignal(bar, n)
  ELSE KeepSetup("RETEST")

-----------------------------------------------------------------------------
(* on_new_bar() *)

WaitForHistory ==
  /\ signal' = NoSignal
  /\ UNCHANGED <<state, breakout_level, breakout_bar_index, last_signal_bar>>

on_new_bar(bar) ==
  LET n == bars_processed + 1
      h == PushCapped(history, bar, HISTORY_CAP)
  IN  /\ bars_processed' = n
      /\ history' = h
      /\ IF Len(h) < LOOKBACK_BARS + 1 THEN WaitForHistory
         ELSE IF state = "IDLE" THEN detect_breakout(bar, n, h)
         ELSE detect_retest(bar, n)

StrategyNext == \E bar \in Bars : bars_processed < MaxBars /\ on_new_bar(bar)

StrategySpec == StrategyInit /\ [][StrategyNext]_strategyVars

-----------------------------------------------------------------------------
(* Properties *)

\* The members of PrismStrategy have their types (prism_strategy.hpp:20-58).
StrategyTypeOK ==
  /\ bars_processed \in Nat
  /\ history \in Seq(ValidBars) /\ Len(history) <= HISTORY_CAP
  /\ state \in {"IDLE", "BREAKOUT", "RETEST"}
  /\ {breakout_bar_index, last_signal_bar, breakout_level} \subseteq Nat
  /\ signal \in [valid : BOOLEAN, entry_price : Int, stop_loss : Int,
                 target1 : Int, target2 : Int, setup_score : Nat]

\* The state machine and its registers agree between two bars: no setup keeps
\* a level, a setup is never older than its window nor younger than the
\* cooldown, and a signal ends its setup.  So the tests of breakout_level_ and
\* of the cooldown at the head of detect_retest() (prism_strategy.cpp:137,
\* :158) can never be what ends a setup.
SetupConsistent ==
  /\ state = "IDLE" => breakout_level = 0 /\ breakout_bar_index = 0
  /\ state # "IDLE" =>
       /\ breakout_level > 0
       /\ breakout_bar_index \in last_signal_bar + SIGNAL_COOLDOWN_BARS .. bars_processed
       /\ bars_processed - breakout_bar_index <= MAX_RETEST_BARS
       /\ state = "RETEST" => breakout_bar_index < bars_processed
  /\ last_signal_bar <= bars_processed
  /\ signal.valid <=> last_signal_bar = bars_processed /\ bars_processed > 0

\* The level a setup waits for is the high that was broken, however many bars
\* have passed and whatever the deque has dropped since (:99-117): the highest
\* of the LOOKBACK_BARS bars before the breakout bar, which closed above it.
PositionOf(n) == Len(history) - (bars_processed - n)
LevelIsBrokenHigh ==
  LET b == PositionOf(breakout_bar_index) IN
  state # "IDLE" /\ b > LOOKBACK_BARS =>
    /\ breakout_level = Max({history[i].high : i \in b - LOOKBACK_BARS .. b - 1})
    /\ history[b].close > breakout_level

\* What a signal promises to those who trade it (:224-257): its levels are in
\* order and the stop is below the low of the retest bar.  And a setup gets its
\* signal on the first bar that is accepted and scores enough: the test of the
\* risk (:246) refuses none of them, whatever its ATR and its range are, so that
\* no such bar leaves the setup waiting.
ScoredRetest(bar) ==
  BarRange(bar) > 0 /\ RetestAccepted(bar) /\ calculate_score(bar) >= MIN_SCORE
SignalWellFormed ==
  LET bar == history[Len(history)] IN
  /\ state = "RETEST" => ~ScoredRetest(bar)
  /\ signal.valid =>
       /\ signal.stop_loss < signal.entry_price
       /\ signal.entry_price < signal.target1
       /\ signal.target1 < signal.target2
       /\ signal.stop_loss < 16 * bar.low
       /\ signal.entry_price = 16 * bar.close
       /\ signal.setup_score >= 13

\* A signal needs a setup that broke out on an earlier bar, at most
\* MAX_RETEST_BARS bars ago, and lies more than the cooldown after the signal
\* before it; its entry is not below the broken level, and its bar came back
\* to that level (:141-204, :259).
NewSignal == bars_processed' # bars_processed /\ signal'.valid
FromRetest ==
  NewSignal =>
    /\ state \in {"BREAKOUT", "RETEST"}
    /\ bars_processed' - breakout_bar_index \in 1 .. MAX_RETEST_BARS
    /\ bars_processed' - last_signal_bar > SIGNAL_COOLDOWN_BARS
    /\ signal'.entry_price >= 16 * breakout_level
    /\ 1000 * history'[Len(history')].low <= 1001 * breakout_level
SignalsFromRetest == [][FromRetest]_strategyVars
==============================================================================
