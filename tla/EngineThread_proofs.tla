------------------------- MODULE EngineThread_proofs --------------------------
(***************************************************************************)
(* Proofs about the strategy, about the bar builder that feeds it and      *)
(* about the engine thread that runs both and the trade manager, for every *)
(* set of trades, all caps, every order of the feed and all settings.      *)
(*                                                                         *)
(* The strategy: a setup is opened only outside the cooldown, with a level *)
(* that is the high of some bar and so positive, and the bar that finds it *)
(* too old drops it. So the two tests at the head of detect_retest() for a *)
(* missing level and for the cooldown never decide anything, and a signal  *)
(* lies within the window of its breakout and beyond the cooldown of the   *)
(* signal before it. Its stop lies a quarter of a positive range below the *)
(* low, so the order of its levels is a matter of arithmetic.              *)
(*                                                                         *)
(* The bar builder: the current bar sums up its trades, so its high and    *)
(* low bracket what the strategy is fed, and the ATR is a sum of distances *)
(* and not negative. Hence every bar is one that PrismStrategy assumes,    *)
(* and what is shown of the strategy holds for the composition. The prices *)
(* of a bar are prices of its trades, so its range and its signal come     *)
(* from the finite sets that UnitAssumption speaks of. Both deques drop    *)
(* from the front alone, so they agree from the newest bar back.           *)
(*                                                                         *)
(* The thread: previous_signal_state is what the last packet saw, and the  *)
(* strategy is never valid on two bars in a row, so a signal that appears  *)
(* is an edge, and its packet is the first one of a bar. The trade manager *)
(* gets only signals and prices that TradeManager assumes, so the thread   *)
(* implements it, and its types and its account of the trades hold here.   *)
(***************************************************************************)
EXTENDS EngineThread, SequenceTheorems, FiniteSetTheorems, WellFoundedInduction, TLAPS

-----------------------------------------------------------------------------
(* Maxima and minima *)

\* A finite set of numbers that is not empty has a greatest element.
LEMMA MaxOfFinite ==
  ASSUME NEW S \in SUBSET Nat, S # {}, IsFiniteSet(S)
  PROVE  Max(S) \in S /\ \A y \in S : Max(S) >= y
<1> DEFINE Above(x) == {y \in S : y > x}
           F == {Above(x) : x \in S}
<1>1. F \subseteq FiniteSubsetsOf(S)
  BY FS_Subset DEF FiniteSubsetsOf
<1>2. F # {}
  OBVIOUS
<1>3. IsWellFoundedOn(StrictSubsetOrdering(S), FiniteSubsetsOf(S))
  BY FS_StrictSubsetOrderingWellFounded
<1>4. PICK T \in F : \A U \in F : <<U, T>> \notin StrictSubsetOrdering(S)
  <2> DEFINE R == StrictSubsetOrdering(S)
             D == FiniteSubsetsOf(S)
  <2> HIDE DEF F, R, D
  <2>1. IsWellFoundedOn(R, D) /\ F \subseteq D /\ F # {}
    BY <1>1, <1>2, <1>3 DEF R, D
  <2>2. \E T \in F : \A U \in F : <<U, T>> \notin R
    BY <2>1, WFMin, ZenonT(30)
  <2> QED BY <2>2 DEF R
<1>5. PICK x \in S : T = Above(x)
  OBVIOUS
<1>6. \A y \in S : x >= y
  <2>1. SUFFICES ASSUME NEW y \in S, y > x PROVE FALSE
    OBVIOUS
  <2>2. Above(y) \subseteq T /\ Above(y) # T
    <3>1. \A z \in S : z > y => z > x
      BY <2>1
    <3>2. y \in Above(x) /\ y \notin Above(y)
      BY <2>1
    <3> QED BY <1>5, <3>1, <3>2
  <2>3. <<Above(y), T>> \in StrictSubsetOrdering(S)
    BY <2>2, <1>5 DEF StrictSubsetOrdering
  <2> QED BY <2>3, <1>4
<1> QED BY <1>6 DEF Max

\* The smaller of two numbers.
LEMMA MinOfTwo ==
  ASSUME NEW a \in Int, NEW b \in Int
  PROVE  /\ Min({a, b}) \in {a, b}
         /\ Min({a, b}) <= a /\ Min({a, b}) <= b
<1>1. \E x \in {a, b} : \A y \in {a, b} : x <= y
  OBVIOUS
<1> QED BY <1>1 DEF Min

-----------------------------------------------------------------------------
(* The operators of the strategy *)

\* The deque stays within its cap and ends with the bar just pushed
\* (prism_strategy.cpp:51-55).
LEMMA PushCappedKeeps ==
  ASSUME NEW d \in Seq(ValidBars), Len(d) <= HISTORY_CAP, NEW bar \in ValidBars
  PROVE  LET h == PushCapped(d, bar, HISTORY_CAP) IN
         /\ h \in Seq(ValidBars)
         /\ Len(h) <= HISTORY_CAP
         /\ Len(h) = IF Len(d) = HISTORY_CAP THEN Len(d) ELSE Len(d) + 1
         /\ \A i \in 1 .. Len(h) - 1 :
              h[i] = IF Len(d) = HISTORY_CAP THEN d[i + 1] ELSE d[i]
         /\ Len(h) > 0
         /\ h[Len(h)] = bar
<1> DEFINE e == Append(d, bar)
<1>1. /\ e \in Seq(ValidBars) /\ Len(e) = Len(d) + 1
      /\ e[Len(d) + 1] = bar
      /\ \A i \in 1 .. Len(d) : e[i] = d[i]
  BY AppendProperties
<1>2. HISTORY_CAP \in Nat /\ HISTORY_CAP >= 2 /\ Len(d) \in Nat
  BY SettingsAssumption
<1> HIDE DEF e
<1>3. CASE Len(d) = HISTORY_CAP
  <2>1. PushCapped(d, bar, HISTORY_CAP) = Tail(e)
    BY <1>1, <1>2, <1>3 DEF PushCapped, e
  <2>2. e # <<>>
    BY <1>1, <1>2
  <2>3. /\ Tail(e) \in Seq(ValidBars) /\ Len(Tail(e)) = Len(e) - 1
        /\ \A i \in 1 .. Len(Tail(e)) : Tail(e)[i] = e[i + 1]
    BY <1>1, <2>2, HeadTailProperties
  <2> QED BY <1>1, <1>2, <1>3, <2>1, <2>3
<1>4. CASE Len(d) < HISTORY_CAP
  <2>1. PushCapped(d, bar, HISTORY_CAP) = e
    BY <1>1, <1>2, <1>4 DEF PushCapped, e
  <2> QED BY <1>1, <1>2, <1>4, <2>1
<1> QED BY <1>2, <1>3, <1>4

\* The high a breakout has to beat is a positive price, once the deque is long
\* enough for on_new_bar() to ask for it (:68, :99-109).
LEMMA PreviousHighPositive ==
  ASSUME NEW h \in Seq(ValidBars), Len(h) >= LOOKBACK_BARS + 1
  PROVE  PreviousHigh(h) \in Nat \ {0}
<1> DEFINE a == Len(h) - LOOKBACK_BARS
           b == Len(h) - 1
           S == {h[i].high : i \in a .. b}
           f == [i \in a .. b |-> h[i].high]
<1>1. LOOKBACK_BARS \in Nat \ {0} /\ Len(h) \in Nat
  BY SettingsAssumption
<1>2. a \in Int /\ b \in Int /\ a <= b /\ a .. b \subseteq 1 .. Len(h)
  BY <1>1
<1>3. \A i \in a .. b : h[i].high \in Nat \ {0}
  <2>1. \A bar \in ValidBars : bar.high \in Nat \ {0}
    BY DEF ValidBars, Price
  <2>2. \A i \in a .. b : h[i] \in ValidBars
    BY <1>2
  <2> QED BY <2>1, <2>2
<1>4. S \subseteq Nat \ {0} /\ S # {}
  BY <1>2, <1>3
<1>5. f \in Surjection(a .. b, S)
  BY DEF Surjection
<1>6. IsFiniteSet(S)
  <2>1. IsFiniteSet(a .. b)
    BY <1>2, FS_Interval
  <2> DEFINE I == a .. b
  <2> HIDE DEF S, f, I
  <2>2. IsFiniteSet(I) /\ f \in Surjection(I, S)
    BY <2>1, <1>5 DEF I
  <2> QED BY <2>2, FS_Surjection
<1>7. PreviousHigh(h) = Max(S)
  BY DEF PreviousHigh
<1> HIDE DEF S
<1>8. Max(S) \in S
  BY <1>4, <1>6, MaxOfFinite
<1> QED BY <1>4, <1>7, <1>8

\* The levels of a signal are in order, and its risk is positive without the
\* test that on_price() relies on (:220-257): a quarter of the range keeps the
\* stop below the low, whatever the ATR is.
LEMMA SignalLevels ==
  ASSUME NEW bar \in ValidBars, BarRange(bar) > 0
  PROVE  /\ SetupRisk(bar) > 0
         /\ SignalFor(bar).stop_loss < SignalFor(bar).entry_price
         /\ SignalFor(bar).entry_price < SignalFor(bar).target1
         /\ SignalFor(bar).target1 < SignalFor(bar).target2
         /\ SignalFor(bar).stop_loss < 16 * bar.low
         /\ SignalFor(bar).entry_price = 16 * bar.close
         /\ {SignalFor(bar).stop_loss, SignalFor(bar).entry_price,
             SignalFor(bar).target1, SignalFor(bar).target2} \subseteq Int
<1> DEFINE s1 == 8 * bar.low - 2 * BarRange(bar)
           s2 == Entry(bar) - AtrComponent(bar)
<1>1. /\ bar.low \in Nat /\ bar.high \in Nat /\ bar.close \in Nat /\ bar.atr_14 \in Nat
      /\ bar.low <= bar.close
  BY DEF ValidBars, Price
<1>2. BarRange(bar) \in Int /\ AtrComponent(bar) \in Int /\ Entry(bar) = 8 * bar.close
  BY <1>1 DEF BarRange, AtrComponent, Entry
<1>3. s1 \in Int /\ s2 \in Int /\ s1 < 8 * bar.low
  BY <1>1, <1>2
<1>4. Stop(bar) = Min({s1, s2})
  BY DEF Stop
<1> HIDE DEF s1, s2
<1>5. Stop(bar) \in Int /\ Stop(bar) < 8 * bar.low
  <2>1. Min({s1, s2}) \in {s1, s2} /\ Min({s1, s2}) <= s1
    BY <1>3, MinOfTwo
  <2> QED BY <1>1, <1>3, <1>4, <2>1
<1>6. SetupRisk(bar) \in Int /\ SetupRisk(bar) > 0
      /\ SetupRisk(bar) = Entry(bar) - Stop(bar)
  BY <1>1, <1>2, <1>5 DEF SetupRisk
<1>7. /\ SignalFor(bar).entry_price = 2 * Entry(bar)
      /\ SignalFor(bar).stop_loss = 2 * Stop(bar)
      /\ SignalFor(bar).target1 = 2 * Entry(bar) + 3 * SetupRisk(bar)
      /\ SignalFor(bar).target2 = 2 * Entry(bar) + 5 * SetupRisk(bar)
  BY DEF SignalFor
<1> DEFINE e == Entry(bar)
           st == Stop(bar)
           r == SetupRisk(bar)
<1>8. /\ e \in Int /\ st \in Int /\ r \in Int /\ r > 0 /\ r = e - st
      /\ e = 8 * bar.close /\ st < 8 * bar.low
  BY <1>1, <1>2, <1>5, <1>6
<1> HIDE DEF e, st, r
<1>9. /\ 2 * st < 2 * e /\ 2 * e < 2 * e + 3 * r /\ 2 * e + 3 * r < 2 * e + 5 * r
      /\ 2 * st < 16 * bar.low /\ 2 * e = 16 * bar.close
      /\ {2 * st, 2 * e, 2 * e + 3 * r, 2 * e + 5 * r} \subseteq Int
  BY <1>1, <1>8
<1> QED BY <1>6, <1>7, <1>9 DEF e, st, r

\* The score is a number, and a bar that closes in its upper half scores at
\* least 6.5 points, above the threshold of 5.5 (:276-306).
LEMMA ScoreBounds ==
  ASSUME NEW bar \in ValidBars, BarRange(bar) > 0
  PROVE  /\ calculate_score(bar) \in Nat
         /\ RetestAccepted(bar) => calculate_score(bar) >= 13
<1> DEFINE closing == IF BarRange(bar) <= 0 THEN 0
                       ELSE IF ClosesAbove(bar, 3) THEN 8
                       ELSE IF ClosesAbove(bar, 2) THEN 6 ELSE 0
           body == IF bar.close >= bar.open THEN 4 ELSE 0
           n == closing + body + 7
<1>1. /\ closing \in Nat /\ body \in Nat
      /\ RetestAccepted(bar) => closing >= 6
  <2>1. BarRange(bar) \in Int
    BY DEF BarRange, ValidBars, Price
  <2> QED BY <2>1 DEF RetestAccepted
<1>2. calculate_score(bar) = Min({n, 20})
  BY DEF calculate_score
<1> HIDE DEF closing, body
<1>3. n \in Int /\ n >= 0 /\ (RetestAccepted(bar) => n >= 13)
  BY <1>1
<1> HIDE DEF n
<1> QED BY <1>2, <1>3, MinOfTwo
-----------------------------------------------------------------------------
(* The inductive invariant *)

\* Nothing happens before the history is long enough (prism_strategy.cpp:68).
ShortHistory ==
  Len(history) <= LOOKBACK_BARS => state = "IDLE" /\ last_signal_bar = 0

StrategyInv ==
  /\ StrategyTypeOK
  /\ SetupConsistent
  /\ SignalWellFormed
  /\ LevelIsBrokenHigh
  /\ ShortHistory

\* What on_new_bar() does to the counter and the deque in every case.
Fed(bar) ==
  /\ bars_processed' = bars_processed + 1
  /\ history' = PushCapped(history, bar, HISTORY_CAP)

\* The registers have their types, one by one.
LEMMA Registers ==
  ASSUME StrategyInv
  PROVE  /\ bars_processed \in Nat
         /\ breakout_bar_index \in Nat /\ last_signal_bar \in Nat
         /\ breakout_level \in Nat
         /\ Len(history) \in Nat /\ Len(history) <= HISTORY_CAP
         /\ LOOKBACK_BARS \in Nat \ {0} /\ MAX_RETEST_BARS \in Nat \ {0}
         /\ SIGNAL_COOLDOWN_BARS \in Nat \ {0} /\ HISTORY_CAP \in Nat
         /\ last_signal_bar <= bars_processed
BY SettingsAssumption DEF StrategyInv, StrategyTypeOK, SetupConsistent

\* The counter and the deque after a bar was fed.
LEMMA FedKeeps ==
  ASSUME StrategyInv, NEW bar \in ValidBars, Fed(bar)
  PROVE  /\ bar \in ValidBars
         /\ bars_processed' = bars_processed + 1
         /\ history' \in Seq(ValidBars)
         /\ Len(history') <= HISTORY_CAP
         /\ Len(history') = IF Len(history) = HISTORY_CAP
                              THEN Len(history) ELSE Len(history) + 1
         /\ \A i \in 1 .. Len(history') - 1 :
              history'[i] = IF Len(history) = HISTORY_CAP
                              THEN history[i + 1] ELSE history[i]
         /\ Len(history') > 0
         /\ history'[Len(history')] = bar
<1>1. bar \in ValidBars /\ history \in Seq(ValidBars) /\ Len(history) <= HISTORY_CAP
  BY DEF StrategyInv, StrategyTypeOK
<1> QED BY <1>1, PushCappedKeeps DEF Fed

\* A setup that is kept keeps the high that was broken: the bars of its window
\* move in the deque all by the same distance (:53-55).
LEMMA LevelMovesAlong ==
  ASSUME StrategyInv, NEW bar \in ValidBars, Fed(bar), state # "IDLE",
         UNCHANGED <<breakout_level, breakout_bar_index>>
  PROVE  LevelIsBrokenHigh'
<1> DEFINE b == PositionOf(breakout_bar_index)
           c == PositionOf(breakout_bar_index)'
           d == IF Len(history) = HISTORY_CAP THEN 1 ELSE 0
<1>1. /\ bars_processed \in Nat /\ breakout_bar_index \in Nat
      /\ Len(history) \in Nat /\ LOOKBACK_BARS \in Nat \ {0}
      /\ breakout_bar_index <= bars_processed
  BY Registers DEF StrategyInv, SetupConsistent
<1>2. /\ bars_processed' = bars_processed + 1
      /\ Len(history') = Len(history) + 1 - d
      /\ \A i \in 1 .. Len(history') - 1 : history'[i] = history[i + d]
      /\ d \in {0, 1}
  BY <1>1, FedKeeps
<1>3. b = c + d /\ c \in Int /\ c <= Len(history') - 1
  BY <1>1, <1>2 DEF PositionOf
<1> HIDE DEF b, c, d
<1>4. SUFFICES ASSUME c > LOOKBACK_BARS
               PROVE  /\ breakout_level = Max({history'[i].high : i \in c - LOOKBACK_BARS .. c - 1})
                      /\ history'[c].close > breakout_level
  BY DEF LevelIsBrokenHigh, c
<1>5. /\ breakout_level = Max({history[i].high : i \in b - LOOKBACK_BARS .. b - 1})
      /\ history[b].close > breakout_level
  BY <1>1, <1>2, <1>3, <1>4 DEF StrategyInv, LevelIsBrokenHigh, b
<1>6. \A i \in c - LOOKBACK_BARS .. c : history'[i] = history[i + d]
  BY <1>1, <1>2, <1>3, <1>4
<1>7. {history'[i].high : i \in c - LOOKBACK_BARS .. c - 1}
        = {history[i].high : i \in b - LOOKBACK_BARS .. b - 1}
  <2>1. ASSUME NEW i \in c - LOOKBACK_BARS .. c - 1
        PROVE  i + d \in b - LOOKBACK_BARS .. b - 1 /\ history'[i].high = history[i + d].high
    <3>1. i + d \in b - LOOKBACK_BARS .. b - 1 /\ i \in c - LOOKBACK_BARS .. c
      BY <1>1, <1>2, <1>3
    <3>2. history'[i] = history[i + d]
      BY <1>6, <3>1
    <3> QED BY <3>1, <3>2
  <2>2. ASSUME NEW j \in b - LOOKBACK_BARS .. b - 1
        PROVE  j - d \in c - LOOKBACK_BARS .. c - 1 /\ history'[j - d].high = history[j].high
    <3>1. j - d \in c - LOOKBACK_BARS .. c - 1 /\ (j - d) + d = j
      BY <1>1, <1>2, <1>3
    <3>2. history'[j - d] = history[(j - d) + d]
      <4>1. j - d \in c - LOOKBACK_BARS .. c
        BY <1>1, <1>3, <3>1
      <4> QED BY <1>6, <4>1
    <3> QED BY <3>1, <3>2
  <2> QED BY <2>1, <2>2
<1>8. history'[c] = history[b]
  BY <1>1, <1>2, <1>3, <1>6
<1> QED BY <1>5, <1>7, <1>8

-----------------------------------------------------------------------------
(* The cases of on_new_bar() *)

\* An empty strategy satisfies the invariant (prism_strategy.cpp:38-45).
LEMMA StrategyInitInv == StrategyInit => StrategyInv
<1> SUFFICES ASSUME StrategyInit PROVE StrategyInv
  OBVIOUS
<1> USE SettingsAssumption DEF StrategyInit
<1>1. StrategyTypeOK
  BY DEF StrategyTypeOK, NoSignal
<1>2. SetupConsistent /\ SignalWellFormed /\ LevelIsBrokenHigh /\ ShortHistory
  BY DEF SetupConsistent, SignalWellFormed, LevelIsBrokenHigh, ShortHistory, NoSignal
<1> QED BY <1>1, <1>2 DEF StrategyInv

\* A bar that gives no signal and leaves the strategy idle without a setup.
LEMMA IdleInv ==
  ASSUME StrategyInv, NEW bar \in ValidBars, Fed(bar),
         state' = "IDLE", breakout_level' = 0, breakout_bar_index' = 0,
         signal' = NoSignal, UNCHANGED last_signal_bar
  PROVE  StrategyInv' /\ FromRetest
<1>1. /\ bars_processed \in Nat /\ last_signal_bar \in Nat
      /\ last_signal_bar <= bars_processed /\ bars_processed' = bars_processed + 1
  BY Registers, FedKeeps
<1>2. StrategyTypeOK'
  BY <1>1, FedKeeps DEF StrategyTypeOK, NoSignal
<1>3. SetupConsistent' /\ SignalWellFormed' /\ LevelIsBrokenHigh' /\ FromRetest
  BY <1>1 DEF SetupConsistent, SignalWellFormed, LevelIsBrokenHigh, FromRetest,
     NewSignal, NoSignal
<1>4. ShortHistory'
  BY Registers, FedKeeps DEF StrategyInv, ShortHistory
<1> QED BY <1>2, <1>3, <1>4 DEF StrategyInv

\* While the history is too short the strategy stays idle (:68-79).
LEMMA WaitInv ==
  ASSUME StrategyInv, NEW bar \in ValidBars, Fed(bar), WaitForHistory,
         Len(history') < LOOKBACK_BARS + 1
  PROVE  StrategyInv' /\ FromRetest
<1>1. Len(history) <= LOOKBACK_BARS
  BY Registers, FedKeeps
<1>2. state = "IDLE" /\ breakout_level = 0 /\ breakout_bar_index = 0
  BY <1>1 DEF StrategyInv, ShortHistory, SetupConsistent
<1> QED BY <1>2, IdleInv DEF WaitForHistory

\* Looking for a breakout keeps the invariant (:95-133): the setup it opens
\* lies outside the cooldown and waits for a positive level.
LEMMA BreakoutInv ==
  ASSUME StrategyInv, NEW bar \in ValidBars, Fed(bar), state = "IDLE",
         ~(Len(history') < LOOKBACK_BARS + 1),
         detect_breakout(bar, bars_processed + 1, history')
  PROVE  StrategyInv' /\ FromRetest
<1> DEFINE n == bars_processed + 1
           level == PreviousHigh(history')
<1>1. /\ signal' = NoSignal /\ UNCHANGED last_signal_bar
      /\ IF ~InCooldown(n) /\ bar.close > level
           THEN breakout_level' = level /\ breakout_bar_index' = n /\ state' = "BREAKOUT"
           ELSE UNCHANGED <<breakout_level, breakout_bar_index, state>>
  BY DEF detect_breakout
<1>2. CASE ~(~InCooldown(n) /\ bar.close > level)
  <2>1. breakout_level = 0 /\ breakout_bar_index = 0
    BY DEF StrategyInv, SetupConsistent
  <2> QED BY <1>1, <1>2, <2>1, IdleInv
<1>3. CASE ~InCooldown(n) /\ bar.close > level
  <2>1. /\ bars_processed \in Nat /\ last_signal_bar \in Nat
        /\ last_signal_bar <= bars_processed
        /\ LOOKBACK_BARS \in Nat \ {0} /\ MAX_RETEST_BARS \in Nat \ {0}
        /\ SIGNAL_COOLDOWN_BARS \in Nat \ {0} /\ HISTORY_CAP \in Nat
    BY Registers
  <2>2. /\ bars_processed' = n /\ history' \in Seq(ValidBars)
        /\ Len(history') <= HISTORY_CAP /\ Len(history') \in Nat
        /\ history'[Len(history')] = bar
    BY FedKeeps
  <2>3. level \in Nat \ {0}
    BY <2>1, <2>2, PreviousHighPositive
  <2>4. n - last_signal_bar >= SIGNAL_COOLDOWN_BARS
    BY <1>3, <2>1 DEF InCooldown
  <2>5. breakout_level' = level /\ breakout_bar_index' = n /\ state' = "BREAKOUT"
    BY <1>1, <1>3
  <2>6. LevelIsBrokenHigh'
    <3>1. PositionOf(breakout_bar_index)' = Len(history')
      BY <2>1, <2>2, <2>5 DEF PositionOf
    <3>2. level = Max({history'[i].high : i \in Len(history') - LOOKBACK_BARS .. Len(history') - 1})
      BY DEF PreviousHigh
    <3> HIDE DEF level
    <3> QED BY <1>3, <2>2, <2>5, <3>1, <3>2 DEF LevelIsBrokenHigh
  <2> HIDE DEF level
  <2>7. StrategyTypeOK'
    BY <1>1, <2>1, <2>2, <2>3, <2>5 DEF StrategyTypeOK, NoSignal
  <2>8. SetupConsistent'
    BY <1>1, <2>1, <2>2, <2>3, <2>4, <2>5 DEF SetupConsistent, NoSignal
  <2>9. SignalWellFormed' /\ FromRetest /\ ShortHistory'
    BY <1>1, <2>1, <2>2 DEF SignalWellFormed, FromRetest, NewSignal, NoSignal, ShortHistory
  <2> QED BY <2>6, <2>7, <2>8, <2>9 DEF StrategyInv
<1> QED BY <1>2, <1>3

\* A setup is kept only while it is within its window (:141-156).
LEMMA KeepInv ==
  ASSUME StrategyInv, NEW bar \in ValidBars, Fed(bar), state # "IDLE",
         ~(Len(history') < LOOKBACK_BARS + 1),
         ~((bars_processed + 1) - breakout_bar_index > MAX_RETEST_BARS),
         ~ScoredRetest(bar),
         NEW s \in {state, "RETEST"}, KeepSetup(s)
  PROVE  StrategyInv' /\ FromRetest
<1>1. /\ state' = s /\ signal' = NoSignal
      /\ UNCHANGED <<breakout_level, breakout_bar_index, last_signal_bar>>
  BY DEF KeepSetup
<1>2. s \in {"BREAKOUT", "RETEST"}
  BY DEF StrategyInv, StrategyTypeOK
<1>3. /\ bars_processed' = bars_processed + 1 /\ history' \in Seq(ValidBars)
      /\ Len(history') <= HISTORY_CAP /\ Len(history') \in Nat
  BY FedKeeps
<1>4. LevelIsBrokenHigh'
  BY <1>1, LevelMovesAlong
<1>5. StrategyTypeOK'
  BY <1>1, <1>2, <1>3, Registers DEF StrategyTypeOK, NoSignal
<1>6. SetupConsistent'
  <2>1. /\ breakout_level > 0
        /\ breakout_bar_index >= last_signal_bar + SIGNAL_COOLDOWN_BARS
        /\ breakout_bar_index <= bars_processed
    BY Registers DEF StrategyInv, SetupConsistent
  <2>2. /\ breakout_bar_index \in last_signal_bar + SIGNAL_COOLDOWN_BARS .. bars_processed + 1
        /\ (bars_processed + 1) - breakout_bar_index <= MAX_RETEST_BARS
        /\ breakout_bar_index < bars_processed + 1
        /\ last_signal_bar <= bars_processed + 1
        /\ last_signal_bar # bars_processed + 1
    BY <2>1, Registers
  <2> QED BY <1>1, <1>2, <1>3, <2>1, <2>2 DEF SetupConsistent, NoSignal
<1>7. FromRetest /\ ShortHistory'
  BY <1>1, <1>3, Registers DEF FromRetest, NewSignal, NoSignal, ShortHistory
<1>8. SignalWellFormed'
  <2>1. ~ScoredRetest(bar)'
    BY <1>1 DEF ScoredRetest, RetestAccepted, TouchedBreakout
  <2>2. history'[Len(history')] = bar
    BY FedKeeps
  <2> QED BY <1>1, <2>1, <2>2 DEF SignalWellFormed, NoSignal
<1> QED BY <1>4, <1>5, <1>6, <1>7, <1>8 DEF StrategyInv

\* A signal has its levels in order and comes from a setup within its window
\* and outside the cooldown (:224-273).
LEMMA EmitInv ==
  ASSUME StrategyInv, NEW bar \in ValidBars, Fed(bar), state # "IDLE",
         ~(Len(history') < LOOKBACK_BARS + 1),
         ~((bars_processed + 1) - breakout_bar_index > MAX_RETEST_BARS),
         ~(BarRange(bar) <= 0), RetestAccepted(bar),
         EmitSignal(bar, bars_processed + 1)
  PROVE  StrategyInv' /\ FromRetest
<1> DEFINE n == bars_processed + 1
<1>1. /\ state' = "IDLE" /\ breakout_level' = 0 /\ breakout_bar_index' = 0
      /\ signal' = SignalFor(bar) /\ last_signal_bar' = n
  BY DEF EmitSignal
<1>2. /\ bars_processed' = n /\ history' \in Seq(ValidBars) /\ bar \in ValidBars
      /\ Len(history') <= HISTORY_CAP /\ Len(history') \in Nat
      /\ history'[Len(history')] = bar
  BY FedKeeps
<1>3. BarRange(bar) > 0
  BY <1>2 DEF BarRange, ValidBars, Price
<1>4. /\ calculate_score(bar) \in Nat /\ calculate_score(bar) >= 13
  BY <1>2, <1>3, ScoreBounds
<1>5. /\ SignalFor(bar).valid = TRUE
      /\ SignalFor(bar).setup_score = calculate_score(bar)
  BY DEF SignalFor
<1>6. /\ SignalFor(bar).stop_loss < SignalFor(bar).entry_price
      /\ SignalFor(bar).entry_price < SignalFor(bar).target1
      /\ SignalFor(bar).target1 < SignalFor(bar).target2
      /\ SignalFor(bar).stop_loss < 16 * bar.low
      /\ SignalFor(bar).entry_price = 16 * bar.close
      /\ {SignalFor(bar).stop_loss, SignalFor(bar).entry_price,
          SignalFor(bar).target1, SignalFor(bar).target2} \subseteq Int
  BY <1>2, <1>3, SignalLevels
<1>7. SignalFor(bar) \in [valid : BOOLEAN, entry_price : Int, stop_loss : Int,
                          target1 : Int, target2 : Int, setup_score : Nat]
  <2>1. SignalFor(bar) =
          [valid |-> SignalFor(bar).valid, entry_price |-> SignalFor(bar).entry_price,
           stop_loss |-> SignalFor(bar).stop_loss, target1 |-> SignalFor(bar).target1,
           target2 |-> SignalFor(bar).target2, setup_score |-> SignalFor(bar).setup_score]
    BY DEF SignalFor
  <2> QED BY <1>4, <1>5, <1>6, <2>1
<1>8. /\ breakout_level \in Nat
      /\ n - breakout_bar_index \in 1 .. MAX_RETEST_BARS
      /\ n - last_signal_bar > SIGNAL_COOLDOWN_BARS
      /\ n \in Nat \ {0}
  <2>1. /\ breakout_bar_index \in last_signal_bar + SIGNAL_COOLDOWN_BARS .. bars_processed
    BY DEF StrategyInv, SetupConsistent
  <2>2. /\ bars_processed - breakout_bar_index \in 0 .. MAX_RETEST_BARS
        /\ n - breakout_bar_index <= MAX_RETEST_BARS
        /\ bars_processed - last_signal_bar >= SIGNAL_COOLDOWN_BARS
    BY <2>1, Registers DEF StrategyInv, SetupConsistent
  <2>3. /\ n - breakout_bar_index = (bars_processed - breakout_bar_index) + 1
        /\ n - last_signal_bar = (bars_processed - last_signal_bar) + 1
        /\ n \in Nat \ {0} /\ breakout_level \in Nat
    BY Registers
  <2>4. /\ SIGNAL_COOLDOWN_BARS \in Nat /\ MAX_RETEST_BARS \in Nat
        /\ bars_processed - breakout_bar_index \in Nat
        /\ bars_processed - last_signal_bar \in Int
    BY <2>2, Registers
  <2> HIDE DEF n
  <2> QED BY <2>2, <2>3, <2>4
<1>9. bar.close >= breakout_level /\ 1000 * bar.low <= 1001 * breakout_level
  BY DEF RetestAccepted, TouchedBreakout
<1>10. StrategyTypeOK'
  BY <1>1, <1>2, <1>7, <1>8 DEF StrategyTypeOK
<1>11. SetupConsistent' /\ LevelIsBrokenHigh' /\ ShortHistory'
  <2>1. LevelIsBrokenHigh'
    BY <1>1 DEF LevelIsBrokenHigh
  <2>2. ShortHistory'
    BY <1>2, Registers DEF ShortHistory
  <2>3. SetupConsistent'
    BY <1>1, <1>2, <1>5, <1>8 DEF SetupConsistent
  <2> QED BY <2>1, <2>2, <2>3
<1>12. SignalWellFormed'
  BY <1>1, <1>2, <1>4, <1>5, <1>6 DEF SignalWellFormed
<1>13. FromRetest
  <2>1. 16 * bar.close >= 16 * breakout_level
    BY <1>2, <1>8, <1>9 DEF ValidBars, Price
  <2>2. state \in {"BREAKOUT", "RETEST"}
    BY DEF StrategyInv, StrategyTypeOK
  <2> QED BY <1>1, <1>2, <1>6, <1>8, <1>9, <2>1, <2>2 DEF FromRetest
<1> QED BY <1>10, <1>11, <1>12, <1>13 DEF StrategyInv

\* Looking for a retest keeps the invariant (:135-274).
LEMMA RetestInv ==
  ASSUME StrategyInv, NEW bar \in ValidBars, Fed(bar), state # "IDLE",
         ~(Len(history') < LOOKBACK_BARS + 1),
         detect_retest(bar, bars_processed + 1)
  PROVE  StrategyInv' /\ FromRetest
<1> DEFINE n == bars_processed + 1
<1>1. ~(breakout_level <= 0)
  BY Registers DEF StrategyInv, SetupConsistent
<1>2. CASE n - breakout_bar_index > MAX_RETEST_BARS \/ InCooldown(n)
  <2>1. DropSetup
    BY <1>1, <1>2 DEF detect_retest
  <2> QED BY <2>1, IdleInv DEF DropSetup
<1>3. CASE ~(n - breakout_bar_index > MAX_RETEST_BARS) /\ ~InCooldown(n)
  <2>1. CASE BarRange(bar) <= 0
    <3>1. KeepSetup(state)
      BY <1>1, <1>3, <2>1 DEF detect_retest
    <3>2. ~ScoredRetest(bar)
      <4>1. BarRange(bar) \in Int
        BY DEF BarRange, ValidBars, Price
      <4> QED BY <2>1, <4>1 DEF ScoredRetest
    <3> QED BY <1>3, <3>1, <3>2, KeepInv
  <2>2. CASE ~(BarRange(bar) <= 0)
    <3>1. CASE /\ RetestAccepted(bar)
               /\ calculate_score(bar) >= MIN_SCORE
               /\ SetupRisk(bar) > 0
      <4>1. EmitSignal(bar, n)
        BY <1>1, <1>3, <2>2, <3>1 DEF detect_retest
      <4> QED BY <1>3, <2>2, <3>1, <4>1, EmitInv
    <3>2. CASE ~(/\ RetestAccepted(bar)
                 /\ calculate_score(bar) >= MIN_SCORE
                 /\ SetupRisk(bar) > 0)
      <4>1. KeepSetup("RETEST")
        BY <1>1, <1>3, <2>2, <3>2 DEF detect_retest
      <4>2. SetupRisk(bar) > 0
        <5>1. BarRange(bar) > 0
          BY <2>2 DEF BarRange, ValidBars, Price
        <5> QED BY <5>1, SignalLevels
      <4>3. ~ScoredRetest(bar)
        BY <3>2, <4>2 DEF ScoredRetest
      <4> QED BY <1>3, <4>1, <4>3, KeepInv
    <3> QED BY <3>1, <3>2
  <2> QED BY <2>1, <2>2
<1> QED BY <1>2, <1>3

\* Every bar keeps the invariant, and a signal it gives comes from a retest.
LEMMA NewBarInv ==
  ASSUME StrategyInv, NEW bar \in ValidBars, on_new_bar(bar)
  PROVE  StrategyInv' /\ FromRetest
<1>1. /\ Fed(bar)
      /\ IF Len(history') < LOOKBACK_BARS + 1 THEN WaitForHistory
         ELSE IF state = "IDLE" THEN detect_breakout(bar, bars_processed + 1, history')
         ELSE detect_retest(bar, bars_processed + 1)
  BY DEF on_new_bar, Fed
<1>2. CASE Len(history') < LOOKBACK_BARS + 1
  BY <1>1, <1>2, WaitInv
<1>3. CASE ~(Len(history') < LOOKBACK_BARS + 1) /\ state = "IDLE"
  BY <1>1, <1>3, BreakoutInv
<1>4. CASE ~(Len(history') < LOOKBACK_BARS + 1) /\ state # "IDLE"
  BY <1>1, <1>4, RetestInv
<1> QED BY <1>2, <1>3, <1>4

\* Every step keeps the invariant.
LEMMA StrategyStepInv == StrategyInv /\ [StrategyNext]_strategyVars => StrategyInv'
<1> SUFFICES ASSUME StrategyInv, [StrategyNext]_strategyVars PROVE StrategyInv'
  OBVIOUS
<1>1. ASSUME NEW bar \in Bars, on_new_bar(bar) PROVE StrategyInv'
  BY <1>1, NewBarInv, BarsAssumption
<1>2. CASE UNCHANGED strategyVars
  BY <1>2 DEF strategyVars, StrategyInv, StrategyTypeOK, SetupConsistent,
     SignalWellFormed, ScoredRetest, RetestAccepted, TouchedBreakout,
     LevelIsBrokenHigh, PositionOf, ShortHistory
<1> QED BY <1>1, <1>2 DEF StrategyNext

\* StrategyInv holds in every reachable state.
THEOREM StrategyInvariance == StrategySpec => []StrategyInv
  BY StrategyInitInv, StrategyStepInv, PTL DEF StrategySpec

-----------------------------------------------------------------------------
(* What the strategy promises *)

\* The state machine agrees with its registers, so the tests of the level and
\* of the cooldown in detect_retest() are dead (:137, :158).
THEOREM SetupsConsistent == StrategySpec => []SetupConsistent
<1>1. StrategyInv => SetupConsistent
  BY DEF StrategyInv
<1> QED BY <1>1, StrategyInvariance, PTL

\* The level of a setup is the high that was broken (:99-125).
THEOREM LevelsTrue == StrategySpec => []LevelIsBrokenHigh
<1>1. StrategyInv => LevelIsBrokenHigh
  BY DEF StrategyInv
<1> QED BY <1>1, StrategyInvariance, PTL

\* A signal has stop < entry < target1 < target2, and no bar that is accepted
\* and scores enough is refused for its risk (:224-257).
THEOREM SignalsWellFormed == StrategySpec => []SignalWellFormed
<1>1. StrategyInv => SignalWellFormed
  BY DEF StrategyInv
<1> QED BY <1>1, StrategyInvariance, PTL

\* A signal comes from a retest in the window, outside the cooldown (:141-204).
THEOREM SignalsDisciplined == StrategySpec => SignalsFromRetest
<1>1. StrategyInv /\ [StrategyNext]_strategyVars => [FromRetest]_strategyVars
  BY NewBarInv, BarsAssumption DEF StrategyNext
<1> QED BY <1>1, StrategyInvariance, PTL DEF StrategySpec, SignalsFromRetest

-----------------------------------------------------------------------------
(* Numbers *)

\* A number of a set that no other number of it exceeds is its maximum.
LEMMA MaxIs ==
  ASSUME NEW S \in SUBSET Int, NEW x \in S, \A y \in S : x >= y
  PROVE  Max(S) = x
<1>1. \E z \in S : \A y \in S : z >= y
  OBVIOUS
<1>2. Max(S) \in S /\ \A y \in S : Max(S) >= y
  BY <1>1 DEF Max
<1> DEFINE m == Max(S)
<1>3. m \in Int /\ x \in Int /\ m >= x /\ x >= m
  BY <1>2
<1> HIDE DEF m
<1> QED BY <1>3 DEF m

\* A number of a set that no other number of it falls below is its minimum.
LEMMA MinIs ==
  ASSUME NEW S \in SUBSET Int, NEW x \in S, \A y \in S : x <= y
  PROVE  Min(S) = x
<1>1. \E z \in S : \A y \in S : z <= y
  OBVIOUS
<1>2. Min(S) \in S /\ \A y \in S : Min(S) <= y
  BY <1>1 DEF Min
<1> DEFINE m == Min(S)
<1>3. m \in Int /\ x \in Int /\ m <= x /\ x <= m
  BY <1>2
<1> HIDE DEF m
<1> QED BY <1>3 DEF m

\* The larger and the smaller of two numbers.
LEMMA OfTwo ==
  ASSUME NEW a \in Int, NEW b \in Int
  PROVE  /\ Max({a, b}) = IF a >= b THEN a ELSE b
         /\ Min({a, b}) = IF a <= b THEN a ELSE b
<1>1. CASE a >= b
  <2>1. Max({a, b}) = a
    BY <1>1, MaxIs
  <2>2. Min({a, b}) = b
    BY <1>1, MinIs
  <2> QED BY <1>1, <2>1, <2>2
<1>2. CASE a < b
  <2>1. Max({a, b}) = b
    BY <1>2, MaxIs
  <2>2. Min({a, b}) = a
    BY <1>2, MinIs
  <2> QED BY <1>2, <2>1, <2>2
<1> QED BY <1>1, <1>2

\* The start of a bucket of n nanoseconds is a time, and a later time is not
\* in an earlier bucket.
LEMMA BucketsInOrder ==
  ASSUME NEW n \in Nat \ {0}, NEW a \in Nat, NEW b \in Nat, a <= b
  PROVE  /\ (a \div n) * n \in Nat
         /\ (a \div n) * n <= (b \div n) * n
<1> DEFINE q == a \div n
           r == b \div n
<1>1. q \in Nat /\ n * q <= a
  OBVIOUS
<1>2. r \in Nat /\ b < n * r + n
  OBVIOUS
<1> HIDE DEF q, r
<1>3. q <= r
  <2>1. SUFFICES ASSUME q >= r + 1 PROVE FALSE
    BY <1>1, <1>2
  <2>2. n * q >= n * (r + 1)
    BY <2>1, <1>1, <1>2
  <2>3. n * (r + 1) = n * r + n /\ n * q \in Int /\ n * r \in Int
    BY <1>1, <1>2
  <2> QED BY <1>1, <1>2, <2>2, <2>3
<1>4. r - q \in Nat /\ n * (r - q) \in Nat /\ r * n = q * n + n * (r - q)
  BY <1>1, <1>2, <1>3
<1>5. q * n \in Nat /\ r * n \in Nat
  BY <1>1, <1>2
<1> QED BY <1>4, <1>5 DEF q, r

\* A nonempty set of natural numbers has a least element.
LEMMA LeastOfNats ==
  ASSUME NEW S, S \subseteq Nat, S # {}
  PROVE  Min(S) \in S /\ \A y \in S : Min(S) <= y
<1>1. \A x, y \in Nat : x < y => <<x, y>> \in OpToRel(<, Nat)
  BY Zenon DEF OpToRel
<1>2. PICK x \in S : \A y \in S : ~(<<y, x>> \in OpToRel(<, Nat))
  BY NatLessThanWellFounded, WFMin, Zenon
<1>3. \A y \in S : ~(y < x)
  BY <1>1, <1>2, Zenon
<1>4. \A y \in S : x <= y
  BY <1>3
<1> QED BY <1>2, <1>4 DEF Min

\* Every set of numbers with 0 that is closed under successor holds them all.
LEMMA Induct ==
  ASSUME NEW P, 0 \in P, \A n \in Nat : n \in P => n + 1 \in P
  PROVE  Nat \subseteq P
<1> SUFFICES ASSUME Nat \ P # {} PROVE FALSE
  OBVIOUS
<1> DEFINE x == Min(Nat \ P)
<1>1. x \in Nat \ P /\ \A y \in Nat \ P : x <= y
  <2>1. Nat \ P \subseteq Nat
    OBVIOUS
  <2> QED BY <2>1, LeastOfNats
<1> HIDE DEF x
<1>2. x # 0 /\ x - 1 \in Nat /\ (x - 1) + 1 = x
  BY <1>1
<1>3. x - 1 \in P
  BY <1>1, <1>2
<1> QED BY <1>1, <1>2, <1>3, Zenon

-----------------------------------------------------------------------------
(* The sum that compute_atr() makes (prism_live_engine.cpp:196-230) *)

\* The element that the fold takes next.
Chosen(s) == CHOOSE x \in s : TRUE

\* g adds up f over each of the sets in D.
SumsUp(g, f, D) ==
  g = [s \in D |-> IF s = {} THEN 0 ELSE f[Chosen(s)] + g[s \ {Chosen(s)}]]

\* The subsets of S with at most n elements.
Small(S, n) == {s \in SUBSET S : Cardinality(s) <= n}

\* A set without one of its elements is smaller by one.
LEMMA OneLess ==
  ASSUME NEW S, IsFiniteSet(S), NEW s \in SUBSET S, s # {}
  PROVE  /\ Chosen(s) \in s
         /\ s \ {Chosen(s)} \in SUBSET S
         /\ Cardinality(s) \in Nat /\ Cardinality(s) # 0
         /\ Cardinality(s \ {Chosen(s)}) = Cardinality(s) - 1
<1>1. Chosen(s) \in s
  BY DEF Chosen
<1>2. IsFiniteSet(s)
  BY FS_Subset
<1>3. Cardinality(s \ {Chosen(s)}) = Cardinality(s) - 1
  BY <1>1, <1>2, FS_RemoveElement
<1>4. Cardinality(s) \in Nat /\ Cardinality(s) # 0
  BY <1>2, FS_CardinalityType, FS_EmptySet
<1> QED BY <1>1, <1>3, <1>4


\* The function that adds up exists, for as many elements as one likes.
LEMMA SumExists ==
  ASSUME NEW S, IsFiniteSet(S), NEW f, \A x \in S : f[x] \in Nat
  PROVE  \A n \in Nat : \E g : SumsUp(g, f, Small(S, n))
<1> DEFINE P == {n \in Nat : \E g : SumsUp(g, f, Small(S, n))}
<1>1. 0 \in P
  <2> DEFINE g == [s \in Small(S, 0) |-> 0]
  <2>1. \A s \in Small(S, 0) : s = {}
    <3> SUFFICES ASSUME NEW s \in Small(S, 0), s # {} PROVE FALSE
      OBVIOUS
    <3>1. Cardinality(s) \in Nat /\ Cardinality(s) # 0 /\ Cardinality(s) <= 0
      BY OneLess DEF Small
    <3> QED BY <3>1
  <2>2. SumsUp(g, f, Small(S, 0))
    BY <2>1 DEF SumsUp
  <2> QED BY <2>2
<1>2. ASSUME NEW n \in Nat, n \in P
      PROVE  n + 1 \in P
  <2>1. PICK g : SumsUp(g, f, Small(S, n))
    BY <1>2
  <2> DEFINE sum(s) == IF s = {} THEN 0 ELSE f[Chosen(s)] + g[s \ {Chosen(s)}]
             h == [s \in Small(S, n + 1) |-> sum(s)]
  <2>2. \A s \in Small(S, n) : g[s] = sum(s)
    BY <2>1 DEF SumsUp
  <2>3. \A s \in Small(S, n + 1) : s # {} => s \ {Chosen(s)} \in Small(S, n)
    <3> SUFFICES ASSUME NEW s \in Small(S, n + 1), s # {}
                 PROVE  s \ {Chosen(s)} \in Small(S, n)
      OBVIOUS
    <3>1. /\ s \ {Chosen(s)} \in SUBSET S
          /\ Cardinality(s \ {Chosen(s)}) = Cardinality(s) - 1
          /\ Cardinality(s) \in Nat /\ Cardinality(s) <= n + 1
      BY OneLess DEF Small
    <3> QED BY <3>1 DEF Small
  <2>4. Small(S, n) \subseteq Small(S, n + 1)
    <3> SUFFICES ASSUME NEW s \in Small(S, n)
                 PROVE  s \in Small(S, n + 1)
      OBVIOUS
    <3>1. s \in SUBSET S /\ IsFiniteSet(s) /\ Cardinality(s) <= n
      BY FS_Subset DEF Small
    <3>2. Cardinality(s) <= n + 1
      BY <3>1, FS_CardinalityType
    <3> QED BY <3>1, <3>2 DEF Small
  <2> HIDE DEF sum
  <2>5. \A s \in Small(S, n) : h[s] = g[s]
    BY <2>2, <2>4
  <2>6. \A s \in Small(S, n + 1) :
          h[s] = IF s = {} THEN 0 ELSE f[Chosen(s)] + h[s \ {Chosen(s)}]
    BY <2>3, <2>5 DEF sum
  <2>7. h = [s \in Small(S, n + 1) |-> h[s]]
    OBVIOUS
  <2> HIDE DEF h
  <2>8. SumsUp(h, f, Small(S, n + 1))
    BY <2>6, <2>7 DEF SumsUp
  <2> QED BY <2>8
<1>3. Nat \subseteq P
  <2> HIDE DEF P
  <2> QED BY <1>1, <1>2, Induct
<1> QED BY <1>3

\* A sum of natural numbers is a natural number (:217-226).
LEMMA SumIsNat ==
  ASSUME NEW f, IsFiniteSet(DOMAIN f), \A x \in DOMAIN f : f[x] \in Nat
  PROVE  FoldSeq(+, 0, f) \in Nat
<1> DEFINE S == DOMAIN f
           g == CHOOSE g : SumsUp(g, f, SUBSET S)
<1>1. FoldSeq(+, 0, f) = g[S]
  BY Zenon DEF FoldSeq, FoldFunction, FoldFunctionOnSet, MapThenFoldSet, SumsUp, Chosen
<1>2. SumsUp(g, f, SUBSET S)
  <2>1. Small(S, Cardinality(S)) = SUBSET S
    <3>1. ASSUME NEW s \in SUBSET S PROVE Cardinality(s) <= Cardinality(S)
      BY FS_Subset
    <3> QED BY <3>1 DEF Small
  <2>2. Cardinality(S) \in Nat
    BY FS_CardinalityType
  <2>3. \A n \in Nat : \E h : SumsUp(h, f, Small(S, n))
    <3> HIDE DEF S
    <3>1. IsFiniteSet(S) /\ \A x \in S : f[x] \in Nat
      BY DEF S
    <3> QED BY <3>1, SumExists
  <2> QED BY <2>1, <2>2, <2>3
<1> HIDE DEF g
<1> DEFINE P == {n \in Nat : \A s \in Small(S, n) : g[s] \in Nat}
<1>3. \A s \in SUBSET S :
        g[s] = IF s = {} THEN 0 ELSE f[Chosen(s)] + g[s \ {Chosen(s)}]
  BY <1>2 DEF SumsUp
<1>4. 0 \in P
  <2> SUFFICES ASSUME NEW s \in Small(S, 0) PROVE g[s] \in Nat
    OBVIOUS
  <2>1. s \in SUBSET S /\ Cardinality(s) <= 0
    BY DEF Small
  <2>2. s = {}
    <3>1. s # {} => Cardinality(s) \in Nat /\ Cardinality(s) # 0
      BY <2>1, OneLess
    <3> QED BY <2>1, <3>1
  <2>3. g[s] = 0
    BY <1>3, <2>1, <2>2, Zenon
  <2> QED BY <2>3
<1>5. ASSUME NEW n \in Nat, n \in P
      PROVE  n + 1 \in P
  <2> SUFFICES ASSUME NEW s \in Small(S, n + 1) PROVE g[s] \in Nat
    OBVIOUS
  <2>1. s \in SUBSET S /\ Cardinality(s) <= n + 1
    BY DEF Small
  <2>2. CASE s = {}
    BY <1>3, <2>2
  <2>3. CASE s # {}
    <3>1. /\ Chosen(s) \in S
          /\ s \ {Chosen(s)} \in SUBSET S
          /\ Cardinality(s \ {Chosen(s)}) <= n
      BY <2>1, <2>3, OneLess
    <3>2. g[s \ {Chosen(s)}] \in Nat
      BY <1>5, <3>1 DEF Small
    <3>3. g[s] = f[Chosen(s)] + g[s \ {Chosen(s)}]
      BY <1>3, <2>1, <2>3
    <3> QED BY <3>1, <3>2, <3>3
  <2> QED BY <2>2, <2>3
<1>6. Nat \subseteq P
  <2> HIDE DEF P
  <2> QED BY <1>4, <1>5, Induct
<1>7. S \in Small(S, Cardinality(S)) /\ Cardinality(S) \in Nat
  BY FS_CardinalityType DEF Small
<1> QED BY <1>1, <1>6, <1>7

-----------------------------------------------------------------------------
(* The operators of the bar builder *)

\* A bar of PrismLiveEngine that sums up trades with a price.
GoodBars ==
  {b \in PrismBars : /\ 0 < b.low
                     /\ b.low <= b.open /\ b.open <= b.high
                     /\ b.low <= b.close /\ b.close <= b.high}

\* A true range is not negative (prism_live_engine.cpp:217-226).
LEMMA TrueRangeIsNat ==
  ASSUME NEW b \in GoodBars, NEW prev \in GoodBars
  PROVE  TrueRange(b, prev) \in Nat
<1> DEFINE S == {b.high - b.low, Abs(b.high - prev.close), Abs(b.low - prev.close)}
<1>1. /\ b.high \in Nat /\ b.low \in Nat /\ prev.close \in Nat
      /\ b.low <= b.high
  BY DEF GoodBars, PrismBars
<1>2. S \subseteq Nat
  BY <1>1 DEF Abs
<1>3. IsFiniteSet(S)
  <2> DEFINE x == b.high - b.low
             y == Abs(b.high - prev.close)
             z == Abs(b.low - prev.close)
  <2> HIDE DEF x, y, z
  <2>1. IsFiniteSet(({x} \cup {y}) \cup {z})
    BY FS_Singleton, FS_AddElement
  <2>2. ({x} \cup {y}) \cup {z} = {x, y, z}
    OBVIOUS
  <2> QED BY <2>1, <2>2 DEF x, y, z
<1>4. S # {}
  OBVIOUS
<1>5. TrueRange(b, prev) = Max(S)
  BY DEF TrueRange
<1> HIDE DEF S
<1> QED BY <1>2, <1>3, <1>4, <1>5, MaxOfFinite

\* The ATR of a deque of bars is a number that is not negative (:196-230).
LEMMA AtrIsNat ==
  ASSUME NEW d \in Seq(GoodBars), d # <<>>
  PROVE  compute_atr(d) \in Nat
<1>1. Len(d) \in Nat \ {0} /\ d[Len(d)] \in GoodBars
  OBVIOUS
<1>2. CASE Len(d) < 2
  <2>1. compute_atr(d) = d[Len(d)].high - d[Len(d)].low
    BY <1>2 DEF compute_atr, Last
  <2> QED BY <1>1, <2>1 DEF GoodBars, PrismBars
<1>3. CASE Len(d) >= 2
  <2> DEFINE m == Len(d) - 1
             count == Min({ATR_PERIOD, m})
  <2>1. m \in Nat \ {0} /\ ATR_PERIOD \in Nat \ {0}
    BY <1>1, <1>3, EngineAssumption
  <2> HIDE DEF m
  <2>2. count = IF ATR_PERIOD <= m THEN ATR_PERIOD ELSE m
    <3>1. ATR_PERIOD \in Int /\ m \in Int
      BY <2>1
    <3> QED BY <3>1, OfTwo, Zenon
  <2> HIDE DEF count
  <2>3. count \in Nat \ {0} /\ count <= Len(d) - 1
    BY <2>1, <2>2 DEF m
  <2> DEFINE start == Len(d) - count
             f == [i \in 1 .. count |-> TrueRange(d[start + i], d[start + i - 1])]
             sum == FoldSeq(+, 0, f)
  <2>4. ~(Len(d) < 2)
    BY <1>1, <1>3
  <2>5. compute_atr(d) = sum \div count
    BY <2>4, Zenon DEF compute_atr, count, m
  <2> HIDE DEF f, sum
  <2>6. \A i \in 1 .. count : start + i \in 1 .. Len(d) /\ start + i - 1 \in 1 .. Len(d)
    BY <1>1, <2>3
  <2>7. \A i \in 1 .. count : TrueRange(d[start + i], d[start + i - 1]) \in Nat
    <3> SUFFICES ASSUME NEW i \in 1 .. count
                 PROVE  TrueRange(d[start + i], d[start + i - 1]) \in Nat
      OBVIOUS
    <3>1. d[start + i] \in GoodBars /\ d[start + i - 1] \in GoodBars
      BY <2>6
    <3> HIDE DEF start
    <3> QED BY <3>1, TrueRangeIsNat, Zenon
  <2>8. DOMAIN f = 1 .. count /\ \A i \in 1 .. count : f[i] \in Nat
    BY <2>7 DEF f
  <2>9. IsFiniteSet(1 .. count)
    BY <2>3, FS_Interval
  <2>10. sum \in Nat
    <3>1. IsFiniteSet(DOMAIN f) /\ \A i \in DOMAIN f : f[i] \in Nat
      BY <2>8, <2>9
    <3> QED BY <3>1, SumIsNat, Zenon DEF sum
  <2>11. sum \div count \in Nat
    BY <2>3, <2>10
  <2> QED BY <2>5, <2>11
<1> QED BY <1>1, <1>2, <1>3

\* The deque d, of elements of S, after e was pushed.
Shifted(h, d, e, S, cap) ==
  /\ h \in Seq(S) /\ Len(h) \in Nat \ {0} /\ Len(h) <= cap
  /\ h[Len(h)] = e
  /\ \A i \in 1 .. Len(h) - 1 :
       /\ Len(d) - (i - 1) \in 1 .. Len(d)
       /\ h[Len(h) - i] = d[Len(d) - (i - 1)]

\* A capped deque stays within its cap and ends with the element just pushed,
\* and what it held is there, one place further from the end, unless it was
\* dropped (prism_live_engine.cpp:142-146, prism_strategy.cpp:51-55).
LEMMA PushedToTheEnd ==
  ASSUME NEW S, NEW d \in Seq(S), NEW cap \in Nat \ {0}, Len(d) <= cap, NEW e \in S
  PROVE  Shifted(PushCapped(d, e, cap), d, e, S, cap)
<1> DEFINE a == Append(d, e)
           h == PushCapped(d, e, cap)
<1>1. /\ a \in Seq(S) /\ Len(a) = Len(d) + 1 /\ Len(d) \in Nat
      /\ a[Len(d) + 1] = e
      /\ \A i \in 1 .. Len(d) : a[i] = d[i]
  BY AppendProperties
<1> HIDE DEF a
<1>2. CASE Len(d) = cap
  <2>1. h = Tail(a)
    BY <1>1, <1>2 DEF PushCapped, a
  <2>2. /\ Tail(a) \in Seq(S) /\ Len(Tail(a)) = Len(a) - 1
        /\ \A i \in 1 .. Len(Tail(a)) : Tail(a)[i] = a[i + 1]
    BY <1>1, HeadTailProperties
  <2>3. /\ h \in Seq(S) /\ Len(h) = Len(d) /\ \A i \in 1 .. Len(h) : h[i] = a[i + 1]
    BY <1>1, <2>1, <2>2
  <2> HIDE DEF h
  <2>4. \A i \in 1 .. Len(h) - 1 :
          /\ Len(h) - i \in 1 .. Len(h)
          /\ (Len(h) - i) + 1 = Len(d) - (i - 1)
          /\ Len(d) - (i - 1) \in 1 .. Len(d)
    BY <1>1, <2>3
  <2>5. \A i \in 1 .. Len(h) - 1 : h[Len(h) - i] = d[Len(d) - (i - 1)]
    BY <1>1, <2>3, <2>4
  <2> QED BY <1>1, <1>2, <2>3, <2>4, <2>5 DEF h, Shifted
<1>3. CASE Len(d) < cap
  <2>1. h = a
    BY <1>1, <1>3 DEF PushCapped, a
  <2> HIDE DEF h
  <2>2. \A i \in 1 .. Len(h) - 1 :
          /\ Len(h) - i = Len(d) - (i - 1)
          /\ Len(d) - (i - 1) \in 1 .. Len(d)
    BY <1>1, <2>1
  <2> QED BY <1>1, <1>3, <2>1, <2>2 DEF h, Shifted
<1> QED BY <1>1, <1>2, <1>3

\* What close_current_bar() hands to the strategy is a bar that the strategy
\* assumes, and the bar it keeps (:141-167).
LEMMA ClosedBar ==
  ASSUME NEW d \in Seq(GoodBars), d # <<>>
  PROVE  LET closed == [d EXCEPT ![Len(d)].atr_14 = compute_atr(d)] IN
         /\ closed \in Seq(GoodBars) /\ Len(closed) = Len(d)
         /\ \A i \in 1 .. Len(d) - 1 : closed[i] = d[i]
         /\ BarForStrategy(closed) = to_strategy_bar(closed[Len(d)])
         /\ BarForStrategy(closed) \in ValidBars
<1> DEFINE atr == compute_atr(d)
           n == Len(d)
           b == [d[n] EXCEPT !.atr_14 = atr]
           closed == [d EXCEPT ![n].atr_14 = atr]
<1>1. atr \in Nat
  BY AtrIsNat
<1> HIDE DEF atr
<1>2. n \in Nat \ {0} /\ n \in 1 .. Len(d) /\ d[n] \in GoodBars
  OBVIOUS
<1>3. b \in GoodBars
  BY <1>1, <1>2 DEF GoodBars, PrismBars
<1>4. closed = [d EXCEPT ![n] = b]
  OBVIOUS
<1>5. /\ closed \in Seq(GoodBars) /\ Len(closed) = n /\ closed[n] = b
      /\ \A i \in 1 .. n - 1 : closed[i] = d[i]
  BY <1>2, <1>3, <1>4
<1> HIDE DEF b, closed
<1>6. BarForStrategy(closed) = to_strategy_bar(closed[n])
  BY <1>5 DEF BarForStrategy, Last
<1>7. to_strategy_bar(b) \in ValidBars
  <2>1. /\ b.open \in Nat /\ b.high \in Nat /\ b.low \in Nat /\ b.close \in Nat
        /\ b.atr_14 \in Nat /\ 0 < b.low
        /\ b.low <= b.open /\ b.open <= b.high /\ b.low <= b.close /\ b.close <= b.high
    BY <1>3 DEF GoodBars, PrismBars
  <2>2. {b.open, b.high, b.low, b.close} \subseteq Price
    BY <2>1 DEF Price
  <2> DEFINE s == to_strategy_bar(b)
  <2>3. s \in [open : Price, high : Price, low : Price, close : Price, atr_14 : Nat]
    BY <2>1, <2>2 DEF to_strategy_bar
  <2>4. /\ s.open = b.open /\ s.high = b.high /\ s.low = b.low /\ s.close = b.close
    BY DEF to_strategy_bar
  <2> HIDE DEF s
  <2>5. s \in ValidBars
    BY <2>1, <2>3, <2>4 DEF ValidBars
  <2> QED BY <2>5 DEF s
<1> QED BY <1>5, <1>6, <1>7 DEF closed, atr

-----------------------------------------------------------------------------
(* The current bar *)

\* b is the open, high, low and close of the prices ps.
Sums(b, ps) ==
  /\ b \in PrismBars
  /\ ps \in Seq(Price) /\ ps # <<>>
  /\ b.open = ps[1] /\ b.close = ps[Len(ps)]
  /\ \E i \in 1 .. Len(ps) : b.high = ps[i]
  /\ \E i \in 1 .. Len(ps) : b.low = ps[i]
  /\ \A i \in 1 .. Len(ps) : b.low <= ps[i] /\ ps[i] <= b.high

\* start_new_bar() makes a bar of one trade (:101-116).
LEMMA OneTrade ==
  ASSUME NEW price \in Price, NEW ts \in Nat
  PROVE  Sums([ts |-> ts, open |-> price, high |-> price, low |-> price,
               close |-> price, atr_14 |-> 0], <<price>>)
<1> DEFINE ps == <<price>>
<1>1. ps \in Seq(Price) /\ ps # <<>> /\ Len(ps) = 1 /\ ps[1] = price
  OBVIOUS
<1>2. price \in Nat
  BY DEF Price
<1> HIDE DEF ps
<1>3. Sums([ts |-> ts, open |-> price, high |-> price, low |-> price,
            close |-> price, atr_14 |-> 0], ps)
  BY <1>1, <1>2 DEF Sums, PrismBars
<1> QED BY <1>3 DEF ps

\* update_current_bar() adds a trade to the bar (:118-125).
LEMMA OneMoreTrade ==
  ASSUME NEW b, NEW ps, Sums(b, ps), NEW price \in Price
  PROVE  Sums([b EXCEPT !.high = Max({@, price}), !.low = Min({@, price}),
                        !.close = price],
              Append(ps, price))
<1> DEFINE high == Max({b.high, price})
           low == Min({b.low, price})
           c == [b EXCEPT !.high = high, !.low = low, !.close = price]
           qs == Append(ps, price)
           n == Len(ps)
<1>1. /\ b \in PrismBars /\ ps \in Seq(Price) /\ n \in Nat \ {0} /\ price \in Nat
      /\ \A i \in 1 .. n : ps[i] \in Nat
  BY DEF Sums, Price
<1>2. /\ high = IF b.high >= price THEN b.high ELSE price
      /\ low = IF b.low <= price THEN b.low ELSE price
      /\ b.high \in Nat /\ b.low \in Nat
  <2>1. b.high \in Int /\ b.low \in Int /\ price \in Int
    BY <1>1 DEF PrismBars
  <2> QED BY <1>1, <2>1, OfTwo DEF PrismBars
<1> HIDE DEF high, low
<1>3. c \in PrismBars /\ c.open = b.open /\ c.high = high /\ c.low = low /\ c.close = price
  BY <1>1, <1>2 DEF PrismBars
<1>4. /\ qs \in Seq(Price) /\ Len(qs) = n + 1 /\ qs[n + 1] = price
      /\ \A i \in 1 .. n : qs[i] = ps[i]
  BY <1>1, AppendProperties
<1> HIDE DEF c, qs
<1>5. qs # <<>> /\ c.open = qs[1] /\ c.close = qs[Len(qs)]
  <2>1. 1 \in 1 .. n /\ n + 1 # 0
    BY <1>1
  <2> QED BY <1>3, <1>4, <2>1 DEF Sums
<1>6. \E i \in 1 .. Len(qs) : c.high = qs[i]
  <2>1. CASE b.high >= price
    <3>1. PICK i \in 1 .. n : b.high = ps[i]
      BY DEF Sums
    <3>2. i \in 1 .. Len(qs) /\ qs[i] = c.high
      BY <1>1, <1>2, <1>3, <1>4, <2>1, <3>1
    <3> QED BY <3>2
  <2>2. CASE ~(b.high >= price)
    <3>1. n + 1 \in 1 .. Len(qs) /\ qs[n + 1] = c.high
      BY <1>1, <1>2, <1>3, <1>4, <2>2
    <3> QED BY <3>1
  <2> QED BY <2>1, <2>2
<1>7. \E i \in 1 .. Len(qs) : c.low = qs[i]
  <2>1. CASE b.low <= price
    <3>1. PICK i \in 1 .. n : b.low = ps[i]
      BY DEF Sums
    <3>2. i \in 1 .. Len(qs) /\ qs[i] = c.low
      BY <1>1, <1>2, <1>3, <1>4, <2>1, <3>1
    <3> QED BY <3>2
  <2>2. CASE ~(b.low <= price)
    <3>1. n + 1 \in 1 .. Len(qs) /\ qs[n + 1] = c.low
      BY <1>1, <1>2, <1>3, <1>4, <2>2
    <3> QED BY <3>1
  <2> QED BY <2>1, <2>2
<1>8. ASSUME NEW i \in 1 .. Len(qs)
      PROVE  c.low <= qs[i] /\ qs[i] <= c.high
  <2>1. CASE i \in 1 .. n
    <3>1. qs[i] = ps[i] /\ ps[i] \in Nat /\ b.low <= ps[i] /\ ps[i] <= b.high
      BY <1>1, <1>4, <2>1 DEF Sums
    <3> QED BY <1>1, <1>2, <1>3, <3>1
  <2>2. CASE i = n + 1
    BY <1>1, <1>2, <1>3, <1>4, <2>2
  <2> QED BY <1>1, <1>4, <2>1, <2>2
<1>9. Sums(c, qs)
  BY <1>3, <1>4, <1>5, <1>6, <1>7, <1>8 DEF Sums
<1> QED BY <1>9 DEF c, qs, high, low

\* A bar that sums up trades is one that the strategy may be given.
LEMMA SumsAreGood ==
  ASSUME NEW b, NEW ps, Sums(b, ps)
  PROVE  b \in GoodBars
<1>1. 1 \in 1 .. Len(ps) /\ Len(ps) \in 1 .. Len(ps)
  BY DEF Sums
<1>2. \A i \in 1 .. Len(ps) : ps[i] \in Nat \ {0}
  BY DEF Sums, Price
<1> QED BY <1>1, <1>2 DEF Sums, GoodBars

\* The high and the low of the bar are those of its trades.
LEMMA SumsAreExtremes ==
  ASSUME NEW b, NEW ps, Sums(b, ps)
  PROVE  /\ b.open = Head(ps) /\ b.close = Last(ps)
         /\ b.high = Max(ToSet(ps)) /\ b.low = Min(ToSet(ps))
<1> DEFINE S == ToSet(ps)
<1>1. /\ ps \in Seq(Price) /\ ps # <<>>
      /\ S = {ps[i] : i \in 1 .. Len(ps)}
  BY DEF Sums, ToSet
<1> HIDE DEF S
<1>2. S \in SUBSET Int
  BY <1>1 DEF Price
<1>3. b.high \in S /\ b.low \in S
  BY <1>1 DEF Sums
<1>4. \A y \in S : b.high >= y
  BY <1>1, <1>2, <1>3 DEF Sums
<1>5. \A y \in S : b.low <= y
  BY <1>1, <1>2, <1>3 DEF Sums
<1>6. b.high = Max(S) /\ b.low = Min(S)
  BY <1>2, <1>3, <1>4, <1>5, MaxIs, MinIs
<1> QED BY <1>1, <1>6 DEF Sums, Last, S

-----------------------------------------------------------------------------
(* The inductive invariant of the bar builder *)

\* The current bar sums up the trades that fell into it.
BarInv ==
  /\ has_current_bar \in BOOLEAN /\ current_bar_start_ns \in Nat
  /\ has_current_bar => Sums(current_bar, bar_prices)

\* Both deques hold the newest closed bars, and last_signal_ is the verdict on
\* the one closed last.
DequesInv ==
  /\ bars \in Seq(GoodBars) /\ Len(bars) <= BAR_CAP
  /\ bars_processed > 0 => bars # <<>> /\ history # <<>>
  /\ bar_starts \in Seq(Nat) /\ bars_processed = Len(bar_starts)
  /\ \A i \in Nat : i < Len(bars) /\ i < Len(history) =>
       history[Len(history) - i] = to_strategy_bar(bars[Len(bars) - i])
  /\ last_signal = SignalAfter(signal)

\* As long as the feed is in order, the current bucket is the one of the newest
\* trade, and the closed ones lie before it.
OrderInv ==
  /\ newest_ts \in Nat /\ in_order \in BOOLEAN
  /\ ~has_current_bar => bar_starts = <<>>
  /\ in_order =>
       /\ has_current_bar => current_bar_start_ns = (newest_ts \div bar_ns) * bar_ns
       /\ \A i, j \in 1 .. Len(bar_starts) : i < j => bar_starts[i] < bar_starts[j]
       /\ \A i \in 1 .. Len(bar_starts) : bar_starts[i] < current_bar_start_ns

LiveInv == StrategyInv /\ BarInv /\ DequesInv /\ OrderInv

\* An engine without a trade satisfies the invariant (prism_live_engine.hpp:42-54).
LEMMA LiveInitInv == LiveInit => LiveInv
<1> SUFFICES ASSUME LiveInit PROVE LiveInv
  OBVIOUS
<1>1. StrategyInv
  BY StrategyInitInv DEF LiveInit
<1>2. BarInv
  BY DEF LiveInit, BarInv
<1>3. DequesInv
  BY EngineAssumption
     DEF LiveInit, StrategyInit, DequesInv, SignalAfter, NoSignal
<1>4. OrderInv
  BY DEF LiveInit, OrderInv
<1> QED BY <1>1, <1>2, <1>3, <1>4 DEF LiveInv

\* A call that changes nothing keeps the invariant.
LEMMA LiveStutter ==
  ASSUME LiveInv, UNCHANGED liveVars
  PROVE  LiveInv'
<1>1. StrategyInv'
  BY DEF liveVars, strategyVars, LiveInv, StrategyInv, StrategyTypeOK, SetupConsistent,
     SignalWellFormed, ScoredRetest, RetestAccepted, TouchedBreakout,
     LevelIsBrokenHigh, PositionOf, ShortHistory
<1>2. BarInv'
  BY DEF liveVars, engineVars, LiveInv, BarInv, Sums
<1>3. DequesInv'
  BY DEF liveVars, strategyVars, engineVars, LiveInv, DequesInv, SignalAfter
<1>4. OrderInv'
  BY DEF liveVars, engineVars, LiveInv, OrderInv
<1> QED BY <1>1, <1>2, <1>3, <1>4 DEF LiveInv

-----------------------------------------------------------------------------
(* The cases of on_trade() *)

\* A usable trade has a price, a time and a bucket (:23-36, :68-80).
LEMMA UsableTrade ==
  ASSUME NEW t \in Trades, Usable(t)
  PROVE  /\ t.price \in Price
         /\ normalize_timestamp_ns(t.exchange_ts_ns) \in Nat
         /\ normalize_timestamp_ns(t.exchange_ts_ns) \div NS_PER_SECOND \in Nat
         /\ bar_ns \in Nat \ {0}
         /\ BarStart(t) = (normalize_timestamp_ns(t.exchange_ts_ns) \div bar_ns) * bar_ns
<1> DEFINE ts == normalize_timestamp_ns(t.exchange_ts_ns)
<1>1. /\ bar_seconds \in Nat \ {0} /\ NS_PER_SECOND \in Nat \ {0}
      /\ NS_PER_MS \in Nat /\ NS_PER_US \in Nat /\ MS_LIMIT \in Nat /\ US_LIMIT \in Nat
      /\ t.price \in Nat /\ t.exchange_ts_ns \in Nat
  BY EngineAssumption
<1>2. ts \in Nat
  BY <1>1 DEF normalize_timestamp_ns
<1>3. bar_ns \in Nat \ {0}
  BY <1>1 DEF bar_ns
<1>4. t.price \in Price
  BY <1>1 DEF Usable, Price
<1>5. BarStart(t) = (ts \div bar_ns) * bar_ns
  BY DEF BarStart
<1> HIDE DEF ts
<1>6. ts \div NS_PER_SECOND \in Nat
  BY <1>1, <1>2
<1> QED BY <1>2, <1>3, <1>4, <1>5, <1>6 DEF ts

\* What is known of the order of the feed after a trade was looked at.
LEMMA WatchKeeps ==
  ASSUME LiveInv, NEW t \in Trades, Usable(t), Watch(t)
  PROVE  /\ newest_ts' \in Nat /\ in_order' \in BOOLEAN
         /\ in_order' =>
              /\ in_order
              /\ newest_ts' = normalize_timestamp_ns(t.exchange_ts_ns)
              /\ newest_ts <= newest_ts'
<1> DEFINE ts == normalize_timestamp_ns(t.exchange_ts_ns)
<1>1. ts \in Nat /\ newest_ts \in Nat /\ in_order \in BOOLEAN
  BY UsableTrade DEF LiveInv, OrderInv
<1>2. newest_ts' = Max({newest_ts, ts}) /\ in_order' = (in_order /\ ts >= newest_ts)
  BY DEF Watch
<1> HIDE DEF ts
<1>3. newest_ts' = IF newest_ts >= ts THEN newest_ts ELSE ts
  BY <1>1, <1>2, OfTwo
<1>4. in_order' \in BOOLEAN /\ (in_order' => in_order /\ ts >= newest_ts)
  BY <1>1, <1>2, Zenon
<1>5. newest_ts' \in Nat /\ (ts >= newest_ts => newest_ts' = ts /\ newest_ts <= newest_ts')
  BY <1>1, <1>3
<1>6. in_order' => in_order /\ newest_ts' = ts /\ newest_ts <= newest_ts'
  BY <1>4, <1>5, Zenon
<1> QED BY <1>4, <1>5, <1>6, Zenon DEF ts

\* A trade of the bucket of the current bar changes that bar alone (:118-125).
LEMMA UpdateKeeps ==
  ASSUME LiveInv, NEW t \in Trades, Usable(t), SameBar(t), Watch(t),
         update_current_bar(t), KeepBars
  PROVE  LiveInv'
<1>1. UNCHANGED <<strategyVars, bars, last_signal, bar_starts,
                  has_current_bar, current_bar_start_ns>>
  BY DEF KeepBars, update_current_bar
<1>2. StrategyInv'
  BY <1>1 DEF strategyVars, LiveInv, StrategyInv, StrategyTypeOK, SetupConsistent,
     SignalWellFormed, ScoredRetest, RetestAccepted, TouchedBreakout,
     LevelIsBrokenHigh, PositionOf, ShortHistory
<1>3. BarInv'
  <2>1. Sums(current_bar, bar_prices)
    BY DEF LiveInv, BarInv, SameBar
  <2>2. Sums(current_bar, bar_prices)'
    <3>1. Sums([current_bar EXCEPT !.high = Max({@, t.price}), !.low = Min({@, t.price}),
                                   !.close = t.price],
               Append(bar_prices, t.price))
      BY <2>1, UsableTrade, OneMoreTrade
    <3>2. Sums(current_bar', bar_prices')
      BY <3>1 DEF update_current_bar
    <3> QED BY <3>2 DEF Sums
  <2> QED BY <1>1, <2>2 DEF LiveInv, BarInv
<1>4. DequesInv'
  BY <1>1 DEF strategyVars, LiveInv, DequesInv, SignalAfter
<1>5. OrderInv'
  <2>1. in_order' => current_bar_start_ns = (newest_ts' \div bar_ns) * bar_ns
    BY UsableTrade, WatchKeeps DEF SameBar
  <2>2. newest_ts' \in Nat /\ in_order' \in BOOLEAN /\ (in_order' => in_order)
    BY WatchKeeps
  <2> QED BY <1>1, <2>1, <2>2 DEF LiveInv, OrderInv
<1> QED BY <1>2, <1>3, <1>4, <1>5 DEF LiveInv

\* A trade that starts a bar is all there is in it (:101-116).
LEMMA StartKeeps ==
  ASSUME LiveInv, NEW t \in Trades, Usable(t), start_new_bar(t)
  PROVE  BarInv' /\ bar_prices' = <<t.price>> /\ has_current_bar' = TRUE
<1>1. /\ has_current_bar' = TRUE /\ current_bar_start_ns' = BarStart(t)
      /\ bar_prices' = <<t.price>>
  BY DEF start_new_bar
<1>2. BarStart(t) \in Nat
  BY UsableTrade, BucketsInOrder
<1>3. Sums(current_bar', bar_prices')
  BY UsableTrade, OneTrade DEF start_new_bar
<1>4. Sums(current_bar, bar_prices)'
  BY <1>3 DEF Sums
<1> QED BY <1>1, <1>2, <1>4 DEF BarInv

\* The first trade starts the first bar (:83-86).
LEMMA FirstKeeps ==
  ASSUME LiveInv, NEW t \in Trades, Usable(t), ~has_current_bar, Watch(t),
         start_new_bar(t), KeepBars
  PROVE  LiveInv'
<1>1. UNCHANGED <<strategyVars, bars, last_signal, bar_starts>>
  BY DEF KeepBars
<1>2. StrategyInv'
  BY <1>1 DEF strategyVars, LiveInv, StrategyInv, StrategyTypeOK, SetupConsistent,
     SignalWellFormed, ScoredRetest, RetestAccepted, TouchedBreakout,
     LevelIsBrokenHigh, PositionOf, ShortHistory
<1>3. BarInv' /\ has_current_bar' = TRUE
  BY StartKeeps
<1>4. DequesInv'
  BY <1>1 DEF strategyVars, LiveInv, DequesInv, SignalAfter
<1>5. OrderInv'
  <2>1. bar_starts' = <<>>
    BY <1>1 DEF LiveInv, OrderInv
  <2>2. in_order' => current_bar_start_ns' = (newest_ts' \div bar_ns) * bar_ns
    BY UsableTrade, WatchKeeps DEF start_new_bar
  <2>3. newest_ts' \in Nat /\ in_order' \in BOOLEAN
    BY WatchKeeps
  <2> QED BY <1>3, <2>1, <2>2, <2>3 DEF OrderInv
<1> QED BY <1>2, <1>3, <1>4, <1>5 DEF LiveInv

\* What closing a bar does to the deques: the strategy is fed the bar that is
\* kept, so both end with it and agree on those before it (:141-173).
LEMMA DequesFed ==
  ASSUME LiveInv, has_current_bar, close_current_bar
  PROVE  /\ \E bar \in ValidBars : on_new_bar(bar)
         /\ bars' # <<>> /\ bars_processed' = bars_processed + 1
         /\ bar_starts' = Append(bar_starts, current_bar_start_ns)
         /\ DequesInv'
<1> DEFINE d == PushCapped(bars, current_bar, BAR_CAP)
           closed == [d EXCEPT ![Len(d)].atr_14 = compute_atr(d)]
           bar == BarForStrategy(closed)
<1>1. /\ bars' = closed /\ on_new_bar(bar)
      /\ last_signal' = SignalAfter(signal')
      /\ bar_starts' = Append(bar_starts, current_bar_start_ns)
  BY Zenon DEF close_current_bar
<1>2. /\ current_bar \in GoodBars /\ bars \in Seq(GoodBars) /\ Len(bars) <= BAR_CAP
      /\ BAR_CAP \in Nat \ {0} /\ Len(bars) \in Nat
  BY EngineAssumption, SumsAreGood DEF LiveInv, BarInv, DequesInv
<1>3. /\ d \in Seq(GoodBars) /\ Len(d) \in Nat \ {0} /\ Len(d) <= BAR_CAP
      /\ \A i \in 1 .. Len(d) - 1 :
           /\ Len(bars) - (i - 1) \in 1 .. Len(bars)
           /\ d[Len(d) - i] = bars[Len(bars) - (i - 1)]
  <2>1. Shifted(d, bars, current_bar, GoodBars, BAR_CAP)
    BY <1>2, PushedToTheEnd, Zenon
  <2> HIDE DEF d
  <2> QED BY <2>1 DEF Shifted
<1> HIDE DEF d
<1>4. d # <<>>
  BY <1>3
<1>5. /\ closed \in Seq(GoodBars) /\ Len(closed) = Len(d)
      /\ \A i \in 1 .. Len(d) - 1 : closed[i] = d[i]
      /\ bar = to_strategy_bar(closed[Len(d)])
      /\ bar \in ValidBars
  BY <1>3, <1>4, ClosedBar
<1> HIDE DEF closed, bar
<1>6. Fed(bar)
  BY <1>1 DEF on_new_bar, Fed
<1>7. /\ bars_processed' = bars_processed + 1 /\ bars_processed \in Nat
      /\ Len(history) \in Nat
      /\ history' \in Seq(ValidBars) /\ Len(history') \in Nat \ {0}
      /\ history'[Len(history')] = bar
      /\ \A i \in 1 .. Len(history') - 1 :
           /\ Len(history) - (i - 1) \in 1 .. Len(history)
           /\ history'[Len(history') - i] = history[Len(history) - (i - 1)]
  <2>1. /\ history \in Seq(ValidBars) /\ Len(history) <= HISTORY_CAP
        /\ HISTORY_CAP \in Nat \ {0} /\ bars_processed \in Nat
    BY SettingsAssumption DEF LiveInv, StrategyInv, StrategyTypeOK
  <2>2. Shifted(history', history, bar, ValidBars, HISTORY_CAP)
    <3>1. Shifted(PushCapped(history, bar, HISTORY_CAP), history, bar, ValidBars, HISTORY_CAP)
      BY <1>5, <2>1, PushedToTheEnd, Zenon
    <3> QED BY <1>6, <3>1, Zenon DEF Fed
  <2>3. bars_processed' = bars_processed + 1
    BY <1>6 DEF Fed
  <2> QED BY <2>1, <2>2, <2>3 DEF Shifted
<1>8. ASSUME NEW i \in Nat, i < Len(bars'), i < Len(history')
      PROVE  history'[Len(history') - i] = to_strategy_bar(bars'[Len(bars') - i])
  <2>1. CASE i = 0
    <3>1. Len(history') - i = Len(history') /\ Len(bars') - i = Len(d)
      BY <1>1, <1>3, <1>5, <1>7, <2>1
    <3> QED BY <1>1, <1>5, <1>7, <3>1
  <2>2. CASE i # 0
    <3> DEFINE k == i - 1
    <3>1. /\ i \in 1 .. Len(d) - 1 /\ i \in 1 .. Len(history') - 1
          /\ Len(bars') - i \in 1 .. Len(d) - 1
          /\ Len(bars') - i = Len(d) - i
      BY <1>1, <1>3, <1>5, <1>7, <1>8, <2>2
    <3>2. bars'[Len(bars') - i] = bars[Len(bars) - k]
      BY <1>1, <1>3, <1>5, <3>1
    <3>3. history'[Len(history') - i] = history[Len(history) - k]
      BY <1>7, <3>1
    <3>4. k \in Nat /\ Len(bars) - k \in 1 .. Len(bars) /\ Len(history) - k \in 1 .. Len(history)
      BY <1>3, <1>7, <3>1
    <3>5. k \in Nat /\ k < Len(bars) /\ k < Len(history)
      BY <1>2, <1>7, <3>4
    <3> HIDE DEF k
    <3>6. history[Len(history) - k] = to_strategy_bar(bars[Len(bars) - k])
      BY <3>5 DEF LiveInv, DequesInv
    <3> QED BY <3>2, <3>3, <3>6
  <2> QED BY <2>1, <2>2
<1>9. bars' # <<>> /\ history' # <<>>
  BY <1>1, <1>3, <1>5, <1>7
<1>10. bar_starts' \in Seq(Nat) /\ bars_processed' = Len(bar_starts')
  <2>1. /\ bar_starts \in Seq(Nat) /\ bars_processed = Len(bar_starts)
        /\ current_bar_start_ns \in Nat
    BY DEF LiveInv, DequesInv, BarInv
  <2> QED BY <1>1, <1>7, <2>1
<1>11. bars' \in Seq(GoodBars) /\ Len(bars') <= BAR_CAP
  BY <1>1, <1>3, <1>5
<1>12. SignalAfter(signal)' = SignalAfter(signal')
  BY DEF SignalAfter
<1>13. DequesInv'
  BY <1>1, <1>8, <1>9, <1>10, <1>11, <1>12 DEF DequesInv, to_strategy_bar
<1> QED BY <1>1, <1>5, <1>7, <1>9, <1>13

\* A trade of another bucket closes the bar and starts the next (:88-93).  If
\* it is not older than the ones before it, its bucket is a later one.
LEMMA CloseKeeps ==
  ASSUME LiveInv, NEW t \in Trades, Usable(t), has_current_bar, ~SameBar(t), Watch(t),
         start_new_bar(t), close_current_bar
  PROVE  LiveInv' /\ FromRetest
<1>1. PICK bar \in ValidBars : on_new_bar(bar)
  BY DequesFed
<1>2. StrategyInv' /\ FromRetest
  BY <1>1, NewBarInv DEF LiveInv
<1>3. DequesInv' /\ bar_starts' = Append(bar_starts, current_bar_start_ns)
  BY DequesFed
<1>4. BarInv' /\ has_current_bar' = TRUE
  BY StartKeeps
<1>5. OrderInv'
  <2> DEFINE start == current_bar_start_ns
             n == Len(bar_starts)
  <2>1. /\ newest_ts' \in Nat /\ in_order' \in BOOLEAN
        /\ in_order' => in_order /\ newest_ts <= newest_ts'
        /\ in_order' => current_bar_start_ns' = (newest_ts' \div bar_ns) * bar_ns
    BY UsableTrade, WatchKeeps DEF start_new_bar
  <2>2. /\ bar_starts \in Seq(Nat) /\ start \in Nat /\ n \in Nat /\ newest_ts \in Nat
        /\ bar_ns \in Nat \ {0}
    BY UsableTrade DEF LiveInv, DequesInv, BarInv, OrderInv
  <2>3. current_bar_start_ns' \in Nat /\ current_bar_start_ns' # start
    BY <1>4 DEF BarInv, start_new_bar, SameBar
  <2>4. in_order' => start < current_bar_start_ns'
    <3>1. SUFFICES ASSUME in_order' PROVE start < current_bar_start_ns'
      OBVIOUS
    <3>2. /\ start = (newest_ts \div bar_ns) * bar_ns
          /\ current_bar_start_ns' = (newest_ts' \div bar_ns) * bar_ns
      BY <2>1, <3>1 DEF LiveInv, OrderInv
    <3>3. start <= current_bar_start_ns'
      BY <2>1, <2>2, <3>1, <3>2, BucketsInOrder
    <3> QED BY <2>2, <2>3, <3>3
  <2>5. /\ Len(bar_starts') = n + 1
        /\ bar_starts'[n + 1] = start
        /\ \A i \in 1 .. n : bar_starts'[i] = bar_starts[i]
    BY <1>3, <2>2, AppendProperties
  <2>6. in_order => /\ \A i, j \in 1 .. n : i < j => bar_starts[i] < bar_starts[j]
                    /\ \A i \in 1 .. n : bar_starts[i] < start
    BY DEF LiveInv, OrderInv
  <2>7. \A i \in 1 .. n : bar_starts[i] \in Nat
    BY <2>2
  <2> HIDE DEF start, n
  <2>8. ASSUME in_order', NEW i \in 1 .. n + 1
        PROVE  bar_starts'[i] < current_bar_start_ns'
    <3>1. CASE i \in 1 .. n
      BY <2>1, <2>2, <2>3, <2>4, <2>5, <2>6, <2>7, <2>8, <3>1
    <3>2. CASE i = n + 1
      BY <2>4, <2>5, <2>8, <3>2
    <3> QED BY <2>2, <3>1, <3>2
  <2>9. ASSUME in_order', NEW i \in 1 .. n + 1, NEW j \in 1 .. n + 1, i < j
        PROVE  bar_starts'[i] < bar_starts'[j]
    <3>1. i \in 1 .. n
      BY <2>2, <2>9
    <3>2. CASE j \in 1 .. n
      BY <2>1, <2>5, <2>6, <2>9, <3>1, <3>2
    <3>3. CASE j = n + 1
      BY <2>1, <2>5, <2>6, <2>9, <3>1, <3>3
    <3> QED BY <2>2, <3>2, <3>3
  <2> QED BY <1>4, <2>1, <2>5, <2>8, <2>9 DEF OrderInv
<1> QED BY <1>2, <1>3, <1>4, <1>5 DEF LiveInv

\* Every call of on_trade() keeps the invariant.
LEMMA OnTradeInv ==
  ASSUME LiveInv, NEW t \in Trades, on_trade(t)
  PROVE  LiveInv'
<1>1. CASE ~Usable(t)
  BY <1>1, LiveStutter DEF on_trade
<1>2. CASE Usable(t) /\ SameBar(t)
  BY <1>2, UpdateKeeps DEF on_trade
<1>3. CASE Usable(t) /\ ~SameBar(t) /\ ~has_current_bar
  BY <1>3, FirstKeeps DEF on_trade
<1>4. CASE Usable(t) /\ ~SameBar(t) /\ has_current_bar
  BY <1>4, CloseKeeps DEF on_trade
<1> QED BY <1>1, <1>2, <1>3, <1>4

\* Every step keeps the invariant.
LEMMA LiveStepInv == LiveInv /\ [LiveNext]_liveVars => LiveInv'
  BY OnTradeInv, LiveStutter DEF LiveNext

\* LiveInv holds in every reachable state.
THEOREM LiveInvariance == LiveSpec => []LiveInv
  BY LiveInitInv, LiveStepInv, PTL DEF LiveSpec

-----------------------------------------------------------------------------
(* What the bar builder promises *)

\* The strategy decides on the bars that were traded: the current bar sums up
\* its trades, every closed bar was processed once, and both deques agree on it
\* from the newest one back (prism_live_engine.cpp:101-167).
THEOREM StrategySees == LiveSpec => []StrategySeesBars
<1>1. LiveInv => StrategySeesBars
  <2> SUFFICES ASSUME LiveInv PROVE StrategySeesBars
    OBVIOUS
  <2>1. BarIsItsTrades
    BY SumsAreExtremes DEF LiveInv, BarInv, Sums, BarIsItsTrades
  <2>2. bars_processed = Len(bar_starts)
    BY DEF LiveInv, DequesInv
  <2>3. ASSUME NEW i \in 0 .. Min({Len(bars), Len(history)}) - 1
        PROVE  history[Len(history) - i] = to_strategy_bar(bars[Len(bars) - i])
    <3>1. Len(bars) \in Nat /\ Len(history) \in Nat
      BY DEF LiveInv, DequesInv, StrategyInv, StrategyTypeOK
    <3> DEFINE m == Min({Len(bars), Len(history)})
    <3>2. m \in Int /\ m <= Len(bars) /\ m <= Len(history)
      <4> DEFINE a == Len(bars)
                 b == Len(history)
      <4>1. a \in Int /\ b \in Int
        BY <3>1
      <4> HIDE DEF a, b
      <4>2. Min({a, b}) \in {a, b} /\ Min({a, b}) <= a /\ Min({a, b}) <= b
        BY <4>1, MinOfTwo
      <4> QED BY <4>1, <4>2 DEF a, b
    <3>3. i \in 0 .. m - 1
      BY <2>3
    <3> HIDE DEF m
    <3>4. i \in Nat /\ i < Len(bars) /\ i < Len(history)
      BY <3>1, <3>2, <3>3
    <3> QED BY <3>4 DEF LiveInv, DequesInv
  <2> QED BY <2>1, <2>2, <2>3 DEF StrategySeesBars
<1> QED BY <1>1, LiveInvariance, PTL

\* last_signal_ is active exactly when the bar closed last gave a signal
\* (:169-193).
Verdict ==
  /\ last_signal = SignalAfter(signal)
  /\ last_signal.active <=> signal.valid
  /\ last_signal.active <=> bars_processed > 0 /\ last_signal_bar = bars_processed

\* It is so in every state of the invariant.
LEMMA VerdictIsSignal == LiveInv => Verdict
<1> SUFFICES ASSUME LiveInv PROVE Verdict
  OBVIOUS
<1>1. last_signal = IF signal.valid THEN LiveSignal(signal) ELSE NoLiveSignal
  BY DEF LiveInv, DequesInv, SignalAfter
<1>2. LiveSignal(signal).active = TRUE /\ NoLiveSignal.active = FALSE
  BY DEF LiveSignal, NoLiveSignal
<1>3. signal.valid <=> last_signal_bar = bars_processed /\ bars_processed > 0
  BY DEF LiveInv, StrategyInv, SetupConsistent
<1>4. last_signal.active <=> signal.valid
  BY <1>1, <1>2, Zenon
<1> QED BY <1>1, <1>3, <1>4, Zenon DEF Verdict, SignalAfter

\* last_signal_ tells what the bar closed last gave, and nothing older
\* (:169-193).
THEOREM FreshSignal == LiveSpec => []SignalIsFresh
<1>1. LiveInv => SignalIsFresh
  BY VerdictIsSignal, Zenon DEF SignalIsFresh, Verdict, SignalAfter
<1> QED BY <1>1, LiveInvariance, PTL

\* A feed in order gives one bar per bucket, in the order of the buckets
\* (:82-96).
THEOREM OneBarEach == LiveSpec => []OneBarPerBucket
<1>1. LiveInv => OneBarPerBucket
  <2> SUFFICES ASSUME LiveInv PROVE OneBarPerBucket
    OBVIOUS
  <2>1. bar_starts \in Seq(Nat)
    BY DEF LiveInv, DequesInv
  <2>2. bar_starts # <<>> => Len(bar_starts) \in 1 .. Len(bar_starts)
    BY <2>1
  <2> QED BY <2>1, <2>2 DEF LiveInv, OrderInv, OneBarPerBucket, Last
<1> QED BY <1>1, LiveInvariance, PTL

\* A signal of the strategy becomes active while none was, on the first trade
\* of a bar; no other trade makes last_signal_ active (:169-193).
LEMMA EdgeIsNews ==
  ASSUME LiveInv, NEW t \in Trades, on_trade(t)
  PROVE  \/ /\ NewSignal /\ ~last_signal.active /\ last_signal'.active
            /\ bar_prices' = <<t.price>>
         \/ ~NewSignal /\ (last_signal'.active => last_signal.active)
<1>1. CASE UNCHANGED <<bars_processed, last_signal>>
  BY <1>1 DEF NewSignal
<1>2. CASE Usable(t) /\ ~SameBar(t) /\ has_current_bar
  <2>1. Watch(t) /\ start_new_bar(t) /\ close_current_bar
    BY <1>2 DEF on_trade
  <2>2. FromRetest /\ LiveInv' /\ bars_processed' = bars_processed + 1
        /\ bar_prices' = <<t.price>>
    BY <1>2, <2>1, CloseKeeps, DequesFed DEF start_new_bar
  <2>3. last_signal'.active <=> signal'.valid
    <3>1. LiveInv' => Verdict'
      BY VerdictIsSignal, PTL
    <3> QED BY <2>2, <3>1, Zenon DEF Verdict
  <2>4. bars_processed \in Nat /\ last_signal_bar \in Nat
    BY DEF LiveInv, StrategyInv, StrategyTypeOK
  <2>5. NewSignal <=> signal'.valid
    <3>1. bars_processed' # bars_processed
      BY <2>2, <2>4
    <3> QED BY <3>1, Zenon DEF NewSignal
  <2>6. NewSignal => ~last_signal.active
    <3>1. SUFFICES ASSUME NewSignal PROVE ~last_signal.active
      OBVIOUS
    <3>2. bars_processed' - last_signal_bar > SIGNAL_COOLDOWN_BARS
      BY <2>2, <3>1 DEF FromRetest
    <3>3. last_signal_bar # bars_processed
      <4>1. SIGNAL_COOLDOWN_BARS \in Nat \ {0}
        BY SettingsAssumption
      <4> QED BY <2>2, <2>4, <3>2, <4>1
    <3> QED BY <3>3, VerdictIsSignal, Zenon DEF Verdict
  <2> QED BY <2>2, <2>3, <2>5, <2>6, Zenon
<1>3. CASE ~(Usable(t) /\ ~SameBar(t) /\ has_current_bar)
  <2>1. UNCHANGED <<bars_processed, last_signal>>
    BY <1>3 DEF on_trade, liveVars, strategyVars, engineVars, KeepBars
  <2> QED BY <1>1, <2>1
<1> QED BY <1>2, <1>3

\* The strategy as the bar builder uses it: any bar that PrismStrategy assumes,
\* one at a time, and nothing else touches its members.
StrategyOnValidBars ==
  StrategyInit /\ [][\E bar \in ValidBars : on_new_bar(bar)]_strategyVars

\* The bar builder only uses its strategy through on_new_bar(), with bars whose
\* high and low bracket the open and the close (prism_live_engine.cpp:149-169).
THEOREM FeedsStrategy == LiveSpec => StrategyOnValidBars
<1>1. LiveInit => StrategyInit
  BY DEF LiveInit
<1>2. LiveInv /\ [LiveNext]_liveVars => [\E bar \in ValidBars : on_new_bar(bar)]_strategyVars
  <2> SUFFICES ASSUME LiveInv, [LiveNext]_liveVars
               PROVE  (\E bar \in ValidBars : on_new_bar(bar)) \/ UNCHANGED strategyVars
    OBVIOUS
  <2>1. ASSUME NEW t \in Trades, on_trade(t)
        PROVE  (\E bar \in ValidBars : on_new_bar(bar)) \/ UNCHANGED strategyVars
    <3>1. CASE Usable(t) /\ ~SameBar(t) /\ has_current_bar
      BY <2>1, <3>1, DequesFed DEF on_trade
    <3>2. CASE ~(Usable(t) /\ ~SameBar(t) /\ has_current_bar)
      BY <2>1, <3>2 DEF on_trade, KeepBars, liveVars
    <3> QED BY <3>1, <3>2
  <2>2. CASE UNCHANGED liveVars
    BY <2>2 DEF liveVars
  <2> QED BY <2>1, <2>2 DEF LiveNext
<1> QED BY <1>1, <1>2, LiveInvariance, PTL DEF LiveSpec, StrategyOnValidBars

\* A signal of the strategy inside the bar builder comes from a retest within
\* the window and outside the cooldown (prism_strategy.cpp:141-204).
THEOREM SignalsDisciplinedHere == LiveSpec => SignalsFromRetest
<1>1. LiveInv /\ [\E bar \in ValidBars : on_new_bar(bar)]_strategyVars
        => [FromRetest]_strategyVars
  BY NewBarInv DEF LiveInv
<1> QED BY <1>1, LiveInvariance, FeedsStrategy, PTL DEF StrategyOnValidBars, SignalsFromRetest

-----------------------------------------------------------------------------
(* The inductive invariant of the engine thread *)

\* What the thread knows of the edges of has_signal(), and the count of the
\* signals it passed on.
EdgeInv ==
  /\ pc \in {"pop", "on_trade", "on_price", "signal"}
  /\ pc = "on_trade" => p \in Trades
  /\ prism_signals \in Nat /\ emitted \in Nat
  /\ pc \in {"pop", "on_trade"} =>
       (last_signal.active <=> previous_signal_state) /\ prism_signals = emitted
  /\ pc \in {"on_price", "signal"} /\ RisingEdge =>
       emitted = prism_signals + 1 /\ bar_prices = <<p.price>>
  /\ pc \in {"on_price", "signal"} /\ ~RisingEdge => emitted = prism_signals

\* Every signal passed on has opened a trade or met an open one.
TradesInv ==
  /\ position \in {"FLAT", "LONG_OPEN"}
  /\ next_trade_id \in Nat /\ ignored \in Nat
  /\ prism_signals = (next_trade_id - 1) + ignored

ThreadInv == LiveInv /\ EdgeInv /\ TradesInv

\* A thread without a packet satisfies the invariant (live_binance_engine.cpp:36-52).
LEMMA ThreadInitInv == ThreadInit => ThreadInv
<1> SUFFICES ASSUME ThreadInit PROVE ThreadInv
  OBVIOUS
<1>1. LiveInv
  BY LiveInitInv DEF ThreadInit
<1>2. ~last_signal.active
  BY DEF ThreadInit, LiveInit, NoLiveSignal
<1>3. EdgeInv
  BY <1>2 DEF ThreadInit, EdgeInv
<1>4. TradesInv
  BY DEF ThreadInit, TM!TMInit, TradesInv
<1> QED BY <1>1, <1>3, <1>4 DEF ThreadInv

\* Waiting for a packet changes nothing else (:55).
LEMMA PopInv ==
  ASSUME ThreadInv, Pop
  PROVE  ThreadInv'
<1>1. LiveInv'
  BY LiveStutter DEF ThreadInv, Pop
<1>2. /\ pc = "pop" /\ pc' = "on_trade" /\ p' \in Trades
      /\ UNCHANGED <<last_signal, previous_signal_state, prism_signals, emitted,
                     position, next_trade_id, ignored>>
  BY DEF Pop, liveVars, engineVars, trader
<1>3. EdgeInv'
  <2>1. /\ prism_signals \in Nat /\ emitted \in Nat /\ prism_signals = emitted
        /\ last_signal.active <=> previous_signal_state
    BY <1>2, Zenon DEF ThreadInv, EdgeInv
  <2> QED BY <1>2, <2>1 DEF EdgeInv
<1>4. TradesInv'
  BY <1>2 DEF ThreadInv, TradesInv
<1> QED BY <1>1, <1>3, <1>4 DEF ThreadInv

\* The bar builder sees the packet first: a signal it gives is a rising edge
\* (:67).
LEMMA OnTradeStepInv ==
  ASSUME ThreadInv, OnTrade
  PROVE  ThreadInv'
<1>1. /\ pc = "on_trade" /\ pc' = "on_price" /\ on_trade(p) /\ p \in Trades
      /\ emitted' = IF NewSignal THEN emitted + 1 ELSE emitted
      /\ UNCHANGED <<p, previous_signal_state, prism_signals, position, next_trade_id,
                     ignored>>
  BY DEF OnTrade, trader, ThreadInv, EdgeInv
<1>2. LiveInv'
  BY <1>1, OnTradeInv DEF ThreadInv
<1>3. /\ prism_signals \in Nat /\ emitted \in Nat /\ prism_signals = emitted
      /\ last_signal.active <=> previous_signal_state
  BY <1>1 DEF ThreadInv, EdgeInv
<1>4. CASE /\ NewSignal /\ ~last_signal.active /\ last_signal'.active
           /\ bar_prices' = <<p.price>>
  <2>1. emitted' = prism_signals' + 1 /\ emitted' \in Nat /\ prism_signals' \in Nat
    BY <1>1, <1>3, <1>4
  <2>2. RisingEdge'
    BY <1>1, <1>3, <1>4, Zenon DEF RisingEdge
  <2>3. EdgeInv'
    BY <1>1, <1>4, <2>1, <2>2 DEF EdgeInv
  <2> QED BY <1>1, <1>2, <2>3 DEF ThreadInv, TradesInv
<1>5. CASE ~NewSignal /\ (last_signal'.active => last_signal.active)
  <2>1. ~RisingEdge'
    BY <1>1, <1>3, <1>5, Zenon DEF RisingEdge
  <2>2. emitted' = prism_signals' /\ emitted' \in Nat /\ prism_signals' \in Nat
    BY <1>1, <1>3, <1>5
  <2>3. EdgeInv'
    BY <1>1, <2>1, <2>2 DEF EdgeInv
  <2> QED BY <1>1, <1>2, <2>3 DEF ThreadInv, TradesInv
<1> QED BY <1>1, <1>4, <1>5, EdgeIsNews, Zenon DEF ThreadInv

\* The price of the packet moves no counter of signals (:69).
LEMMA OnPriceStepInv ==
  ASSUME ThreadInv, OnPrice
  PROVE  ThreadInv'
<1>1. /\ pc = "on_price" /\ pc' = "signal" /\ TM!on_price(16 * p.price)
      /\ UNCHANGED <<liveVars, p, previous_signal_state, prism_signals, emitted, ignored>>
  BY DEF OnPrice
<1>2. LiveInv'
  BY <1>1, LiveStutter DEF ThreadInv
<1>3. UNCHANGED <<last_signal, bar_prices>>
  BY <1>1 DEF liveVars, engineVars
<1>4. RisingEdge' <=> RisingEdge
  BY <1>1, <1>3 DEF RisingEdge
<1>5. EdgeInv'
  BY <1>1, <1>3, <1>4 DEF ThreadInv, EdgeInv
<1>6. next_trade_id' = next_trade_id /\ position' \in {position, "FLAT"}
  BY <1>1 DEF TM!on_price, TM!close_trade, TM!StaysOpen
<1>7. TradesInv'
  BY <1>1, <1>6 DEF ThreadInv, TradesInv
<1> QED BY <1>2, <1>5, <1>7 DEF ThreadInv

\* What TradeManager relies on without a test.
Tradable ==
  last_signal.active =>
    /\ TM!Risk(last_signal) > 0 /\ TM!LevelsOrdered(last_signal)
    /\ last_signal.entry_price = 16 * Last(bars).close

\* An active signal has its levels in order, and its entry is the close of the
\* bar closed last (prism_strategy.cpp:224-257, prism_live_engine.cpp:169-193).
LEMMA SignalIsTradable == LiveInv => Tradable
<1> SUFFICES ASSUME LiveInv, last_signal.active
             PROVE  /\ TM!Risk(last_signal) > 0 /\ TM!LevelsOrdered(last_signal)
                    /\ last_signal.entry_price = 16 * Last(bars).close
  BY DEF Tradable
<1>1. signal.valid /\ bars_processed > 0 /\ last_signal = SignalAfter(signal)
  BY VerdictIsSignal, Zenon DEF Verdict
<1>2. last_signal = LiveSignal(signal)
  BY <1>1, Zenon DEF SignalAfter
<1>3. /\ last_signal.entry_price = signal.entry_price
      /\ last_signal.stop_loss = signal.stop_loss
      /\ last_signal.target1 = signal.target1
      /\ last_signal.target2 = signal.target2
  BY <1>2 DEF LiveSignal
<1>4. /\ signal.stop_loss < signal.entry_price
      /\ signal.entry_price < signal.target1
      /\ signal.target1 < signal.target2
      /\ signal.entry_price = 16 * history[Len(history)].close
  BY <1>1 DEF LiveInv, StrategyInv, SignalWellFormed
<1>5. signal.entry_price \in Int /\ signal.stop_loss \in Int
  BY DEF LiveInv, StrategyInv, StrategyTypeOK
<1>6. history[Len(history)].close = Last(bars).close
  <2>1. /\ bars # <<>> /\ history # <<>>
        /\ bars \in Seq(GoodBars) /\ history \in Seq(ValidBars)
    BY <1>1 DEF LiveInv, DequesInv, StrategyInv, StrategyTypeOK
  <2>2. 0 < Len(bars) /\ 0 < Len(history) /\ Len(bars) \in Nat /\ Len(history) \in Nat
    BY <2>1
  <2>3. history[Len(history) - 0] = to_strategy_bar(bars[Len(bars) - 0])
    BY <2>2 DEF LiveInv, DequesInv
  <2>4. Len(history) - 0 = Len(history) /\ Len(bars) - 0 = Len(bars)
    BY <2>2
  <2> QED BY <2>3, <2>4 DEF to_strategy_bar, Last
<1> QED BY <1>3, <1>4, <1>5, <1>6 DEF TM!Risk, TM!LevelsOrdered

\* What on_signal() does with a rising edge: the signal opens a trade unless
\* one is open (trade_manager.cpp:45-70).
LEMMA SignalOpensTrade ==
  ASSUME ThreadInv, OnSignal, RisingEdge
  PROVE  \/ /\ ~TM!IsOpen /\ trade'.entry_price = 16 * Last(bars).close
            /\ quote' = {} /\ position' = "LONG_OPEN"
            /\ next_trade_id' = next_trade_id + 1 /\ ignored' = ignored
         \/ /\ TM!IsOpen /\ position' = position
            /\ next_trade_id' = next_trade_id /\ ignored' = ignored + 1
<1>1. /\ TM!on_signal(last_signal)
      /\ ignored' = IF TM!IsOpen THEN ignored + 1 ELSE ignored
  BY DEF OnSignal
<1>2. last_signal.active
  BY Zenon DEF RisingEdge
<1>3. /\ TM!Risk(last_signal) > 0
      /\ last_signal.entry_price = 16 * Last(bars).close
  BY <1>2, SignalIsTradable DEF Tradable, ThreadInv
<1>4. CASE ~TM!IsOpen
  <2>1. TM!Accepts(last_signal)
    BY <1>2, <1>3, <1>4 DEF ThreadInv, TradesInv, TM!IsOpen, TM!Accepts
  <2>2. /\ trade' = TM!Opened(last_signal) /\ next_trade_id' = next_trade_id + 1
        /\ position' = "LONG_OPEN" /\ quote' = {}
    BY <1>1, <2>1, Zenon DEF TM!on_signal
  <2>3. trade'.entry_price = last_signal.entry_price
    BY <2>2 DEF TM!Opened
  <2> QED BY <1>1, <1>3, <1>4, <2>2, <2>3
<1>5. CASE TM!IsOpen
  <2>1. ~TM!Accepts(last_signal)
    BY <1>5 DEF TM!IsOpen, TM!Accepts
  <2>2. next_trade_id' = next_trade_id /\ position' = position
    BY <1>1, <2>1, Zenon DEF TM!on_signal
  <2> QED BY <1>1, <1>5, <2>2
<1> QED BY <1>4, <1>5

\* A rising edge is counted once and passed on once (:74-87).
LEMMA OnSignalStepInv ==
  ASSUME ThreadInv, OnSignal
  PROVE  ThreadInv'
<1>1. /\ pc = "signal" /\ pc' = "pop"
      /\ previous_signal_state' = last_signal.active
      /\ UNCHANGED <<liveVars, p, emitted>>
  BY DEF OnSignal
<1>2. LiveInv'
  BY <1>1, LiveStutter DEF ThreadInv
<1>3. last_signal' = last_signal
  BY <1>1 DEF liveVars, engineVars
<1>4. last_signal'.active <=> previous_signal_state'
  BY <1>1, <1>3, Zenon
<1>5. /\ prism_signals \in Nat /\ emitted \in Nat /\ next_trade_id \in Nat
      /\ ignored \in Nat /\ position \in {"FLAT", "LONG_OPEN"}
      /\ prism_signals = (next_trade_id - 1) + ignored
  BY DEF ThreadInv, EdgeInv, TradesInv
<1>6. CASE RisingEdge
  <2>1. prism_signals' = prism_signals + 1 /\ emitted = prism_signals + 1
    BY <1>1, <1>6 DEF OnSignal, ThreadInv, EdgeInv
  <2>2. /\ next_trade_id' \in Nat /\ ignored' \in Nat /\ position' \in {"FLAT", "LONG_OPEN"}
        /\ next_trade_id' + ignored' = next_trade_id + ignored + 1
    <3>1. \/ position' = "LONG_OPEN" /\ next_trade_id' = next_trade_id + 1 /\ ignored' = ignored
          \/ position' = position /\ next_trade_id' = next_trade_id /\ ignored' = ignored + 1
      BY <1>6, SignalOpensTrade, Zenon
    <3> QED BY <1>5, <3>1
  <2>3. TradesInv'
    <3>1. prism_signals' = ((next_trade_id + ignored) - 1) + 1
      BY <1>5, <2>1
    <3>2. next_trade_id' + ignored' = (next_trade_id + ignored) + 1
      BY <2>2
    <3>3. prism_signals' = (next_trade_id' + ignored') - 1
      BY <1>5, <3>1, <3>2
    <3>4. prism_signals' = (next_trade_id' - 1) + ignored'
      BY <2>2, <3>3
    <3> QED BY <2>2, <3>4, Zenon DEF TradesInv
  <2>4. prism_signals' = emitted' /\ prism_signals' \in Nat /\ emitted' \in Nat
    BY <1>1, <1>5, <2>1
  <2>5. EdgeInv'
    BY <1>1, <1>4, <2>4, Zenon DEF EdgeInv
  <2> QED BY <1>2, <2>3, <2>5 DEF ThreadInv
<1>7. CASE ~RisingEdge
  <2>1. UNCHANGED <<prism_signals, ignored, next_trade_id, position>> /\ emitted = prism_signals
    BY <1>1, <1>7 DEF OnSignal, trader, ThreadInv, EdgeInv
  <2>2. TradesInv'
    BY <1>5, <2>1 DEF TradesInv
  <2>3. prism_signals' = emitted' /\ prism_signals' \in Nat /\ emitted' \in Nat
    BY <1>1, <1>5, <2>1
  <2>4. EdgeInv'
    BY <1>1, <1>4, <2>3, Zenon DEF EdgeInv
  <2> QED BY <1>2, <2>2, <2>4 DEF ThreadInv
<1> QED BY <1>6, <1>7

\* Every step keeps the invariant.
LEMMA ThreadStepInv == ThreadInv /\ [ThreadNext]_threadVars => ThreadInv'
<1> SUFFICES ASSUME ThreadInv, [ThreadNext]_threadVars PROVE ThreadInv'
  OBVIOUS
<1>1. CASE UNCHANGED threadVars
  <2>1. LiveInv'
    BY <1>1, LiveStutter DEF threadVars, ThreadInv
  <2>2. UNCHANGED <<pc, p, last_signal, bar_prices, previous_signal_state,
                    prism_signals, emitted, position, next_trade_id, ignored>>
    BY <1>1 DEF threadVars, liveVars, engineVars, trader
  <2>3. RisingEdge' <=> RisingEdge
    BY <2>2 DEF RisingEdge
  <2>4. EdgeInv' /\ TradesInv'
    BY <2>2, <2>3 DEF ThreadInv, EdgeInv, TradesInv
  <2> QED BY <2>1, <2>4 DEF ThreadInv
<1> QED BY <1>1, PopInv, OnTradeStepInv, OnPriceStepInv, OnSignalStepInv DEF ThreadNext

\* ThreadInv holds in every reachable state.
THEOREM ThreadInvariance == ThreadSpec => []ThreadInv
  BY ThreadInitInv, ThreadStepInv, PTL DEF ThreadSpec

\* The packet in hand has not been looked at by the bar builder yet.
PacketInv == pc = "on_trade" => InBounds(p)

\* The packet that was popped is within the bounds until the bar builder sees it.
LEMMA PacketStepInv == PacketInv /\ [ThreadNext]_threadVars => PacketInv'
<1> SUFFICES ASSUME PacketInv, [ThreadNext]_threadVars PROVE PacketInv'
  OBVIOUS
<1>1. CASE Pop
  <2>1. InBounds(p)' <=> InBounds(p')
    BY <1>1 DEF Pop, liveVars, strategyVars, engineVars, InBounds, ClosesBar, SameBar,
       Usable, BarStart, normalize_timestamp_ns
  <2>2. InBounds(p')
    BY <1>1, Zenon DEF Pop
  <2> QED BY <2>1, <2>2 DEF PacketInv
<1>2. CASE OnTrade \/ OnPrice \/ OnSignal
  <2>1. pc' # "on_trade"
    BY <1>2 DEF OnTrade, OnPrice, OnSignal
  <2> QED BY <2>1 DEF PacketInv
<1>3. CASE UNCHANGED threadVars
  BY <1>3 DEF threadVars, PacketInv, liveVars, strategyVars, engineVars, InBounds,
     ClosesBar, SameBar, Usable, BarStart, normalize_timestamp_ns
<1> QED BY <1>1, <1>2, <1>3 DEF ThreadNext

\* The thread uses the bar builder as its specification says, one on_trade() at
\* a time, so all that holds of the bar builder holds in the thread
\* (live_binance_engine.cpp:55-67).
THEOREM ThreadRunsBuilder == ThreadSpec => LiveSpec
<1>1. ThreadInit => LiveInit /\ PacketInv
  BY DEF ThreadInit, PacketInv
<1>3. ThreadInv /\ PacketInv /\ [ThreadNext]_threadVars => [LiveNext]_liveVars
  <2> SUFFICES ASSUME ThreadInv, PacketInv, [ThreadNext]_threadVars
               PROVE  LiveNext \/ UNCHANGED liveVars
    OBVIOUS
  <2>1. CASE OnTrade
    <3>1. p \in Trades /\ InBounds(p) /\ on_trade(p)
      BY <2>1 DEF OnTrade, PacketInv, ThreadInv, EdgeInv
    <3> QED BY <3>1, Zenon DEF LiveNext
  <2>2. CASE Pop \/ OnPrice
    BY <2>2 DEF Pop, OnPrice
  <2>3. CASE OnSignal
    BY <2>3, Zenon DEF OnSignal
  <2>4. CASE UNCHANGED threadVars
    BY <2>4 DEF threadVars
  <2> QED BY <2>1, <2>2, <2>3, <2>4 DEF ThreadNext
<1> QED BY <1>1, <1>3, PacketStepInv, ThreadInvariance, PTL DEF ThreadSpec, LiveSpec

-----------------------------------------------------------------------------
(* What the engine thread promises *)

\* Between two packets every signal of the strategy has been counted once, and
\* opened a trade unless one was open (live_binance_engine.cpp:71-87).
THEOREM CountedOnce == ThreadSpec => []SignalsCountedOnce
<1>1. ThreadInv => SignalsCountedOnce
  BY DEF ThreadInv, EdgeInv, TradesInv, SignalsCountedOnce
<1> QED BY <1>1, ThreadInvariance, PTL

\* on_signal() is only called with a signal that has a risk and its targets in
\* order (trade_manager.cpp:54-68).
THEOREM AlwaysTradable == ThreadSpec => []SignalsTradable
<1>1. ThreadInv => SignalsTradable
  BY SignalIsTradable, Zenon DEF ThreadInv, Tradable, SignalsTradable, RisingEdge
<1> QED BY <1>1, ThreadInvariance, PTL

\* A trade is opened by the first packet of a bar, at the close of the bar
\* before, and has not seen a price (:67-83).
THEOREM OpensFirst == ThreadSpec => TradesOpenOnFirstPacket
<1>1. ThreadInv /\ [ThreadNext]_threadVars => [OpensOnFirstPacket]_threadVars
  <2> SUFFICES ASSUME ThreadInv, ThreadNext PROVE OpensOnFirstPacket
    OBVIOUS
  <2>1. CASE Pop \/ OnTrade
    <3>1. position' = position
      BY <2>1 DEF Pop, OnTrade, trader
    <3> QED BY <3>1 DEF OpensOnFirstPacket, TM!IsOpen
  <2>2. CASE OnPrice
    <3>1. position' \in {position, "FLAT"}
      BY <2>2 DEF OnPrice, TM!on_price, TM!close_trade, TM!StaysOpen
    <3> QED BY <3>1 DEF OpensOnFirstPacket, TM!IsOpen
  <2>3. CASE OnSignal /\ RisingEdge
    <3>1. pc = "signal"
      BY <2>3 DEF OnSignal
    <3>2. bar_prices = <<p.price>>
      BY <2>3, <3>1 DEF ThreadInv, EdgeInv
    <3> QED BY <2>3, <3>2, SignalOpensTrade DEF OpensOnFirstPacket, TM!IsOpen
  <2>4. CASE OnSignal /\ ~RisingEdge
    <3>1. position' = position
      BY <2>4 DEF OnSignal, trader
    <3> QED BY <3>1 DEF OpensOnFirstPacket, TM!IsOpen
  <2> QED BY <2>1, <2>2, <2>3, <2>4 DEF ThreadNext
<1> QED BY <1>1, ThreadInvariance, PTL DEF ThreadSpec, TradesOpenOnFirstPacket

-----------------------------------------------------------------------------
(* The bars are made of the prices of the feed *)

\* A bar whose prices were traded.
PricedBars == {b \in GoodBars : {b.open, b.high, b.low, b.close} \subseteq BarPrices}

\* The bars are priced, and an active signal has the levels of one of them.
PricedInv ==
  /\ current_bar \in PrismBars
  /\ has_current_bar => current_bar \in PricedBars
  /\ bars \in Seq(PricedBars)
  /\ signal.valid => \E b \in FeedBars : signal = SignalFor(b)

\* The distance of two traded prices is a range, and the quotient that
\* compute_atr() takes of such ranges is a mean (prism_live_engine.cpp:196-230).
LEMMA RangesAndMeans ==
  /\ \A x, y \in BarPrices : Abs(x - y) \in Ranges
  /\ \A n \in 1 .. ATR_PERIOD : \A f \in [1 .. n -> Ranges] :
       FoldSeq(+, 0, f) \div n \in Means
<1>1. ASSUME NEW x \in BarPrices, NEW y \in BarPrices
      PROVE  Abs(x - y) \in Ranges
  <2> DEFINE D(v, w) == Abs(v - w)
  <2>1. Ranges = {D(v, w) : v \in BarPrices, w \in BarPrices}
    BY DEF Ranges
  <2> HIDE DEF D
  <2>2. D(x, y) \in Ranges
    BY <2>1
  <2> QED BY <2>2 DEF D
<1>2. ASSUME NEW n \in 1 .. ATR_PERIOD, NEW f \in [1 .. n -> Ranges]
      PROVE  FoldSeq(+, 0, f) \div n \in Means
  <2> DEFINE Q(g, k) == FoldSeq(+, 0, g) \div k
  <2>1. Means = UNION {{Q(g, k) : g \in [1 .. k -> Ranges]} : k \in 1 .. ATR_PERIOD}
    BY Zenon DEF Means
  <2> HIDE DEF Q
  <2>2. Q(f, n) \in Means
    BY <2>1
  <2> QED BY <2>2, Zenon DEF Q
<1> QED BY <1>1, <1>2, Zenon

\* A true range is a range of traded prices (:217-226).
LEMMA TrueRangeIsRange ==
  ASSUME NEW b \in PricedBars, NEW prev \in PricedBars
  PROVE  TrueRange(b, prev) \in Ranges
<1> DEFINE S == {b.high - b.low, Abs(b.high - prev.close), Abs(b.low - prev.close)}
<1>1. /\ b.high \in Nat /\ b.low \in Nat /\ prev.close \in Nat
      /\ b.low <= b.high
      /\ b.high \in BarPrices /\ b.low \in BarPrices /\ prev.close \in BarPrices
  BY DEF PricedBars, GoodBars, PrismBars
<1>2. b.high - b.low = Abs(b.high - b.low)
  BY <1>1 DEF Abs
<1>3. S \subseteq Ranges
  <2>1. \A x, y \in BarPrices : Abs(x - y) \in Ranges
    BY RangesAndMeans, Zenon
  <2> QED BY <1>1, <1>2, <2>1, Zenon
<1>4. S \subseteq Nat
  BY <1>1 DEF Abs
<1>5. IsFiniteSet(S)
  <2> DEFINE x == b.high - b.low
             y == Abs(b.high - prev.close)
             z == Abs(b.low - prev.close)
  <2> HIDE DEF x, y, z
  <2>1. IsFiniteSet(({x} \cup {y}) \cup {z})
    BY FS_Singleton, FS_AddElement
  <2>2. ({x} \cup {y}) \cup {z} = {x, y, z}
    OBVIOUS
  <2> QED BY <2>1, <2>2 DEF x, y, z
<1>6. S # {} /\ TrueRange(b, prev) = Max(S)
  BY DEF TrueRange
<1> HIDE DEF S
<1>7. Max(S) \in S
  <2>1. \E m \in S : \A y \in S : m >= y
    BY <1>4, <1>5, <1>6, MaxOfFinite
  <2> QED BY <2>1 DEF Max
<1> QED BY <1>3, <1>6, <1>7

\* The ATR of priced bars is a range or a mean of ranges (:196-230).
LEMMA AtrIsMean ==
  ASSUME NEW d \in Seq(PricedBars), d # <<>>
  PROVE  compute_atr(d) \in Ranges \cup Means
<1>1. Len(d) \in Nat \ {0} /\ d[Len(d)] \in PricedBars
  OBVIOUS
<1>2. CASE Len(d) < 2
  <2>1. compute_atr(d) = d[Len(d)].high - d[Len(d)].low
    BY <1>2 DEF compute_atr, Last
  <2> DEFINE h == d[Len(d)].high
             l == d[Len(d)].low
  <2>2. h \in Nat /\ l \in Nat /\ l <= h /\ h \in BarPrices /\ l \in BarPrices
    BY <1>1 DEF PricedBars, GoodBars, PrismBars
  <2> HIDE DEF h, l
  <2>3. h - l = Abs(h - l)
    BY <2>2 DEF Abs
  <2>4. h - l \in Ranges
    BY <2>2, <2>3, RangesAndMeans, Zenon
  <2> QED BY <2>1, <2>4 DEF h, l
<1>3. CASE Len(d) >= 2
  <2> DEFINE m == Len(d) - 1
             count == Min({ATR_PERIOD, m})
  <2>1. m \in Nat \ {0} /\ ATR_PERIOD \in Nat \ {0}
    BY <1>1, <1>3, EngineAssumption
  <2> HIDE DEF m
  <2>2. count = IF ATR_PERIOD <= m THEN ATR_PERIOD ELSE m
    <3>1. ATR_PERIOD \in Int /\ m \in Int
      BY <2>1
    <3> QED BY <3>1, OfTwo, Zenon
  <2> HIDE DEF count
  <2>3. count \in 1 .. ATR_PERIOD /\ count <= Len(d) - 1
    <3>1. count \in 1 .. ATR_PERIOD /\ count <= m
      <4>1. CASE ATR_PERIOD <= m
        BY <2>1, <2>2, <4>1
      <4>2. CASE ~(ATR_PERIOD <= m)
        BY <2>1, <2>2, <4>2
      <4> QED BY <4>1, <4>2
    <3> QED BY <3>1 DEF m
  <2> DEFINE start == Len(d) - count
             f == [i \in 1 .. count |-> TrueRange(d[start + i], d[start + i - 1])]
  <2>4. ~(Len(d) < 2)
    BY <1>1, <1>3
  <2>5. compute_atr(d) = FoldSeq(+, 0, f) \div count
    BY <2>4, Zenon DEF compute_atr, count, m
  <2>6. \A i \in 1 .. count : start + i \in 1 .. Len(d) /\ start + i - 1 \in 1 .. Len(d)
    BY <1>1, <2>3
  <2>7. \A i \in 1 .. count : TrueRange(d[start + i], d[start + i - 1]) \in Ranges
    <3> SUFFICES ASSUME NEW i \in 1 .. count
                 PROVE  TrueRange(d[start + i], d[start + i - 1]) \in Ranges
      OBVIOUS
    <3>1. d[start + i] \in PricedBars /\ d[start + i - 1] \in PricedBars
      BY <2>6
    <3> HIDE DEF start
    <3> QED BY <3>1, TrueRangeIsRange, Zenon
  <2> HIDE DEF start
  <2>8. f \in [1 .. count -> Ranges]
    BY <2>7, Zenon
  <2> HIDE DEF f
  <2>9. FoldSeq(+, 0, f) \div count \in Means
    BY <2>3, <2>8, RangesAndMeans, Zenon
  <2> QED BY <2>5, <2>9
<1> QED BY <1>1, <1>2, <1>3

\* What close_current_bar() keeps is priced, and what it hands to the strategy
\* is a bar of the feed (:141-167).
LEMMA ClosedBarIsFed ==
  ASSUME NEW d \in Seq(PricedBars), d # <<>>
  PROVE  LET closed == [d EXCEPT ![Len(d)].atr_14 = compute_atr(d)] IN
         closed \in Seq(PricedBars) /\ BarForStrategy(closed) \in FeedBars
<1> DEFINE atr == compute_atr(d)
           n == Len(d)
           b == [d[n] EXCEPT !.atr_14 = atr]
           closed == [d EXCEPT ![n].atr_14 = atr]
<1>1. d \in Seq(GoodBars)
  <2>1. PricedBars \subseteq GoodBars
    BY DEF PricedBars
  <2> QED BY <2>1
<1>2. atr \in Nat /\ atr \in Ranges \cup Means
  BY <1>1, AtrIsNat, AtrIsMean
<1> HIDE DEF atr
<1>3. n \in Nat \ {0} /\ n \in 1 .. Len(d) /\ d[n] \in PricedBars
  OBVIOUS
<1>4. b \in PricedBars /\ b.atr_14 = atr
  BY <1>2, <1>3 DEF PricedBars, GoodBars, PrismBars
<1>5. closed = [d EXCEPT ![n] = b]
  OBVIOUS
<1>6. closed \in Seq(PricedBars) /\ Len(closed) = n /\ closed[n] = b
  BY <1>3, <1>4, <1>5
<1> HIDE DEF b, closed
<1>7. BarForStrategy(closed) = to_strategy_bar(b)
  BY <1>6 DEF BarForStrategy, Last
<1>8. to_strategy_bar(b) \in FeedBars
  BY <1>2, <1>4 DEF to_strategy_bar, FeedBars, PricedBars, GoodBars
<1> QED BY <1>6, <1>7, <1>8 DEF closed, atr

\* An engine without a trade has no bar (prism_live_engine.hpp:42-54).
LEMMA PricedInitInv == LiveInit => PricedInv
  BY DEF LiveInit, StrategyInit, NoSignal, PricedInv, EmptyBar, PrismBars

\* A bar given to the strategy gives a signal with the levels of that bar, or
\* none (prism_strategy.cpp:205-262).
LEMMA SignalOfBar ==
  ASSUME NEW bar \in FeedBars, on_new_bar(bar)
  PROVE  signal'.valid => \E b \in FeedBars : signal' = SignalFor(b)
<1>1. signal' = NoSignal \/ signal' = SignalFor(bar)
  BY Zenon DEF on_new_bar, WaitForHistory, detect_breakout, detect_retest, DropSetup,
     KeepSetup, EmitSignal
<1> QED BY <1>1 DEF NoSignal

\* Every call of on_trade() keeps the bars priced (prism_live_engine.cpp:68-193).
LEMMA PricedStepInv ==
  ASSUME LiveInv, PricedInv, NEW t \in Trades, on_trade(t)
  PROVE  PricedInv'
<1>1. CASE UNCHANGED <<current_bar, has_current_bar, bars, signal>>
  BY <1>1 DEF PricedInv
<1>2. CASE Usable(t)
  <2> DEFINE price == t.price
  <2>1. price \in BarPrices /\ price \in Price
    BY <1>2, UsableTrade DEF BarPrices
  <2>2. CASE SameBar(t)
    <3>1. update_current_bar(t) /\ KeepBars /\ has_current_bar
      BY <1>2, <2>2 DEF on_trade, SameBar
    <3>2. UNCHANGED <<has_current_bar, bars, signal>>
      BY <3>1 DEF update_current_bar, KeepBars, strategyVars
    <3>3. current_bar \in PricedBars
      BY <3>1 DEF PricedInv
    <3> DEFINE h == current_bar.high
               l == current_bar.low
               high == Max({h, price})
               low == Min({l, price})
    <3>4. current_bar' = [current_bar EXCEPT !.high = high, !.low = low, !.close = price]
      BY <3>1 DEF update_current_bar
    <3>5. /\ h \in Nat /\ l \in Nat /\ price \in Nat /\ 0 < price /\ 0 < l /\ l <= h
          /\ {h, l, current_bar.open} \subseteq BarPrices
          /\ current_bar.open \in Nat /\ l <= current_bar.open /\ current_bar.open <= h
          /\ current_bar.ts \in Nat /\ current_bar.atr_14 \in Nat
      BY <2>1, <3>3 DEF PricedBars, GoodBars, PrismBars, Price
    <3> HIDE DEF h, l, price
    <3>6. /\ high = IF h >= price THEN h ELSE price
          /\ low = IF l <= price THEN l ELSE price
      <4>1. h \in Int /\ l \in Int /\ price \in Int
        BY <3>5
      <4> QED BY <4>1, OfTwo, Zenon
    <3> HIDE DEF high, low
    <3>8. /\ high \in BarPrices /\ low \in BarPrices /\ high \in Nat /\ low \in Nat
          /\ 0 < low /\ low <= price /\ price <= high
          /\ low <= current_bar.open /\ current_bar.open <= high
      BY <2>1, <3>5, <3>6
    <3>9. /\ current_bar' \in PrismBars /\ current_bar'.open = current_bar.open
          /\ current_bar'.high = high /\ current_bar'.low = low
          /\ current_bar'.close = price
      BY <3>3, <3>4, <3>5, <3>8 DEF PricedBars, GoodBars, PrismBars
    <3>7. current_bar' \in PricedBars
      BY <2>1, <3>5, <3>8, <3>9 DEF PricedBars, GoodBars
    <3> QED BY <3>2, <3>7 DEF PricedInv, PricedBars, GoodBars
  <2>3. CASE ~SameBar(t)
    <3>1. start_new_bar(t)
      BY <1>2, <2>3 DEF on_trade
    <3>2. current_bar' \in PricedBars /\ current_bar' \in PrismBars
      <4> DEFINE ts == normalize_timestamp_ns(t.exchange_ts_ns) \div NS_PER_SECOND
      <4>1. ts \in Nat
        BY <1>2, UsableTrade
      <4>2. current_bar' = [ts |-> ts, open |-> price, high |-> price, low |-> price,
                            close |-> price, atr_14 |-> 0]
        BY <3>1 DEF start_new_bar
      <4> HIDE DEF ts, price
      <4> QED BY <2>1, <4>1, <4>2 DEF PricedBars, GoodBars, PrismBars, Price
    <3>3. CASE ~has_current_bar
      <4>1. UNCHANGED <<bars, signal>>
        BY <1>2, <2>3, <3>3 DEF on_trade, KeepBars, strategyVars
      <4> QED BY <3>2, <4>1 DEF PricedInv
    <3>4. CASE has_current_bar
      <4> DEFINE d == PushCapped(bars, current_bar, BAR_CAP)
                 closed == [d EXCEPT ![Len(d)].atr_14 = compute_atr(d)]
      <4>1. close_current_bar
        BY <1>2, <2>3, <3>4 DEF on_trade
      <4>2. bars' = closed /\ on_new_bar(BarForStrategy(closed))
        BY <4>1, Zenon DEF close_current_bar
      <4>3. /\ current_bar \in PricedBars /\ bars \in Seq(PricedBars)
            /\ Len(bars) <= BAR_CAP /\ BAR_CAP \in Nat \ {0}
        BY <3>4, EngineAssumption DEF PricedInv, LiveInv, DequesInv
      <4>4. Shifted(d, bars, current_bar, PricedBars, BAR_CAP)
        BY <4>3, PushedToTheEnd, Zenon
      <4> HIDE DEF d
      <4>5. d \in Seq(PricedBars) /\ d # <<>>
        BY <4>4 DEF Shifted
      <4>6. closed \in Seq(PricedBars) /\ BarForStrategy(closed) \in FeedBars
        BY <4>5, ClosedBarIsFed
      <4> HIDE DEF closed
      <4>7. signal'.valid => \E b \in FeedBars : signal' = SignalFor(b)
        BY <4>2, <4>6, SignalOfBar
      <4> QED BY <3>2, <4>2, <4>6, <4>7 DEF PricedInv
    <3> QED BY <3>3, <3>4
  <2> QED BY <2>2, <2>3
<1>3. CASE ~Usable(t)
  BY <1>1, <1>3 DEF on_trade, liveVars, strategyVars, engineVars
<1> QED BY <1>2, <1>3

\* PricedInv holds in every reachable state of the bar builder.
THEOREM PricedInvariance == LiveSpec => []PricedInv
<1>1. LiveInv /\ PricedInv /\ [LiveNext]_liveVars => PricedInv'
  <2> SUFFICES ASSUME LiveInv, PricedInv, [LiveNext]_liveVars PROVE PricedInv'
    OBVIOUS
  <2>1. CASE LiveNext
    BY <2>1, PricedStepInv DEF LiveNext
  <2>2. CASE UNCHANGED liveVars
    BY <2>2 DEF liveVars, strategyVars, engineVars, PricedInv
  <2> QED BY <2>1, <2>2
<1> QED BY <1>1, PricedInitInv, LiveInvariance, PTL DEF LiveSpec

\* last_signal_ has the fields of a PrismSignal (prism_live_engine.cpp:169-193).
LEMMA LastSignalTyped ==
  ASSUME LiveInv
  PROVE  last_signal \in [active : BOOLEAN, entry_price : Int, stop_loss : Int,
                          target1 : Int, target2 : Int]
<1> DEFINE e == signal.entry_price
           s == signal.stop_loss
           t1 == signal.target1
           t2 == signal.target2
<1>1. e \in Int /\ s \in Int /\ t1 \in Int /\ t2 \in Int
  BY DEF LiveInv, StrategyInv, StrategyTypeOK
<1>2. \/ last_signal = [active |-> TRUE, entry_price |-> e, stop_loss |-> s,
                        target1 |-> t1, target2 |-> t2]
      \/ last_signal = [active |-> FALSE, entry_price |-> 0, stop_loss |-> 0,
                        target1 |-> 0, target2 |-> 0]
  BY Zenon DEF LiveInv, DequesInv, SignalAfter, LiveSignal, NoLiveSignal
<1> HIDE DEF e, s, t1, t2
<1>3. ASSUME NEW a \in BOOLEAN
      PROVE  \A v, w, x, y \in Int :
               [active |-> a, entry_price |-> v, stop_loss |-> w, target1 |-> x, target2 |-> y]
                 \in [active : BOOLEAN, entry_price : Int, stop_loss : Int,
                     target1 : Int, target2 : Int]
  OBVIOUS
<1>4. TRUE \in BOOLEAN /\ FALSE \in BOOLEAN /\ 0 \in Int
  OBVIOUS
<1> DEFINE T == [active : BOOLEAN, entry_price : Int, stop_loss : Int,
                 target1 : Int, target2 : Int]
           R(a, v, w, x, y) == [active |-> a, entry_price |-> v, stop_loss |-> w,
                                target1 |-> x, target2 |-> y]
<1>5. /\ \A a \in BOOLEAN, v, w, x, y \in Int : R(a, v, w, x, y) \in T
      /\ last_signal = R(TRUE, e, s, t1, t2) \/ last_signal = R(FALSE, 0, 0, 0, 0)
  BY <1>2, <1>3, Zenon
<1> HIDE DEF T, R
<1>6. R(TRUE, e, s, t1, t2) \in T /\ R(FALSE, 0, 0, 0, 0) \in T
  BY <1>1, <1>4, <1>5, Zenon
<1>7. last_signal \in T
  BY <1>5, <1>6, Zenon
<1> QED BY <1>7, Zenon DEF T

\* The members of the bar builder and of its strategy have their types
\* (prism_live_engine.hpp:42-54, prism_strategy.hpp:20-58).
THEOREM BuilderTyped == LiveSpec => []LiveTypeOK
<1>1. LiveInv /\ PricedInv => LiveTypeOK
  <2> SUFFICES ASSUME LiveInv, PricedInv PROVE LiveTypeOK
    OBVIOUS
  <2>1. StrategyTypeOK
    BY DEF LiveInv, StrategyInv
  <2>2. bars \in Seq(PrismBars) /\ Len(bars) <= BAR_CAP
    <3>1. GoodBars \subseteq PrismBars
      BY DEF GoodBars
    <3> QED BY <3>1 DEF LiveInv, DequesInv
  <2>3. last_signal \in [active : BOOLEAN, entry_price : Int, stop_loss : Int,
                         target1 : Int, target2 : Int]
    BY LastSignalTyped
  <2> QED BY <2>1, <2>2, <2>3 DEF LiveInv, BarInv, PricedInv, LiveTypeOK
<1> QED BY <1>1, LiveInvariance, PricedInvariance, PTL

-----------------------------------------------------------------------------
(* The trade manager inside the engine thread *)

\* What the strategy can give to TradeManager::on_signal().
FeedSignals ==
  {s \in [active : BOOLEAN, entry_price : Int, stop_loss : Int, target1 : Int, target2 : Int] :
     /\ s.active /\ TM!Risk(s) > 0 /\ TM!LevelsOrdered(s)
     /\ R_UNIT \div TM!Risk(s) \in Nat \ {0}
     /\ R_UNIT = TM!Risk(s) * (R_UNIT \div TM!Risk(s))}

\* What TradeManager_proofs shows, for the members of the thread.
TP == INSTANCE TradeManager_proofs
        WITH state <- position, Prices <- {16 * t.price : t \in Trades},
             Signals <- FeedSignals, MaxTrades <- MaxBars

\* The prices and signals of the thread are what TradeManager assumes.
LEMMA TraderAssumptions ==
  /\ TP!PricesAssumption /\ TP!SignalsAssumption
  /\ TP!RUnitAssumption /\ TP!MaxTradesAssumption
<1>1. TP!PricesAssumption
  BY EngineAssumption DEF TP!PricesAssumption
<1>2. TP!SignalsAssumption
  BY DEF FeedSignals, TM!Risk, TM!LevelsOrdered, TP!Risk, TP!LevelsOrdered
<1>3. TP!RUnitAssumption
  BY UnitAssumption DEF FeedSignals, TM!Risk, TP!Risk
<1>4. TP!MaxTradesAssumption
  BY SettingsAssumption
<1> QED BY <1>1, <1>2, <1>3, <1>4

\* An active signal is one of them: its levels are in order, and the unit is a
\* multiple of its risk (prism_strategy.cpp:224-257).
LEMMA SignalFits ==
  ASSUME LiveInv, PricedInv, last_signal.active
  PROVE  last_signal \in FeedSignals
<1>1. signal.valid /\ last_signal = LiveSignal(signal)
  BY VerdictIsSignal, Zenon DEF Verdict, SignalAfter
<1>2. TM!Risk(last_signal) > 0 /\ TM!LevelsOrdered(last_signal)
  BY SignalIsTradable DEF Tradable
<1>3. PICK b \in FeedBars : signal = SignalFor(b)
  BY <1>1 DEF PricedInv
<1>4. /\ last_signal.entry_price = SignalFor(b).entry_price
      /\ last_signal.stop_loss = SignalFor(b).stop_loss
  BY <1>1, <1>3 DEF LiveSignal
<1>5. /\ last_signal.entry_price \in Int /\ last_signal.stop_loss \in Int
      /\ last_signal.target1 \in Int /\ last_signal.target2 \in Int
      /\ last_signal.active = TRUE
      /\ last_signal = [active |-> TRUE, entry_price |-> last_signal.entry_price,
                        stop_loss |-> last_signal.stop_loss,
                        target1 |-> last_signal.target1, target2 |-> last_signal.target2]
  BY <1>1 DEF LiveSignal, LiveInv, StrategyInv, StrategyTypeOK
<1>6. TM!Risk(last_signal) = SignalFor(b).entry_price - SignalFor(b).stop_loss
  BY <1>4, Zenon DEF TM!Risk
<1>7. /\ R_UNIT \div TM!Risk(last_signal) \in Nat \ {0}
      /\ R_UNIT = TM!Risk(last_signal) * (R_UNIT \div TM!Risk(last_signal))
  <2>1. \A c \in FeedBars :
          SignalFor(c).entry_price - SignalFor(c).stop_loss > 0 =>
            /\ R_UNIT \div (SignalFor(c).entry_price - SignalFor(c).stop_loss) \in Nat \ {0}
            /\ R_UNIT = (SignalFor(c).entry_price - SignalFor(c).stop_loss)
                         * (R_UNIT \div (SignalFor(c).entry_price - SignalFor(c).stop_loss))
    BY UnitAssumption, Zenon
  <2> QED BY <1>2, <1>3, <1>6, <2>1, Zenon
<1> QED BY <1>2, <1>5, <1>7 DEF FeedSignals


-----------------------------------------------------------------------------
(* The steps of the thread are steps of the trade manager *)

\* The packet is one of the feed until its price was passed on, and there are
\* never more signals than bars were closed.
PacesInv ==
  /\ p \in Trades \cup {NoPacket}
  /\ pc \in {"on_trade", "on_price", "signal"} => p \in Trades
  /\ previous_signal_state \in BOOLEAN
  /\ emitted <= bars_processed /\ bars_processed <= MaxBars

\* One on_trade() closes at most one bar, and only a bar gives a signal.
LEMMA OneBarAtMost ==
  ASSUME LiveInv, NEW t \in Trades, InBounds(t), bars_processed <= MaxBars, on_trade(t)
  PROVE  /\ bars_processed \in Nat /\ bars_processed' <= MaxBars
         /\ \/ bars_processed' = bars_processed /\ ~NewSignal
            \/ bars_processed' = bars_processed + 1
<1>1. bars_processed \in Nat /\ MaxBars \in Nat
  BY SettingsAssumption DEF LiveInv, StrategyInv, StrategyTypeOK
<1>2. CASE ClosesBar(t)
  <2>1. has_current_bar /\ close_current_bar
    BY <1>2 DEF ClosesBar, on_trade
  <2>2. bars_processed' = bars_processed + 1
    BY <2>1, DequesFed
  <2>3. bars_processed < MaxBars
    BY <1>2, Zenon DEF InBounds
  <2> QED BY <1>1, <2>2, <2>3
<1>3. CASE ~ClosesBar(t)
  <2>1. bars_processed' = bars_processed
    BY <1>3 DEF ClosesBar, on_trade, KeepBars, liveVars, strategyVars
  <2> QED BY <1>1, <2>1 DEF NewSignal
<1> QED BY <1>2, <1>3

\* A thread without a packet has seen nothing.
LEMMA PacesInitInv == ThreadInit => PacesInv
<1> SUFFICES ASSUME ThreadInit PROVE PacesInv
  OBVIOUS
<1>1. /\ pc = "pop" /\ p = NoPacket /\ previous_signal_state = FALSE
      /\ emitted = 0 /\ bars_processed = 0
  BY DEF ThreadInit, LiveInit, StrategyInit
<1>2. MaxBars \in Nat
  BY SettingsAssumption
<1>3. previous_signal_state \in BOOLEAN
  BY <1>1, Zenon
<1>4. emitted <= bars_processed /\ bars_processed <= MaxBars
  BY <1>1, <1>2
<1>5. p \in Trades \cup {NoPacket} /\ pc \notin {"on_trade", "on_price", "signal"}
  BY <1>1
<1> QED BY <1>3, <1>4, <1>5, Zenon DEF PacesInv

\* Every step keeps the pace (live_binance_engine.cpp:55-87).
LEMMA PacesStepInv == ThreadInv /\ PacketInv /\ PacesInv /\ [ThreadNext]_threadVars => PacesInv'
<1> SUFFICES ASSUME ThreadInv, PacketInv, PacesInv, [ThreadNext]_threadVars PROVE PacesInv'
  OBVIOUS
<1>1. CASE Pop
  <2>1. p' \in Trades
    BY <1>1, Zenon DEF Pop
  <2>2. UNCHANGED <<previous_signal_state, emitted, bars_processed>>
    BY <1>1 DEF Pop, liveVars, strategyVars
  <2> QED BY <2>1, <2>2 DEF PacesInv
<1>2. CASE OnTrade
  <2>1. /\ p \in Trades /\ InBounds(p) /\ on_trade(p)
        /\ emitted' = IF NewSignal THEN emitted + 1 ELSE emitted
        /\ UNCHANGED <<p, previous_signal_state>>
    BY <1>2 DEF OnTrade, PacketInv, PacesInv
  <2>2. /\ bars_processed \in Nat /\ bars_processed' <= MaxBars
        /\ \/ bars_processed' = bars_processed /\ ~NewSignal
           \/ bars_processed' = bars_processed + 1
    BY <2>1, OneBarAtMost DEF ThreadInv, PacesInv
  <2>3. emitted \in Nat /\ emitted <= bars_processed
    BY DEF ThreadInv, EdgeInv, PacesInv
  <2>4. (emitted' = emitted /\ bars_processed' = bars_processed)
        \/ (emitted' \in {emitted, emitted + 1} /\ bars_processed' = bars_processed + 1)
    BY <2>1, <2>2
  <2>5. emitted' <= bars_processed'
    BY <2>2, <2>3, <2>4
  <2> QED BY <2>1, <2>2, <2>5 DEF PacesInv
<1>3. CASE OnPrice
  BY <1>3 DEF OnPrice, PacesInv, liveVars, strategyVars
<1>4. CASE OnSignal
  <2>1. /\ pc = "signal" /\ pc' = "pop" /\ UNCHANGED <<p, emitted, bars_processed>>
        /\ previous_signal_state' = last_signal.active
    BY <1>4 DEF OnSignal, liveVars, strategyVars
  <2>2. last_signal.active \in BOOLEAN
    BY LastSignalTyped DEF ThreadInv
  <2>3. previous_signal_state' \in BOOLEAN
    BY <2>1, <2>2, Zenon
  <2> QED BY <2>1, <2>3 DEF PacesInv
<1>5. CASE UNCHANGED threadVars
  BY <1>5 DEF threadVars, PacesInv, liveVars, strategyVars
<1> QED BY <1>1, <1>2, <1>3, <1>4, <1>5 DEF ThreadNext

\* The packet and the counters of the thread stay in step.
THEOREM PacesInvariance == ThreadSpec => [](PacketInv /\ PacesInv)
<1>1. ThreadInit => PacketInv
  BY DEF ThreadInit, PacketInv
<1> QED BY <1>1, PacketStepInv, PacesInitInv, PacesStepInv, ThreadInvariance, PTL DEF ThreadSpec

\* The thread uses its trade manager as TradeManager's specification says: with
\* prices of packets, and with signals whose levels are in order
\* (live_binance_engine.cpp:67-83).
THEOREM ThreadRunsTrader == ThreadSpec => TP!TMSpec
<1>1. ThreadInit => TP!TMInit
  BY DEF ThreadInit, TM!TMInit, TM!NoTrade, TP!TMInit, TP!NoTrade
<1>2. ThreadInv /\ PacesInv /\ PricedInv /\ [ThreadNext]_threadVars => [TP!TMNext]_(TP!tmVars)
  <2> SUFFICES ASSUME ThreadInv, PacesInv, PricedInv, [ThreadNext]_threadVars
               PROVE  TP!TMNext \/ UNCHANGED TP!tmVars
    OBVIOUS
  <2>1. UNCHANGED trader => UNCHANGED TP!tmVars
    BY DEF trader, TP!tmVars
  <2>2. CASE OnPrice
    <3>1. TM!on_price(16 * p.price) /\ p \in Trades
      BY <2>2 DEF OnPrice, PacesInv
    <3>2. TP!on_price(16 * p.price)
      BY <3>1, Zenon DEF TM!on_price, TM!AfterTarget1, TM!close_trade, TM!ReportedR, TM!ActualR,
         TM!Row, TM!ResultOf, TM!StopHit, TM!StaysOpen,
         TP!on_price, TP!AfterTarget1, TP!close_trade, TP!ReportedR, TP!ActualR,
         TP!Row, TP!ResultOf, TP!StopHit, TP!StaysOpen
    <3>3. 16 * p.price \in {16 * t.price : t \in Trades}
      BY <3>1
    <3> QED BY <3>2, <3>3, Zenon DEF TP!TMNext
  <2>3. CASE OnSignal /\ RisingEdge
    <3>1. TM!on_signal(last_signal) /\ pc = "signal"
      BY <2>3 DEF OnSignal
    <3>2. TP!on_signal(last_signal)
      BY <3>1, Zenon DEF TM!on_signal, TM!Accepts, TM!Opened, TM!Risk,
         TP!on_signal, TP!Accepts, TP!Opened, TP!Risk
    <3>3. last_signal \in FeedSignals
      BY <2>3, SignalFits DEF ThreadInv, RisingEdge
    <3>4. next_trade_id <= MaxBars
      <4>1. /\ emitted = prism_signals + 1 /\ prism_signals \in Nat /\ emitted \in Nat
            /\ prism_signals = (next_trade_id - 1) + ignored
            /\ next_trade_id \in Nat /\ ignored \in Nat
        BY <2>3, <3>1 DEF ThreadInv, EdgeInv, TradesInv
      <4>2. emitted <= bars_processed /\ bars_processed <= MaxBars
            /\ bars_processed \in Nat /\ MaxBars \in Nat
        BY SettingsAssumption DEF PacesInv, ThreadInv, LiveInv, StrategyInv, StrategyTypeOK
      <4> QED BY <4>1, <4>2
    <3> QED BY <3>2, <3>3, <3>4, Zenon DEF TP!TMNext
  <2>4. CASE (OnSignal /\ ~RisingEdge) \/ Pop \/ OnTrade
    <3>1. UNCHANGED trader
      BY <2>4, Zenon DEF OnSignal, Pop, OnTrade
    <3> QED BY <2>1, <3>1
  <2>5. CASE UNCHANGED threadVars
    BY <2>1, <2>5 DEF threadVars
  <2> QED BY <2>2, <2>3, <2>4, <2>5 DEF ThreadNext
<1> QED BY <1>1, <1>2, ThreadInvariance, PacesInvariance, PricedInvariance, ThreadRunsBuilder,
           PTL DEF ThreadSpec, TP!TMSpec

-----------------------------------------------------------------------------
(* What the trade manager promises holds in the thread *)

\* A number that is a multiple of another leaves no remainder.
LEMMA NoRemainder ==
  ASSUME NEW r \in Nat \ {0}, NEW q \in Nat
  PROVE  (r * q) % r = 0
<1> DEFINE n == r * q
           d == n \div r
           m == n % r
<1>1. n \in Nat /\ d \in Int /\ m \in Int /\ n = r * d + m /\ 0 <= m /\ m < r
  OBVIOUS
<1> HIDE DEF d, m
<1>2. r * (q - d) = m
  BY <1>1
<1>3. q - d = 0
  <2>1. q - d \in Int
    BY <1>1
  <2> DEFINE k == q - d
  <2> HIDE DEF k
  <2>2. k >= 1 => r * k >= r
    BY <2>1 DEF k
  <2>3. k <= 0 - 1 => r * k < 0
    BY <2>1 DEF k
  <2> QED BY <1>1, <1>2, <2>1, <2>2, <2>3 DEF k
<1> QED BY <1>2, <1>3 DEF m, n

\* The members of the thread and of the objects it works with have their types,
\* and the unit of r_multiple fits the open trade (live_binance_engine.cpp:36-52).
THEOREM ThreadTyped == ThreadSpec => []ThreadTypeOK
<1>1. LiveTypeOK /\ ThreadInv /\ PacesInv /\ TP!TMInv => ThreadTypeOK
  <2> SUFFICES ASSUME LiveTypeOK, ThreadInv, PacesInv, TP!TMInv PROVE ThreadTypeOK
    OBVIOUS
  <2>1. TM!TMTypeOK
    BY DEF TP!TMInv, TP!TMTypeOK, TP!TradeType, TP!RowType, TP!Reasons,
       TM!TMTypeOK, TM!TradeType, TM!RowType, TM!Reasons
  <2>2. TM!IsOpen => R_UNIT % trade.initial_risk = 0
    <3>1. SUFFICES ASSUME TM!IsOpen PROVE R_UNIT % trade.initial_risk = 0
      OBVIOUS
    <3> DEFINE r == trade.initial_risk
               q == R_UNIT \div r
    <3>2. r \in Int /\ r > 0 /\ q \in Nat \ {0} /\ R_UNIT = r * q
      BY <3>1 DEF TP!TMInv, TP!TMTypeOK, TP!TradeType, TP!Levels, TP!IsOpen, TM!IsOpen
    <3> HIDE DEF r, q
    <3>3. r \in Nat \ {0} /\ q \in Nat
      BY <3>2
    <3>4. (r * q) % r = 0
      BY <3>3, NoRemainder
    <3> QED BY <3>2, <3>4 DEF r
  <2> QED BY <2>1, <2>2 DEF ThreadTypeOK, ThreadInv, EdgeInv, TradesInv, PacesInv
<1> QED BY <1>1, ThreadRunsBuilder, BuilderTyped, ThreadInvariance, PacesInvariance,
           ThreadRunsTrader, TP!TMInvariance, TraderAssumptions, PTL

\* In the engine thread every trade is booked once or still open, as its exit
\* says, and the log tells what the summary tells (trade_manager.cpp:85-183).
THEOREM ThreadBooksTrades ==
  ThreadSpec => [](/\ TP!TradesAccounted /\ TP!ResultMatchesExit
                   /\ TP!NoLossAfterTarget1 /\ TP!ReportNeverBelowActual
                   /\ TP!CsvAgreesWithSummary)
  BY ThreadRunsTrader, TraderAssumptions, TP!Accounted, TP!ResultFollowsExit,
     TP!Target1Protects, TP!ReportBounds, TP!LogAgrees, PTL

\* In the engine thread an open trade has both exits ahead of the last price,
\* and it is kept until it is booked (trade_manager.cpp:50, :85-154).
THEOREM ThreadKeepsTrade ==
  ThreadSpec => []TP!OpenTradeBracketed /\ TP!TradeKeptUntilBooked
  BY ThreadRunsTrader, TraderAssumptions, TP!Bracketed, TP!KeptUntilBooked, PTL

===============================================================================
