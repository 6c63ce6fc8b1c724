------------------------- MODULE PrismBacktest_proofs -------------------------
(***************************************************************************)
(* Proofs about PrismBacktest, for every file of bars and every setting.   *)
(*                                                                         *)
(* The body of the loop is a composition of blocks, and so is the proof:   *)
(* what holds of the locals of main() between two bars is split into the   *)
(* levels of an open trade, the story that breakouts, entries and trades   *)
(* tell, and the books; each block keeps each of the three, and what one   *)
(* block establishes (a trade that stays open was not out of its levels on *)
(* this bar) is what the next one starts from.                             *)
(***************************************************************************)
EXTENDS PrismBacktest, SequenceTheorems, FiniteSetTheorems, WellFoundedInduction, TLAPS

-----------------------------------------------------------------------------
(* Operators of the library and of arithmetic *)

\* A nonempty set of natural numbers has a least element.
LEMMA MinOfNats ==
  ASSUME NEW S, S \subseteq Nat, S # {}
  PROVE  Min(S) \in S /\ \A y \in S : Min(S) <= y
<1>1. \A x, y \in Nat : x < y => <<x, y>> \in OpToRel(<, Nat)
  BY Zenon DEF OpToRel
<1>2. PICK x \in S : \A y \in S : ~(<<y, x>> \in OpToRel(<, Nat))
  BY NatLessThanWellFounded, WFMin, Zenon
<1>3. \A y \in S : ~(y < x)
  BY <1>1, <1>2, Zenon
<1>4. \A y \in S : x <= y
  BY <1>3
<1> QED BY <1>2, <1>4 DEF Min

\* Every set of numbers with 0 that is closed under successor holds them all.
LEMMA NatInd ==
  ASSUME NEW P, 0 \in P, \A n \in Nat : n \in P => n + 1 \in P
  PROVE  Nat \subseteq P
<1> SUFFICES ASSUME Nat \ P # {} PROVE FALSE
  OBVIOUS
<1> DEFINE x == Min(Nat \ P)
<1>1. x \in Nat \ P /\ \A y \in Nat \ P : x <= y
  <2>1. Nat \ P \subseteq Nat
    OBVIOUS
  <2> QED BY <2>1, MinOfNats
<1> HIDE DEF x
<1>2. x # 0 /\ x - 1 \in Nat /\ (x - 1) + 1 = x
  BY <1>1
<1>3. x - 1 \in P
  BY <1>1, <1>2
<1> QED BY <1>1, <1>2, <1>3, Zenon

\* The smaller of two numbers.
LEMMA MinOfTwo ==
  ASSUME NEW a \in Int, NEW b \in Int
  PROVE  Min({a, b}) \in {a, b} /\ Min({a, b}) <= a /\ Min({a, b}) <= b
<1>1. \E x \in {a, b} : \A y \in {a, b} : x <= y
  OBVIOUS
<1> QED BY <1>1 DEF Min

\* What a division that rounds down returns.
LEMMA FloorBounds ==
  ASSUME NEW a \in Int, NEW d \in Nat \ {0}
  PROVE  a \div d \in Int /\ d * (a \div d) <= a /\ a < d * (a \div d) + d
OBVIOUS

\* The highest high of the lookback is a price, or zero.
LEMMA PrevHighIsPrice ==
  ASSUME NEW s, s.recent \in Seq(Bars)
  PROVE  PrevHigh(s) \in Nat /\ PrevHigh(s) % 2 = 0
<1> DEFINE N == Len(s.recent)
           H(n) == {0} \cup {s.recent[k].high : k \in 1 .. n}
           P == {n \in Nat : n <= N => \E x \in H(n) : \A y \in H(n) : x >= y}
<1>1. N \in Nat /\ \A k \in 1 .. N : s.recent[k].high \in Nat /\ s.recent[k].high % 2 = 0
  BY BarsAssumption
<1>2. 0 \in P
  <2>1. H(0) = {0}
    OBVIOUS
  <2> QED BY <2>1
<1>3. ASSUME NEW n \in Nat, n \in P PROVE n + 1 \in P
  <2> HIDE DEF H
  <2> SUFFICES ASSUME n + 1 <= N PROVE \E x \in H(n + 1) : \A y \in H(n + 1) : x >= y
    OBVIOUS
  <2>1. PICK x \in H(n) : \A y \in H(n) : x >= y
    <3>1. n <= N
      BY <1>1
    <3> QED BY <1>3, <3>1, Zenon
  <2> USE DEF H
  <2>2. H(n + 1) = H(n) \cup {s.recent[n + 1].high}
    BY <1>1, <1>3
  <2>3. x \in Nat /\ s.recent[n + 1].high \in Nat /\ \A y \in H(n) : y \in Nat
    BY <1>1, <1>3
  <2> HIDE DEF H
  <2>4. CASE x >= s.recent[n + 1].high
    BY <2>1, <2>2, <2>3, <2>4
  <2>5. CASE ~(x >= s.recent[n + 1].high)
    BY <2>1, <2>2, <2>3, <2>5
  <2> QED BY <2>4, <2>5
<1>4. N \in P
  <2> HIDE DEF P
  <2>1. Nat \subseteq P
    BY <1>2, <1>3, NatInd
  <2> QED BY <2>1, <1>1
<1>5. \E x \in H(N) : \A y \in H(N) : x >= y
  BY <1>1, <1>4
<1>6. PrevHigh(s) \in H(N)
  BY <1>5 DEF PrevHigh, Max
<1> QED BY <1>1, <1>6

-----------------------------------------------------------------------------
(* The locals of main() *)

Fields ==
  {"i", "recent", "trade_open", "prior_breakout", "can_reentry", "reentry_used",
   "breakout", "breakout_i", "entry_i", "entry", "stop", "t1", "t2", "R",
   "breakouts", "expired", "retests", "entries", "reentries", "rejections", "stops",
   "t1hits", "t2hits", "invalidations", "timeexits", "trade_id",
   "equity", "peak_equity", "max_dd", "intents", "entered", "trades"}

LoopReasons == {"STOP_HIT", "TARGET2_HIT", "TARGET1_HIT", "INVALID", "TIME_EXIT"}

IntentType ==
  [type : {"RE_ENTRY", "RETEST_ENTRY"}, at : Nat, breakout_i : Nat, breakout : Nat,
   entry : Int, stop : Int, accepted : BOOLEAN]

RowType ==
  [trade_id : Nat, entry : Int, stop : Int, reason : LoopReasons \cup {"DATA_END_EXIT"},
   r : Int, holding_bars : Int]

\* Types, as far as the proofs need them.
Shape(s) ==
  /\ DOMAIN s = Fields
  /\ s.i \in Nat /\ s.breakout_i \in Nat /\ s.entry_i \in Nat /\ s.trade_id \in Nat
  /\ s.recent \in Seq(Bars) /\ (s.i > 0 => s.recent # <<>>)
  /\ s.trade_open \in BOOLEAN /\ s.prior_breakout \in BOOLEAN
  /\ s.can_reentry \in BOOLEAN /\ s.reentry_used \in BOOLEAN
  /\ s.breakout \in Nat /\ s.breakout % 2 = 0
  /\ s.intents \in Seq(IntentType) /\ s.entered \in Seq(IntentType)
  /\ s.trades \in Seq(RowType)

\* The levels of an open trade: stop one R below, targets 1.5 and 2.5 R above.
OpenLevels(s) ==
  /\ s.R \in Nat \ {0} /\ s.R <= R_UNIT
  /\ s.entry \in Int /\ s.stop = s.entry - s.R
  /\ s.t1 \in Int /\ 2 * s.t1 = 2 * s.entry + 3 * s.R
  /\ s.t2 \in Int /\ 2 * s.t2 = 2 * s.entry + 5 * s.R

\* The close of a bar is within the levels, and the time is not up.
InLevels(s, b) ==
  s.stop < b.close /\ b.close < s.t1 /\ s.i - s.entry_i < TRADE_TTL

\* What the log says of one trade.
RowBracketed(t) ==
  /\ t.r = 0 - R_UNIT <=> t.reason = "STOP_HIT"
  /\ 0 - R_UNIT <= t.r /\ 2 * t.r <= 5 * R_UNIT
  /\ 2 * t.r >= 3 * R_UNIT <=> t.reason \in {"TARGET1_HIT", "TARGET2_HIT"}
  /\ t.holding_bars <= TRADE_TTL

RowsBracketed(ts) == \A k \in 1 .. Len(ts) : RowBracketed(ts[k])

-----------------------------------------------------------------------------
(* r_multiple *)

\* One R down is exactly -R_UNIT, a target exactly 1.5 or 2.5 of it, and every
\* price between stop and first target lies strictly between
\* (prism_backtest.cpp:147-154).
LEMMA MultipleOfLevels ==
  ASSUME NEW s, OpenLevels(s)
  PROVE  /\ Multiple(s, s.stop) = 0 - R_UNIT
         /\ 2 * Multiple(s, s.t1) = 3 * R_UNIT
         /\ 2 * Multiple(s, s.t2) = 5 * R_UNIT
<1> USE BacktestSettingsAssumption
<1>1. PICK u \in Nat : R_UNIT = 2 * u
  <2>1. R_UNIT = 2 * (R_UNIT \div 2) /\ R_UNIT \div 2 \in Nat
    OBVIOUS
  <2> QED BY <2>1
<1>2. \A k \in Int : (k * s.R) \div s.R = k
  BY DEF OpenLevels
<1>3. (s.stop - s.entry) * R_UNIT = (0 - R_UNIT) * s.R
  BY DEF OpenLevels
<1>4. (s.t1 - s.entry) * R_UNIT = (3 * u) * s.R
  <2>1. 2 * (s.t1 - s.entry) = 3 * s.R /\ s.t1 - s.entry \in Int /\ s.R \in Int
    BY DEF OpenLevels
  <2>2. (s.t1 - s.entry) * (2 * u) = (2 * (s.t1 - s.entry)) * u
    BY <2>1
  <2> QED BY <1>1, <2>1, <2>2
<1>5. (s.t2 - s.entry) * R_UNIT = (5 * u) * s.R
  <2>1. 2 * (s.t2 - s.entry) = 5 * s.R /\ s.t2 - s.entry \in Int /\ s.R \in Int
    BY DEF OpenLevels
  <2>2. (s.t2 - s.entry) * (2 * u) = (2 * (s.t2 - s.entry)) * u
    BY <2>1
  <2> QED BY <1>1, <2>1, <2>2
<1>6. Multiple(s, s.stop) = 0 - R_UNIT
  BY <1>2, <1>3 DEF Multiple
<1>7. Multiple(s, s.t1) = 3 * u /\ Multiple(s, s.t2) = 5 * u
  BY <1>2, <1>4, <1>5 DEF Multiple
<1> QED BY <1>1, <1>6, <1>7

\* Strictly between stop and first target the multiple is strictly between
\* -1 and 1.5 (prism_backtest.cpp:152-153).
LEMMA MultipleBetween ==
  ASSUME NEW s, OpenLevels(s), NEW price \in Int, s.stop < price, price < s.t1
  PROVE  /\ Multiple(s, price) \in Int
         /\ 0 - R_UNIT < Multiple(s, price) /\ 2 * Multiple(s, price) < 3 * R_UNIT
<1> USE BacktestSettingsAssumption
<1> DEFINE x == price - s.entry
           q == Multiple(s, price)
<1>1. x \in Int /\ s.R \in Nat \ {0} /\ 1 - s.R <= x /\ 2 * x <= 3 * s.R - 1 /\ s.R <= R_UNIT
  BY DEF OpenLevels
<1>2. q \in Int /\ s.R * q <= x * R_UNIT /\ x * R_UNIT < s.R * q + s.R
  <2>1. x * R_UNIT \in Int
    BY <1>1
  <2>2. q = (x * R_UNIT) \div s.R
    BY DEF Multiple
  <2> HIDE DEF x, q
  <2>3. PICK a \in Int : a = x * R_UNIT
    BY <2>1
  <2>4. a \div s.R \in Int /\ s.R * (a \div s.R) <= a /\ a < s.R * (a \div s.R) + s.R
    BY <1>1, FloorBounds
  <2>5. q = a \div s.R
    BY <2>2, <2>3
  <2> QED BY <2>3, <2>4, <2>5, Zenon
<1> HIDE DEF x, q
<1>3. (1 - s.R) * R_UNIT <= x * R_UNIT /\ (2 * x) * R_UNIT <= (3 * s.R - 1) * R_UNIT
  BY <1>1
<1>4. 0 - R_UNIT < q
  <2> SUFFICES ASSUME q <= 0 - R_UNIT PROVE FALSE
    BY <1>2
  <2>1. s.R * q <= s.R * (0 - R_UNIT)
    BY <1>1, <1>2
  <2>2. (1 - s.R) * R_UNIT < s.R * (0 - R_UNIT) + s.R
    BY <1>1, <1>2, <1>3, <2>1
  <2>3. (1 - s.R) * R_UNIT = R_UNIT + s.R * (0 - R_UNIT)
    BY <1>1
  <2> QED BY <1>1, <2>2, <2>3
<1>5. 2 * q < 3 * R_UNIT
  <2> SUFFICES ASSUME 3 * R_UNIT <= 2 * q PROVE FALSE
    BY <1>2
  <2>1. s.R * (3 * R_UNIT) <= s.R * (2 * q)
    BY <1>1, <1>2
  <2>2. s.R * (2 * q) = 2 * (s.R * q) /\ (2 * x) * R_UNIT = 2 * (x * R_UNIT)
    BY <1>1, <1>2
  <2>3. (3 * s.R - 1) * R_UNIT = s.R * (3 * R_UNIT) - R_UNIT
    BY <1>1
  <2> QED BY <1>1, <1>2, <1>3, <2>1, <2>2, <2>3
<1> QED BY <1>2, <1>4, <1>5 DEF q

-----------------------------------------------------------------------------
(* The exit of an open trade *)

\* What main() does once a reason and a price are decided.
Closed(s, reason, price) ==
  [Book(CountExit(s, reason), TradeRow(s, reason, price))
     EXCEPT !.trade_open = FALSE, !.can_reentry = MayReenter(reason)]

\* The price that goes with each reason, and what else is known then.
Decided(s, b, reason, price) ==
  \/ reason = "STOP_HIT" /\ price = s.stop
  \/ reason = "TARGET2_HIT" /\ price = s.t2
  \/ reason = "TARGET1_HIT" /\ price = s.t1
  \/ reason = "INVALID" /\ price = b.close /\ s.stop < price /\ price < s.t1
  \/ /\ reason = "TIME_EXIT" /\ price = b.close /\ s.stop < price /\ price < s.t1
     /\ s.i - s.entry_i >= TRADE_TTL

\* The first test that holds decides; if none does the trade stays open and the
\* bar has closed within its levels (prism_backtest.cpp:147-154).
LEMMA ExitDecides ==
  ASSUME NEW s, Shape(s), s.trade_open, OpenLevels(s), NEW b \in Bars
  PROVE  \/ ExitTrade(s, b) = s /\ InLevels(s, b)
         \/ \E reason \in LoopReasons, price \in Int :
              Decided(s, b, reason, price) /\ ExitTrade(s, b) = Closed(s, reason, price)
<1> DEFINE tests == ExitTests(s, b)
           I == {k \in 1 .. Len(tests) : tests[k].on}
<1>1. b.low \in Nat /\ b.high \in Nat /\ b.close \in Nat /\ b.low <= b.close /\ b.close <= b.high
  BY BarsAssumption
<1>2. Len(tests) = 5
  BY DEF ExitTests
<1>3. /\ tests[1] = [on |-> b.low <= s.stop, reason |-> "STOP_HIT", price |-> s.stop]
      /\ tests[2] = [on |-> b.high >= s.t2, reason |-> "TARGET2_HIT", price |-> s.t2]
      /\ tests[3] = [on |-> b.high >= s.t1, reason |-> "TARGET1_HIT", price |-> s.t1]
      /\ tests[4] = [on |-> Invalidated(s, b), reason |-> "INVALID", price |-> b.close]
      /\ tests[5] = [on |-> s.i - s.entry_i >= TRADE_TTL, reason |-> "TIME_EXIT", price |-> b.close]
  BY DEF ExitTests
<1>4. /\ tests[1].on <=> b.low <= s.stop
      /\ tests[3].on <=> b.high >= s.t1
      /\ tests[5].on <=> s.i - s.entry_i >= TRADE_TTL
  <2> HIDE DEF tests
  <2>1. tests[1].on <=> b.low <= s.stop
    <3>1. PICK e : e = tests[1]
      OBVIOUS
    <3>2. e = [on |-> b.low <= s.stop, reason |-> "STOP_HIT", price |-> s.stop]
      BY <1>3, <3>1, Zenon
    <3>3. e.on <=> b.low <= s.stop
      BY <3>2, Zenon
    <3> QED BY <3>1, <3>3, Zenon
  <2>2. tests[3].on <=> b.high >= s.t1
    <3>1. PICK e : e = tests[3]
      OBVIOUS
    <3>2. e = [on |-> b.high >= s.t1, reason |-> "TARGET1_HIT", price |-> s.t1]
      BY <1>3, <3>1, Zenon
    <3>3. e.on <=> b.high >= s.t1
      BY <3>2, Zenon
    <3> QED BY <3>1, <3>3, Zenon
  <2>3. tests[5].on <=> s.i - s.entry_i >= TRADE_TTL
    <3>1. PICK e : e = tests[5]
      OBVIOUS
    <3>2. e = [on |-> s.i - s.entry_i >= TRADE_TTL, reason |-> "TIME_EXIT", price |-> b.close]
      BY <1>3, <3>1, Zenon
    <3>3. e.on <=> s.i - s.entry_i >= TRADE_TTL
      BY <3>2, Zenon
    <3> QED BY <3>1, <3>3, Zenon
  <2> QED BY <2>1, <2>2, <2>3
<1>5. SelectInSeq(tests, LAMBDA e : e.on) = IF I # {} THEN Min(I) ELSE 0
  BY DEF SelectInSeq
<1>6. CASE I = {}
  <2>1. ~tests[1].on /\ ~tests[3].on /\ ~tests[5].on
    BY <1>2, <1>6
  <2>2. ~(b.low <= s.stop) /\ ~(b.high >= s.t1) /\ ~(s.i - s.entry_i >= TRADE_TTL)
    BY <1>4, <2>1, Zenon
  <2>3. InLevels(s, b)
    <3>1. s.i \in Nat /\ s.entry_i \in Nat
      BY Zenon DEF Shape
    <3>2. s.stop \in Int /\ s.t1 \in Int
      BY DEF OpenLevels
    <3>3. TRADE_TTL \in Nat
      BY BacktestSettingsAssumption
    <3> QED BY <1>1, <2>2, <3>1, <3>2, <3>3 DEF InLevels
  <2>4. SelectInSeq(tests, LAMBDA e : e.on) = 0
    BY <1>5, <1>6, Zenon
  <2>5. ExitTrade(s, b) = s
    BY <2>4 DEF ExitTrade
  <2> QED BY <2>3, <2>5
<1>7. CASE I # {}
  <2> DEFINE f == Min(I)
  <2>1. f \in I /\ \A k \in I : f <= k
    <3>1. I \subseteq Nat
      BY <1>2
    <3> QED BY <3>1, <1>7, MinOfNats
  <2>2. f \in 1 .. 5 /\ tests[f].on /\ \A k \in 1 .. 5 : k < f => ~tests[k].on
    BY <1>2, <2>1
  <2>3. ExitTrade(s, b) = Closed(s, tests[f].reason, tests[f].price)
    <3>1. SelectInSeq(tests, LAMBDA e : e.on) = f /\ f # 0
      <4>1. f # 0
        BY <2>2
      <4> QED BY <1>5, <1>7, <4>1, Zenon
    <3> QED BY <3>1, Zenon DEF ExitTrade, Closed
  <2> HIDE DEF f, tests
  <2>4. f > 3 => s.stop < b.close /\ b.close < s.t1
    BY <1>1, <1>4, <2>2 DEF OpenLevels
  <2>5. tests[f].reason \in LoopReasons /\ tests[f].price \in Int
    BY <1>1, <1>3, <2>2 DEF LoopReasons, OpenLevels
  <2>6. Decided(s, b, tests[f].reason, tests[f].price)
    <3>1. CASE f \in {1, 2, 3}
      BY <3>1, <1>3 DEF Decided
    <3>2. CASE f = 4
      BY <3>2, <1>3, <2>4 DEF Decided
    <3>3. CASE f = 5
      BY <3>3, <1>3, <1>4, <2>2, <2>4 DEF Decided
    <3> QED BY <2>2, <3>1, <3>2, <3>3
  <2> QED BY <2>3, <2>5, <2>6
<1> QED BY <1>6, <1>7

\* Without an open trade there is nothing to exit from.
LEMMA NothingToExit ==
  ASSUME NEW s, ~s.trade_open, NEW b
  PROVE  ExitTrade(s, b) = s
BY DEF ExitTrade

\* What closing a trade changes.
ClosesTrade(s, reason, price, c) ==
  /\ DOMAIN c = Fields
  /\ c.i = s.i /\ c.recent = s.recent
  /\ c.trade_open = FALSE /\ c.can_reentry = MayReenter(reason)
  /\ c.prior_breakout = s.prior_breakout /\ c.reentry_used = s.reentry_used
  /\ c.breakout = s.breakout /\ c.breakout_i = s.breakout_i /\ c.entry_i = s.entry_i
  /\ c.entered = s.entered /\ c.intents = s.intents
  /\ c.trades = Append(s.trades, TradeRow(s, reason, price))
  /\ c.breakouts = s.breakouts /\ c.expired = s.expired /\ c.retests = s.retests
  /\ c.entries = s.entries /\ c.rejections = s.rejections /\ c.trade_id = s.trade_id
  /\ c.reentries = s.reentries
  /\ c.stops = s.stops + (IF reason = "STOP_HIT" THEN 1 ELSE 0)
  /\ c.t1hits = s.t1hits + (IF reason = "TARGET1_HIT" THEN 1 ELSE 0)
  /\ c.t2hits = s.t2hits + (IF reason = "TARGET2_HIT" THEN 1 ELSE 0)
  /\ c.invalidations = s.invalidations + (IF reason = "INVALID" THEN 1 ELSE 0)
  /\ c.timeexits = s.timeexits + (IF reason = "TIME_EXIT" THEN 1 ELSE 0)
  /\ LET curve == AfterTrade([equity |-> s.equity, peak |-> s.peak_equity, dd |-> s.max_dd],
                             Multiple(s, price))
     IN  c.equity = curve.equity /\ c.peak_equity = curve.peak /\ c.max_dd = curve.dd

\* Booking a loop exit does just that (prism_backtest.cpp:147-160).
LEMMA ClosedFields ==
  ASSUME NEW s, Shape(s), NEW reason \in LoopReasons, NEW price,
         NEW c, c = Closed(s, reason, price)
  PROVE  ClosesTrade(s, reason, price, c)
<1> DEFINE row == TradeRow(s, reason, price)
           d == CountExit(s, reason)
           e == Book(d, row)
           curve == AfterTrade([equity |-> s.equity, peak |-> s.peak_equity, dd |-> s.max_dd],
                               Multiple(s, price))
<1>1. row.r = Multiple(s, price)
  BY DEF TradeRow
<1>2. /\ DOMAIN d = Fields
      /\ \A f \in Fields \ {"stops", "t1hits", "t2hits", "invalidations", "timeexits"} :
           d[f] = s[f]
      /\ d.stops = s.stops + (IF reason = "STOP_HIT" THEN 1 ELSE 0)
      /\ d.t1hits = s.t1hits + (IF reason = "TARGET1_HIT" THEN 1 ELSE 0)
      /\ d.t2hits = s.t2hits + (IF reason = "TARGET2_HIT" THEN 1 ELSE 0)
      /\ d.invalidations = s.invalidations + (IF reason = "INVALID" THEN 1 ELSE 0)
      /\ d.timeexits = s.timeexits + (IF reason = "TIME_EXIT" THEN 1 ELSE 0)
  BY DEF CountExit, Points, Shape, Fields
<1> HIDE DEF d, row
<1>3. /\ DOMAIN e = Fields
      /\ \A f \in Fields \ {"trades", "equity", "peak_equity", "max_dd"} : e[f] = d[f]
      /\ e.trades = Append(s.trades, row)
      /\ e.equity = curve.equity /\ e.peak_equity = curve.peak /\ e.max_dd = curve.dd
  BY <1>1, <1>2 DEF Book, AfterTrade, Fields
<1> HIDE DEF e, curve
<1>4. /\ DOMAIN c = Fields
      /\ \A f \in Fields \ {"trade_open", "can_reentry"} : c[f] = e[f]
      /\ c.trade_open = FALSE /\ c.can_reentry = MayReenter(reason)
  BY <1>3 DEF Closed, Fields, e, d, row, MayReenter
<1> QED BY <1>1, <1>2, <1>3, <1>4 DEF ClosesTrade, row, curve, Fields


-----------------------------------------------------------------------------
(* What the other blocks of the loop body change *)

\* A close above the previous highs after one that was not starts a breakout;
\* on any other bar nothing changes (prism_backtest.cpp:159).
LEMMA NewBreakoutFields ==
  ASSUME NEW s, Shape(s), NEW b
  PROVE  LET c == NewBreakout(s, b) IN
         \/ c = s
         \/ /\ DOMAIN c = Fields
            /\ \A f \in Fields \ {"prior_breakout", "breakout", "breakout_i", "breakouts",
                                  "can_reentry", "reentry_used"} : c[f] = s[f]
            /\ c.prior_breakout = TRUE /\ c.can_reentry = FALSE /\ c.reentry_used = FALSE
            /\ c.breakout = PrevHigh(s) /\ c.breakout_i = s.i
            /\ c.breakouts = s.breakouts + 1
BY DEF NewBreakout, Shape, Fields

\* A breakout older than the limit is dropped (prism_backtest.cpp:160).
LEMMA ExpireFields ==
  ASSUME NEW s, Shape(s)
  PROVE  LET c == Expire(s) IN
         \/ c = s /\ (s.prior_breakout => s.i - s.breakout_i <= ENTRY_TTL)
         \/ /\ s.prior_breakout
            /\ DOMAIN c = Fields
            /\ \A f \in Fields \ {"prior_breakout", "expired"} : c[f] = s[f]
            /\ c.prior_breakout = FALSE /\ c.expired = s.expired + 1
<1>1. s.i \in Nat /\ s.breakout_i \in Nat /\ DOMAIN s = Fields /\ ENTRY_TTL \in Nat
  BY BacktestSettingsAssumption DEF Shape
<1>2. CASE s.prior_breakout /\ s.i - s.breakout_i > ENTRY_TTL
  BY <1>1, <1>2 DEF Expire, Fields
<1>3. CASE ~(s.prior_breakout /\ s.i - s.breakout_i > ENTRY_TTL)
  BY <1>1, <1>3 DEF Expire
<1> QED BY <1>2, <1>3

\* A retest sets the levels; nothing else but its counter changes.
LEMMA LevelsFields ==
  ASSUME NEW s, Shape(s), NEW b
  PROVE  LET c == Levels(s, b) IN
         /\ DOMAIN c = Fields
         /\ \A f \in Fields \ {"retests", "entry", "stop", "R", "t1", "t2"} : c[f] = s[f]
         /\ c.retests = s.retests + 1 /\ c.entry = b.close
         /\ c.stop = Min({b.close - (6 * b.atr14) \div 5, ZoneLow(s, b)})
         /\ c.R = b.close - c.stop
         /\ c.t1 = b.close + (3 * c.R) \div 2 /\ c.t2 = b.close + (5 * c.R) \div 2
BY DEF Levels, Shape, Fields

\* An accepted retest opens a trade and uses up what made it eligible
\* (prism_backtest.cpp:190-191).
LEMMA AcceptFields ==
  ASSUME NEW s, Shape(s), NEW t, DOMAIN t = Fields
  PROVE  LET c == Accept(t) IN
         /\ DOMAIN c = Fields
         /\ \A f \in Fields \ {"trade_open", "entry_i", "trade_id", "entries", "entered",
                               "reentries", "reentry_used", "prior_breakout", "can_reentry"} :
              c[f] = t[f]
         /\ c.trade_open = TRUE /\ c.prior_breakout = FALSE /\ c.can_reentry = FALSE
         /\ c.entry_i = t.i /\ c.trade_id = t.trade_id + 1 /\ c.entries = t.entries + 1
         /\ c.entered = Append(t.entered, Intent(t, TRUE))
         /\ c.reentry_used = (t.reentry_used \/ t.can_reentry)
         /\ c.reentries = t.reentries + (IF t.can_reentry THEN 1 ELSE 0)
BY DEF Accept, Points, Fields

\* A rejected one is only counted.
LEMMA RejectFields ==
  ASSUME NEW t, DOMAIN t = Fields
  PROVE  LET c == Reject(t) IN
         /\ DOMAIN c = Fields
         /\ \A f \in Fields \ {"rejections"} : c[f] = t[f]
         /\ c.rejections = t.rejections + 1
BY DEF Reject, Fields

\* The next bar has the number one higher, and this one is the last seen.
LEMMA NextBarFields ==
  ASSUME NEW s, Shape(s), NEW b \in Bars
  PROVE  LET c == NextBar(s, b) IN
         /\ DOMAIN c = Fields
         /\ \A f \in Fields \ {"i", "recent"} : c[f] = s[f]
         /\ c.i = s.i + 1
         /\ c.recent \in Seq(Bars) /\ c.recent # <<>> /\ Last(c.recent) = b
<1> DEFINE seen == Append(s.recent, b)
           c == NextBar(s, b)
<1>1. s.recent \in Seq(Bars) /\ DOMAIN s = Fields
  BY Zenon DEF Shape
<1>2. seen \in Seq(Bars) /\ Len(seen) = Len(s.recent) + 1 /\ seen[Len(seen)] = b
  BY <1>1
<1>3. c.recent = IF Len(seen) > LOOKBACK THEN Tail(seen) ELSE seen
  BY <1>1 DEF NextBar, Fields
<1>4. DOMAIN c = Fields /\ c.i = s.i + 1 /\ \A f \in Fields \ {"i", "recent"} : c[f] = s[f]
  BY <1>1 DEF NextBar, Fields
<1> HIDE DEF seen, c
<1>5. CASE Len(seen) > LOOKBACK
  <2>1. c.recent = Tail(seen) /\ Len(seen) > 1
    BY <1>2, <1>3, <1>5, BacktestSettingsAssumption
  <2>2. c.recent \in Seq(Bars) /\ Len(c.recent) = Len(seen) - 1 /\ Len(c.recent) \in Nat
    BY <1>2, <2>1
  <2>3. c.recent[Len(c.recent)] = seen[Len(seen)]
    BY <1>2, <2>1, <2>2
  <2>4. Last(c.recent) = b
    BY <1>2, <2>3, Zenon DEF Last
  <2>5. c.recent # <<>>
    <3>1. Len(c.recent) # 0
      BY <2>1, <2>2
    <3>2. Len(<< >>) = 0
      OBVIOUS
    <3> QED BY <3>1, <3>2, Zenon
  <2> QED BY <1>4, <2>2, <2>4, <2>5, Zenon DEF c
<1>6. CASE ~(Len(seen) > LOOKBACK)
  BY <1>2, <1>3, <1>4, <1>6 DEF Last, c
<1> QED BY <1>5, <1>6


-----------------------------------------------------------------------------
(* The levels of a trade, and the rows that the exits write *)

\* While a bar is looked at, after the exits.
LevelsInBar(s, b) ==
  /\ Shape(s) /\ RowsBracketed(s.trades)
  /\ s.trade_open => OpenLevels(s) /\ InLevels(s, b)

\* Between two bars.
LevelsBetween(s) ==
  /\ Shape(s) /\ RowsBracketed(s.trades)
  /\ s.trade_open =>
       /\ OpenLevels(s) /\ s.i > 0 /\ s.i - s.entry_i <= TRADE_TTL
       /\ s.stop < Last(s.recent).close /\ Last(s.recent).close < s.t1

\* The row of a trade that a test closed is typed and bracketed
\* (prism_backtest.cpp:147-154, :197).
LEMMA DecidedRow ==
  ASSUME NEW s, Shape(s), OpenLevels(s), s.i - s.entry_i <= TRADE_TTL,
         NEW b, NEW reason \in LoopReasons, NEW price \in Int, Decided(s, b, reason, price)
  PROVE  /\ TradeRow(s, reason, price) \in RowType
         /\ RowBracketed(TradeRow(s, reason, price))
<1> DEFINE row == TradeRow(s, reason, price)
           m == Multiple(s, price)
<1>1. /\ row.r = m /\ row.reason = reason /\ row.holding_bars = s.i - s.entry_i
      /\ row = [trade_id |-> s.trade_id, entry |-> s.entry, stop |-> s.stop,
                reason |-> reason, r |-> m, holding_bars |-> s.i - s.entry_i]
  BY DEF TradeRow
<1>2. s.i - s.entry_i \in Int /\ s.trade_id \in Nat
  <2>1. s.i \in Nat /\ s.entry_i \in Nat /\ s.trade_id \in Nat
    BY Zenon DEF Shape
  <2> QED BY <2>1
<1>3. R_UNIT \in Nat \ {0}
  BY BacktestSettingsAssumption
<1> HIDE DEF row
<1>4. m \in Int /\ (reason = "STOP_HIT" <=> m = 0 - R_UNIT) /\ 0 - R_UNIT <= m
      /\ 2 * m <= 5 * R_UNIT
      /\ (reason \in {"TARGET1_HIT", "TARGET2_HIT"} <=> 2 * m >= 3 * R_UNIT)
  <2>0. /\ Multiple(s, s.stop) = 0 - R_UNIT
        /\ 2 * Multiple(s, s.t1) = 3 * R_UNIT /\ 2 * Multiple(s, s.t2) = 5 * R_UNIT
    BY MultipleOfLevels
  <2>1. m \in Int
    <3>1. (price - s.entry) * R_UNIT \in Int /\ s.R \in Nat \ {0}
      BY <1>3 DEF OpenLevels
    <3>2. PICK a \in Int : a = (price - s.entry) * R_UNIT
      BY <3>1
    <3>3. a \div s.R \in Int
      BY <3>1, FloorBounds
    <3> QED BY <3>2, <3>3, Zenon DEF Multiple
  <2>2. CASE reason = "STOP_HIT" /\ price = s.stop
    <3>1. m = 0 - R_UNIT
      BY <2>0, <2>2
    <3> HIDE DEF m
    <3> QED BY <3>1, <2>1, <2>2, <1>3
  <2>3. CASE reason = "TARGET2_HIT" /\ price = s.t2
    <3>1. 2 * m = 5 * R_UNIT
      BY <2>0, <2>3
    <3> HIDE DEF m
    <3> QED BY <3>1, <2>1, <2>3, <1>3
  <2>4. CASE reason = "TARGET1_HIT" /\ price = s.t1
    <3>1. 2 * m = 3 * R_UNIT
      BY <2>0, <2>4
    <3> HIDE DEF m
    <3> QED BY <3>1, <2>1, <2>4, <1>3
  <2>5. CASE reason \in {"INVALID", "TIME_EXIT"} /\ s.stop < price /\ price < s.t1
    <3>1. 0 - R_UNIT < m /\ 2 * m < 3 * R_UNIT
      BY <2>5, MultipleBetween
    <3> HIDE DEF m
    <3> QED BY <3>1, <2>1, <2>5, <1>3
  <2> QED BY <2>2, <2>3, <2>4, <2>5 DEF Decided
<1> HIDE DEF m
<1>5. row \in RowType
  BY <1>1, <1>2, <1>4 DEF RowType, OpenLevels
<1>6. RowBracketed(row)
  BY <1>1, <1>4 DEF RowBracketed
<1> QED BY <1>5, <1>6 DEF row

\* One more bracketed row.
LEMMA OneMoreRow ==
  ASSUME NEW ts \in Seq(RowType), RowsBracketed(ts), NEW row \in RowType, RowBracketed(row)
  PROVE  Append(ts, row) \in Seq(RowType) /\ RowsBracketed(Append(ts, row))
<1>1. /\ Append(ts, row) \in Seq(RowType) /\ Len(Append(ts, row)) = Len(ts) + 1
      /\ Len(ts) \in Nat
      /\ \A k \in 1 .. Len(ts) + 1 :
           Append(ts, row)[k] = IF k = Len(ts) + 1 THEN row ELSE ts[k]
  OBVIOUS
<1>2. ASSUME NEW k \in 1 .. Len(ts) + 1 PROVE RowBracketed(Append(ts, row)[k])
  <2>1. CASE k = Len(ts) + 1
    BY <1>1, <2>1
  <2>2. CASE k # Len(ts) + 1
    BY <1>1, <2>2 DEF RowsBracketed
  <2> QED BY <2>1, <2>2
<1> QED BY <1>1, <1>2 DEF RowsBracketed

\* The levels that a retest sets are in order once no reason to reject applies
\* (prism_backtest.cpp:166-190).
LEMMA RetestLevels ==
  ASSUME NEW s, Shape(s), NEW b \in Bars, NEW t, t = Levels(s, b), NoReason(t, b)
  PROVE  /\ OpenLevels(t) /\ t.stop < b.close /\ b.close < t.t1
         /\ t.entry = b.close /\ t.stop <= t.breakout /\ t.breakout < t.entry
<1>1. /\ t.entry = b.close /\ t.breakout = s.breakout
      /\ t.stop = Min({b.close - (6 * b.atr14) \div 5, ZoneLow(s, b)})
      /\ t.R = b.close - t.stop
      /\ t.t1 = b.close + (3 * t.R) \div 2 /\ t.t2 = b.close + (5 * t.R) \div 2
  <2>1. ASSUME NEW u, u = Levels(s, b) PROVE u.breakout = s.breakout
    <3> DEFINE v == Levels(s, b)
    <3>1. \A f \in Fields \ {"retests", "entry", "stop", "R", "t1", "t2"} : v[f] = s[f]
      BY LevelsFields
    <3>2. v.breakout = s.breakout
      <4> HIDE DEF v
      <4> QED BY <3>1 DEF Fields
    <3> QED BY <2>1, <3>2, Zenon
  <2>2. t.breakout = s.breakout
    BY <2>1
  <2>3. t.entry = b.close /\ t.stop = Min({b.close - (6 * b.atr14) \div 5, ZoneLow(s, b)})
    BY LevelsFields, Zenon
  <2>4. t.R = b.close - t.stop
    BY LevelsFields, Zenon
  <2>5. t.t1 = b.close + (3 * t.R) \div 2 /\ t.t2 = b.close + (5 * t.R) \div 2
    BY LevelsFields, Zenon
  <2> QED BY <2>2, <2>3, <2>4, <2>5, Zenon
<1>2. b.close > t.breakout /\ t.R > 0
  BY DEF NoReason
<1>3. /\ b.close \in Nat /\ b.close % 2 = 0 /\ b.atr14 \in Nat /\ b.atr14 % 20 = 0
      /\ b.close + 2 * b.atr14 <= R_UNIT
  BY BarsAssumption
<1>4. s.breakout \in Nat /\ s.breakout % 2 = 0
  BY Zenon DEF Shape
<1>5. PICK q \in Nat : b.atr14 = 20 * q
  <2>1. b.atr14 = 20 * (b.atr14 \div 20) /\ b.atr14 \div 20 \in Nat
    BY <1>3
  <2> QED BY <2>1
<1>6. (6 * b.atr14) \div 5 = 24 * q /\ b.atr14 \div 10 = 2 * q
  BY <1>5
<1>7. ZoneLow(s, b) = s.breakout - 2 * q /\ ZoneLow(s, b) \in Int
  BY <1>4, <1>6 DEF ZoneLow
<1>8. /\ t.stop \in {b.close - 24 * q, s.breakout - 2 * q}
      /\ t.stop <= s.breakout - 2 * q
  <2>1. PICK x : x = b.close - (6 * b.atr14) \div 5
    OBVIOUS
  <2>2. PICK y : y = ZoneLow(s, b)
    OBVIOUS
  <2>3. x \in Int /\ y \in Int /\ x = b.close - 24 * q /\ y = s.breakout - 2 * q
    BY <1>3, <1>4, <1>6, <1>7, <2>1, <2>2
  <2>4. t.stop = Min({x, y})
    BY <1>1, <2>1, <2>2
  <2>5. Min({x, y}) \in {x, y} /\ Min({x, y}) <= y
    BY <2>3, MinOfTwo
  <2> QED BY <2>3, <2>4, <2>5
<1>9. t.stop \in Int /\ t.R \in Nat \ {0} /\ t.R % 2 = 0
  BY <1>1, <1>2, <1>3, <1>4, <1>8
<1>10. t.R <= R_UNIT
  <2>1. R_UNIT \in Nat
    BY BacktestSettingsAssumption
  <2>2. b.close + 40 * q <= R_UNIT
    BY <1>3, <1>5
  <2> QED BY <1>1, <1>3, <1>4, <1>8, <2>1, <2>2
<1>11. PICK h \in Nat : t.R = 2 * h
  <2>1. t.R = 2 * (t.R \div 2) /\ t.R \div 2 \in Nat
    BY <1>9
  <2> QED BY <2>1
<1>12. t.t1 = b.close + 3 * h /\ t.t2 = b.close + 5 * h /\ h > 0
  BY <1>1, <1>9, <1>11
<1>13. OpenLevels(t)
  BY <1>1, <1>3, <1>9, <1>10, <1>11, <1>12 DEF OpenLevels
<1>14. t.stop < b.close /\ b.close < t.t1 /\ t.stop <= t.breakout /\ t.breakout < t.entry
  BY <1>1, <1>2, <1>3, <1>4, <1>8, <1>9, <1>11, <1>12
<1> QED BY <1>1, <1>13, <1>14


\* Whether it is accepted or not, a retest has whole numbers for levels
\* (prism_backtest.cpp:186).
LEMMA LevelsTyped ==
  ASSUME NEW s, Shape(s), NEW b \in Bars
  PROVE  LET t == Levels(s, b) IN t.entry \in Int /\ t.stop \in Int
<1> DEFINE t == Levels(s, b)
<1>1. t.entry = b.close /\ t.stop = Min({b.close - (6 * b.atr14) \div 5, ZoneLow(s, b)})
  BY LevelsFields, Zenon
<1> HIDE DEF t
<1>2. b.close \in Nat /\ b.atr14 \in Nat /\ s.breakout \in Nat
  BY BarsAssumption DEF Shape
<1>3. PICK x \in Int : x = b.close - (6 * b.atr14) \div 5
  BY <1>2
<1>4. PICK y \in Int : y = ZoneLow(s, b)
  BY <1>2 DEF ZoneLow
<1>5. Min({x, y}) \in {x, y}
  BY MinOfTwo
<1> QED BY <1>1, <1>2, <1>3, <1>4, <1>5 DEF t

\* The row of a retest says whether it is accepted; the verdict and what an entry
\* takes over are the same before and after the row is written
\* (prism_backtest.cpp:172-189).
LEMMA LogRetestFields ==
  ASSUME NEW s, Shape(s), NEW b \in Bars
  PROVE  LET c == LogRetest(s, b) IN
         /\ DOMAIN c = Fields
         /\ \A f \in Fields \ {"retests", "entry", "stop", "R", "t1", "t2", "intents"} :
              c[f] = s[f]
         /\ c.retests = s.retests + 1
         /\ \E ok \in BOOLEAN :
              /\ ok <=> NoReason(c, b)
              /\ Intent(c, ok) \in IntentType
              /\ c.intents = Append(s.intents, Intent(c, ok))
         /\ c.intents \in Seq(IntentType)
         /\ NoReason(c, b) =>
              /\ OpenLevels(c) /\ c.stop < b.close /\ b.close < c.t1
              /\ c.entry = b.close /\ c.stop <= c.breakout /\ c.breakout < c.entry
<1> DEFINE t == Levels(s, b)
           c == LogRetest(s, b)
           ok == NoReason(t, b)
           it == Intent(t, ok)
<1>1. /\ DOMAIN t = Fields /\ t.retests = s.retests + 1
      /\ \A f \in Fields \ {"retests", "entry", "stop", "R", "t1", "t2"} : t[f] = s[f]
  BY LevelsFields
<1>2. t.entry \in Int /\ t.stop \in Int
  BY LevelsTyped
<1>3. ok \in BOOLEAN
  BY Zenon DEF NoReason
<1>4. ok => /\ OpenLevels(t) /\ t.stop < b.close /\ b.close < t.t1
            /\ t.entry = b.close /\ t.stop <= t.breakout /\ t.breakout < t.entry
  BY RetestLevels, Zenon
<1>5. c = [t EXCEPT !.intents = Append(@, it)]
  BY Zenon DEF LogRetest
<1> HIDE DEF t, ok, c, it
<1>6. /\ DOMAIN c = Fields /\ c.intents = Append(t.intents, it)
      /\ \A f \in Fields \ {"intents"} : c[f] = t[f]
  BY <1>1, <1>5 DEF Fields
<1>7. /\ t.i = s.i /\ t.breakout_i = s.breakout_i /\ t.breakout = s.breakout
      /\ t.can_reentry = s.can_reentry /\ t.intents = s.intents
  BY <1>1 DEF Fields
<1>8. /\ c.i = t.i /\ c.breakout_i = t.breakout_i /\ c.breakout = t.breakout
      /\ c.can_reentry = t.can_reentry /\ c.recent = t.recent
      /\ c.entry = t.entry /\ c.stop = t.stop /\ c.R = t.R /\ c.t1 = t.t1 /\ c.t2 = t.t2
      /\ c.retests = t.retests
  BY <1>6 DEF Fields
<1>9. ok <=> NoReason(c, b)
  <2>1. PrevHigh(c) = PrevHigh(t)
    BY <1>8, Zenon DEF PrevHigh
  <2> QED BY <1>8, <2>1 DEF ok, NoReason
<1>10. it = Intent(c, ok)
  BY <1>8, Zenon DEF it, Intent
<1>11. it \in IntentType
  <2>1. s.i \in Nat /\ s.breakout_i \in Nat /\ s.breakout \in Nat
    BY Zenon DEF Shape
  <2>2. PICK x \in {"RE_ENTRY", "RETEST_ENTRY"} :
          x = IF t.can_reentry THEN "RE_ENTRY" ELSE "RETEST_ENTRY"
    OBVIOUS
  <2>3. it = [type |-> x, at |-> t.i, breakout_i |-> t.breakout_i, breakout |-> t.breakout,
              entry |-> t.entry, stop |-> t.stop, accepted |-> ok]
    BY <2>2, Zenon DEF it, Intent
  <2> QED BY <1>2, <1>3, <1>7, <2>1, <2>2, <2>3 DEF IntentType
<1>12. s.intents \in Seq(IntentType)
  BY Zenon DEF Shape
<1>13. c.intents = Append(s.intents, it)
  BY <1>6, <1>7, Zenon
<1>14. c.intents \in Seq(IntentType)
  BY <1>11, <1>12, <1>13
<1>15. \A f \in Fields \ {"retests", "entry", "stop", "R", "t1", "t2", "intents"} : c[f] = s[f]
  BY <1>1, <1>6, Zenon
<1>16. ok => /\ OpenLevels(c) /\ c.stop < b.close /\ b.close < c.t1
             /\ c.entry = b.close /\ c.stop <= c.breakout /\ c.breakout < c.entry
  BY <1>4, <1>8, Zenon DEF OpenLevels
<1>17. \E x \in BOOLEAN :
         /\ x <=> NoReason(c, b)
         /\ Intent(c, x) \in IntentType
         /\ c.intents = Append(s.intents, Intent(c, x))
  BY <1>3, <1>9, <1>10, <1>11, <1>13, Zenon
<1> QED BY <1>1, <1>6, <1>8, <1>9, <1>14, <1>15, <1>16, <1>17, Zenon DEF c

-----------------------------------------------------------------------------
(* Types, levels and rows through the blocks of the loop body *)

\* The exits leave either no trade or one whose levels the bar kept.
LEMMA ExitKeepsLevels ==
  ASSUME NEW s, LevelsBetween(s), NEW b \in Bars
  PROVE  LevelsInBar(ExitTrade(s, b), b)
<1>0. Shape(s) /\ RowsBracketed(s.trades)
  BY DEF LevelsBetween
<1>1. CASE ~s.trade_open
  BY <1>0, <1>1, NothingToExit DEF LevelsInBar
<1>2. CASE s.trade_open /\ ExitTrade(s, b) = s /\ InLevels(s, b)
  BY <1>0, <1>2 DEF LevelsInBar, LevelsBetween
<1>3. ASSUME s.trade_open, NEW reason \in LoopReasons, NEW price \in Int,
             Decided(s, b, reason, price)
      PROVE  LevelsInBar(Closed(s, reason, price), b)
  <2> DEFINE c == Closed(s, reason, price)
             row == TradeRow(s, reason, price)
  <2>1. row \in RowType /\ RowBracketed(row)
    BY <1>0, <1>3, DecidedRow DEF LevelsBetween
  <2>2. /\ DOMAIN c = Fields
        /\ c.i = s.i /\ c.recent = s.recent
        /\ c.trade_open = FALSE /\ c.can_reentry = MayReenter(reason)
        /\ c.prior_breakout = s.prior_breakout /\ c.reentry_used = s.reentry_used
        /\ c.breakout = s.breakout /\ c.breakout_i = s.breakout_i /\ c.entry_i = s.entry_i
        /\ c.entered = s.entered /\ c.intents = s.intents /\ c.trades = Append(s.trades, row)
        /\ c.trade_id = s.trade_id
    <3>1. ClosesTrade(s, reason, price, c)
      BY <1>0, <1>3, ClosedFields, Zenon
    <3> HIDE DEF c, row
    <3>2. ClosesTrade(s, reason, price, c) =>
            c.trades = Append(s.trades, row)
      BY DEF ClosesTrade, row
    <3> QED BY <3>1, <3>2 DEF ClosesTrade
  <2> HIDE DEF c, row
  <2>3. s.trades \in Seq(RowType)
    BY <1>0 DEF Shape
  <2>4. c.trades \in Seq(RowType) /\ RowsBracketed(c.trades)
    BY <1>0, <2>1, <2>2, <2>3, OneMoreRow
  <2>5. MayReenter(reason) \in BOOLEAN
    BY DEF MayReenter
  <2>6. Shape(c)
    BY <1>0, <2>2, <2>4, <2>5, Zenon DEF Shape
  <2>7. ~c.trade_open
    BY <2>2
  <2> QED BY <2>4, <2>6, <2>7, Zenon DEF LevelsInBar, c
<1>4. CASE s.trade_open
  <2>1. Shape(s) /\ OpenLevels(s)
    BY <1>4, <1>0 DEF LevelsBetween
  <2> QED BY <1>2, <1>3, <1>4, <2>1, ExitDecides, Zenon
<1> QED BY <1>1, <1>4

\* A new breakout changes no level and no row.
LEMMA BreakoutKeepsLevels ==
  ASSUME NEW s, NEW b, LevelsInBar(s, b), ~s.trade_open
  PROVE  LET c == NewBreakout(s, b) IN LevelsInBar(c, b) /\ ~c.trade_open
<1> DEFINE c == NewBreakout(s, b)
<1>1. Shape(s) /\ RowsBracketed(s.trades)
  BY DEF LevelsInBar
<1>2. CASE c = s
  BY <1>2
<1>3. CASE c # s
  <2>1. PrevHigh(s) \in Nat /\ PrevHigh(s) % 2 = 0
    BY <1>1, PrevHighIsPrice DEF Shape
  <2>2. /\ DOMAIN c = Fields
        /\ \A f \in Fields \ {"prior_breakout", "breakout", "breakout_i", "breakouts",
                              "can_reentry", "reentry_used"} : c[f] = s[f]
        /\ c.prior_breakout = TRUE /\ c.can_reentry = FALSE /\ c.reentry_used = FALSE
        /\ c.breakout = PrevHigh(s) /\ c.breakout_i = s.i
    BY <1>1, <1>3, NewBreakoutFields
  <2> HIDE DEF c
  <2>3. /\ c.i = s.i /\ c.entry_i = s.entry_i /\ c.trade_id = s.trade_id
        /\ c.recent = s.recent /\ c.trade_open = s.trade_open
        /\ c.entered = s.entered /\ c.intents = s.intents /\ c.trades = s.trades
    BY <2>2 DEF Fields
  <2>4. Shape(c)
    BY <1>1, <2>1, <2>2, <2>3, Zenon DEF Shape
  <2> QED BY <1>1, <2>3, <2>4, Zenon DEF LevelsInBar, c
<1> QED BY <1>2, <1>3

\* Neither does the expiry of one.
LEMMA ExpireKeepsLevels ==
  ASSUME NEW s, NEW b, LevelsInBar(s, b), ~s.trade_open
  PROVE  LET c == Expire(s) IN LevelsInBar(c, b) /\ ~c.trade_open
<1> DEFINE c == Expire(s)
<1>1. Shape(s) /\ RowsBracketed(s.trades)
  BY DEF LevelsInBar
<1>2. CASE c = s
  BY <1>2
<1>3. CASE c # s
  <2>2. /\ DOMAIN c = Fields
        /\ \A f \in Fields \ {"prior_breakout", "expired"} : c[f] = s[f]
        /\ c.prior_breakout = FALSE
    BY <1>1, <1>3, ExpireFields
  <2> HIDE DEF c
  <2>3. /\ c.i = s.i /\ c.entry_i = s.entry_i /\ c.trade_id = s.trade_id
        /\ c.recent = s.recent /\ c.trade_open = s.trade_open
        /\ c.breakout = s.breakout /\ c.breakout_i = s.breakout_i
        /\ c.can_reentry = s.can_reentry /\ c.reentry_used = s.reentry_used
        /\ c.entered = s.entered /\ c.intents = s.intents /\ c.trades = s.trades
    BY <2>2 DEF Fields
  <2>4. Shape(c)
    BY <1>1, <2>2, <2>3, Zenon DEF Shape
  <2> QED BY <1>1, <2>3, <2>4, Zenon DEF LevelsInBar, c
<1> QED BY <1>2, <1>3

\* An entry opens a trade with its levels in order on this bar, and a rejected
\* retest leaves no trade open.
LEMMA EntryKeepsLevels ==
  ASSUME NEW s, NEW b \in Bars, LevelsInBar(s, b), ~s.trade_open
  PROVE  LevelsInBar(TryEntry(s, b), b)
<1> DEFINE t == LogRetest(s, b)
<1>0. Shape(s) /\ RowsBracketed(s.trades)
  BY DEF LevelsInBar
<1>1. /\ DOMAIN t = Fields
      /\ \A f \in Fields \ {"retests", "entry", "stop", "R", "t1", "t2", "intents"} :
           t[f] = s[f]
      /\ t.intents \in Seq(IntentType)
  BY <1>0, LogRetestFields, Zenon
<1>1a. NoReason(t, b) =>
         OpenLevels(t) /\ t.stop < b.close /\ b.close < t.t1 /\ t.entry = b.close
  BY <1>0, LogRetestFields, Zenon
<1> HIDE DEF t
<1>2. /\ t.i = s.i /\ t.entry_i = s.entry_i /\ t.trade_id = s.trade_id
      /\ t.recent = s.recent /\ t.trade_open = s.trade_open
      /\ t.prior_breakout = s.prior_breakout
      /\ t.breakout = s.breakout /\ t.breakout_i = s.breakout_i
      /\ t.can_reentry = s.can_reentry /\ t.reentry_used = s.reentry_used
      /\ t.entered = s.entered /\ t.trades = s.trades
  BY <1>1 DEF Fields
<1>3. Shape(t)
  BY <1>0, <1>1, <1>2, Zenon DEF Shape
<1>4. LevelsInBar(Reject(t), b)
  <2> DEFINE c == Reject(t)
  <2>1. DOMAIN c = Fields /\ \A f \in Fields \ {"rejections"} : c[f] = t[f]
    BY <1>1, RejectFields
  <2> HIDE DEF c
  <2>2. /\ c.i = t.i /\ c.entry_i = t.entry_i /\ c.trade_id = t.trade_id
        /\ c.recent = t.recent /\ c.trade_open = t.trade_open
        /\ c.prior_breakout = t.prior_breakout
        /\ c.breakout = t.breakout /\ c.breakout_i = t.breakout_i
        /\ c.can_reentry = t.can_reentry /\ c.reentry_used = t.reentry_used
        /\ c.entered = t.entered /\ c.intents = t.intents /\ c.trades = t.trades
    BY <2>1 DEF Fields
  <2>3. Shape(c)
    BY <1>3, <2>1, <2>2, Zenon DEF Shape
  <2> QED BY <1>0, <1>2, <2>2, <2>3, Zenon DEF LevelsInBar, c
<1>5. ASSUME NoReason(t, b) PROVE LevelsInBar(Accept(t), b)
  <2> DEFINE c == Accept(t)
  <2>1. /\ OpenLevels(t) /\ t.stop < b.close /\ b.close < t.t1 /\ t.entry = b.close
    BY <1>1a, <1>5, Zenon
  <2>2. /\ DOMAIN c = Fields
        /\ \A f \in Fields \ {"trade_open", "entry_i", "trade_id", "entries", "entered",
                              "reentries", "reentry_used", "prior_breakout", "can_reentry"} :
             c[f] = t[f]
        /\ c.trade_open = TRUE /\ c.prior_breakout = FALSE /\ c.can_reentry = FALSE
        /\ c.entry_i = t.i /\ c.trade_id = t.trade_id + 1
        /\ c.entered = Append(t.entered, Intent(t, TRUE))
    BY <1>1, <1>3, AcceptFields, Zenon
  <2>2a. c.reentry_used = (t.reentry_used \/ t.can_reentry)
    BY <1>1, <1>3, AcceptFields, Zenon
  <2> HIDE DEF c
  <2>3. /\ c.i = t.i /\ c.recent = t.recent /\ c.trades = t.trades
        /\ c.intents = t.intents
        /\ c.breakout = t.breakout /\ c.breakout_i = t.breakout_i
        /\ c.entry = t.entry /\ c.stop = t.stop /\ c.R = t.R /\ c.t1 = t.t1 /\ c.t2 = t.t2
    BY <2>2 DEF Fields
  <2>4. Intent(t, TRUE) \in IntentType
    <3>1. t.i \in Nat /\ t.breakout_i \in Nat /\ t.breakout \in Nat
      BY <1>3, Zenon DEF Shape
    <3>2. t.entry \in Int /\ t.stop \in Int
      BY <2>1 DEF OpenLevels
    <3> QED BY <3>1, <3>2 DEF Intent, IntentType
  <2>5. c.entered \in Seq(IntentType)
    <3>1. t.entered \in Seq(IntentType)
      BY <1>3, Zenon DEF Shape
    <3>2. c.entered = Append(t.entered, Intent(t, TRUE))
      BY <2>2, Zenon
    <3>3. PICK it \in IntentType : it = Intent(t, TRUE)
      BY <2>4, Zenon
    <3>4. PICK es \in Seq(IntentType) : es = t.entered
      BY <3>1, Zenon
    <3>5. Append(es, it) \in Seq(IntentType)
      OBVIOUS
    <3> QED BY <3>2, <3>3, <3>4, <3>5, Zenon
  <2>6. c.reentry_used \in BOOLEAN
    BY <2>2a, Zenon
  <2>7. t.trade_id + 1 \in Nat /\ t.i \in Nat
    <3>1. t.trade_id \in Nat /\ t.i \in Nat
      BY <1>3, Zenon DEF Shape
    <3> QED BY <3>1
  <2>8. Shape(c)
    BY <1>3, <2>2, <2>3, <2>5, <2>6, <2>7, Zenon DEF Shape
  <2>9. OpenLevels(c)
    BY <2>1, <2>3, Zenon DEF OpenLevels
  <2>10. InLevels(c, b)
    <3>1. c.i - c.entry_i < TRADE_TTL
      BY <2>2, <2>3, <2>7, BacktestSettingsAssumption
    <3> QED BY <2>1, <2>3, <3>1, Zenon DEF InLevels
  <2> QED BY <1>0, <1>2, <2>3, <2>8, <2>9, <2>10, Zenon DEF LevelsInBar, c
<1> QED BY <1>4, <1>5, Zenon DEF TryEntry, t

\* What holds on a bar holds between it and the next one.
LEMMA NextBarKeepsLevels ==
  ASSUME NEW s, NEW b \in Bars, LevelsInBar(s, b)
  PROVE  LevelsBetween(NextBar(s, b))
<1> DEFINE c == NextBar(s, b)
<1>0. Shape(s) /\ RowsBracketed(s.trades)
  BY DEF LevelsInBar
<1>1. /\ DOMAIN c = Fields
      /\ \A f \in Fields \ {"i", "recent"} : c[f] = s[f]
      /\ c.i = s.i + 1
      /\ c.recent \in Seq(Bars) /\ c.recent # <<>> /\ Last(c.recent) = b
  BY <1>0, NextBarFields
<1> HIDE DEF c
<1>2. /\ c.entry_i = s.entry_i /\ c.trade_id = s.trade_id /\ c.trade_open = s.trade_open
      /\ c.prior_breakout = s.prior_breakout
      /\ c.breakout = s.breakout /\ c.breakout_i = s.breakout_i
      /\ c.can_reentry = s.can_reentry /\ c.reentry_used = s.reentry_used
      /\ c.entered = s.entered /\ c.intents = s.intents /\ c.trades = s.trades
      /\ c.entry = s.entry /\ c.stop = s.stop /\ c.R = s.R /\ c.t1 = s.t1 /\ c.t2 = s.t2
  BY <1>1 DEF Fields
<1>3. s.i \in Nat /\ s.entry_i \in Nat
  BY <1>0, Zenon DEF Shape
<1>4. c.i \in Nat /\ c.i > 0
  BY <1>1, <1>3
<1>5. Shape(c)
  BY <1>0, <1>1, <1>2, <1>4, Zenon DEF Shape
<1>6. ASSUME s.trade_open
      PROVE  /\ OpenLevels(c) /\ c.i - c.entry_i <= TRADE_TTL
             /\ c.stop < Last(c.recent).close /\ Last(c.recent).close < c.t1
  <2>1. OpenLevels(s) /\ InLevels(s, b)
    BY <1>6 DEF LevelsInBar
  <2>2. OpenLevels(c)
    BY <1>2, <2>1, Zenon DEF OpenLevels
  <2>3. s.stop < b.close /\ b.close < s.t1 /\ s.i - s.entry_i < TRADE_TTL
    BY <2>1, Zenon DEF InLevels
  <2>4. c.i - c.entry_i <= TRADE_TTL
    BY <1>1, <1>2, <1>3, <2>3, BacktestSettingsAssumption
  <2> QED BY <1>1, <1>2, <2>2, <2>3, <2>4, Zenon
<1> QED BY <1>0, <1>2, <1>4, <1>5, <1>6, Zenon DEF LevelsBetween, c


\* The whole body of the loop.
LEMMA BarKeepsLevels ==
  ASSUME NEW s, NEW b \in Bars, LevelsBetween(s)
  PROVE  LevelsBetween(NextBar(LookForEntry(ExitTrade(s, b), b), b))
<1> DEFINE x == ExitTrade(s, b)
           y == LookForEntry(x, b)
<1>1. LevelsInBar(x, b)
  BY ExitKeepsLevels
<1> HIDE DEF x
<1>2. LevelsInBar(y, b)
  <2>1. CASE HasLookback(x) /\ ~x.trade_open
    <3> DEFINE n == NewBreakout(x, b)
               e == Expire(n)
    <3>1. LevelsInBar(n, b) /\ ~n.trade_open
      BY <1>1, <2>1, BreakoutKeepsLevels
    <3> HIDE DEF n
    <3>2. LevelsInBar(e, b) /\ ~e.trade_open
      BY <3>1, ExpireKeepsLevels
    <3> HIDE DEF e
    <3>3. LevelsInBar(TryEntry(e, b), b)
      BY <3>2, EntryKeepsLevels
    <3> QED BY <2>1, <3>3, Zenon DEF LookForEntry, e, n
  <2>2. CASE ~(HasLookback(x) /\ ~x.trade_open)
    BY <1>1, <2>2, Zenon DEF LookForEntry
  <2> QED BY <2>1, <2>2
<1> HIDE DEF y
<1>3. LevelsBetween(NextBar(y, b))
  BY <1>2, NextBarKeepsLevels
<1> QED BY <1>3 DEF x, y

\* A trade still open after the last bar is booked at its close, which is
\* within the levels (prism_backtest.cpp:197).
LEMMA EndKeepsRows ==
  ASSUME NEW s, LevelsBetween(s), s.trade_open
  PROVE  DataEndRow(s) \in RowType /\ RowBracketed(DataEndRow(s))
<1> DEFINE price == Last(s.recent).close
           m == Multiple(s, price)
           row == DataEndRow(s)
<1>1. Shape(s) /\ OpenLevels(s) /\ s.i > 0 /\ s.i - s.entry_i <= TRADE_TTL
      /\ s.stop < price /\ price < s.t1
  BY DEF LevelsBetween
<1>2. price \in Int
  <2>1. s.recent \in Seq(Bars) /\ s.recent # <<>>
    BY <1>1, Zenon DEF Shape
  <2>2. Last(s.recent) \in Bars
    BY <2>1 DEF Last
  <2> QED BY <2>2, BarsAssumption
<1>3. s.i \in Nat /\ s.entry_i \in Nat /\ s.trade_id \in Nat
  BY <1>1, Zenon DEF Shape
<1>4. m \in Int /\ 0 - R_UNIT < m /\ 2 * m < 3 * R_UNIT
  <2> HIDE DEF price
  <2> QED BY <1>1, <1>2, MultipleBetween, Zenon
<1>5. row = [trade_id |-> s.trade_id, entry |-> s.entry, stop |-> s.stop,
             reason |-> "DATA_END_EXIT", r |-> m, holding_bars |-> (s.i - s.entry_i) - 1]
  BY DEF DataEndRow, TradeRow
<1> HIDE DEF m, row, price
<1>6. row \in RowType
  BY <1>1, <1>3, <1>4, <1>5 DEF RowType, OpenLevels
<1>7. RowBracketed(row)
  BY <1>1, <1>3, <1>4, <1>5, BacktestSettingsAssumption DEF RowBracketed
<1> QED BY <1>6, <1>7 DEF row

\* What booking that trade changes.
LEMMA EndFields ==
  ASSUME NEW s, Shape(s)
  PROVE  LET c == EndOfData(s) IN
         /\ c.entered = s.entered /\ c.intents = s.intents /\ c.max_dd = s.max_dd
         /\ c.trade_open = s.trade_open /\ c.trade_id = s.trade_id
         /\ c.breakouts = s.breakouts /\ c.expired = s.expired /\ c.retests = s.retests
         /\ c.entries = s.entries /\ c.rejections = s.rejections
         /\ c.reentries = s.reentries
         /\ c.stops = s.stops /\ c.t1hits = s.t1hits /\ c.t2hits = s.t2hits
         /\ c.invalidations = s.invalidations /\ c.timeexits = s.timeexits
         /\ c.trades = IF s.trade_open THEN Append(s.trades, DataEndRow(s)) ELSE s.trades
         /\ c.equity = IF s.trade_open THEN s.equity + DataEndRow(s).r ELSE s.equity
BY DEF EndOfData, Shape, Fields

-----------------------------------------------------------------------------
(* No trade loses more than one R *)

LevelsInv ==
  /\ ~finished => LevelsBetween(bt)
  /\ RowsBracketed(bt.trades)

\* Between two bars an open trade has its stop, entry and targets in order, the
\* last close lies between stop and first target and the time is not up
\* (prism_backtest.cpp:147-191).
THEOREM LevelsInvariance == BacktestSpec => []LevelsInv
<1>1. BacktestInit => LevelsInv
  <2> SUFFICES ASSUME BacktestInit PROVE LevelsInv
    OBVIOUS
  <2>1. /\ bt.i = 0 /\ bt.breakout_i = 0 /\ bt.entry_i = 0 /\ bt.trade_id = 0
        /\ bt.breakout = 0 /\ bt.recent = <<>>
        /\ bt.intents = <<>> /\ bt.entered = <<>> /\ bt.trades = <<>>
    BY DEF BacktestInit
  <2>2. /\ bt.trade_open = FALSE /\ bt.prior_breakout = FALSE
        /\ bt.can_reentry = FALSE /\ bt.reentry_used = FALSE
    BY Zenon DEF BacktestInit
  <2>3. DOMAIN bt = Fields
    BY DEF BacktestInit, Fields
  <2>4. Shape(bt)
    <3>1. /\ bt.i \in Nat /\ bt.breakout_i \in Nat /\ bt.entry_i \in Nat /\ bt.trade_id \in Nat
          /\ bt.breakout \in Nat /\ bt.breakout % 2 = 0
          /\ bt.recent \in Seq(Bars)
          /\ bt.intents \in Seq(IntentType) /\ bt.entered \in Seq(IntentType)
          /\ bt.trades \in Seq(RowType) /\ ~(bt.i > 0)
      BY <2>1
    <3> QED BY <2>2, <2>3, <3>1, Zenon DEF Shape
  <2>5. RowsBracketed(bt.trades)
    BY <2>1 DEF RowsBracketed
  <2> QED BY <2>2, <2>4, <2>5, Zenon DEF LevelsInv, LevelsBetween
<1>2. LevelsInv /\ [BacktestNext]_backtestVars => LevelsInv'
  <2> SUFFICES ASSUME LevelsInv, [BacktestNext]_backtestVars PROVE LevelsInv'
    OBVIOUS
  <2>1. ASSUME NEW b \in Bars, OnBar(b) PROVE LevelsInv'
    <3>1. LevelsBetween(bt) /\ bt' = NextBar(LookForEntry(ExitTrade(bt, b), b), b)
          /\ finished' = finished
      BY <2>1 DEF OnBar, LevelsInv
    <3>2. LevelsBetween(bt')
      BY <3>1, BarKeepsLevels, Zenon
    <3> QED BY <3>2 DEF LevelsInv, LevelsBetween
  <2>2. CASE Finish
    <3>1. LevelsBetween(bt) /\ bt' = EndOfData(bt) /\ finished' = TRUE
      BY <2>2 DEF Finish, LevelsInv
    <3>2. Shape(bt) /\ RowsBracketed(bt.trades)
      BY <3>1 DEF LevelsBetween
    <3>3. bt'.trades = IF bt.trade_open THEN Append(bt.trades, DataEndRow(bt)) ELSE bt.trades
      BY <3>1, <3>2, EndFields, Zenon
    <3>4. CASE bt.trade_open
      <4>1. DataEndRow(bt) \in RowType /\ RowBracketed(DataEndRow(bt))
        BY <3>1, <3>4, EndKeepsRows
      <4>2. bt.trades \in Seq(RowType)
        BY <3>2, Zenon DEF Shape
      <4>3. RowsBracketed(bt'.trades)
        BY <3>2, <3>3, <3>4, <4>1, <4>2, OneMoreRow, Zenon
      <4> QED BY <3>1, <4>3 DEF LevelsInv
    <3>5. CASE ~bt.trade_open
      BY <3>1, <3>2, <3>3, <3>5 DEF LevelsInv
    <3> QED BY <3>4, <3>5
  <2>3. CASE UNCHANGED backtestVars
    BY <2>3 DEF backtestVars, LevelsInv, LevelsBetween
  <2> QED BY <2>1, <2>2, <2>3, Zenon DEF BacktestNext
<1> QED BY <1>1, <1>2, PTL DEF BacktestSpec

\* No trade loses more than one R and none wins more than 2.5 R, whatever bars
\* come: a stop is booked at the stop even when a target or an invalidation is
\* met on the same bar (prism_backtest.cpp:147-154, :197).
THEOREM RowsInR == BacktestSpec => []RBracketed
<1>1. LevelsInv => RBracketed
  BY DEF LevelsInv, RowsBracketed, RowBracketed, RBracketed
<1> QED BY <1>1, LevelsInvariance, PTL


-----------------------------------------------------------------------------
(* The story of breakouts, entries and trades *)

\* An entry lies in the window of its breakout, between stop and close.
Placed(it) ==
  LET window == IF it.type = "RE_ENTRY" THEN ENTRY_TTL + REENTRY_EXTRA ELSE ENTRY_TTL IN
  /\ it.breakout_i <= it.at /\ it.at - it.breakout_i <= window
  /\ it.stop <= it.breakout /\ it.breakout < it.entry

\* A re-entry follows the first entry of its breakout, which was stopped out.
FollowsStop(its, ts, k) ==
  /\ k > 1 /\ its[k - 1].breakout_i = its[k].breakout_i
  /\ its[k - 1].type = "RETEST_ENTRY"
  /\ k - 1 <= Len(ts) /\ ts[k - 1].reason = "STOP_HIT"

\* A first entry follows those of earlier breakouts only.
OpensBreakout(its, k) == \A j \in 1 .. k - 1 : its[j].breakout_i < its[k].breakout_i

EntryStory(its, ts) ==
  \A k \in 1 .. Len(its) :
    /\ Placed(its[k])
    /\ its[k].type = "RE_ENTRY" => FollowsStop(its, ts, k)
    /\ its[k].type = "RETEST_ENTRY" => OpensBreakout(its, k)

\* The breakout in force is the latest one.
LatestBreakout(s) ==
  /\ s.breakout_i <= s.i
  /\ \A k \in 1 .. Len(s.entered) : s.entered[k].breakout_i <= s.breakout_i

NoEntryYet(s, i) == \A k \in 1 .. Len(s.entered) : s.entered[k].breakout_i < i

TradePerEntry(s) == Len(s.entered) = Len(s.trades) + (IF s.trade_open THEN 1 ELSE 0)

\* The last entry was made on the breakout in force.
LastOfBreakout(s) ==
  Len(s.entered) > 0 /\ s.entered[Len(s.entered)].breakout_i = s.breakout_i

OpenStory(s) ==
  s.trade_open =>
    ~s.prior_breakout /\ ~s.can_reentry /\ LastOfBreakout(s) /\ s.breakout_i <= s.entry_i

PriorStory(s) == s.prior_breakout => ~s.can_reentry /\ NoEntryYet(s, s.breakout_i)

\* can_reentry stays set after a trade that ran out of time, but then the
\* breakout is too old for it.
TooOld(s) == s.i - s.breakout_i > ENTRY_TTL + REENTRY_EXTRA

StoppedOut(s) == s.trades[Len(s.entered)].reason = "STOP_HIT"

ReentryStory(s) == s.can_reentry => LastOfBreakout(s) /\ (StoppedOut(s) \/ TooOld(s))

FirstStory(s) ==
  LastOfBreakout(s) /\ ~s.reentry_used =>
    s.entered[Len(s.entered)].type = "RETEST_ENTRY"

Story(s) ==
  /\ EntryStory(s.entered, s.trades) /\ LatestBreakout(s) /\ TradePerEntry(s)
  /\ OpenStory(s) /\ PriorStory(s) /\ ReentryStory(s) /\ FirstStory(s)

\* One more trade changes nothing of what is told of the entries.
LEMMA StoryOneMoreTrade ==
  ASSUME NEW its \in Seq(IntentType), NEW ts \in Seq(RowType), NEW row \in RowType,
         EntryStory(its, ts)
  PROVE  EntryStory(its, Append(ts, row))
<1> DEFINE us == Append(ts, row)
<1>1. Len(us) = Len(ts) + 1 /\ Len(ts) \in Nat /\ \A k \in 1 .. Len(ts) : us[k] = ts[k]
  OBVIOUS
<1> HIDE DEF us
<1>2. ASSUME NEW k \in 1 .. Len(its), FollowsStop(its, ts, k) PROVE FollowsStop(its, us, k)
  <2>1. k - 1 \in 1 .. Len(ts) /\ k - 1 <= Len(us)
    BY <1>1, <1>2 DEF FollowsStop
  <2>2. us[k - 1] = ts[k - 1]
    BY <1>1, <2>1
  <2> QED BY <1>2, <2>1, <2>2, Zenon DEF FollowsStop
<1> QED BY <1>2, Zenon DEF EntryStory, us

\* The exits: a stop allows a re-entry, the end of its time does not.
LEMMA ExitKeepsStory ==
  ASSUME NEW s, LevelsBetween(s), Story(s), NEW b \in Bars
  PROVE  LET c == ExitTrade(s, b) IN Story(c) /\ c.entered = s.entered /\ c.i = s.i
<1>0. Shape(s)
  BY DEF LevelsBetween
<1>1. CASE ExitTrade(s, b) = s
  BY <1>1
<1>2. ASSUME s.trade_open, NEW reason \in LoopReasons, NEW price \in Int,
             Decided(s, b, reason, price)
      PROVE  LET c == Closed(s, reason, price) IN
             Story(c) /\ c.entered = s.entered /\ c.i = s.i
  <2> DEFINE c == Closed(s, reason, price)
             row == TradeRow(s, reason, price)
  <2>1. row \in RowType
    BY <1>0, <1>2, DecidedRow DEF LevelsBetween
  <2>2. /\ c.i = s.i
        /\ c.trade_open = FALSE /\ c.can_reentry = MayReenter(reason)
        /\ c.prior_breakout = s.prior_breakout /\ c.reentry_used = s.reentry_used
        /\ c.breakout_i = s.breakout_i
        /\ c.entered = s.entered /\ c.intents = s.intents /\ c.trades = Append(s.trades, row)
    <3>1. ClosesTrade(s, reason, price, c)
      BY <1>0, <1>2, ClosedFields, Zenon
    <3> QED BY <3>1, Zenon DEF ClosesTrade, row
  <2>3. row.reason = reason
    BY DEF TradeRow
  <2> HIDE DEF c, row
  <2>4. s.trades \in Seq(RowType) /\ s.entered \in Seq(IntentType)
    BY <1>0, Zenon DEF Shape
  <2>5. /\ ~s.prior_breakout /\ LastOfBreakout(s) /\ s.breakout_i <= s.entry_i
        /\ Len(s.entered) = Len(s.trades) + 1
    BY <1>2, Zenon DEF Story, OpenStory, TradePerEntry
  <2>6. EntryStory(c.entered, c.trades)
    BY <2>1, <2>2, <2>4, StoryOneMoreTrade DEF Story
  <2>7. LatestBreakout(c)
    BY <2>2, Zenon DEF Story, LatestBreakout
  <2>8. TradePerEntry(c)
    <3>1. Len(c.trades) = Len(s.trades) + 1 /\ Len(s.trades) \in Nat
      BY <2>2, <2>4
    <3>2. Len(c.entered) = Len(c.trades) + 0
      BY <2>2, <2>5, <3>1
    <3> QED BY <2>2, <3>2, Zenon DEF TradePerEntry
  <2>9. OpenStory(c) /\ PriorStory(c)
    BY <2>2, <2>5, Zenon DEF OpenStory, PriorStory
  <2>10. LastOfBreakout(c)
    BY <2>2, <2>5, Zenon DEF LastOfBreakout
  <2>11. ReentryStory(c)
    <3>1. CASE reason = "STOP_HIT"
      <4>1. c.trades[Len(c.entered)] = row
        BY <2>2, <2>4, <2>5
      <4>2. StoppedOut(c)
        BY <2>3, <3>1, <4>1, Zenon DEF StoppedOut
      <4> QED BY <2>10, <4>2, Zenon DEF ReentryStory
    <3>2. CASE reason = "TIME_EXIT"
      <4>1. s.i - s.entry_i >= TRADE_TTL
        BY <1>2, <3>2 DEF Decided
      <4>2. s.i \in Nat /\ s.entry_i \in Nat /\ s.breakout_i \in Nat
        BY <1>0, Zenon DEF Shape
      <4>3. s.i - s.breakout_i > ENTRY_TTL + REENTRY_EXTRA
        BY <2>5, <4>1, <4>2, BacktestSettingsAssumption
      <4>4. TooOld(c)
        BY <2>2, <4>3, Zenon DEF TooOld
      <4> QED BY <2>10, <4>4, Zenon DEF ReentryStory
    <3>3. CASE ~MayReenter(reason)
      BY <2>2, <3>3, Zenon DEF ReentryStory
    <3> QED BY <3>1, <3>2, <3>3, Zenon DEF MayReenter
  <2>12. FirstStory(c)
    BY <2>2, Zenon DEF Story, FirstStory, LastOfBreakout
  <2> QED BY <2>2, <2>6, <2>7, <2>8, <2>9, <2>11, <2>12, Zenon DEF Story, c
<1>3. CASE ~s.trade_open
  BY <1>1, <1>3, NothingToExit
<1>4. CASE s.trade_open
  <2>1. OpenLevels(s)
    BY <1>4 DEF LevelsBetween
  <2>2. ASSUME NEW reason \in LoopReasons, NEW price \in Int,
               Decided(s, b, reason, price), ExitTrade(s, b) = Closed(s, reason, price)
        PROVE  LET c == ExitTrade(s, b) IN Story(c) /\ c.entered = s.entered /\ c.i = s.i
    BY <1>2, <1>4, <2>2
  <2> QED BY <1>0, <1>1, <1>4, <2>1, <2>2, ExitDecides, Zenon
<1> QED BY <1>3, <1>4

\* A new breakout has no entry yet, and takes back the chance of a re-entry on
\* the one before it (prism_backtest.cpp:159).
LEMMA BreakoutKeepsStory ==
  ASSUME NEW s, Shape(s), ~s.trade_open, Story(s), NoEntryYet(s, s.i), NEW b
  PROVE  Story(NewBreakout(s, b))
<1> DEFINE c == NewBreakout(s, b)
<1>1. CASE c = s
  BY <1>1
<1>2. CASE c # s
  <2>1. /\ \A f \in Fields \ {"prior_breakout", "breakout", "breakout_i", "breakouts",
                              "can_reentry", "reentry_used"} : c[f] = s[f]
        /\ c.prior_breakout = TRUE /\ c.can_reentry = FALSE /\ c.reentry_used = FALSE
        /\ c.breakout_i = s.i
    BY <1>2, NewBreakoutFields
  <2> HIDE DEF c
  <2>2. /\ c.i = s.i /\ c.trade_open = s.trade_open
        /\ c.entered = s.entered /\ c.intents = s.intents /\ c.trades = s.trades
    BY <2>1 DEF Fields
  <2>3. s.i \in Nat /\ s.entered \in Seq(IntentType)
    BY Zenon DEF Shape
  <2>4. \A k \in 1 .. Len(s.entered) : s.entered[k].breakout_i \in Nat
    <3>1. \A k \in 1 .. Len(s.entered) : s.entered[k] \in IntentType
      BY <2>3
    <3> QED BY <3>1 DEF IntentType
  <2>5. LatestBreakout(c)
    BY <2>1, <2>2, <2>3, <2>4 DEF NoEntryYet, LatestBreakout
  <2>6. PriorStory(c)
    BY <2>1, <2>2, Zenon DEF PriorStory, NoEntryYet
  <2>7. ~LastOfBreakout(c)
    <3> SUFFICES ASSUME Len(s.entered) > 0, s.entered[Len(s.entered)].breakout_i = s.i
                 PROVE  FALSE
      BY <2>1, <2>2, Zenon DEF LastOfBreakout
    <3>1. Len(s.entered) \in 1 .. Len(s.entered)
      BY <2>3
    <3> QED BY <2>3, <3>1 DEF NoEntryYet
  <2> QED BY <2>1, <2>2, <2>5, <2>6, <2>7, Zenon
             DEF Story, TradePerEntry, OpenStory, ReentryStory, FirstStory, c
<1> QED BY <1>1, <1>2

\* A breakout that is still looked at after the expiry is young enough.
LEMMA ExpireKeepsStory ==
  ASSUME NEW s, Shape(s), ~s.trade_open, Story(s)
  PROVE  LET c == Expire(s) IN
         Story(c) /\ (c.prior_breakout => c.i - c.breakout_i <= ENTRY_TTL)
<1> DEFINE c == Expire(s)
<1>1. CASE c = s
  <2>1. s.prior_breakout => s.i - s.breakout_i <= ENTRY_TTL
    <3>1. CASE s.prior_breakout /\ c.prior_breakout = FALSE
      BY <1>1, <3>1
    <3>2. CASE s.prior_breakout => s.i - s.breakout_i <= ENTRY_TTL
      BY <3>2
    <3> QED BY <3>1, <3>2, ExpireFields, Zenon
  <2> QED BY <1>1, <2>1
<1>2. CASE c # s
  <2>1. /\ \A f \in Fields \ {"prior_breakout", "expired"} : c[f] = s[f]
        /\ c.prior_breakout = FALSE
    BY <1>2, ExpireFields
  <2> HIDE DEF c
  <2>2. /\ c.i = s.i /\ c.trade_open = s.trade_open /\ c.breakout_i = s.breakout_i
        /\ c.entry_i = s.entry_i
        /\ c.can_reentry = s.can_reentry /\ c.reentry_used = s.reentry_used
        /\ c.entered = s.entered /\ c.intents = s.intents /\ c.trades = s.trades
    BY <2>1 DEF Fields
  <2> QED BY <2>1, <2>2, Zenon
             DEF Story, LatestBreakout, TradePerEntry, OpenStory, PriorStory, ReentryStory,
                 FirstStory, LastOfBreakout, StoppedOut, TooOld, c
<1> QED BY <1>1, <1>2


\* One more entry that tells its own story leaves those of the others alone.
LEMMA StoryOneMoreEntry ==
  ASSUME NEW its \in Seq(IntentType), NEW ts, NEW it \in IntentType, EntryStory(its, ts),
         Placed(it),
         NEW js, js = Append(its, it),
         it.type = "RE_ENTRY" => FollowsStop(js, ts, Len(its) + 1),
         it.type = "RETEST_ENTRY" => OpensBreakout(js, Len(its) + 1)
  PROVE  EntryStory(js, ts)
<1>1. /\ Len(js) = Len(its) + 1 /\ Len(its) \in Nat /\ js[Len(its) + 1] = it
      /\ \A k \in 1 .. Len(its) : js[k] = its[k]
  OBVIOUS
<1>2. ASSUME NEW k \in 1 .. Len(its)
      PROVE  /\ Placed(js[k])
             /\ js[k].type = "RE_ENTRY" => FollowsStop(js, ts, k)
             /\ js[k].type = "RETEST_ENTRY" => OpensBreakout(js, k)
  <2>1. js[k] = its[k]
    BY <1>1
  <2>2. k \in Nat /\ k > 1 => k - 1 \in 1 .. Len(its)
    BY <1>1
  <2>3. \A j \in 1 .. k - 1 : j \in 1 .. Len(its) /\ js[j] = its[j]
    BY <1>1
  <2>4. FollowsStop(its, ts, k) => FollowsStop(js, ts, k)
    <3>1. k > 1 => js[k - 1] = its[k - 1]
      BY <1>1, <2>2
    <3> QED BY <2>1, <3>1, Zenon DEF FollowsStop
  <2>5. OpensBreakout(its, k) => OpensBreakout(js, k)
    BY <2>1, <2>3, Zenon DEF OpensBreakout
  <2> QED BY <2>1, <2>4, <2>5, Zenon DEF EntryStory
<1>3. ASSUME NEW k \in 1 .. Len(js), k \notin 1 .. Len(its) PROVE k = Len(its) + 1
  BY <1>1, <1>3
<1>4. ASSUME NEW k \in 1 .. Len(js)
      PROVE  /\ Placed(js[k])
             /\ js[k].type = "RE_ENTRY" => FollowsStop(js, ts, k)
             /\ js[k].type = "RETEST_ENTRY" => OpensBreakout(js, k)
  <2>1. CASE k \in 1 .. Len(its)
    BY <1>2, <2>1
  <2>2. CASE k \notin 1 .. Len(its)
    BY <1>1, <1>3, <2>2, Zenon
  <2> QED BY <2>1, <2>2
<1> QED BY <1>4, Zenon DEF EntryStory

\* An entry on a breakout is its first, or the one re-entry after the stop of
\* the first (prism_backtest.cpp:165-191).
LEMMA EntryKeepsStory ==
  ASSUME NEW s, NEW b \in Bars, Shape(s), ~s.trade_open, Story(s),
         s.prior_breakout => s.i - s.breakout_i <= ENTRY_TTL
  PROVE  Story(TryEntry(s, b))
<1> DEFINE t == LogRetest(s, b)
<1>1. /\ DOMAIN t = Fields
      /\ \A f \in Fields \ {"retests", "entry", "stop", "R", "t1", "t2", "intents"} :
           t[f] = s[f]
  BY LogRetestFields, Zenon
<1>1a. NoReason(t, b) =>
         OpenLevels(t) /\ t.stop <= t.breakout /\ t.breakout < t.entry
  BY LogRetestFields, Zenon
<1> HIDE DEF t
<1>2. /\ t.i = s.i /\ t.entry_i = s.entry_i /\ t.trade_open = s.trade_open
      /\ t.prior_breakout = s.prior_breakout
      /\ t.breakout_i = s.breakout_i /\ t.breakout = s.breakout
      /\ t.can_reentry = s.can_reentry /\ t.reentry_used = s.reentry_used
      /\ t.entered = s.entered /\ t.trades = s.trades
  BY <1>1 DEF Fields
<1>3. Story(Reject(t))
  <2> DEFINE c == Reject(t)
  <2>1. \A f \in Fields \ {"rejections"} : c[f] = t[f]
    BY <1>1, RejectFields
  <2> HIDE DEF c
  <2>2. /\ c.i = t.i /\ c.entry_i = t.entry_i /\ c.trade_open = t.trade_open
        /\ c.prior_breakout = t.prior_breakout /\ c.breakout_i = t.breakout_i
        /\ c.can_reentry = t.can_reentry /\ c.reentry_used = t.reentry_used
        /\ c.entered = t.entered /\ c.intents = t.intents /\ c.trades = t.trades
    BY <2>1 DEF Fields
  <2> QED BY <1>2, <2>2, Zenon
             DEF Story, LatestBreakout, TradePerEntry, OpenStory, PriorStory, ReentryStory,
                 FirstStory, LastOfBreakout, StoppedOut, TooOld, NoEntryYet, c
<1>4. ASSUME EligibleWindow(s), NoReason(t, b) PROVE Story(Accept(t))
  <2> DEFINE c == Accept(t)
             it == Intent(t, TRUE)
             its == s.entered
             n == Len(s.entered)
  <2>1. t.stop <= t.breakout /\ t.breakout < t.entry /\ t.stop \in Int /\ t.entry \in Int
    BY <1>1a, <1>4 DEF OpenLevels
  <2>2. /\ \A f \in Fields \ {"trade_open", "entry_i", "trade_id", "entries", "entered",
                              "reentries", "reentry_used", "prior_breakout", "can_reentry"} :
             c[f] = t[f]
        /\ c.trade_open = TRUE /\ c.prior_breakout = FALSE /\ c.can_reentry = FALSE
        /\ c.entry_i = t.i /\ c.entered = Append(t.entered, it)
    BY <1>1, AcceptFields, Zenon
  <2>3. c.reentry_used = (t.reentry_used \/ t.can_reentry)
    BY <1>1, AcceptFields, Zenon
  <2>4. /\ it.at = s.i /\ it.breakout_i = s.breakout_i
        /\ it.breakout = t.breakout /\ it.entry = t.entry /\ it.stop = t.stop
    BY <1>2 DEF Intent
  <2>5. it.type = IF s.can_reentry THEN "RE_ENTRY" ELSE "RETEST_ENTRY"
    BY <1>2, Zenon DEF Intent
  <2>6. s.i \in Nat /\ s.breakout_i \in Nat /\ s.breakout \in Nat /\ its \in Seq(IntentType)
        /\ s.trades \in Seq(RowType)
    BY Zenon DEF Shape
  <2>7. it \in IntentType
    BY <1>2, <2>1, <2>6 DEF Intent, IntentType
  <2> HIDE DEF c, it
  <2>8. c.i = s.i /\ c.breakout_i = s.breakout_i /\ c.trades = s.trades
        /\ c.entered = Append(its, it) /\ c.entry_i = s.i
    BY <1>2, <2>2 DEF Fields
  <2>9. n \in Nat /\ n = Len(s.trades)
    BY <2>6 DEF Story, TradePerEntry
  <2>10. /\ Len(c.entered) = n + 1 /\ c.entered[n + 1] = it
         /\ \A k \in 1 .. n : c.entered[k] = its[k]
    BY <2>6, <2>8
  <2>11. s.breakout_i <= s.i /\ \A k \in 1 .. n : its[k].breakout_i <= s.breakout_i
    BY Zenon DEF Story, LatestBreakout
  <2> HIDE DEF n
  <2>12. LastOfBreakout(c)
    <3>1. Len(c.entered) > 0
      BY <2>9, <2>10
    <3> QED BY <2>4, <2>8, <2>10, <3>1, Zenon DEF LastOfBreakout
  <2>13. LatestBreakout(c)
    <3>1. ASSUME NEW k \in 1 .. n + 1 PROVE c.entered[k].breakout_i <= s.breakout_i
      <4>1. CASE k = n + 1
        BY <2>4, <2>6, <2>10, <4>1
      <4>2. CASE k \in 1 .. n
        BY <2>10, <2>11, <4>2, Zenon
      <4> QED BY <2>9, <4>1, <4>2
    <3> QED BY <2>8, <2>10, <2>11, <3>1, Zenon DEF LatestBreakout
  <2>14. TradePerEntry(c)
    <3>1. n + 1 = Len(s.trades) + 1
      BY <2>9
    <3> QED BY <2>2, <2>8, <2>10, <3>1, Zenon DEF TradePerEntry
  <2>15. OpenStory(c) /\ PriorStory(c) /\ ReentryStory(c)
    BY <2>2, <2>8, <2>11, <2>12, Zenon DEF OpenStory, PriorStory, ReentryStory
  <2>16. CASE s.prior_breakout
    <3>1. ~s.can_reentry /\ \A k \in 1 .. n : its[k].breakout_i < s.breakout_i
      BY <2>16, Zenon DEF Story, PriorStory, NoEntryYet, n
    <3>2. it.type = "RETEST_ENTRY"
      BY <2>5, <3>1, Zenon
    <3>3. Placed(it)
      BY <2>1, <2>4, <2>11, <2>16, <3>2 DEF Placed
    <3>4. OpensBreakout(c.entered, n + 1)
      <4>1. ASSUME NEW j \in 1 .. (n + 1) - 1
            PROVE  c.entered[j].breakout_i < c.entered[n + 1].breakout_i
        <5>1. j \in 1 .. n
          BY <2>9
        <5> QED BY <2>4, <2>10, <3>1, <5>1, Zenon
      <4> QED BY <4>1, Zenon DEF OpensBreakout
    <3>5. EntryStory(c.entered, s.trades)
      BY <2>6, <2>7, <2>8, <3>2, <3>3, <3>4, StoryOneMoreEntry, Zenon DEF Story, n
    <3>6. FirstStory(c)
      BY <2>10, <3>2, Zenon DEF FirstStory
    <3> QED BY <2>8, <2>13, <2>14, <2>15, <3>5, <3>6, Zenon DEF Story, c
  <2>17. CASE ~s.prior_breakout
    <3>1. s.can_reentry /\ ~s.reentry_used /\ s.i - s.breakout_i <= ENTRY_TTL + REENTRY_EXTRA
      BY <1>4, <2>17, Zenon DEF EligibleWindow
    <3>2. it.type = "RE_ENTRY"
      BY <2>5, <3>1, Zenon
    <3>3. Placed(it)
      BY <2>1, <2>4, <2>11, <3>1, <3>2 DEF Placed
    <3>4. LastOfBreakout(s) /\ StoppedOut(s)
      <4>1. ~TooOld(s)
        <5>1. s.i - s.breakout_i \in Int /\ ENTRY_TTL + REENTRY_EXTRA \in Int
          BY <2>6, BacktestSettingsAssumption
        <5> QED BY <3>1, <5>1 DEF TooOld
      <4> QED BY <3>1, <4>1, Zenon DEF Story, ReentryStory
    <3>5. n > 0 /\ its[n].breakout_i = s.breakout_i /\ s.trades[n].reason = "STOP_HIT"
      BY <3>4, Zenon DEF LastOfBreakout, StoppedOut, n
    <3>6. its[n].type = "RETEST_ENTRY"
      BY <3>1, <3>4, Zenon DEF Story, FirstStory, n
    <3>7. FollowsStop(c.entered, s.trades, n + 1)
      <4>1. n + 1 > 1 /\ (n + 1) - 1 = n /\ n \in 1 .. n /\ n <= Len(s.trades)
        BY <2>9, <3>5
      <4>2. c.entered[n] = its[n]
        BY <2>10, <4>1
      <4> QED BY <2>4, <2>10, <3>5, <3>6, <4>1, <4>2, Zenon DEF FollowsStop
    <3>8. EntryStory(c.entered, s.trades)
      BY <2>6, <2>7, <2>8, <3>2, <3>3, <3>7, StoryOneMoreEntry, Zenon DEF Story, n
    <3>9. c.reentry_used
      BY <1>2, <2>3, <3>1, Zenon
    <3>10. FirstStory(c)
      BY <3>9, Zenon DEF FirstStory
    <3> QED BY <2>8, <2>13, <2>14, <2>15, <3>8, <3>10, Zenon DEF Story, c
  <2> QED BY <2>16, <2>17
<1> QED BY <1>3, <1>4, Zenon DEF TryEntry, t

\* On the next bar the breakout is a bar older, and every entry lies behind.
LEMMA NextBarKeepsStory ==
  ASSUME NEW s, NEW b \in Bars, Shape(s), Story(s)
  PROVE  LET c == NextBar(s, b) IN Story(c) /\ NoEntryYet(c, c.i)
<1> DEFINE c == NextBar(s, b)
<1>1. (\A f \in Fields \ {"i", "recent"} : c[f] = s[f]) /\ c.i = s.i + 1
  BY NextBarFields
<1> HIDE DEF c
<1>2. /\ c.entry_i = s.entry_i /\ c.trade_open = s.trade_open
      /\ c.prior_breakout = s.prior_breakout /\ c.breakout_i = s.breakout_i
      /\ c.can_reentry = s.can_reentry /\ c.reentry_used = s.reentry_used
      /\ c.entered = s.entered /\ c.intents = s.intents /\ c.trades = s.trades
  BY <1>1 DEF Fields
<1>3. s.i \in Nat /\ s.breakout_i \in Nat /\ s.entered \in Seq(IntentType)
  BY Zenon DEF Shape
<1>4. \A k \in 1 .. Len(s.entered) : s.entered[k].breakout_i \in Nat
  <2>1. \A k \in 1 .. Len(s.entered) : s.entered[k] \in IntentType
    BY <1>3
  <2> QED BY <2>1 DEF IntentType
<1>5. s.breakout_i <= s.i /\ \A k \in 1 .. Len(s.entered) : s.entered[k].breakout_i <= s.breakout_i
  BY Zenon DEF Story, LatestBreakout
<1>6. LatestBreakout(c)
  BY <1>1, <1>2, <1>3, <1>5 DEF LatestBreakout
<1>7. NoEntryYet(c, c.i)
  BY <1>1, <1>2, <1>3, <1>4, <1>5 DEF NoEntryYet
<1>8. TooOld(s) => TooOld(c)
  BY <1>1, <1>2, <1>3, BacktestSettingsAssumption DEF TooOld
<1> QED BY <1>2, <1>6, <1>7, <1>8, Zenon
           DEF Story, TradePerEntry, OpenStory, PriorStory, ReentryStory,
               FirstStory, LastOfBreakout, StoppedOut, NoEntryYet, c


\* The whole body of the loop.
LEMMA BarKeepsStory ==
  ASSUME NEW s, NEW b \in Bars, LevelsBetween(s), Story(s), NoEntryYet(s, s.i)
  PROVE  LET c == NextBar(LookForEntry(ExitTrade(s, b), b), b) IN
         Story(c) /\ NoEntryYet(c, c.i)
<1> DEFINE x == ExitTrade(s, b)
           y == LookForEntry(x, b)
<1>1. LevelsInBar(x, b)
  BY ExitKeepsLevels
<1>2. Story(x) /\ x.entered = s.entered /\ x.i = s.i
  BY ExitKeepsStory
<1> HIDE DEF x
<1>3. NoEntryYet(x, x.i)
  BY <1>2, Zenon DEF NoEntryYet
<1>4. Shape(y) /\ Story(y)
  <2>1. CASE HasLookback(x) /\ ~x.trade_open
    <3> DEFINE n == NewBreakout(x, b)
               e == Expire(n)
    <3>1. LevelsInBar(n, b) /\ ~n.trade_open
      BY <1>1, <2>1, BreakoutKeepsLevels
    <3>2. Story(n)
      BY <1>1, <1>2, <1>3, <2>1, BreakoutKeepsStory DEF LevelsInBar
    <3> HIDE DEF n
    <3>3. LevelsInBar(e, b) /\ ~e.trade_open
      BY <3>1, ExpireKeepsLevels
    <3>4. Story(e) /\ (e.prior_breakout => e.i - e.breakout_i <= ENTRY_TTL)
      BY <3>1, <3>2, ExpireKeepsStory DEF LevelsInBar
    <3> HIDE DEF e
    <3>5. LevelsInBar(TryEntry(e, b), b)
      BY <3>3, EntryKeepsLevels
    <3>6. Story(TryEntry(e, b))
      BY <3>3, <3>4, EntryKeepsStory DEF LevelsInBar
    <3>7. Shape(TryEntry(e, b))
      BY <3>5, Zenon DEF LevelsInBar
    <3> QED BY <2>1, <3>6, <3>7, Zenon DEF LookForEntry, e, n
  <2>2. CASE ~(HasLookback(x) /\ ~x.trade_open)
    BY <1>1, <1>2, <2>2, Zenon DEF LookForEntry, LevelsInBar
  <2> QED BY <2>1, <2>2
<1> HIDE DEF y
<1>5. LET c == NextBar(y, b) IN Story(c) /\ NoEntryYet(c, c.i)
  BY <1>4, NextBarKeepsStory
<1> QED BY <1>5 DEF x, y

\* Of a breakout there are at most two entries, and they follow each other.
LEMMA TwoEntriesAtMost ==
  ASSUME NEW its \in Seq(IntentType), NEW ts, EntryStory(its, ts), NEW k \in 1 .. Len(its)
  PROVE  Cardinality({j \in 1 .. Len(its) : its[j].breakout_i = its[k].breakout_i}) <= 2
<1> DEFINE S == {j \in 1 .. Len(its) : its[j].breakout_i = its[k].breakout_i}
<1>1. \A j \in 1 .. Len(its) : /\ its[j].breakout_i \in Nat
                               /\ its[j].type \in {"RE_ENTRY", "RETEST_ENTRY"}
  <2>1. \A j \in 1 .. Len(its) : its[j] \in IntentType
    OBVIOUS
  <2> QED BY <2>1 DEF IntentType
<1>2. ASSUME NEW i \in 1 .. Len(its), NEW j \in 1 .. Len(its), i < j,
             its[i].breakout_i = its[j].breakout_i
      PROVE  /\ its[j].type = "RE_ENTRY" /\ i = j - 1 /\ its[i].type = "RETEST_ENTRY"
  <2>1. i \in 1 .. j - 1
    BY <1>2
  <2>2. its[j].type = "RE_ENTRY"
    <3> SUFFICES ASSUME its[j].type = "RETEST_ENTRY" PROVE FALSE
      BY <1>1
    <3>1. its[i].breakout_i < its[j].breakout_i
      BY <2>1, Zenon DEF EntryStory, OpensBreakout
    <3> QED BY <1>1, <1>2, <3>1
  <2>3. j > 1 /\ its[j - 1].type = "RETEST_ENTRY" /\ its[j - 1].breakout_i = its[j].breakout_i
    BY <2>2, Zenon DEF EntryStory, FollowsStop
  <2>4. j - 1 \in 1 .. Len(its)
    BY <2>3
  <2>5. i = j - 1
    <3> SUFFICES ASSUME i # j - 1 PROVE FALSE
      OBVIOUS
    <3>1. i \in 1 .. (j - 1) - 1
      BY <2>1
    <3>2. its[i].breakout_i < its[j - 1].breakout_i
      BY <2>3, <2>4, <3>1, Zenon DEF EntryStory, OpensBreakout
    <3> QED BY <1>1, <1>2, <2>3, <2>4, <3>2
  <2> QED BY <2>2, <2>3, <2>5
<1>3. \E a, c : S \subseteq {a, c}
  <2>1. CASE its[k].type = "RE_ENTRY"
    <3>1. S \subseteq {k - 1, k}
      <4>1. ASSUME NEW j \in S PROVE j \in {k - 1, k}
        <5>1. j < k => j = k - 1
          BY <1>2, <4>1
        <5>2. ~(k < j)
          <6> SUFFICES ASSUME k < j PROVE FALSE
            OBVIOUS
          <6>1. its[k].type = "RETEST_ENTRY"
            BY <1>2, <4>1
          <6> QED BY <2>1, <6>1
        <5> QED BY <5>1, <5>2
      <4> QED BY <4>1
    <3> QED BY <3>1
  <2>2. CASE its[k].type = "RETEST_ENTRY"
    <3>1. S \subseteq {k, k + 1}
      <4>1. ASSUME NEW j \in S PROVE j \in {k, k + 1}
        <5>1. k < j => k = j - 1
          BY <1>2, <4>1
        <5>2. ~(j < k)
          <6> SUFFICES ASSUME j < k PROVE FALSE
            OBVIOUS
          <6>1. its[k].type = "RE_ENTRY"
            BY <1>2, <4>1
          <6> QED BY <2>2, <6>1
        <5> QED BY <5>1, <5>2
      <4> QED BY <4>1
    <3> QED BY <3>1
  <2> QED BY <1>1, <2>1, <2>2
<1> HIDE DEF S
<1>4. PICK a, c : S \subseteq {a, c}
  BY <1>3, Zenon
<1>5. IsFiniteSet({a}) /\ Cardinality({a}) = 1
  BY FS_Singleton
<1>6. IsFiniteSet({a} \cup {c}) /\ Cardinality({a} \cup {c}) <= 2
  <2> DEFINE one == Cardinality({a})
             two == Cardinality({a} \cup {c})
  <2>1. IsFiniteSet({a} \cup {c}) /\ (two = one \/ two = one + 1) /\ one = 1
    BY <1>5, FS_AddElement
  <2> HIDE DEF one, two
  <2>2. two <= 2
    BY <2>1
  <2> QED BY <2>1, <2>2, Zenon DEF two
<1>7. S \in SUBSET ({a} \cup {c})
  BY <1>4
<1>8. /\ Cardinality(S) <= Cardinality({a} \cup {c})
      /\ Cardinality(S) \in Nat /\ Cardinality({a} \cup {c}) \in Nat
  <2>1. IsFiniteSet(S) /\ Cardinality(S) <= Cardinality({a} \cup {c})
    BY <1>6, <1>7, FS_Subset, Zenon
  <2> QED BY <1>6, <2>1, FS_CardinalityType, Zenon
<1>9. Cardinality(S) <= 2
  <2> DEFINE some == Cardinality(S)
             two == Cardinality({a} \cup {c})
  <2>1. some \in Nat /\ two \in Nat /\ some <= two /\ two <= 2
    BY <1>6, <1>8, Zenon
  <2> HIDE DEF some, two
  <2>2. some <= 2
    BY <2>1
  <2> QED BY <2>2, Zenon DEF some
<1> QED BY <1>9, Zenon DEF S

StoryInv ==
  /\ ~finished => Story(bt) /\ NoEntryYet(bt, bt.i)
  /\ EntryStory(bt.entered, bt.trades) /\ bt.entered \in Seq(IntentType)

\* Breakouts, entries, trades and the flags between them tell one story on every
\* bar (prism_backtest.cpp:147-191).
THEOREM StoryInvariance == BacktestSpec => []StoryInv
<1>1. BacktestInit => StoryInv
  <2> SUFFICES ASSUME BacktestInit PROVE StoryInv
    OBVIOUS
  <2>1. bt.i = 0 /\ bt.breakout_i = 0 /\ bt.entered = <<>> /\ bt.trades = <<>>
    BY DEF BacktestInit
  <2>2. /\ bt.trade_open = FALSE /\ bt.prior_breakout = FALSE /\ bt.can_reentry = FALSE
    BY Zenon DEF BacktestInit
  <2>3. Len(bt.entered) = 0 /\ Len(bt.trades) = 0
    BY <2>1
  <2>4. EntryStory(bt.entered, bt.trades) /\ bt.entered \in Seq(IntentType)
    BY <2>1 DEF EntryStory
  <2>5. LatestBreakout(bt) /\ NoEntryYet(bt, bt.i) /\ ~LastOfBreakout(bt)
    BY <2>1, <2>3 DEF LatestBreakout, NoEntryYet, LastOfBreakout
  <2>6. TradePerEntry(bt)
    <3>1. Len(bt.entered) = Len(bt.trades) + 0
      BY <2>3
    <3> QED BY <2>2, <3>1, Zenon DEF TradePerEntry
  <2> QED BY <2>2, <2>4, <2>5, <2>6, Zenon
             DEF StoryInv, Story, OpenStory, PriorStory, ReentryStory, FirstStory
<1>2. LevelsInv /\ StoryInv /\ [BacktestNext]_backtestVars => StoryInv'
  <2> SUFFICES ASSUME LevelsInv, StoryInv, [BacktestNext]_backtestVars PROVE StoryInv'
    OBVIOUS
  <2>1. ASSUME NEW b \in Bars, OnBar(b) PROVE StoryInv'
    <3>1. LevelsBetween(bt) /\ bt' = NextBar(LookForEntry(ExitTrade(bt, b), b), b)
      BY <2>1 DEF OnBar, LevelsInv
    <3>2. Story(bt) /\ NoEntryYet(bt, bt.i)
      BY <2>1 DEF OnBar, StoryInv
    <3>3. Story(bt') /\ NoEntryYet(bt', bt'.i)
      BY <3>1, <3>2, BarKeepsStory, Zenon
    <3>4. LevelsBetween(bt')
      BY <3>1, BarKeepsLevels, Zenon
    <3>5. bt'.entered \in Seq(IntentType)
      BY <3>4, Zenon DEF LevelsBetween, Shape
    <3> QED BY <3>3, <3>5, Zenon DEF StoryInv, Story, NoEntryYet, LatestBreakout,
                TradePerEntry, OpenStory, PriorStory, ReentryStory, FirstStory,
                LastOfBreakout, StoppedOut, TooOld
  <2>2. CASE Finish
    <3>1. LevelsBetween(bt) /\ bt' = EndOfData(bt) /\ finished' = TRUE
      BY <2>2 DEF Finish, LevelsInv
    <3>2. Shape(bt)
      BY <3>1 DEF LevelsBetween
    <3>3. /\ bt'.entered = bt.entered /\ bt'.intents = bt.intents
          /\ bt'.trades = IF bt.trade_open THEN Append(bt.trades, DataEndRow(bt)) ELSE bt.trades
      BY <3>1, <3>2, EndFields, Zenon
    <3>4. bt.entered \in Seq(IntentType) /\ bt.trades \in Seq(RowType)
      BY <3>2, Zenon DEF Shape
    <3>5. EntryStory(bt'.entered, bt'.trades)
      <4>1. EntryStory(bt.entered, bt.trades)
        BY DEF StoryInv
      <4>2. CASE bt.trade_open
        <5>1. DataEndRow(bt) \in RowType
          BY <3>1, <4>2, EndKeepsRows
        <5> QED BY <3>3, <3>4, <4>1, <4>2, <5>1, StoryOneMoreTrade, Zenon
      <4>3. CASE ~bt.trade_open
        BY <3>3, <4>1, <4>3, Zenon
      <4> QED BY <4>2, <4>3
    <3> QED BY <3>1, <3>3, <3>4, <3>5, Zenon DEF StoryInv
  <2>3. CASE UNCHANGED backtestVars
    BY <2>3, Zenon DEF backtestVars, StoryInv, Story, NoEntryYet, LatestBreakout,
       TradePerEntry, OpenStory, PriorStory, ReentryStory, FirstStory,
       LastOfBreakout, StoppedOut, TooOld
  <2> QED BY <2>1, <2>2, <2>3, Zenon DEF BacktestNext
<1> QED BY <1>1, <1>2, LevelsInvariance, PTL DEF BacktestSpec

\* At most one re-entry per breakout, only after the stop of the first entry,
\* and every entry in the window of its breakout with stop below and entry above
\* the broken level (prism_backtest.cpp:159, :165-166, :190-191).
THEOREM EntriesInOrder == BacktestSpec => []EntriesFollowBreakouts
<1>1. StoryInv => EntriesFollowBreakouts
  <2> SUFFICES ASSUME StoryInv, NEW k \in 1 .. Len(bt.entered)
               PROVE  LET it == bt.entered[k]
                          window == IF it.type = "RE_ENTRY" THEN ENTRY_TTL + REENTRY_EXTRA ELSE ENTRY_TTL
                      IN
                      /\ it.type = "RE_ENTRY" =>
                           /\ k > 1 /\ bt.entered[k - 1].breakout_i = it.breakout_i
                           /\ bt.trades[k - 1].reason = "STOP_HIT"
                      /\ it.type = "RETEST_ENTRY" =>
                           \A j \in 1 .. k - 1 : bt.entered[j].breakout_i < it.breakout_i
                      /\ Cardinality({j \in 1 .. Len(bt.entered) :
                                        bt.entered[j].breakout_i = it.breakout_i}) <= 2
                      /\ it.breakout_i <= it.at /\ it.at - it.breakout_i <= window
                      /\ it.stop <= it.breakout /\ it.breakout < it.entry
    BY Zenon DEF EntriesFollowBreakouts
  <2>1. EntryStory(bt.entered, bt.trades) /\ bt.entered \in Seq(IntentType)
    BY DEF StoryInv
  <2>2. Cardinality({j \in 1 .. Len(bt.entered) :
                       bt.entered[j].breakout_i = bt.entered[k].breakout_i}) <= 2
    BY <2>1, TwoEntriesAtMost, Zenon
  <2>3. /\ Placed(bt.entered[k])
        /\ bt.entered[k].type = "RE_ENTRY" => FollowsStop(bt.entered, bt.trades, k)
        /\ bt.entered[k].type = "RETEST_ENTRY" => OpensBreakout(bt.entered, k)
    BY <2>1, Zenon DEF EntryStory
  <2> QED BY <2>2, <2>3, Zenon DEF Placed, FollowsStop, OpensBreakout
<1> QED BY <1>1, StoryInvariance, PTL


-----------------------------------------------------------------------------
(* The equity curve and the counts of rows, one row more *)

NoTrades == [equity |-> 0, peak |-> 0, dd |-> 0]

Then(c, row, skip) == IF row.reason = skip THEN c ELSE AfterTrade(c, row.r)

\* The recursive function exists, so its equation holds.
LEMMA CurveEquation ==
  ASSUME NEW ts, Len(ts) \in Nat, NEW skip
  PROVE  /\ Curve(ts, skip)[0] = NoTrades
         /\ \A k \in 1 .. Len(ts) :
              Curve(ts, skip)[k] = Then(Curve(ts, skip)[k - 1], ts[k], skip)
<1> DEFINE Up(f, n) == f = [k \in 0 .. n |-> IF k = 0 THEN NoTrades
                                             ELSE Then(f[k - 1], ts[k], skip)]
           P == {n \in Nat : \E f : Up(f, n)}
<1>1. 0 \in P
  <2> DEFINE f == [k \in 0 .. 0 |-> NoTrades]
  <2>1. Up(f, 0)
    OBVIOUS
  <2> QED BY <2>1
<1>2. ASSUME NEW n \in Nat, n \in P PROVE n + 1 \in P
  <2>1. PICK f : Up(f, n)
    BY <1>2
  <2> DEFINE g == [k \in 0 .. n + 1 |-> IF k <= n THEN f[k] ELSE Then(f[n], ts[n + 1], skip)]
  <2>2. \A k \in 0 .. n + 1 : g[k] = IF k = 0 THEN NoTrades ELSE Then(g[k - 1], ts[k], skip)
    <3> SUFFICES ASSUME NEW k \in 0 .. n + 1
                 PROVE  g[k] = IF k = 0 THEN NoTrades ELSE Then(g[k - 1], ts[k], skip)
      OBVIOUS
    <3>1. CASE k = 0
      BY <2>1, <3>1
    <3>2. CASE k \in 1 .. n
      <4>1. g[k] = f[k] /\ g[k - 1] = f[k - 1] /\ k \in 0 .. n /\ k # 0
        BY <3>2
      <4>2. f[k] = Then(f[k - 1], ts[k], skip)
        BY <2>1, <4>1
      <4> HIDE DEF g
      <4> QED BY <4>1, <4>2, Zenon
    <3>3. CASE k = n + 1
      <4>1. g[k] = Then(f[n], ts[k], skip) /\ g[k - 1] = f[n] /\ k # 0
        BY <3>3
      <4> HIDE DEF g
      <4> QED BY <4>1, Zenon
    <3> QED BY <3>1, <3>2, <3>3
  <2>3. Up(g, n + 1)
    <3> DEFINE h == [k \in 0 .. n + 1 |-> g[k]]
    <3>1. g = h
      OBVIOUS
    <3> HIDE DEF g
    <3>2. h = [k \in 0 .. n + 1 |-> IF k = 0 THEN NoTrades ELSE Then(g[k - 1], ts[k], skip)]
      BY <2>2
    <3> QED BY <3>1, <3>2, Zenon
  <2> HIDE DEF Up, g
  <2>4. \E e : Up(e, n + 1)
    BY <2>3, Zenon
  <2> QED BY <2>4
<1>3. \E f : Up(f, Len(ts))
  <2> HIDE DEF P
  <2>1. Nat \subseteq P
    BY <1>1, <1>2, NatInd
  <2> USE DEF P
  <2> QED BY <2>1
<1>4. PICK f : f = [k \in 0 .. Len(ts) |->
                      IF k = 0 THEN [equity |-> 0, peak |-> 0, dd |-> 0]
                      ELSE IF ts[k].reason = skip THEN f[k - 1]
                      ELSE AfterTrade(f[k - 1], ts[k].r)]
  BY <1>3, Zenon DEF Then, NoTrades
<1> DEFINE C == Curve(ts, skip)
<1>5. C = [k \in 0 .. Len(ts) |->
             IF k = 0 THEN [equity |-> 0, peak |-> 0, dd |-> 0]
             ELSE IF ts[k].reason = skip THEN C[k - 1]
             ELSE AfterTrade(C[k - 1], ts[k].r)]
  BY <1>4, Zenon DEF Curve
<1> HIDE DEF C
<1>6. \A k \in 0 .. Len(ts) :
        C[k] = IF k = 0 THEN [equity |-> 0, peak |-> 0, dd |-> 0]
               ELSE IF ts[k].reason = skip THEN C[k - 1]
               ELSE AfterTrade(C[k - 1], ts[k].r)
  BY <1>5, Zenon
<1>7. C[0] = NoTrades
  <2>1. 0 \in 0 .. Len(ts)
    OBVIOUS
  <2> QED BY <1>6, <2>1, Zenon DEF NoTrades
<1>8. ASSUME NEW k \in 1 .. Len(ts) PROVE C[k] = Then(C[k - 1], ts[k], skip)
  <2>1. k \in 0 .. Len(ts) /\ k # 0
    OBVIOUS
  <2> QED BY <1>6, <2>1, Zenon DEF Then
<1> QED BY <1>7, <1>8 DEF C

\* The curve of one more row goes one step further.
LEMMA CurveOneMore ==
  ASSUME NEW ts \in Seq(RowType), NEW row \in RowType, NEW skip,
         NEW us, us = Append(ts, row)
  PROVE  Curve(us, skip)[Len(us)] = Then(Curve(ts, skip)[Len(ts)], row, skip)
<1> DEFINE A == Curve(ts, skip)
           B == Curve(us, skip)
           P == {n \in Nat : n <= Len(ts) => B[n] = A[n]}
<1>1. /\ Len(us) = Len(ts) + 1 /\ Len(ts) \in Nat /\ us[Len(ts) + 1] = row
      /\ \A k \in 1 .. Len(ts) : us[k] = ts[k]
  OBVIOUS
<1>2. A[0] = NoTrades /\ \A k \in 1 .. Len(ts) : A[k] = Then(A[k - 1], ts[k], skip)
  BY <1>1, CurveEquation, Zenon
<1>3. B[0] = NoTrades /\ \A k \in 1 .. Len(us) : B[k] = Then(B[k - 1], us[k], skip)
  <2>1. Len(us) \in Nat
    BY <1>1
  <2> QED BY <2>1, CurveEquation, Zenon
<1> HIDE DEF A, B
<1>4. 0 \in P
  BY <1>2, <1>3
<1>5. ASSUME NEW n \in Nat, n \in P PROVE n + 1 \in P
  <2> SUFFICES ASSUME n + 1 <= Len(ts) PROVE B[n + 1] = A[n + 1]
    OBVIOUS
  <2>1. n + 1 \in 1 .. Len(ts) /\ n + 1 \in 1 .. Len(us) /\ (n + 1) - 1 = n /\ n <= Len(ts)
    BY <1>1
  <2>2. B[n] = A[n]
    BY <1>5, <2>1
  <2>3. A[n + 1] = Then(A[n], ts[n + 1], skip)
    <3>1. A[n + 1] = Then(A[(n + 1) - 1], ts[n + 1], skip)
      BY <1>2, <2>1, Zenon
    <3> QED BY <2>1, <3>1, Zenon
  <2>4. B[n + 1] = Then(B[n], us[n + 1], skip)
    <3>1. B[n + 1] = Then(B[(n + 1) - 1], us[n + 1], skip)
      BY <1>3, <2>1, Zenon
    <3> QED BY <2>1, <3>1, Zenon
  <2> QED BY <1>1, <2>1, <2>2, <2>3, <2>4, Zenon
<1>6. B[Len(ts)] = A[Len(ts)]
  <2> HIDE DEF P
  <2>1. Nat \subseteq P
    BY <1>4, <1>5, NatInd
  <2>2. Len(ts) \in P
    BY <1>1, <2>1
  <2> QED BY <1>1, <2>2 DEF P
<1>7. B[Len(us)] = Then(B[Len(ts)], row, skip)
  <2>1. Len(us) \in 1 .. Len(us) /\ Len(us) - 1 = Len(ts)
    BY <1>1
  <2>2. B[Len(us)] = Then(B[Len(us) - 1], us[Len(us)], skip)
    BY <1>3, <2>1, Zenon
  <2> QED BY <1>1, <2>1, <2>2, Zenon
<1> QED BY <1>6, <1>7, Zenon DEF A, B

\* How many rows of the log have a reason.
RowsWith(ts, reason) == Cardinality({k \in 1 .. Len(ts) : ts[k].reason = reason})

\* One more row counts for its own reason only.
LEMMA RowsWithOneMore ==
  ASSUME NEW ts \in Seq(RowType), NEW row \in RowType, NEW reason
  PROVE  /\ RowsWith(ts, reason) \in Nat
         /\ RowsWith(Append(ts, row), reason) =
              RowsWith(ts, reason) + (IF row.reason = reason THEN 1 ELSE 0)
<1> DEFINE us == Append(ts, row)
           n == Len(ts) + 1
           S == {k \in 1 .. Len(ts) : ts[k].reason = reason}
           T == {k \in 1 .. Len(us) : us[k].reason = reason}
<1>1. /\ Len(us) = n /\ Len(ts) \in Nat /\ us[n] = row
      /\ \A k \in 1 .. Len(ts) : us[k] = ts[k]
  OBVIOUS
<1>2. IsFiniteSet(S)
  <2>1. IsFiniteSet(1 .. Len(ts))
    <3>1. 1 \in Int /\ Len(ts) \in Int
      BY <1>1
    <3> QED BY <3>1, FS_Interval, Zenon
  <2>2. S \in SUBSET (1 .. Len(ts))
    OBVIOUS
  <2> HIDE DEF S
  <2> QED BY <2>1, <2>2, FS_Subset, Zenon
<1>3. n \notin S
  BY <1>1
<1>4. CASE row.reason = reason
  <2>1. T = S \cup {n}
    <3> HIDE DEF us
    <3> QED BY <1>1, <1>4
  <2> HIDE DEF S, T, n, us
  <2>2. Cardinality(T) = Cardinality(S) + 1
    BY <1>2, <1>3, <2>1, FS_AddElement, Zenon
  <2> USE DEF S, T, us
  <2> QED BY <1>2, <1>4, <2>2, FS_CardinalityType, Zenon DEF RowsWith
<1>5. CASE row.reason # reason
  <2>1. T = S
    <3> HIDE DEF us
    <3> QED BY <1>1, <1>5
  <2>2. Cardinality(S) \in Nat
    BY <1>2, FS_CardinalityType, Zenon
  <2> HIDE DEF n
  <2>3. RowsWith(us, reason) = RowsWith(ts, reason) /\ RowsWith(ts, reason) \in Nat
    BY <2>1, <2>2, Zenon DEF RowsWith
  <2> HIDE DEF us, S, T
  <2>4. RowsWith(us, reason) = RowsWith(ts, reason) + 0
    BY <2>3
  <2> QED BY <1>5, <2>3, <2>4, Zenon DEF us
<1> QED BY <1>4, <1>5


-----------------------------------------------------------------------------
(* The books *)

\* Every retest is an entry or a rejection, and every entry is numbered.
Entered(s) ==
  /\ s.retests \in Nat /\ s.entries \in Nat /\ s.rejections \in Nat
  /\ s.retests = s.entries + s.rejections
  /\ s.entries = s.trade_id /\ s.entries = Len(s.entered)

\* A breakout in force has not expired.
Expiries(s) ==
  /\ s.breakouts \in Nat /\ s.expired \in Nat
  /\ s.expired + (IF s.prior_breakout THEN 1 ELSE 0) <= s.breakouts

Numbered(ts) == \A k \in 1 .. Len(ts) : ts[k].trade_id = k

Counted(s) ==
  /\ s.stops = RowsWith(s.trades, "STOP_HIT") /\ s.timeexits = RowsWith(s.trades, "TIME_EXIT")
  /\ s.t1hits = RowsWith(s.trades, "TARGET1_HIT")
  /\ s.t2hits = RowsWith(s.trades, "TARGET2_HIT")
  /\ s.invalidations = RowsWith(s.trades, "INVALID")

\* equity, peak_equity and max_dd are where the curve of the rows ends.
Curved(s) ==
  \A skip \in {"NO_EXIT", "DATA_END_EXIT"} :
    Curve(s.trades, skip)[Len(s.trades)] =
      [equity |-> s.equity, peak |-> s.peak_equity, dd |-> s.max_dd]

Books(s) == Entered(s) /\ Expiries(s) /\ Numbered(s.trades) /\ Counted(s) /\ Curved(s)

\* An exit writes one row, counts it once and takes the curve one step further
\* (prism_backtest.cpp:153).
LEMMA ExitKeepsBooks ==
  ASSUME NEW s, LevelsBetween(s), Story(s), Books(s), NEW b \in Bars
  PROVE  Books(ExitTrade(s, b))
<1>0. Shape(s)
  BY DEF LevelsBetween
<1>1. CASE ExitTrade(s, b) = s
  BY <1>1
<1>2. ASSUME s.trade_open, NEW reason \in LoopReasons, NEW price \in Int,
             Decided(s, b, reason, price)
      PROVE  Books(Closed(s, reason, price))
  <2> DEFINE c == Closed(s, reason, price)
             row == TradeRow(s, reason, price)
             m == Multiple(s, price)
             before == [equity |-> s.equity, peak |-> s.peak_equity, dd |-> s.max_dd]
             after == AfterTrade(before, m)
  <2>1. row \in RowType
    BY <1>0, <1>2, DecidedRow DEF LevelsBetween
  <2>2. row.reason = reason /\ row.trade_id = s.trade_id /\ row.r = m
    BY DEF TradeRow
  <2>3. ClosesTrade(s, reason, price, c)
    BY <1>0, <1>2, ClosedFields, Zenon
  <2>4. /\ c.prior_breakout = s.prior_breakout
        /\ c.entered = s.entered /\ c.trades = Append(s.trades, row)
        /\ c.breakouts = s.breakouts /\ c.expired = s.expired /\ c.retests = s.retests
        /\ c.entries = s.entries /\ c.rejections = s.rejections /\ c.trade_id = s.trade_id
        /\ c.stops = s.stops + (IF reason = "STOP_HIT" THEN 1 ELSE 0)
        /\ c.t1hits = s.t1hits + (IF reason = "TARGET1_HIT" THEN 1 ELSE 0)
        /\ c.t2hits = s.t2hits + (IF reason = "TARGET2_HIT" THEN 1 ELSE 0)
        /\ c.invalidations = s.invalidations + (IF reason = "INVALID" THEN 1 ELSE 0)
        /\ c.timeexits = s.timeexits + (IF reason = "TIME_EXIT" THEN 1 ELSE 0)
    BY <2>3, Zenon DEF ClosesTrade, row
  <2>5. c.equity = after.equity /\ c.peak_equity = after.peak /\ c.max_dd = after.dd
    BY <2>3, Zenon DEF ClosesTrade
  <2>6. after = [equity |-> after.equity, peak |-> after.peak, dd |-> after.dd]
    BY DEF AfterTrade
  <2> HIDE DEF c, row, m, after
  <2>7. s.trades \in Seq(RowType)
    BY <1>0, Zenon DEF Shape
  <2>8. Entered(c) /\ Expiries(c)
    BY <2>4, Zenon DEF Books, Entered, Expiries
  <2>9. Numbered(c.trades)
    <3>1. s.trade_id = Len(s.trades) + 1
      BY <1>2, Zenon DEF Books, Entered, Story, TradePerEntry
    <3>2. /\ Len(c.trades) = Len(s.trades) + 1 /\ Len(s.trades) \in Nat
          /\ c.trades[Len(s.trades) + 1] = row
          /\ \A k \in 1 .. Len(s.trades) : c.trades[k] = s.trades[k]
      BY <2>4, <2>7
    <3>3. ASSUME NEW k \in 1 .. Len(c.trades) PROVE c.trades[k].trade_id = k
      <4>1. CASE k \in 1 .. Len(s.trades)
        BY <3>2, <4>1, Zenon DEF Books, Numbered
      <4>2. CASE k \notin 1 .. Len(s.trades)
        <5>1. k = Len(s.trades) + 1
          BY <3>2, <4>2
        <5> QED BY <2>2, <3>1, <3>2, <5>1, Zenon
      <4> QED BY <4>1, <4>2
    <3> QED BY <3>3, Zenon DEF Numbered
  <2>10. Counted(c)
    <3>1. \A r : RowsWith(c.trades, r) = RowsWith(s.trades, r) + (IF reason = r THEN 1 ELSE 0)
      <4>1. ASSUME NEW r
            PROVE  RowsWith(c.trades, r) = RowsWith(s.trades, r) + (IF row.reason = r THEN 1 ELSE 0)
        <5>1. RowsWith(Append(s.trades, row), r)
                = RowsWith(s.trades, r) + (IF row.reason = r THEN 1 ELSE 0)
          BY <2>1, <2>7, RowsWithOneMore
        <5> QED BY <2>4, <5>1, Zenon
      <4> QED BY <4>1, <2>2, Zenon
    <3> QED BY <2>4, <3>1, Zenon DEF Books, Counted
  <2>11. Curved(c)
    <3>1. ASSUME NEW skip \in {"NO_EXIT", "DATA_END_EXIT"}
          PROVE  Curve(c.trades, skip)[Len(c.trades)] = after
      <4>1. reason # skip
        BY <1>2, <3>1 DEF LoopReasons
      <4>2. Curve(c.trades, skip)[Len(c.trades)]
              = Then(Curve(s.trades, skip)[Len(s.trades)], row, skip)
        BY <2>1, <2>4, <2>7, CurveOneMore, Zenon
      <4>3. Curve(s.trades, skip)[Len(s.trades)] = before
        BY <3>1, Zenon DEF Books, Curved
      <4>4. Then(before, row, skip) = after
        BY <2>2, <4>1, Zenon DEF Then, after
      <4> QED BY <4>2, <4>3, <4>4, Zenon
    <3> QED BY <2>5, <2>6, <3>1, Zenon DEF Curved
  <2> QED BY <2>8, <2>9, <2>10, <2>11, Zenon DEF Books, c
<1>3. CASE ~s.trade_open
  BY <1>1, <1>3, NothingToExit
<1>4. CASE s.trade_open
  <2>1. OpenLevels(s)
    BY <1>4 DEF LevelsBetween
  <2>2. ASSUME NEW reason \in LoopReasons, NEW price \in Int,
               Decided(s, b, reason, price), ExitTrade(s, b) = Closed(s, reason, price)
        PROVE  Books(ExitTrade(s, b))
    BY <1>2, <1>4, <2>2
  <2> QED BY <1>0, <1>1, <1>4, <2>1, <2>2, ExitDecides, Zenon
<1> QED BY <1>3, <1>4

\* A new breakout is counted once (prism_backtest.cpp:159).
LEMMA BreakoutKeepsBooks ==
  ASSUME NEW s, Shape(s), Books(s), NEW b
  PROVE  Books(NewBreakout(s, b))
<1> DEFINE c == NewBreakout(s, b)
<1>1. CASE c = s
  BY <1>1
<1>2. CASE c # s
  <2>1. /\ \A f \in Fields \ {"prior_breakout", "breakout", "breakout_i", "breakouts",
                              "can_reentry", "reentry_used"} : c[f] = s[f]
        /\ c.prior_breakout = TRUE /\ c.breakouts = s.breakouts + 1
    BY <1>2, NewBreakoutFields
  <2> HIDE DEF c
  <2>2. /\ c.entered = s.entered /\ c.trades = s.trades /\ c.trade_id = s.trade_id
        /\ c.expired = s.expired /\ c.retests = s.retests
        /\ c.entries = s.entries /\ c.rejections = s.rejections
        /\ c.stops = s.stops /\ c.t1hits = s.t1hits /\ c.t2hits = s.t2hits
        /\ c.invalidations = s.invalidations /\ c.timeexits = s.timeexits
        /\ c.equity = s.equity /\ c.peak_equity = s.peak_equity /\ c.max_dd = s.max_dd
    BY <2>1 DEF Fields
  <2>3. /\ s.breakouts \in Nat /\ s.expired \in Nat
        /\ s.expired + (IF s.prior_breakout THEN 1 ELSE 0) <= s.breakouts
    BY Zenon DEF Books, Expiries
  <2>4. c.expired + 1 <= c.breakouts /\ c.breakouts \in Nat
    <3>1. CASE s.prior_breakout
      BY <2>1, <2>2, <2>3, <3>1
    <3>2. CASE ~s.prior_breakout
      BY <2>1, <2>2, <2>3, <3>2
    <3> QED BY <3>1, <3>2
  <2> QED BY <2>1, <2>2, <2>3, <2>4, Zenon DEF Books, Entered, Expiries, Counted, Curved, c
<1> QED BY <1>1, <1>2

\* Only a breakout in force can expire (prism_backtest.cpp:160).
LEMMA ExpireKeepsBooks ==
  ASSUME NEW s, Shape(s), Books(s)
  PROVE  Books(Expire(s))
<1> DEFINE c == Expire(s)
<1>1. CASE c = s
  BY <1>1
<1>2. CASE c # s
  <2>1. /\ \A f \in Fields \ {"prior_breakout", "expired"} : c[f] = s[f]
        /\ c.prior_breakout = FALSE /\ c.expired = s.expired + 1
        /\ s.prior_breakout
    BY <1>2, ExpireFields
  <2> HIDE DEF c
  <2>2. /\ c.entered = s.entered /\ c.trades = s.trades /\ c.trade_id = s.trade_id
        /\ c.breakouts = s.breakouts /\ c.retests = s.retests
        /\ c.entries = s.entries /\ c.rejections = s.rejections
        /\ c.stops = s.stops /\ c.t1hits = s.t1hits /\ c.t2hits = s.t2hits
        /\ c.invalidations = s.invalidations /\ c.timeexits = s.timeexits
        /\ c.equity = s.equity /\ c.peak_equity = s.peak_equity /\ c.max_dd = s.max_dd
    BY <2>1 DEF Fields
  <2>3. /\ s.breakouts \in Nat /\ s.expired \in Nat /\ s.expired + 1 <= s.breakouts
    BY <2>1, Zenon DEF Books, Expiries
  <2>4. c.expired + 0 <= c.breakouts /\ c.expired \in Nat
    BY <2>1, <2>2, <2>3
  <2> QED BY <2>1, <2>2, <2>3, <2>4, Zenon DEF Books, Entered, Expiries, Counted, Curved, c
<1> QED BY <1>1, <1>2

\* A retest is counted as one, and as an entry or as a rejection
\* (prism_backtest.cpp:166-191).
LEMMA EntryKeepsBooks ==
  ASSUME NEW s, NEW b \in Bars, Shape(s), Books(s)
  PROVE  Books(TryEntry(s, b))
<1> DEFINE t == LogRetest(s, b)
<1>1. /\ DOMAIN t = Fields /\ t.retests = s.retests + 1
      /\ \A f \in Fields \ {"retests", "entry", "stop", "R", "t1", "t2", "intents"} :
           t[f] = s[f]
  BY LogRetestFields, Zenon
<1> HIDE DEF t
<1>2. /\ t.entered = s.entered /\ t.trades = s.trades /\ t.trade_id = s.trade_id
      /\ t.prior_breakout = s.prior_breakout
      /\ t.breakouts = s.breakouts /\ t.expired = s.expired
      /\ t.entries = s.entries /\ t.rejections = s.rejections
      /\ t.stops = s.stops /\ t.t1hits = s.t1hits /\ t.t2hits = s.t2hits
      /\ t.invalidations = s.invalidations /\ t.timeexits = s.timeexits
      /\ t.equity = s.equity /\ t.peak_equity = s.peak_equity /\ t.max_dd = s.max_dd
  BY <1>1 DEF Fields
<1>3. /\ s.retests \in Nat /\ s.entries \in Nat /\ s.rejections \in Nat
      /\ s.retests = s.entries + s.rejections
      /\ s.entries = s.trade_id /\ s.entries = Len(s.entered)
  BY Zenon DEF Books, Entered
<1>4. Books(Reject(t))
  <2> DEFINE c == Reject(t)
  <2>1. (\A f \in Fields \ {"rejections"} : c[f] = t[f]) /\ c.rejections = t.rejections + 1
    BY <1>1, RejectFields
  <2> HIDE DEF c
  <2>2. /\ c.entered = t.entered /\ c.trades = t.trades /\ c.trade_id = t.trade_id
        /\ c.prior_breakout = t.prior_breakout
        /\ c.breakouts = t.breakouts /\ c.expired = t.expired /\ c.retests = t.retests
        /\ c.entries = t.entries
        /\ c.stops = t.stops /\ c.t1hits = t.t1hits /\ c.t2hits = t.t2hits
        /\ c.invalidations = t.invalidations /\ c.timeexits = t.timeexits
        /\ c.equity = t.equity /\ c.peak_equity = t.peak_equity /\ c.max_dd = t.max_dd
    BY <2>1 DEF Fields
  <2>3. /\ c.retests \in Nat /\ c.rejections \in Nat /\ c.retests = c.entries + c.rejections
    BY <1>1, <1>2, <1>3, <2>1, <2>2
  <2>4. Entered(c)
    BY <1>2, <1>3, <2>2, <2>3, Zenon DEF Entered
  <2> QED BY <1>2, <2>2, <2>4, Zenon DEF Books, Expiries, Counted, Curved, c
<1>5. Books(Accept(t))
  <2> DEFINE c == Accept(t)
  <2>1. /\ \A f \in Fields \ {"trade_open", "entry_i", "trade_id", "entries", "entered",
                              "reentries", "reentry_used", "prior_breakout", "can_reentry"} :
             c[f] = t[f]
        /\ c.prior_breakout = FALSE
        /\ c.trade_id = t.trade_id + 1 /\ c.entries = t.entries + 1
        /\ c.entered = Append(t.entered, Intent(t, TRUE))
    BY <1>1, AcceptFields, Zenon
  <2> HIDE DEF c
  <2>2. /\ c.trades = t.trades
        /\ c.breakouts = t.breakouts /\ c.expired = t.expired /\ c.retests = t.retests
        /\ c.rejections = t.rejections
        /\ c.stops = t.stops /\ c.t1hits = t.t1hits /\ c.t2hits = t.t2hits
        /\ c.invalidations = t.invalidations /\ c.timeexits = t.timeexits
        /\ c.equity = t.equity /\ c.peak_equity = t.peak_equity /\ c.max_dd = t.max_dd
    BY <2>1 DEF Fields
  <2>3. s.entered \in Seq(IntentType)
    BY Zenon DEF Shape
  <2>4. Len(c.entered) = Len(s.entered) + 1
    BY <1>2, <2>1, <2>3
  <2>5. Entered(c)
    <3>1. /\ c.retests = s.retests + 1 /\ c.entries = s.entries + 1
          /\ c.rejections = s.rejections /\ c.trade_id = s.trade_id + 1
          /\ Len(c.entered) = Len(s.entered) + 1
      BY <1>1, <1>2, <2>1, <2>2, <2>4, Zenon
    <3>2. /\ s.retests + 1 \in Nat /\ s.entries + 1 \in Nat
          /\ s.retests + 1 = (s.entries + 1) + s.rejections
      BY <1>3
    <3> QED BY <1>3, <3>1, <3>2, Zenon DEF Entered
  <2>6. Expiries(c)
    <3>1. /\ s.breakouts \in Nat /\ s.expired \in Nat
          /\ s.expired + (IF s.prior_breakout THEN 1 ELSE 0) <= s.breakouts
      BY Zenon DEF Books, Expiries
    <3>2. s.expired + 0 <= s.breakouts
      <4>1. CASE s.prior_breakout
        BY <3>1, <4>1
      <4>2. CASE ~s.prior_breakout
        BY <3>1, <4>2
      <4> QED BY <4>1, <4>2
    <3> QED BY <1>2, <2>1, <2>2, <3>1, <3>2, Zenon DEF Expiries
  <2> QED BY <1>2, <2>2, <2>5, <2>6, Zenon DEF Books, Counted, Curved, c
<1> QED BY <1>4, <1>5, Zenon DEF TryEntry, t

\* The next bar changes no account.
LEMMA NextBarKeepsBooks ==
  ASSUME NEW s, NEW b \in Bars, Shape(s), Books(s)
  PROVE  Books(NextBar(s, b))
<1> DEFINE c == NextBar(s, b)
<1>1. \A f \in Fields \ {"i", "recent"} : c[f] = s[f]
  BY NextBarFields
<1> HIDE DEF c
<1>2. /\ c.entered = s.entered /\ c.trades = s.trades /\ c.trade_id = s.trade_id
      /\ c.prior_breakout = s.prior_breakout
      /\ c.breakouts = s.breakouts /\ c.expired = s.expired /\ c.retests = s.retests
      /\ c.entries = s.entries /\ c.rejections = s.rejections
      /\ c.stops = s.stops /\ c.t1hits = s.t1hits /\ c.t2hits = s.t2hits
      /\ c.invalidations = s.invalidations /\ c.timeexits = s.timeexits
      /\ c.equity = s.equity /\ c.peak_equity = s.peak_equity /\ c.max_dd = s.max_dd
  BY <1>1 DEF Fields
<1> QED BY <1>2, Zenon DEF Books, Entered, Expiries, Counted, Curved, c


\* The whole body of the loop.
LEMMA BarKeepsBooks ==
  ASSUME NEW s, NEW b \in Bars, LevelsBetween(s), Story(s), Books(s)
  PROVE  Books(NextBar(LookForEntry(ExitTrade(s, b), b), b))
<1> DEFINE x == ExitTrade(s, b)
           y == LookForEntry(x, b)
<1>1. LevelsInBar(x, b)
  BY ExitKeepsLevels
<1>2. Books(x)
  BY ExitKeepsBooks
<1> HIDE DEF x
<1>3. Shape(y) /\ Books(y)
  <2>1. CASE HasLookback(x) /\ ~x.trade_open
    <3> DEFINE n == NewBreakout(x, b)
               e == Expire(n)
    <3>1. LevelsInBar(n, b) /\ ~n.trade_open
      BY <1>1, <2>1, BreakoutKeepsLevels
    <3>2. Books(n)
      BY <1>1, <1>2, BreakoutKeepsBooks DEF LevelsInBar
    <3> HIDE DEF n
    <3>3. LevelsInBar(e, b) /\ ~e.trade_open
      BY <3>1, ExpireKeepsLevels
    <3>4. Books(e)
      BY <3>1, <3>2, ExpireKeepsBooks DEF LevelsInBar
    <3> HIDE DEF e
    <3>5. LevelsInBar(TryEntry(e, b), b)
      BY <3>3, EntryKeepsLevels
    <3>6. Books(TryEntry(e, b))
      BY <3>3, <3>4, EntryKeepsBooks DEF LevelsInBar
    <3>7. Shape(TryEntry(e, b))
      BY <3>5, Zenon DEF LevelsInBar
    <3> QED BY <2>1, <3>6, <3>7, Zenon DEF LookForEntry, e, n
  <2>2. CASE ~(HasLookback(x) /\ ~x.trade_open)
    BY <1>1, <1>2, <2>2, Zenon DEF LookForEntry, LevelsInBar
  <2> QED BY <2>1, <2>2
<1> HIDE DEF y
<1>4. Books(NextBar(y, b))
  BY <1>3, NextBarKeepsBooks
<1> QED BY <1>4 DEF x, y

\* While the loop runs the books agree, the open trade being the one entry
\* without a row.
LEMMA RunningTotalsAgree ==
  ASSUME ~finished, Books(bt), Story(bt)
  PROVE  TotalsAgree
<1>1. Entered(bt) /\ Expiries(bt) /\ Numbered(bt.trades) /\ Counted(bt) /\ Curved(bt)
  BY Zenon DEF Books
<1>2. bt.entries = Len(bt.trades) + OpenInLoop
  BY <1>1, Zenon DEF Entered, Story, TradePerEntry, OpenInLoop
<1>3. bt.expired <= bt.breakouts
  <2>1. CASE bt.prior_breakout
    <3>1. bt.breakouts \in Nat /\ bt.expired \in Nat /\ bt.expired + 1 <= bt.breakouts
      BY <1>1, <2>1, Zenon DEF Expiries
    <3> QED BY <3>1
  <2>2. CASE ~bt.prior_breakout
    <3>1. bt.breakouts \in Nat /\ bt.expired \in Nat /\ bt.expired + 0 <= bt.breakouts
      BY <1>1, <2>2, Zenon DEF Expiries
    <3> QED BY <3>1
  <2> QED BY <2>1, <2>2
<1>4. bt.equity = AllTrades(bt.trades).equity /\ bt.max_dd = LoopTrades(bt.trades).dd
  <2> DEFINE c == [equity |-> bt.equity, peak |-> bt.peak_equity, dd |-> bt.max_dd]
  <2>1. AllTrades(bt.trades) = c /\ LoopTrades(bt.trades) = c
    BY <1>1, Zenon DEF Curved, AllTrades, LoopTrades
  <2>2. c.equity = bt.equity /\ c.dd = bt.max_dd
    OBVIOUS
  <2> HIDE DEF c
  <2> QED BY <2>1, <2>2, Zenon
<1> QED BY <1>1, <1>2, <1>3, <1>4, Zenon
           DEF TotalsAgree, Entered, Numbered, Counted, Exits, RowsWith

\* When the data end an open trade gets its row, counted by no counter and left
\* out of max_dd, and every entry is a trade (prism_backtest.cpp:197).
LEMMA EndTotalsAgree ==
  ASSUME Finish, LevelsBetween(bt), Story(bt), Books(bt)
  PROVE  TotalsAgree'
<1> DEFINE row == DataEndRow(bt)
           c == [equity |-> bt.equity, peak |-> bt.peak_equity, dd |-> bt.max_dd]
<1>1. bt' = EndOfData(bt) /\ finished' = TRUE
  BY DEF Finish
<1>2. Shape(bt)
  BY DEF LevelsBetween
<1>3. /\ bt'.entered = bt.entered /\ bt'.intents = bt.intents
      /\ bt'.max_dd = bt.max_dd /\ bt'.trade_id = bt.trade_id
      /\ bt'.breakouts = bt.breakouts /\ bt'.expired = bt.expired
      /\ bt'.retests = bt.retests
      /\ bt'.entries = bt.entries /\ bt'.rejections = bt.rejections
      /\ bt'.stops = bt.stops /\ bt'.t1hits = bt.t1hits /\ bt'.t2hits = bt.t2hits
      /\ bt'.invalidations = bt.invalidations /\ bt'.timeexits = bt.timeexits
      /\ bt'.trades = IF bt.trade_open THEN Append(bt.trades, row) ELSE bt.trades
      /\ bt'.equity = IF bt.trade_open THEN bt.equity + row.r ELSE bt.equity
  BY <1>1, <1>2, EndFields, Zenon
<1>4. bt.trades \in Seq(RowType)
  BY <1>2, Zenon DEF Shape
<1>5. /\ bt.retests = bt.entries + bt.rejections
      /\ bt.entries = bt.trade_id /\ bt.entries = Len(bt.entered)
  BY Zenon DEF Books, Entered
<1>6. bt.expired <= bt.breakouts
  <2>1. ~finished
    BY DEF Finish
  <2> QED BY <2>1, RunningTotalsAgree, Zenon DEF TotalsAgree
<1>7. AllTrades(bt.trades) = c /\ LoopTrades(bt.trades) = c
  BY Zenon DEF Books, Curved, AllTrades, LoopTrades
<1>8. c.equity = bt.equity /\ c.dd = bt.max_dd
  OBVIOUS
<1>9. OpenInLoop' = 0
  BY <1>1, Zenon DEF OpenInLoop
<1> HIDE DEF row, c
<1>10. /\ Len(bt'.trades) \in Nat /\ bt'.entries = Len(bt'.trades)
       /\ Numbered(bt'.trades)
       /\ \A r \in LoopReasons : RowsWith(bt'.trades, r) = RowsWith(bt.trades, r)
       /\ bt'.equity = AllTrades(bt'.trades).equity
       /\ bt'.max_dd = LoopTrades(bt'.trades).dd
  <2>1. CASE ~bt.trade_open
    <3>1. bt'.trades = bt.trades /\ bt'.equity = bt.equity
      BY <1>3, <2>1, Zenon
    <3>2. bt.entries = Len(bt.trades)
      <4>1. bt.entries = Len(bt.trades) + 0 /\ Len(bt.trades) \in Nat
        <5>1. bt.entries = Len(bt.trades) + 0
          BY <1>5, <2>1, Zenon DEF Story, TradePerEntry
        <5> QED BY <1>4, <5>1
      <4> QED BY <4>1
    <3>3. Len(bt.trades) \in Nat
      BY <1>4
    <3> QED BY <1>3, <1>7, <1>8, <3>1, <3>2, <3>3, Zenon DEF Books
  <2>2. CASE bt.trade_open
    <3>1. bt'.trades = Append(bt.trades, row) /\ bt'.equity = bt.equity + row.r
      BY <1>3, <2>2, Zenon
    <3>2. row \in RowType
      BY <2>2, EndKeepsRows, Zenon DEF row
    <3>3. row.trade_id = bt.trade_id /\ row.reason = "DATA_END_EXIT"
      BY DEF row, DataEndRow, TradeRow
    <3>4. bt.entries = Len(bt.trades) + 1
      BY <1>5, <2>2, Zenon DEF Story, TradePerEntry
    <3>5. /\ Len(bt'.trades) = Len(bt.trades) + 1 /\ Len(bt.trades) \in Nat
          /\ bt'.trades[Len(bt.trades) + 1] = row
          /\ \A k \in 1 .. Len(bt.trades) : bt'.trades[k] = bt.trades[k]
      BY <1>4, <3>1
    <3>6. Numbered(bt'.trades)
      <4>1. ASSUME NEW k \in 1 .. Len(bt'.trades) PROVE bt'.trades[k].trade_id = k
        <5>1. CASE k \in 1 .. Len(bt.trades)
          BY <3>5, <5>1, Zenon DEF Books, Numbered
        <5>2. CASE k \notin 1 .. Len(bt.trades)
          <6>1. k = Len(bt.trades) + 1
            BY <3>5, <5>2
          <6> QED BY <1>5, <3>3, <3>4, <3>5, <6>1, Zenon
        <5> QED BY <5>1, <5>2
      <4> QED BY <4>1, Zenon DEF Numbered
    <3>7. ASSUME NEW r \in LoopReasons
          PROVE  RowsWith(bt'.trades, r) = RowsWith(bt.trades, r)
      <4>1. row.reason # r
        BY <3>3 DEF LoopReasons
      <4>2. /\ RowsWith(bt.trades, r) \in Nat
            /\ RowsWith(Append(bt.trades, row), r)
                 = RowsWith(bt.trades, r) + (IF row.reason = r THEN 1 ELSE 0)
        BY <1>4, <3>2, RowsWithOneMore
      <4>3. RowsWith(bt'.trades, r) = RowsWith(bt.trades, r) + 0
        BY <3>1, <4>1, <4>2, Zenon
      <4> QED BY <4>2, <4>3
    <3>8. ASSUME NEW skip
          PROVE  Curve(bt'.trades, skip)[Len(bt'.trades)]
                   = Then(Curve(bt.trades, skip)[Len(bt.trades)], row, skip)
      BY <1>4, <3>1, <3>2, CurveOneMore, Zenon
    <3>9. AllTrades(bt'.trades) = AfterTrade(c, row.r)
      <4>1. row.reason # "NO_EXIT"
        BY <3>3
      <4> QED BY <1>7, <3>8, <4>1, Zenon DEF AllTrades, Then
    <3>10. LoopTrades(bt'.trades) = c
      BY <1>7, <3>3, <3>8, Zenon DEF LoopTrades, Then
    <3>11. AfterTrade(c, row.r).equity = c.equity + row.r
      BY DEF AfterTrade
    <3>12. Len(bt'.trades) \in Nat /\ bt'.entries = Len(bt'.trades)
      BY <1>3, <3>4, <3>5
    <3> QED BY <1>3, <1>8, <3>1, <3>6, <3>7, <3>9, <3>10, <3>11, <3>12, Zenon
  <2> QED BY <2>1, <2>2
<1>11. /\ bt'.stops = RowsWith(bt'.trades, "STOP_HIT")
       /\ bt'.timeexits = RowsWith(bt'.trades, "TIME_EXIT")
       /\ bt'.t1hits = RowsWith(bt'.trades, "TARGET1_HIT")
       /\ bt'.t2hits = RowsWith(bt'.trades, "TARGET2_HIT")
       /\ bt'.invalidations = RowsWith(bt'.trades, "INVALID")
  <2>1. {"STOP_HIT", "TIME_EXIT", "TARGET1_HIT", "TARGET2_HIT", "INVALID"} \subseteq LoopReasons
    BY DEF LoopReasons
  <2> QED BY <1>3, <1>10, <2>1, Zenon DEF Books, Counted
<1>12. bt'.entries = Len(bt'.trades) + OpenInLoop'
  BY <1>9, <1>10
<1> QED BY <1>3, <1>5, <1>6, <1>10, <1>11, <1>12, Zenon
           DEF TotalsAgree, Numbered, Exits, RowsWith

BooksInv ==
  /\ ~finished => Books(bt)
  /\ finished => TotalsAgree

\* The counters and logs that main() updates in different branches stay in step
\* on every bar and when the data end (prism_backtest.cpp:147-197).
THEOREM BooksInvariance == BacktestSpec => []BooksInv
<1>1. BacktestInit => BooksInv
  <2> SUFFICES ASSUME BacktestInit PROVE Books(bt) /\ ~finished
    BY DEF BooksInv
  <2>1. /\ bt.entered = <<>> /\ bt.trades = <<>> /\ bt.trade_id = 0
        /\ bt.breakouts = 0 /\ bt.expired = 0 /\ bt.retests = 0
        /\ bt.entries = 0 /\ bt.rejections = 0
        /\ bt.stops = 0 /\ bt.t1hits = 0 /\ bt.t2hits = 0
        /\ bt.invalidations = 0 /\ bt.timeexits = 0
        /\ bt.equity = 0 /\ bt.peak_equity = 0 /\ bt.max_dd = 0
    BY DEF BacktestInit
  <2>2. bt.prior_breakout = FALSE /\ ~finished
    BY Zenon DEF BacktestInit
  <2>3. Len(bt.entered) = 0 /\ Len(bt.trades) = 0
    BY <2>1
  <2>4. Entered(bt) /\ Numbered(bt.trades)
    BY <2>1, <2>3 DEF Entered, Numbered
  <2>5. Expiries(bt)
    <3>1. 0 \in Nat /\ 0 + 0 <= 0
      OBVIOUS
    <3> QED BY <2>1, <2>2, <3>1, Zenon DEF Expiries
  <2>6. Counted(bt)
    <3>1. \A r : RowsWith(bt.trades, r) = 0
      <4>1. ASSUME NEW r PROVE {k \in 1 .. Len(bt.trades) : bt.trades[k].reason = r} = {}
        BY <2>3
      <4> QED BY <4>1, FS_EmptySet, Zenon DEF RowsWith
    <3> QED BY <2>1, <3>1, Zenon DEF Counted
  <2>7. Curved(bt)
    <3>1. ASSUME NEW skip PROVE Curve(bt.trades, skip)[0] = NoTrades
      <4>1. Len(bt.trades) \in Nat
        BY <2>3
      <4> QED BY <4>1, CurveEquation, Zenon
    <3> QED BY <2>1, <2>3, <3>1, Zenon DEF Curved, NoTrades
  <2> QED BY <2>2, <2>4, <2>5, <2>6, <2>7, Zenon DEF Books
<1>2. LevelsInv /\ StoryInv /\ BooksInv /\ [BacktestNext]_backtestVars => BooksInv'
  <2> SUFFICES ASSUME LevelsInv, StoryInv, BooksInv, [BacktestNext]_backtestVars
               PROVE  BooksInv'
    OBVIOUS
  <2>1. ASSUME NEW b \in Bars, OnBar(b) PROVE BooksInv'
    <3>1. /\ LevelsBetween(bt) /\ bt' = NextBar(LookForEntry(ExitTrade(bt, b), b), b)
          /\ finished' = finished /\ ~finished
      BY <2>1 DEF OnBar, LevelsInv
    <3>2. Story(bt) /\ Books(bt)
      BY <2>1 DEF OnBar, StoryInv, BooksInv
    <3>3. Books(bt')
      BY <3>1, <3>2, BarKeepsBooks, Zenon
    <3> QED BY <3>1, <3>3, Zenon
            DEF BooksInv, Books, Entered, Expiries, Counted, Curved
  <2>2. CASE Finish
    <3>1. LevelsBetween(bt) /\ Story(bt) /\ Books(bt) /\ finished' = TRUE
      BY <2>2 DEF Finish, LevelsInv, StoryInv, BooksInv
    <3>2. TotalsAgree'
      BY <2>2, <3>1, EndTotalsAgree
    <3> QED BY <3>1, <3>2, Zenon DEF BooksInv
  <2>3. CASE UNCHANGED backtestVars
    <3>1. bt' = bt /\ finished' = finished
      BY <2>3 DEF backtestVars
    <3>3. TotalsAgree' <=> TotalsAgree
      BY <3>1, Zenon DEF TotalsAgree, Exits, OpenInLoop
    <3>4. Books(bt)' <=> Books(bt)
      BY <3>1, Zenon DEF Books, Entered, Expiries, Counted, Curved
    <3> QED BY <3>1, <3>3, <3>4, Zenon DEF BooksInv
  <2> QED BY <2>1, <2>2, <2>3, Zenon DEF BacktestNext
<1> QED BY <1>1, <1>2, LevelsInvariance, StoryInvariance, PTL DEF BacktestSpec


-----------------------------------------------------------------------------
(* The logs *)

\* One more row counts for its own verdict only, and as a re-entry if it is one.
LEMMA CountsOneMore ==
  ASSUME NEW its \in Seq(IntentType), NEW it \in IntentType
  PROVE  /\ \A ok \in BOOLEAN :
              IntentsWith(Append(its, it), ok)
                = IntentsWith(its, ok) + (IF it.accepted = ok THEN 1 ELSE 0)
         /\ ReentriesIn(Append(its, it))
              = ReentriesIn(its) + (IF it.type = "RE_ENTRY" THEN 1 ELSE 0)
<1> DEFINE us == Append(its, it)
           n == Len(its) + 1
<1>1. /\ Len(us) = n /\ Len(its) \in Nat /\ us[n] = it
      /\ \A k \in 1 .. Len(its) : us[k] = its[k]
  OBVIOUS
<1>2. ASSUME NEW S \in SUBSET (1 .. Len(its))
      PROVE  /\ Cardinality(S) \in Nat /\ Cardinality(S) = Cardinality(S) + 0
             /\ Cardinality(S \cup {n}) = Cardinality(S) + 1
  <2>1. IsFiniteSet(1 .. Len(its))
    <3>1. 1 \in Int /\ Len(its) \in Int
      BY <1>1
    <3> QED BY <3>1, FS_Interval, Zenon
  <2>2. IsFiniteSet(S)
    BY <2>1, FS_Subset, Zenon
  <2>3. n \notin S
    BY <1>1
  <2> HIDE DEF n
  <2>4. Cardinality(S) \in Nat /\ Cardinality(S \cup {n}) = Cardinality(S) + 1
    BY <2>2, <2>3, FS_CardinalityType, FS_AddElement, Zenon
  <2> QED BY <2>4
<1> HIDE DEF us
<1>3. ASSUME NEW ok \in BOOLEAN
      PROVE  IntentsWith(us, ok) = IntentsWith(its, ok) + (IF it.accepted = ok THEN 1 ELSE 0)
  <2> DEFINE S == {k \in 1 .. Len(its) : its[k].accepted = ok}
             T == {k \in 1 .. Len(us) : us[k].accepted = ok}
  <2>1. S \in SUBSET (1 .. Len(its))
    OBVIOUS
  <2>2. CASE it.accepted = ok
    <3>1. T = S \cup {n}
      BY <1>1, <2>2
    <3> QED BY <1>2, <2>1, <2>2, <3>1, Zenon DEF IntentsWith
  <2>3. CASE it.accepted # ok
    <3>1. T = S
      BY <1>1, <2>3
    <3> QED BY <1>2, <2>1, <2>3, <3>1, Zenon DEF IntentsWith
  <2> QED BY <2>2, <2>3, Zenon
<1>4. ReentriesIn(us) = ReentriesIn(its) + (IF it.type = "RE_ENTRY" THEN 1 ELSE 0)
  <2> DEFINE S == {k \in 1 .. Len(its) : its[k].type = "RE_ENTRY"}
             T == {k \in 1 .. Len(us) : us[k].type = "RE_ENTRY"}
  <2>1. S \in SUBSET (1 .. Len(its))
    OBVIOUS
  <2>2. CASE it.type = "RE_ENTRY"
    <3>1. T = S \cup {n}
      BY <1>1, <2>2
    <3> QED BY <1>2, <2>1, <2>2, <3>1, Zenon DEF ReentriesIn
  <2>3. CASE it.type # "RE_ENTRY"
    <3>1. T = S
      BY <1>1, <2>3
    <3> QED BY <1>2, <2>1, <2>3, <3>1, Zenon DEF ReentriesIn
  <2> QED BY <2>2, <2>3, Zenon
<1> QED BY <1>3, <1>4 DEF us

\* The rows of a longer log.
LEMMA RangeOneMore ==
  ASSUME NEW its \in Seq(IntentType), NEW it \in IntentType
  PROVE  Range(Append(its, it)) = Range(its) \cup {it}
<1> DEFINE us == Append(its, it)
<1>1. /\ DOMAIN us = 1 .. Len(its) + 1 /\ DOMAIN its = 1 .. Len(its) /\ Len(its) \in Nat
      /\ us[Len(its) + 1] = it
      /\ \A k \in 1 .. Len(its) : us[k] = its[k]
  OBVIOUS
<1> HIDE DEF us
<1>2. ASSUME NEW k \in 1 .. Len(its) + 1 PROVE us[k] \in Range(its) \cup {it}
  <2>1. k = Len(its) + 1 \/ k \in 1 .. Len(its)
    BY <1>1
  <2> QED BY <1>1, <2>1, Zenon DEF Range
<1>3. Len(its) + 1 \in 1 .. Len(its) + 1 /\ 1 .. Len(its) \subseteq 1 .. Len(its) + 1
  BY <1>1
<1> QED BY <1>1, <1>2, <1>3, Zenon DEF Range, us

\* The rows of intents and the counters of retests, entries and rejections.
Written(s) ==
  /\ s.retests = Len(s.intents)
  /\ s.entries = IntentsWith(s.intents, TRUE) /\ s.rejections = IntentsWith(s.intents, FALSE)
  /\ Range(s.entered) = {it \in Range(s.intents) : it.accepted}
  /\ s.reentries = ReentriesIn(s.entered)

\* A trade has the levels of the entry of its number.
SameLevels(ts, its) ==
  \A k \in 1 .. Len(ts) : ts[k].entry = its[k].entry /\ ts[k].stop = its[k].stop

OpenAsEntered(s) ==
  s.trade_open => LET it == s.entered[Len(s.entered)] IN s.entry = it.entry /\ s.stop = it.stop

Logs(s) == Written(s) /\ SameLevels(s.trades, s.entered) /\ OpenAsEntered(s)

\* The row of a trade takes the levels it was opened with.
LEMMA LevelsOneMore ==
  ASSUME NEW s, Shape(s), Story(s), Logs(s), s.trade_open,
         NEW row \in RowType, row.entry = s.entry, row.stop = s.stop
  PROVE  SameLevels(Append(s.trades, row), s.entered)
<1> DEFINE us == Append(s.trades, row)
<1>1. s.trades \in Seq(RowType)
  BY Zenon DEF Shape
<1>2. /\ Len(us) = Len(s.trades) + 1 /\ Len(s.trades) \in Nat
      /\ us[Len(s.trades) + 1] = row
      /\ \A k \in 1 .. Len(s.trades) : us[k] = s.trades[k]
  BY <1>1
<1>3. Len(s.entered) = Len(s.trades) + 1
  BY Zenon DEF Story, TradePerEntry
<1>4. /\ s.entry = s.entered[Len(s.entered)].entry
      /\ s.stop = s.entered[Len(s.entered)].stop
  BY Zenon DEF Logs, OpenAsEntered
<1> HIDE DEF us
<1>5. ASSUME NEW k \in 1 .. Len(us)
      PROVE  us[k].entry = s.entered[k].entry /\ us[k].stop = s.entered[k].stop
  <2>1. CASE k = Len(s.trades) + 1
    BY <1>2, <1>3, <1>4, <2>1, Zenon
  <2>2. CASE k # Len(s.trades) + 1
    <3>1. k \in 1 .. Len(s.trades)
      BY <1>2, <2>2
    <3> QED BY <1>2, <3>1, Zenon DEF Logs, SameLevels
  <2> QED BY <2>1, <2>2
<1> QED BY <1>5, Zenon DEF SameLevels, us

\* An exit writes its row with the levels of the entry (prism_backtest.cpp:156).
LEMMA ExitKeepsLogs ==
  ASSUME NEW s, LevelsBetween(s), Story(s), Logs(s), NEW b \in Bars
  PROVE  Logs(ExitTrade(s, b))
<1>0. Shape(s)
  BY DEF LevelsBetween
<1>1. CASE ExitTrade(s, b) = s
  BY <1>1
<1>2. ASSUME s.trade_open, NEW reason \in LoopReasons, NEW price \in Int,
             Decided(s, b, reason, price)
      PROVE  Logs(Closed(s, reason, price))
  <2> DEFINE c == Closed(s, reason, price)
             row == TradeRow(s, reason, price)
  <2>1. row \in RowType
    BY <1>0, <1>2, DecidedRow DEF LevelsBetween
  <2>2. row.entry = s.entry /\ row.stop = s.stop
    BY DEF TradeRow
  <2>3. ClosesTrade(s, reason, price, c)
    BY <1>0, <1>2, ClosedFields, Zenon
  <2>4. /\ c.entered = s.entered /\ c.intents = s.intents /\ c.trades = Append(s.trades, row)
        /\ c.retests = s.retests /\ c.entries = s.entries /\ c.rejections = s.rejections
        /\ c.reentries = s.reentries /\ c.trade_open = FALSE
    BY <2>3, Zenon DEF ClosesTrade, row
  <2> HIDE DEF c, row
  <2>5. SameLevels(c.trades, c.entered)
    BY <1>0, <1>2, <2>1, <2>2, <2>4, LevelsOneMore, Zenon
  <2> QED BY <2>4, <2>5, Zenon DEF Logs, Written, OpenAsEntered, c
<1>3. CASE ~s.trade_open
  BY <1>1, <1>3, NothingToExit
<1>4. CASE s.trade_open
  <2>1. OpenLevels(s)
    BY <1>4 DEF LevelsBetween
  <2>2. ASSUME NEW reason \in LoopReasons, NEW price \in Int,
               Decided(s, b, reason, price), ExitTrade(s, b) = Closed(s, reason, price)
        PROVE  Logs(ExitTrade(s, b))
    BY <1>2, <1>4, <2>2
  <2> QED BY <1>0, <1>1, <1>4, <2>1, <2>2, ExitDecides, Zenon
<1> QED BY <1>3, <1>4

\* What the logs are about.
LogFields ==
  {"retests", "entries", "rejections", "reentries", "intents", "entered", "trades",
   "trade_open", "entry", "stop"}

\* What changes none of these fields leaves the logs in step.
LEMMA SameLogs ==
  ASSUME NEW s, Logs(s), NEW c, \A f \in LogFields : c[f] = s[f]
  PROVE  Logs(c)
<1>1. /\ c.retests = s.retests /\ c.entries = s.entries /\ c.rejections = s.rejections
      /\ c.reentries = s.reentries /\ c.intents = s.intents /\ c.entered = s.entered
      /\ c.trades = s.trades /\ c.trade_open = s.trade_open
      /\ c.entry = s.entry /\ c.stop = s.stop
  BY DEF LogFields
<1> QED BY <1>1, Zenon DEF Logs, Written, OpenAsEntered

\* A breakout, its expiry and the next bar write nothing.
LEMMA OthersKeepLogs ==
  ASSUME NEW s, Shape(s), Logs(s), NEW b \in Bars
  PROVE  Logs(NewBreakout(s, b)) /\ Logs(Expire(s)) /\ Logs(NextBar(s, b))
<1>1. Logs(NewBreakout(s, b))
  <2> DEFINE c == NewBreakout(s, b)
  <2>1. CASE c = s
    BY <2>1
  <2>2. CASE c # s
    <3>1. \A f \in Fields \ {"prior_breakout", "breakout", "breakout_i", "breakouts",
                             "can_reentry", "reentry_used"} : c[f] = s[f]
      BY <2>2, NewBreakoutFields
    <3> HIDE DEF c
    <3>2. \A f \in LogFields : c[f] = s[f]
      BY <3>1 DEF Fields, LogFields
    <3> QED BY <3>2, SameLogs DEF c
  <2> QED BY <2>1, <2>2
<1>2. Logs(Expire(s))
  <2> DEFINE c == Expire(s)
  <2>1. CASE c = s
    BY <2>1
  <2>2. CASE c # s
    <3>1. \A f \in Fields \ {"prior_breakout", "expired"} : c[f] = s[f]
      BY <2>2, ExpireFields
    <3> HIDE DEF c
    <3>2. \A f \in LogFields : c[f] = s[f]
      BY <3>1 DEF Fields, LogFields
    <3> QED BY <3>2, SameLogs DEF c
  <2> QED BY <2>1, <2>2
<1>3. Logs(NextBar(s, b))
  <2> DEFINE c == NextBar(s, b)
  <2>1. \A f \in Fields \ {"i", "recent"} : c[f] = s[f]
    BY NextBarFields
  <2> HIDE DEF c
  <2>2. \A f \in LogFields : c[f] = s[f]
    BY <2>1 DEF Fields, LogFields
  <2> QED BY <2>2, SameLogs DEF c
<1> QED BY <1>1, <1>2, <1>3

\* A retest writes its row before it is counted as an entry or as a rejection,
\* and an entry is the row just written (prism_backtest.cpp:188-192).
LEMMA EntryKeepsLogs ==
  ASSUME NEW s, NEW b \in Bars, Shape(s), Story(s), Logs(s), ~s.trade_open
  PROVE  Logs(TryEntry(s, b))
<1> DEFINE t == LogRetest(s, b)
<1>1. /\ DOMAIN t = Fields /\ t.retests = s.retests + 1
      /\ \A f \in Fields \ {"retests", "entry", "stop", "R", "t1", "t2", "intents"} :
           t[f] = s[f]
  BY LogRetestFields, Zenon
<1>2. PICK ok \in BOOLEAN :
        /\ ok <=> NoReason(t, b)
        /\ Intent(t, ok) \in IntentType
        /\ t.intents = Append(s.intents, Intent(t, ok))
  BY LogRetestFields, Zenon
<1> HIDE DEF t
<1>3. /\ t.entered = s.entered /\ t.trades = s.trades /\ t.trade_open = s.trade_open
      /\ t.entries = s.entries /\ t.rejections = s.rejections /\ t.reentries = s.reentries
  BY <1>1 DEF Fields
<1>4. PICK it \in IntentType : it = Intent(t, ok)
  BY <1>2
<1>5. /\ it.accepted = ok /\ it.entry = t.entry /\ it.stop = t.stop
      /\ it.type = IF t.can_reentry THEN "RE_ENTRY" ELSE "RETEST_ENTRY"
  BY <1>4, Zenon DEF Intent
<1>6. /\ s.intents \in Seq(IntentType) /\ s.entered \in Seq(IntentType)
      /\ s.trades \in Seq(RowType)
  BY Zenon DEF Shape
<1>7. /\ s.retests = Len(s.intents)
      /\ s.entries = IntentsWith(s.intents, TRUE)
      /\ s.rejections = IntentsWith(s.intents, FALSE)
      /\ Range(s.entered) = {x \in Range(s.intents) : x.accepted}
      /\ s.reentries = ReentriesIn(s.entered)
      /\ SameLevels(s.trades, s.entered)
  BY Zenon DEF Logs, Written
<1>8. t.retests = Len(t.intents)
  BY <1>1, <1>2, <1>4, <1>6, <1>7
<1>9. /\ IntentsWith(t.intents, TRUE) = s.entries + (IF ok THEN 1 ELSE 0)
      /\ IntentsWith(t.intents, FALSE) = s.rejections + (IF ok THEN 0 ELSE 1)
  <2>1. \A x \in BOOLEAN : IntentsWith(t.intents, x)
                             = IntentsWith(s.intents, x) + (IF it.accepted = x THEN 1 ELSE 0)
    BY <1>2, <1>4, <1>6, CountsOneMore, Zenon
  <2>2. CASE ok = TRUE
    BY <1>5, <1>7, <2>1, <2>2, Zenon
  <2>3. CASE ok = FALSE
    BY <1>5, <1>7, <2>1, <2>3, Zenon
  <2> QED BY <2>2, <2>3, Zenon
<1>10. s.entries \in Nat /\ s.rejections \in Nat
  <2>1. \A x \in BOOLEAN : IntentsWith(s.intents, x) \in Nat
    <3> SUFFICES ASSUME NEW x \in BOOLEAN PROVE IntentsWith(s.intents, x) \in Nat
      OBVIOUS
    <3> DEFINE S == {k \in 1 .. Len(s.intents) : s.intents[k].accepted = x}
    <3>1. IsFiniteSet(1 .. Len(s.intents))
      <4>1. 1 \in Int /\ Len(s.intents) \in Int
        BY <1>6
      <4> QED BY <4>1, FS_Interval, Zenon
    <3>2. S \in SUBSET (1 .. Len(s.intents))
      OBVIOUS
    <3> HIDE DEF S
    <3>3. Cardinality(S) \in Nat
      BY <3>1, <3>2, FS_Subset, FS_CardinalityType, Zenon
    <3> QED BY <3>3, Zenon DEF IntentsWith, S
  <2> QED BY <1>7, <2>1, Zenon
<1>11. Range(t.intents) = Range(s.intents) \cup {it}
  BY <1>2, <1>4, <1>6, RangeOneMore, Zenon
<1>12. ASSUME ~NoReason(t, b) PROVE Logs(Reject(t))
  <2> DEFINE c == Reject(t)
  <2>1. (\A f \in Fields \ {"rejections"} : c[f] = t[f]) /\ c.rejections = t.rejections + 1
    BY <1>1, RejectFields
  <2> HIDE DEF c
  <2>2. /\ c.retests = t.retests /\ c.intents = t.intents /\ c.entered = t.entered
        /\ c.trades = t.trades /\ c.trade_open = t.trade_open
        /\ c.entries = t.entries /\ c.reentries = t.reentries
    BY <2>1 DEF Fields
  <2>3. ~ok /\ ~it.accepted
    BY <1>2, <1>5, <1>12, Zenon
  <2>4. {x \in Range(t.intents) : x.accepted} = {x \in Range(s.intents) : x.accepted}
    BY <1>11, <2>3, Zenon
  <2>5. /\ IntentsWith(t.intents, TRUE) = s.entries
        /\ IntentsWith(t.intents, FALSE) = s.rejections + 1
    <3>1. s.entries + 0 = s.entries
      BY <1>10
    <3> QED BY <1>9, <2>3, <3>1, Zenon
  <2>6. Written(c)
    BY <1>3, <1>7, <1>8, <2>1, <2>2, <2>4, <2>5, Zenon DEF Written
  <2> QED BY <1>3, <1>7, <2>2, <2>6, Zenon DEF Logs, OpenAsEntered, c
<1>13. ASSUME NoReason(t, b) PROVE Logs(Accept(t))
  <2> DEFINE c == Accept(t)
  <2>1. /\ \A f \in Fields \ {"trade_open", "entry_i", "trade_id", "entries", "entered",
                              "reentries", "reentry_used", "prior_breakout", "can_reentry"} :
             c[f] = t[f]
        /\ c.trade_open = TRUE /\ c.entries = t.entries + 1
        /\ c.entered = Append(t.entered, Intent(t, TRUE))
        /\ c.reentries = t.reentries + (IF t.can_reentry THEN 1 ELSE 0)
    BY <1>1, AcceptFields, Zenon
  <2> HIDE DEF c
  <2>2. /\ c.retests = t.retests /\ c.intents = t.intents /\ c.trades = t.trades
        /\ c.rejections = t.rejections /\ c.entry = t.entry /\ c.stop = t.stop
    BY <2>1 DEF Fields
  <2>3. ok = TRUE /\ it.accepted = TRUE /\ it = Intent(t, TRUE)
    BY <1>2, <1>4, <1>5, <1>13, Zenon
  <2>4. c.entered = Append(s.entered, it)
    BY <1>3, <2>1, <2>3, Zenon
  <2>5. Range(c.entered) = {x \in Range(t.intents) : x.accepted}
    <3>1. Range(c.entered) = Range(s.entered) \cup {it}
      BY <1>6, <2>4, RangeOneMore, Zenon
    <3> QED BY <1>7, <1>11, <2>3, <3>1, Zenon
  <2>6. /\ IntentsWith(t.intents, TRUE) = s.entries + 1
        /\ IntentsWith(t.intents, FALSE) = s.rejections
    <3>1. s.rejections + 0 = s.rejections
      BY <1>10
    <3> QED BY <1>9, <2>3, <3>1, Zenon
  <2>7. c.reentries = ReentriesIn(c.entered)
    <3>1. ReentriesIn(c.entered) = s.reentries + (IF it.type = "RE_ENTRY" THEN 1 ELSE 0)
      BY <1>6, <1>7, <2>4, CountsOneMore, Zenon
    <3>2. it.type = "RE_ENTRY" <=> t.can_reentry
      BY <1>5
    <3> QED BY <1>3, <2>1, <3>1, <3>2, Zenon
  <2>8. Written(c)
    BY <1>3, <1>8, <2>1, <2>2, <2>5, <2>6, <2>7, Zenon DEF Written
  <2>9. /\ Len(c.entered) = Len(s.entered) + 1 /\ c.entered[Len(c.entered)] = it
        /\ \A k \in 1 .. Len(s.entered) : c.entered[k] = s.entered[k]
    BY <1>6, <2>4
  <2>10. SameLevels(c.trades, c.entered)
    <3>1. Len(s.trades) = Len(s.entered)
      <4>1. Len(s.entered) = Len(s.trades) + 0
        BY Zenon DEF Story, TradePerEntry
      <4> QED BY <1>6, <4>1
    <3> QED BY <1>3, <1>7, <2>2, <2>9, <3>1, Zenon DEF SameLevels
  <2>11. OpenAsEntered(c)
    BY <1>5, <2>2, <2>9, Zenon DEF OpenAsEntered
  <2> QED BY <2>8, <2>10, <2>11, Zenon DEF Logs, c
<1> QED BY <1>12, <1>13, Zenon DEF TryEntry, t

\* The whole body of the loop.
LEMMA BarKeepsLogs ==
  ASSUME NEW s, NEW b \in Bars, LevelsBetween(s), Story(s), NoEntryYet(s, s.i), Logs(s)
  PROVE  Logs(NextBar(LookForEntry(ExitTrade(s, b), b), b))
<1> DEFINE x == ExitTrade(s, b)
           y == LookForEntry(x, b)
<1>1. LevelsInBar(x, b)
  BY ExitKeepsLevels
<1>2. Story(x) /\ x.entered = s.entered /\ x.i = s.i
  BY ExitKeepsStory
<1>3. Logs(x)
  BY ExitKeepsLogs
<1> HIDE DEF x
<1>4. NoEntryYet(x, x.i)
  BY <1>2, Zenon DEF NoEntryYet
<1>5. Shape(y) /\ Logs(y)
  <2>1. CASE HasLookback(x) /\ ~x.trade_open
    <3> DEFINE n == NewBreakout(x, b)
               e == Expire(n)
    <3>1. LevelsInBar(n, b) /\ ~n.trade_open
      BY <1>1, <2>1, BreakoutKeepsLevels
    <3>2. Story(n) /\ Logs(n)
      BY <1>1, <1>2, <1>3, <1>4, <2>1, BreakoutKeepsStory, OthersKeepLogs DEF LevelsInBar
    <3> HIDE DEF n
    <3>3. LevelsInBar(e, b) /\ ~e.trade_open
      BY <3>1, ExpireKeepsLevels
    <3>4. Story(e) /\ Logs(e)
      BY <3>1, <3>2, ExpireKeepsStory, OthersKeepLogs DEF LevelsInBar
    <3> HIDE DEF e
    <3>5. LevelsInBar(TryEntry(e, b), b)
      BY <3>3, EntryKeepsLevels
    <3>6. Logs(TryEntry(e, b))
      BY <3>3, <3>4, EntryKeepsLogs DEF LevelsInBar
    <3>7. Shape(TryEntry(e, b))
      BY <3>5, Zenon DEF LevelsInBar
    <3> QED BY <2>1, <3>6, <3>7, Zenon DEF LookForEntry, e, n
  <2>2. CASE ~(HasLookback(x) /\ ~x.trade_open)
    BY <1>1, <1>3, <2>2, Zenon DEF LookForEntry, LevelsInBar
  <2> QED BY <2>1, <2>2
<1> HIDE DEF y
<1>6. Logs(NextBar(y, b))
  BY <1>5, OthersKeepLogs
<1> QED BY <1>6 DEF x, y

LogsInv ==
  /\ ~finished => Logs(bt)
  /\ finished => LogsAgree

\* The rows of retests, entries and trades stay in step on every bar and when
\* the data end (prism_backtest.cpp:156, :186-197).
THEOREM LogsInvariance == BacktestSpec => []LogsInv
<1>1. BacktestInit => LogsInv
  <2> SUFFICES ASSUME BacktestInit PROVE Logs(bt) /\ ~finished
    BY DEF LogsInv
  <2>1. /\ bt.intents = <<>> /\ bt.entered = <<>> /\ bt.trades = <<>>
        /\ bt.retests = 0 /\ bt.entries = 0 /\ bt.rejections = 0 /\ bt.reentries = 0
    BY DEF BacktestInit
  <2>2. bt.trade_open = FALSE /\ ~finished
    BY Zenon DEF BacktestInit
  <2>3. Len(bt.intents) = 0 /\ Len(bt.entered) = 0 /\ Len(bt.trades) = 0
    BY <2>1
  <2>4. \A ok \in BOOLEAN : IntentsWith(bt.intents, ok) = 0
    <3>1. ASSUME NEW ok \in BOOLEAN
          PROVE  {k \in 1 .. Len(bt.intents) : bt.intents[k].accepted = ok} = {}
      BY <2>3
    <3> QED BY <3>1, FS_EmptySet, Zenon DEF IntentsWith
  <2>5. ReentriesIn(bt.entered) = 0
    <3>1. {k \in 1 .. Len(bt.entered) : bt.entered[k].type = "RE_ENTRY"} = {}
      BY <2>3
    <3> QED BY <3>1, FS_EmptySet, Zenon DEF ReentriesIn
  <2>6. Range(bt.entered) = {} /\ Range(bt.intents) = {}
    BY <2>1 DEF Range
  <2>7. Written(bt)
    BY <2>1, <2>3, <2>4, <2>5, <2>6, Zenon DEF Written
  <2>8. SameLevels(bt.trades, bt.entered)
    BY <2>3 DEF SameLevels
  <2> QED BY <2>2, <2>7, <2>8, Zenon DEF Logs, OpenAsEntered
<1>2. LevelsInv /\ StoryInv /\ LogsInv /\ [BacktestNext]_backtestVars => LogsInv'
  <2> SUFFICES ASSUME LevelsInv, StoryInv, LogsInv, [BacktestNext]_backtestVars
               PROVE  LogsInv'
    OBVIOUS
  <2>1. ASSUME NEW b \in Bars, OnBar(b) PROVE LogsInv'
    <3>1. /\ LevelsBetween(bt) /\ bt' = NextBar(LookForEntry(ExitTrade(bt, b), b), b)
          /\ finished' = finished /\ ~finished
      BY <2>1 DEF OnBar, LevelsInv
    <3>2. Story(bt) /\ NoEntryYet(bt, bt.i) /\ Logs(bt)
      BY <2>1 DEF OnBar, StoryInv, LogsInv
    <3>3. Logs(bt')
      BY <3>1, <3>2, BarKeepsLogs, Zenon
    <3> QED BY <3>1, <3>3, Zenon DEF LogsInv, Logs, Written, OpenAsEntered
  <2>2. CASE Finish
    <3>1. /\ LevelsBetween(bt) /\ Story(bt) /\ Logs(bt)
          /\ bt' = EndOfData(bt) /\ finished' = TRUE
      BY <2>2 DEF Finish, LevelsInv, StoryInv, LogsInv
    <3>2. Shape(bt)
      BY <3>1 DEF LevelsBetween
    <3>3. /\ bt'.entered = bt.entered /\ bt'.intents = bt.intents
          /\ bt'.retests = bt.retests /\ bt'.entries = bt.entries
          /\ bt'.rejections = bt.rejections /\ bt'.reentries = bt.reentries
          /\ bt'.trades = IF bt.trade_open THEN Append(bt.trades, DataEndRow(bt)) ELSE bt.trades
      BY <3>1, <3>2, EndFields, Zenon
    <3>4. SameLevels(bt'.trades, bt'.entered)
      <4>1. CASE bt.trade_open
        <5>1. DataEndRow(bt) \in RowType
          BY <3>1, <4>1, EndKeepsRows
        <5>2. DataEndRow(bt).entry = bt.entry /\ DataEndRow(bt).stop = bt.stop
          BY DEF DataEndRow, TradeRow
        <5> QED BY <3>1, <3>2, <3>3, <4>1, <5>1, <5>2, LevelsOneMore, Zenon
      <4>2. CASE ~bt.trade_open
        BY <3>1, <3>3, <4>2, Zenon DEF Logs
      <4> QED BY <4>1, <4>2
    <3> QED BY <3>1, <3>3, <3>4, Zenon DEF LogsInv, LogsAgree, Logs, Written, SameLevels
  <2>3. CASE UNCHANGED backtestVars
    <3>1. bt' = bt /\ finished' = finished
      BY <2>3 DEF backtestVars
    <3>2. (LogsAgree' <=> LogsAgree) /\ (Logs(bt)' <=> Logs(bt))
      BY <3>1, Zenon DEF LogsAgree, Logs, Written, SameLevels, OpenAsEntered
    <3> QED BY <3>1, <3>2, Zenon DEF LogsInv
  <2> QED BY <2>1, <2>2, <2>3, Zenon DEF BacktestNext
<1> QED BY <1>1, <1>2, LevelsInvariance, StoryInvariance, PTL DEF BacktestSpec

\* Every retest has its row, the accepted ones are the entries, every entry is a
\* trade with the levels of its row or the open one, each counter counts its
\* rows, and the R of the rows add up to equity (prism_backtest.cpp:147-197).
THEOREM BooksBalance == BacktestSpec => []BooksAgree
<1>1. StoryInv /\ BooksInv => TotalsAgree
  BY RunningTotalsAgree, Zenon DEF StoryInv, BooksInv
<1>2. LogsInv => LogsAgree
  BY Zenon DEF LogsInv, LogsAgree, Logs, Written, SameLevels
<1>3. TotalsAgree /\ LogsAgree => BooksAgree
  BY DEF BooksAgree
<1> QED BY <1>1, <1>2, <1>3, StoryInvariance, BooksInvariance, LogsInvariance, PTL
==============================================================================
