SPECIFICATION ThreadSpec
CONSTANTS
  Bars = {}
  LOOKBACK_BARS = 1
  MAX_RETEST_BARS = 2
  SIGNAL_COOLDOWN_BARS = 1
  MIN_SCORE = 11
  HISTORY_CAP = 2
  MaxBars = 6
  Trades <- MCTrades
  bar_seconds = 2
  NS_PER_SECOND = 2
  NS_PER_MS = 6
  NS_PER_US = 4
  MS_LIMIT = 3
  US_LIMIT = 4
  ATR_PERIOD = 1
  BAR_CAP = 2
  MaxBarTrades = 2
  MaxDelay = 0
  R_UNIT = 2106720
INVARIANTS
  ThreadTypeOK
  SignalsCountedOnce
  SignalsTradable
PROPERTY TradesOpenOnFirstPacket
