SPECIFICATION LiveSpec
CONSTANTS
  Bars = {}
  LOOKBACK_BARS = 1
  MAX_RETEST_BARS = 2
  SIGNAL_COOLDOWN_BARS = 1
  MIN_SCORE = 11
  HISTORY_CAP = 3
  MaxBars = 4
  Trades <- MCSparseTrades
  bar_seconds = 2
  NS_PER_SECOND = 2
  NS_PER_MS = 6
  NS_PER_US = 4
  MS_LIMIT = 3
  US_LIMIT = 4
  ATR_PERIOD = 2
  BAR_CAP = 3
  MaxBarTrades = 3
  MaxDelay = 4
PROPERTY RetestWindowIsTime
