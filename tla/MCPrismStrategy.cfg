SPECIFICATION StrategySpec
CONSTANTS
  Bars <- MCBars
  LOOKBACK_BARS = 2
  MAX_RETEST_BARS = 3
  SIGNAL_COOLDOWN_BARS = 2
  MIN_SCORE = 11
  HISTORY_CAP = 5
  MaxBars = 9
INVARIANTS
  SetupConsistent
  LevelIsBrokenHigh
  SignalWellFormed
PROPERTY SignalsFromRetest
CHECK_DEADLOCK FALSE
