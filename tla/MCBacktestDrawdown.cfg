SPECIFICATION BacktestSpec
CONSTANTS
  Bars <- BarKinds
  LOOKBACK = 2
  ENTRY_TTL = 1
  REENTRY_EXTRA = 1
  TRADE_TTL = 3
  R_UNIT = 240
  MaxBars = 5
INVARIANT DrawdownOfAllTrades
CHECK_DEADLOCK FALSE
