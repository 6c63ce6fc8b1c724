SPECIFICATION BacktestSpec
CONSTANTS
  Bars <- BarKinds
  LOOKBACK = 2
  ENTRY_TTL = 1
  REENTRY_EXTRA = 1
  TRADE_TTL = 3
  R_UNIT = 240
  MaxBars = 9
INVARIANTS
  BooksAgree
  EntriesFollowBreakouts
  RBracketed
CHECK_DEADLOCK FALSE
