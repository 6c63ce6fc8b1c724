SPECIFICATION TMSpec
CONSTANTS
  Prices <- MCPrices
  Signals <- MCSignals
  R_UNIT = 4
  MaxTrades = 3
INVARIANTS
  TradesAccounted
  ResultMatchesExit
  NoLossAfterTarget1
  CsvAgreesWithSummary
PROPERTY TradeKeptUntilBooked
