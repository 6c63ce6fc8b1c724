SPECIFICATION BinanceSpec
CONSTANTS
  Items = {1, 2, 3}
  NoItem = NoItem
  Capacity = 2
  MaxPushes = 3
  MAX_RETRIES = 2
  MaxMessages = 3
INVARIANTS
  LiveBinanceTypeOK
  MessagesAccounted
  SummaryIsFinal
PROPERTIES
  StopsEventually
  AcceptedIsProcessed
  Reconnects
CHECK_DEADLOCK FALSE
