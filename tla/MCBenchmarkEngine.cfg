SPECIFICATION BenchmarkSpec
CONSTANTS
  Items <- TradeIds
  NoItem = NoItem
  Capacity = 4
  MaxPushes = 10
  VOLUME_UNIT = 10000
INVARIANTS
  NoSlotRace
  AccessesSynchronised
  FifoDelivery
PROPERTIES
  ImplementsFifo
  BenchmarkEnds
CHECK_DEADLOCK FALSE
