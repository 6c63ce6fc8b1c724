SPECIFICATION KafkaSpec
CONSTANTS
  Cpp = "cpp"
  PyProducers = {"py"}
  Symbols = {"AAPL"}
  Together <- Apart
  QueueMax = 2
  MaxSent = 3
  MaxLog = 4
  MaxRestarts = 2
INVARIANTS
  SentIdsAccounted
  LossBoundedByCrashes
PROPERTIES
  RedisNeverGoesBack
  FullQueueDrains
CHECK_DEADLOCK FALSE
