# TLA+ models of the real-time PRISM pipeline

This directory holds a formal model of the C++ programs of the repository:
TLA+ modules, TLC configurations that check them on small instances, and
proofs that TLAPS checks for every value of the constants. `PROJECT.json` lists
the runs, the line of code behind each definition, and the mistakes used to
confirm that a property can fail.

Paths below are relative to `src/cpp_engine/src/` unless they start with `src/`.

## 1. The system

`live_binance_engine` is the program at the centre. A websocket message travels

    Binance --> BinanceClient (feed thread) --> trade_queue (SPSC ring)
            --> engine thread: PrismLiveEngine --> PrismStrategy
                               TradeManager <-- price, rising edge of a signal
            --> trade_log.csv, performance_summary.json; a report every 2 s (main)

| Component | State | Operations | Talks to |
|---|---|---|---|
| `SimpleSPSCQueue` (`engine_shared.hpp`) | slots, `head_`, `tail_` | `push`, `pop` | feed thread (push), engine thread (pop) |
| `BinanceClient` (`connectors/`) | `wsi_`, `connected_`, `received_`, `dropped_` | `run`, `connect`, `callback_ws`, `handle_message`, `stop` | libwebsockets, the queue |
| `PrismLiveEngine` | current bar, `bars_`, `last_signal_` | `on_trade` and the private bar functions | `PrismStrategy` |
| `PrismStrategy` | `history_`, state IDLE/BREAKOUT/RETEST, three registers, `signal_` | `on_new_bar` | - |
| `TradeManager` | FLAT/LONG_OPEN, the trade, counters, the CSV log | `on_signal`, `on_price`, `write_summary_json` | files |
| `live_binance_engine` `main` | `running`, `processed`, counters for the report | signal handler, three threads, report, joins, summary | all of the above |
| `prism_backtest` | open trade, breakout, re-entry flags, statistics | one pass over a CSV file | files |
| `kafka_producer`, `kafka_consumer` | counters, librdkafka queues, committed offset | produce and retry, flush; consume, commit | Kafka broker |
| `src/producer`, `src/consumer` (Python), `load_test.py` | Redis: last price per symbol | produce, poll, set | Kafka, Redis |
| `benchmark_engine` | the ring, `FastOrderBook`, latencies | waiting push, pop until the total | - |
| `concurrentqueue.h` (vendored) | free list, blocks, block index, four counters per producer | `enqueue`, `enqueue_bulk`, `dequeue`, `dequeue_bulk`, `add`, `try_get` | no program includes it yet |

The programs around it are `prism_backtest`, which replays a CSV file of bars
through rules of its own; a Kafka path, in which C++ and Python producers write
trades to the topic `raw-trades` and a C++ and a Python consumer read them; and
`benchmark_engine`, which drives the ring and the order book. The repository
also carries `concurrentqueue.h`, a lock-free queue for several producers and consumers.

What is hard: two threads share the ring without locks and with weak memory
orders; the stop flag reaches three threads at times of their own; a push is
retried against a queue that is draining; the feed may be out of order
and be silent; the verdict of the strategy is a level that is asked for
with every packet; prices jump over stops and targets. One bar can close a trade, break out, expire
a breakout and open a trade again in the backtest. Kafka repeats, reorders and
gives up messages, and the consumers are killed and started again. The
multi-producer queue lets consumers claim items before they know they exist,
while blocks and the index that leads to them are replaced.
Only the Kafka consumers keep anything (an offset, a price in Redis) beyond a
crash; nothing in the live program is persisted and read back.
`PROJECT.json` has every hazard with its line and the properties that cover it.

What makes each component correct, in short: the ring is a race-free FIFO; every
message is accounted for exactly once and the program always stops; a bar is the
open, high, low and close of its trades and the strategy sees every bar once; a
signal comes from a retest in time of a level that was really broken and has its
levels in order; every signal is counted once and every trade is booked once,
with the result its exit calls for. The totals, logs (one of retests, one of trades) and the equity curve of a
backtest agree and its entries stay within their breakout; every trade id of a
producer is accounted for and a consumer loses at most what was in hand when it
crashed; a claimed item of the multi-producer queue is found, and each of its
blocks is held in one place.

## 2. Modules

| Module | Models | Built on |
|---|---|---|
| `BoundedFifo` | what a bounded queue promises (abstract) | |
| `SPSCQueue` | the ring, one atomic or slot access per step | refines `BoundedFifo` |
| `LiveBinanceEngine` | feed, engine and main threads, connection, stop | extends `SPSCQueue` |
| `PrismStrategy` | the breakout and retest machine, one bar per step | |
| `PrismLiveEngine` | trades to bars, ATR, hand-over to the strategy | extends `PrismStrategy` |
| `TradeManager` | position, counters, log, one call per step | |
| `EngineThread` | what the engine thread does with a packet, one call per step | extends `PrismLiveEngine`, instance of `TradeManager` |
| `BenchmarkEngine` | the two threads of the benchmark and the order book | extends `SPSCQueue` |
| `PrismBacktest` | the bar loop of `prism_backtest.cpp` and the end of the data, one bar per step | |
| `KafkaPipeline` | C++ and Python producers and consumers around a topic | |
| `NodePool` | what a free list promises (abstract) | |
| `FreeList` | the free list, one atomic access per step | refines `NodePool` |
| `ImplicitQueue` | the sub-queue of one producer thread with its consumers, one shared access per step | uses the free list as the pool it is shown to be |
| `TradeManager_proofs`, `PrismBacktest_proofs`, `KafkaPipeline_proofs`, `FreeList_proofs`, `ImplicitQueue_proofs` | theorems | the module of that name |
| `LiveBinanceEngine_proofs` | theorems about the ring and the threads around it | `LiveBinanceEngine` |
| `EngineThread_proofs` | theorems about the strategy, the bar builder and the engine thread | `EngineThread`, instance of `TradeManager_proofs` |
| `ImplicitQueueContent_proofs` | theorems about the block index, the blocks and the items in them | `ImplicitQueue_proofs` |
| `MC*` | values for the constants of a run | the module of that name |

The engine thread appears twice on purpose: `LiveBinanceEngine` keeps its loop,
its pops and its end and abstracts the work on a packet to one step (that work
touches nothing another thread waits for), `EngineThread` keeps the work and
abstracts the queue to a packet that arrives.

### How state and actions correspond to the code

* **SPSCQueue.** An index is its *modification order*: the sequence of the values
  stored to it. A thread loads its own index exactly and the other one at any
  position not older than one it has seen, which is what C++ allows an acquire
  load of an atomic that has a single writer. `PushLoad`/`PopLoad` take both loads
  and the test in one step (the own index cannot change meanwhile); the slot
  access and the release store are steps of their own. `sent` and `received` are
  history variables. `AccessesSynchronised` says what the memory orders must
  give: the position of the index a thread has acquired covers the last access
  of the other thread to the slot it is about to touch.
* **LiveBinanceEngine.** `fpc`, `epc` and `mpc` say where the threads are. The
  stop flag is one value per thread, because a relaxed store is seen by each
  thread at its own time. `lws_service` calls back any number of times and
  returns; `link` is the websocket outside of the program. A message is its
  number of arrival, and whether it is valid is a free choice; this stands for the
  JSON extraction. The report's loads are relaxed, so it may show an old
  count, but never an older one than before. `connected_` is kept although no
  code reads it.
* **PrismStrategy.** Prices of bars are integers; levels of signals are counted in
  sixteenths of a tick and scores in halves, so all products of the code are
  exact. Rounding of `double` is therefore not modelled.
* **PrismLiveEngine.** `on_trade` is one action: which branch it takes, the closing
  of the old bar (ATR, strategy, `last_signal_`) and the start of the new one.
  `bar_prices`, `bar_starts`, `newest_ts`, `in_order` and `setup_start` are
  history. The deque limits and the ATR period are constants. `ExactMeans`
  restricts the prices of a run to those whose mean true range is an integer.
* **TradeManager.** `r_multiple` is a multiple of `1/R_UNIT`. `exit_price`,
  `r_multiple`, `exit_reason` and `closed` are only written when a trade is closed
  and read by the log and the counters; they are the fields of a row of `csv`.
  Whether the log could be opened is chosen at the start.
* **BenchmarkEngine.** Packets are their loop index. The consumer's loop is `BenchmarkPop`
  (the steps of `pop`) and `Match`, which is `book.match` with the count; `Match`
  drops the fraction of the volume as the cast to `uint64_t` does, which with
  volumes below one leaves `total_volume_` at 0.
* **PrismBacktest.** The locals of `main` are the fields of one record `bt`, and each
  block of the loop body is an operator from record to record; `OnBar` composes
  them in the order of the source, so a bar is one step. `recent` holds the
  `LOOKBACK` bars that the code reads by index. The components of the score are
  counted in tenths; the bars of a run are chosen so that zone, stop, targets and
  R are integers (`BarsAssumption`). `r_multiple` and equity are multiples of
  `1/R_UNIT`; `R_UNIT` is no smaller than the risk of any entry, so that rounding to it
  never makes two prices equal. `trades` and `intents` are the two logs. Every
  retest appends a row to `intents` before it is accepted or rejected (line 188), so that log
  has `retests` rows; its reason codes are one Boolean, `accepted`. The history `entered` keeps the
  accepted rows alone, in their order: the k-th trade is the one that the k-th of them opened. A row
  also records the bar of its breakout, and a row of `trades` the entry and the stop,
  which stand for the other columns that follow from them.
* **KafkaPipeline.** A message is its sender, number and symbol; the topic is a log. The
  client library is external: a bounded queue (`outbox`, and `reports` for what
  is settled but not yet served by `poll`), deliveries in any order, repeated when
  the answer is lost, or given up. `consume()` stores the offset behind the message it
  returns and the auto-commit commits what is stored, at any time. `base`, `crashes`
  and `handled` are history, and so is the number of a message of `producer.py`, whose ids are
  random (`uuid4`); that of `producer.cpp` is its `trade_id`. `PyKilled` is external too: the
  loop of `producer.py` has no end of its own. Each `consumer.py` has a group of its own, so a
  restart begins at the end of the topic.
* **FreeList.** Each access to an atomic is a step, named after the access; a count is
  a pair of the low 31 bits and `SHOULD_BE_ON_FREELIST`. `owned` are the nodes in
  the hands of the callers. `NodePool` is refined with the nodes on the list,
  marked, or being linked: a node is in the pool from the mark to the
  compare-exchange that takes it off the head.
* **ImplicitQueue.** The item at index i is i. The entries of the block index are
  numbered, headers are functions from positions to entries, and a consumer keeps
  the header, the position and the block it has loaded while others go on.
  `prod.chain` are the blocks of the current call. `dequeue` takes the steps of
  `dequeue_bulk` with a maximum of one, `enqueue` and `enqueue_bulk` differ in when they
  construct and how they undo. `RequisitionBlock` takes from the pools in the order
  of `requisition_block`, where the free list may look empty (`NodePool`).
  In both modules the steps interleave in one order that all threads agree
  on; reorderings that weak memory would allow beyond that are not modelled,
  in contrast to `SPSCQueue`.
* **EngineThread.** The calls `on_trade`, `on_price` and `on_signal` are three
  steps in the order of `live_binance_engine.cpp:67-83`. `UnitAssumption`: the unit of
  R is a multiple of the risk of every signal that the prices of the feed can give
  (`FeedBars`), so that the R of a trade is exact.

## 3. Runs

| Run | Question | Bounds and why they are enough |
|---|---|---|
| `spsc_queue` | Is the ring a race-free FIFO under stale loads, does it implement `BoundedFifo` with its liveness, and does the benchmark end? | Four slots and ten packets in the two threads of the benchmark: the ring fills, wraps and empties more than once. The producer may be refused at any point because its load of the head may be old. |
| `live_binance` | Is every message accounted for, in order, and does a stop always end the program after the last change? | A ring that holds one packet, three messages, two retries: full, late success, drop, give-up and a lost link all happen, and each thread can be the first or last to see the stop. |
| `prism_strategy` | Do the machine and its registers agree, are signals well formed, and does each bar that is accepted give one? | Six kinds of bars on, just inside and just outside of each test; look-back 2, window 3, cooldown 2, deque of 5, nine bars: setups expire, are retested on their last bar, meet the cooldown, and the deque drops bars under a waiting setup. |
| `live_engine` | Do trades become the right bars and signals? | Two prices, two buckets apart, trades up to two buckets late, all kinds of unusable trades; four closed bars with deques of three. |
| `engine_thread` | Do signals become trades exactly once? | A market told bucket by bucket, six bars, so that two trades and an ignored signal occur; every exit and result was confirmed to be reachable. |
| `trade_manager` | Is every trade booked rightly? | Two signals whose levels interleave, one inactive, one without risk; prices on, between and beyond all levels; three trades. |
| `retest_window` | Is the retest window the five minutes a comment claims? | Expected violation, see below. |
| `prism_backtest` | Do logs, counters and equity agree, and do entries stay within their breakout? | Bars on both sides of each test, look-back 2, entry window 1 and re-entry window 2, trade limit 3, nine bars: every exit, a rejection, an expiry, a re-entry after a stop and a trade open at the end occur. |
| `backtest_drawdown` | Does the drawdown belong to the trades of the summary? | Expected violation, see below. |
| `free_list` | Is the free list a pool in every interleaving of its atomic accesses? | Three threads, two nodes, any number of calls; one thread can stall with a reference while another takes and returns the node and the third works on the head. The same holds with three nodes, which takes longer than a run should. |
| `block_queue` | Does a consumer find what it claimed, and is no block or item lost? | Two consumers, blocks of two, room for two blocks, an index of two entries that is replaced once, a bulk that needs two new blocks, seven items, calls that begin below a count of five claims (which then goes up to ten), a constructor that may throw; one block of the heap besides two of the pool. It begins after two items, so that the index is rotated when it grows. Five is the least limit with which a call can begin after the index has grown and the last item is shown. It was confirmed that all items are delivered, that the last one is found in the new header, that a consumer takes items by way of the old header after the growth while the other uses the new one, that two claims are compared with the tail at once, are given back in part and as a whole, and that bulks are undone after the growth. The properties also hold with limits of six, seven and eight, which have up to twice the states and take longer than a run should. |
| `kafka` | Are trade ids accounted for, what does a crash cost, does Redis go back, does a full queue drain? | A queue of two, three messages per producer, a topic of four, two restarts: the queue fills, messages are repeated, given up and destroyed. The programs share only the log, no producer reads it and no consumer writes it, so each runs alone, a consumer with a log that anyone may write; the C++ pair was also checked together on a shorter log. |

`MaxPushes`, `MaxMessages`, `MaxBars`, `MaxBarTrades`, `MaxDelay`, `MaxTrades`, `MaxSent`,
`MaxLog`, `MaxRestarts`, `MaxItems`, `MaxClaims` and `MaxIndexSize` bound the counters of the models; they are guards of the actions that count. The settings
of the strategy are smaller than those in the code so that all windows fit into
a run; the proofs hold for any settings.

Deadlock is checked except in `prism_strategy`, where the market ends with bar
`MaxBars`; `live_binance`, `spsc_queue` and `prism_backtest`, where the program ends;
and `kafka` and `block_queue`, where the bounds end it. `MaxClaims` is needed because
two consumers can make each other's second look at the tail fail again and again, so
`dequeueOptimisticCount` and `dequeueOvercommit` grow without a limit; only their
difference means something.

`free_list` and `block_queue` treat the threads, and `free_list` the nodes, as
interchangeable (symmetry); their properties are safety properties.

### Fairness

`SPSCQueue` asks that a pop that could succeed is not put off for ever: a release
store becomes visible in finite time (C++ asks implementations for that) and the
consumer polls. `LiveBinanceEngine` asks for weak fairness of each thread (the
operating system runs it) and of the stop reaching each thread, strong
fairness of a pop that finds a packet (the loads of a polling loop cannot be
stale for ever) and of a connection attempt succeeding (an assumption about the
network, used by `Reconnects`). No fairness forces a signal, a message or a lost
connection. `BenchmarkEngine` asks that both threads run and that a store becomes
visible: a waiting push is let in once there is room. `KafkaPipeline` asks that the
loop of `producer.cpp` goes on and that the library settles each message in the end,
delivered or given up, because `message.timeout.ms` is finite; the broker need
never answer. `PrismBacktest`, `FreeList` and `ImplicitQueue` assume no fairness; nothing
is claimed about their progress. `StopsEventually` relies on `lws_service` returning, which in the model
follows from the bound on messages and in the program from its handling one
batch of what has been received.

### Findings

`retest_window`: `prism_strategy.cpp:15-16` says "Retest can happen within 30 bars.
With 10-sec bars, this means 5 minutes." The window is counted in bars, and a
bucket in which nothing is traded gives no bar (`prism_live_engine.cpp:91-95`).
TLC shows a signal whose breakout is longer ago than `MAX_RETEST_BARS` bar
lengths.

`backtest_drawdown`: `prism_backtest.cpp:203` prints `max_drawdown_in_R` beside
`total_trades` and `gross_R`. A trade that is still open when the data end is closed at
line 197, which adds it to the trades and to `equity` but, unlike line 157, leaves
`peak_equity` and `max_dd` alone. TLC shows a losing last trade that is in `gross_R` and
not in the drawdown. `BooksAgree` states what does hold: the drawdown is the one
of the trades closed in the loop.

Two more observations that no run is needed for: `live_binance_engine.cpp:142-143`
prints that the order book is updated every fourth tick, and `src/PRODUCTION_FLOW.md:30`
has it in the path, but the call is commented out at line 65. And packets still
in the ring when the program stops are not processed, nor is an open trade
closed; no document promises either, and `MessagesAccounted` counts the former.

## 4. Proofs

TLAPS proves, for all values of the constants that satisfy the named assumptions:

* **LiveBinanceEngine_proofs**, the ring (any positive capacity, any number of pushes). `IInv` says that
  position k of a modification order holds (k-1) mod Capacity, that the indices seen
  are within a window of Capacity - 1 of the real ones, and that each slot between
  head and tail holds the item of its turn. Neither `NoSlotRace` nor `FifoDelivery`
  is inductive alone: that a slot may be overwritten follows from the head position
  the producer has acquired, and what a pop returns from the contents of the
  slots. The arithmetic is a handful of lemmas on remainders (`ModDistinct`: fewer
  than Capacity steps apart means different slots). `RefinesFifo` is the safety part of
  `ImplementsFifo`: a store to `tail_` or `head_` is a step of `BoundedFifo`, every other step a stutter.
* **LiveBinanceEngine_proofs**, the threads (any capacity, number of messages and limit of
  retries), in three layers. `ThreadInv`: the threads use the queue as one producer and one
  consumer, so `IInv` and the refinement of `BoundedFifo` carry over, with the types.
  `FateInv`: the message in hand is newer than all others, so a message is rejected,
  abandoned, sent or in hand and never two of these, and `received_`, `dropped_` and
  `processed` count what they are named for; `MessagesAccounted` follows. The joins: what the main thread has
  waited for has ended for good, which gives `SummaryIsFinal`.
* **TradeManager_proofs** (any prices, any signals with ordered levels). `TMInv` adds to
  the properties that the levels of an open trade are in order and that each row is
  consistent by itself (`RowsOK`); the exits then follow from the order of the tests.
  `CsvInv` ties counters and `gross_r_` to the rows of an open log, one `close_trade` at a time.
* **EngineThread_proofs**, the strategy (any bars with low <= open, close <= high, any settings).
  `StrategyInv` adds that there is no setup before the history is long enough.
  `LevelMovesAlong` shows that the recorded level stays the maximum of the same
  bars while the deque moves. It follows that the tests of the level and of the
  cooldown in `detect_retest()` (lines 137 and 158) never end a setup. `SignalLevels` bounds the
  stop by the low less a quarter of the range, whatever the ATR is; so a bar that passes the tests
  before it also passes that of the risk (line 246), which is the part of `SignalWellFormed` that speaks of
  bars without a signal.
* **EngineThread_proofs**, the bar builder and the thread (any set of trades in any order,
  all caps and settings). `LiveInv` is `StrategyInv` and three parts: the current bar is
  the open, high, low and close of `bar_prices`; both deques agree from the
  newest bar back and `last_signal_` is the verdict on it; while the feed is in
  order, the closed buckets lie before the current one. With `AtrIsNat` (the ATR is a sum
  of distances) every closed bar is one that `PrismStrategy` assumes, so its
  theorems hold in the composition (`FeedsStrategy`, `SignalsDisciplinedHere`). `ThreadInv`
  adds that `previous_signal_state` is the last level seen and that an
  edge only appears with the first trade of a bar, for the strategy is never valid on two
  bars in a row. `ThreadRunsBuilder` shows that the thread implements the specification of the bar builder.
* **EngineThread_proofs**, with the trade manager. `PricedInv`: the prices of a bar are
  prices of its trades, so bars and signals come from the sets that `UnitAssumption` speaks
  of; with `AlwaysTradable` a signal is one that `TradeManager` assumes. `PacesInv` says
  that the three calls of a round get the same packet of the feed. So every step of the thread is a step of
  `TradeManager` or a stutter (`ThreadRunsTrader`), and all that is proved of it
  holds in the composition (`ThreadBooksTrades`, `ThreadKeepsTrade`). `ThreadTyped` collects the types
  of the four parts.
* **PrismBacktest_proofs** (any bars and settings). Four invariants of the locals between
  two bars, each kept block by block of the loop body: `LevelsInv` (stop, entry
  and targets of an open trade are in order and the last close lies within),
  `StoryInv` (which entries, trades and flags may follow a breakout), `BooksInv` (each counter
  against its log, equity and drawdown against the rows) and `LogsInv` (the rows of `intents` against
  retests, entries and rejections, and those of `trades` against the intents that were accepted). The
  last needs that an open trade still has the `entry` and `stop` of its intent: every retest sets them,
  and none is looked at while a trade is open. They give `RBracketed`,
  `EntriesFollowBreakouts` and `BooksAgree`.
* **KafkaPipeline_proofs** (any producers and symbols, any size of the queue, any combination
  of programs). `SentInv`: a trade only moves between the log, the queues and the lost
  ones. `CounterInv`: of the messages below what was looked at, at most one per
  crash is missing. `PricerInv`: what Redis holds lies behind the position of the process and
  of the next one, which begins at the end of the topic; hence `RedisNeverGoesBack`.
* **FreeList_proofs** (any finite sets of nodes and threads). `FreeListInv` says what a
  count stands for: the threads that hold a reference, and the list if the node is on
  it. A node whose count was found at zero is held by nobody, and whoever holds one knows
  its `freeListNext`; so the compare-exchange on the head takes off the node
  it meant to, although the head may have changed and come back (ABA). The nodes on the list are a chain without
  repetition, and every node has one place. `RefinesPool` maps each step to one of `NodePool` or a stutter.
* **ImplicitQueue_proofs** (any finite set of consumers, any block size above one, any pool,
  heap and size of the index). Three invariants, each resting on the one before.
  `QueueShape`: no header is dropped, only the newest one changes, in its tail alone, and it has
  all entries of the older ones; the locals of the producer and of each consumer at each of their steps. `CounterInv`:
  `dequeueOptimisticCount` is the sum of what was given back, what was taken, and what
  running claims still stand for (`Balance`). That alone does not keep the head below the
  tail: a claim may lie before one that was made later and has been served. `ClaimOrder`
  therefore ranks the running claims by their `fetch_add` and says how far the queue was
  promised when each was made; what a consumer may take then always lies below the tail it reads.
  `ClaimsApart`: no two consumers work on the same item.
* **ImplicitQueueContent_proofs** (the same constants). Blocks are numbered, and the entry of
  a number (`Ent`) is counted from the tail of the newest header. `StoredInv` has five parts:
  all headers keep the entries in the same cyclic order, although a rewind
  and a replacement move their slots (`PhaseInv`); the keys are the bases of the latest blocks
  (`KeyInv`); a block in use is linked and has counted its finished items, no more (`LinkInv`);
  a consumer's old header and slot still lead to the entry of its items (`LookupInv`); and every block is in one
  place (`OwnerInv`): linked in the index, free, in the initial pool, in the heap, in the
  producer's chain, or with the consumer that emptied it. None of them is inductive alone: a block is
  not unlinked early because its count is right, and the count is right because each item
  is claimed once. `ContentInv` says where each item is that has not been moved out. From these follow `BlockHasOneHolder`,
  `ClaimedItemsAreFound` and `QuietQueueIsComplete`.

The assumptions are: a positive capacity; in the trade manager, that an active
signal with a risk has `entry < target1 < target2` (what `AlwaysTradable`
proves of the engine thread) and that `R_UNIT` is a common multiple of the risks, which
for the engine thread is `UnitAssumption` (there is such a number because a feed has finitely many prices); in
the strategy, positive window lengths and a deque longer than the look-back; in the
bar builder, positive bar lengths and units of time and a deque longer than the ATR period;
in the backtest, a positive look-back, a trade limit beyond the re-entry window as in the
code, and the scale of prices and `R_UNIT` that section 2 explains; in the Kafka
path, that the programs have different names and the queue has room; in the free
list, finitely many nodes and threads; in the block queue, finitely many consumers, blocks
of more than one item and an index of more than one entry, as `concurrentqueue.h` demands,
and a limit on its size that is a multiple of the block size, to which the code rounds it.

Where a definition is recursive (the sum of the true ranges, the equity curve, the sum over
the log) the proofs need that the function exists and what one more element adds. Both are
shown for that definition from the least number for which they would fail; the induction
rules of the library cannot be used, since they take an operator as a parameter.

Some theorems state what no run lists by itself: `QueueTypeOK` is checked as a part of
`LiveBinanceTypeOK`, `TMTypeOK`, `StrategyTypeOK` and `LiveTypeOK` as parts of `ThreadTypeOK`;
`ReportNeverBelowActual` and `OpenTradeBracketed` follow from the invariant of the
trade manager, `FreeListTypeOK` from that of the free list.

Only model-checked:

* everything under fairness (`ImplementsFifo` with its liveness, `BenchmarkEnds`,
  `StopsEventually`, `AcceptedIsProcessed`, `Reconnects`, `FullQueueDrains`), which is out of the
  prover's reach;
* the two expected violations, which are no theorems.

## 5. Not modelled

Volumes and VWAP (no decision depends on them), rounding of floating point
numbers, the width of time stamps (in nanoseconds they fit into 64 bits for centuries,
and the stream sends milliseconds), the wording and layout of logs, latency statistics, the unsynchronised
reads of the report (their values are displayed only), clock helpers, generated
code, and `engine.cpp`, which no build target compiles and which contradicts
`engine_shared.hpp`. Reading the CSV file and writing the files of the backtest; pacing and
time stamps of the producers; Kafka partitions and rebalancing (one consumer per group and
one partition).

Of `concurrentqueue.h`: explicit producers and their circular index, the list and the hash
of producers and the inheritance of a dead thread's producer, tokens and the choice of a
producer in `try_dequeue`, move and swap, the destructor, exceptions thrown by a move
assignment in a dequeue, wrap-around of `index_t`, and memory orders weaker than
sequential consistency.

## 6. Plan

Done, in this order because the live program is the heart of the repository: the
ring, the trade manager, the strategy, the bar builder, the engine thread, the
threads and the stop; then the backtest, the benchmark, the Kafka path, and the free
list and block queue of `concurrentqueue.h`; then theorems about all of them, the trade
manager inside the engine thread and the block queue last. Every safety property
of a run that passes is a theorem.

Left: `BenchmarkEngine` has no theorems of its own; what its run checks of the ring is proved
of `QueueSafety`, whose steps the benchmark takes (`Match` leaves the ring alone), and the rest is
`BenchmarkEnds`, which needs fairness.

If the block queue comes into use: explicit producers and the producer list.
