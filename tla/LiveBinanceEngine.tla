-------------------------- MODULE LiveBinanceEngine --------------------------
(***************************************************************************)
(* The threads of live_binance_engine and how they start, talk and stop:   *)
(*   feed    BinanceClient::run(), its websocket callbacks and             *)
(*           handle_message(), which pushes each trade on trade_queue;     *)
(*   engine  the loop that pops trade_queue and processes each packet      *)
(*           (what it does with one is the subject of EngineThread);       *)
(*   main    the two-second report, then stop(), two joins, the summary.   *)
(* The queue is SimpleSPSCQueue as SPSCQueue.tla models it, memory orders  *)
(* included.  A message is its number of arrival.                          *)
(***************************************************************************)
EXTENDS SPSCQueue

CONSTANTS MAX_RETRIES,  \* 10000 in handle_message()
          MaxMessages   \* bound of the model: websocket messages

ASSUME LiveBinanceAssumption ==
  /\ MAX_RETRIES \in Nat \ {0}
  /\ MaxMessages \in Nat /\ MaxMessages <= MaxPushes
  /\ Items = 1 .. MaxMessages

Threads == {"feed", "engine", "main"}

VARIABLES
  running,        \* what each thread loads from the atomic flag
  link,           \* the websocket itself: "down", "connecting" or "open"
  wsi_,           \* the client's pointer is not null
  connected_,
  fpc,            \* where the feed thread is
  retry_count,    \* local of handle_message(), 0 outside of it
  received_, dropped_,
  epc,            \* where the engine thread is
  processed,
  mpc,            \* where the main thread is
  last_processed, \* the count the last report showed
  summary,        \* the count the final summary showed
  arrived,        \* history: messages received; also the one in hand
  rejected,       \* history: messages counted by dropped_
  abandoned       \* history: messages given up because of the stop

linkVars == <<link, wsi_, connected_>>
tallies == <<received_, dropped_, arrived, rejected, abandoned>>
feedVars == <<fpc, retry_count, tallies>>
engineVars == <<epc, processed>>
mainVars == <<mpc, last_processed, summary>>
allVars == <<queueVars, running, linkVars, feedVars, engineVars, mainVars>>

\* What a step of the thread leaves alone in any case.
outsideFeed == <<running, engineVars, mainVars>>
outsideEngine == <<running, linkVars, feedVars, mainVars>>
outsideMain == <<queueVars, running, linkVars, feedVars, engineVars>>

BinanceInit ==
  /\ QueueInit
  /\ running = [t \in Threads |-> TRUE]
  /\ link = "down" /\ wsi_ = FALSE /\ connected_ = FALSE
  /\ fpc = "test" /\ retry_count = 0 /\ received_ = 0 /\ dropped_ = 0
  /\ epc = "test" /\ processed = 0
  /\ mpc = "monitor" /\ last_processed = 0 /\ summary = 0
  /\ arrived = 0 /\ rejected = {} /\ abandoned = {}

-----------------------------------------------------------------------------
(* The stop flag *)

StopRequested == \E t \in Threads : ~running[t]

\* signal_handler() stores false with relaxed order: each thread sees it at a
\* time of its own.  The first to see it stands for the signal itself.
SeeStop(t) ==
  /\ running[t]
  /\ running' = [running EXCEPT ![t] = FALSE]
  /\ UNCHANGED <<queueVars, linkVars, feedVars, engineVars, mainVars>>

-----------------------------------------------------------------------------
(* The feed thread *)

\* while (running): connect() first when there is no connection.
FeedTest ==
  /\ fpc = "test"
  /\ fpc' = IF ~running["feed"] THEN "done" ELSE IF wsi_ THEN "service" ELSE "connect"
  /\ UNCHANGED <<outsideFeed, tallies, queueVars, linkVars, retry_count>>

Connect ==
  /\ fpc = "connect"
  /\ link' = "connecting" /\ wsi_' = TRUE
  /\ fpc' = "service"
  /\ UNCHANGED <<outsideFeed, tallies, queueVars, connected_, retry_count>>

\* No context or no handle: sleep two seconds and test again.
ConnectFails ==
  /\ fpc = "connect"
  /\ fpc' = "test"
  /\ UNCHANGED <<outsideFeed, tallies, queueVars, linkVars, retry_count>>

\* lws_service() calls callback_ws() any number of times and returns.
Established ==
  /\ fpc = "service" /\ link = "connecting"
  /\ link' = "open" /\ connected_' = TRUE
  /\ UNCHANGED <<outsideFeed, tallies, queueVars, wsi_, fpc, retry_count>>

\* Mistake caught by Reconnects: the dead handle is kept.
HandleKept == TRUE

\* What CLOSED and CONNECTION_ERROR leave in wsi_: nullptr.
HandleAfterLoss == FALSE

LinkLost ==
  /\ fpc = "service" /\ link # "down"
  /\ link' = "down"
  /\ connected_' = FALSE
  /\ wsi_' = HandleAfterLoss
  /\ UNCHANGED <<outsideFeed, tallies, queueVars, fpc, retry_count>>

ServiceReturns ==
  /\ fpc = "service"
  /\ fpc' = "test"
  /\ UNCHANGED <<outsideFeed, tallies, queueVars, linkVars, retry_count>>

\* A message without a symbol, a positive price and a positive volume.
ReceiveInvalid ==
  /\ fpc = "service" /\ link = "open"
  /\ arrived < MaxMessages
  /\ arrived' = arrived + 1
  /\ dropped_' = dropped_ + 1
  /\ rejected' = rejected \cup {arrived'}
  /\ UNCHANGED <<outsideFeed, queueVars, linkVars, fpc, retry_count, received_, abandoned>>

ReceiveTrade ==
  /\ fpc = "service" /\ link = "open"
  /\ arrived < MaxMessages
  /\ arrived' = arrived + 1
  /\ fpc' = "push"
  /\ UNCHANGED <<outsideFeed, queueVars, linkVars, retry_count, received_, dropped_, rejected, abandoned>>

\* trade_queue.push(p), up to its test and then to its return.
TryPush ==
  /\ fpc = "push"
  /\ PushLoad(arrived)
  /\ fpc' = IF ppc' = "idle" THEN "full" ELSE "pushing"
  /\ UNCHANGED <<outsideFeed, tallies, linkVars, retry_count>>

Pushing ==
  /\ fpc = "pushing"
  /\ PushWrite \/ PushPublish
  /\ fpc' = IF ppc' = "idle" THEN "count" ELSE "pushing"
  /\ retry_count' = IF ppc' = "idle" THEN 0 ELSE retry_count
  /\ UNCHANGED <<outsideFeed, tallies, linkVars>>

\* Mistake caught by MessagesAccounted: a full queue drops in silence.
GiveUpAtOnce ==
  /\ fpc = "full"
  /\ abandoned' = abandoned \cup {arrived}
  /\ retry_count' = 0
  /\ fpc' = "service"
  /\ UNCHANGED <<outsideFeed, queueVars, linkVars, received_, dropped_, arrived, rejected>>

\* push() returned false: the stop is tested before the number of retries.
GiveUpOnStop ==
  /\ fpc = "full" /\ ~running["feed"]
  /\ abandoned' = abandoned \cup {arrived}
  /\ retry_count' = 0
  /\ fpc' = "service"
  /\ UNCHANGED <<outsideFeed, queueVars, linkVars, received_, dropped_, arrived, rejected>>

\* Mistake caught by LiveBinanceTypeOK: one retry too many.
RetriesExceeded(n) == n > MAX_RETRIES

RetriesExhausted(n) == n >= MAX_RETRIES

Retry ==
  /\ fpc = "full" /\ running["feed"]
  /\ ~RetriesExhausted(retry_count + 1)
  /\ retry_count' = retry_count + 1
  /\ fpc' = "push"
  /\ UNCHANGED <<outsideFeed, tallies, queueVars, linkVars>>

DropWhenFull ==
  /\ fpc = "full" /\ running["feed"]
  /\ RetriesExhausted(retry_count + 1)
  /\ dropped_' = dropped_ + 1
  /\ rejected' = rejected \cup {arrived}
  /\ retry_count' = 0
  /\ fpc' = "service"
  /\ UNCHANGED <<outsideFeed, queueVars, linkVars, received_, arrived, abandoned>>

\* received_.fetch_add(1), after the packet is visible to the engine.
CountReceived ==
  /\ fpc = "count"
  /\ received_' = received_ + 1
  /\ fpc' = "service"
  /\ UNCHANGED <<outsideFeed, queueVars, linkVars, retry_count, dropped_, arrived, rejected, abandoned>>

Feed ==
  \/ FeedTest \/ Connect \/ ConnectFails
  \/ Established \/ LinkLost \/ ServiceReturns \/ ReceiveInvalid \/ ReceiveTrade
  \/ TryPush \/ Pushing \/ GiveUpOnStop \/ Retry \/ DropWhenFull \/ CountReceived

-----------------------------------------------------------------------------
(* The engine thread *)

\* Mistake caught by StopsEventually: the engine loop does not look at the flag.
EngineLoopForever ==
  /\ epc = "test"
  /\ epc' = "pop"
  /\ UNCHANGED <<outsideEngine, queueVars, processed>>

EngineTest ==
  /\ epc = "test"
  /\ epc' = IF running["engine"] THEN "pop" ELSE "done"
  /\ UNCHANGED <<outsideEngine, queueVars, processed>>

\* trade_queue.pop(p), up to its test (PAUSE when empty) and to its return.
TryPop ==
  /\ epc = "pop"
  /\ PopLoad
  /\ epc' = IF cpc' = "idle" THEN "test" ELSE "popping"
  /\ UNCHANGED <<outsideEngine, processed>>

Popping ==
  /\ epc = "popping"
  /\ PopRead \/ PopRelease
  /\ epc' = IF cpc' = "idle" THEN "process" ELSE "popping"
  /\ UNCHANGED <<outsideEngine, processed>>

\* The bar, the trade and the signal of the packet, then processed.fetch_add.
Process ==
  /\ epc = "process"
  /\ processed' = processed + 1
  /\ epc' = "test"
  /\ UNCHANGED <<outsideEngine, queueVars>>

Engine == EngineTest \/ TryPop \/ Popping \/ Process

-----------------------------------------------------------------------------
(* The main thread *)

Monitor ==
  /\ mpc = "monitor"
  /\ mpc' = IF running["main"] THEN "report" ELSE "stop"
  /\ UNCHANGED <<outsideMain, last_processed, summary>>

\* Relaxed loads may be stale, but never older than the last report's.
Report ==
  /\ mpc = "report"
  /\ last_processed' \in last_processed .. processed
  /\ mpc' = "monitor"
  /\ UNCHANGED <<outsideMain, summary>>

\* client.stop() clears connected_ and nothing else.
ClientStop ==
  /\ mpc = "stop"
  /\ connected_' = FALSE
  /\ mpc' = "join_feed"
  /\ UNCHANGED <<queueVars, running, link, wsi_, feedVars, engineVars, last_processed, summary>>

JoinFeed ==
  /\ mpc = "join_feed" /\ fpc = "done"
  /\ mpc' = "join_engine"
  /\ UNCHANGED <<outsideMain, last_processed, summary>>

\* Mistake caught by SummaryIsFinal: the engine thread is not waited for.
EngineDetached == TRUE

EngineJoined == epc = "done"

JoinEngine ==
  /\ mpc = "join_engine" /\ EngineJoined
  /\ mpc' = "summarise"
  /\ UNCHANGED <<outsideMain, last_processed, summary>>

Summarise ==
  /\ mpc = "summarise"
  /\ summary' = processed
  /\ mpc' = "done"
  /\ UNCHANGED <<outsideMain, last_processed>>

Main == Monitor \/ Report \/ ClientStop \/ JoinFeed \/ JoinEngine \/ Summarise

-----------------------------------------------------------------------------
BinanceNext == Feed \/ Engine \/ Main \/ \E t \in Threads : SeeStop(t)

\* The operating system runs every thread that can run; a relaxed or release
\* store reaches every thread in finite time; a connection that is attempted
\* again and again succeeds in the end.  No signal need ever come.
BinanceFairness ==
  /\ WF_allVars(Feed) /\ WF_allVars(Engine) /\ WF_allVars(Main)
  /\ SF_allVars(TryPop /\ cpc' = "read")
  /\ SF_allVars(Connect)
  /\ \A t \in Threads : WF_allVars(StopRequested /\ SeeStop(t))

BinanceSpec == BinanceInit /\ [][BinanceNext]_allVars /\ BinanceFairness

-----------------------------------------------------------------------------
(* Properties *)

\* Every variable of the three threads has its type, and the locals of push()
\* and pop() are in step with their callers.
LiveBinanceTypeOK ==
  /\ QueueTypeOK
  /\ running \in [Threads -> BOOLEAN]
  /\ link \in {"down", "connecting", "open"}
  /\ wsi_ \in BOOLEAN /\ connected_ \in BOOLEAN
  /\ fpc \in {"test", "connect", "service", "push", "pushing", "full", "count", "done"}
  /\ (fpc = "pushing") = (ppc # "idle")
  /\ retry_count \in 0 .. MAX_RETRIES - 1
  /\ epc \in {"test", "pop", "popping", "process", "done"}
  /\ (epc = "popping") = (cpc # "idle")
  /\ mpc \in {"monitor", "report", "stop", "join_feed", "join_engine", "summarise", "done"}
  /\ arrived \in 0 .. MaxMessages
  /\ rejected \subseteq Items /\ abandoned \subseteq Items
  /\ received_ \in Nat /\ dropped_ \in Nat
  /\ processed \in Nat /\ last_processed \in Nat /\ summary \in Nat

InHand == IF fpc \in {"push", "pushing", "full"} THEN {arrived} ELSE {}

\* No trade vanishes without a trace between the websocket and the summary:
\* each message is queued, counted by ws_dropped, given up after a stop, or in
\* hand; ws_received and processed lag behind by the packet being counted.  The
\* engine sees them in the order of the exchange, each at most once, whatever was
\* dropped in between: the bars are built on that.
MessagesAccounted ==
  /\ 1 .. arrived = ToSet(sent) \cup rejected \cup abandoned \cup InHand
  /\ arrived = Len(sent) + Cardinality(rejected) + Cardinality(abandoned) + Cardinality(InHand)
  /\ dropped_ = Cardinality(rejected)
  /\ abandoned # {} => ~running["feed"]
  /\ Len(sent) = received_ + (IF fpc = "count" THEN 1 ELSE 0)
  /\ Len(received) = processed + (IF epc = "process" THEN 1 ELSE 0)
  /\ \A i, j \in 1 .. Len(received) : i < j => received[i] < received[j]

\* The summary is written when nobody can add to it any more, although the
\* counters and the trade manager are read without a lock
\* (live_binance_engine.cpp:196-213).
SummaryIsFinal ==
  mpc = "done" => /\ fpc = "done" /\ epc = "done"
                  /\ summary = processed

\* Ctrl+C ends the program, also with a full queue, a dead engine loop on the
\* other side of it, or no connection.
StopsEventually == StopRequested ~> (mpc = "done")

\* What the queue accepted is processed unless the engine is told to stop: a
\* trade is not stuck in the ring.
AcceptedIsProcessed ==
  \A n \in Items : (Len(sent) >= n) ~> (processed >= n \/ ~running["engine"])

\* A lost connection is attempted again (BinanceClient.cpp:324 says
\* "reconnecting...") until it is there or the program stops.
Reconnects == (link = "down") ~> (link # "down" \/ ~running["feed"])
==============================================================================
