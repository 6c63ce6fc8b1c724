-------------------------- MODULE BenchmarkEngine --------------------------
(***************************************************************************)
(* benchmark_engine.cpp: the main thread pushes a fixed number of packets, *)
(* waiting as long as the ring is full; a consumer thread pops them,       *)
(* matches them in the FastOrderBook of order_book.hpp and ends when it    *)
(* has counted that number.  Both use the one SPSCQueue; its steps are     *)
(* theirs.  Packets are their trade ids, the loop index i.                 *)
(***************************************************************************)
EXTENDS SPSCQueue, Integers

CONSTANT
  VOLUME_UNIT   \* a whole unit of volume in the unit of Volume(), 10000

ASSUME VolumeAssumption == VOLUME_UNIT \in Nat \ {0}

\* total_messages
Total == MaxPushes

VARIABLES
  processed,  \* the counter the consumer's loop ends by
  matching,   \* pop() has returned a packet that is not counted yet
  book        \* FastOrderBook: last_price, total_volume, total_trades

benchmarkVars == <<queueVars, processed, matching, book>>

\* 65000.01 and 0.01 more for every packet; 0.0100 to 0.0199.
Price(i) == i + 1
Volume(i) == 100 + (i % 100)

BenchmarkInit ==
  /\ QueueInit
  /\ processed = 0 /\ matching = FALSE
  /\ book = [last_price |-> 0, total_volume |-> 0, total_trades |-> 0]

ConsumerRuns == processed < Total \/ cpc # "idle" \/ matching

\* while (!trade_queue.push(packet)) PAUSE(), for one packet after the other.
BenchmarkPush ==
  /\ PushLoad(Len(sent)) \/ PushWrite \/ PushPublish
  /\ UNCHANGED <<processed, matching, book>>

\* Mistake caught by BenchmarkEnds: a pop that finds nothing is counted too.
BenchmarkPopCountsCalls ==
  /\ ConsumerRuns /\ ~matching
  /\ \/ PopLoad /\ processed' = processed + (IF cpc' = "idle" THEN 1 ELSE 0)
        /\ UNCHANGED matching
     \/ PopRead /\ UNCHANGED <<processed, matching>>
     \/ PopRelease /\ matching' = TRUE /\ UNCHANGED processed
  /\ UNCHANGED book

BenchmarkPop ==
  /\ ConsumerRuns /\ ~matching
  /\ \/ (PopLoad \/ PopRead) /\ UNCHANGED matching
     \/ PopRelease /\ matching' = TRUE
  /\ UNCHANGED <<processed, book>>

\* book.match(p) and the count.  The volume loses its fraction.
Match ==
  /\ matching
  /\ matching' = FALSE
  /\ book' = [last_price |-> Price(cItem),
              total_volume |-> book.total_volume + Volume(cItem) \div VOLUME_UNIT,
              total_trades |-> book.total_trades + 1]
  /\ processed' = processed + 1
  /\ UNCHANGED queueVars

BenchmarkNext == BenchmarkPush \/ BenchmarkPop \/ Match

\* Both threads run until they are done, and a store becomes visible in finite time.
BenchmarkSpec ==
  /\ BenchmarkInit /\ [][BenchmarkNext]_benchmarkVars
  /\ WF_benchmarkVars(BenchmarkPush /\ ppc' # ppc)
  /\ WF_benchmarkVars(BenchmarkPop /\ cpc' # cpc)
  /\ WF_benchmarkVars(Match)

-----------------------------------------------------------------------------
(* Property *)

\* The benchmark ends, whatever the ring's size: a push that waits on a full ring
\* is let in and the consumer's count reaches the number it ends by, with every
\* packet matched, in the order of the ids.
BenchmarkEnds ==
  <>[](/\ received = [k \in 1 .. Total |-> k - 1]
       /\ ~ConsumerRuns
       /\ book.total_trades = Total
       /\ book.last_price = Price(Total - 1))
=============================================================================
