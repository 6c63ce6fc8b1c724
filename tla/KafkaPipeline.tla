--------------------------- MODULE KafkaPipeline ---------------------------
(***************************************************************************)
(* The Kafka path: producer.cpp and the Python producers of load_test.py   *)
(* write trades to the topic raw-trades; consumer.cpp counts them and      *)
(* consumer.py keeps a price per symbol in Redis.                          *)
(*                                                                         *)
(* The topic is a log with one partition.  The client library is external, *)
(* modelled as the programs use it: produce() puts a message in a bounded  *)
(* queue, a background thread delivers it, more than once or out of order  *)
(* when it retries, or gives it up, and its delivery report keeps its      *)
(* place in the queue until poll() or flush() serves it.  consume() stores *)
(* the offset after the message it hands over, auto-commit commits what is *)
(* stored.  A message is what the programs tell apart: who sent it, its    *)
(* number and its symbol.  The number is the trade_id of producer.cpp; the *)
(* ids of producer.py are random (uuid4), and for its messages the number  *)
(* is history.                                                             *)
(***************************************************************************)
EXTENDS Integers, Sequences, FiniteSets, Functions

CONSTANTS
  Cpp,           \* the process of producer.cpp
  PyProducers,   \* the processes of producer.py
  Symbols,       \* the symbols of producer.py
  Together,      \* the sets of programs that a behaviour may run together
  QueueMax,      \* queue.buffering.max.messages
  MaxSent,       \* bound of the model: messages per producer
  MaxLog,        \* bound of the model: messages in the topic
  MaxRestarts    \* bound of the model: restarts of each consumer

ASSUME PipelineAssumption ==
  /\ Cpp \notin PyProducers /\ "other" \notin PyProducers \cup {Cpp}
  /\ Together \subseteq SUBSET {"cpp", "py", "counter", "pricer"}
  /\ QueueMax \in Nat \ {0}
  /\ MaxSent \in Nat /\ MaxLog \in Nat /\ MaxRestarts \in Nat

Producers == {Cpp} \cup PyProducers

NoOffset == -1
CppSymbol == "BTCUSDT"
NoSymbol == "none"
AllSymbols == Symbols \cup {CppSymbol}

VARIABLES
  log,      \* the topic: messages by offset, log[o + 1] at offset o
  out,      \* per producer: pc, sent, outbox, reports, failed, lost
  running,  \* producer.cpp's running
  counter,  \* consumer.cpp: pc, position, stored, committed and a history
  pricer,   \* consumer.py: pc, position
  redis     \* per symbol the offset of the message whose price is stored

kafkaVars == <<log, out, running, counter, pricer, redis>>

\* The programs of one of the sets in Together run, the others are off.
KafkaInit ==
  \E on \in Together :
    LET first(program, pc) == IF program \in on THEN pc ELSE "off"
    IN
    /\ log = <<>>
    /\ out = [p \in Producers |->
               [pc |-> first(IF p = Cpp THEN "cpp" ELSE "py", "run"), sent |-> 0, outbox |-> {}, reports |-> {},
                failed |-> {}, lost |-> {}]]
    /\ running = TRUE
    /\ counter = [pc |-> first("counter", "down"), position |-> 0, stored |-> NoOffset,
                  committed |-> NoOffset, base |-> 0, crashes |-> 0, starts |-> 0,
                  handled |-> {}]
    /\ pricer = [pc |-> first("pricer", "down"), position |-> 0, starts |-> 0]
    /\ redis = [s \in AllSymbols |-> NoOffset]

End == Len(log)
MessageAt(o) == log[o + 1]

-----------------------------------------------------------------------------
(* The client library of a producer *)

Alive(p) == out[p].pc \in {"run", "poll", "flush"}
Full(p) == Cardinality(out[p].outbox) + Cardinality(out[p].reports) >= QueueMax

Settled(p, m) == out' = [out EXCEPT ![p].outbox = @ \ {m}, ![p].reports = @ \cup {m}]

\* A message of the queue reaches the log and the broker's answer the client.
Deliver(p) ==
  /\ Alive(p) /\ End < MaxLog
  /\ \E m \in out[p].outbox : log' = Append(log, m) /\ Settled(p, m)
  /\ UNCHANGED <<running, counter, pricer, redis>>

\* The answer is lost: the message stays in the queue and will be sent again.
AnswerLost(p) ==
  /\ Alive(p) /\ End < MaxLog
  /\ \E m \in out[p].outbox : log' = Append(log, m)
  /\ UNCHANGED <<out, running, counter, pricer, redis>>

\* Its time is over: the report will say so.
DeliveryFails(p) ==
  /\ Alive(p)
  /\ \E m \in out[p].outbox :
       out' = [out EXCEPT ![p].outbox = @ \ {m}, ![p].reports = @ \cup {m},
                          ![p].failed = @ \cup {m}]
  /\ UNCHANGED <<log, running, counter, pricer, redis>>

\* What a client still holds goes with it.
Gone(p, pc) ==
  out' = [out EXCEPT ![p].pc = pc, ![p].outbox = {}, ![p].reports = {},
                     ![p].lost = @ \cup out[p].outbox]

-----------------------------------------------------------------------------
(* producer.cpp *)

Trade(p, symbol) == [src |-> p, number |-> out[p].sent, symbol |-> symbol]

Accept(p, symbol, pc) ==
  /\ out[p].sent < MaxSent /\ ~Full(p)
  /\ out' = [out EXCEPT ![p].pc = pc, ![p].sent = @ + 1,
                        ![p].outbox = @ \cup {Trade(p, symbol)}]

\* Mistake caught by SentIdsAccounted: a trade that is refused is counted.
CppProduceCountsRefused ==
  /\ out[Cpp].pc = "run" /\ running
  /\ \/ Accept(Cpp, CppSymbol, "poll")
     \/ /\ Full(Cpp) /\ out[Cpp].sent < MaxSent
        /\ out' = [out EXCEPT ![Cpp].pc = "poll", ![Cpp].sent = @ + 1]
     \/ ~Full(Cpp) /\ out' = [out EXCEPT ![Cpp].pc = "poll"]
  /\ UNCHANGED <<log, running, counter, pricer, redis>>

\* Mistake caught by FullQueueDrains: after a full queue there is no poll.
CppProduceWithoutPoll ==
  /\ out[Cpp].pc = "run" /\ running
  /\ \/ Accept(Cpp, CppSymbol, "poll")
     \/ Full(Cpp) /\ UNCHANGED out
     \/ ~Full(Cpp) /\ out' = [out EXCEPT ![Cpp].pc = "poll"]
  /\ UNCHANGED <<log, running, counter, pricer, redis>>

\* One pass of the loop up to the result of produce(); sent counts acceptances.
CppProduce ==
  /\ out[Cpp].pc = "run" /\ running
  /\ \/ Accept(Cpp, CppSymbol, "poll")
     \/ Full(Cpp) /\ out' = [out EXCEPT ![Cpp].pc = "poll"]
     \/ ~Full(Cpp) /\ out' = [out EXCEPT ![Cpp].pc = "poll"]   \* any other error
  /\ UNCHANGED <<log, running, counter, pricer, redis>>

\* poll(0), and poll(1) after a full queue: the reports that wait are served.
CppPoll ==
  /\ out[Cpp].pc = "poll"
  /\ out' = [out EXCEPT ![Cpp].pc = "run", ![Cpp].reports = {}]
  /\ UNCHANGED <<log, running, counter, pricer, redis>>

\* SIGINT or SIGTERM.
CppSignal ==
  /\ running /\ Alive(Cpp)
  /\ running' = FALSE
  /\ UNCHANGED <<log, out, counter, pricer, redis>>

CppFlush ==
  /\ out[Cpp].pc = "run" /\ ~running
  /\ out' = [out EXCEPT ![Cpp].pc = "flush"]
  /\ UNCHANGED <<log, running, counter, pricer, redis>>

FlushServes ==
  /\ out[Cpp].pc = "flush" /\ out[Cpp].reports # {}
  /\ out' = [out EXCEPT ![Cpp].reports = {}]
  /\ UNCHANGED <<log, running, counter, pricer, redis>>

\* flush() returns, with an empty queue or after five seconds, and nobody looks which.
CppDone ==
  /\ out[Cpp].pc = "flush"
  /\ Gone(Cpp, "done")
  /\ UNCHANGED <<log, running, counter, pricer, redis>>

-----------------------------------------------------------------------------
(* producer.py *)

\* produce() raises BufferError when the queue is full, which ends the program.
PyProduce(p) ==
  /\ out[p].pc = "run"
  /\ \/ \E s \in Symbols : Accept(p, s, "poll")
     \/ Full(p) /\ Gone(p, "dead")
  /\ UNCHANGED <<log, running, counter, pricer, redis>>

PyPoll(p) ==
  /\ out[p].pc = "poll"
  /\ out' = [out EXCEPT ![p].pc = "run", ![p].reports = {}]
  /\ UNCHANGED <<log, running, counter, pricer, redis>>

\* External: nothing ends the endless loop but the end of its process.
PyKilled(p) ==
  /\ Alive(p)
  /\ Gone(p, "dead")
  /\ UNCHANGED <<log, running, counter, pricer, redis>>

\* A producer on another machine, or a program that writes what does not parse.
OtherWriter ==
  /\ End < MaxLog /\ \A p \in Producers : out[p].pc = "off"
  /\ \E symbol \in AllSymbols \cup {NoSymbol} :
       log' = Append(log, [src |-> "other", number |-> End, symbol |-> symbol])
  /\ UNCHANGED <<out, running, counter, pricer, redis>>

Parses(m) == m.symbol # NoSymbol

-----------------------------------------------------------------------------
(* consumer.cpp: the group market-data-consumer *)

\* Mistake caught by LossBoundedByCrashes: a restart begins at the latest offset
\* although the group has one.
CounterStartAtEnd ==
  /\ counter.pc = "down" /\ counter.starts <= MaxRestarts
  /\ counter' = [counter EXCEPT
       !.pc = "consume", !.position = End, !.stored = NoOffset, !.starts = @ + 1,
       !.base = IF counter.committed = NoOffset THEN End ELSE @,
       !.crashes = IF counter.committed = NoOffset THEN 0 ELSE @]
  /\ UNCHANGED <<log, out, running, pricer, redis>>

\* Without a committed offset the group begins at the end of the log.
CounterStart ==
  LET first == IF counter.committed = NoOffset THEN End ELSE counter.committed
  IN
  /\ counter.pc = "down" /\ counter.starts <= MaxRestarts
  /\ counter' = [counter EXCEPT
       !.pc = "consume", !.position = first, !.stored = NoOffset, !.starts = @ + 1,
       !.base = IF counter.committed = NoOffset THEN first ELSE @,
       !.crashes = IF counter.committed = NoOffset THEN 0 ELSE @]
  /\ UNCHANGED <<log, out, running, pricer, redis>>

Consume ==
  /\ counter.pc = "consume" /\ counter.position < End
  /\ counter' = [counter EXCEPT !.pc = "handle", !.position = @ + 1,
                                !.stored = counter.position + 1]
  /\ UNCHANGED <<log, out, running, pricer, redis>>

\* What parses is counted, what does not is passed over: either way it was looked at.
CounterHandle ==
  /\ counter.pc = "handle"
  /\ counter' = [counter EXCEPT !.pc = "consume",
                                !.handled = @ \cup {counter.position - 1}]
  /\ UNCHANGED <<log, out, running, pricer, redis>>

Committed == IF counter.stored = NoOffset THEN counter.committed ELSE counter.stored

\* The library's timer, at any time while the process lives.
AutoCommit ==
  /\ counter.pc \in {"consume", "handle"}
  /\ counter' = [counter EXCEPT !.committed = Committed]
  /\ UNCHANGED <<log, out, running, pricer, redis>>

\* A signal ends the loop; close() commits.
CounterClose ==
  /\ counter.pc = "consume"
  /\ counter' = [counter EXCEPT !.pc = "down", !.committed = Committed]
  /\ UNCHANGED <<log, out, running, pricer, redis>>

CounterCrash ==
  /\ counter.pc \in {"consume", "handle"}
  /\ counter' = [counter EXCEPT !.pc = "down", !.crashes = @ + 1]
  /\ UNCHANGED <<log, out, running, pricer, redis>>

-----------------------------------------------------------------------------
(* consumer.py: a group of its own for every process *)

\* Mistake caught by RedisNeverGoesBack: auto.offset.reset is earliest.
PricerStartEarliest ==
  /\ pricer.pc = "down" /\ pricer.starts <= MaxRestarts
  /\ pricer' = [pc |-> "poll", position |-> 0, starts |-> pricer.starts + 1]
  /\ UNCHANGED <<log, out, running, counter, redis>>

\* No group of that name has committed anything: the end of the log.
PricerStart ==
  /\ pricer.pc = "down" /\ pricer.starts <= MaxRestarts
  /\ pricer' = [pc |-> "poll", position |-> End, starts |-> pricer.starts + 1]
  /\ UNCHANGED <<log, out, running, counter, redis>>

PricerPoll ==
  /\ pricer.pc = "poll" /\ pricer.position < End
  /\ pricer' = [pricer EXCEPT !.pc = "handle", !.position = @ + 1]
  /\ UNCHANGED <<log, out, running, counter, redis>>

\* ParseFromString() raises for what does not parse, and that ends the program.
PricerHandle ==
  LET o == pricer.position - 1
  IN
  /\ pricer.pc = "handle"
  /\ IF Parses(MessageAt(o))
       THEN /\ redis' = [redis EXCEPT ![MessageAt(o).symbol] = o]
            /\ pricer' = [pricer EXCEPT !.pc = "poll"]
       ELSE /\ pricer' = [pricer EXCEPT !.pc = "down"]
            /\ UNCHANGED redis
  /\ UNCHANGED <<log, out, running, counter>>

\* An interrupt, an error of Redis or a crash; the group is not used again.
PricerEnds ==
  /\ pricer.pc \in {"poll", "handle"}
  /\ pricer' = [pricer EXCEPT !.pc = "down"]
  /\ UNCHANGED <<log, out, running, counter, redis>>

-----------------------------------------------------------------------------
CppNext == CppProduce \/ CppPoll \/ CppSignal \/ CppFlush \/ FlushServes \/ CppDone

PyNext == \E p \in PyProducers : PyProduce(p) \/ PyPoll(p) \/ PyKilled(p)

CounterNext ==
  CounterStart \/ Consume \/ CounterHandle \/ AutoCommit \/ CounterClose \/ CounterCrash

PricerNext == PricerStart \/ PricerPoll \/ PricerHandle \/ PricerEnds

Settle(p) == Deliver(p) \/ DeliveryFails(p)

KafkaNext ==
  \/ CppNext \/ PyNext \/ CounterNext \/ PricerNext \/ OtherWriter
  \/ \E p \in Producers : Settle(p) \/ AnswerLost(p)

\* The loop of producer.cpp runs on, and the library settles every message in the end:
\* message.timeout.ms is finite.
KafkaSpec ==
  /\ KafkaInit /\ [][KafkaNext]_kafkaVars
  /\ WF_kafkaVars(CppProduce) /\ WF_kafkaVars(CppPoll) /\ WF_kafkaVars(CppFlush)
  /\ WF_kafkaVars(CppDone)
  /\ \A p \in Producers : WF_kafkaVars(Settle(p))

-----------------------------------------------------------------------------
(* Properties *)

Sent(p) ==
  {m \in Range(log) : m.src = p} \cup out[p].outbox \cup out[p].failed \cup out[p].lost

\* The trade ids of one producer are the numbers below sent, each on one trade: a
\* full queue, which sends the loop round again, and any other error neither skip an
\* id nor use it twice, and every id is in the topic, still queued, reported as
\* failed, or was in the queue when the client was destroyed.
SentIdsAccounted ==
  \A p \in Producers :
    /\ {m.number : m \in Sent(p)} = 0 .. out[p].sent - 1
    /\ Cardinality(Sent(p)) = out[p].sent

\* Once the group of consumer.cpp has a committed offset, a message below the
\* position of the running process, or below the committed offset, was looked at by
\* some process, except for at most one per crash and the one in hand: the offset
\* is stored before the message is handled, so a crash may skip that message and
\* no other.
LossBoundedByCrashes ==
  LET below == IF counter.pc = "down" THEN counter.committed ELSE counter.position
      missed == {o \in counter.base .. below - 1 : o \notin counter.handled}
  IN Cardinality(missed) <= counter.crashes + (IF counter.pc = "handle" THEN 1 ELSE 0)

\* A price in Redis is never replaced by one from further back in the topic, not
\* even by a consumer.py that was started again.
RedisNeverGoesBack == [][\A s \in AllSymbols : redis'[s] >= redis[s]]_redis

\* The queue of producer.cpp does not stay full: the reports that keep their place
\* in it are polled also while produce() refuses.
FullQueueDrains == []<>~Full(Cpp)
=============================================================================
