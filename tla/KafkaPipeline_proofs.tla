------------------------- MODULE KafkaPipeline_proofs -------------------------
(***************************************************************************)
(* Proofs about the Kafka path, for every set of producers and symbols,    *)
(* every size of the client's queue and every combination of programs.     *)
(*                                                                         *)
(* The producers: a trade only moves between the places Sent collects, and *)
(* a new one has the number after all before it.  The counter: the         *)
(* messages below the position are looked at or were skipped by a crash,   *)
(* and the committed offset is never past the position.  The pricer: what  *)
(* Redis holds lies behind the position, also that of the next process,    *)
(* which begins at the end of the topic.                                   *)
(***************************************************************************)
EXTENDS KafkaPipeline, SequenceTheorems, FiniteSetTheorems, TLAPS

-----------------------------------------------------------------------------
(* The producers and the topic *)

Message == [src : Producers \cup {"other"}, number : Nat, symbol : AllSymbols \cup {NoSymbol}]

ProducerState ==
  [pc : {"off", "run", "poll", "flush", "done", "dead"}, sent : Nat,
   outbox : SUBSET Message, reports : SUBSET Message,
   failed : SUBSET Message, lost : SUBSET Message]

\* Types of the topic and of the clients, each of which holds its own trades.
TopicInv ==
  /\ log \in Seq(Message)
  /\ out \in [Producers -> ProducerState]
  /\ \A p \in Producers : \A m \in out[p].outbox : m.src = p

\* What one more message adds to the topic.
LEMMA RangeAfterAppend ==
  ASSUME NEW S, NEW s \in Seq(S), NEW x \in S
  PROVE  Range(Append(s, x)) = Range(s) \cup {x}
<1>1. /\ Append(s, x) \in Seq(S) /\ Len(Append(s, x)) = Len(s) + 1 /\ Len(s) \in Nat
      /\ \A i \in 1 .. Len(s) : Append(s, x)[i] = s[i]
      /\ Append(s, x)[Len(s) + 1] = x
  BY AppendProperties, LenProperties
<1>2. DOMAIN s = 1 .. Len(s) /\ DOMAIN Append(s, x) = 1 .. Len(s) + 1
  BY <1>1, LenProperties
<1> QED BY <1>1, <1>2 DEF Range

\* Nothing is sent at the start, whatever programs run.
LEMMA TopicInit == KafkaInit => TopicInv
<1> SUFFICES ASSUME KafkaInit PROVE TopicInv
  OBVIOUS
<1>1. PICK on \in Together :
        /\ log = <<>>
        /\ out = [p \in Producers |->
                   [pc |-> IF (IF p = Cpp THEN "cpp" ELSE "py") \in on THEN "run" ELSE "off",
                    sent |-> 0, outbox |-> {}, reports |-> {}, failed |-> {}, lost |-> {}]]
  BY DEF KafkaInit
<1> QED BY <1>1 DEF TopicInv, ProducerState

\* What the steps of the producers and of their client libraries do.
Moves(p) ==
  \/ Deliver(p) \/ AnswerLost(p) \/ DeliveryFails(p)
  \/ Gone(p, "done") /\ UNCHANGED log
  \/ Gone(p, "dead") /\ UNCHANGED log
  \/ \E pc \in {"run", "poll", "flush"} : out' = [out EXCEPT ![p].pc = pc] /\ UNCHANGED log
  \/ out' = [out EXCEPT ![p].pc = "run", ![p].reports = {}] /\ UNCHANGED log
  \/ out' = [out EXCEPT ![p].reports = {}] /\ UNCHANGED log

Accepts(p) == \E s \in AllSymbols : Accept(p, s, "poll") /\ UNCHANGED log

\* Every step of the path accepts a trade, moves one, is a foreign writer's, or
\* concerns neither the topic nor the clients.
LEMMA StepForms ==
  ASSUME [KafkaNext]_kafkaVars
  PROVE  \/ \E p \in Producers : Accepts(p) \/ Moves(p)
         \/ OtherWriter
         \/ UNCHANGED <<log, out>>
<1> USE DEF Producers, AllSymbols
<1>1. CASE CppNext
  <2>1. CASE CppProduce
    BY <2>1 DEF CppProduce, Accepts, Moves
  <2>2. CASE CppPoll \/ CppFlush \/ FlushServes
    BY <2>2 DEF CppPoll, CppFlush, FlushServes, Moves
  <2>3. CASE CppDone \/ CppSignal
    BY <2>3 DEF CppDone, CppSignal, Moves
  <2> QED BY <1>1, <2>1, <2>2, <2>3 DEF CppNext
<1>2. ASSUME NEW p \in PyProducers, PyProduce(p) \/ PyPoll(p) \/ PyKilled(p)
      PROVE  Accepts(p) \/ Moves(p)
  BY <1>2 DEF PyProduce, PyPoll, PyKilled, Accepts, Moves
<1>3. CounterNext \/ PricerNext \/ UNCHANGED kafkaVars => UNCHANGED <<log, out>>
  BY DEF CounterNext, CounterStart, Consume, CounterHandle, AutoCommit, CounterClose, CounterCrash,
     PricerNext, PricerStart, PricerPoll, PricerHandle, PricerEnds, kafkaVars
<1>4. ASSUME NEW p \in Producers, Settle(p) \/ AnswerLost(p) PROVE Moves(p)
  BY <1>4 DEF Settle, Moves
<1> QED BY <1>1, <1>2, <1>3, <1>4 DEF KafkaNext, PyNext

\* The trades a producer sent, and their number, stay what they are.
KeepsSent == TopicInv' /\ \A q \in Producers : Sent(q)' = Sent(q) /\ out'[q].sent = out[q].sent

\* It is enough to look at the client that moves.
LEMMA OneClient ==
  ASSUME TopicInv, NEW p \in Producers, NEW r \in ProducerState, out' = [out EXCEPT ![p] = r],
         log' = log, r.sent = out[p].sent, r.outbox \subseteq out[p].outbox,
         r.outbox \cup r.failed \cup r.lost = out[p].outbox \cup out[p].failed \cup out[p].lost
  PROVE  KeepsSent
<1>1. out'[p] = r /\ \A q \in Producers : q # p => out'[q] = out[q]
  BY DEF TopicInv
<1>2. TopicInv'
  BY <1>1 DEF TopicInv
<1>3. ASSUME NEW q \in Producers PROVE Sent(q)' = Sent(q) /\ out'[q].sent = out[q].sent
  BY <1>1 DEF Sent
<1> QED BY <1>2, <1>3 DEF KeepsSent

\* A step that accepts nothing new changes no set of sent trades and no number.
LEMMA MovesKeepSent ==
  ASSUME TopicInv, NEW p \in Producers, Moves(p)
  PROVE  KeepsSent
<1>0. out[p] \in ProducerState /\ out \in [Producers -> ProducerState]
  BY DEF TopicInv
<1>1. CASE Deliver(p)
  <2>1. PICK m \in out[p].outbox : log' = Append(log, m) /\ Settled(p, m)
    BY <1>1 DEF Deliver
  <2>2. m \in Message /\ m.src = p
    BY <1>0 DEF TopicInv, ProducerState
  <2>3. Range(log') = Range(log) \cup {m}
    BY <2>1, <2>2, RangeAfterAppend DEF TopicInv
  <2>4. /\ out'[p] \in ProducerState /\ out'[p].sent = out[p].sent
        /\ out'[p].outbox = out[p].outbox \ {m}
        /\ out'[p].failed = out[p].failed /\ out'[p].lost = out[p].lost
        /\ \A q \in Producers : q # p => out'[q] = out[q]
        /\ out' \in [Producers -> ProducerState]
    <3> DEFINE s == out[p]
               r == [s EXCEPT !.outbox = @ \ {m}, !.reports = @ \cup {m}]
    <3>1. out' = [out EXCEPT ![p] = r]
      BY <2>1, Zenon DEF Settled
    <3>2. /\ r \in ProducerState /\ r.sent = s.sent
          /\ r.outbox = s.outbox \ {m} /\ r.failed = s.failed /\ r.lost = s.lost
      <4>1. s \in ProducerState
        BY <1>0
      <4> HIDE DEF s
      <4> QED BY <2>2, <4>1 DEF ProducerState
    <3> HIDE DEF r
    <3>3. /\ out'[p] = r /\ \A q \in Producers : q # p => out'[q] = out[q]
          /\ out' \in [Producers -> ProducerState]
      BY <1>0, <3>1, <3>2
    <3> QED BY <3>2, <3>3
  <2>5. TopicInv'
    BY <2>1, <2>2, <2>4 DEF TopicInv
  <2>6. ASSUME NEW q \in Producers PROVE Sent(q)' = Sent(q) /\ out'[q].sent = out[q].sent
    BY <2>2, <2>3, <2>4 DEF Sent
  <2> QED BY <2>5, <2>6 DEF KeepsSent
<1>2. CASE AnswerLost(p)
  <2>1. PICK m \in out[p].outbox : log' = Append(log, m)
    BY <1>2 DEF AnswerLost
  <2>2. m \in Message /\ m.src = p /\ out' = out
    BY <1>0, <1>2 DEF TopicInv, ProducerState, AnswerLost
  <2>3. Range(log') = Range(log) \cup {m}
    BY <2>1, <2>2, RangeAfterAppend DEF TopicInv
  <2>4. TopicInv'
    BY <2>1, <2>2 DEF TopicInv
  <2> QED BY <2>2, <2>3, <2>4 DEF Sent, KeepsSent
<1>3. CASE DeliveryFails(p)
  <2>1. PICK m \in out[p].outbox :
          out' = [out EXCEPT ![p].outbox = @ \ {m}, ![p].reports = @ \cup {m},
                             ![p].failed = @ \cup {m}]
    BY <1>3 DEF DeliveryFails
  <2> DEFINE r == [out[p] EXCEPT !.outbox = @ \ {m}, !.reports = @ \cup {m}, !.failed = @ \cup {m}]
  <2>2. r \in ProducerState /\ out' = [out EXCEPT ![p] = r] /\ log' = log
    BY <1>0, <1>3, <2>1 DEF ProducerState, DeliveryFails
  <2> QED BY <1>0, <2>2, OneClient DEF ProducerState
<1>4. ASSUME NEW pc \in {"done", "dead"}, Gone(p, pc), log' = log PROVE KeepsSent
  <2> DEFINE r == [out[p] EXCEPT !.pc = pc, !.outbox = {}, !.reports = {}, !.lost = @ \cup out[p].outbox]
  <2>1. r \in ProducerState /\ out' = [out EXCEPT ![p] = r]
    BY <1>0, <1>4 DEF ProducerState, Gone
  <2> QED BY <1>0, <1>4, <2>1, OneClient DEF ProducerState
<1>5. ASSUME NEW pc \in {"run", "poll", "flush"}, out' = [out EXCEPT ![p].pc = pc], log' = log
      PROVE  KeepsSent
  <2> DEFINE r == [out[p] EXCEPT !.pc = pc]
  <2>1. r \in ProducerState /\ out' = [out EXCEPT ![p] = r]
    BY <1>0, <1>5 DEF ProducerState
  <2> QED BY <1>0, <1>5, <2>1, OneClient DEF ProducerState
<1>6. ASSUME out' = [out EXCEPT ![p].pc = "run", ![p].reports = {}], log' = log PROVE KeepsSent
  <2> DEFINE r == [out[p] EXCEPT !.pc = "run", !.reports = {}]
  <2>1. r \in ProducerState /\ out' = [out EXCEPT ![p] = r]
    BY <1>0, <1>6 DEF ProducerState
  <2> QED BY <1>0, <1>6, <2>1, OneClient DEF ProducerState
<1>7. ASSUME out' = [out EXCEPT ![p].reports = {}], log' = log PROVE KeepsSent
  <2> DEFINE r == [out[p] EXCEPT !.reports = {}]
  <2>1. r \in ProducerState /\ out' = [out EXCEPT ![p] = r]
    BY <1>0, <1>7 DEF ProducerState
  <2> QED BY <1>0, <1>7, <2>1, OneClient DEF ProducerState
<1> QED BY <1>1, <1>2, <1>3, <1>4, <1>5, <1>6, <1>7 DEF Moves

\* produce() gives the trade the next number and takes nothing away
\* (producer.cpp:88-101, producer.py:25-42).
LEMMA AcceptsSent ==
  ASSUME TopicInv, NEW p \in Producers, Accepts(p)
  PROVE  /\ TopicInv'
         /\ \E t \in Message : t.number = out[p].sent /\ Sent(p)' = Sent(p) \cup {t}
         /\ out'[p].sent = out[p].sent + 1
         /\ \A q \in Producers : q # p => Sent(q)' = Sent(q) /\ out'[q].sent = out[q].sent
<1>0. out[p] \in ProducerState /\ out \in [Producers -> ProducerState]
  BY DEF TopicInv
<1>1. PICK s \in AllSymbols : Accept(p, s, "poll") /\ log' = log
  BY DEF Accepts
<1> DEFINE t == Trade(p, s)
           r == [out[p] EXCEPT !.pc = "poll", !.sent = @ + 1, !.outbox = @ \cup {t}]
<1>2. t \in Message /\ t.number = out[p].sent /\ t.src = p
  BY <1>0 DEF Trade, Message, ProducerState
<1> HIDE DEF t
<1>3. r \in ProducerState /\ out' = [out EXCEPT ![p] = r]
  BY <1>0, <1>1, <1>2 DEF ProducerState, Accept, t
<1>4. /\ r.sent = out[p].sent + 1 /\ r.outbox = out[p].outbox \cup {t}
      /\ r.failed = out[p].failed /\ r.lost = out[p].lost
  BY <1>0 DEF ProducerState
<1> HIDE DEF r
<1>5. out'[p] = r /\ \A q \in Producers : q # p => out'[q] = out[q]
  BY <1>0, <1>3
<1>6. TopicInv'
  BY <1>1, <1>2, <1>3, <1>4, <1>5 DEF TopicInv
<1>7. Sent(p)' = Sent(p) \cup {t}
  BY <1>1, <1>4, <1>5 DEF Sent
<1>8. \A q \in Producers : q # p => Sent(q)' = Sent(q) /\ out'[q].sent = out[q].sent
  BY <1>1, <1>5 DEF Sent
<1> QED BY <1>2, <1>4, <1>5, <1>6, <1>7, <1>8

\* What others write is no producer's trade.
LEMMA OtherKeepsSent ==
  ASSUME TopicInv, OtherWriter
  PROVE  KeepsSent
<1>1. PICK symbol \in AllSymbols \cup {NoSymbol} :
        log' = Append(log, [src |-> "other", number |-> End, symbol |-> symbol])
  BY DEF OtherWriter
<1> DEFINE m == [src |-> "other", number |-> End, symbol |-> symbol]
<1>2. m \in Message /\ \A p \in Producers : m.src # p
  BY PipelineAssumption, LenProperties DEF Message, End, TopicInv, Producers
<1>3. Range(log') = Range(log) \cup {m}
  BY <1>1, <1>2, RangeAfterAppend DEF TopicInv
<1> HIDE DEF m
<1>4. TopicInv' /\ out' = out
  BY <1>1, <1>2 DEF TopicInv, OtherWriter, m
<1> QED BY <1>2, <1>3, <1>4 DEF Sent, KeepsSent

SentInv ==
  /\ TopicInv
  /\ \A p \in Producers : IsFiniteSet(Sent(p))
  /\ SentIdsAccounted

\* A client that has sent nothing accounts for no trade.
LEMMA SentInit == KafkaInit => SentInv
<1> SUFFICES ASSUME KafkaInit PROVE SentInv
  OBVIOUS
<1>1. TopicInv
  BY TopicInit
<1>2. ASSUME NEW p \in Producers PROVE Sent(p) = {} /\ out[p].sent = 0
  BY <1>2 DEF KafkaInit, Sent, Range
<1>3. SentIdsAccounted
  BY <1>2, FS_EmptySet DEF SentIdsAccounted
<1> QED BY <1>1, <1>2, <1>3, FS_EmptySet DEF SentInv

\* The invariant of the producers is inductive.
LEMMA SentStep == SentInv /\ [KafkaNext]_kafkaVars => SentInv'
<1> SUFFICES ASSUME SentInv, [KafkaNext]_kafkaVars PROVE SentInv'
  OBVIOUS
<1>0. TopicInv
  BY DEF SentInv
<1>1. ASSUME KeepsSent PROVE SentInv'
  BY <1>1 DEF KeepsSent, SentInv, SentIdsAccounted
<1>2. ASSUME NEW p \in Producers, Accepts(p) PROVE SentInv'
  <2>1. /\ TopicInv' /\ out'[p].sent = out[p].sent + 1
        /\ \A q \in Producers : q # p => Sent(q)' = Sent(q) /\ out'[q].sent = out[q].sent
    BY <1>0, <1>2, AcceptsSent
  <2>2. PICK t \in Message : t.number = out[p].sent /\ Sent(p)' = Sent(p) \cup {t}
    BY <1>0, <1>2, AcceptsSent
  <2>3. out[p].sent \in Nat
    BY <1>0 DEF TopicInv, ProducerState
  <2>4. /\ {m.number : m \in Sent(p)} = 0 .. out[p].sent - 1
        /\ Cardinality(Sent(p)) = out[p].sent /\ IsFiniteSet(Sent(p))
    BY DEF SentInv, SentIdsAccounted
  <2>5. t \notin Sent(p)
    <3>1. out[p].sent \notin {m.number : m \in Sent(p)}
      BY <2>3, <2>4
    <3> QED BY <2>2, <3>1
  <2>6. IsFiniteSet(Sent(p)') /\ Cardinality(Sent(p)') = out'[p].sent
    <3>1. IsFiniteSet(Sent(p) \cup {t}) /\ Cardinality(Sent(p) \cup {t}) = Cardinality(Sent(p)) + 1
      BY <2>4, <2>5, FS_AddElement
    <3> QED BY <2>1, <2>2, <2>4, <3>1, Zenon
  <2>7. {m.number : m \in Sent(p)'} = 0 .. out'[p].sent - 1
    <3>1. {m.number : m \in Sent(p)'} = {m.number : m \in Sent(p)} \cup {out[p].sent}
      BY <2>2
    <3>2. 0 .. out'[p].sent - 1 = (0 .. out[p].sent - 1) \cup {out[p].sent}
      BY <2>1, <2>3
    <3> QED BY <2>4, <3>1, <3>2, Zenon
  <2> QED BY <2>1, <2>6, <2>7 DEF SentInv, SentIdsAccounted
<1>3. ASSUME NEW p \in Producers, Moves(p) PROVE SentInv'
  BY <1>0, <1>1, <1>3, MovesKeepSent
<1>4. CASE OtherWriter
  BY <1>0, <1>1, <1>4, OtherKeepsSent
<1>5. CASE UNCHANGED <<log, out>>
  BY <1>0, <1>1, <1>5 DEF KeepsSent, TopicInv, Sent
<1> QED BY <1>2, <1>3, <1>4, <1>5, StepForms

\* The invariant of the producers holds in every reachable state.
THEOREM SentInvariance == KafkaSpec => []SentInv
  BY SentInit, SentStep, PTL DEF KafkaSpec

\* No trade id is skipped or used twice, and no trade that was accepted drops
\* out of the account, whatever the client library retries, repeats or gives up
\* (producer.cpp:71-112, producer.py:25-46).
THEOREM SentAccounted == KafkaSpec => []SentIdsAccounted
<1>1. SentInv => SentIdsAccounted
  BY DEF SentInv
<1> QED BY <1>1, SentInvariance, PTL

-----------------------------------------------------------------------------
(* consumer.cpp *)

CounterState ==
  [pc : {"off", "down", "consume", "handle"}, position : Nat,
   stored : Nat \cup {NoOffset}, committed : Nat \cup {NoOffset}, base : Nat,
   crashes : Nat, starts : Nat, handled : SUBSET Nat]

\* The messages from the first offset of the group up to n that nobody looked at.
Missed(base, handled, n) == {o \in base .. n - 1 : o \notin handled}

\* The end of what the counter has dealt with: without the message in hand, and
\* between two processes what the next one will not see again.
LookedAt ==
  IF counter.pc = "down" THEN counter.committed
  ELSE IF counter.pc = "handle" THEN counter.position - 1
  ELSE counter.position

CounterInv ==
  /\ log \in Seq(Message)
  /\ counter \in CounterState
  /\ counter.pc = "handle" => counter.position >= 1
  /\ counter.pc # "down" => /\ counter.committed <= counter.position
                            /\ counter.stored <= counter.position
  /\ Cardinality(Missed(counter.base, counter.handled, LookedAt)) <= counter.crashes

\* Fewer messages can be missed below a lower offset, and one message more is
\* missed at most one offset further.
LEMMA MissedBounds ==
  ASSUME NEW base \in Nat, NEW handled, NEW n \in Int,
         NEW lower \in Int, lower <= n
  PROVE  /\ IsFiniteSet(Missed(base, handled, n))
         /\ Cardinality(Missed(base, handled, n)) \in Nat
         /\ Cardinality(Missed(base, handled, lower)) \in Nat
         /\ Cardinality(Missed(base, handled, lower)) <= Cardinality(Missed(base, handled, n))
         /\ Cardinality(Missed(base, handled, n + 1)) \in Nat
         /\ Cardinality(Missed(base, handled, n + 1)) <= Cardinality(Missed(base, handled, n)) + 1
<1> DEFINE Miss(k) == Missed(base, handled, k)
<1>1. ASSUME NEW k \in Int PROVE IsFiniteSet(Miss(k)) /\ Cardinality(Miss(k)) \in Nat
  <2>1. IsFiniteSet(base .. k - 1)
    BY FS_Interval
  <2> QED BY <2>1, FS_Subset, FS_CardinalityType DEF Missed
<1>2. Miss(lower) \subseteq Miss(n)
  BY DEF Missed
<1>3. Miss(n + 1) \subseteq Miss(n) \cup {n}
  BY DEF Missed
<1> HIDE DEF Miss
<1>4. Cardinality(Miss(lower)) <= Cardinality(Miss(n))
  BY <1>1, <1>2, FS_Subset
<1>5. /\ IsFiniteSet(Miss(n) \cup {n})
      /\ Cardinality(Miss(n) \cup {n}) <= Cardinality(Miss(n)) + 1
  <2>1. IsFiniteSet(Miss(n)) /\ Cardinality(Miss(n)) \in Nat
    BY <1>1
  <2> DEFINE M == Miss(n)
  <2> HIDE DEF M
  <2>2. /\ IsFiniteSet(M \cup {n})
        /\ Cardinality(M \cup {n}) = IF n \in M THEN Cardinality(M) ELSE Cardinality(M) + 1
    BY <2>1, FS_AddElement DEF M
  <2> QED BY <2>1, <2>2 DEF M
<1>6. Cardinality(Miss(n + 1)) <= Cardinality(Miss(n) \cup {n})
  BY <1>3, <1>5, FS_Subset
<1>7. Cardinality(Miss(n) \cup {n}) \in Nat /\ n + 1 \in Int
  BY <1>5, FS_CardinalityType
<1> QED BY <1>1, <1>4, <1>5, <1>6, <1>7 DEF Miss

\* Before a process has started there is nothing to miss.
LEMMA CounterInit == KafkaInit => CounterInv
<1> SUFFICES ASSUME KafkaInit PROVE CounterInv
  OBVIOUS
<1>1. PICK pc \in {"off", "down"} :
        counter = [pc |-> pc, position |-> 0, stored |-> NoOffset, committed |-> NoOffset,
                   base |-> 0, crashes |-> 0, starts |-> 0, handled |-> {}]
  BY DEF KafkaInit
<1>2. counter \in CounterState /\ log \in Seq(Message)
  BY <1>1 DEF KafkaInit, CounterState
<1>3. Missed(counter.base, counter.handled, LookedAt) = {}
  BY <1>1 DEF Missed, LookedAt, NoOffset
<1>4. counter.pc # "handle" /\ counter.committed <= counter.position /\ counter.stored <= counter.position
  BY <1>1 DEF NoOffset
<1>5. Cardinality(Missed(counter.base, counter.handled, LookedAt)) = 0 /\ counter.crashes = 0
  BY <1>1, <1>3, FS_EmptySet
<1> QED BY <1>2, <1>4, <1>5 DEF CounterInv

\* The log only grows.
LEMMA LogStep ==
  ASSUME TopicInv, [KafkaNext]_kafkaVars
  PROVE  /\ End \in Nat /\ End' \in Nat /\ End <= End'
         /\ log' \in Seq(Message)
         /\ \A i \in 1 .. End : log'[i] = log[i]
<1>1. log \in Seq(Message) /\ out \in [Producers -> ProducerState]
  BY DEF TopicInv
<1>2. log' = log \/ \E m \in Message : log' = Append(log, m)
  <2>1. ASSUME NEW p \in Producers, Moves(p) PROVE log' = log \/ \E m \in Message : log' = Append(log, m)
    BY <1>1, <2>1 DEF Moves, Deliver, AnswerLost, DeliveryFails, ProducerState
  <2>2. CASE OtherWriter
    BY <1>1, <2>2, LenProperties DEF OtherWriter, Message, End
  <2> QED BY <2>1, <2>2, StepForms DEF Accepts
<1> QED BY <1>1, <1>2, AppendProperties, LenProperties DEF End

\* Each step of consumer.cpp keeps the account of what was looked at
\* (consumer.cpp:42-66).
LEMMA CounterStep ==
  ASSUME TopicInv, CounterInv, [KafkaNext]_kafkaVars
  PROVE  CounterInv'
<1> DEFINE m(n) == Cardinality(Missed(counter.base, counter.handled, n))
<1>0. /\ counter \in CounterState /\ log' \in Seq(Message) /\ End \in Nat
      /\ counter.position \in Nat /\ counter.base \in Nat /\ counter.crashes \in Nat
      /\ counter.stored \in Int /\ counter.committed \in Int /\ counter.committed >= NoOffset
      /\ counter.pc = "handle" => counter.position >= 1
      /\ counter.pc # "down" => /\ counter.committed <= counter.position
                                /\ counter.stored <= counter.position
  BY LogStep DEF CounterInv, CounterState, NoOffset
<1>1. /\ \A n \in Int : m(n) \in Nat /\ m(n + 1) <= m(n) + 1
      /\ \A n, k \in Int : k <= n => m(k) <= m(n)
  BY <1>0, MissedBounds
<1>2. m(LookedAt) <= counter.crashes
  BY DEF CounterInv
<1> HIDE DEF m
<1>3. CASE CounterStart
  <2> DEFINE first == IF counter.committed = NoOffset THEN End ELSE counter.committed
  <2>1. /\ counter'.pc = "consume" /\ counter'.position = first /\ counter'.stored = NoOffset
        /\ counter'.committed = counter.committed /\ counter'.handled = counter.handled
        /\ counter'.base = IF counter.committed = NoOffset THEN first ELSE counter.base
        /\ counter'.crashes = IF counter.committed = NoOffset THEN 0 ELSE counter.crashes
    BY <1>0, <1>3 DEF CounterStart, CounterState
  <2>9. counter' \in CounterState
    <3>1. first \in Nat /\ 0 \in Nat /\ counter.starts + 1 \in Nat /\ NoOffset \in Nat \cup {NoOffset}
      BY <1>0 DEF CounterState, NoOffset
    <3> QED BY <1>0, <1>3, <3>1, Zenon DEF CounterStart, CounterState
  <2>2. counter'.committed <= counter'.position /\ counter'.stored <= counter'.position
    <3>1. first \in Int /\ NoOffset <= first /\ counter.committed <= first
      BY <1>0 DEF NoOffset
    <3> QED BY <2>1, <3>1
  <2>3. CASE counter.committed = NoOffset
    <3>1. Missed(counter'.base, counter'.handled, counter'.position) = {}
      BY <1>0, <2>1, <2>3 DEF Missed
    <3>2. LookedAt' = counter'.position /\ counter'.crashes = 0
      BY <2>1, <2>3 DEF LookedAt
    <3>3. Cardinality(Missed(counter'.base, counter'.handled, LookedAt')) = 0
      BY <3>1, <3>2, FS_EmptySet
    <3> QED BY <1>0, <2>1, <2>2, <2>9, <3>2, <3>3 DEF CounterInv
  <2>4. CASE counter.committed # NoOffset
    BY <1>0, <1>2, <1>3, <2>1, <2>2, <2>9, <2>4 DEF LookedAt, CounterStart, m, CounterInv
  <2> QED BY <2>3, <2>4
<1>4. CASE Consume
  <2>1. /\ counter.pc = "consume"
        /\ counter'.pc = "handle" /\ counter'.position = counter.position + 1
        /\ counter'.stored = counter.position + 1 /\ counter'.committed = counter.committed
        /\ counter'.handled = counter.handled /\ counter'.base = counter.base
        /\ counter'.crashes = counter.crashes
    BY <1>0, <1>4 DEF Consume, CounterState
  <2>9. counter' \in CounterState
    <3>1. counter.position + 1 \in Nat
      BY <1>0 DEF CounterState, NoOffset
    <3> QED BY <1>0, <1>4, <3>1, Zenon DEF Consume, CounterState
  <2>2. LookedAt = counter.position /\ LookedAt' = counter.position
    BY <1>0, <2>1 DEF LookedAt
  <2> QED BY <1>0, <1>2, <2>1, <2>9, <2>2 DEF m, CounterInv
<1>5. CASE CounterHandle
  <2>1. /\ counter.pc = "handle" /\ counter.position >= 1
        /\ counter'.pc = "consume" /\ counter'.position = counter.position
        /\ counter'.stored = counter.stored /\ counter'.committed = counter.committed
        /\ counter'.handled = counter.handled \cup {counter.position - 1}
        /\ counter'.base = counter.base /\ counter'.crashes = counter.crashes
    BY <1>0, <1>5 DEF CounterHandle, CounterState
  <2>9. counter' \in CounterState
    <3>1. counter.pc = "handle" => counter.handled \cup {counter.position - 1} \in SUBSET Nat
      BY <1>0 DEF CounterState, NoOffset
    <3> QED BY <1>0, <1>5, <3>1, Zenon DEF CounterHandle, CounterState
  <2>2. LookedAt = counter.position - 1 /\ LookedAt' = counter.position
    BY <2>1 DEF LookedAt
  <2>3. Missed(counter'.base, counter'.handled, counter.position)
          \subseteq Missed(counter.base, counter.handled, counter.position - 1)
    BY <1>0, <2>1 DEF Missed
  <2>4. IsFiniteSet(Missed(counter.base, counter.handled, counter.position - 1))
    BY <1>0, MissedBounds
  <2>5. /\ Cardinality(Missed(counter'.base, counter'.handled, counter.position)) \in Nat
        /\ Cardinality(Missed(counter'.base, counter'.handled, counter.position)) <= m(counter.position - 1)
    BY <2>3, <2>4, FS_Subset, FS_CardinalityType DEF m
  <2>6. m(counter.position - 1) \in Nat
    <3>1. counter.position - 1 \in Int
      BY <1>0
    <3> QED BY <1>1, <3>1
  <2>7. Cardinality(Missed(counter'.base, counter'.handled, LookedAt')) <= counter'.crashes
    BY <1>0, <1>2, <2>1, <2>2, <2>5, <2>6
  <2> QED BY <1>0, <2>1, <2>9, <2>7 DEF CounterInv
<1>6. CASE AutoCommit
  <2>1. /\ counter.pc # "down"
        /\ counter'.pc = counter.pc /\ counter'.position = counter.position
        /\ counter'.stored = counter.stored /\ counter'.committed = Committed
        /\ counter'.handled = counter.handled /\ counter'.base = counter.base
        /\ counter'.crashes = counter.crashes
    BY <1>0, <1>6 DEF AutoCommit, CounterState, Committed
  <2>9. counter' \in CounterState
    <3>1. Committed \in Nat \cup {NoOffset}
      BY <1>0 DEF CounterState, NoOffset, Committed
    <3> QED BY <1>0, <1>6, <3>1, Zenon DEF AutoCommit, CounterState
  <2>2. LookedAt' = LookedAt
    BY <2>1 DEF LookedAt
  <2> QED BY <1>0, <1>2, <2>1, <2>9, <2>2 DEF m, Committed, CounterInv
<1>7. CASE CounterClose
  <2>1. /\ counter.pc = "consume" /\ counter'.pc = "down"
        /\ counter'.committed = Committed /\ counter'.crashes = counter.crashes
        /\ counter'.handled = counter.handled /\ counter'.base = counter.base
    BY <1>0, <1>7 DEF CounterClose, CounterState, Committed
  <2>9. counter' \in CounterState
    <3>1. Committed \in Nat \cup {NoOffset}
      BY <1>0 DEF CounterState, NoOffset, Committed
    <3> QED BY <1>0, <1>7, <3>1, Zenon DEF CounterClose, CounterState
  <2>2. LookedAt = counter.position /\ LookedAt' = Committed
        /\ Committed \in Int /\ Committed <= counter.position
    BY <1>0, <2>1 DEF LookedAt, Committed
  <2>3. m(Committed) \in Nat /\ m(counter.position) \in Nat /\ m(Committed) <= m(counter.position)
    <3>1. counter.position \in Int /\ Committed \in Int
      BY <1>0, <2>2
    <3> QED BY <1>1, <2>2, <3>1
  <2>4. m(Committed) <= counter'.crashes
    BY <1>0, <1>2, <2>1, <2>2, <2>3
  <2> QED BY <1>0, <2>1, <2>9, <2>2, <2>4 DEF m, CounterInv
<1>8. CASE CounterCrash
  <2>1. /\ counter.pc \in {"consume", "handle"} /\ counter'.pc = "down"
        /\ counter'.committed = counter.committed /\ counter'.crashes = counter.crashes + 1
        /\ counter'.handled = counter.handled /\ counter'.base = counter.base
    BY <1>0, <1>8 DEF CounterCrash, CounterState
  <2>9. counter' \in CounterState
    <3>1. counter.crashes + 1 \in Nat
      BY <1>0 DEF CounterState, NoOffset
    <3> QED BY <1>0, <1>8, <3>1, Zenon DEF CounterCrash, CounterState
  <2>2. LookedAt' = counter.committed /\ LookedAt \in Int
        /\ counter.committed <= LookedAt + 1
    BY <1>0, <2>1 DEF LookedAt
  <2>3. /\ m(counter.committed) \in Nat /\ m(LookedAt + 1) \in Nat /\ m(LookedAt) \in Nat
        /\ m(counter.committed) <= m(LookedAt + 1) /\ m(LookedAt + 1) <= m(LookedAt) + 1
    <3>1. counter.committed \in Int /\ LookedAt + 1 \in Int /\ LookedAt \in Int
      BY <1>0, <2>2
    <3> QED BY <1>1, <2>2, <3>1
  <2>4. m(counter.committed) <= counter'.crashes
    BY <1>0, <1>2, <2>1, <2>3
  <2> QED BY <1>0, <2>1, <2>9, <2>2, <2>4 DEF m, CounterInv
<1>9. CASE UNCHANGED counter
  BY <1>0, <1>9 DEF LookedAt, CounterInv
<1>10. CounterNext \/ UNCHANGED counter
  BY DEF KafkaNext, CppNext, CppProduce, CppPoll, CppSignal, CppFlush, FlushServes, CppDone,
     PyNext, PyProduce, PyPoll, PyKilled, PricerNext, PricerStart, PricerPoll, PricerHandle, PricerEnds,
     OtherWriter, Settle, Deliver, DeliveryFails, AnswerLost, kafkaVars
<1> QED BY <1>3, <1>4, <1>5, <1>6, <1>7, <1>8, <1>9, <1>10 DEF CounterNext

\* The counter's part holds in every reachable state.
THEOREM CounterInvariance == KafkaSpec => []CounterInv
<1>1. TopicInv /\ CounterInv /\ [KafkaNext]_kafkaVars => CounterInv'
  BY CounterStep
<1>2. SentInv => TopicInv
  BY DEF SentInv
<1> QED BY <1>1, <1>2, CounterInit, SentInvariance, PTL DEF KafkaSpec

\* Storing the offset before the message is handled costs at most one message
\* per crash, however auto-commit, close() and the crashes fall
\* (consumer.cpp:29, :42-66).
THEOREM BoundedLoss == KafkaSpec => []LossBoundedByCrashes
<1>1. CounterInv => LossBoundedByCrashes
  <2> SUFFICES ASSUME CounterInv PROVE LossBoundedByCrashes
    OBVIOUS
  <2>1. /\ counter.base \in Nat /\ counter.position \in Nat /\ counter.crashes \in Nat
        /\ counter.committed \in Int
        /\ Cardinality(Missed(counter.base, counter.handled, LookedAt)) <= counter.crashes
    BY DEF CounterInv, CounterState, NoOffset
  <2>2. CASE counter.pc = "handle"
    <3>1. LookedAt = counter.position - 1 /\ LookedAt \in Int /\ LookedAt + 1 = counter.position
      BY <2>1, <2>2 DEF LookedAt
    <3>2. /\ Cardinality(Missed(counter.base, counter.handled, LookedAt)) \in Nat
          /\ Cardinality(Missed(counter.base, counter.handled, LookedAt + 1)) \in Nat
          /\ Cardinality(Missed(counter.base, counter.handled, LookedAt + 1))
               <= Cardinality(Missed(counter.base, counter.handled, LookedAt)) + 1
      BY <2>1, <3>1, MissedBounds
    <3>3. Cardinality(Missed(counter.base, counter.handled, counter.position)) <= counter.crashes + 1
      BY <2>1, <3>1, <3>2
    <3> QED BY <2>2, <3>3 DEF LossBoundedByCrashes, Missed
  <2>3. CASE counter.pc # "handle"
    <3>1. Cardinality(Missed(counter.base, counter.handled, LookedAt)) <= counter.crashes + 0
      BY <2>1
    <3> QED BY <2>3, <3>1 DEF LossBoundedByCrashes, Missed, LookedAt
  <2> QED BY <2>2, <2>3
<1> QED BY <1>1, CounterInvariance, PTL

-----------------------------------------------------------------------------
(* consumer.py *)

\* What Redis holds came from before the message in hand, or from before the
\* position, or, between two processes, from before the end of the topic.
PricerInv ==
  /\ log \in Seq(Message)
  /\ pricer \in [pc : {"off", "down", "poll", "handle"}, position : Nat, starts : Nat]
  /\ redis \in [AllSymbols -> Nat \cup {NoOffset}]
  /\ pricer.position <= End
  /\ pricer.pc = "handle" => pricer.position >= 1
  /\ \A s \in AllSymbols :
       redis[s] < (IF pricer.pc = "down" THEN End
                   ELSE IF pricer.pc = "handle" THEN pricer.position - 1
                   ELSE pricer.position)

\* Redis is empty at the start.
LEMMA PricerInit == KafkaInit => PricerInv
<1> SUFFICES ASSUME KafkaInit PROVE PricerInv
  OBVIOUS
<1>1. PICK pc \in {"off", "down"} : pricer = [pc |-> pc, position |-> 0, starts |-> 0]
  BY DEF KafkaInit
<1>2. log = <<>> /\ redis = [s \in AllSymbols |-> NoOffset]
  BY DEF KafkaInit
<1> QED BY <1>1, <1>2 DEF PricerInv, End, NoOffset

\* The steps of consumer.py keep the order, and none of them takes a price back
\* (consumer.py:19-28, :40-81).
LEMMA PricerStep ==
  ASSUME TopicInv, PricerInv, [KafkaNext]_kafkaVars
  PROVE  PricerInv' /\ \A s \in AllSymbols : redis'[s] >= redis[s]
<1>1. /\ End \in Nat /\ End' \in Nat /\ End <= End' /\ log' \in Seq(Message)
  BY LogStep
<1> USE DEF PricerInv, NoOffset
<1>2. CASE PricerStart
  BY <1>1, <1>2 DEF PricerStart, End
<1>3. CASE PricerPoll
  <2>1. /\ pricer.pc = "poll" /\ pricer'.pc = "handle" /\ pricer'.position = pricer.position + 1
        /\ pricer' \in [pc : {"off", "down", "poll", "handle"}, position : Nat, starts : Nat]
        /\ pricer.position \in Nat /\ pricer.position < End
        /\ redis' = redis /\ End' = End
    <3>1. pricer.position + 1 \in Nat
      OBVIOUS
    <3>2. pricer' \in [pc : {"off", "down", "poll", "handle"}, position : Nat, starts : Nat]
      BY <1>3, <3>1, Zenon DEF PricerPoll
    <3> QED BY <1>3, <3>2 DEF PricerPoll, End
  <2> QED BY <1>1, <2>1
<1>4. CASE PricerHandle
  <2> DEFINE o == pricer.position - 1
  <2>1. o \in Nat /\ o + 1 \in 1 .. End /\ log[o + 1] \in Message
    BY <1>1, <1>4, ElementOfSeq DEF PricerHandle, End
  <2>2. CASE Parses(MessageAt(o))
    <3>1. MessageAt(o).symbol \in AllSymbols
      BY <2>1, <2>2 DEF Parses, MessageAt, Message
    <3>2. redis' = [redis EXCEPT ![MessageAt(o).symbol] = o] /\ pricer' = [pricer EXCEPT !.pc = "poll"]
          /\ log' = log
      BY <1>4, <2>2 DEF PricerHandle
    <3> QED BY <1>1, <1>4, <2>1, <3>1, <3>2 DEF PricerHandle, End
  <2>3. CASE ~Parses(MessageAt(o))
    <3>1. /\ pricer.pc = "handle" /\ pricer'.pc = "down" /\ pricer'.position = pricer.position
          /\ pricer' \in [pc : {"off", "down", "poll", "handle"}, position : Nat, starts : Nat]
          /\ redis' = redis /\ End' = End /\ pricer.position \in Nat
      BY <1>4, <2>3 DEF PricerHandle, End
    <3> QED BY <1>1, <3>1
  <2> QED BY <2>2, <2>3
<1>5. CASE PricerEnds
  BY <1>1, <1>5 DEF PricerEnds, End
<1>6. CASE UNCHANGED <<pricer, redis>>
  BY <1>1, <1>6
<1>7. PricerNext \/ UNCHANGED <<pricer, redis>>
  BY DEF KafkaNext, CppNext, CppProduce, CppPoll, CppSignal, CppFlush, FlushServes, CppDone,
     PyNext, PyProduce, PyPoll, PyKilled, CounterNext, CounterStart, Consume, CounterHandle,
     AutoCommit, CounterClose, CounterCrash,
     OtherWriter, Settle, Deliver, DeliveryFails, AnswerLost, kafkaVars
<1> QED BY <1>2, <1>3, <1>4, <1>5, <1>6, <1>7 DEF PricerNext

\* A price in Redis is never replaced by one from further back, not even by a
\* consumer.py that was started again (consumer.py:19-28, :56-81).
THEOREM RedisMonotonic == KafkaSpec => RedisNeverGoesBack
<1>1. TopicInv /\ PricerInv /\ [KafkaNext]_kafkaVars => PricerInv'
  BY PricerStep
<1>2. SentInv => TopicInv
  BY DEF SentInv
<1>3. TopicInv /\ PricerInv /\ [KafkaNext]_kafkaVars
        => [\A s \in AllSymbols : redis'[s] >= redis[s]]_redis
  BY PricerStep
<1> QED BY <1>1, <1>2, <1>3, PricerInit, SentInvariance, PTL DEF KafkaSpec, RedisNeverGoesBack
==============================================================================
