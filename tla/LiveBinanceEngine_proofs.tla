----------------------- MODULE LiveBinanceEngine_proofs -----------------------
(***************************************************************************)
(* Proofs about the queue and about the threads of live_binance_engine,    *)
(* for every set of items, every capacity of the ring, every number of     *)
(* messages and every limit on the retries.                                *)
(*                                                                         *)
(* The queue: the k-th value stored to an index is (k - 1) % Capacity, so  *)
(* the k-th push and the k-th pop use the slot of logical item k - 1. A    *)
(* stale load can only make the producer think the ring is fuller, and the *)
(* consumer think it is emptier, than it is. So the items between pops and *)
(* pushes are less than a turn of the ring, their slots differ             *)
(* (ModDistinct), and no write hits a slot that still holds an item.       *)
(*                                                                         *)
(* The threads, in three layers. First, the threads only use the queue as  *)
(* SPSCQueue says (one producer, one consumer), so its invariant IInv      *)
(* holds here too, together with the types. Second, the message in hand is *)
(* newer than every other one, so each message ends in one place only and  *)
(* the counters count what they are named for. Third, the joins: what the  *)
(* main thread waited for has stopped for good.                            *)
(***************************************************************************)
EXTENDS LiveBinanceEngine, SequenceTheorems, FiniteSetTheorems, TLAPS

-----------------------------------------------------------------------------
(* Indices of a ring *)

\* Division with remainder, which the other lemmas about indices rest on.
LEMMA Division ==
  ASSUME NEW c \in Nat \ {0}, NEW n \in Nat
  PROVE  /\ n % c \in 0 .. c-1
         /\ n \div c \in Nat
         /\ n = c * (n \div c) + (n % c)
  OBVIOUS

\* A remainder below the divisor is unique: two index computations over the
\* same ring that start from equal numbers end in the same slot.
LEMMA EqualRemainders ==
  ASSUME NEW c \in Nat \ {0}, NEW a \in Int, NEW b \in Int,
         NEW r \in 0 .. c-1, NEW s \in 0 .. c-1,
         c * a + r = c * b + s
  PROVE  r = s
<1>1. c * (a - b) = s - r
  OBVIOUS
<1>2. a - b < 1
  <2>1. SUFFICES ASSUME a - b >= 1 PROVE FALSE OBVIOUS
  <2>2. c * (a-b) >= c 
     BY <2>1
  <2> QED BY <1>1, <2>2
<1>3. a - b > -1
  <2>1. SUFFICES ASSUME b - a >= 1 PROVE FALSE OBVIOUS
  <2>2. c * (b-a) >= c 
     BY <2>1
  <2>3. c * (b-a) = r - s
    BY <1>1
  <2> QED BY <2>3, <2>2
<1> QED BY <1>1, <1>2, <1>3

\* The remainder of a number given as quotient and rest is the rest.
LEMMA Remainder ==
  ASSUME NEW c \in Nat \ {0}, NEW q \in Nat, NEW r \in 0 .. c-1
  PROVE (c * q + r) % c = r
<1> DEFINE n == c * q + r
           d == n \div c
           s == n % c
<1>1. n \in Nat
  OBVIOUS
<1>2. s \in 0 .. c-1 /\ d \in Nat /\ n = c * d + s
  BY <1>1, Division
<1> HIDE DEF d, s
<1>3. c * d + s = c * q + r
  BY <1>2
<1>4. d \in Int /\ q \in Int
  BY <1>2
<1>5. s = r
  BY <1>2, <1>3, <1>4, EqualRemainders
<1> QED BY <1>5 DEF s

\* Stepping a masked index is masking the stepped counter, so NextIndex
\* follows the logical item number (engine_shared.hpp:45, :64).
LEMMA ModStep ==
  ASSUME NEW c \in Nat \ {0}, NEW n \in Nat
  PROVE  ((n % c) + 1) % c = (n + 1) % c
<1> DEFINE r == n % c
           q == n \div c
<1>1. r \in 0..c-1 /\ q \in Nat /\ n = c * q + r
  BY Division
<1> HIDE DEF r, q
<1>2. CASE r + 1 < c
  <2>1. (c * q + (r + 1)) % c = r + 1
    BY <1>1, <1>2, Remainder
  <2>2. (c * 0 + (r+1)) % c = r + 1
    BY <1>1, <1>2, Remainder
  <2> QED BY <2>1, <2>2, <1>1 DEF r
<1>3. CASE r + 1 = c
  <2>1. (c * (q+1) + 0) % c = 0
    BY <1>1, Remainder
  <2>2. (c * 1 + 0) % c = 0
    BY Remainder
  <2>3. c * (q+1) + 0 = n + 1 /\ c * 1 + 0 = r + 1
    BY <1>1, <1>3
  <2> QED BY <2>1, <2>2, <2>3 DEF r
<1> QED BY <1>1, <1>2, <1>3

\* A whole turn of the ring comes back to the same slot.
LEMMA ModPeriod ==
  ASSUME NEW c \in Nat \ {0}, NEW n \in Nat
  PROVE  (n + c) % c = n % c
<1> DEFINE r == n % c
           q == n \div c
<1>1. r \in 0..c-1 /\ q \in Nat /\ n = c * q + r
  BY Division
<1> HIDE DEF r, q
<1>2. c * (q + 1) + r = n + c
  BY <1>1
<1>3. (c * (q+1) + r) % c = r
  BY <1>1, Remainder
<1> QED BY <1>2, <1>3 DEF r

\* Two items less than a turn apart live in different slots.
LEMMA ModDistinct ==
  ASSUME NEW c \in Nat \ {0}, NEW m \in Nat, NEW n \in Nat,
         m < n, n - m < c
  PROVE  m % c # n % c
<1> DEFINE a == m \div c
           b == n \div c
           r == m % c
           s == n % c
<1>1. a \in Nat /\ b \in Nat /\ m = c * a + r /\ n = c * b + s /\ r \in 0..c-1 /\ s \in 0..c-1
  BY Division
<1> HIDE DEF a, b, r, s
<1>2. SUFFICES ASSUME r = s PROVE FALSE
  BY DEF r, s
<1>3. n - m = c * (b - a)
  BY <1>1, <1>2
<1>4. CASE b <= a
  <2>1. c * (b-a) <= 0
    BY <1>1, <1>4
  <2> QED BY <2>1, <1>3
<1>5. CASE b >= a + 1
  <2>1. c * (b-a) >= c
    BY <1>1, <1>5
  <2> QED BY <2>1, <1>3
<1> QED BY <1>1, <1>4, <1>5

-----------------------------------------------------------------------------
(* The inductive invariant *)

\* Position k of a modification order holds the index of logical item k - 1.
StoresInOrder ==
  /\ \A k \in 1 .. Len(tailMO) : tailMO[k] = (k - 1) % Capacity
  /\ \A k \in 1 .. Len(headMO) : headMO[k] = (k - 1) % Capacity

\* The histories grow with the stores.
HistoriesCount == Len(sent) = Pushes /\ Len(received) = Pops

\* What the producer knows about the free slots, stale as it may be.
ProducerInv ==
  /\ Pushes + 1 < headSeen + Capacity
  /\ ppc # "idle" => /\ pt = Pushes % Capacity
                     /\ pItem \in Items
                     /\ Pushes + 2 < headSeen + Capacity
  /\ ppc = "publish" => buffer[pt] = pItem

\* What the consumer knows about the filled slots.
ConsumerInv ==
  /\ Pops + 1 <= tailSeen
  /\ cpc # "idle" => ch = Pops % Capacity /\ Pops + 2 <= tailSeen
  /\ cpc = "release" => cItem = sent[Pops + 1]

\* The items that were pushed and not yet popped are in their slots, and the
\* items that were popped are the first ones pushed.
Contents ==
  /\ \A i \in Pops + 1 .. Pushes : buffer[(i - 1) % Capacity] = sent[i]
  /\ \A i \in 1 .. Pops : received[i] = sent[i]

IInv == /\ QueueTypeOK
        /\ StoresInOrder
        /\ HistoriesCount
        /\ ProducerInv
        /\ ConsumerInv
        /\ Contents

-----------------------------------------------------------------------------
(* Consequences of the invariant that the steps share *)

\* The last value a thread stored to its own index is the slot of the logical
\* item it works on next.
LEMMA OwnIndex ==
  ASSUME IInv
  PROVE  /\ Pushes \in Nat /\ Pops \in Nat
         /\ Len(tailMO) = Pushes + 1 /\ Len(headMO) = Pops + 1
         /\ Last(tailMO) = Pushes % Capacity
         /\ Last(headMO) = Pops % Capacity
<1>1. Len(tailMO) \in Nat /\ Len(headMO) \in Nat
  BY DEF IInv, QueueTypeOK
<1>2. Len(tailMO) >= 1 /\ Len(headMO) >= 1
  BY <1>1 DEF IInv, QueueTypeOK
<1>3. tailMO[Len(tailMO)] = (Len(tailMO) - 1) % Capacity
  BY <1>1, <1>2 DEF IInv, StoresInOrder
<1>4. headMO[Len(headMO)] = (Len(headMO) - 1) % Capacity
  BY <1>1, <1>2 DEF IInv, StoresInOrder
<1> QED BY <1>1, <1>2, <1>3, <1>4 DEF Pushes, Pops, Last

\* What the threads know bounds what is true: pops never overtake pushes, and
\* the items in between are fewer than the slots.
LEMMA Window ==
  ASSUME IInv
  PROVE  /\ Pops <= Pushes
         /\ Pushes - Pops < Capacity
         /\ ppc # "idle" => Pushes + 1 - Pops < Capacity
         /\ cpc # "idle" => Pops < Pushes
<1>1. headSeen \in 1 .. Pops + 1 /\ tailSeen \in 1 .. Pushes + 1
  BY OwnIndex DEF IInv, QueueTypeOK
<1>2. Pushes \in Nat /\ Pops \in Nat
  BY OwnIndex
<1> QED
  BY <1>1, <1>2, CapacityAssumption DEF IInv, ProducerInv, ConsumerInv

\* The empty ring satisfies the invariant (engine_shared.hpp:36-41).
LEMMA InitInv == QueueInit => IInv
<1> SUFFICES ASSUME QueueInit PROVE IInv
  OBVIOUS
<1> USE CapacityAssumption DEF QueueInit
<1>1. 0 % Capacity = 0
  <2>1. (Capacity * 0 + 0) % Capacity = 0
    BY Remainder
  <2> QED BY <2>1
<1>2. Len(tailMO) = 1 /\ Len(headMO) = 1 /\ tailMO[1] = 0 /\ headMO[1] = 0
  OBVIOUS
<1>3. QueueTypeOK
  BY <1>2 DEF QueueTypeOK, Slots
<1>4. StoresInOrder
  BY <1>1, <1>2 DEF StoresInOrder
<1>5. HistoriesCount /\ ProducerInv /\ ConsumerInv /\ Contents
  BY <1>2 DEF HistoriesCount, ProducerInv, ConsumerInv, Contents, Pushes, Pops
<1> QED BY <1>3, <1>4, <1>5 DEF IInv

-----------------------------------------------------------------------------
(* One lemma per step of push() and pop() *)

\* Loading tail_ and a possibly stale head_ keeps the invariant: a value of
\* head_ for which the ring does not look full leaves room for one more item.
LEMMA PushLoadInv ==
  ASSUME IInv, NEW x \in Items, PushLoad(x)
  PROVE  IInv'
<1> USE CapacityAssumption
<1>1. PICK k \in headSeen .. Len(headMO) :
        /\ headSeen' = k
        /\ IF RingFull(Last(tailMO), headMO[k])
             THEN UNCHANGED <<ppc, pt, pItem>>
             ELSE /\ ppc' = "write"
                  /\ pt' = Last(tailMO)
                  /\ pItem' = x
  BY DEF PushLoad
<1>2. /\ UNCHANGED <<buffer, tailMO, sent, headMO, tailSeen, cpc, ch, cItem, received>>
      /\ ppc = "idle"
  BY DEF PushLoad, consumerVars
<1>3. Pushes' = Pushes /\ Pops' = Pops
  BY <1>2 DEF Pushes, Pops
<1>4. /\ Pushes \in Nat /\ Pops \in Nat /\ Len(headMO) = Pops + 1
      /\ Last(tailMO) = Pushes % Capacity
  BY OwnIndex
<1>5. headSeen \in 1 .. Len(headMO) /\ k \in 1 .. Len(headMO)
  BY <1>4 DEF IInv, QueueTypeOK
<1>6. Last(tailMO) \in Slots
  BY <1>4, Division DEF Slots
<1>7. QueueTypeOK'
  BY <1>1, <1>2, <1>5, <1>6 DEF IInv, QueueTypeOK
<1>8. StoresInOrder' /\ HistoriesCount' /\ ConsumerInv' /\ Contents'
  BY <1>2, <1>3 DEF IInv, StoresInOrder, HistoriesCount, ConsumerInv, Contents
<1>9. ProducerInv'
  <2>1. Pushes + 1 < k + Capacity
    BY <1>1, <1>4, <1>5 DEF IInv, ProducerInv
  <2>2. CASE RingFull(Last(tailMO), headMO[k])
    BY <1>1, <1>2, <1>3, <2>1, <2>2 DEF ProducerInv
  <2>3. CASE ~RingFull(Last(tailMO), headMO[k])
    <3>1. headMO[k] = (k - 1) % Capacity
      BY <1>5 DEF IInv, StoresInOrder
    <3>2. NextIndex(Last(tailMO)) = (Pushes + 1) % Capacity
      BY <1>4, ModStep DEF NextIndex
    <3>3. (Pushes + 1) % Capacity # (k - 1) % Capacity
      BY <2>3, <3>1, <3>2 DEF RingFull
    <3>4. Pushes + 1 # (k - 1) + Capacity
      <4>1. k - 1 \in Nat
        BY <1>5, <1>4
      <4>2. ((k - 1) + Capacity) % Capacity = (k - 1) % Capacity
        BY <4>1, ModPeriod
      <4> QED BY <3>3, <4>2
    <3>5. Pushes + 2 < k + Capacity
      BY <2>1, <3>4, <1>4, <1>5
    <3> QED BY <1>1, <1>3, <1>4, <2>1, <2>3, <3>5 DEF ProducerInv
  <2> QED BY <2>2, <2>3
<1> QED BY <1>7, <1>8, <1>9 DEF IInv

\* Writing the slot keeps the invariant: it is no slot of a waiting item.
LEMMA PushWriteInv ==
  ASSUME IInv, PushWrite
  PROVE  IInv'
<1> USE CapacityAssumption
<1>1. /\ ppc = "write" /\ ppc' = "publish"
      /\ buffer' = [buffer EXCEPT ![pt] = pItem]
      /\ UNCHANGED <<tailMO, headSeen, pt, pItem, sent,
                     headMO, tailSeen, cpc, ch, cItem, received>>
  BY DEF PushWrite, consumerVars
<1>2. Pushes' = Pushes /\ Pops' = Pops /\ Pushes \in Nat /\ Pops \in Nat
  BY <1>1, OwnIndex DEF Pushes, Pops
<1>3. QueueTypeOK'
  BY <1>1 DEF IInv, QueueTypeOK
<1>4. buffer'[pt] = pItem
  BY <1>1 DEF IInv, QueueTypeOK
<1>5. StoresInOrder' /\ HistoriesCount' /\ ConsumerInv' /\ ProducerInv'
  BY <1>1, <1>2, <1>4
     DEF IInv, StoresInOrder, HistoriesCount, ConsumerInv, ProducerInv
<1>6. ASSUME NEW i \in Pops + 1 .. Pushes
      PROVE  buffer'[(i - 1) % Capacity] = sent[i]
  <2>1. i - 1 \in Nat /\ i - 1 < Pushes /\ Pushes - (i - 1) < Capacity
    BY <1>1, <1>2, Window
  <2>2. pt = Pushes % Capacity
    BY <1>1 DEF IInv, ProducerInv
  <2>3. (i - 1) % Capacity # pt
    BY <2>1, <2>2, <1>2, ModDistinct
  <2>4. (i - 1) % Capacity \in Slots
    BY <2>1, Division DEF Slots
  <2>5. buffer[(i - 1) % Capacity] = sent[i]
    BY DEF IInv, Contents
  <2> QED BY <1>1, <2>3, <2>4, <2>5 DEF IInv, QueueTypeOK
<1>7. Contents'
  BY <1>1, <1>2, <1>6 DEF IInv, Contents
<1> QED BY <1>3, <1>5, <1>7 DEF IInv

\* The release store of tail_ adds the written item to the waiting ones.
LEMMA PushPublishInv ==
  ASSUME IInv, PushPublish
  PROVE  IInv'
<1> USE CapacityAssumption
<1>1. /\ ppc = "publish" /\ ppc' = "idle"
      /\ tailMO' = Append(tailMO, NextIndex(pt))
      /\ sent' = Append(sent, pItem)
      /\ UNCHANGED <<buffer, headSeen, pt, pItem,
                     headMO, tailSeen, cpc, ch, cItem, received>>
  BY DEF PushPublish, consumerVars
<1>2. /\ Pushes \in Nat /\ Pops \in Nat
      /\ Len(tailMO) = Pushes + 1 /\ Len(sent) = Pushes
  BY OwnIndex DEF IInv, HistoriesCount
<1>3. pt = Pushes % Capacity /\ pItem \in Items /\ buffer[pt] = pItem
      /\ Pushes + 2 < headSeen + Capacity
  BY <1>1 DEF IInv, ProducerInv
<1>4. NextIndex(pt) = (Pushes + 1) % Capacity
  BY <1>2, <1>3, ModStep DEF NextIndex
<1>5. NextIndex(pt) \in Slots
  <2>1. Pushes + 1 \in Nat
    BY <1>2
  <2> QED BY <1>4, <2>1, Division DEF Slots
<1>6. /\ tailMO' \in Seq(Slots)
      /\ Len(tailMO') = Pushes + 2
      /\ \A k \in 1 .. Pushes + 1 : tailMO'[k] = tailMO[k]
      /\ tailMO'[Pushes + 2] = (Pushes + 1) % Capacity
  <2>1. tailMO \in Seq(Slots)
    BY DEF IInv, QueueTypeOK
  <2> QED BY <1>1, <1>2, <1>4, <1>5, <2>1, AppendProperties
<1>7. /\ sent' \in Seq(Items)
      /\ Len(sent') = Pushes + 1
      /\ \A i \in 1 .. Pushes : sent'[i] = sent[i]
      /\ sent'[Pushes + 1] = pItem
  <2>1. sent \in Seq(Items)
    BY DEF IInv, QueueTypeOK
  <2> QED BY <1>1, <1>2, <1>3, <2>1, AppendProperties
<1>8. Pushes' = Pushes + 1 /\ Pops' = Pops
  BY <1>1, <1>2, <1>6 DEF Pushes, Pops
<1>9. QueueTypeOK'
  <2>1. tailSeen' \in 1 .. Len(tailMO')
    BY <1>1, <1>2, <1>6 DEF IInv, QueueTypeOK
  <2> QED BY <1>1, <1>6, <1>7, <2>1 DEF IInv, QueueTypeOK
<1>10. StoresInOrder'
  <2>1. ASSUME NEW k \in 1 .. Len(tailMO') PROVE tailMO'[k] = (k - 1) % Capacity
    <3>1. CASE k \in 1 .. Pushes + 1
      BY <1>2, <1>6, <3>1 DEF IInv, StoresInOrder
    <3>2. CASE k = Pushes + 2
      BY <1>2, <1>6, <3>2
    <3> QED BY <1>2, <1>6, <3>1, <3>2
  <2> QED BY <1>1, <2>1 DEF IInv, StoresInOrder
<1>11. HistoriesCount'
  BY <1>1, <1>7, <1>8 DEF IInv, HistoriesCount
<1>12. ProducerInv'
  BY <1>1, <1>2, <1>3, <1>8 DEF IInv, QueueTypeOK, ProducerInv
<1>13. ConsumerInv'
  <2>1. CASE cpc = "release"
    <3>1. Pops + 1 \in 1 .. Pushes
      BY <1>2, <2>1, Window
    <3> QED BY <1>1, <1>7, <1>8, <2>1, <3>1 DEF IInv, ConsumerInv
  <2>2. CASE cpc # "release"
    BY <1>1, <1>8, <2>2 DEF IInv, ConsumerInv
  <2> QED BY <2>1, <2>2
<1>14. Contents'
  <2>1. ASSUME NEW i \in Pops + 1 .. Pushes + 1
        PROVE  buffer[(i - 1) % Capacity] = sent'[i]
    <3>1. CASE i \in Pops + 1 .. Pushes
      BY <1>2, <1>7, <3>1 DEF IInv, Contents
    <3>2. CASE i = Pushes + 1
      BY <1>2, <1>3, <1>7, <3>2
    <3> QED BY <1>2, <3>1, <3>2
  <2>2. ASSUME NEW i \in 1 .. Pops PROVE received[i] = sent'[i]
    BY <1>2, <1>7, Window DEF IInv, Contents
  <2> QED BY <1>1, <1>8, <2>1, <2>2 DEF Contents
<1> QED BY <1>9, <1>10, <1>11, <1>12, <1>13, <1>14 DEF IInv

\* Loading head_ and a possibly stale tail_ keeps the invariant: a tail_ that
\* differs from head_ proves that an item waits.
LEMMA PopLoadInv ==
  ASSUME IInv, PopLoad
  PROVE  IInv'
<1> USE CapacityAssumption
<1>1. PICK k \in tailSeen .. Len(tailMO) :
        /\ tailSeen' = k
        /\ IF RingEmpty(Last(headMO), tailMO[k])
             THEN UNCHANGED <<cpc, ch>>
             ELSE cpc' = "read" /\ ch' = Last(headMO)
  BY DEF PopLoad
<1>2. /\ UNCHANGED <<buffer, headMO, cItem, received,
                     tailMO, headSeen, ppc, pt, pItem, sent>>
      /\ cpc = "idle"
  BY DEF PopLoad, producerVars
<1>3. Pushes' = Pushes /\ Pops' = Pops
  BY <1>2 DEF Pushes, Pops
<1>4. /\ Pushes \in Nat /\ Pops \in Nat /\ Len(tailMO) = Pushes + 1
      /\ Last(headMO) = Pops % Capacity
  BY OwnIndex
<1>5. tailSeen \in 1 .. Len(tailMO) /\ k \in 1 .. Len(tailMO)
  BY <1>4 DEF IInv, QueueTypeOK
<1>6. Last(headMO) \in Slots
  BY <1>4, Division DEF Slots
<1>7. QueueTypeOK'
  BY <1>1, <1>2, <1>5, <1>6 DEF IInv, QueueTypeOK
<1>8. StoresInOrder' /\ HistoriesCount' /\ ProducerInv' /\ Contents'
  BY <1>2, <1>3 DEF IInv, StoresInOrder, HistoriesCount, ProducerInv, Contents
<1>9. ConsumerInv'
  <2>1. Pops + 1 <= k
    BY <1>1, <1>4, <1>5 DEF IInv, ConsumerInv
  <2>2. CASE RingEmpty(Last(headMO), tailMO[k])
    BY <1>1, <1>2, <1>3, <2>1, <2>2 DEF ConsumerInv
  <2>3. CASE ~RingEmpty(Last(headMO), tailMO[k])
    <3>1. tailMO[k] = (k - 1) % Capacity
      BY <1>5 DEF IInv, StoresInOrder
    <3>2. k - 1 # Pops
      BY <1>4, <2>3, <3>1 DEF RingEmpty
    <3> QED BY <1>1, <1>3, <1>4, <1>5, <2>1, <2>3, <3>2 DEF ConsumerInv
  <2> QED BY <2>2, <2>3
<1> QED BY <1>7, <1>8, <1>9 DEF IInv

\* Reading the slot takes the oldest waiting item.
LEMMA PopReadInv ==
  ASSUME IInv, PopRead
  PROVE  IInv'
<1>1. /\ cpc = "read" /\ cpc' = "release" /\ cItem' = buffer[ch]
      /\ UNCHANGED <<buffer, headMO, tailSeen, ch, received,
                     tailMO, headSeen, ppc, pt, pItem, sent>>
  BY DEF PopRead, producerVars
<1>2. Pushes' = Pushes /\ Pops' = Pops /\ Pushes \in Nat /\ Pops \in Nat
  BY <1>1, OwnIndex DEF Pushes, Pops
<1>3. buffer[ch] = sent[Pops + 1]
  <2>1. Pops + 1 \in Pops + 1 .. Pushes
    BY <1>1, <1>2, Window
  <2>2. ch = Pops % Capacity
    BY <1>1 DEF IInv, ConsumerInv
  <2>3. (Pops + 1) - 1 = Pops
    BY <1>2
  <2> QED BY <2>1, <2>2, <2>3 DEF IInv, Contents
<1>4. QueueTypeOK'
  BY <1>1 DEF IInv, QueueTypeOK
<1>5. StoresInOrder' /\ HistoriesCount' /\ ProducerInv' /\ Contents'
  BY <1>1, <1>2 DEF IInv, StoresInOrder, HistoriesCount, ProducerInv, Contents
<1>6. ConsumerInv'
  BY <1>1, <1>2, <1>3 DEF IInv, ConsumerInv
<1> QED BY <1>4, <1>5, <1>6 DEF IInv

\* The release store of head_ removes the item that was read.
LEMMA PopReleaseInv ==
  ASSUME IInv, PopRelease
  PROVE  IInv'
<1> USE CapacityAssumption
<1>1. /\ cpc = "release" /\ cpc' = "idle"
      /\ headMO' = Append(headMO, NextIndex(ch))
      /\ received' = Append(received, cItem)
      /\ UNCHANGED <<buffer, tailSeen, ch, cItem,
                     tailMO, headSeen, ppc, pt, pItem, sent>>
  BY DEF PopRelease, producerVars
<1>2. /\ Pushes \in Nat /\ Pops \in Nat
      /\ Len(headMO) = Pops + 1 /\ Len(received) = Pops
  BY OwnIndex DEF IInv, HistoriesCount
<1>3. ch = Pops % Capacity /\ cItem = sent[Pops + 1] /\ Pops + 2 <= tailSeen
  BY <1>1 DEF IInv, ConsumerInv
<1>4. NextIndex(ch) = (Pops + 1) % Capacity
  BY <1>2, <1>3, ModStep DEF NextIndex
<1>5. NextIndex(ch) \in Slots
  <2>1. Pops + 1 \in Nat
    BY <1>2
  <2> QED BY <1>4, <2>1, Division DEF Slots
<1>6. /\ headMO' \in Seq(Slots)
      /\ Len(headMO') = Pops + 2
      /\ \A k \in 1 .. Pops + 1 : headMO'[k] = headMO[k]
      /\ headMO'[Pops + 2] = (Pops + 1) % Capacity
  <2>1. headMO \in Seq(Slots)
    BY DEF IInv, QueueTypeOK
  <2> QED BY <1>1, <1>2, <1>4, <1>5, <2>1, AppendProperties
<1>7. /\ received' \in Seq(Items \cup {NoItem})
      /\ Len(received') = Pops + 1
      /\ \A i \in 1 .. Pops : received'[i] = received[i]
      /\ received'[Pops + 1] = cItem
  <2>1. received \in Seq(Items \cup {NoItem}) /\ cItem \in Items \cup {NoItem}
    BY DEF IInv, QueueTypeOK
  <2> QED BY <1>1, <1>2, <2>1, AppendProperties
<1>8. Pops' = Pops + 1 /\ Pushes' = Pushes
  BY <1>1, <1>2, <1>6 DEF Pushes, Pops
<1>9. QueueTypeOK'
  <2>1. headSeen' \in 1 .. Len(headMO')
    BY <1>1, <1>2, <1>6 DEF IInv, QueueTypeOK
  <2> QED BY <1>1, <1>6, <1>7, <2>1 DEF IInv, QueueTypeOK
<1>10. StoresInOrder'
  <2>1. ASSUME NEW k \in 1 .. Len(headMO') PROVE headMO'[k] = (k - 1) % Capacity
    <3>1. CASE k \in 1 .. Pops + 1
      BY <1>2, <1>6, <3>1 DEF IInv, StoresInOrder
    <3>2. CASE k = Pops + 2
      BY <1>2, <1>6, <3>2
    <3> QED BY <1>2, <1>6, <3>1, <3>2
  <2> QED BY <1>1, <2>1 DEF IInv, StoresInOrder
<1>11. HistoriesCount'
  BY <1>1, <1>7, <1>8 DEF IInv, HistoriesCount
<1>12. ProducerInv'
  BY <1>1, <1>8 DEF IInv, ProducerInv
<1>13. ConsumerInv'
  BY <1>1, <1>2, <1>3, <1>8 DEF IInv, QueueTypeOK, ConsumerInv
<1>14. Contents'
  <2>1. ASSUME NEW i \in Pops + 2 .. Pushes
        PROVE  buffer[(i - 1) % Capacity] = sent[i]
    BY <1>2 DEF IInv, Contents
  <2>2. ASSUME NEW i \in 1 .. Pops + 1 PROVE received'[i] = sent[i]
    BY <1>2, <1>3, <1>7 DEF IInv, Contents
  <2> QED BY <1>1, <1>2, <1>8, <2>1, <2>2 DEF Contents
<1> QED BY <1>9, <1>10, <1>11, <1>12, <1>13, <1>14 DEF IInv

\* Every step of push() and pop() keeps the invariant.
LEMMA StepInv == IInv /\ [QueueNext]_queueVars => IInv'
<1> SUFFICES ASSUME IInv, [QueueNext]_queueVars PROVE IInv'
  OBVIOUS
<1>1. ASSUME NEW x \in Items, PushLoad(x) PROVE IInv'
  BY <1>1, PushLoadInv
<1>2. CASE PushWrite
  BY <1>2, PushWriteInv
<1>3. CASE PushPublish
  BY <1>3, PushPublishInv
<1>4. CASE PopLoad
  BY <1>4, PopLoadInv
<1>5. CASE PopRead
  BY <1>5, PopReadInv
<1>6. CASE PopRelease
  BY <1>6, PopReleaseInv
<1>7. CASE UNCHANGED queueVars
  BY <1>7 DEF queueVars, producerVars, consumerVars, IInv, QueueTypeOK,
     StoresInOrder, HistoriesCount, ProducerInv, ConsumerInv, Contents,
     Pushes, Pops
<1> QED
  BY <1>1, <1>2, <1>3, <1>4, <1>5, <1>6, <1>7 DEF QueueNext, Push, Pop

\* IInv holds in every reachable state of the queue.
THEOREM Invariance == QueueSafety => []IInv
  BY InitInv, StepInv, PTL DEF QueueSafety

-----------------------------------------------------------------------------
(* What the queue promises *)

\* Type correctness of push() and pop() (engine_shared.hpp:43-66).
THEOREM TypeCorrect == QueueSafety => []QueueTypeOK
<1>1. IInv => QueueTypeOK
  BY DEF IInv
<1> QED BY <1>1, Invariance, PTL

\* The plain accesses to buffer_ never meet (engine_shared.hpp:51, :63): the
\* slot being written and the slot being read belong to different items of
\* the same turn of the ring.
THEOREM RaceFreedom == QueueSafety => []NoSlotRace
<1>1. IInv => NoSlotRace
  <2> SUFFICES ASSUME IInv, ppc = "write", cpc = "read" PROVE pt # ch
    BY DEF NoSlotRace
  <2>1. pt = Pushes % Capacity /\ ch = Pops % Capacity
    BY DEF IInv, ProducerInv, ConsumerInv
  <2>2. Pushes \in Nat /\ Pops \in Nat
    BY OwnIndex
  <2>3. Pops < Pushes /\ Pushes - Pops < Capacity
    BY Window
  <2> QED BY <2>1, <2>2, <2>3, ModDistinct, CapacityAssumption
<1> QED BY <1>1, Invariance, PTL

\* Every access to a slot happens after the access it must not overlap with,
\* by the acquire loads at engine_shared.hpp:47 and :59.
THEOREM Synchronised == QueueSafety => []AccessesSynchronised
<1>1. IInv => AccessesSynchronised
  <2> SUFFICES ASSUME IInv PROVE AccessesSynchronised
    OBVIOUS
  <2>1. Pushes \in Nat /\ headSeen \in Nat
    BY OwnIndex DEF IInv, QueueTypeOK
  <2> QED
    BY <2>1, CapacityAssumption
       DEF IInv, ProducerInv, ConsumerInv, AccessesSynchronised
<1> QED BY <1>1, Invariance, PTL

\* The ring never holds more than Capacity - 1 items.
THEOREM Bounded == QueueSafety => []OneSlotFree
<1>1. IInv => OneSlotFree
  BY Window DEF OneSlotFree
<1> QED BY <1>1, Invariance, PTL

\* In a state of the invariant what came out is the beginning of what went in.
LEMMA InvDelivers ==
  ASSUME IInv
  PROVE  FifoDelivery
<1> SUFFICES IsPrefix(received, sent)
  BY DEF FifoDelivery
<1>1. /\ received \in Seq(Items \cup {NoItem}) /\ sent \in Seq(Items)
      /\ Len(received) = Pops /\ Len(sent) = Pushes
  BY DEF IInv, QueueTypeOK, HistoriesCount
<1>2. Pops \in Nat /\ Pushes \in Nat /\ Pops <= Pushes
  BY OwnIndex, Window
<1>3. \A i \in 1 .. Pops : received[i] = sent[i]
  BY DEF IInv, Contents
<1>4. SubSeq(received, 1, Pops) = SubSeq(sent, 1, Pops)
  <2>1. SubSeq(received, 1, Pops) = [i \in 1 .. Pops |-> received[i]]
    BY <1>1, <1>2
  <2>2. SubSeq(sent, 1, Pops) = [i \in 1 .. Pops |-> sent[i]]
    BY <1>1, <1>2
  <2> QED BY <1>3, <2>1, <2>2
<1> QED BY <1>1, <1>2, <1>4 DEF IsPrefix

\* Items come out in the order they went in, each once.
THEOREM FifoOrder == QueueSafety => []FifoDelivery
  BY InvDelivers, Invariance, PTL


-----------------------------------------------------------------------------
(* The ring implements the abstract queue *)

\* The items that wait, as the refinement mapping of Fifo has them.
waiting == SubSeq(sent, Len(received) + 1, Len(sent))

\* The waiting items are those of sent from Pops + 1 on.
LEMMA WaitingItems ==
  ASSUME IInv
  PROVE  /\ waiting \in Seq(Items)
         /\ Len(waiting) = Pushes - Pops
         /\ \A i \in 1 .. Pushes - Pops : waiting[i] = sent[Pops + i]
<1>1. /\ sent \in Seq(Items) /\ Len(sent) = Pushes /\ Len(received) = Pops
      /\ Pops \in Nat /\ Pushes \in Nat /\ Pops <= Pushes
  BY OwnIndex, Window DEF IInv, QueueTypeOK, HistoriesCount
<1>2. \A i \in Pops + 1 .. Pushes : sent[i] \in Items
  BY <1>1, ElementOfSeq
<1> QED BY <1>1, <1>2, SubSeqProperties DEF waiting

\* The release store of tail_ is the abstract Put (engine_shared.hpp:52).
LEMMA PublishIsPut ==
  ASSUME IInv, PushPublish
  PROVE  Fifo!Put(pItem)
<1>1. /\ sent \in Seq(Items) /\ pItem \in Items /\ Len(sent) = Pushes /\ Len(received) = Pops
      /\ Pops \in Nat /\ Pushes \in Nat /\ Pops <= Pushes /\ Pushes + 1 - Pops < Capacity
  BY OwnIndex, Window DEF IInv, QueueTypeOK, HistoriesCount, ProducerInv, PushPublish
<1>2. sent' = Append(sent, pItem) /\ received' = received
  BY DEF PushPublish, consumerVars
<1>3. Len(waiting) < Capacity - 1
  BY <1>1, WaitingItems, CapacityAssumption
<1>4. waiting' = Append(waiting, pItem)
  BY <1>1, <1>2 DEF waiting
<1> QED BY <1>2, <1>3, <1>4 DEF Fifo!Put, waiting

\* The release store of head_ is the abstract Get (engine_shared.hpp:64).
LEMMA ReleaseIsGet ==
  ASSUME IInv, PopRelease
  PROVE  Fifo!Get
<1>1. /\ sent \in Seq(Items) /\ Len(sent) = Pushes /\ Len(received) = Pops
      /\ received \in Seq(Items \cup {NoItem}) /\ cItem \in Items \cup {NoItem}
      /\ Pops \in Nat /\ Pushes \in Nat /\ Pops < Pushes /\ cItem = sent[Pops + 1]
  BY OwnIndex, Window DEF IInv, QueueTypeOK, HistoriesCount, ConsumerInv, PopRelease
<1>2. received' = Append(received, cItem) /\ sent' = sent /\ Len(received') = Pops + 1
  BY <1>1 DEF PopRelease, producerVars
<1>3. waiting # <<>> /\ Head(waiting) = cItem /\ Tail(waiting) = SubSeq(sent, Pops + 2, Pushes)
  <2>1. Pops + 1 \in 1 .. Len(sent) /\ Pushes \in Pops + 1 .. Len(sent)
    BY <1>1
  <2>2. Len(waiting) # 0
    BY <1>1, WaitingItems
  <2>3. waiting # <<>>
    BY <2>2
  <2>4. waiting = SubSeq(sent, Pops + 1, Pushes)
    BY <1>1 DEF waiting
  <2>5. /\ Head(waiting) = sent[Pops + 1]
        /\ Tail(waiting) = SubSeq(sent, Pops + 1 + 1, Pushes)
    BY <1>1, <2>1, <2>4, HeadTailOfSubSeq
  <2> QED BY <1>1, <2>3, <2>5
<1>4. waiting' = Tail(waiting)
  BY <1>1, <1>2, <1>3 DEF waiting
<1> QED BY <1>2, <1>3, <1>4 DEF Fifo!Get, waiting

\* The empty ring is the empty queue.
LEMMA InitRefines == QueueInit => Fifo!FifoInit
<1> SUFFICES ASSUME QueueInit
             PROVE  received = <<>> /\ SubSeq(sent, Len(received) + 1, Len(sent)) = <<>>
  BY DEF Fifo!FifoInit
<1> QED BY SubSeqEmpty DEF QueueInit

\* Every other step leaves the abstract queue alone.
LEMMA StepRefines ==
  ASSUME IInv, [QueueNext]_queueVars
  PROVE  [Fifo!FifoNext]_(Fifo!fifoVars)
<1>1. CASE PushPublish
  <2>1. pItem \in Items
    BY <1>1 DEF IInv, ProducerInv, PushPublish
  <2> QED BY <1>1, <2>1, PublishIsPut DEF Fifo!FifoNext
<1>2. CASE PopRelease
  BY <1>2, ReleaseIsGet DEF Fifo!FifoNext
<1>3. CASE UNCHANGED <<sent, received>>
  BY <1>3 DEF Fifo!fifoVars
<1>4. ASSUME NEW x \in Items, PushLoad(x) PROVE UNCHANGED <<sent, received>>
  BY <1>4 DEF PushLoad, consumerVars
<1>5. PushWrite \/ PopLoad \/ PopRead \/ UNCHANGED queueVars => UNCHANGED <<sent, received>>
  BY DEF PushWrite, PopLoad, PopRead, queueVars, consumerVars, producerVars
<1> QED BY <1>1, <1>2, <1>3, <1>4, <1>5 DEF QueueNext, Push, Pop

\* push() and pop() implement the abstract queue of Capacity - 1 places: this is
\* the safety part of ImplementsFifo, step by step; that what waits is taken in
\* the end is left to the model checker.
THEOREM RefinesFifo == QueueSafety => Fifo!FifoSafety
<1>1. IInv /\ [QueueNext]_queueVars => [Fifo!FifoNext]_(Fifo!fifoVars)
  BY StepRefines
<1> QED BY <1>1, InitRefines, Invariance, PTL DEF QueueSafety, Fifo!FifoSafety

-----------------------------------------------------------------------------
(* First layer: the queue and the types *)

\* The feed thread is between the arrival of a message and its fate.
HoldsMessage == fpc \in {"push", "pushing", "full"}

\* What the feed thread passes to push() is the message that arrived last.
FeedHolds ==
  /\ HoldsMessage => arrived >= 1
  /\ fpc = "pushing" => pItem = arrived

ThreadInv == IInv /\ LiveBinanceTypeOK /\ FeedHolds

\* The program starts with an empty queue and no message.
LEMMA ThreadInit == BinanceInit => ThreadInv
<1> SUFFICES ASSUME BinanceInit PROVE ThreadInv
  OBVIOUS
<1> USE LiveBinanceAssumption DEF BinanceInit
<1>1. IInv
  BY InitInv
<1>2. QueueTypeOK
  BY <1>1 DEF IInv
<1>3. ppc = "idle" /\ cpc = "idle"
  BY DEF QueueInit
<1>4. LiveBinanceTypeOK
  <2>1. running \in [Threads -> BOOLEAN] /\ wsi_ \in BOOLEAN /\ connected_ \in BOOLEAN
    BY Zenon
  <2>2. (fpc = "pushing") = (ppc # "idle") /\ (epc = "popping") = (cpc # "idle")
    BY <1>3
  <2>3. retry_count \in 0 .. MAX_RETRIES - 1 /\ arrived \in 0 .. MaxMessages
    OBVIOUS
  <2> QED BY <1>2, <2>1, <2>2, <2>3 DEF LiveBinanceTypeOK
<1>5. FeedHolds
  BY DEF FeedHolds, HoldsMessage
<1> QED BY <1>1, <1>4, <1>5 DEF ThreadInv

\* A step of any thread is a step of push() or pop(), or leaves the queue
\* alone: one producer and one consumer, as the queue demands.
LEMMA UsesQueue ==
  ASSUME ThreadInv, BinanceNext
  PROVE  QueueNext \/ UNCHANGED queueVars
<1>1. CASE TryPush
  <2>1. arrived \in Items
    BY <1>1, LiveBinanceAssumption
       DEF ThreadInv, FeedHolds, HoldsMessage, LiveBinanceTypeOK, TryPush
  <2> QED BY <1>1, <2>1 DEF TryPush, QueueNext, Push
<1>2. CASE Pushing
  BY <1>2 DEF Pushing, QueueNext, Push
<1>3. CASE TryPop \/ Popping
  BY <1>3 DEF TryPop, Popping, QueueNext, Pop
<1>4. CASE FeedTest \/ Connect \/ ConnectFails \/ Established \/ LinkLost \/ ServiceReturns
           \/ ReceiveInvalid \/ ReceiveTrade \/ GiveUpOnStop \/ Retry \/ DropWhenFull \/ CountReceived
  BY <1>4 DEF FeedTest, Connect, ConnectFails, Established, LinkLost, ServiceReturns,
     ReceiveInvalid, ReceiveTrade, GiveUpOnStop, Retry, DropWhenFull, CountReceived
<1>5. CASE EngineTest \/ Process \/ Main \/ \E t \in Threads : SeeStop(t)
  BY <1>5 DEF EngineTest, Process, Main, Monitor, Report, ClientStop, JoinFeed, JoinEngine,
     Summarise, SeeStop, outsideMain
<1> QED BY <1>1, <1>2, <1>3, <1>4, <1>5 DEF BinanceNext, Feed, Engine

\* The queue keeps its invariant whatever the threads do.
LEMMA QueueKept ==
  ASSUME ThreadInv, [BinanceNext]_allVars
  PROVE  IInv'
<1>1. [QueueNext]_queueVars
  BY UsesQueue DEF allVars
<1> QED BY <1>1, StepInv DEF ThreadInv

\* Each handler keeps the types and the message it holds: the retries stay
\* below the limit, and push() and pop() are entered and left with their caller.
LEMMA FeedTypes ==
  ASSUME ThreadInv, Feed, QueueTypeOK'
  PROVE  (LiveBinanceTypeOK /\ FeedHolds)'
<1> USE LiveBinanceAssumption DEF ThreadInv, LiveBinanceTypeOK, FeedHolds, HoldsMessage
<1> USE DEF outsideFeed, engineVars, mainVars, linkVars, tallies, queueVars, producerVars, consumerVars
<1>1. CASE FeedTest
  BY <1>1 DEF FeedTest
<1>2. CASE Connect
  BY <1>2 DEF Connect
<1>3. CASE ConnectFails
  BY <1>3 DEF ConnectFails
<1>4. CASE Established
  BY <1>4 DEF Established
<1>5. CASE LinkLost
  BY <1>5 DEF LinkLost, HandleAfterLoss
<1>6. CASE ServiceReturns
  BY <1>6 DEF ServiceReturns
<1>7. CASE ReceiveInvalid
  BY <1>7 DEF ReceiveInvalid
<1>8. CASE ReceiveTrade
  BY <1>8 DEF ReceiveTrade
<1>9. CASE TryPush
  BY <1>9 DEF TryPush, PushLoad
<1>10. CASE Pushing
  <2>1. CASE PushWrite
    BY <1>10, <2>1 DEF Pushing, PushWrite
  <2>2. CASE PushPublish
    BY <1>10, <2>2 DEF Pushing, PushPublish
  <2> QED BY <1>10, <2>1, <2>2 DEF Pushing
<1>11. CASE GiveUpOnStop
  BY <1>11 DEF GiveUpOnStop
<1>12. CASE Retry
  BY <1>12 DEF Retry, RetriesExhausted
<1>13. CASE DropWhenFull
  BY <1>13 DEF DropWhenFull
<1>14. CASE CountReceived
  BY <1>14 DEF CountReceived
<1> QED
  BY <1>1, <1>2, <1>3, <1>4, <1>5, <1>6, <1>7, <1>8, <1>9, <1>10, <1>11, <1>12, <1>13, <1>14 DEF Feed

\* So do the engine thread, the main thread and the signal.
LEMMA OtherTypes ==
  ASSUME ThreadInv, Engine \/ Main \/ \E t \in Threads : SeeStop(t), QueueTypeOK'
  PROVE  (LiveBinanceTypeOK /\ FeedHolds)'
<1> USE DEF ThreadInv, LiveBinanceTypeOK, FeedHolds, HoldsMessage
<1> USE DEF outsideEngine, outsideMain, mainVars, engineVars, feedVars, linkVars, tallies,
            queueVars, producerVars, consumerVars
<1>1. CASE EngineTest
  BY <1>1 DEF EngineTest
<1>2. CASE TryPop
  BY <1>2 DEF TryPop, PopLoad
<1>3. CASE Popping
  <2>1. CASE PopRead
    BY <1>3, <2>1 DEF Popping, PopRead
  <2>2. CASE PopRelease
    BY <1>3, <2>2 DEF Popping, PopRelease
  <2> QED BY <1>3, <2>1, <2>2 DEF Popping
<1>4. CASE Process
  BY <1>4 DEF Process
<1>5. CASE Monitor
  BY <1>5 DEF Monitor
<1>6. CASE Report
  BY <1>6 DEF Report
<1>7. CASE ClientStop
  BY <1>7 DEF ClientStop
<1>8. CASE JoinFeed
  BY <1>8 DEF JoinFeed
<1>9. CASE JoinEngine
  BY <1>9 DEF JoinEngine
<1>10. CASE Summarise
  BY <1>10 DEF Summarise
<1>11. ASSUME NEW t \in Threads, SeeStop(t) PROVE (LiveBinanceTypeOK /\ FeedHolds)'
  BY <1>11 DEF SeeStop
<1> QED
  BY <1>1, <1>2, <1>3, <1>4, <1>5, <1>6, <1>7, <1>8, <1>9, <1>10, <1>11 DEF Engine, Main

\* The first layer is inductive.
LEMMA ThreadStep == ThreadInv /\ [BinanceNext]_allVars => ThreadInv'
<1> SUFFICES ASSUME ThreadInv, [BinanceNext]_allVars PROVE ThreadInv'
  OBVIOUS
<1>1. IInv' /\ QueueTypeOK'
  BY QueueKept DEF IInv
<1>2. CASE BinanceNext
  BY <1>1, <1>2, FeedTypes, OtherTypes DEF BinanceNext, ThreadInv
<1>3. CASE UNCHANGED allVars
  BY <1>1, <1>3 DEF ThreadInv, LiveBinanceTypeOK, FeedHolds, HoldsMessage, allVars, feedVars,
     engineVars, mainVars, linkVars, tallies, queueVars, producerVars, consumerVars
<1> QED BY <1>2, <1>3

\* The queue invariant and the types hold throughout a run of the program.
THEOREM ThreadInvariance == BinanceSpec => []ThreadInv
  BY ThreadInit, ThreadStep, PTL DEF BinanceSpec

\* Type correctness of the three threads, with the bound on the retries of
\* handle_message() (BinanceClient.cpp:251-268).
THEOREM ThreadTypeCorrect == BinanceSpec => []LiveBinanceTypeOK
<1>1. ThreadInv => LiveBinanceTypeOK
  BY DEF ThreadInv
<1> QED BY <1>1, ThreadInvariance, PTL

\* Between the websocket and the bars there is a FIFO of Capacity - 1 places,
\* also under the threads that give up, stop and are joined
\* (live_binance_engine.cpp:55, BinanceClient.cpp:254).
THEOREM LiveRefinesFifo == BinanceSpec => Fifo!FifoSafety
<1>1. BinanceInit => Fifo!FifoInit
  BY InitRefines DEF BinanceInit
<1>2. ThreadInv /\ [BinanceNext]_allVars => [Fifo!FifoNext]_(Fifo!fifoVars)
  <2> SUFFICES ASSUME ThreadInv, [BinanceNext]_allVars
               PROVE  [Fifo!FifoNext]_(Fifo!fifoVars)
    OBVIOUS
  <2>1. [QueueNext]_queueVars
    BY UsesQueue DEF allVars
  <2> QED BY <2>1, StepRefines DEF ThreadInv
<1> QED BY <1>1, <1>2, ThreadInvariance, PTL DEF BinanceSpec, Fifo!FifoSafety

-----------------------------------------------------------------------------
(* Second layer: the fate of each message *)

\* Messages can be counted.
LEMMA CountIsNatural ==
  ASSUME NEW n \in Nat, NEW S \in SUBSET (1 .. n)
  PROVE  IsFiniteSet(S) /\ Cardinality(S) \in Nat
  BY FS_Interval, FS_Subset, FS_CardinalityType, 1 \in Int, n \in Int

\* Counting a message that was not counted before adds one.
LEMMA CountOneMore ==
  ASSUME NEW n \in Nat, NEW S \in SUBSET (1 .. n), NEW m, m \notin S
  PROVE  Cardinality(S \cup {m}) = Cardinality(S) + 1
  BY CountIsNatural, FS_AddElement

\* The feed thread has at most one message in hand.
LEMMA OneInHand ==
  /\ Cardinality(InHand) = IF HoldsMessage THEN 1 ELSE 0
  /\ InHand = IF HoldsMessage THEN {arrived} ELSE {}
  BY FS_EmptySet, FS_Singleton DEF InHand, HoldsMessage

\* What a push adds to the set of accepted messages.
LEMMA AcceptedAfterPush ==
  ASSUME NEW S, NEW s \in Seq(S), NEW x \in S
  PROVE  ToSet(Append(s, x)) = ToSet(s) \cup {x}
<1>1. /\ Append(s, x) \in Seq(S) /\ Len(Append(s, x)) = Len(s) + 1 /\ Len(s) \in Nat
      /\ \A i \in 1 .. Len(s) : Append(s, x)[i] = s[i]
      /\ Append(s, x)[Len(s) + 1] = x
  BY AppendProperties, LenProperties
<1>2. DOMAIN s = 1 .. Len(s) /\ DOMAIN Append(s, x) = 1 .. Len(s) + 1
  BY <1>1, LenProperties
<1> QED BY <1>1, <1>2 DEF ToSet

\* Every message that arrived is in one place, and the one in hand is newer
\* than all that were decided on.
Fates ==
  /\ 1 .. arrived = ToSet(sent) \cup rejected \cup abandoned \cup InHand
  /\ arrived = Len(sent) + Cardinality(rejected) + Cardinality(abandoned) + Cardinality(InHand)
  /\ rejected \in SUBSET (1 .. arrived) /\ abandoned \in SUBSET (1 .. arrived)
  /\ \A i \in 1 .. Len(sent) : sent[i] \in 1 .. arrived
  /\ HoldsMessage => /\ arrived \notin rejected \cup abandoned
                     /\ \A i \in 1 .. Len(sent) : sent[i] # arrived
  /\ \A i, j \in 1 .. Len(sent) : i < j => sent[i] < sent[j]

\* The counters, each behind by the packet its thread is about to count.
Counters ==
  /\ dropped_ = Cardinality(rejected)
  /\ abandoned # {} => ~running["feed"]
  /\ Len(sent) = received_ + (IF fpc = "count" THEN 1 ELSE 0)
  /\ Len(received) = processed + (IF epc = "process" THEN 1 ELSE 0)

FateInv == Fates /\ Counters

fateVars == <<arrived, sent, rejected, abandoned>>

\* A step that decides on no message and takes none keeps Fates.
LEMMA FatesKept ==
  ASSUME Fates, UNCHANGED fateVars, HoldsMessage' = HoldsMessage
  PROVE  Fates'
<1>1. InHand' = InHand
  BY DEF InHand, HoldsMessage, fateVars
<1> QED BY <1>1 DEF Fates, fateVars, HoldsMessage

\* Nothing has arrived at the start.
LEMMA FateInit == BinanceInit => FateInv
<1> SUFFICES ASSUME BinanceInit PROVE FateInv
  OBVIOUS
<1> USE DEF BinanceInit, QueueInit
<1>1. ToSet(sent) = {} /\ Len(sent) = 0 /\ Len(received) = 0
  BY DEF ToSet
<1>2. InHand = {} /\ Cardinality(InHand) = 0 /\ Cardinality(rejected) = 0 /\ Cardinality(abandoned) = 0
  BY FS_EmptySet DEF InHand
<1>3. ~HoldsMessage
  BY DEF HoldsMessage
<1> QED BY <1>1, <1>2, <1>3 DEF FateInv, Fates, Counters

\* A message that arrives is newer than all before it (BinanceClient.cpp:228-248):
\* an invalid one is rejected at once, a trade is in hand.
LEMMA ReceiveFates ==
  ASSUME ThreadInv, Fates, ReceiveInvalid \/ ReceiveTrade
  PROVE  Fates'
<1>1. /\ arrived' = arrived + 1 /\ UNCHANGED <<sent, abandoned>> /\ ~HoldsMessage
      /\ \/ rejected' = rejected \cup {arrived + 1} /\ ~HoldsMessage'
         \/ rejected' = rejected /\ HoldsMessage'
  BY DEF ReceiveInvalid, ReceiveTrade, HoldsMessage, queueVars, producerVars
<1>2. arrived \in Nat /\ Len(sent) \in Nat
  BY DEF ThreadInv, LiveBinanceTypeOK, QueueTypeOK
<1>3. arrived + 1 \in Nat /\ arrived + 1 \notin rejected
  BY <1>2 DEF Fates
<1>4. /\ Cardinality(rejected) \in Nat /\ Cardinality(abandoned) \in Nat
      /\ Cardinality(rejected') = Cardinality(rejected) + (IF HoldsMessage' THEN 0 ELSE 1)
  <2>1. rejected \in SUBSET (1 .. arrived) /\ abandoned \in SUBSET (1 .. arrived)
    BY DEF Fates
  <2>2. Cardinality(rejected \cup {arrived + 1}) = Cardinality(rejected) + 1
    BY <1>2, <1>3, <2>1, CountOneMore
  <2>3. Cardinality(rejected) \in Nat /\ Cardinality(abandoned) \in Nat
    BY <1>2, <2>1, CountIsNatural
  <2>4. \/ Cardinality(rejected') = Cardinality(rejected) + 1 /\ ~HoldsMessage'
        \/ Cardinality(rejected') = Cardinality(rejected) /\ HoldsMessage'
    BY <1>1, <2>2, Zenon
  <2> QED BY <2>3, <2>4
<1>5. InHand = {} /\ Cardinality(InHand) = 0
  BY <1>1, OneInHand
<1>6. /\ InHand' = IF HoldsMessage' THEN {arrived + 1} ELSE {}
      /\ Cardinality(InHand') = IF HoldsMessage' THEN 1 ELSE 0
  BY <1>1, FS_EmptySet, FS_Singleton DEF InHand, HoldsMessage
<1>7. 1 .. arrived + 1 = (1 .. arrived) \cup {arrived + 1}
  BY <1>2
<1>8. (1 .. arrived = ToSet(sent) \cup rejected \cup abandoned \cup InHand)'
  BY <1>1, <1>5, <1>6, <1>7 DEF Fates
<1>9. (arrived = Len(sent) + Cardinality(rejected) + Cardinality(abandoned) + Cardinality(InHand))'
  <2>1. arrived = Len(sent) + Cardinality(rejected) + Cardinality(abandoned) + Cardinality(InHand)
    BY DEF Fates
  <2> QED BY <1>1, <1>2, <1>4, <1>5, <1>6, <2>1
<1>10. (rejected \in SUBSET (1 .. arrived) /\ abandoned \in SUBSET (1 .. arrived))'
  BY <1>1, <1>7 DEF Fates
<1>11. (\A i \in 1 .. Len(sent) : sent[i] \in 1 .. arrived)'
  BY <1>1, <1>7 DEF Fates
<1>12. (HoldsMessage => /\ arrived \notin rejected \cup abandoned
                        /\ \A i \in 1 .. Len(sent) : sent[i] # arrived)'
  BY <1>1, <1>2 DEF Fates
<1> QED BY <1>1, <1>8, <1>9, <1>10, <1>11, <1>12 DEF Fates

\* The message in hand is given up or dropped, once (BinanceClient.cpp:255-268).
LEMMA DecideFates ==
  ASSUME ThreadInv, Fates, GiveUpOnStop \/ DropWhenFull
  PROVE  Fates'
<1>1. /\ UNCHANGED <<arrived, sent>> /\ HoldsMessage /\ ~HoldsMessage'
      /\ \/ rejected' = rejected \cup {arrived} /\ abandoned' = abandoned
         \/ rejected' = rejected /\ abandoned' = abandoned \cup {arrived}
  BY DEF GiveUpOnStop, DropWhenFull, HoldsMessage, queueVars, producerVars
<1>2. arrived \in Nat /\ arrived >= 1 /\ Len(sent) \in Nat
  BY <1>1 DEF ThreadInv, LiveBinanceTypeOK, QueueTypeOK, FeedHolds
<1>3. arrived \notin rejected /\ arrived \notin abandoned
  BY <1>1 DEF Fates
<1>4. /\ Cardinality(rejected) \in Nat /\ Cardinality(abandoned) \in Nat
      /\ Cardinality(rejected') + Cardinality(abandoned') = Cardinality(rejected) + Cardinality(abandoned) + 1
      /\ Cardinality(rejected') \in Nat /\ Cardinality(abandoned') \in Nat
  <2>1. rejected \in SUBSET (1 .. arrived) /\ abandoned \in SUBSET (1 .. arrived)
    BY DEF Fates
  <2>2. /\ Cardinality(rejected \cup {arrived}) = Cardinality(rejected) + 1
        /\ Cardinality(abandoned \cup {arrived}) = Cardinality(abandoned) + 1
    BY <1>2, <1>3, <2>1, CountOneMore
  <2>3. Cardinality(rejected) \in Nat /\ Cardinality(abandoned) \in Nat
    BY <1>2, <2>1, CountIsNatural
  <2>4. \/ Cardinality(rejected') = Cardinality(rejected) + 1 /\ Cardinality(abandoned') = Cardinality(abandoned)
        \/ Cardinality(rejected') = Cardinality(rejected) /\ Cardinality(abandoned') = Cardinality(abandoned) + 1
    BY <1>1, <2>2, Zenon
  <2> QED BY <2>3, <2>4
<1>5. InHand = {arrived} /\ Cardinality(InHand) = 1
  BY <1>1, OneInHand
<1>6. InHand' = {} /\ Cardinality(InHand') = 0
  BY <1>1, FS_EmptySet DEF InHand, HoldsMessage
<1>7. (1 .. arrived = ToSet(sent) \cup rejected \cup abandoned \cup InHand)'
  BY <1>1, <1>5, <1>6 DEF Fates
<1>8. (arrived = Len(sent) + Cardinality(rejected) + Cardinality(abandoned) + Cardinality(InHand))'
  <2>1. arrived = Len(sent) + Cardinality(rejected) + Cardinality(abandoned) + Cardinality(InHand)
    BY DEF Fates
  <2> QED BY <1>1, <1>2, <1>4, <1>5, <1>6, <2>1
<1>9. (rejected \in SUBSET (1 .. arrived) /\ abandoned \in SUBSET (1 .. arrived))'
  BY <1>1, <1>2 DEF Fates
<1> QED BY <1>1, <1>7, <1>8, <1>9 DEF Fates

\* The release store of push() turns the message in hand into an accepted one.
LEMMA PublishFates ==
  ASSUME ThreadInv, Fates, Pushing, PushPublish
  PROVE  Fates'
<1>1. /\ UNCHANGED <<arrived, rejected, abandoned>> /\ HoldsMessage /\ ~HoldsMessage'
      /\ sent' = Append(sent, arrived)
  BY DEF Pushing, PushPublish, HoldsMessage, tallies, ThreadInv, FeedHolds
<1>2. arrived \in Nat /\ arrived >= 1 /\ arrived \in Items /\ sent \in Seq(Items)
  BY <1>1, LiveBinanceAssumption DEF ThreadInv, LiveBinanceTypeOK, QueueTypeOK, FeedHolds
<1>3. /\ sent' \in Seq(Items) /\ Len(sent') = Len(sent) + 1 /\ Len(sent) \in Nat
      /\ \A i \in 1 .. Len(sent) : sent'[i] = sent[i]
      /\ sent'[Len(sent) + 1] = arrived
  BY <1>1, <1>2, AppendProperties, LenProperties
<1>4. ToSet(sent)' = ToSet(sent) \cup {arrived}
  BY <1>1, <1>2, AcceptedAfterPush
<1>5. InHand = {arrived} /\ Cardinality(InHand) = 1
  BY <1>1, OneInHand
<1>6. InHand' = {} /\ Cardinality(InHand') = 0
  BY <1>1, FS_EmptySet DEF InHand, HoldsMessage
<1>7. (1 .. arrived = ToSet(sent) \cup rejected \cup abandoned \cup InHand)'
  BY <1>1, <1>4, <1>5, <1>6 DEF Fates
<1>8. (arrived = Len(sent) + Cardinality(rejected) + Cardinality(abandoned) + Cardinality(InHand))'
  <2>1. Cardinality(rejected) \in Nat /\ Cardinality(abandoned) \in Nat
    BY <1>2, CountIsNatural DEF Fates
  <2>2. arrived = Len(sent) + Cardinality(rejected) + Cardinality(abandoned) + Cardinality(InHand)
    BY DEF Fates
  <2> QED BY <1>1, <1>3, <1>5, <1>6, <2>1, <2>2
<1>9. \A i \in 1 .. Len(sent') : i \in 1 .. Len(sent) \/ i = Len(sent) + 1
  BY <1>3
<1>10. (\A i \in 1 .. Len(sent) : sent[i] \in 1 .. arrived)'
  BY <1>1, <1>2, <1>3, <1>9 DEF Fates
<1>11. (\A i, j \in 1 .. Len(sent) : i < j => sent[i] < sent[j])'
  <2>1. \A i \in 1 .. Len(sent) : sent[i] < arrived
    BY <1>1, <1>2 DEF Fates
  <2> QED BY <1>3, <1>9, <2>1 DEF Fates
<1> QED BY <1>1, <1>7, <1>8, <1>10, <1>11 DEF Fates

\* All other steps decide on no message.
LEMMA FatesStep ==
  ASSUME ThreadInv, Fates, [BinanceNext]_allVars
  PROVE  Fates'
<1> USE DEF fateVars, outsideFeed, outsideEngine, outsideMain, feedVars, linkVars, tallies,
            queueVars, producerVars, consumerVars, HoldsMessage
<1>1. CASE ReceiveInvalid \/ ReceiveTrade
  BY <1>1, ReceiveFates
<1>2. CASE GiveUpOnStop \/ DropWhenFull
  BY <1>2, DecideFates
<1>3. CASE Pushing
  <2>1. CASE PushWrite
    BY <1>3, <2>1, FatesKept DEF Pushing, PushWrite
  <2>2. CASE PushPublish
    BY <1>3, <2>2, PublishFates
  <2> QED BY <1>3, <2>1, <2>2 DEF Pushing
<1>4. CASE TryPush
  BY <1>4, FatesKept DEF TryPush, PushLoad
<1>5. CASE FeedTest \/ Connect \/ ConnectFails \/ Established
  BY <1>5, FatesKept DEF FeedTest, Connect, ConnectFails, Established
<1>6. CASE LinkLost \/ ServiceReturns \/ Retry \/ CountReceived
  BY <1>6, FatesKept DEF LinkLost, ServiceReturns, Retry, CountReceived
<1>7. CASE Engine
  BY <1>7, FatesKept
     DEF Engine, EngineTest, TryPop, Popping, Process, PopLoad, PopRead, PopRelease
<1>8. CASE Main \/ \E t \in Threads : SeeStop(t)
  BY <1>8, FatesKept
     DEF Main, Monitor, Report, ClientStop, JoinFeed, JoinEngine, Summarise, SeeStop
<1>9. CASE UNCHANGED allVars
  BY <1>9, FatesKept DEF allVars
<1> QED
  BY <1>1, <1>2, <1>3, <1>4, <1>5, <1>6, <1>7, <1>8, <1>9 DEF BinanceNext, Feed

\* The counters follow the histories: dropped_ the rejected messages, received_
\* the accepted ones, processed those that were popped.
LEMMA CountersStep ==
  ASSUME ThreadInv, Fates, Counters, [BinanceNext]_allVars
  PROVE  Counters'
<1> USE DEF Counters, outsideFeed, outsideEngine, outsideMain, feedVars, engineVars, linkVars,
            tallies, queueVars, producerVars, consumerVars
<1>1. /\ received_ \in Nat /\ dropped_ \in Nat /\ processed \in Nat /\ arrived \in Nat
      /\ sent \in Seq(Items) /\ received \in Seq(Items \cup {NoItem})
      /\ Len(sent) \in Nat /\ Len(received) \in Nat
      /\ running \in [Threads -> BOOLEAN]
  BY DEF ThreadInv, LiveBinanceTypeOK, QueueTypeOK
<1>2. CASE ReceiveInvalid
  <2>1. arrived + 1 \notin rejected
    BY <1>1 DEF Fates
  <2>2. Cardinality(rejected \cup {arrived + 1}) = Cardinality(rejected) + 1
    BY <1>1, <2>1, CountOneMore DEF Fates
  <2>3. Cardinality(rejected') = Cardinality(rejected) + 1
    BY <1>2, <2>2 DEF ReceiveInvalid
  <2> QED BY <1>2, <2>3 DEF ReceiveInvalid
<1>3. CASE DropWhenFull
  <2>1. arrived \notin rejected
    BY <1>3 DEF Fates, DropWhenFull, HoldsMessage
  <2>2. Cardinality(rejected \cup {arrived}) = Cardinality(rejected) + 1
    BY <1>1, <2>1, CountOneMore DEF Fates
  <2>3. Cardinality(rejected') = Cardinality(rejected) + 1
    BY <1>3, <2>2 DEF DropWhenFull
  <2> QED BY <1>3, <2>3 DEF DropWhenFull
<1>4. CASE GiveUpOnStop
  BY <1>4 DEF GiveUpOnStop
<1>5. CASE Pushing
  <2>1. CASE PushWrite
    BY <1>5, <2>1 DEF Pushing, PushWrite
  <2>2. CASE PushPublish
    <3>1. Len(sent') = Len(sent) + 1
      BY <1>1, <2>2 DEF PushPublish
    <3> QED BY <1>1, <1>5, <2>2, <3>1 DEF Pushing, PushPublish
  <2> QED BY <1>5, <2>1, <2>2 DEF Pushing
<1>6. CASE CountReceived
  BY <1>1, <1>6 DEF CountReceived
<1>7. CASE Popping
  <2>1. CASE PopRead
    BY <1>7, <2>1 DEF Popping, PopRead
  <2>2. CASE PopRelease
    <3>1. Len(received') = Len(received) + 1
      BY <1>1, <2>2 DEF PopRelease
    <3> QED BY <1>1, <1>7, <2>2, <3>1 DEF Popping, PopRelease
  <2> QED BY <1>7, <2>1, <2>2 DEF Popping
<1>8. CASE Process
  BY <1>1, <1>8 DEF Process
<1>9. CASE EngineTest \/ TryPop
  BY <1>9 DEF EngineTest, TryPop, PopLoad
<1>10. ASSUME NEW t \in Threads, SeeStop(t) PROVE Counters'
  BY <1>1, <1>10 DEF SeeStop
<1>11. CASE FeedTest \/ Connect \/ ConnectFails \/ Established \/ LinkLost \/ ServiceReturns
  BY <1>11 DEF FeedTest, Connect, ConnectFails, Established, LinkLost, ServiceReturns
<1>12. CASE ReceiveTrade \/ TryPush \/ Retry
  BY <1>12 DEF ReceiveTrade, TryPush, PushLoad, Retry
<1>13. CASE Main
  BY <1>13 DEF Main, Monitor, Report, ClientStop, JoinFeed, JoinEngine, Summarise
<1>14. CASE UNCHANGED allVars
  BY <1>14 DEF allVars
<1> QED
  BY <1>2, <1>3, <1>4, <1>5, <1>6, <1>7, <1>8, <1>9, <1>10, <1>11, <1>12, <1>13, <1>14
     DEF BinanceNext, Feed, Engine

\* The second layer holds throughout a run of the program.
THEOREM FateInvariance == BinanceSpec => []FateInv
<1>1. ThreadInv /\ FateInv /\ [BinanceNext]_allVars => FateInv'
  BY FatesStep, CountersStep DEF FateInv
<1> QED BY <1>1, FateInit, ThreadInvariance, PTL DEF BinanceSpec

\* No trade vanishes without a trace between the websocket and the summary, and
\* the engine sees what is left in the order of the exchange
\* (BinanceClient.cpp:236-276, live_binance_engine.cpp:55).
THEOREM AllAccounted == BinanceSpec => []MessagesAccounted
<1>1. ThreadInv /\ FateInv => MessagesAccounted
  <2> SUFFICES ASSUME ThreadInv, FateInv PROVE MessagesAccounted
    OBVIOUS
  <2>1. \A i, j \in 1 .. Len(received) : i < j => received[i] < received[j]
    <3>1. /\ Pops \in Nat /\ Pushes \in Nat /\ Pops <= Pushes
          /\ Len(received) = Pops /\ Len(sent) = Pushes
          /\ \A i \in 1 .. Pops : received[i] = sent[i]
      BY OwnIndex, Window DEF ThreadInv, IInv, HistoriesCount, Contents
    <3>2. \A i, j \in 1 .. Len(sent) : i < j => sent[i] < sent[j]
      BY DEF FateInv, Fates
    <3>3. \A i \in 1 .. Pops : i \in 1 .. Pushes
      BY <3>1
    <3> QED BY <3>1, <3>2, <3>3
  <2> QED BY <2>1 DEF FateInv, Fates, Counters, MessagesAccounted
<1> QED BY <1>1, ThreadInvariance, FateInvariance, PTL

-----------------------------------------------------------------------------
(* Third layer: the joins *)

\* What the main thread has waited for has come to its end.
Joined ==
  /\ mpc \in {"join_engine", "summarise", "done"} => fpc = "done"
  /\ mpc \in {"summarise", "done"} => epc = "done"
  /\ mpc = "done" => summary = processed

\* A thread that is done takes no further step, so what was joined stays final.
LEMMA JoinedStep ==
  ASSUME ThreadInv, Joined, [BinanceNext]_allVars
  PROVE  Joined'
<1> USE DEF Joined, outsideFeed, outsideEngine, outsideMain, feedVars, engineVars, mainVars
<1>1. CASE Feed
  BY <1>1 DEF Feed, FeedTest, Connect, ConnectFails, Established, LinkLost, ServiceReturns,
     ReceiveInvalid, ReceiveTrade, TryPush, Pushing, GiveUpOnStop, Retry, DropWhenFull, CountReceived
<1>2. CASE Engine
  BY <1>2 DEF Engine, EngineTest, TryPop, Popping, Process
<1>3. CASE Main
  BY <1>3 DEF Main, Monitor, Report, ClientStop, JoinFeed, JoinEngine, EngineJoined, Summarise
<1>4. CASE \E t \in Threads : SeeStop(t)
  BY <1>4 DEF SeeStop
<1>5. CASE UNCHANGED allVars
  BY <1>5 DEF allVars
<1> QED BY <1>1, <1>2, <1>3, <1>4, <1>5 DEF BinanceNext

\* The unlocked reads of the summary are ordered after every write, by the two
\* joins (live_binance_engine.cpp:196-213).
THEOREM FinalSummary == BinanceSpec => []SummaryIsFinal
<1>1. BinanceInit => Joined
  BY DEF BinanceInit, Joined
<1>2. Joined => SummaryIsFinal
  BY DEF Joined, SummaryIsFinal
<1> QED BY <1>1, <1>2, JoinedStep, ThreadInvariance, PTL DEF BinanceSpec

===============================================================================
