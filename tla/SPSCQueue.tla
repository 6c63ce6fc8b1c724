------------------------------ MODULE SPSCQueue ------------------------------
(***************************************************************************)
(* SimpleSPSCQueue<T, Capacity> of engine_shared.hpp: a ring of Capacity   *)
(* slots, an index head_ that only the consumer stores and an index tail_  *)
(* that only the producer stores.  One slot always stays empty, so that    *)
(* head_ = tail_ means "empty".                                            *)
(*                                                                         *)
(* The C++ memory model is kept where it matters.  Each index is           *)
(* represented by its modification order, the sequence of all values ever  *)
(* stored to it.  A thread that loads its own index gets the last value.   *)
(* An acquire load of the other thread's index may be stale: it returns    *)
(* any value of the modification order that is not older than one this     *)
(* thread has already seen.  Loading position k synchronises with the      *)
(* release store at k, so the thread may rely on the slot accesses made    *)
(* before that store and on no later ones.                                 *)
(***************************************************************************)
EXTENDS Naturals, Sequences, SequencesExt

CONSTANTS Items,      \* the TradePackets the producer may push
          NoItem,     \* a default-constructed slot, TradePacket{}
          Capacity,   \* number of slots, 1 << 22 in the live engine
          MaxPushes   \* bound of the model: successful pushes

\* Masking with Capacity - 1 is the remainder modulo Capacity because the
\* code asserts that Capacity is a power of two.
ASSUME CapacityAssumption == Capacity \in Nat \ {0}
ASSUME MaxPushesAssumption == MaxPushes \in Nat

VARIABLES
  buffer,     \* the slots
  headMO,     \* modification order of head_
  tailMO,     \* modification order of tail_
  headSeen,   \* newest position of headMO the producer has loaded
  tailSeen,   \* newest position of tailMO the consumer has loaded
  ppc, pt, pItem,   \* producer inside push(): control, local t, argument
  cpc, ch, cItem,   \* consumer inside pop(): control, local h, out-parameter
  sent,       \* history: items of the pushes that returned true
  received    \* history: items of the pops that returned true

producerVars == <<tailMO, headSeen, ppc, pt, pItem, sent>>
consumerVars == <<headMO, tailSeen, cpc, ch, cItem, received>>
queueVars == <<buffer, producerVars, consumerVars>>

Slots == 0 .. Capacity - 1

\* (i + 1) & Mask
NextIndex(i) == (i + 1) % Capacity

QueueInit ==
  /\ buffer = [s \in Slots |-> NoItem]
  /\ headMO = <<0>> /\ tailMO = <<0>>
  /\ headSeen = 1 /\ tailSeen = 1
  /\ ppc = "idle" /\ pt = 0 /\ pItem = NoItem
  /\ cpc = "idle" /\ ch = 0 /\ cItem = NoItem
  /\ sent = <<>> /\ received = <<>>

-----------------------------------------------------------------------------
(* push(item) *)

\* Mistake caught by NoSlotRace and AccessesSynchronised: no test for a full ring.
RingNeverFull(t, head) == FALSE

RingFull(t, head) == NextIndex(t) = head

\* push() up to its test: t from the thread's own index, head_ acquired.  A
\* full ring makes push() return false at once; only what was seen remains.
PushLoad(x) ==
  /\ ppc = "idle"
  /\ Len(sent) < MaxPushes
  /\ \E k \in headSeen .. Len(headMO) :
       /\ headSeen' = k
       /\ IF RingFull(Last(tailMO), headMO[k])
            THEN UNCHANGED <<ppc, pt, pItem>>
            ELSE /\ ppc' = "write"
                 /\ pt' = Last(tailMO)
                 /\ pItem' = x
  /\ UNCHANGED <<buffer, tailMO, sent, consumerVars>>

\* buffer_[t] = item
PushWrite ==
  /\ ppc = "write"
  /\ buffer' = [buffer EXCEPT ![pt] = pItem]
  /\ ppc' = "publish"
  /\ UNCHANGED <<tailMO, headSeen, pt, pItem, sent, consumerVars>>

\* tail_.store(next, release); return true
PushPublish ==
  /\ ppc = "publish"
  /\ tailMO' = Append(tailMO, NextIndex(pt))
  /\ sent' = Append(sent, pItem)
  /\ ppc' = "idle"
  /\ UNCHANGED <<buffer, headSeen, pt, pItem, consumerVars>>

-----------------------------------------------------------------------------
(* pop(item) *)

\* Mistake caught by FifoDelivery: no test for an empty ring.
RingNeverEmpty(h, tail) == FALSE

\* Mistake caught by ImplementsFifo: the test keeps the last packet back.
RingEmptyEarly(h, tail) == h = tail \/ NextIndex(h) = tail

RingEmpty(h, tail) == h = tail

\* pop() up to its test: h from the thread's own index, tail_ acquired.
PopLoad ==
  /\ cpc = "idle"
  /\ \E k \in tailSeen .. Len(tailMO) :
       /\ tailSeen' = k
       /\ IF RingEmpty(Last(headMO), tailMO[k])
            THEN UNCHANGED <<cpc, ch>>
            ELSE cpc' = "read" /\ ch' = Last(headMO)
  /\ UNCHANGED <<buffer, headMO, cItem, received, producerVars>>

\* item = buffer_[h]
PopRead ==
  /\ cpc = "read"
  /\ cItem' = buffer[ch]
  /\ cpc' = "release"
  /\ UNCHANGED <<buffer, headMO, tailSeen, ch, received, producerVars>>

\* head_.store((h + 1) & Mask, release); return true
PopRelease ==
  /\ cpc = "release"
  /\ headMO' = Append(headMO, NextIndex(ch))
  /\ received' = Append(received, cItem)
  /\ cpc' = "idle"
  /\ UNCHANGED <<buffer, tailSeen, ch, cItem, producerVars>>

-----------------------------------------------------------------------------
Push == (\E x \in Items : PushLoad(x)) \/ PushWrite \/ PushPublish
Pop == PopLoad \/ PopRead \/ PopRelease
QueueNext == Push \/ Pop

QueueSafety == QueueInit /\ [][QueueNext]_queueVars

\* A store becomes visible to the other thread in finite time, and the
\* consumer polls in a loop: a pop that could succeed is not put off for ever.
QueueFairness ==
  /\ WF_queueVars(PopLoad /\ cpc' = "read")
  /\ WF_queueVars(PopRead)
  /\ WF_queueVars(PopRelease)

QueueSpec == QueueSafety /\ QueueFairness

-----------------------------------------------------------------------------
(* Properties *)

\* Number of release stores so far, which is also the number of the item the
\* producer (consumer) is working on, counted from 0.
Pushes == Len(tailMO) - 1
Pops == Len(headMO) - 1

\* Every variable of push() and pop() has its type (engine_shared.hpp:34-42).
QueueTypeOK ==
  /\ buffer \in [Slots -> Items \cup {NoItem}]
  /\ headMO \in Seq(Slots) /\ tailMO \in Seq(Slots)
  /\ headSeen \in 1 .. Len(headMO) /\ tailSeen \in 1 .. Len(tailMO)
  /\ ppc \in {"idle", "write", "publish"}
  /\ cpc \in {"idle", "read", "release"}
  /\ pt \in Slots /\ ch \in Slots
  /\ pItem \in Items \cup {NoItem} /\ cItem \in Items \cup {NoItem}
  /\ sent \in Seq(Items) /\ received \in Seq(Items \cup {NoItem})

\* push() and pop() never touch the slot the other thread is in: the plain
\* accesses of buffer_ at engine_shared.hpp:51 and :63 are no data race.
NoSlotRace == ~(ppc = "write" /\ cpc = "read" /\ pt = ch)

\* The stronger fact the memory orders are there for.  A slot is written only
\* after the producer has acquired the release of the read that emptied it,
\* and read only after the consumer has acquired the release of the write that
\* filled it, however stale the loads are.
AccessesSynchronised ==
  /\ ppc = "write" => Pushes + 2 <= headSeen + Capacity
  /\ cpc = "read" => Pops + 2 <= tailSeen

\* Whatever pop() returned is what push() was given, in that order, without a
\* loss, a duplicate or a slot that was never written.
FifoDelivery == IsPrefix(received, sent)

\* One slot always stays free, so head_ = tail_ can only mean "empty".
OneSlotFree == Pushes - Pops < Capacity

\* The ring implements the abstract queue of Capacity - 1 places.
Fifo == INSTANCE BoundedFifo
          WITH Bound <- Capacity - 1,
               queue <- SubSeq(sent, Len(received) + 1, Len(sent)),
               delivered <- received

\* Under fair scheduling of the consumer the refinement includes the promise
\* that what was pushed is eventually popped.
ImplementsFifo == Fifo!FifoSpec
==============================================================================
