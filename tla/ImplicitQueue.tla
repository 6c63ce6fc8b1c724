--------------------------- MODULE ImplicitQueue ---------------------------
(***************************************************************************)
(* ImplicitProducer of concurrentqueue.h: the sub-queue of one producer    *)
(* thread, from which any number of consumers dequeue.  Items lie in       *)
(* blocks of BLOCK_SIZE; a circular block index, which is replaced by a    *)
(* larger one when it is full, leads from an item's index to its block;    *)
(* the consumer that empties a block unlinks and recycles it.              *)
(*                                                                         *)
(* Every access to an atomic that two threads share is a step of its own,  *)
(* and the steps of all threads interleave.  The item enqueued at index i  *)
(* is i.  The free list is a pool that may look empty (NodePool.tla).      *)
(*                                                                         *)
(* dequeue() takes the same steps as dequeue_bulk() with a maximum of one; *)
(* enqueue() and enqueue_bulk() differ in when they construct and in how   *)
(* they undo, so prod.call tells them apart.  A call that may not allocate *)
(* (try_enqueue) behaves like one whose allocations fail.                  *)
(***************************************************************************)
EXTENDS Integers, Sequences, FiniteSets, FiniteSetsExt

CONSTANTS
  Consumers,
  BLOCK_SIZE,
  MAX_SUBQUEUE_SIZE,
  INITIAL_INDEX_SIZE,       \* IMPLICIT_INITIAL_INDEX_SIZE
  RECYCLE_ALLOCATED_BLOCKS, \* the trait of that name
  ConstructorMayThrow,      \* T's constructor is not noexcept
  InitialBlocks,            \* initialBlockPoolSize; these blocks are 1 .. InitialBlocks
  DynamicBlocks,            \* blocks that create<Block>() may return
  NoBlock,                  \* nullptr
  BulkCounts,               \* the counts given to enqueue_bulk() and dequeue_bulk()
  ServedItems,              \* bound of the model: items that came and went before it begins
  MaxItems,                 \* bound of the model: items enqueued
  MaxClaims,                \* bound of the model: dequeueOptimisticCount when a call begins
  MaxIndexSize              \* bound of the model: new_block_index() fails beyond it

ASSUME QueueShapeAssumption ==
  /\ BLOCK_SIZE \in Nat /\ BLOCK_SIZE > 1
  /\ INITIAL_INDEX_SIZE \in Nat /\ INITIAL_INDEX_SIZE > 1
  /\ MAX_SUBQUEUE_SIZE \in Nat /\ MAX_SUBQUEUE_SIZE % BLOCK_SIZE = 0
  /\ ServedItems \in Nat /\ ServedItems % BLOCK_SIZE = 0
  /\ ServedItems > 0 => InitialBlocks > 0
  /\ InitialBlocks \in Nat /\ BulkCounts \subseteq Nat \ {0}
  /\ NoBlock \notin DynamicBlocks \cup 1 .. InitialBlocks
  /\ DynamicBlocks \cap 1 .. InitialBlocks = {}
  /\ IsFiniteSet(Consumers)

Blocks == 1 .. InitialBlocks \cup DynamicBlocks

INVALID_BLOCK_BASE == 1
NoItem == -1

VARIABLES
  tailIndex, headIndex, dequeueOptimisticCount, dequeueOvercommit,
  blockIndex,    \* the number of the newest header
  headers,       \* the headers made so far: [capacity, tail, index]
  key, value,    \* the fields of the block index entries
  elements,      \* per block the items in its slots
  emptied,       \* per block elementsCompletelyDequeued
  initialBlockPoolIndex, freeBlocks, heap,
  prod,          \* the producer: pc, tailBlock and the locals of enqueue()
  cons,          \* per consumer: pc and the locals of dequeue()
  delivered      \* the items that dequeue() has returned

counters == <<tailIndex, headIndex, dequeueOptimisticCount, dequeueOvercommit>>
indexVars == <<blockIndex, headers, key, value>>
blockVars == <<elements, emptied>>
poolVars == <<initialBlockPoolIndex, freeBlocks, heap>>
queueVars == <<counters, indexVars, blockVars, poolVars, prod, cons, delivered>>

Slot(i) == i % BLOCK_SIZE
Base(i) == i - Slot(i)

-----------------------------------------------------------------------------
(* The block index.  Entries are numbered in the order they are made;      *)
(* a header's index is a function on 0 .. capacity - 1, as its array is.   *)

\* new_block_index() for a queue without one, as the constructor calls it.
FirstHeader ==
  [capacity |-> INITIAL_INDEX_SIZE, tail |-> INITIAL_INDEX_SIZE - 1,
   index |-> [k \in 0 .. INITIAL_INDEX_SIZE - 1 |-> k]]

\* Mistake caught by ClaimedItemsAreFound: the entries are copied as they lie.
LargerHeaderUnrotated(prev) ==
  [capacity |-> 2 * prev.capacity,
   tail |-> prev.capacity - 1,
   index |-> [k \in 0 .. 2 * prev.capacity - 1 |->
                IF k < prev.capacity THEN prev.index[k] ELSE k]]

\* The old entries, the oldest first, and as many new ones behind them.
LargerHeader(prev) ==
  [capacity |-> 2 * prev.capacity,
   tail |-> prev.capacity - 1,
   index |-> [k \in 0 .. 2 * prev.capacity - 1 |->
                IF k < prev.capacity
                  THEN prev.index[(prev.tail + 1 + k) % prev.capacity]
                  ELSE k]]

Header == headers[blockIndex]
NextSlot == (Header.tail + 1) % Header.capacity

\* get_block_index_index_for_index(), from the slot of a tail that was loaded.
EntryFor(h, slot, i) ==
  LET offset == (Base(i) - key[headers[h].index[slot]]) \div BLOCK_SIZE
  IN headers[h].index[(slot + offset) % headers[h].capacity]

\* Between two calls the locals are nothing; the producer keeps its tailBlock.
IdleProducer(block) ==
  [pc |-> "idle", tailBlock |-> block, call |-> "none", count |-> 0, at |-> 0, entry |-> 0,
   chain |-> <<>>, undone |-> 0]
IdleConsumer ==
  [pc |-> "idle", tail |-> 0, overcommit |-> 0, desired |-> 0, mine |-> 0,
   index |-> 0, stop |-> 0, header |-> 0, slot |-> 0, block |-> NoBlock]

\* The queue after ServedItems items, enqueued and dequeued one by one: the first
\* block served them all by way of the free list, and each base took the next entry.
ImplicitInit ==
  LET served == ServedItems \div BLOCK_SIZE
      last(e) == {k \in 0 .. served - 1 : k % INITIAL_INDEX_SIZE = e}
  IN
  /\ tailIndex = ServedItems /\ headIndex = ServedItems
  /\ dequeueOptimisticCount = ServedItems /\ dequeueOvercommit = 0
  /\ blockIndex = 1
  /\ headers = <<[FirstHeader EXCEPT !.tail = (@ + served) % INITIAL_INDEX_SIZE]>>
  /\ key = [e \in 0 .. INITIAL_INDEX_SIZE - 1 |->
              IF last(e) = {} THEN INVALID_BLOCK_BASE ELSE BLOCK_SIZE * Max(last(e))]
  /\ value = [e \in 0 .. INITIAL_INDEX_SIZE - 1 |-> NoBlock]
  /\ elements = [b \in Blocks |-> [s \in 0 .. BLOCK_SIZE - 1 |-> NoItem]]
  /\ emptied = [b \in Blocks |-> IF b = 1 /\ served > 0 THEN BLOCK_SIZE ELSE 0]
  /\ initialBlockPoolIndex = IF served > 0 THEN 1 ELSE 0
  /\ freeBlocks = IF served > 0 THEN {1} ELSE {}
  /\ heap = DynamicBlocks
  /\ prod = IdleProducer(NoBlock)
  /\ cons = [c \in Consumers |-> IdleConsumer]
  /\ delivered = 0 .. ServedItems - 1

\* add_block_to_free_list()
AddBlockToFreeList(b) ==
  IF b \in DynamicBlocks /\ ~RECYCLE_ALLOCATED_BLOCKS
    THEN heap' = heap \cup {b} /\ UNCHANGED freeBlocks
    ELSE freeBlocks' = freeBlocks \cup {b} /\ UNCHANGED heap

-----------------------------------------------------------------------------
(* The producer: enqueue() and enqueue_bulk() *)

ProducerAt(step) == prod.pc = step
ProducerGoesTo(step) == prod' = [prod EXCEPT !.pc = step]
Bulk == prod.call = "enqueue_bulk"

ProducerReturns == prod' = IdleProducer(prod.tailBlock)

\* The base of the first block that an enqueue at the tail must add, if it adds one.
FirstNewBase == Base(tailIndex - 1) + BLOCK_SIZE
LastIndex == tailIndex + prod.count - 1

\* The block of each item of this call.
BlockOf(i) ==
  IF i < FirstNewBase THEN prod.tailBlock
  ELSE prod.chain[((i - FirstNewBase) \div BLOCK_SIZE) + 1]

Fill ==
  elements' = [b \in Blocks |-> [s \in 0 .. BLOCK_SIZE - 1 |->
                 LET here == {i \in tailIndex .. LastIndex : BlockOf(i) = b /\ Slot(i) = s}
                 IN IF here = {} THEN elements[b][s] ELSE CHOOSE i \in here : TRUE]]

StartEnqueue ==
  /\ ProducerAt("idle")
  /\ \E call \in {"enqueue", "enqueue_bulk"} :
     \E count \in IF call = "enqueue_bulk" THEN BulkCounts ELSE {1} :
       /\ tailIndex + count <= MaxItems
       /\ prod' = [prod EXCEPT
            !.pc = IF FirstNewBase < tailIndex + count THEN "room" ELSE "fill",
            !.call = call, !.count = count, !.at = FirstNewBase]
  /\ UNCHANGED <<counters, indexVars, blockVars, poolVars, cons, delivered>>

\* What enqueue() and enqueue_bulk() do when a block cannot be had.
GiveUp == IF prod.chain = <<>> THEN ProducerReturns ELSE ProducerGoesTo("undo_entry")

\* The size of the sub-queue with one more block.
CheckRoom ==
  /\ ProducerAt("room")
  /\ IF MAX_SUBQUEUE_SIZE - BLOCK_SIZE < prod.at - headIndex
       THEN GiveUp
       ELSE ProducerGoesTo("insert")
  /\ UNCHANGED <<counters, indexVars, blockVars, poolVars, cons, delivered>>

\* insert_block_index_entry() up to the store of the key.
InsertIndexEntry ==
  LET e == Header.index[NextSlot]
      free == key[e] = INVALID_BLOCK_BASE \/ value[e] = NoBlock
  IN
  /\ ProducerAt("insert")
  /\ IF free
       THEN /\ key' = [key EXCEPT ![e] = prod.at]
            /\ prod' = [prod EXCEPT !.pc = "publish", !.entry = e]
       ELSE /\ UNCHANGED key
            /\ ProducerGoesTo("grow")
  /\ UNCHANGED <<counters, blockIndex, headers, value, blockVars, poolVars, cons, delivered>>

\* new_block_index(): as many new entries as there were; the memory may be refused.
GrowIndex ==
  LET old == Header.capacity
      Grown(f, new) == [e \in 0 .. 2 * old - 1 |-> IF e < old THEN f[e] ELSE new]
  IN
  /\ ProducerAt("grow")
  /\ \/ /\ 2 * old <= MaxIndexSize
        /\ key' = Grown(key, INVALID_BLOCK_BASE)
        /\ value' = Grown(value, NoBlock)
        /\ headers' = Append(headers, LargerHeader(Header))
        /\ blockIndex' = blockIndex + 1
        /\ ProducerGoesTo("insert")
     \/ /\ GiveUp
        /\ UNCHANGED indexVars
  /\ UNCHANGED <<counters, blockVars, poolVars, cons, delivered>>

PublishIndexTail ==
  /\ ProducerAt("publish")
  /\ headers' = [headers EXCEPT ![blockIndex].tail = NextSlot]
  /\ ProducerGoesTo("requisition")
  /\ UNCHANGED <<counters, blockIndex, key, value, blockVars, poolVars, cons, delivered>>

\* requisition_block(): the initial pool, then the free list, then the heap.
RequisitionBlock ==
  LET got(b) == prod' = [prod EXCEPT !.pc = IF Bulk THEN "link" ELSE "construct",
                                     !.chain = Append(@, b)]
  IN
  /\ ProducerAt("requisition")
  /\ IF initialBlockPoolIndex < InitialBlocks
       THEN /\ initialBlockPoolIndex' = initialBlockPoolIndex + 1
            /\ got(initialBlockPoolIndex + 1)
            /\ UNCHANGED <<freeBlocks, heap>>
       ELSE /\ \/ \E b \in freeBlocks :
                    got(b) /\ freeBlocks' = freeBlocks \ {b} /\ UNCHANGED heap
               \/ \E b \in heap :
                    /\ got(b) /\ heap' = heap \ {b} /\ UNCHANGED freeBlocks
               \/ ProducerGoesTo("rewind") /\ UNCHANGED <<freeBlocks, heap>>
            /\ UNCHANGED initialBlockPoolIndex
  /\ UNCHANGED <<counters, indexVars, blockVars, cons, delivered>>

NewBlock == prod.chain[Len(prod.chain)]

\* enqueue() constructs before it links; a constructor that throws undoes the rest.
ConstructFirst ==
  /\ ProducerAt("construct")
  /\ emptied' = [emptied EXCEPT ![NewBlock] = 0]
  /\ \/ Fill /\ ProducerGoesTo("link")
     \/ ConstructorMayThrow /\ ProducerGoesTo("rewind") /\ UNCHANGED elements
  /\ UNCHANGED <<counters, indexVars, poolVars, cons, delivered>>

\* reset_empty() and the entry; enqueue_bulk() goes on with its next block.
LinkBlock ==
  /\ ProducerAt("link")
  /\ value' = [value EXCEPT ![prod.entry] = NewBlock]
  /\ emptied' = [emptied EXCEPT ![NewBlock] = 0]
  /\ IF prod.at + BLOCK_SIZE <= LastIndex
       THEN prod' = [prod EXCEPT !.pc = "room", !.at = @ + BLOCK_SIZE]
       ELSE ProducerGoesTo(IF Bulk THEN "fill" ELSE "store")
  /\ UNCHANGED <<counters, blockIndex, headers, key, elements, poolVars, cons, delivered>>

\* Elements in blocks that are linked; an exception leaves none of them.
FillBlocks ==
  /\ ProducerAt("fill")
  /\ \/ Fill /\ ProducerGoesTo("store")
     \/ ConstructorMayThrow /\ GiveUp /\ UNCHANGED elements
  /\ UNCHANGED <<counters, indexVars, emptied, poolVars, cons, delivered>>

StoreTail ==
  /\ ProducerAt("store")
  /\ tailIndex' = tailIndex + prod.count
  /\ prod' = IdleProducer(IF prod.chain = <<>> THEN prod.tailBlock ELSE NewBlock)
  /\ UNCHANGED <<headIndex, dequeueOptimisticCount, dequeueOvercommit, indexVars,
                 blockVars, poolVars, cons, delivered>>

RewindTail == headers' = [headers EXCEPT ![blockIndex].tail = (@ - 1) % Header.capacity]

\* The entry that got no block: rewind_block_index_tail(), then its value.
RewindIndexTail ==
  /\ ProducerAt("rewind")
  /\ RewindTail
  /\ ProducerGoesTo("clear")
  /\ UNCHANGED <<counters, blockIndex, key, value, blockVars, poolVars, cons, delivered>>

\* Mistake caught by BlockHasOneHolder: an exception leaves the block behind.
ClearEntryLeaksBlock ==
  /\ ProducerAt("clear")
  /\ value' = [value EXCEPT ![prod.entry] = NoBlock]
  /\ IF Bulk THEN GiveUp ELSE ProducerReturns
  /\ UNCHANGED <<counters, blockIndex, headers, key, blockVars, poolVars, cons, delivered>>

ClearEntry ==
  /\ ProducerAt("clear")
  /\ value' = [value EXCEPT ![prod.entry] = NoBlock]
  /\ IF Bulk THEN GiveUp
     ELSE IF prod.chain = <<>> THEN ProducerReturns ELSE ProducerGoesTo("give_back")
  /\ UNCHANGED <<counters, blockIndex, headers, key, blockVars, poolVars, cons, delivered>>

\* enqueue_bulk() takes its blocks out of the index, the first one first.
UndoEntry ==
  LET base == FirstNewBase + prod.undone * BLOCK_SIZE
  IN
  /\ ProducerAt("undo_entry")
  /\ value' = [value EXCEPT ![EntryFor(blockIndex, Header.tail, base)] = NoBlock]
  /\ ProducerGoesTo("undo_tail")
  /\ UNCHANGED <<counters, blockIndex, headers, key, blockVars, poolVars, cons, delivered>>

UndoTail ==
  /\ ProducerAt("undo_tail")
  /\ RewindTail
  /\ prod' = [prod EXCEPT
       !.undone = @ + 1,
       !.pc = IF prod.undone + 1 < Len(prod.chain) THEN "undo_entry" ELSE "give_back"]
  /\ UNCHANGED <<counters, blockIndex, key, value, blockVars, poolVars, cons, delivered>>

GiveBlockBack ==
  /\ ProducerAt("give_back")
  /\ AddBlockToFreeList(Head(prod.chain))
  /\ IF Len(prod.chain) = 1
       THEN ProducerReturns
       ELSE prod' = [prod EXCEPT !.chain = Tail(@)]
  /\ UNCHANGED <<counters, indexVars, blockVars, initialBlockPoolIndex, cons, delivered>>

EnqueueStep ==
  \/ StartEnqueue \/ CheckRoom \/ InsertIndexEntry \/ GrowIndex \/ PublishIndexTail
  \/ RequisitionBlock \/ ConstructFirst \/ LinkBlock \/ FillBlocks \/ StoreTail
  \/ RewindIndexTail \/ ClearEntry \/ UndoEntry \/ UndoTail \/ GiveBlockBack

-----------------------------------------------------------------------------
(* A consumer: dequeue() and dequeue_bulk() *)

ConsumerAt(c, step) == cons[c].pc = step
ConsumerGoesTo(c, step) == cons' = [cons EXCEPT ![c].pc = step]

ConsumerReturns(c) == cons' = [cons EXCEPT ![c] = IdleConsumer]

Least(a, b) == IF a < b THEN a ELSE b

LoadTail(c, max) ==
  /\ ConsumerAt(c, "idle") /\ dequeueOptimisticCount < MaxClaims
  /\ cons' = [cons EXCEPT ![c].pc = "load", ![c].tail = tailIndex, ![c].desired = max]
  /\ UNCHANGED <<counters, indexVars, blockVars, poolVars, prod, delivered>>

LoadOvercommit(c) ==
  /\ ConsumerAt(c, "load")
  /\ cons' = [cons EXCEPT ![c].pc = "check", ![c].overcommit = dequeueOvercommit]
  /\ UNCHANGED <<counters, indexVars, blockVars, poolVars, prod, delivered>>

\* The optimistic count: how many items there seem to be.
LooksFull(c) ==
  LET seen == cons[c].tail - (dequeueOptimisticCount - cons[c].overcommit)
  IN
  /\ ConsumerAt(c, "check")
  /\ IF seen > 0
       THEN cons' = [cons EXCEPT ![c].pc = "claim", ![c].tail = 0,
                                 ![c].desired = Least(@, seen)]
       ELSE ConsumerReturns(c)
  /\ UNCHANGED <<counters, indexVars, blockVars, poolVars, prod, delivered>>

\* dequeueOptimisticCount.fetch_add()
Claim(c) ==
  /\ ConsumerAt(c, "claim")
  /\ dequeueOptimisticCount' = dequeueOptimisticCount + cons[c].desired
  /\ cons' = [cons EXCEPT ![c].pc = "recheck", ![c].overcommit = 0,
                          ![c].mine = dequeueOptimisticCount - cons[c].overcommit]
  /\ UNCHANGED <<tailIndex, headIndex, dequeueOvercommit, indexVars, blockVars, poolVars,
                 prod, delivered>>

\* How many of the claimed items there are below the tail that is loaded now.
Recheck(c) ==
  LET actual == Least(cons[c].desired, tailIndex - cons[c].mine)
  IN
  /\ ConsumerAt(c, "recheck")
  /\ cons' = [cons EXCEPT
       ![c].mine = 0,
       ![c].stop = IF actual > 0 THEN actual ELSE 0,
       ![c].pc = IF actual = cons[c].desired THEN "head" ELSE "overcommit"]
  /\ UNCHANGED <<counters, indexVars, blockVars, poolVars, prod, delivered>>

\* Mistake caught by QuietQueueIsComplete: all that was claimed is given back.
OvercommitEverything(c) ==
  /\ ConsumerAt(c, "overcommit")
  /\ dequeueOvercommit' = dequeueOvercommit + cons[c].desired
  /\ IF cons[c].stop > 0 THEN ConsumerGoesTo(c, "head") ELSE ConsumerReturns(c)
  /\ UNCHANGED <<tailIndex, headIndex, dequeueOptimisticCount, indexVars, blockVars, poolVars,
                 prod, delivered>>

\* dequeueOvercommit.fetch_add() for the items that are not there.
Overcommit(c) ==
  /\ ConsumerAt(c, "overcommit")
  /\ dequeueOvercommit' = dequeueOvercommit + cons[c].desired - cons[c].stop
  /\ IF cons[c].stop > 0 THEN ConsumerGoesTo(c, "head") ELSE ConsumerReturns(c)
  /\ UNCHANGED <<tailIndex, headIndex, dequeueOptimisticCount, indexVars, blockVars, poolVars,
                 prod, delivered>>

\* headIndex.fetch_add(): from here on the items index .. stop - 1 are this consumer's.
ClaimHead(c) ==
  /\ ConsumerAt(c, "head")
  /\ headIndex' = headIndex + cons[c].stop
  /\ cons' = [cons EXCEPT ![c].pc = "header", ![c].index = headIndex, ![c].desired = 0,
                          ![c].stop = headIndex + cons[c].stop]
  /\ UNCHANGED <<tailIndex, dequeueOptimisticCount, dequeueOvercommit, indexVars, blockVars,
                 poolVars, prod, delivered>>

LoadBlockIndex(c) ==
  /\ ConsumerAt(c, "header")
  /\ cons' = [cons EXCEPT ![c].pc = "slot", ![c].header = blockIndex]
  /\ UNCHANGED <<counters, indexVars, blockVars, poolVars, prod, delivered>>

LoadIndexTail(c) ==
  /\ ConsumerAt(c, "slot")
  /\ cons' = [cons EXCEPT ![c].pc = "find", ![c].slot = headers[cons[c].header].tail]
  /\ UNCHANGED <<counters, indexVars, blockVars, poolVars, prod, delivered>>

\* The key under that tail gives the offset; from here on slot is the item's own.
FindEntry(c) ==
  LET h == headers[cons[c].header]
      offset == (Base(cons[c].index) - key[h.index[cons[c].slot]]) \div BLOCK_SIZE
  IN
  /\ ConsumerAt(c, "find")
  /\ cons' = [cons EXCEPT ![c].pc = "take", ![c].slot = (@ + offset) % h.capacity]
  /\ UNCHANGED <<counters, indexVars, blockVars, poolVars, prod, delivered>>

EntryOf(c) == headers[cons[c].header].index[cons[c].slot]

\* The end of this consumer's items in the block it is at.
EndIndex(c) == Least(cons[c].stop, Base(cons[c].index) + BLOCK_SIZE)

\* The items are moved out and destroyed.  Nobody else has a claim on their slots.
TakeItems(c) ==
  LET block == value[EntryOf(c)]
      slots == {Slot(i) : i \in cons[c].index .. EndIndex(c) - 1}
  IN
  /\ ConsumerAt(c, "take")
  /\ delivered' = delivered \cup {elements[block][s] : s \in slots}
  /\ elements' = [elements EXCEPT ![block] =
                    [s \in DOMAIN @ |-> IF s \in slots THEN NoItem ELSE @[s]]]
  /\ cons' = [cons EXCEPT ![c].pc = "empty", ![c].block = block]
  /\ UNCHANGED <<counters, indexVars, emptied, poolVars, prod>>

\* The rest of a bulk lies in the next entry of the same header.
NextBlockOrReturn(c) ==
  IF EndIndex(c) = cons[c].stop
    THEN ConsumerReturns(c)
    ELSE cons' = [cons EXCEPT ![c].pc = "take", ![c].index = EndIndex(c), ![c].block = NoBlock,
                              ![c].slot = (@ + 1) % headers[cons[c].header].capacity]

\* set_empty() and set_many_empty(): the consumer that completes the block frees it.
SetEmpty(c) ==
  LET b == cons[c].block
  IN
  /\ ConsumerAt(c, "empty")
  /\ emptied' = [emptied EXCEPT ![b] = @ + EndIndex(c) - cons[c].index]
  /\ IF emptied[b] + EndIndex(c) - cons[c].index = BLOCK_SIZE
       THEN ConsumerGoesTo(c, "unlink")
       ELSE NextBlockOrReturn(c)
  /\ UNCHANGED <<counters, indexVars, elements, poolVars, prod, delivered>>

UnlinkBlock(c) ==
  /\ ConsumerAt(c, "unlink")
  /\ value' = [value EXCEPT ![EntryOf(c)] = NoBlock]
  /\ ConsumerGoesTo(c, "recycle")
  /\ UNCHANGED <<counters, blockIndex, headers, key, blockVars, poolVars, prod, delivered>>

RecycleBlock(c) ==
  /\ ConsumerAt(c, "recycle")
  /\ AddBlockToFreeList(cons[c].block)
  /\ NextBlockOrReturn(c)
  /\ UNCHANGED <<counters, indexVars, blockVars, initialBlockPoolIndex, prod, delivered>>

DequeueStep(c) ==
  \/ \E max \in {1} \cup BulkCounts : LoadTail(c, max)
  \/ LoadOvercommit(c) \/ LooksFull(c) \/ Claim(c) \/ Recheck(c) \/ Overcommit(c) \/ ClaimHead(c)
  \/ LoadBlockIndex(c) \/ LoadIndexTail(c) \/ FindEntry(c) \/ TakeItems(c)
  \/ SetEmpty(c) \/ UnlinkBlock(c) \/ RecycleBlock(c)

ImplicitNext == EnqueueStep \/ \E c \in Consumers : DequeueStep(c)

ImplicitSpec == ImplicitInit /\ [][ImplicitNext]_queueVars

-----------------------------------------------------------------------------
(* Properties *)

\* A consumer that has claimed an item finds it: while the producer adds blocks,
\* replaces the index and takes back what it could not use, and other consumers
\* unlink theirs, the entry at the claimed index carries its key and a block, as
\* get_block_index_index_for_index() asserts, and in that block lie the items that
\* were enqueued at these indices and nobody has taken.
ClaimedItemsAreFound ==
  \A c \in Consumers : ConsumerAt(c, "take") =>
    LET e == EntryOf(c)
    IN /\ key[e] = Base(cons[c].index)
       /\ value[e] # NoBlock
       /\ \A i \in cons[c].index .. EndIndex(c) - 1 : elements[value[e]][Slot(i)] = i

\* Where a block is held.
Holders(b) ==
  {<<"pool", x>> : x \in freeBlocks \cap {b}} \cup {<<"heap", x>> : x \in heap \cap {b}}
  \cup {<<"initial", x>> : x \in (initialBlockPoolIndex + 1 .. InitialBlocks) \cap {b}}
  \cup {<<"index", e>> : e \in {e \in DOMAIN value : value[e] = b}}
  \cup {<<"producer", k>> : k \in {k \in DOMAIN prod.chain :
          prod.chain[k] = b /\ \A e \in DOMAIN value : value[e] # b}}
  \cup {<<"consumer", c>> : c \in {c \in Consumers :
          ConsumerAt(c, "recycle") /\ cons[c].block = b}}

\* A block is in the index, in a pool, or in the hands of the one thread that moves
\* it between them: it is never used for two stretches of the queue at once, and no
\* failed allocation, exception or last dequeue leaves it behind.
BlockHasOneHolder == \A b \in Blocks : Cardinality(Holders(b)) = 1

\* The head never passes the tail, although consumers claim before they know that
\* there is an item; and when no call is running the claims that found nothing are
\* all given back, what is below the head is delivered and what is above is still
\* in linked blocks, so that no item is stranded behind a wrong count.
QuietQueueIsComplete ==
  /\ headIndex <= tailIndex
  /\ (ProducerAt("idle") /\ \A c \in Consumers : ConsumerAt(c, "idle")) =>
       /\ dequeueOptimisticCount - dequeueOvercommit = headIndex
       /\ delivered = 0 .. headIndex - 1
       /\ \A i \in headIndex .. tailIndex - 1 :
            LET b == value[EntryFor(blockIndex, Header.tail, i)]
            IN b # NoBlock /\ elements[b][Slot(i)] = i
=============================================================================
