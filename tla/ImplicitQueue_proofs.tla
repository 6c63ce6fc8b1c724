------------------------- MODULE ImplicitQueue_proofs -------------------------
(***************************************************************************)
(* Proofs about the sub-queue of one producer, for every finite set of     *)
(* consumers, block size, pool, index size and every bound of the model.   *)
(*                                                                         *)
(* The shape: an index only grows and only the tail of the newest header   *)
(* moves, so the older headers that consumers may hold stay as they were;  *)
(* and the blocks have numbers that the entries stand for.                 *)
(*                                                                         *)
(* The counters: a claim that is running is a promise of so many items.    *)
(* What is claimed optimistically is below the head, promised, or given    *)
(* back as overcommit (Balance), and some order of the running claims      *)
(* tells which of them are sure of their items (ClaimOrder). So the head   *)
(* never passes the tail, and the stretches that consumers work on lie     *)
(* apart. The stored items are the matter of ImplicitQueueContent_proofs.  *)
(***************************************************************************)
EXTENDS ImplicitQueue, SequenceTheorems, FiniteSetTheorems, TLAPS

-----------------------------------------------------------------------------
(* Remainders *)

\* A positive multiple of a block size or of the capacity of an index.
LEMMA TimesPositive ==
  ASSUME NEW m \in Nat \ {0}, NEW k \in Int, k > 0
  PROVE  m * k >= m
<1>1. m * (k - 1) >= 0
  OBVIOUS
<1>2. m * (k - 1) = m * k - m
  OBVIOUS
<1> QED BY <1>1, <1>2

\* Quotient and remainder, as the code takes them with shifts and masks.
LEMMA DivMod ==
  ASSUME NEW x \in Int, NEW m \in Nat \ {0}
  PROVE  /\ x \div m \in Int /\ x % m \in 0 .. m - 1
         /\ x = m * (x \div m) + (x % m)
<1>1. x \div m \in Int
  OBVIOUS
<1>2. x % m \in 0 .. m - 1
  OBVIOUS
<1>3. x % m = x - m * (x \div m)
  OBVIOUS
<1> DEFINE q == x \div m
           r == x % m
<1> HIDE DEF q, r
<1>4. q \in Int /\ r \in Int /\ r = x - m * q
  BY <1>1, <1>2, <1>3 DEF q, r
<1>5. x = m * q + r
  BY <1>4
<1> QED BY <1>1, <1>2, <1>5 DEF q, r

\* And they are the only ones.
LEMMA ModIs ==
  ASSUME NEW x \in Int, NEW m \in Nat \ {0}, NEW q \in Int, NEW r \in 0 .. m - 1,
         x = m * q + r
  PROVE  x % m = r /\ x \div m = q
<1> DEFINE q2 == x \div m
           r2 == x % m
<1>1. q2 \in Int /\ r2 \in 0 .. m - 1 /\ x = m * q2 + r2
  BY DivMod
<1> HIDE DEF q2, r2
<1>2. m * (q - q2) = r2 - r /\ m * (q2 - q) = r - r2
  BY <1>1
<1>3. CASE q - q2 > 0
  BY <1>1, <1>2, <1>3, TimesPositive
<1>4. CASE q2 - q > 0
  BY <1>1, <1>2, <1>4, TimesPositive
<1>5. CASE q = q2
  BY <1>1, <1>5 DEF q2, r2
<1> QED BY <1>1, <1>3, <1>4, <1>5

\* A remainder is a slot of a ring.
LEMMA ModIn ==
  ASSUME NEW x \in Int, NEW m \in Nat \ {0}
  PROVE  x % m \in 0 .. m - 1
  BY DivMod

\* Remainders agree when numbers differ by a multiple.
LEMMA ModShift ==
  ASSUME NEW x \in Int, NEW m \in Nat \ {0}, NEW k \in Int
  PROVE  (x + m * k) % m = x % m
<1> DEFINE q == x \div m
           r == x % m
<1>1. q \in Int /\ r \in 0 .. m - 1 /\ x = m * q + r
  BY DivMod
<1> HIDE DEF q, r
<1>2. x + m * k = m * (q + k) + r
  BY <1>1
<1>3. (x + m * k) \in Int /\ q + k \in Int
  BY <1>1
<1>4. (x + m * k) % m = r
  BY <1>1, <1>2, <1>3, ModIs
<1> QED BY <1>4 DEF r

\* Two numbers have one slot of a ring when they are a multiple of its length apart.
LEMMA SameMod ==
  ASSUME NEW x \in Int, NEW y \in Int, NEW m \in Nat \ {0}
  PROVE  x % m = y % m <=> \E k \in Int : x = y + m * k
<1>1. ASSUME x % m = y % m PROVE \E k \in Int : x = y + m * k
  <2>1. x = m * (x \div m) + (x % m) /\ y = m * (y \div m) + (y % m) /\ x \div m \in Int
        /\ y \div m \in Int
    BY DivMod
  <2> DEFINE k == x \div m - y \div m
  <2>2. k \in Int
    BY <2>1
  <2>3. x = y + m * k
    BY <1>1, <2>1
  <2> QED BY <2>2, <2>3
<1>2. ASSUME NEW k \in Int, x = y + m * k PROVE x % m = y % m
  BY <1>2, ModShift
<1> QED BY <1>1, <1>2

\* Going round a ring twice.
LEMMA ModAdd ==
  ASSUME NEW x \in Int, NEW y \in Int, NEW m \in Nat \ {0}
  PROVE  ((x % m) + y) % m = (x + y) % m
<1> DEFINE q == x \div m
           r == x % m
<1>1. q \in Int /\ r \in 0 .. m - 1 /\ x = m * q + r
  BY DivMod
<1> HIDE DEF q, r
<1> DEFINE a == x + y
           b == r + y
<1>2. a \in Int /\ b \in Int /\ a = b + m * q
  BY <1>1
<1> HIDE DEF a, b
<1>3. a % m = b % m
  BY <1>1, <1>2, ModShift
<1> QED BY <1>3 DEF a, b, r

\* Numbers of one slot that are less than the ring apart are the same.
LEMMA CloseMod ==
  ASSUME NEW x \in Int, NEW y \in Int, NEW m \in Nat \ {0}, x % m = y % m, x - y < m, y - x < m
  PROVE  x = y
<1>1. PICK k \in Int : x = y + m * k
  BY SameMod
<1>2. m * (0 - k) = y - x
  BY <1>1
<1>3. CASE k > 0
  BY <1>1, <1>3, TimesPositive
<1>4. CASE 0 - k > 0
  BY <1>2, <1>4, TimesPositive
<1>5. CASE k = 0
  BY <1>1, <1>5
<1> QED BY <1>3, <1>4, <1>5
-----------------------------------------------------------------------------
(* Blocks have numbers: the items of block n of the queue are those from   *)
(* BLOCK_SIZE * n on.                                                      *)

Num(i) == i \div BLOCK_SIZE

\* An index is a place in a numbered block (the masks of concurrentqueue.h:2665).
LEMMA Place ==
  ASSUME NEW i \in Int
  PROVE  /\ Num(i) \in Int /\ Slot(i) \in 0 .. BLOCK_SIZE - 1
         /\ i = BLOCK_SIZE * Num(i) + Slot(i)
         /\ Base(i) = BLOCK_SIZE * Num(i)
<1>1. BLOCK_SIZE \in Nat \ {0}
  BY QueueShapeAssumption
<1>2. Num(i) \in Int /\ Slot(i) \in 0 .. BLOCK_SIZE - 1 /\ i = BLOCK_SIZE * Num(i) + Slot(i)
  BY <1>1, DivMod DEF Num, Slot
<1> QED BY <1>1, <1>2 DEF Base

\* The number of a place.
LEMMA NumOf ==
  ASSUME NEW n \in Int, NEW i \in Int, BLOCK_SIZE * n <= i, i < BLOCK_SIZE * n + BLOCK_SIZE
  PROVE  Num(i) = n /\ Slot(i) = i - BLOCK_SIZE * n
<1>1. BLOCK_SIZE \in Nat \ {0}
  BY QueueShapeAssumption
<1>2. i - BLOCK_SIZE * n \in 0 .. BLOCK_SIZE - 1
  BY <1>1
<1>3. i = BLOCK_SIZE * n + (i - BLOCK_SIZE * n)
  BY <1>1
<1> QED BY <1>1, <1>2, <1>3, ModIs DEF Num, Slot

\* Products with the block size keep the order.
LEMMA BasesOrdered ==
  ASSUME NEW m \in Int, NEW n \in Int
  PROVE  /\ BLOCK_SIZE * m \in Int /\ BLOCK_SIZE * n \in Int
         /\ m < n => BLOCK_SIZE * m + BLOCK_SIZE <= BLOCK_SIZE * n
         /\ m <= n => BLOCK_SIZE * m <= BLOCK_SIZE * n
         /\ BLOCK_SIZE * (m + 1) = BLOCK_SIZE * m + BLOCK_SIZE
         /\ BLOCK_SIZE * m = BLOCK_SIZE * n => m = n
<1>1. BLOCK_SIZE \in Nat \ {0}
  BY QueueShapeAssumption
<1>2. BLOCK_SIZE * m \in Int /\ BLOCK_SIZE * n \in Int
  BY <1>1
<1>3. ASSUME NEW x \in Int, NEW y \in Int, x < y
      PROVE  BLOCK_SIZE * x + BLOCK_SIZE <= BLOCK_SIZE * y
  <2>1. BLOCK_SIZE * (y - x) >= BLOCK_SIZE
    BY <1>1, <1>3, TimesPositive
  <2>2. BLOCK_SIZE * (y - x) = BLOCK_SIZE * y - BLOCK_SIZE * x
    BY <1>1
  <2> QED BY <1>1, <2>1, <2>2
<1>4. m < n => BLOCK_SIZE * m + BLOCK_SIZE <= BLOCK_SIZE * n
  BY <1>3
<1>5. n < m => BLOCK_SIZE * n + BLOCK_SIZE <= BLOCK_SIZE * m
  BY <1>3
<1>6. BLOCK_SIZE * (m + 1) = BLOCK_SIZE * m + BLOCK_SIZE
  BY <1>1
<1> QED BY <1>1, <1>2, <1>4, <1>5, <1>6

-----------------------------------------------------------------------------
(* Types *)

Indexes == UNION {[0 .. n - 1 -> Nat] : n \in Nat}
HeaderType == [capacity : Nat \ {0}, tail : Nat, index : Indexes]

Capacity == Header.capacity
Entries == 0 .. Capacity - 1

\* The array of a header, and that its entries are among those of the newest, the
\* capacity of which is a multiple of its own.
HeaderShape(h) ==
  /\ headers[h].tail \in 0 .. headers[h].capacity - 1
  /\ headers[h].index \in [0 .. headers[h].capacity - 1 -> Entries]
  /\ \E m \in Nat : Capacity = m * headers[h].capacity

\* Every entry has one place in the newest header.
NewestComplete ==
  /\ \A j, k \in Entries : Header.index[j] = Header.index[k] => j = k
  /\ \A e \in Entries : \E j \in Entries : Header.index[j] = e

HeaderInv ==
  /\ blockIndex \in Nat \ {0} /\ headers \in Seq(HeaderType) /\ Len(headers) = blockIndex
  /\ \A h \in 1 .. blockIndex : HeaderShape(h)
  /\ NewestComplete

\* What a Block* holds.
Pointers == Blocks \cup {NoBlock}

ProducerSteps ==
  {"idle", "room", "insert", "grow", "publish", "requisition", "construct", "link", "fill",
   "store", "rewind", "clear", "undo_entry", "undo_tail", "give_back"}
ProducerType ==
  [pc : ProducerSteps, tailBlock : Pointers,
   call : {"none", "enqueue", "enqueue_bulk"}, count : Nat, at : Int,
   entry : Nat, chain : Seq(Pointers), undone : Nat]

ConsumerSteps ==
  {"idle", "load", "check", "claim", "recheck", "overcommit", "head", "header", "slot",
   "find", "take", "empty", "unlink", "recycle"}
ConsumerType ==
  [pc : ConsumerSteps, tail : Int, overcommit : Int, desired : Int, mine : Int, index : Int,
   stop : Int, header : Int, slot : Int, block : Pointers]

CounterType ==
  /\ tailIndex \in Nat /\ headIndex \in Int
  /\ dequeueOptimisticCount \in Int /\ dequeueOvercommit \in Int
StoreType ==
  /\ key \in [Entries -> Int] /\ value \in [Entries -> Pointers]
  /\ elements \in [Blocks -> [0 .. BLOCK_SIZE - 1 -> Int]] /\ emptied \in [Blocks -> Int]
PoolType ==
  /\ initialBlockPoolIndex \in 0 .. InitialBlocks
  /\ freeBlocks \subseteq Pointers /\ heap \subseteq Pointers

\* A consumer that works on its items has loaded a header and a slot of it.
LoadedHeader == {"slot", "find", "take", "empty", "unlink", "recycle"}
LoadedSlot == {"find", "take", "empty", "unlink", "recycle"}
LocalType ==
  /\ cons \in [Consumers -> ConsumerType]
  /\ \A c \in Consumers : cons[c].pc \in LoadedHeader => cons[c].header \in 1 .. blockIndex
  /\ \A c \in Consumers : cons[c].pc \in LoadedSlot =>
       cons[c].slot \in 0 .. headers[cons[c].header].capacity - 1

\* The number of the block that the producer adds next when no call is running, how
\* many blocks this call has, and the number of the block it is adding.
NextNumber == Num(tailIndex - 1) + 1
Chained == Len(prod.chain)
AtNumber == Num(prod.at)

Entering == {"room", "insert", "grow", "publish", "requisition"}
Linking == {"construct", "link"}
Backing == {"rewind", "clear"}
Undoing == {"undo_entry", "undo_tail"}

\* What the locals of an enqueue() or enqueue_bulk() are at each of its steps.
ProducerInv ==
  /\ prod \in ProducerType /\ prod.entry \in Entries
  /\ prod.pc = "idle" => prod.chain = <<>>
  /\ prod.pc # "idle" => prod.count > 0 /\ (~Bulk => prod.count = 1)
  /\ prod.pc \in Entering =>
       /\ prod.at = BLOCK_SIZE * (NextNumber + Chained) /\ prod.at <= LastIndex
       /\ ~Bulk => prod.chain = <<>>
  /\ prod.pc \in Linking =>
       /\ Chained > 0 /\ (~Bulk => Chained = 1)
       /\ prod.at = BLOCK_SIZE * (NextNumber + Chained - 1) /\ prod.at <= LastIndex
  /\ prod.pc = "construct" => ~Bulk
  /\ prod.pc \in Backing =>
       IF Bulk THEN prod.at = BLOCK_SIZE * (NextNumber + Chained)
       ELSE prod.at = BLOCK_SIZE * NextNumber /\ Chained <= 1
  /\ prod.pc = "fill" /\ ~Bulk => prod.chain = <<>>
  /\ prod.pc \in {"fill", "store"} => NextNumber + Chained = Num(LastIndex) + 1
  /\ prod.pc \in Undoing => Bulk /\ prod.undone < Chained
  /\ prod.pc = "give_back" => Chained > 0
  /\ prod.pc \notin Undoing \cup {"give_back"} => prod.undone = 0

QueueShape ==
  HeaderInv /\ ProducerInv /\ CounterType /\ StoreType /\ PoolType /\ LocalType

-----------------------------------------------------------------------------
(* The headers of the block index *)

\* What the headers that new_block_index() made are, the newest first.
LEMMA HeaderTypes ==
  ASSUME HeaderInv
  PROVE  /\ Header \in HeaderType /\ Capacity \in Nat \ {0}
         /\ Header.tail \in Entries /\ Header.index \in [Entries -> Entries]
         /\ NextSlot \in Entries
         /\ \A h \in 1 .. blockIndex :
              /\ headers[h] \in HeaderType /\ headers[h].capacity \in Nat \ {0}
              /\ headers[h].tail \in 0 .. headers[h].capacity - 1
              /\ headers[h].index \in [0 .. headers[h].capacity - 1 -> Entries]
<1>1. \A h \in 1 .. blockIndex : headers[h] \in HeaderType
  BY DEF HeaderInv
<1>2. \A h \in 1 .. blockIndex : headers[h].capacity \in Nat \ {0}
  BY <1>1 DEF HeaderType
<1>3. blockIndex \in 1 .. blockIndex
  BY DEF HeaderInv
<1>4. \A h \in 1 .. blockIndex : HeaderShape(h)
  BY DEF HeaderInv
<1>5. Header \in HeaderType /\ Capacity \in Nat \ {0}
  BY <1>1, <1>2, <1>3 DEF Header, Capacity
<1>6. Header.tail \in Entries /\ Header.index \in [Entries -> Entries]
  BY <1>3, <1>4 DEF HeaderShape, Header, Capacity, Entries
<1>7. NextSlot \in Entries
  <2>1. Header.tail + 1 \in Int
    BY <1>5, <1>6 DEF Entries
  <2>2. (Header.tail + 1) % Capacity \in 0 .. Capacity - 1
    BY <1>5, <2>1, ModIn
  <2> QED BY <2>2 DEF NextSlot, Entries, Capacity
<1> QED BY <1>1, <1>2, <1>4, <1>5, <1>6, <1>7 DEF HeaderShape

\* The store of a tail (concurrentqueue.h:2935, :2960) leaves the arrays alone.
LEMMA TailStored ==
  ASSUME HeaderInv, NEW t \in Entries, UNCHANGED blockIndex,
         headers' = [headers EXCEPT ![blockIndex].tail = t]
  PROVE  /\ HeaderInv' /\ Capacity' = Capacity
         /\ Header'.tail = t /\ Header'.index = Header.index
         /\ \A h \in 1 .. blockIndex :
              headers'[h].capacity = headers[h].capacity /\ headers'[h].index = headers[h].index
<1>1. /\ blockIndex \in 1 .. blockIndex /\ blockIndex \in Nat \ {0}
      /\ headers \in Seq(HeaderType) /\ Len(headers) = blockIndex
  BY DEF HeaderInv
<1>2. \A h \in 1 .. blockIndex : headers[h] \in HeaderType
  BY HeaderTypes
<1>3. t \in Nat
  BY HeaderTypes DEF Entries
<1> DEFINE new == [headers[blockIndex] EXCEPT !.tail = t]
<1>4. new \in HeaderType
  BY <1>1, <1>2, <1>3 DEF HeaderType
<1>5. /\ new.tail = t /\ new.capacity = headers[blockIndex].capacity
      /\ new.index = headers[blockIndex].index
  BY <1>1, <1>2 DEF HeaderType
<1>6. headers' = [headers EXCEPT ![blockIndex] = new]
  OBVIOUS
<1> HIDE DEF new
<1>7. headers' \in Seq(HeaderType) /\ Len(headers') = blockIndex
  BY <1>1, <1>4, <1>6
<1>8. \A h \in 1 .. blockIndex : headers'[h] = IF h = blockIndex THEN new ELSE headers[h]
  BY <1>1, <1>6
<1>9. \A h \in 1 .. blockIndex :
        headers'[h].capacity = headers[h].capacity /\ headers'[h].index = headers[h].index
  BY <1>5, <1>8
<1>10. Capacity' = Capacity /\ Header'.tail = t /\ Header'.index = Header.index
  BY <1>1, <1>5, <1>8 DEF Capacity, Header
<1>11. Entries' = Entries
  BY <1>10 DEF Entries
<1>12. \A h \in 1 .. blockIndex' : HeaderShape(h)'
  <2> SUFFICES ASSUME NEW h \in 1 .. blockIndex PROVE HeaderShape(h)'
    OBVIOUS
  <2>1. HeaderShape(h)
    BY DEF HeaderInv
  <2>2. headers'[h].tail \in 0 .. headers'[h].capacity - 1
    BY <1>5, <1>8, <1>9, <2>1 DEF HeaderShape, Entries, Capacity, Header
  <2>3. headers'[h].index \in [0 .. headers'[h].capacity - 1 -> Entries]
    BY <1>9, <2>1 DEF HeaderShape
  <2>4. \E m \in Nat : Capacity = m * headers'[h].capacity
    BY <1>9, <2>1, Zenon DEF HeaderShape
  <2> QED BY <1>10, <1>11, <2>2, <2>3, <2>4, Zenon DEF HeaderShape
<1>13. NewestComplete'
  <2>1. NewestComplete
    BY DEF HeaderInv
  <2> QED BY <1>10, <1>11, <2>1 DEF NewestComplete
<1> QED BY <1>1, <1>7, <1>9, <1>10, <1>12, <1>13 DEF HeaderInv

\* new_block_index() copies the entries from the oldest to the newest and adds as many
\* (concurrentqueue.h:3004-3027).
LEMMA LargerIs ==
  ASSUME HeaderInv
  PROVE  LET n == LargerHeader(Header) IN
         /\ n \in HeaderType /\ n.capacity = 2 * Capacity /\ n.tail = Capacity - 1
         /\ n.index \in [0 .. 2 * Capacity - 1 -> 0 .. 2 * Capacity - 1]
         /\ \A k \in Entries : /\ (Header.tail + 1 + k) % Capacity \in Entries
                               /\ n.index[k] = Header.index[(Header.tail + 1 + k) % Capacity]
                               /\ n.index[k] \in Entries
         /\ \A k \in Capacity .. 2 * Capacity - 1 : n.index[k] = k
<1> DEFINE n == LargerHeader(Header)
<1>1. /\ Header \in HeaderType /\ Capacity \in Nat \ {0} /\ Header.tail \in Entries
      /\ Header.index \in [Entries -> Entries]
  BY HeaderTypes
<1>2. \A k \in Entries : (Header.tail + 1 + k) % Capacity \in Entries
  <2> TAKE k \in Entries
  <2>1. Header.tail + 1 + k \in Int
    BY <1>1 DEF Entries
  <2> QED BY <1>1, <2>1, ModIn DEF Entries
<1>3. /\ n.capacity = 2 * Capacity /\ n.tail = Capacity - 1
      /\ n.index = [k \in 0 .. 2 * Capacity - 1 |->
                      IF k < Capacity THEN Header.index[(Header.tail + 1 + k) % Capacity] ELSE k]
      /\ n = [capacity |-> n.capacity, tail |-> n.tail, index |-> n.index]
  BY DEF LargerHeader, Capacity
<1> HIDE DEF n
<1>4. \A k \in Entries : n.index[k] = Header.index[(Header.tail + 1 + k) % Capacity]
  BY <1>1, <1>3 DEF Entries
<1>5. \A k \in Entries : n.index[k] \in Entries
  BY <1>1, <1>2, <1>4
<1>6. \A k \in Capacity .. 2 * Capacity - 1 : n.index[k] = k
  BY <1>1, <1>3
<1>7. \A k \in 0 .. 2 * Capacity - 1 : n.index[k] \in 0 .. 2 * Capacity - 1
  <2> TAKE k \in 0 .. 2 * Capacity - 1
  <2>1. CASE k < Capacity
    <3>1. k \in Entries
      BY <1>1, <2>1 DEF Entries
    <3>2. n.index[k] \in 0 .. Capacity - 1
      BY <1>5, <3>1 DEF Entries
    <3> QED BY <1>1, <3>2
  <2>2. CASE k >= Capacity
    BY <1>1, <1>6, <2>2
  <2> QED BY <1>1, <2>1, <2>2
<1>8. n.index \in [0 .. 2 * Capacity - 1 -> 0 .. 2 * Capacity - 1]
  BY <1>3, <1>7
<1>9. n.index \in Indexes
  <2>1. n.index \in [0 .. 2 * Capacity - 1 -> Nat]
    BY <1>1, <1>8
  <2>2. 2 * Capacity \in Nat
    BY <1>1
  <2> QED BY <2>1, <2>2, Zenon DEF Indexes
<1>10. n \in HeaderType
  <2>1. n.capacity \in Nat \ {0} /\ n.tail \in Nat
    BY <1>1, <1>3
  <2> HIDE DEF HeaderType
  <2>2. [capacity |-> n.capacity, tail |-> n.tail, index |-> n.index] \in HeaderType
    BY <1>9, <2>1 DEF HeaderType
  <2> QED BY <1>3, <2>2
<1> QED BY <1>2, <1>3, <1>4, <1>5, <1>6, <1>8, <1>10 DEF n

\* new_block_index() (:3004-3027) leaves the headers well formed, and the old ones as they are.
LEMMA IndexGrown ==
  ASSUME HeaderInv, headers' = Append(headers, LargerHeader(Header)), blockIndex' = blockIndex + 1
  PROVE  /\ HeaderInv' /\ Capacity' = 2 * Capacity /\ Header' = LargerHeader(Header)
         /\ \A h \in 1 .. blockIndex : headers'[h] = headers[h]
<1> DEFINE n == LargerHeader(Header)
           cap == Capacity
           tl == Header.tail
<1>1. /\ Header \in HeaderType /\ cap \in Nat \ {0} /\ tl \in Nat
      /\ Header.index \in [Entries -> Entries] /\ Entries = 0 .. cap - 1
  BY HeaderTypes DEF Entries
<1>2. /\ n \in HeaderType /\ n.capacity = 2 * cap /\ n.tail = cap - 1
      /\ n.index \in [0 .. 2 * cap - 1 -> 0 .. 2 * cap - 1]
      /\ \A k \in Entries : /\ (tl + 1 + k) % cap \in Entries
                            /\ n.index[k] = Header.index[(tl + 1 + k) % cap]
                            /\ n.index[k] \in Entries
      /\ \A k \in cap .. 2 * cap - 1 : n.index[k] = k
  BY LargerIs
<1>3. headers' = Append(headers, n)
  OBVIOUS
<1> HIDE DEF n, tl
<1>4. /\ headers \in Seq(HeaderType) /\ Len(headers) = blockIndex /\ blockIndex \in Nat \ {0}
      /\ \A h \in 1 .. blockIndex : HeaderShape(h)
      /\ NewestComplete
  BY DEF HeaderInv
<1>5. headers' \in Seq(HeaderType) /\ Len(headers') = blockIndex + 1
  BY <1>2, <1>3, <1>4
<1>6. /\ \A h \in 1 .. blockIndex : headers'[h] = headers[h]
      /\ headers'[blockIndex + 1] = n
  BY <1>3, <1>4
<1>7. Header' = n /\ Capacity' = 2 * cap
  BY <1>2, <1>6 DEF Header, Capacity
<1>7a. Capacity = cap
  OBVIOUS
<1> HIDE DEF cap
<1>8. Entries' = 0 .. 2 * cap - 1
  BY <1>7 DEF Entries
<1>9. Entries \subseteq 0 .. 2 * cap - 1
  BY <1>1
<1>10. \A h \in 1 .. blockIndex + 1 : HeaderShape(h)'
  <2> SUFFICES ASSUME NEW h \in 1 .. blockIndex + 1 PROVE HeaderShape(h)'
    OBVIOUS
  <2>1. CASE h \in 1 .. blockIndex
    <3>1. headers'[h] = headers[h] /\ HeaderShape(h)
      BY <1>4, <1>6, <2>1
    <3>2. headers[h].capacity \in Nat
      BY <2>1, HeaderTypes
    <3>3. PICK m \in Nat : cap = m * headers[h].capacity
      BY <1>7a, <3>1 DEF HeaderShape
    <3>4. 2 * m \in Nat /\ 2 * cap = (2 * m) * headers[h].capacity
      BY <3>2, <3>3
    <3>5. headers[h].index \in [0 .. headers[h].capacity - 1 -> 0 .. 2 * cap - 1]
      BY <1>9, <3>1 DEF HeaderShape
    <3>6. headers[h].tail \in 0 .. headers[h].capacity - 1
      BY <3>1 DEF HeaderShape
    <3> QED BY <1>7, <1>8, <3>1, <3>4, <3>5, <3>6 DEF HeaderShape
  <2>2. CASE h = blockIndex + 1
    <3>1. headers'[h] = n
      BY <1>6, <2>2
    <3>2. 1 \in Nat /\ 2 * cap = 1 * n.capacity
      BY <1>1, <1>2
    <3>3. n.tail \in 0 .. n.capacity - 1
      BY <1>1, <1>2
    <3> QED BY <1>2, <1>7, <1>8, <3>1, <3>2, <3>3 DEF HeaderShape
  <2> QED BY <1>4, <2>1, <2>2
<1>11. NewestComplete'
  <2>1. ASSUME NEW j \in 0 .. 2 * cap - 1, NEW k \in 0 .. 2 * cap - 1, n.index[j] = n.index[k],
               j < cap, k < cap
        PROVE  j = k
    <3>1. j \in Entries /\ k \in Entries
      BY <1>1, <2>1
    <3> DEFINE a == tl + 1 + j
               b == tl + 1 + k
    <3>2. a % cap \in Entries /\ b % cap \in Entries
      BY <1>2, <3>1
    <3>3. Header.index[a % cap] = Header.index[b % cap]
      BY <1>2, <2>1, <3>1
    <3>4. a % cap = b % cap
      BY <1>4, <3>2, <3>3 DEF NewestComplete
    <3>5. a \in Int /\ b \in Int /\ a - b < cap /\ b - a < cap /\ (a = b => j = k)
      BY <1>1, <3>1
    <3> HIDE DEF a, b
    <3>6. a = b
      BY <1>1, <3>4, <3>5, CloseMod
    <3> QED BY <3>5, <3>6
  <2>2. ASSUME NEW j \in 0 .. 2 * cap - 1, NEW k \in 0 .. 2 * cap - 1, n.index[j] = n.index[k]
        PROVE  j = k
    <3>0. (j < cap => j \in Entries) /\ (k < cap => k \in Entries)
      BY <1>1
    <3>1. j < cap => n.index[j] \in Entries
      BY <1>2, <3>0, Zenon
    <3>2. k < cap => n.index[k] \in Entries
      BY <1>2, <3>0, Zenon
    <3>3a. /\ j >= cap => j \in cap .. 2 * cap - 1
           /\ k >= cap => k \in cap .. 2 * cap - 1
      BY <1>1
    <3>3b. \A i \in cap .. 2 * cap - 1 : n.index[i] = i
      BY <1>2, Zenon
    <3>3. j >= cap => n.index[j] = j
      BY <3>3a, <3>3b, Zenon
    <3>4. k >= cap => n.index[k] = k
      BY <3>3a, <3>3b, Zenon
    <3>5. \A x \in Entries : x < cap
      BY <1>1
    <3>6. CASE j < cap /\ k < cap
      BY <2>1, <2>2, <3>6
    <3>7. CASE j < cap /\ k >= cap
      BY <2>2, <3>1, <3>4, <3>5, <3>7, <1>1
    <3>8. CASE j >= cap /\ k < cap
      BY <2>2, <3>2, <3>3, <3>5, <3>8, <1>1
    <3>9. CASE j >= cap /\ k >= cap
      BY <2>2, <3>3, <3>4, <3>9
    <3> QED BY <1>1, <3>6, <3>7, <3>8, <3>9
  <2>3. ASSUME NEW e \in 0 .. 2 * cap - 1
        PROVE  \E j \in 0 .. 2 * cap - 1 : n.index[j] = e
    <3>1. CASE e >= cap
      <4>1. e \in cap .. 2 * cap - 1
        BY <1>1, <2>3, <3>1
      <4> QED BY <1>2, <2>3, <4>1
    <3>2. CASE e < cap
      <4>1. e \in Entries
        BY <1>1, <2>3, <3>2
      <4>2. PICK i \in Entries : Header.index[i] = e
        BY <1>4, <4>1 DEF NewestComplete
      <4> DEFINE x == i - tl - 1
                 k == x % cap
      <4>3. x \in Int /\ i \in 0 .. cap - 1
        BY <1>1, <4>2
      <4>4. k \in 0 .. cap - 1
        BY <1>1, <4>3, ModIn
      <4>5. (k + (tl + 1)) % cap = (x + (tl + 1)) % cap
        <5>1. tl + 1 \in Int
          BY <1>1
        <5> HIDE DEF x
        <5> QED BY <1>1, <4>3, <5>1, ModAdd
      <4>6. x + (tl + 1) = i /\ k + (tl + 1) = tl + 1 + k
        BY <1>1, <4>3, <4>4
      <4>7. i % cap = i
        <5>1. i = cap * 0 + i /\ 0 \in Int /\ i \in Int
          BY <1>1, <4>3
        <5> QED BY <1>1, <4>3, <5>1, ModIs
      <4>8. k \in Entries /\ k \in 0 .. 2 * cap - 1
        BY <1>1, <4>4
      <4>9. n.index[k] = e
        BY <1>2, <4>2, <4>5, <4>6, <4>7, <4>8
      <4> QED BY <4>8, <4>9
    <3> QED BY <1>1, <3>1, <3>2
  <2> QED BY <1>7, <1>8, <2>2, <2>3 DEF NewestComplete
<1>12. blockIndex' \in Nat \ {0} /\ blockIndex' = Len(headers')
  BY <1>4, <1>5
<1>13. \A h \in 1 .. blockIndex' : HeaderShape(h)'
  BY <1>10
<1>14. HeaderInv'
  BY <1>5, <1>11, <1>12, <1>13 DEF HeaderInv
<1> QED BY <1>6, <1>7, <1>7a, <1>14 DEF n

\* rewind_block_index_tail() (:2957-2961).
LEMMA TailRewound ==
  ASSUME HeaderInv, UNCHANGED blockIndex, RewindTail
  PROVE  /\ HeaderInv' /\ Capacity' = Capacity /\ Entries' = Entries
         /\ (Header.tail - 1) % Capacity \in Entries
         /\ Header'.tail = (Header.tail - 1) % Capacity /\ Header'.index = Header.index
         /\ \A h \in 1 .. blockIndex :
              headers'[h].capacity = headers[h].capacity /\ headers'[h].index = headers[h].index
<1> DEFINE t == (Header.tail - 1) % Capacity
<1>1. Header.tail \in Entries /\ Capacity \in Nat \ {0}
  BY HeaderTypes
<1>2. Header.tail - 1 \in Int
  BY <1>1 DEF Entries
<1>3. t \in Entries
  BY <1>1, <1>2, ModIn DEF Entries
<1>4. /\ blockIndex \in 1 .. blockIndex /\ headers[blockIndex] \in HeaderType
      /\ blockIndex \in DOMAIN headers
  BY HeaderTypes DEF HeaderInv
<1>5. headers' = [headers EXCEPT ![blockIndex].tail = t]
  BY <1>4 DEF RewindTail, Header, Capacity, HeaderType
<1> HIDE DEF t
<1>6. /\ HeaderInv' /\ Capacity' = Capacity
      /\ Header'.tail = t /\ Header'.index = Header.index
      /\ \A h \in 1 .. blockIndex :
           headers'[h].capacity = headers[h].capacity /\ headers'[h].index = headers[h].index
  BY <1>3, <1>5, TailStored
<1>7. Entries' = Entries
  BY <1>6 DEF Entries
<1> QED BY <1>3, <1>6, <1>7 DEF t

-----------------------------------------------------------------------------
(* The producer: its locals and the numbers of its blocks *)

\* The number of the block that the newest header's tail stands for, and the numbers
\* of the blocks of this call that are in the index.
Top ==
  CASE prod.pc \in {"requisition", "rewind"} -> AtNumber
    [] prod.pc = "clear" -> AtNumber - 1
    [] prod.pc \in Undoing -> NextNumber + Chained - 1 - prod.undone
    [] prod.pc = "give_back" -> NextNumber - 1
    [] OTHER -> NextNumber + Chained - 1
Linked ==
  CASE prod.pc \in Linking -> NextNumber .. NextNumber + Chained - 2
    [] prod.pc \in Backing -> IF Bulk THEN NextNumber .. NextNumber + Chained - 1 ELSE {}
    [] prod.pc = "undo_entry" -> NextNumber + prod.undone .. NextNumber + Chained - 1
    [] prod.pc = "undo_tail" -> NextNumber + prod.undone + 1 .. NextNumber + Chained - 1
    [] prod.pc = "give_back" -> {}
    [] OTHER -> NextNumber .. NextNumber + Chained - 1

\* The base of the next block (:2513, :2666) is the first at or above tailIndex.
LEMMA NextBase ==
  ASSUME CounterType
  PROVE  /\ NextNumber \in Nat /\ FirstNewBase = BLOCK_SIZE * NextNumber
         /\ tailIndex <= BLOCK_SIZE * NextNumber
         /\ BLOCK_SIZE * NextNumber < tailIndex + BLOCK_SIZE
<1> DEFINE i == tailIndex - 1
           m == Num(i)
<1>1. BLOCK_SIZE \in Nat \ {0} /\ i \in Int /\ i >= -1
  BY QueueShapeAssumption DEF CounterType
<1>2. /\ m \in Int /\ Slot(i) \in 0 .. BLOCK_SIZE - 1
      /\ i = BLOCK_SIZE * m + Slot(i) /\ Base(i) = BLOCK_SIZE * m
  BY <1>1, Place
<1>3. NextNumber = m + 1 /\ FirstNewBase = Base(i) + BLOCK_SIZE /\ tailIndex = i + 1
  BY DEF NextNumber, FirstNewBase, CounterType
<1> HIDE DEF i, m
<1>4. BLOCK_SIZE * (m + 1) = BLOCK_SIZE * m + BLOCK_SIZE /\ BLOCK_SIZE * m \in Int
  BY <1>2, BasesOrdered
<1>5. m >= -1
  <2>1. CASE m < -1
    <3>1. BLOCK_SIZE * m + BLOCK_SIZE <= BLOCK_SIZE * (-1)
      BY <1>2, <2>1, BasesOrdered
    <3>2. BLOCK_SIZE * (-1) = 0 - BLOCK_SIZE
      BY <1>1
    <3> QED BY <1>1, <1>2, <1>4, <3>1, <3>2
  <2> QED BY <1>2, <2>1
<1> QED BY <1>1, <1>2, <1>3, <1>4, <1>5

\* What a step does to the numbers: nothing, for most of them.
SameNumbers == NextNumber' = NextNumber /\ Top' = Top /\ Linked' = Linked

\* A call that returns leaves the producer its tailBlock only.
LEMMA ReturnsLocals ==
  ASSUME ProducerInv, CounterType, HeaderInv, UNCHANGED <<tailIndex, blockIndex, headers>>,
         ProducerReturns
  PROVE  /\ ProducerInv' /\ prod'.pc = "idle" /\ prod'.chain = <<>>
         /\ prod'.tailBlock = prod.tailBlock
         /\ NextNumber' = NextNumber /\ Top' = NextNumber - 1 /\ Linked' = {}
<1>1. /\ prod'.pc = "idle" /\ prod'.chain = <<>> /\ Chained' = 0 /\ prod'.entry = 0
      /\ prod'.tailBlock = prod.tailBlock /\ prod'.undone = 0
  BY DEF ProducerReturns, IdleProducer, Chained
<1>2. prod' \in ProducerType
  BY DEF ProducerReturns, IdleProducer, ProducerInv, ProducerType, ProducerSteps
<1>3. NextNumber' = NextNumber /\ Entries' = Entries /\ NextNumber \in Nat
  BY NextBase DEF NextNumber, Entries, Capacity, Header
<1>4. 0 \in Entries'
  <2>1. 0 \in Entries
    BY HeaderTypes DEF Entries
  <2> QED BY <1>3, <2>1
<1>5. ProducerInv'
  BY <1>1, <1>2, <1>4 DEF ProducerInv, Entering, Linking, Backing, Undoing
<1>6. Top' = NextNumber - 1
  BY <1>1, <1>3 DEF Top, Linking, Backing, Undoing
<1>7. Linked' = {}
  BY <1>1, <1>3 DEF Linked, Linking, Backing, Undoing
<1> QED BY <1>1, <1>3, <1>5, <1>6, <1>7

\* A step that changes only the program counter keeps the other locals.
LEMMA GoesToLocals ==
  ASSUME ProducerInv, CounterType, UNCHANGED tailIndex, NEW s \in ProducerSteps, ProducerGoesTo(s)
  PROVE  /\ prod' \in ProducerType /\ prod'.pc = s /\ prod'.tailBlock = prod.tailBlock
         /\ prod'.call = prod.call /\ prod'.count = prod.count /\ prod'.at = prod.at
         /\ prod'.entry = prod.entry /\ prod'.chain = prod.chain /\ prod'.undone = prod.undone
         /\ Chained' = Chained /\ NextNumber' = NextNumber /\ AtNumber' = AtNumber
         /\ Bulk' = Bulk /\ LastIndex' = LastIndex
<1>1. /\ prod' \in ProducerType /\ prod'.pc = s /\ prod'.tailBlock = prod.tailBlock
      /\ prod'.call = prod.call /\ prod'.count = prod.count /\ prod'.at = prod.at
      /\ prod'.entry = prod.entry /\ prod'.chain = prod.chain /\ prod'.undone = prod.undone
  BY DEF ProducerGoesTo, ProducerInv, ProducerType
<1> QED BY <1>1 DEF Chained, NextNumber, AtNumber, Bulk, LastIndex

\* The numbers that the locals stand for.
LEMMA LocalNumbers ==
  ASSUME ProducerInv, CounterType
  PROVE  /\ NextNumber \in Nat /\ Chained \in Nat /\ LastIndex \in Int /\ AtNumber \in Int
         /\ prod.pc \in Entering => AtNumber = NextNumber + Chained
         /\ prod.pc \in Linking => AtNumber = NextNumber + Chained - 1
         /\ prod.pc \in Backing => AtNumber = NextNumber + (IF Bulk THEN Chained ELSE 0)
         /\ (prod.chain = <<>> <=> Chained = 0)
         /\ prod.undone \in Nat
<1>1. /\ prod.chain \in Seq(Pointers) /\ prod.at \in Int /\ prod.count \in Nat /\ tailIndex \in Nat
      /\ prod.undone \in Nat
  BY DEF ProducerInv, ProducerType, CounterType
<1>2. NextNumber \in Nat
  BY NextBase
<1>3. Chained \in Nat /\ (prod.chain = <<>> <=> Chained = 0)
  BY <1>1 DEF Chained
<1>4. ASSUME NEW n \in Int, prod.at = BLOCK_SIZE * n
      PROVE  AtNumber = n
  <2>1. BLOCK_SIZE \in Nat \ {0}
    BY QueueShapeAssumption
  <2>2. BLOCK_SIZE * n <= prod.at /\ prod.at < BLOCK_SIZE * n + BLOCK_SIZE
    BY <1>1, <1>4, <2>1
  <2> QED BY <1>1, <2>2, NumOf DEF AtNumber
<1>5. prod.pc \in Entering => AtNumber = NextNumber + Chained
  BY <1>2, <1>3, <1>4 DEF ProducerInv
<1>6. prod.pc \in Linking => AtNumber = NextNumber + Chained - 1
  BY <1>2, <1>3, <1>4 DEF ProducerInv
<1>7. prod.pc \in Backing => AtNumber = NextNumber + (IF Bulk THEN Chained ELSE 0)
  BY <1>2, <1>3, <1>4 DEF ProducerInv
<1>8. LastIndex \in Int /\ AtNumber \in Int
  <2>1. Num(prod.at) \in Int
    BY <1>1, Place
  <2> QED BY <1>1, <2>1 DEF LastIndex, AtNumber
<1> QED BY <1>1, <1>2, <1>3, <1>5, <1>6, <1>7, <1>8

-----------------------------------------------------------------------------
(* Each step of the producer *)

\* enqueue() and enqueue_bulk() see whether the last block has room
\* (concurrentqueue.h:2511-2514, :2664-2667).
LEMMA StartLocals ==
  ASSUME ProducerInv, CounterType, HeaderInv, StartEnqueue
  PROVE  /\ ProducerInv' /\ SameNumbers /\ prod.pc = "idle" /\ prod'.pc \in {"room", "fill"}
         /\ prod'.chain = prod.chain /\ prod'.tailBlock = prod.tailBlock
<1>1. PICK call \in {"enqueue", "enqueue_bulk"}
      : \E count \in IF call = "enqueue_bulk" THEN BulkCounts ELSE {1} :
       /\ tailIndex + count <= MaxItems
       /\ prod' = [prod EXCEPT
            !.pc = IF FirstNewBase < tailIndex + count THEN "room" ELSE "fill",
            !.call = call, !.count = count, !.at = FirstNewBase]
  BY DEF StartEnqueue
<1>2. PICK count \in IF call = "enqueue_bulk" THEN BulkCounts ELSE {1} :
         prod' = [prod EXCEPT
            !.pc = IF FirstNewBase < tailIndex + count THEN "room" ELSE "fill",
            !.call = call, !.count = count, !.at = FirstNewBase]
  BY <1>1
<1>3. count \in Nat \ {0} /\ (call # "enqueue_bulk" => count = 1)
  BY <1>2, QueueShapeAssumption
<1>4. /\ NextNumber \in Nat /\ FirstNewBase = BLOCK_SIZE * NextNumber
      /\ tailIndex <= BLOCK_SIZE * NextNumber
      /\ BLOCK_SIZE * NextNumber < tailIndex + BLOCK_SIZE
  BY NextBase
<1>5. prod.pc = "idle" /\ UNCHANGED <<tailIndex, blockIndex, headers>>
  BY DEF StartEnqueue, ProducerAt, counters, indexVars
<1>6. tailIndex \in Nat /\ BLOCK_SIZE \in Nat \ {0} /\ FirstNewBase \in Int
  BY <1>4, QueueShapeAssumption, BasesOrdered DEF CounterType
<1> DEFINE first == FirstNewBase
           s == IF first < tailIndex + count THEN "room" ELSE "fill"
<1>7. prod' = [prod EXCEPT !.pc = s, !.call = call, !.count = count, !.at = first]
  BY <1>2
<1>8. s \in {"room", "fill"} /\ (s = "room" <=> first < tailIndex + count)
  OBVIOUS
<1> HIDE DEF s, first
<1>9. /\ prod.chain = <<>> /\ prod.undone = 0 /\ prod \in ProducerType /\ prod.entry \in Entries
  BY <1>5 DEF ProducerInv, Undoing
<1>10. first \in Int /\ first = BLOCK_SIZE * NextNumber
  BY <1>4, <1>6 DEF first
<1>11. /\ prod'.pc = s /\ prod'.call = call /\ prod'.count = count /\ prod'.at = first
       /\ prod'.chain = <<>> /\ prod'.undone = 0 /\ prod'.tailBlock = prod.tailBlock
       /\ prod'.entry = prod.entry
  BY <1>7, <1>9 DEF ProducerType
<1>12. prod' \in ProducerType
  BY <1>3, <1>7, <1>8, <1>9, <1>10 DEF ProducerType, ProducerSteps
<1>13. NextNumber' = NextNumber /\ Entries' = Entries /\ Chained' = 0 /\ Chained = 0
       /\ LastIndex' = tailIndex + count - 1 /\ (Bulk' <=> call = "enqueue_bulk")
  BY <1>5, <1>9, <1>11 DEF NextNumber, Entries, Capacity, Header, Chained, LastIndex, Bulk
<1>14. s = "fill" => NextNumber = Num(tailIndex + count - 1) + 1
  <2> SUFFICES ASSUME s = "fill" PROVE NextNumber = Num(tailIndex + count - 1) + 1
    OBVIOUS
  <2> DEFINE m == NextNumber - 1
             i == tailIndex + count - 1
  <2>1. m \in Int /\ i \in Int /\ BLOCK_SIZE * NextNumber = BLOCK_SIZE * m + BLOCK_SIZE
    <3>1. m \in Int /\ NextNumber = m + 1
      BY <1>4
    <3> HIDE DEF m
    <3>2. BLOCK_SIZE * (m + 1) = BLOCK_SIZE * m + BLOCK_SIZE
      BY <3>1, BasesOrdered
    <3> QED BY <1>3, <1>6, <3>1, <3>2
  <2>2. BLOCK_SIZE * m \in Int
    BY <2>1, BasesOrdered
  <2>3. BLOCK_SIZE * m <= i /\ i < BLOCK_SIZE * m + BLOCK_SIZE
    <3> HIDE DEF m
    <3> QED BY <1>3, <1>4, <1>6, <1>8, <1>10, <2>1, <2>2
  <2> HIDE DEF m, i
  <2>4. Num(i) = m
    BY <2>1, <2>3, NumOf
  <2> QED BY <1>4, <2>4 DEF m, i
<1>15. s = "room" => first <= LastIndex'
  BY <1>3, <1>6, <1>8, <1>10, <1>13
<1>16. first = BLOCK_SIZE * (NextNumber + 0)
  BY <1>4, <1>10
<1>17. ProducerInv'
  BY <1>3, <1>4, <1>8, <1>9, <1>11, <1>12, <1>13, <1>14, <1>15, <1>16
     DEF ProducerInv, Entering, Linking, Backing, Undoing
<1>18. SameNumbers
  BY <1>4, <1>5, <1>8, <1>9, <1>11, <1>13 DEF SameNumbers, Top, Linked, Linking, Backing, Undoing
<1> QED BY <1>5, <1>8, <1>9, <1>11, <1>17, <1>18
\* A bulk that cannot have its blocks takes them back, if it has any (:2690-2700, :2750-2785).
LEMMA GiveUpLocals ==
  ASSUME ProducerInv, CounterType, HeaderInv, UNCHANGED <<tailIndex, blockIndex, headers>>,
         prod.pc \in {"room", "grow", "fill", "clear"}, prod.pc = "clear" => Bulk, GiveUp
  PROVE  /\ ProducerInv' /\ SameNumbers /\ prod'.pc \in {"idle", "undo_entry"}
         /\ prod'.chain = prod.chain /\ prod'.tailBlock = prod.tailBlock
<1>1. /\ NextNumber \in Nat /\ Chained \in Nat /\ prod.undone = 0
      /\ (prod.chain = <<>> <=> Chained = 0)
      /\ prod.pc = "clear" => AtNumber = NextNumber + Chained
  BY LocalNumbers DEF ProducerInv, Backing, Undoing
<1>2. Top = NextNumber + Chained - 1 /\ Linked = NextNumber .. NextNumber + Chained - 1
  BY <1>1 DEF Top, Linked, Linking, Backing, Undoing
<1>3. CASE prod.chain = <<>>
  <2>1. ProducerReturns
    BY <1>3 DEF GiveUp
  <2>2. /\ ProducerInv' /\ prod'.pc = "idle" /\ prod'.chain = <<>>
        /\ prod'.tailBlock = prod.tailBlock
        /\ NextNumber' = NextNumber /\ Top' = NextNumber - 1 /\ Linked' = {}
    BY <2>1, ReturnsLocals
  <2> QED BY <1>1, <1>2, <1>3, <2>2 DEF SameNumbers
<1>4. CASE prod.chain # <<>>
  <2>1. ProducerGoesTo("undo_entry")
    BY <1>4 DEF GiveUp
  <2>2. /\ prod' \in ProducerType /\ prod'.pc = "undo_entry" /\ prod'.tailBlock = prod.tailBlock
        /\ prod'.count = prod.count
        /\ prod'.entry = prod.entry /\ prod'.chain = prod.chain /\ prod'.undone = prod.undone
        /\ Chained' = Chained /\ NextNumber' = NextNumber /\ Bulk' = Bulk
    BY <2>1, GoesToLocals DEF ProducerSteps
  <2>3. Bulk
    BY <1>4 DEF ProducerInv, Entering
  <2>4. Entries' = Entries
    BY DEF Entries, Capacity, Header
  <2>5. ProducerInv'
    BY <1>1, <1>4, <2>2, <2>3, <2>4 DEF ProducerInv, Entering, Linking, Backing, Undoing
  <2>6. Top' = Top /\ Linked' = Linked
    BY <1>1, <1>2, <2>2 DEF Top, Linked, Linking, Backing, Undoing
  <2> QED BY <2>2, <2>5, <2>6 DEF SameNumbers
<1> QED BY <1>3, <1>4

\* The limit of the queue's size (:2517, :2681).
LEMMA RoomLocals ==
  ASSUME ProducerInv, CounterType, HeaderInv, CheckRoom
  PROVE  /\ ProducerInv' /\ SameNumbers /\ prod'.pc \in {"insert", "idle", "undo_entry"}
         /\ prod'.chain = prod.chain /\ prod'.tailBlock = prod.tailBlock
<1>1. prod.pc = "room" /\ UNCHANGED <<tailIndex, blockIndex, headers>>
  BY DEF CheckRoom, ProducerAt, counters, indexVars
<1>2. CASE GiveUp
  BY <1>1, <1>2, GiveUpLocals
<1>3. CASE ProducerGoesTo("insert")
  <2>1. /\ prod' \in ProducerType /\ prod'.pc = "insert" /\ prod'.tailBlock = prod.tailBlock
        /\ prod'.count = prod.count /\ prod'.at = prod.at
        /\ prod'.entry = prod.entry /\ prod'.chain = prod.chain /\ prod'.undone = prod.undone
        /\ Chained' = Chained /\ NextNumber' = NextNumber /\ Bulk' = Bulk
        /\ LastIndex' = LastIndex
    BY <1>1, <1>3, GoesToLocals DEF ProducerSteps
  <2>2. Entries' = Entries
    BY <1>1 DEF Entries, Capacity, Header
  <2>3. ProducerInv'
    BY <1>1, <2>1, <2>2 DEF ProducerInv, Entering, Linking, Backing, Undoing
  <2>4. Top' = Top /\ Linked' = Linked
    BY <1>1, <2>1 DEF Top, Linked, Linking, Backing, Undoing
  <2> QED BY <2>1, <2>3, <2>4 DEF SameNumbers
<1> QED BY <1>2, <1>3 DEF CheckRoom

\* The store of a key (:2930-2934).
LEMMA InsertLocals ==
  ASSUME ProducerInv, CounterType, HeaderInv, InsertIndexEntry
  PROVE  /\ ProducerInv' /\ SameNumbers
         /\ prod'.pc \in {"publish", "grow"} /\ prod'.chain = prod.chain
         /\ prod'.tailBlock = prod.tailBlock /\ AtNumber' = AtNumber /\ prod.pc = "insert"
         /\ prod'.pc = "publish" => prod'.entry = Header.index[NextSlot]
<1>1. prod.pc = "insert" /\ UNCHANGED <<tailIndex, blockIndex, headers>>
  BY DEF InsertIndexEntry, ProducerAt, counters
<1> DEFINE e == Header.index[NextSlot]
<1>2. e \in Entries
  BY HeaderTypes
<1>3. prod' = [prod EXCEPT !.pc = "publish", !.entry = e] \/ ProducerGoesTo("grow")
  BY DEF InsertIndexEntry
<1> HIDE DEF e
<1>4. Entries' = Entries
  BY <1>1 DEF Entries, Capacity, Header
<1>5. e \in Nat
  BY <1>2, HeaderTypes DEF Entries
<1>6. prod \in ProducerType
  BY DEF ProducerInv
<1>7. /\ prod' \in ProducerType /\ prod'.pc \in {"publish", "grow"}
      /\ prod'.tailBlock = prod.tailBlock /\ prod'.count = prod.count /\ prod'.at = prod.at
      /\ prod'.call = prod.call /\ prod'.chain = prod.chain /\ prod'.undone = prod.undone
      /\ prod'.entry = (IF prod'.pc = "publish" THEN e ELSE prod.entry)
  <2>1. CASE prod' = [prod EXCEPT !.pc = "publish", !.entry = e]
    BY <1>5, <1>6, <2>1 DEF ProducerType, ProducerSteps
  <2>2. CASE ProducerGoesTo("grow")
    BY <1>1, <2>2, GoesToLocals DEF ProducerSteps
  <2> QED BY <1>3, <2>1, <2>2
<1>8. /\ Chained' = Chained /\ NextNumber' = NextNumber /\ Bulk' = Bulk
      /\ LastIndex' = LastIndex /\ AtNumber' = AtNumber
  BY <1>1, <1>7 DEF Chained, NextNumber, Bulk, LastIndex, AtNumber
<1>9. ProducerInv'
  BY <1>1, <1>2, <1>4, <1>7, <1>8 DEF ProducerInv, Entering, Linking, Backing, Undoing
<1>10. Top' = Top /\ Linked' = Linked
  BY <1>1, <1>7, <1>8 DEF Top, Linked, Linking, Backing, Undoing
<1> QED BY <1>1, <1>7, <1>8, <1>9, <1>10 DEF SameNumbers, e

\* new_block_index() succeeds or the call gives up (:2939-2949).
LEMMA GrowLocals ==
  ASSUME ProducerInv, CounterType, HeaderInv, GrowIndex
  PROVE  /\ ProducerInv' /\ SameNumbers
         /\ prod.pc = "grow" /\ prod'.pc \in {"insert", "idle", "undo_entry"}
         /\ prod'.chain = prod.chain /\ prod'.tailBlock = prod.tailBlock
<1>1. prod.pc = "grow" /\ UNCHANGED tailIndex
  BY DEF GrowIndex, ProducerAt, counters
<1>2. CASE GiveUp /\ UNCHANGED indexVars
  BY <1>1, <1>2, GiveUpLocals DEF indexVars
<1>3. CASE /\ headers' = Append(headers, LargerHeader(Header)) /\ blockIndex' = blockIndex + 1
           /\ ProducerGoesTo("insert")
  <2>1. /\ prod' \in ProducerType /\ prod'.pc = "insert" /\ prod'.tailBlock = prod.tailBlock
        /\ prod'.count = prod.count /\ prod'.at = prod.at
        /\ prod'.entry = prod.entry /\ prod'.chain = prod.chain /\ prod'.undone = prod.undone
        /\ Chained' = Chained /\ NextNumber' = NextNumber /\ Bulk' = Bulk
        /\ LastIndex' = LastIndex
    BY <1>1, <1>3, GoesToLocals DEF ProducerSteps
  <2>2. Capacity' = 2 * Capacity /\ Capacity \in Nat
    BY <1>3, IndexGrown, HeaderTypes
  <2>3. prod.entry \in Entries'
    BY <2>2 DEF ProducerInv, Entries
  <2>4. ProducerInv'
    BY <1>1, <2>1, <2>3 DEF ProducerInv, Entering, Linking, Backing, Undoing
  <2>5. Top' = Top /\ Linked' = Linked
    BY <1>1, <2>1 DEF Top, Linked, Linking, Backing, Undoing
  <2> QED BY <1>1, <2>1, <2>4, <2>5 DEF SameNumbers
<1> QED BY <1>2, <1>3 DEF GrowIndex

\* The store of the tail (:2935, :2952): it stands for the new block from here on.
LEMMA PublishLocals ==
  ASSUME ProducerInv, CounterType, HeaderInv, PublishIndexTail
  PROVE  /\ ProducerInv' /\ NextNumber' = NextNumber /\ Top' = Top + 1 /\ Linked' = Linked
         /\ prod.pc = "publish" /\ prod'.pc = "requisition" /\ prod'.chain = prod.chain
         /\ prod'.tailBlock = prod.tailBlock /\ prod'.entry = prod.entry /\ AtNumber' = AtNumber
         /\ Top \in Int /\ Entries' = Entries /\ HeaderInv'
<1>1. /\ prod.pc = "publish" /\ UNCHANGED <<tailIndex, blockIndex>> /\ ProducerGoesTo("requisition")
      /\ headers' = [headers EXCEPT ![blockIndex].tail = NextSlot]
  BY DEF PublishIndexTail, ProducerAt, counters
<1>2. /\ prod' \in ProducerType /\ prod'.pc = "requisition" /\ prod'.tailBlock = prod.tailBlock
      /\ prod'.count = prod.count /\ prod'.at = prod.at
      /\ prod'.entry = prod.entry /\ prod'.chain = prod.chain /\ prod'.undone = prod.undone
      /\ Chained' = Chained /\ NextNumber' = NextNumber /\ Bulk' = Bulk
      /\ LastIndex' = LastIndex /\ AtNumber' = AtNumber
  BY <1>1, GoesToLocals DEF ProducerSteps
<1>3. Capacity' = Capacity /\ HeaderInv'
  BY <1>1, HeaderTypes, TailStored
<1>4. Entries' = Entries
  BY <1>3 DEF Entries
<1>5. ProducerInv'
  BY <1>1, <1>2, <1>4 DEF ProducerInv, Entering, Linking, Backing, Undoing
<1>6. NextNumber \in Nat /\ Chained \in Nat /\ AtNumber = NextNumber + Chained
  BY <1>1, LocalNumbers DEF Entering
<1>7. Top' = Top + 1 /\ Linked' = Linked /\ Top \in Int
  BY <1>1, <1>2, <1>6 DEF Top, Linked, Linking, Backing, Undoing
<1> QED BY <1>1, <1>2, <1>3, <1>4, <1>5, <1>7
\* The block b becomes the last of the producer's chain, from the pool it was in.
TakesBlock(b) ==
  /\ prod'.pc \in Linking /\ prod'.chain = Append(prod.chain, b)
  /\ \/ /\ initialBlockPoolIndex < InitialBlocks
        /\ b = initialBlockPoolIndex + 1 /\ initialBlockPoolIndex' = b
        /\ UNCHANGED <<freeBlocks, heap>>
     \/ /\ b \in freeBlocks /\ freeBlocks' = freeBlocks \ {b}
        /\ UNCHANGED <<initialBlockPoolIndex, heap>>
     \/ /\ b \in heap /\ heap' = heap \ {b}
        /\ UNCHANGED <<initialBlockPoolIndex, freeBlocks>>

\* requisition_block() finds a block or none (:2530-2531, :2683).
LEMMA RequisitionLocals ==
  ASSUME ProducerInv, CounterType, HeaderInv, PoolType, RequisitionBlock
  PROVE  /\ ProducerInv' /\ SameNumbers /\ prod.pc = "requisition"
         /\ prod'.tailBlock = prod.tailBlock /\ prod'.entry = prod.entry /\ AtNumber' = AtNumber
         /\ \/ /\ prod'.pc = "rewind" /\ prod'.chain = prod.chain /\ UNCHANGED poolVars
            \/ \E b \in Pointers : TakesBlock(b)
<1>1. prod.pc = "requisition" /\ UNCHANGED <<tailIndex, blockIndex, headers>>
  BY DEF RequisitionBlock, ProducerAt, counters, indexVars
<1>2. /\ NextNumber \in Nat /\ Chained \in Nat /\ AtNumber = NextNumber + Chained
      /\ AtNumber \in Int /\ (prod.chain = <<>> <=> Chained = 0)
  BY <1>1, LocalNumbers DEF Entering
<1>3. prod \in ProducerType /\ prod.chain \in Seq(Pointers)
  BY DEF ProducerInv, ProducerType
<1>4. Entries' = Entries
  BY <1>1 DEF Entries, Capacity, Header
<1>5. CASE ProducerGoesTo("rewind")
  <2>1. /\ prod' \in ProducerType /\ prod'.pc = "rewind" /\ prod'.tailBlock = prod.tailBlock
        /\ prod'.count = prod.count /\ prod'.at = prod.at
        /\ prod'.entry = prod.entry /\ prod'.chain = prod.chain /\ prod'.undone = prod.undone
        /\ Chained' = Chained /\ NextNumber' = NextNumber /\ Bulk' = Bulk
        /\ AtNumber' = AtNumber
    BY <1>1, <1>5, GoesToLocals DEF ProducerSteps
  <2>2. ~Bulk => Chained = 0 /\ prod.at = BLOCK_SIZE * NextNumber
    <3>1. ~Bulk => Chained = 0
      BY <1>1, <1>2 DEF ProducerInv, Entering
    <3>2. prod.at = BLOCK_SIZE * (NextNumber + Chained)
      BY <1>1 DEF ProducerInv, Entering
    <3> QED BY <1>2, <3>1, <3>2
  <2>3. ProducerInv'
    BY <1>1, <1>2, <1>4, <2>1, <2>2 DEF ProducerInv, Entering, Linking, Backing, Undoing
  <2>4. Top' = Top
    BY <1>1, <1>2, <2>1 DEF Top, Linking, Backing, Undoing
  <2>5. Linked' = Linked
    BY <1>1, <1>2, <2>1, <2>2 DEF Linked, Linking, Backing, Undoing
  <2>6. UNCHANGED poolVars
    <3>1. initialBlockPoolIndex < InitialBlocks =>
            prod' = [prod EXCEPT !.pc = IF Bulk THEN "link" ELSE "construct",
                                 !.chain = Append(@, initialBlockPoolIndex + 1)]
      BY DEF RequisitionBlock
    <3>2. ASSUME NEW b, prod' = [prod EXCEPT !.pc = IF Bulk THEN "link" ELSE "construct",
                                             !.chain = Append(@, b)]
          PROVE  FALSE
      BY <1>3, <2>1, <3>2 DEF ProducerType
    <3> QED BY <3>1, <3>2 DEF RequisitionBlock, poolVars
  <2> QED BY <1>1, <2>1, <2>3, <2>4, <2>5, <2>6 DEF SameNumbers
<1>6. ASSUME NEW b \in Pointers,
             prod' = [prod EXCEPT !.pc = IF Bulk THEN "link" ELSE "construct",
                                  !.chain = Append(@, b)]
      PROVE  /\ ProducerInv' /\ SameNumbers
             /\ prod'.tailBlock = prod.tailBlock /\ prod'.entry = prod.entry
             /\ AtNumber' = AtNumber
             /\ prod'.pc \in Linking /\ prod'.chain = Append(prod.chain, b)
  <2> DEFINE s == IF Bulk THEN "link" ELSE "construct"
             ch == Append(prod.chain, b)
  <2>1. /\ ch \in Seq(Pointers) /\ Len(ch) = Chained + 1 /\ s \in {"link", "construct"}
        /\ (s = "link" <=> Bulk)
    BY <1>3 DEF Chained
  <2>2. prod' = [prod EXCEPT !.pc = s, !.chain = ch]
    BY <1>6
  <2> HIDE DEF s, ch
  <2>3. /\ prod' \in ProducerType /\ prod'.pc = s /\ prod'.tailBlock = prod.tailBlock
        /\ prod'.call = prod.call /\ prod'.count = prod.count /\ prod'.at = prod.at
        /\ prod'.entry = prod.entry /\ prod'.chain = ch /\ prod'.undone = prod.undone
    BY <1>3, <2>1, <2>2 DEF ProducerType, ProducerSteps
  <2>4. /\ Chained' = Chained + 1 /\ NextNumber' = NextNumber /\ Bulk' = Bulk
        /\ LastIndex' = LastIndex /\ AtNumber' = AtNumber
    BY <1>1, <2>1, <2>3 DEF Chained, NextNumber, Bulk, LastIndex, AtNumber
  <2>5. (~Bulk => Chained = 0) /\ prod.at = BLOCK_SIZE * (NextNumber + (Chained + 1) - 1)
    <3>1. prod.at = BLOCK_SIZE * (NextNumber + Chained) /\ (~Bulk => Chained = 0)
      BY <1>1, <1>2 DEF ProducerInv, Entering
    <3>2. NextNumber + Chained = NextNumber + (Chained + 1) - 1
      BY <1>2
    <3> QED BY <3>1, <3>2
  <2>6. ProducerInv'
    BY <1>1, <1>2, <1>4, <2>1, <2>3, <2>4, <2>5 DEF ProducerInv, Entering, Linking, Backing, Undoing
  <2>7. Top' = Top /\ Linked' = Linked
    BY <1>1, <1>2, <2>1, <2>3, <2>4 DEF Top, Linked, Linking, Backing, Undoing
  <2> QED BY <2>1, <2>3, <2>4, <2>6, <2>7 DEF SameNumbers, Linking, ch
<1>7. CASE initialBlockPoolIndex < InitialBlocks
  <2> DEFINE b == initialBlockPoolIndex + 1
  <2>1. b \in Pointers
    BY <1>7, QueueShapeAssumption DEF PoolType, Blocks, Pointers
  <2>2. /\ initialBlockPoolIndex' = b /\ UNCHANGED <<freeBlocks, heap>>
        /\ prod' = [prod EXCEPT !.pc = IF Bulk THEN "link" ELSE "construct",
                                !.chain = Append(@, b)]
    BY <1>7 DEF RequisitionBlock
  <2>3. b = initialBlockPoolIndex + 1
    OBVIOUS
  <2> HIDE DEF b
  <2>4. TakesBlock(b)
    BY <1>6, <1>7, <2>1, <2>2, <2>3 DEF TakesBlock
  <2> QED BY <1>1, <1>6, <2>1, <2>2, <2>4
<1>8. CASE ~(initialBlockPoolIndex < InitialBlocks)
  <2>1. ASSUME NEW b \in freeBlocks, freeBlocks' = freeBlocks \ {b}, UNCHANGED heap,
               prod' = [prod EXCEPT !.pc = IF Bulk THEN "link" ELSE "construct",
                                    !.chain = Append(@, b)]
        PROVE  /\ ProducerInv' /\ SameNumbers /\ prod'.tailBlock = prod.tailBlock
               /\ prod'.entry = prod.entry /\ AtNumber' = AtNumber
               /\ \E x \in Pointers : TakesBlock(x)
    <3>1. b \in Pointers /\ UNCHANGED initialBlockPoolIndex
      BY <1>8, <2>1 DEF PoolType, RequisitionBlock
    <3>2. TakesBlock(b)
      BY <1>6, <2>1, <3>1 DEF TakesBlock
    <3> QED BY <1>6, <2>1, <3>1, <3>2
  <2>2. ASSUME NEW b \in heap, heap' = heap \ {b}, UNCHANGED freeBlocks,
               prod' = [prod EXCEPT !.pc = IF Bulk THEN "link" ELSE "construct",
                                    !.chain = Append(@, b)]
        PROVE  /\ ProducerInv' /\ SameNumbers /\ prod'.tailBlock = prod.tailBlock
               /\ prod'.entry = prod.entry /\ AtNumber' = AtNumber
               /\ \E x \in Pointers : TakesBlock(x)
    <3>1. b \in Pointers /\ UNCHANGED initialBlockPoolIndex
      BY <1>8, <2>2 DEF PoolType, RequisitionBlock
    <3>2. TakesBlock(b)
      BY <1>6, <2>2, <3>1 DEF TakesBlock
    <3> QED BY <1>6, <2>2, <3>1, <3>2
  <2>3. \/ \E b \in freeBlocks : /\ freeBlocks' = freeBlocks \ {b} /\ UNCHANGED heap
             /\ prod' = [prod EXCEPT !.pc = IF Bulk THEN "link" ELSE "construct",
                                     !.chain = Append(@, b)]
        \/ \E b \in heap : /\ heap' = heap \ {b} /\ UNCHANGED freeBlocks
             /\ prod' = [prod EXCEPT !.pc = IF Bulk THEN "link" ELSE "construct",
                                     !.chain = Append(@, b)]
        \/ ProducerGoesTo("rewind")
    BY <1>8, Zenon DEF RequisitionBlock
  <2> QED BY <1>1, <1>5, <2>1, <2>2, <2>3
<1> QED BY <1>7, <1>8

\* The constructor runs, or throws and the rest is undone (:2539-2551).
LEMMA ConstructLocals ==
  ASSUME ProducerInv, CounterType, HeaderInv, ConstructFirst
  PROVE  /\ ProducerInv' /\ SameNumbers /\ prod.pc = "construct"
         /\ prod'.pc \in {"link", "rewind"}
         /\ prod'.chain = prod.chain /\ prod'.tailBlock = prod.tailBlock
         /\ prod'.entry = prod.entry /\ AtNumber' = AtNumber
         /\ Chained = 1 /\ ~Bulk /\ NewBlock \in Pointers /\ LastIndex' = LastIndex
<1>1. prod.pc = "construct" /\ UNCHANGED <<tailIndex, blockIndex, headers>>
  BY DEF ConstructFirst, ProducerAt, counters, indexVars
<1>2. /\ NextNumber \in Nat /\ Chained = 1 /\ ~Bulk /\ AtNumber = NextNumber
      /\ prod.at = BLOCK_SIZE * NextNumber
  <2>1. /\ NextNumber \in Nat /\ Chained = 1 /\ ~Bulk /\ AtNumber = NextNumber + Chained - 1
        /\ prod.at = BLOCK_SIZE * (NextNumber + Chained - 1)
    BY <1>1, LocalNumbers DEF ProducerInv, Linking
  <2>2. NextNumber + Chained - 1 = NextNumber
    BY <2>1
  <2> QED BY <2>1, <2>2
<1>3. prod.chain \in Seq(Pointers)
  BY DEF ProducerInv, ProducerType
<1>4. NewBlock \in Pointers
  BY <1>2, <1>3 DEF NewBlock, Chained
<1>5. PICK s \in {"link", "rewind"} : ProducerGoesTo(s)
  BY DEF ConstructFirst
<1>6. /\ prod' \in ProducerType /\ prod'.pc = s /\ prod'.tailBlock = prod.tailBlock
      /\ prod'.count = prod.count /\ prod'.at = prod.at
      /\ prod'.entry = prod.entry /\ prod'.chain = prod.chain /\ prod'.undone = prod.undone
      /\ Chained' = Chained /\ NextNumber' = NextNumber /\ Bulk' = Bulk
      /\ LastIndex' = LastIndex /\ AtNumber' = AtNumber
  BY <1>1, <1>5, GoesToLocals DEF ProducerSteps
<1>7. Entries' = Entries
  BY <1>1 DEF Entries, Capacity, Header
<1>8. ProducerInv'
  BY <1>1, <1>2, <1>6, <1>7 DEF ProducerInv, Entering, Linking, Backing, Undoing
<1>9. Top' = Top
  BY <1>1, <1>2, <1>6 DEF Top, Linking, Backing, Undoing
<1>10. Linked' = Linked
  BY <1>1, <1>2, <1>6 DEF Linked, Linking, Backing, Undoing
<1> QED BY <1>1, <1>2, <1>4, <1>6, <1>8, <1>9, <1>10 DEF SameNumbers

\* The entry gets its block (:2555, :2706-2710).
LEMMA LinkLocals ==
  ASSUME ProducerInv, CounterType, HeaderInv, LinkBlock
  PROVE  /\ ProducerInv' /\ NextNumber' = NextNumber /\ Top' = Top
         /\ prod.pc = "link" /\ prod'.pc \in {"room", "fill", "store"}
         /\ Linked' = Linked \cup {AtNumber}
         /\ AtNumber = NextNumber + Chained - 1 /\ Chained > 0 /\ NewBlock \in Pointers
         /\ prod'.chain = prod.chain /\ prod'.tailBlock = prod.tailBlock /\ LastIndex' = LastIndex
         /\ prod'.pc = "store" => ~Bulk
<1>1. prod.pc = "link" /\ UNCHANGED <<tailIndex, blockIndex, headers>>
  BY DEF LinkBlock, ProducerAt, counters
<1>2. /\ NextNumber \in Nat /\ Chained \in Nat /\ Chained > 0 /\ (~Bulk => Chained = 1)
      /\ AtNumber = NextNumber + Chained - 1 /\ prod.count > 0 /\ (~Bulk => prod.count = 1)
      /\ prod.at = BLOCK_SIZE * (NextNumber + Chained - 1) /\ prod.at <= LastIndex
      /\ LastIndex \in Int
  BY <1>1, LocalNumbers DEF ProducerInv, Linking
<1>3. prod.chain \in Seq(Pointers) /\ prod \in ProducerType
  BY DEF ProducerInv, ProducerType
<1>4. NewBlock \in Pointers
  BY <1>2, <1>3 DEF NewBlock, Chained
<1>5. Entries' = Entries
  BY <1>1 DEF Entries, Capacity, Header
<1>6. BLOCK_SIZE * (NextNumber + Chained) = prod.at + BLOCK_SIZE /\ BLOCK_SIZE \in Nat \ {0}
      /\ prod.at \in Int
  <2> DEFINE m == NextNumber + Chained - 1
  <2>1. m \in Int /\ NextNumber + Chained = m + 1
    BY <1>2
  <2> HIDE DEF m
  <2>2. BLOCK_SIZE * (m + 1) = BLOCK_SIZE * m + BLOCK_SIZE /\ BLOCK_SIZE * m \in Int
    BY <2>1, BasesOrdered
  <2> QED BY <1>2, <2>1, <2>2, QueueShapeAssumption DEF m
<1>7. CASE prod.at + BLOCK_SIZE <= LastIndex
  <2>1. prod' = [prod EXCEPT !.pc = "room", !.at = @ + BLOCK_SIZE]
    BY <1>7 DEF LinkBlock
  <2>2. /\ prod' \in ProducerType /\ prod'.pc = "room" /\ prod'.at = prod.at + BLOCK_SIZE
        /\ prod'.call = prod.call /\ prod'.count = prod.count /\ prod'.entry = prod.entry
        /\ prod'.chain = prod.chain /\ prod'.undone = prod.undone
        /\ prod'.tailBlock = prod.tailBlock
    <3> DEFINE a == prod.at + BLOCK_SIZE
    <3>1. a \in Int /\ prod' = [prod EXCEPT !.pc = "room", !.at = a]
      BY <1>6, <2>1
    <3> HIDE DEF a
    <3>2. /\ prod' \in ProducerType /\ prod'.pc = "room" /\ prod'.at = a
          /\ prod'.call = prod.call /\ prod'.count = prod.count /\ prod'.entry = prod.entry
          /\ prod'.chain = prod.chain /\ prod'.undone = prod.undone
          /\ prod'.tailBlock = prod.tailBlock
      BY <1>3, <3>1 DEF ProducerType, ProducerSteps
    <3> QED BY <3>2 DEF a
  <2>3. /\ Chained' = Chained /\ NextNumber' = NextNumber /\ Bulk' = Bulk
        /\ LastIndex' = LastIndex
    BY <1>1, <2>2 DEF Chained, NextNumber, Bulk, LastIndex
  <2>4. Bulk
    <3>1. CASE ~Bulk
      <4>1. LastIndex = tailIndex /\ tailIndex <= BLOCK_SIZE * NextNumber /\ Chained = 1
        BY <1>2, <3>1, NextBase DEF LastIndex, CounterType
      <4>2. prod.at = BLOCK_SIZE * NextNumber
        <5>1. NextNumber + Chained - 1 = NextNumber
          BY <1>2, <4>1
        <5> QED BY <1>2, <5>1
      <4> QED BY <1>6, <1>7, <4>1, <4>2 DEF CounterType
    <3> QED BY <3>1
  <2>5. ProducerInv'
    BY <1>1, <1>2, <1>5, <1>6, <1>7, <2>2, <2>3, <2>4
       DEF ProducerInv, Entering, Linking, Backing, Undoing
  <2>6. Top' = Top
    BY <1>1, <1>2, <2>2, <2>3 DEF Top, Linking, Backing, Undoing
  <2>7. Linked' = Linked \cup {AtNumber}
    BY <1>1, <1>2, <2>2, <2>3 DEF Linked, Linking, Backing, Undoing
  <2> QED BY <1>1, <1>2, <1>4, <2>2, <2>3, <2>5, <2>6, <2>7
<1>8. CASE ~(prod.at + BLOCK_SIZE <= LastIndex)
  <2> DEFINE s == IF Bulk THEN "fill" ELSE "store"
  <2>1. ProducerGoesTo(s) /\ s \in {"fill", "store"} /\ (s = "fill" <=> Bulk)
    BY <1>8 DEF LinkBlock
  <2> HIDE DEF s
  <2>2. /\ prod' \in ProducerType /\ prod'.pc = s /\ prod'.tailBlock = prod.tailBlock
        /\ prod'.count = prod.count /\ prod'.at = prod.at
        /\ prod'.entry = prod.entry /\ prod'.chain = prod.chain /\ prod'.undone = prod.undone
        /\ Chained' = Chained /\ NextNumber' = NextNumber /\ Bulk' = Bulk
        /\ LastIndex' = LastIndex
    BY <1>1, <2>1, GoesToLocals DEF ProducerSteps
  <2>3. NextNumber + Chained = Num(LastIndex) + 1
    <3> DEFINE m == NextNumber + Chained - 1
    <3>1. m \in Int /\ prod.at = BLOCK_SIZE * m /\ NextNumber + Chained = m + 1
      BY <1>2
    <3> HIDE DEF m
    <3>2. BLOCK_SIZE * m <= LastIndex /\ LastIndex < BLOCK_SIZE * m + BLOCK_SIZE
      BY <1>2, <1>6, <1>8, <3>1
    <3>3. Num(LastIndex) = m
      BY <1>2, <3>1, <3>2, NumOf
    <3> QED BY <3>1, <3>3
  <2>4. ProducerInv'
    BY <1>1, <1>2, <1>5, <2>1, <2>2, <2>3 DEF ProducerInv, Entering, Linking, Backing, Undoing
  <2>5. Top' = Top
    BY <1>1, <1>2, <2>1, <2>2 DEF Top, Linking, Backing, Undoing
  <2>6. Linked' = Linked \cup {AtNumber}
    BY <1>1, <1>2, <2>1, <2>2 DEF Linked, Linking, Backing, Undoing
  <2> QED BY <1>1, <1>2, <1>4, <2>1, <2>2, <2>4, <2>5, <2>6
<1> QED BY <1>7, <1>8

\* The constructors of a bulk run, or one throws and the blocks are taken back
\* (:2724-2793).
LEMMA FillLocals ==
  ASSUME ProducerInv, CounterType, HeaderInv, FillBlocks
  PROVE  /\ ProducerInv' /\ SameNumbers /\ prod.pc = "fill"
         /\ prod'.pc \in {"store", "idle", "undo_entry"}
         /\ prod'.chain = prod.chain /\ prod'.tailBlock = prod.tailBlock
         /\ prod'.pc = "store" => Fill /\ LastIndex' = LastIndex
         /\ prod'.pc # "store" => UNCHANGED elements
<1>1. prod.pc = "fill" /\ UNCHANGED <<tailIndex, blockIndex, headers>>
  BY DEF FillBlocks, ProducerAt, counters, indexVars
<1>2. CASE GiveUp /\ UNCHANGED elements
  <2>1. /\ ProducerInv' /\ SameNumbers /\ prod'.pc \in {"idle", "undo_entry"}
        /\ prod'.chain = prod.chain /\ prod'.tailBlock = prod.tailBlock
    BY <1>1, <1>2, GiveUpLocals
  <2> QED BY <1>1, <1>2, <2>1
<1>3. CASE Fill /\ ProducerGoesTo("store")
  <2>1. /\ prod' \in ProducerType /\ prod'.pc = "store" /\ prod'.tailBlock = prod.tailBlock
        /\ prod'.count = prod.count /\ prod'.at = prod.at
        /\ prod'.entry = prod.entry /\ prod'.chain = prod.chain /\ prod'.undone = prod.undone
        /\ Chained' = Chained /\ NextNumber' = NextNumber /\ Bulk' = Bulk
        /\ LastIndex' = LastIndex
    BY <1>1, <1>3, GoesToLocals DEF ProducerSteps
  <2>2. Entries' = Entries
    BY <1>1 DEF Entries, Capacity, Header
  <2>3. ProducerInv'
    BY <1>1, <2>1, <2>2 DEF ProducerInv, Entering, Linking, Backing, Undoing
  <2>4. Top' = Top /\ Linked' = Linked
    BY <1>1, <2>1 DEF Top, Linked, Linking, Backing, Undoing
  <2> QED BY <1>1, <1>3, <2>1, <2>3, <2>4 DEF SameNumbers
<1> QED BY <1>2, <1>3 DEF FillBlocks
\* The store of tailIndex, which shows the items (:2560, :2568, :2794).
LEMMA StoreLocals ==
  ASSUME ProducerInv, CounterType, HeaderInv, StoreTail
  PROVE  /\ ProducerInv' /\ prod.pc = "store" /\ prod'.pc = "idle"
         /\ NextNumber' = NextNumber + Chained /\ Top' = Top
         /\ Linked = NextNumber .. NextNumber + Chained - 1 /\ Linked' = {}
         /\ tailIndex' = LastIndex + 1 /\ tailIndex' > tailIndex
         /\ prod'.tailBlock = (IF Chained = 0 THEN prod.tailBlock ELSE NewBlock)
         /\ prod'.chain = <<>> /\ Num(LastIndex) = NextNumber + Chained - 1
<1>1. /\ prod.pc = "store" /\ UNCHANGED <<blockIndex, headers>>
      /\ tailIndex' = tailIndex + prod.count
      /\ prod' = IdleProducer(IF prod.chain = <<>> THEN prod.tailBlock ELSE NewBlock)
  BY DEF StoreTail, ProducerAt, indexVars
<1>2. /\ NextNumber \in Nat /\ Chained \in Nat /\ (prod.chain = <<>> <=> Chained = 0)
      /\ LastIndex \in Int /\ prod.count > 0 /\ NextNumber + Chained = Num(LastIndex) + 1
  BY <1>1, LocalNumbers DEF ProducerInv
<1>3. /\ prod.chain \in Seq(Pointers) /\ prod.tailBlock \in Pointers
      /\ prod.count \in Nat /\ tailIndex \in Nat
  BY DEF ProducerInv, ProducerType, CounterType
<1> DEFINE b == IF prod.chain = <<>> THEN prod.tailBlock ELSE NewBlock
<1>4. b \in Pointers /\ b = (IF Chained = 0 THEN prod.tailBlock ELSE NewBlock)
  BY <1>2, <1>3 DEF NewBlock, Chained
<1>5. prod' = IdleProducer(b)
  BY <1>1
<1> HIDE DEF b
<1>6. /\ prod'.pc = "idle" /\ prod'.chain = <<>> /\ Chained' = 0 /\ prod'.entry = 0
      /\ prod'.tailBlock = b /\ prod'.undone = 0
  BY <1>5 DEF IdleProducer, Chained
<1>7. prod' \in ProducerType
  BY <1>4, <1>5 DEF IdleProducer, ProducerType, ProducerSteps
<1>8. tailIndex' = LastIndex + 1 /\ tailIndex' - 1 = LastIndex /\ tailIndex' > tailIndex
  BY <1>1, <1>2, <1>3 DEF LastIndex
<1>9. Num(LastIndex) \in Int
  BY <1>2, Place
<1>10. NextNumber' = NextNumber + Chained /\ Num(LastIndex) = NextNumber + Chained - 1
  BY <1>2, <1>8, <1>9 DEF NextNumber
<1>11. 0 \in Entries'
  <2>1. 0 \in Entries
    BY HeaderTypes DEF Entries
  <2>2. Entries' = Entries
    BY <1>1 DEF Entries, Capacity, Header
  <2> QED BY <2>1, <2>2
<1>12. ProducerInv'
  BY <1>6, <1>7, <1>11 DEF ProducerInv, Entering, Linking, Backing, Undoing
<1>13. Top = NextNumber + Chained - 1 /\ Linked = NextNumber .. NextNumber + Chained - 1
  BY <1>1 DEF Top, Linked, Linking, Backing, Undoing
<1>14. Top' = NextNumber' + Chained' - 1 /\ Linked' = NextNumber' .. NextNumber' + Chained' - 1
  BY <1>6 DEF Top, Linked, Linking, Backing, Undoing
<1> QED BY <1>1, <1>2, <1>4, <1>6, <1>8, <1>10, <1>12, <1>13, <1>14

\* rewind_block_index_tail() (:2957-2961) after an entry that got no block.
LEMMA RewindLocals ==
  ASSUME ProducerInv, CounterType, HeaderInv, RewindIndexTail
  PROVE  /\ ProducerInv' /\ NextNumber' = NextNumber /\ Top' = Top - 1 /\ Linked' = Linked
         /\ prod.pc = "rewind" /\ prod'.pc = "clear" /\ prod'.chain = prod.chain
         /\ prod'.tailBlock = prod.tailBlock /\ prod'.entry = prod.entry /\ AtNumber' = AtNumber
         /\ Top \in Int /\ Top >= NextNumber /\ Bulk' = Bulk /\ Entries' = Entries /\ HeaderInv'
<1>1. /\ prod.pc = "rewind" /\ UNCHANGED <<tailIndex, blockIndex>> /\ ProducerGoesTo("clear")
      /\ RewindTail
  BY DEF RewindIndexTail, ProducerAt, counters
<1>2. /\ prod' \in ProducerType /\ prod'.pc = "clear" /\ prod'.tailBlock = prod.tailBlock
      /\ prod'.count = prod.count /\ prod'.at = prod.at
      /\ prod'.entry = prod.entry /\ prod'.chain = prod.chain /\ prod'.undone = prod.undone
      /\ Chained' = Chained /\ NextNumber' = NextNumber /\ Bulk' = Bulk
      /\ LastIndex' = LastIndex /\ AtNumber' = AtNumber
  BY <1>1, GoesToLocals DEF ProducerSteps
<1>3. HeaderInv' /\ Entries' = Entries
  BY <1>1, TailRewound
<1>4. ProducerInv'
  BY <1>1, <1>2, <1>3 DEF ProducerInv, Entering, Linking, Backing, Undoing
<1>5. /\ NextNumber \in Nat /\ Chained \in Nat
      /\ AtNumber = NextNumber + (IF Bulk THEN Chained ELSE 0)
  BY <1>1, LocalNumbers DEF Backing
<1>6. Top' = Top - 1 /\ Top \in Int /\ Top >= NextNumber
  BY <1>1, <1>2, <1>5 DEF Top, Linking, Backing, Undoing
<1>7. Linked' = Linked
  BY <1>1, <1>2 DEF Linked, Linking, Backing, Undoing
<1> QED BY <1>1, <1>2, <1>3, <1>4, <1>6, <1>7

\* The entry without a block is cleared; enqueue() gives back the block of an item
\* whose constructor threw (:2546-2551).
LEMMA ClearLocals ==
  ASSUME ProducerInv, CounterType, HeaderInv, ClearEntry
  PROVE  /\ ProducerInv' /\ SameNumbers
         /\ prod.pc = "clear" /\ prod'.pc \in {"idle", "undo_entry", "give_back"}
         /\ prod'.chain = prod.chain /\ prod'.tailBlock = prod.tailBlock
<1>1. prod.pc = "clear" /\ UNCHANGED <<tailIndex, blockIndex, headers>>
  BY DEF ClearEntry, ProducerAt, counters
<1>2. CASE Bulk
  <2>1. GiveUp
    BY <1>2 DEF ClearEntry
  <2> QED BY <1>1, <1>2, <2>1, GiveUpLocals
<1>3. CASE ~Bulk
  <2>1. /\ NextNumber \in Nat /\ Chained \in Nat /\ AtNumber = NextNumber
        /\ (prod.chain = <<>> <=> Chained = 0) /\ prod.undone = 0
    BY <1>1, <1>3, LocalNumbers DEF Backing, ProducerInv, Undoing
  <2>2. Top = NextNumber - 1 /\ Linked = {}
    BY <1>1, <1>3, <2>1 DEF Top, Linked, Linking, Backing, Undoing
  <2>3. CASE prod.chain = <<>>
    <3>1. ProducerReturns
      BY <1>3, <2>3 DEF ClearEntry
    <3>2. /\ ProducerInv' /\ prod'.pc = "idle" /\ prod'.chain = <<>>
          /\ prod'.tailBlock = prod.tailBlock
          /\ NextNumber' = NextNumber /\ Top' = NextNumber - 1 /\ Linked' = {}
      BY <1>1, <3>1, ReturnsLocals
    <3> QED BY <1>1, <2>2, <2>3, <3>2 DEF SameNumbers
  <2>4. CASE prod.chain # <<>>
    <3>1. ProducerGoesTo("give_back")
      BY <1>3, <2>4 DEF ClearEntry
    <3>2. /\ prod' \in ProducerType /\ prod'.pc = "give_back" /\ prod'.tailBlock = prod.tailBlock
          /\ prod'.count = prod.count
          /\ prod'.entry = prod.entry /\ prod'.chain = prod.chain /\ prod'.undone = prod.undone
          /\ Chained' = Chained /\ NextNumber' = NextNumber /\ Bulk' = Bulk
      BY <1>1, <3>1, GoesToLocals DEF ProducerSteps
    <3>3. Entries' = Entries
      BY <1>1 DEF Entries, Capacity, Header
    <3>4. ProducerInv'
      BY <1>1, <2>1, <2>4, <3>2, <3>3 DEF ProducerInv, Entering, Linking, Backing, Undoing
    <3>5. Top' = Top /\ Linked' = Linked
      BY <2>2, <3>2 DEF Top, Linked, Linking, Backing, Undoing
    <3> QED BY <1>1, <3>2, <3>4, <3>5 DEF SameNumbers
  <2> QED BY <2>3, <2>4
<1> QED BY <1>2, <1>3

\* An entry of the failed bulk is cleared (:2775-2779).
LEMMA UndoEntryLocals ==
  ASSUME ProducerInv, CounterType, HeaderInv, UndoEntry
  PROVE  /\ ProducerInv' /\ NextNumber' = NextNumber /\ Top' = Top
         /\ Linked = NextNumber + prod.undone .. NextNumber + Chained - 1
         /\ Linked' = Linked \ {NextNumber + prod.undone}
         /\ Top = NextNumber + Chained - 1 - prod.undone
         /\ prod.undone \in 0 .. Chained - 1
         /\ prod.pc = "undo_entry" /\ prod'.pc = "undo_tail"
         /\ prod'.chain = prod.chain /\ prod'.tailBlock = prod.tailBlock
<1>1. /\ prod.pc = "undo_entry" /\ UNCHANGED <<tailIndex, blockIndex, headers>>
      /\ ProducerGoesTo("undo_tail")
  BY DEF UndoEntry, ProducerAt, counters
<1>2. /\ prod' \in ProducerType /\ prod'.pc = "undo_tail" /\ prod'.tailBlock = prod.tailBlock
      /\ prod'.count = prod.count
      /\ prod'.entry = prod.entry /\ prod'.chain = prod.chain /\ prod'.undone = prod.undone
      /\ Chained' = Chained /\ NextNumber' = NextNumber /\ Bulk' = Bulk
  BY <1>1, GoesToLocals DEF ProducerSteps
<1>3. /\ NextNumber \in Nat /\ Chained \in Nat /\ prod.undone \in Nat /\ prod.undone < Chained
      /\ Bulk
  BY <1>1, LocalNumbers DEF ProducerInv, Undoing
<1>4. Entries' = Entries
  BY <1>1 DEF Entries, Capacity, Header
<1>5. ProducerInv'
  BY <1>1, <1>2, <1>3, <1>4 DEF ProducerInv, Entering, Linking, Backing, Undoing
<1>6. Top = NextNumber + Chained - 1 - prod.undone /\ Top' = Top
  BY <1>1, <1>2 DEF Top, Linking, Backing, Undoing
<1>7. /\ Linked = NextNumber + prod.undone .. NextNumber + Chained - 1
      /\ Linked' = NextNumber + prod.undone + 1 .. NextNumber + Chained - 1
  BY <1>1, <1>2 DEF Linked, Linking, Backing, Undoing
<1>8. Linked' = Linked \ {NextNumber + prod.undone}
  BY <1>3, <1>7
<1> QED BY <1>1, <1>2, <1>3, <1>5, <1>6, <1>7, <1>8

\* And the tail goes back over it (:2780).
LEMMA UndoTailLocals ==
  ASSUME ProducerInv, CounterType, HeaderInv, UndoTail
  PROVE  /\ ProducerInv' /\ NextNumber' = NextNumber /\ Top' = Top - 1 /\ Linked' = Linked
         /\ prod.pc = "undo_tail" /\ prod'.pc \in {"undo_entry", "give_back"}
         /\ prod'.chain = prod.chain /\ prod'.tailBlock = prod.tailBlock
         /\ Top \in Int /\ Top >= NextNumber /\ Entries' = Entries /\ HeaderInv'
<1> DEFINE s == IF prod.undone + 1 < Len(prod.chain) THEN "undo_entry" ELSE "give_back"
           u == prod.undone + 1
<1>1. /\ prod.pc = "undo_tail" /\ UNCHANGED <<tailIndex, blockIndex>> /\ RewindTail
      /\ prod' = [prod EXCEPT !.undone = u, !.pc = s]
  BY DEF UndoTail, ProducerAt, counters
<1>2. /\ NextNumber \in Nat /\ Chained \in Nat /\ prod.undone \in Nat /\ prod.undone < Chained
      /\ Bulk /\ prod.count > 0
  BY <1>1, LocalNumbers DEF ProducerInv, Undoing
<1>3. /\ s \in {"undo_entry", "give_back"} /\ (s = "undo_entry" <=> u < Chained)
      /\ u = prod.undone + 1 /\ u \in Nat
  BY <1>2 DEF Chained
<1> HIDE DEF s, u
<1>4. prod \in ProducerType /\ prod.entry \in Entries
  BY DEF ProducerInv
<1>5. /\ prod' \in ProducerType /\ prod'.pc = s /\ prod'.undone = u
      /\ prod'.tailBlock = prod.tailBlock /\ prod'.call = prod.call /\ prod'.count = prod.count
      /\ prod'.at = prod.at /\ prod'.entry = prod.entry /\ prod'.chain = prod.chain
  BY <1>1, <1>3, <1>4 DEF ProducerType, ProducerSteps
<1>6. Chained' = Chained /\ NextNumber' = NextNumber /\ Bulk' = Bulk
  BY <1>1, <1>5 DEF Chained, NextNumber, Bulk
<1>7. HeaderInv' /\ Entries' = Entries
  BY <1>1, TailRewound
<1>8. ProducerInv'
  BY <1>2, <1>3, <1>4, <1>5, <1>6, <1>7 DEF ProducerInv, Entering, Linking, Backing, Undoing
<1>9. Top = NextNumber + Chained - 1 - prod.undone
  BY <1>1 DEF Top, Linking, Backing, Undoing
<1>10. Top' = NextNumber + Chained - 1 - u
  BY <1>2, <1>3, <1>5, <1>6 DEF Top, Linking, Backing, Undoing
<1>11. Linked = NextNumber + prod.undone + 1 .. NextNumber + Chained - 1
  BY <1>1 DEF Linked, Linking, Backing, Undoing
<1>12. Linked' = NextNumber + u .. NextNumber + Chained - 1
  BY <1>2, <1>3, <1>5, <1>6 DEF Linked, Linking, Backing, Undoing
<1>13. Linked' = Linked /\ Top' = Top - 1 /\ Top \in Int /\ Top >= NextNumber
  <2>1. NextNumber + u = NextNumber + prod.undone + 1
    BY <1>2, <1>3
  <2>2. Linked' = Linked
    BY <1>11, <1>12, <2>1
  <2> QED BY <1>2, <1>3, <1>9, <1>10, <2>2
<1> QED BY <1>1, <1>3, <1>5, <1>6, <1>7, <1>8, <1>13

\* A block of the failed call goes back to the pool (:2549, :2782).
LEMMA GiveBackLocals ==
  ASSUME ProducerInv, CounterType, HeaderInv, GiveBlockBack
  PROVE  /\ ProducerInv' /\ NextNumber' = NextNumber /\ Top' = Top /\ Linked' = {} /\ Linked = {}
         /\ prod.pc = "give_back" /\ prod'.pc \in {"give_back", "idle"}
         /\ prod'.chain = Tail(prod.chain) /\ prod'.tailBlock = prod.tailBlock
         /\ Chained > 0 /\ Head(prod.chain) \in Pointers /\ Head(prod.chain) = prod.chain[1]
         /\ Chained' = Chained - 1
         /\ \A i \in 1 .. Chained - 1 : prod'.chain[i] = prod.chain[i + 1]
<1>1. prod.pc = "give_back" /\ UNCHANGED <<tailIndex, blockIndex, headers>>
  BY DEF GiveBlockBack, ProducerAt, counters, indexVars
<1>2. /\ NextNumber \in Nat /\ Chained \in Nat /\ Chained > 0 /\ prod.chain \in Seq(Pointers)
      /\ prod \in ProducerType /\ prod.entry \in Entries /\ prod.count > 0
  BY <1>1, LocalNumbers DEF ProducerInv, ProducerType
<1>3. Top = NextNumber - 1 /\ Linked = {}
  BY <1>1 DEF Top, Linked, Linking, Backing, Undoing
<1>4. Head(prod.chain) \in Pointers /\ Head(prod.chain) = prod.chain[1]
  BY <1>2 DEF Chained
<1> DEFINE ch == Tail(prod.chain)
<1>4a. /\ ch \in Seq(Pointers) /\ Len(ch) = Len(prod.chain) - 1
       /\ \A i \in 1 .. Len(ch) : ch[i] = prod.chain[i + 1]
  <2>1. prod.chain # <<>>
    BY <1>2 DEF Chained
  <2> QED BY <1>2, <2>1, HeadTailProperties, Zenon
<1>4b. GiveBlockBack => Len(prod.chain) = 1 \/ prod' = [prod EXCEPT !.chain = ch]
  BY DEF GiveBlockBack
<1> HIDE DEF ch
<1>5. CASE Len(prod.chain) = 1
  <2>1. ProducerReturns
    BY <1>5 DEF GiveBlockBack
  <2>2. /\ ProducerInv' /\ prod'.pc = "idle" /\ prod'.chain = <<>>
        /\ prod'.tailBlock = prod.tailBlock
        /\ NextNumber' = NextNumber /\ Top' = NextNumber - 1 /\ Linked' = {}
    BY <1>1, <2>1, ReturnsLocals
  <2>3. ch = <<>>
    BY <1>4a, <1>5
  <2>4. Chained = 1 /\ Chained' = 0
    BY <1>5, <2>2 DEF Chained
  <2> QED BY <1>1, <1>2, <1>3, <1>4, <2>2, <2>3, <2>4 DEF ch
<1>6. CASE Len(prod.chain) # 1
  <2>1. ch \in Seq(Pointers) /\ Len(ch) = Chained - 1 /\ Len(ch) > 0
    <3>1. Len(prod.chain) = Chained
      BY DEF Chained
    <3> QED BY <1>2, <1>4a, <1>6, <3>1
  <2>2. prod' = [prod EXCEPT !.chain = ch]
    BY <1>4b, <1>6
  <2>3. /\ prod' \in ProducerType /\ prod'.pc = prod.pc /\ prod'.undone = prod.undone
        /\ prod'.tailBlock = prod.tailBlock /\ prod'.call = prod.call /\ prod'.count = prod.count
        /\ prod'.at = prod.at /\ prod'.entry = prod.entry /\ prod'.chain = ch
    BY <1>2, <2>1, <2>2 DEF ProducerType
  <2>4. Chained' = Len(ch) /\ NextNumber' = NextNumber /\ Bulk' = Bulk /\ Entries' = Entries
    BY <1>1, <2>3 DEF Chained, NextNumber, Bulk, Entries, Capacity, Header
  <2>5. ProducerInv'
    BY <1>1, <1>2, <2>1, <2>3, <2>4 DEF ProducerInv, Entering, Linking, Backing, Undoing
  <2>6. Top' = NextNumber - 1 /\ Linked' = {}
    BY <1>1, <2>3, <2>4 DEF Top, Linked, Linking, Backing, Undoing
  <2> QED BY <1>1, <1>2, <1>3, <1>4, <1>4a, <2>1, <2>3, <2>4, <2>5, <2>6 DEF ch, Chained
<1> QED BY <1>5, <1>6

-----------------------------------------------------------------------------
(* Each step of a consumer *)

\* A step of one consumer gives it the locals r and leaves the other consumers alone.
Becomes(c, r) ==
  /\ r \in ConsumerType /\ cons' \in [Consumers -> ConsumerType]
  /\ cons'[c] = r
  /\ \A d \in Consumers : d # c => cons'[d] = cons[d]

\* The update of one consumer.
LEMMA BecomesIs ==
  ASSUME cons \in [Consumers -> ConsumerType], NEW c \in Consumers, NEW r \in ConsumerType,
         cons' = [cons EXCEPT ![c] = r]
  PROVE  Becomes(c, r)
  BY DEF Becomes

\* The locals of a consumer between two calls.
LEMMA IdleConsumerType == IdleConsumer \in ConsumerType
<1>1. NoBlock \in Pointers /\ "idle" \in ConsumerSteps /\ 0 \in Int
  BY DEF ConsumerSteps, Pointers
<1> QED BY <1>1, Zenon DEF IdleConsumer, ConsumerType

\* dequeue() returns.
LEMMA OneConsumerReturns ==
  ASSUME cons \in [Consumers -> ConsumerType], NEW c \in Consumers, ConsumerReturns(c)
  PROVE  Becomes(c, IdleConsumer)
  BY IdleConsumerType, BecomesIs DEF ConsumerReturns

\* A step that changes only where the consumer is.
LEMMA OneConsumerGoesTo ==
  ASSUME cons \in [Consumers -> ConsumerType], NEW c \in Consumers, NEW s \in ConsumerSteps,
         ConsumerGoesTo(c, s)
  PROVE  Becomes(c, [cons[c] EXCEPT !.pc = s])
<1>1. cons[c] \in ConsumerType
  OBVIOUS
<1>2. [cons[c] EXCEPT !.pc = s] \in ConsumerType
  BY <1>1, Zenon DEF ConsumerType
<1>3. cons' = [cons EXCEPT ![c] = [cons[c] EXCEPT !.pc = s]]
  BY DEF ConsumerGoesTo
<1> QED BY <1>2, <1>3, BecomesIs

\* The fields of a consumer.
LEMMA ConsumerFields ==
  ASSUME NEW r \in ConsumerType
  PROVE  /\ r.pc \in ConsumerSteps /\ r.tail \in Int /\ r.overcommit \in Int /\ r.desired \in Int
         /\ r.mine \in Int /\ r.index \in Int /\ r.stop \in Int /\ r.header \in Int
         /\ r.slot \in Int /\ r.block \in Pointers
  BY DEF ConsumerType

\* The loads of the counters and the claim (concurrentqueue.h:2576-2582, :2804-2813).
LEMMA LoadTailBecomes ==
  ASSUME cons \in [Consumers -> ConsumerType], NEW c \in Consumers, CounterType,
         NEW max \in Int, LoadTail(c, max)
  PROVE  Becomes(c, [cons[c] EXCEPT !.pc = "load", !.tail = tailIndex, !.desired = max])
<1> DEFINE r == [cons[c] EXCEPT !.pc = "load", !.tail = tailIndex, !.desired = max]
<1>1. cons[c] \in ConsumerType /\ tailIndex \in Int /\ "load" \in ConsumerSteps
  BY DEF CounterType, ConsumerSteps
<1>2. r \in ConsumerType
  BY <1>1, Zenon DEF ConsumerType
<1>3. cons' = [cons EXCEPT ![c] = r]
  BY <1>1 DEF LoadTail, ConsumerType
<1> QED BY <1>2, <1>3, BecomesIs

\* The load of dequeueOvercommit (:2577, :2805).
LEMMA LoadOvercommitBecomes ==
  ASSUME cons \in [Consumers -> ConsumerType], NEW c \in Consumers, CounterType,
         LoadOvercommit(c)
  PROVE  Becomes(c, [cons[c] EXCEPT !.pc = "check", !.overcommit = dequeueOvercommit])
<1> DEFINE r == [cons[c] EXCEPT !.pc = "check", !.overcommit = dequeueOvercommit]
<1>1. cons[c] \in ConsumerType /\ dequeueOvercommit \in Int /\ "check" \in ConsumerSteps
  BY DEF CounterType, ConsumerSteps
<1>2. r \in ConsumerType
  BY <1>1, Zenon DEF ConsumerType
<1>3. cons' = [cons EXCEPT ![c] = r]
  BY <1>1 DEF LoadOvercommit, ConsumerType
<1> QED BY <1>2, <1>3, BecomesIs

\* The comparison that decides whether to claim (:2578, :2806-2808).
LEMMA LooksFullBecomes ==
  ASSUME cons \in [Consumers -> ConsumerType], NEW c \in Consumers, CounterType, LooksFull(c)
  PROVE  \/ Becomes(c, IdleConsumer)
         \/ \E d \in Int :
              /\ Becomes(c, [cons[c] EXCEPT !.pc = "claim", !.tail = 0, !.desired = d])
              /\ d > 0 \/ d = cons[c].desired
<1> DEFINE seen == cons[c].tail - (dequeueOptimisticCount - cons[c].overcommit)
           d == Least(cons[c].desired, seen)
           r == [cons[c] EXCEPT !.pc = "claim", !.tail = 0, !.desired = d]
<1>1. cons[c] \in ConsumerType /\ "claim" \in ConsumerSteps /\ 0 \in Int
  BY DEF ConsumerSteps, Pointers
<1>2. seen \in Int
  BY <1>1, ConsumerFields DEF CounterType
<1>3. d \in Int /\ (seen > 0 => d > 0 \/ d = cons[c].desired)
  <2> HIDE DEF seen
  <2> QED BY <1>1, <1>2, ConsumerFields DEF Least
<1>4. CASE ~(seen > 0)
  BY <1>4, OneConsumerReturns DEF LooksFull
<1>5. CASE seen > 0
  <2>1. cons' = [cons EXCEPT ![c].pc = "claim", ![c].tail = 0, ![c].desired = d]
    BY <1>5 DEF LooksFull
  <2> HIDE DEF d, seen
  <2>2. r \in ConsumerType
    BY <1>1, <1>3, Zenon DEF ConsumerType
  <2>3. cons' = [cons EXCEPT ![c] = r]
    BY <1>1, <2>1 DEF ConsumerType
  <2>4. Becomes(c, r)
    BY <2>2, <2>3, BecomesIs
  <2> QED BY <1>3, <1>5, <2>4
<1> QED BY <1>4, <1>5

\* dequeueOptimisticCount.fetch_add() (:2581, :2811).
LEMMA ClaimBecomes ==
  ASSUME cons \in [Consumers -> ConsumerType], NEW c \in Consumers, CounterType, Claim(c)
  PROVE  Becomes(c, [cons[c] EXCEPT !.pc = "recheck", !.overcommit = 0,
                                    !.mine = dequeueOptimisticCount - cons[c].overcommit])
<1> DEFINE m == dequeueOptimisticCount - cons[c].overcommit
           r == [cons[c] EXCEPT !.pc = "recheck", !.overcommit = 0, !.mine = m]
<1>1. cons[c] \in ConsumerType /\ "recheck" \in ConsumerSteps /\ 0 \in Int
  BY DEF ConsumerSteps, Pointers
<1>2. m \in Int
  BY <1>1, ConsumerFields DEF CounterType
<1>3. cons' = [cons EXCEPT ![c].pc = "recheck", ![c].overcommit = 0, ![c].mine = m]
  BY DEF Claim
<1> HIDE DEF m
<1>4. r \in ConsumerType
  BY <1>1, <1>2, Zenon DEF ConsumerType
<1>5. cons' = [cons EXCEPT ![c] = r]
  BY <1>1, <1>3 DEF ConsumerType
<1>6. Becomes(c, r)
  BY <1>4, <1>5, BecomesIs
<1> QED BY <1>6 DEF m

\* What a consumer may keep of its claim (:2583, :2814-2816).
Actual(c) == Least(cons[c].desired, tailIndex - cons[c].mine)

\* The second load of tailIndex (:2582, :2813).
LEMMA RecheckBecomes ==
  ASSUME cons \in [Consumers -> ConsumerType], NEW c \in Consumers, CounterType, Recheck(c)
  PROVE  Becomes(c, [cons[c] EXCEPT
           !.mine = 0, !.stop = IF Actual(c) > 0 THEN Actual(c) ELSE 0,
           !.pc = IF Actual(c) = cons[c].desired THEN "head" ELSE "overcommit"])
<1> DEFINE k == IF Actual(c) > 0 THEN Actual(c) ELSE 0
           s == IF Actual(c) = cons[c].desired THEN "head" ELSE "overcommit"
           r == [cons[c] EXCEPT !.mine = 0, !.stop = k, !.pc = s]
<1>1. cons[c] \in ConsumerType /\ s \in ConsumerSteps /\ 0 \in Int
  BY DEF ConsumerSteps, Pointers
<1>2. k \in Int
  BY <1>1, ConsumerFields DEF CounterType, Actual, Least
<1>3. cons' = [cons EXCEPT ![c].mine = 0, ![c].stop = k, ![c].pc = s]
  BY DEF Recheck, Actual
<1> HIDE DEF k, s
<1>4. r \in ConsumerType
  BY <1>1, <1>2, Zenon DEF ConsumerType
<1>5. cons' = [cons EXCEPT ![c] = r]
  BY <1>1, <1>3 DEF ConsumerType
<1>6. Becomes(c, r)
  BY <1>4, <1>5, BecomesIs
<1> QED BY <1>6 DEF k, s

\* dequeueOvercommit.fetch_add() (:2636, :2818).
LEMMA OvercommitBecomes ==
  ASSUME cons \in [Consumers -> ConsumerType], NEW c \in Consumers, Overcommit(c)
  PROVE  Becomes(c, IF cons[c].stop > 0 THEN [cons[c] EXCEPT !.pc = "head"] ELSE IdleConsumer)
<1>1. "head" \in ConsumerSteps
  BY DEF ConsumerSteps
<1> QED BY <1>1, OneConsumerGoesTo, OneConsumerReturns DEF Overcommit

\* headIndex.fetch_add() (:2584, :2823).
LEMMA ClaimHeadBecomes ==
  ASSUME cons \in [Consumers -> ConsumerType], NEW c \in Consumers, CounterType, ClaimHead(c)
  PROVE  Becomes(c, [cons[c] EXCEPT !.pc = "header", !.index = headIndex, !.desired = 0,
                                    !.stop = headIndex + cons[c].stop])
<1> DEFINE e == headIndex + cons[c].stop
           r == [cons[c] EXCEPT !.pc = "header", !.index = headIndex, !.desired = 0, !.stop = e]
<1>1. cons[c] \in ConsumerType /\ "header" \in ConsumerSteps /\ 0 \in Int /\ headIndex \in Int
  BY DEF ConsumerSteps, CounterType
<1>2. e \in Int
  BY <1>1, ConsumerFields
<1>3. cons' = [cons EXCEPT ![c].pc = "header", ![c].index = headIndex, ![c].desired = 0,
                           ![c].stop = e]
  BY DEF ClaimHead
<1> HIDE DEF e
<1>4. r \in ConsumerType
  BY <1>1, <1>2, Zenon DEF ConsumerType
<1>5. cons' = [cons EXCEPT ![c] = r]
  BY <1>1, <1>3 DEF ConsumerType
<1>6. Becomes(c, r)
  BY <1>4, <1>5, BecomesIs
<1> QED BY <1>6 DEF e

\* get_block_index_index_for_index() (:2976-2985).
LEMMA LoadBlockIndexBecomes ==
  ASSUME cons \in [Consumers -> ConsumerType], NEW c \in Consumers, HeaderInv, LoadBlockIndex(c)
  PROVE  Becomes(c, [cons[c] EXCEPT !.pc = "slot", !.header = blockIndex])
<1> DEFINE r == [cons[c] EXCEPT !.pc = "slot", !.header = blockIndex]
<1>1. cons[c] \in ConsumerType /\ blockIndex \in Int /\ "slot" \in ConsumerSteps
  BY DEF HeaderInv, ConsumerSteps
<1>2. r \in ConsumerType
  BY <1>1, Zenon DEF ConsumerType
<1>3. cons' = [cons EXCEPT ![c] = r]
  BY <1>1 DEF LoadBlockIndex, ConsumerType
<1> QED BY <1>2, <1>3, BecomesIs

\* The load of the tail of the header (:2977).
LEMMA LoadIndexTailBecomes ==
  ASSUME LocalType, NEW c \in Consumers, HeaderInv, LoadIndexTail(c)
  PROVE  /\ Becomes(c, [cons[c] EXCEPT !.pc = "find", !.slot = headers[cons[c].header].tail])
         /\ cons[c].header \in 1 .. blockIndex
<1> DEFINE t == headers[cons[c].header].tail
           r == [cons[c] EXCEPT !.pc = "find", !.slot = t]
<1>1. cons[c] \in ConsumerType /\ "find" \in ConsumerSteps /\ cons \in [Consumers -> ConsumerType]
  BY DEF LocalType, ConsumerSteps
<1>2. cons[c].header \in 1 .. blockIndex
  BY DEF LocalType, LoadIndexTail, ConsumerAt, LoadedHeader
<1>3. t \in 0 .. headers[cons[c].header].capacity - 1
      /\ headers[cons[c].header].capacity \in Nat
  BY <1>2, HeaderTypes
<1>4. t \in Int
  BY <1>3
<1>5. cons' = [cons EXCEPT ![c].pc = "find", ![c].slot = t]
  BY DEF LoadIndexTail
<1> HIDE DEF t
<1>6. r \in ConsumerType
  BY <1>1, <1>4, Zenon DEF ConsumerType
<1>7. cons' = [cons EXCEPT ![c] = r]
  BY <1>1, <1>5 DEF ConsumerType
<1>8. Becomes(c, r)
  BY <1>1, <1>6, <1>7, BecomesIs
<1> QED BY <1>2, <1>8 DEF t

\* The slot of an item's block, from the slot of a tail.
FoundSlot(c) ==
  LET h == headers[cons[c].header]
  IN (cons[c].slot + ((Base(cons[c].index) - key[h.index[cons[c].slot]]) \div BLOCK_SIZE))
       % h.capacity

\* The way from the key under that tail to the slot (:2978-2983).
LEMMA FindEntryBecomes ==
  ASSUME LocalType, StoreType, NEW c \in Consumers, HeaderInv, FindEntry(c)
  PROVE  /\ Becomes(c, [cons[c] EXCEPT !.pc = "take", !.slot = FoundSlot(c)])
         /\ cons[c].header \in 1 .. blockIndex
         /\ cons[c].slot \in 0 .. headers[cons[c].header].capacity - 1
         /\ FoundSlot(c) \in 0 .. headers[cons[c].header].capacity - 1
<1> DEFINE t == FoundSlot(c)
           h == headers[cons[c].header]
           r == [cons[c] EXCEPT !.pc = "take", !.slot = t]
<1>1. cons[c] \in ConsumerType /\ "take" \in ConsumerSteps /\ cons \in [Consumers -> ConsumerType]
  BY DEF LocalType, ConsumerSteps
<1>2. cons[c].header \in 1 .. blockIndex /\ cons[c].slot \in 0 .. h.capacity - 1
  BY DEF LocalType, FindEntry, ConsumerAt, LoadedHeader, LoadedSlot
<1>3. h.capacity \in Nat \ {0} /\ h.index \in [0 .. h.capacity - 1 -> Entries]
  BY <1>2, HeaderTypes
<1>4. key[h.index[cons[c].slot]] \in Int
  BY <1>2, <1>3 DEF StoreType
<1>5. Base(cons[c].index) \in Int
  <2>1. cons[c].index \in Int
    BY <1>1, ConsumerFields
  <2>2. Num(cons[c].index) \in Int /\ Base(cons[c].index) = BLOCK_SIZE * Num(cons[c].index)
    BY <2>1, Place
  <2> QED BY <2>2, BasesOrdered
<1>6. t \in 0 .. h.capacity - 1
  <2> DEFINE x == Base(cons[c].index) - key[h.index[cons[c].slot]]
             d == x \div BLOCK_SIZE
             y == cons[c].slot + d
  <2>1. x \in Int
    BY <1>4, <1>5
  <2> HIDE DEF x
  <2>2. d \in Int
    BY <2>1, DivMod, QueueShapeAssumption
  <2> HIDE DEF d
  <2>3. y \in Int
    BY <1>2, <1>3, <2>2
  <2> HIDE DEF y
  <2>4. y % h.capacity \in 0 .. h.capacity - 1
    BY <1>3, <2>3, ModIn
  <2> QED BY <2>4 DEF y, d, x, FoundSlot
<1>7. t \in Int
  BY <1>3, <1>6
<1>8. cons' = [cons EXCEPT ![c].pc = "take", ![c].slot = t]
  BY <1>1, <1>2, Zenon DEF FindEntry, FoundSlot
<1> HIDE DEF t
<1>9. r \in ConsumerType
  BY <1>1, <1>7, Zenon DEF ConsumerType
<1>10. cons' = [cons EXCEPT ![c] = r]
  BY <1>1, <1>8 DEF ConsumerType
<1>11. Becomes(c, r)
  BY <1>1, <1>9, <1>10, BecomesIs
<1> QED BY <1>2, <1>6, <1>11 DEF t

\* An entry that a consumer works with is one of the newest index.
LEMMA EntryOfType ==
  ASSUME LocalType, HeaderInv, NEW c \in Consumers, cons[c].pc \in LoadedSlot
  PROVE  /\ EntryOf(c) \in Entries
         /\ cons[c].header \in 1 .. blockIndex
         /\ cons[c].slot \in 0 .. headers[cons[c].header].capacity - 1
         /\ headers[cons[c].header].capacity \in Nat \ {0}
<1>1. /\ cons[c].header \in 1 .. blockIndex
      /\ cons[c].slot \in 0 .. headers[cons[c].header].capacity - 1
  BY DEF LocalType, LoadedHeader, LoadedSlot
<1>2. /\ headers[cons[c].header].capacity \in Nat \ {0}
      /\ headers[cons[c].header].index \in [0 .. headers[cons[c].header].capacity - 1 -> Entries]
  BY <1>1, HeaderTypes
<1> QED BY <1>1, <1>2 DEF EntryOf

\* dequeue_bulk() moves the items out (:2834-2878).
LEMMA TakeBecomes ==
  ASSUME LocalType, HeaderInv, StoreType, NEW c \in Consumers, TakeItems(c)
  PROVE  Becomes(c, [cons[c] EXCEPT !.pc = "empty", !.block = value[EntryOf(c)]])
<1> DEFINE b == value[EntryOf(c)]
           r == [cons[c] EXCEPT !.pc = "empty", !.block = b]
<1>1. cons[c] \in ConsumerType /\ "empty" \in ConsumerSteps /\ cons \in [Consumers -> ConsumerType]
  BY DEF LocalType, ConsumerSteps
<1>2. EntryOf(c) \in Entries
  BY EntryOfType DEF TakeItems, ConsumerAt, LoadedSlot
<1>3. b \in Pointers
  BY <1>2 DEF StoreType
<1>4. cons' = [cons EXCEPT ![c].pc = "empty", ![c].block = b]
  BY DEF TakeItems
<1> HIDE DEF b
<1>5. r \in ConsumerType
  BY <1>1, <1>3, Zenon DEF ConsumerType
<1>6. cons' = [cons EXCEPT ![c] = r]
  BY <1>1, <1>4 DEF ConsumerType
<1>7. Becomes(c, r)
  BY <1>1, <1>5, <1>6, BecomesIs
<1> QED BY <1>7 DEF b

\* The locals at the next block of a bulk, or none.
AfterBlock(c) ==
  IF EndIndex(c) = cons[c].stop THEN IdleConsumer
  ELSE [cons[c] EXCEPT !.pc = "take", !.index = EndIndex(c), !.block = NoBlock,
                       !.slot = (cons[c].slot + 1) % headers[cons[c].header].capacity]

\* The end of the items in one block (:2831-2832).
LEMMA EndIndexType ==
  ASSUME LocalType, NEW c \in Consumers
  PROVE  EndIndex(c) \in Int /\ cons[c].index \in Int /\ cons[c].stop \in Int
<1>1. cons[c] \in ConsumerType
  BY DEF LocalType
<1>2. cons[c].index \in Int /\ cons[c].stop \in Int
  BY <1>1, ConsumerFields
<1>3. Num(cons[c].index) \in Int /\ Base(cons[c].index) = BLOCK_SIZE * Num(cons[c].index)
  BY <1>2, Place
<1>4. Base(cons[c].index) \in Int /\ BLOCK_SIZE \in Int
  BY <1>3, BasesOrdered, QueueShapeAssumption
<1> QED BY <1>2, <1>4 DEF EndIndex, Least

\* The next block of a bulk, or the return (:2890-2893).
LEMMA AfterBlockBecomes ==
  ASSUME LocalType, HeaderInv, NEW c \in Consumers, cons[c].pc \in LoadedSlot,
         NextBlockOrReturn(c)
  PROVE  /\ Becomes(c, AfterBlock(c))
         /\ EndIndex(c) # cons[c].stop =>
              AfterBlock(c).slot \in 0 .. headers[cons[c].header].capacity - 1
<1> DEFINE x == cons[c].slot + 1
           t == x % headers[cons[c].header].capacity
           e == EndIndex(c)
           r == [cons[c] EXCEPT !.pc = "take", !.index = e, !.block = NoBlock, !.slot = t]
<1>1. cons[c] \in ConsumerType /\ "take" \in ConsumerSteps /\ cons \in [Consumers -> ConsumerType]
      /\ NoBlock \in Pointers
  BY DEF LocalType, ConsumerSteps, Pointers
<1>2. x \in Int /\ headers[cons[c].header].capacity \in Nat \ {0}
  BY EntryOfType
<1> HIDE DEF x
<1>3. t \in 0 .. headers[cons[c].header].capacity - 1
  BY <1>2, ModIn
<1>4. t \in Int /\ e \in Int
  BY <1>2, <1>3, EndIndexType
<1>5. CASE EndIndex(c) = cons[c].stop
  BY <1>1, <1>5, OneConsumerReturns DEF NextBlockOrReturn, AfterBlock
<1>6. CASE EndIndex(c) # cons[c].stop
  <2>1. cons' = [cons EXCEPT ![c].pc = "take", ![c].index = e, ![c].block = NoBlock, ![c].slot = t]
    BY <1>1, <1>6 DEF NextBlockOrReturn, x, ConsumerType
  <2>2. AfterBlock(c) = r
    BY <1>6 DEF AfterBlock, x
  <2> HIDE DEF e, t
  <2>3. r \in ConsumerType
    BY <1>1, <1>4, Zenon DEF ConsumerType
  <2>4. cons' = [cons EXCEPT ![c] = r]
    BY <1>1, <2>1 DEF ConsumerType
  <2>5. Becomes(c, r)
    BY <1>1, <2>3, <2>4, BecomesIs
  <2>6. r.slot = t
    BY <1>1 DEF ConsumerType
  <2> QED BY <1>3, <2>2, <2>5, <2>6
<1> QED BY <1>5, <1>6

\* set_empty(), set_many_empty(), the unlinking and the free list (:2879-2891).
LEMMA SetEmptyBecomes ==
  ASSUME LocalType, HeaderInv, NEW c \in Consumers, SetEmpty(c)
  PROVE  /\ Becomes(c, IF emptied[cons[c].block] + EndIndex(c) - cons[c].index = BLOCK_SIZE
                         THEN [cons[c] EXCEPT !.pc = "unlink"] ELSE AfterBlock(c))
         /\ EndIndex(c) # cons[c].stop =>
              AfterBlock(c).slot \in 0 .. headers[cons[c].header].capacity - 1
              \/ emptied[cons[c].block] + EndIndex(c) - cons[c].index = BLOCK_SIZE
<1>1. "unlink" \in ConsumerSteps /\ cons \in [Consumers -> ConsumerType]
      /\ cons[c].pc \in LoadedSlot
  BY DEF LocalType, ConsumerSteps, SetEmpty, ConsumerAt, LoadedSlot
<1> QED BY <1>1, OneConsumerGoesTo, AfterBlockBecomes DEF SetEmpty

\* The store of nullptr in the entry (:2627, :2886).
LEMMA UnlinkBecomes ==
  ASSUME LocalType, NEW c \in Consumers, UnlinkBlock(c)
  PROVE  Becomes(c, [cons[c] EXCEPT !.pc = "recycle"])
<1>1. "recycle" \in ConsumerSteps /\ cons \in [Consumers -> ConsumerType]
  BY DEF LocalType, ConsumerSteps
<1> QED BY <1>1, OneConsumerGoesTo DEF UnlinkBlock

\* And the call goes on or returns (:2629, :2888).
LEMMA RecycleBecomes ==
  ASSUME LocalType, HeaderInv, NEW c \in Consumers, RecycleBlock(c)
  PROVE  /\ Becomes(c, AfterBlock(c))
         /\ EndIndex(c) # cons[c].stop =>
              AfterBlock(c).slot \in 0 .. headers[cons[c].header].capacity - 1
<1>1. cons[c].pc \in LoadedSlot
  BY DEF RecycleBlock, ConsumerAt, LoadedSlot
<1> QED BY <1>1, AfterBlockBecomes DEF RecycleBlock

-----------------------------------------------------------------------------
(* The shape of the state is an invariant *)

\* A step that stores no header leaves the block index what it is.
LEMMA HeadersSame ==
  ASSUME UNCHANGED <<blockIndex, headers>>
  PROVE  /\ HeaderInv => HeaderInv'
         /\ Header' = Header /\ Capacity' = Capacity /\ Entries' = Entries /\ NextSlot' = NextSlot
<1>1. Header' = Header
  BY DEF Header
<1>2. Capacity' = Capacity /\ Entries' = Entries /\ NextSlot' = NextSlot
  BY <1>1 DEF Capacity, Entries, NextSlot
<1>3. \A h : HeaderShape(h) => HeaderShape(h)'
  BY <1>2 DEF HeaderShape
<1>4. NewestComplete => NewestComplete'
  BY <1>1, <1>2 DEF NewestComplete
<1> QED BY <1>1, <1>2, <1>3, <1>4 DEF HeaderInv

\* Consumers keep the headers that they have loaded: no header is ever shortened.
LEMMA LocalsKept ==
  ASSUME HeaderInv, LocalType, UNCHANGED cons, blockIndex' \in Int, blockIndex' >= blockIndex,
         \A h \in 1 .. blockIndex : headers'[h].capacity = headers[h].capacity
  PROVE  LocalType'
<1>1. blockIndex \in Int
  BY DEF HeaderInv
<1>2. \A c \in Consumers : cons'[c].pc \in LoadedHeader => cons'[c].header \in 1 .. blockIndex
  BY DEF LocalType
<1>3. \A c \in Consumers : cons'[c].pc \in LoadedSlot => cons'[c].pc \in LoadedHeader
  BY DEF LoadedHeader, LoadedSlot
<1>4. \A c \in Consumers : cons'[c].pc \in LoadedSlot =>
        cons'[c].slot \in 0 .. headers'[cons'[c].header].capacity - 1
  <2> SUFFICES ASSUME NEW c \in Consumers, cons'[c].pc \in LoadedSlot
               PROVE  cons'[c].slot \in 0 .. headers'[cons'[c].header].capacity - 1
    OBVIOUS
  <2>1. cons'[c].header \in 1 .. blockIndex
    BY <1>2, <1>3
  <2>2. headers'[cons'[c].header].capacity = headers[cons'[c].header].capacity
    BY <2>1
  <2>3. cons'[c].slot \in 0 .. headers[cons'[c].header].capacity - 1
    BY DEF LocalType
  <2> QED BY <2>2, <2>3
<1>5. \A c \in Consumers : cons'[c].pc \in LoadedHeader => cons'[c].header \in 1 .. blockIndex'
  BY <1>1, <1>2
<1>6. cons' \in [Consumers -> ConsumerType]
  BY DEF LocalType
<1> QED BY <1>4, <1>5, <1>6 DEF LocalType

\* A consumer that steps has a header and a slot of it when its next step needs them.
LEMMA LocalsBecome ==
  ASSUME LocalType, UNCHANGED <<blockIndex, headers>>, NEW c \in Consumers, NEW r, Becomes(c, r),
         r.pc \in LoadedHeader => r.header \in 1 .. blockIndex,
         r.pc \in LoadedSlot => r.slot \in 0 .. headers[r.header].capacity - 1
  PROVE  LocalType'
  BY Zenon DEF LocalType, Becomes

\* What a step of the producer must leave for the shape to hold.
LEMMA ShapeKept ==
  ASSUME QueueShape, UNCHANGED cons, HeaderInv', ProducerInv', CounterType', StoreType', PoolType',
         blockIndex' >= blockIndex,
         \A h \in 1 .. blockIndex : headers'[h].capacity = headers[h].capacity
  PROVE  QueueShape'
<1>1. HeaderInv /\ LocalType /\ blockIndex' \in Int
  BY DEF QueueShape, HeaderInv
<1>2. LocalType'
  BY <1>1, LocalsKept
<1> QED BY <1>2 DEF QueueShape

\* The counters, blocks, entries and pools that a step does not name are unchanged.
LEMMA TypesSame ==
  /\ UNCHANGED counters /\ CounterType => CounterType'
  /\ UNCHANGED <<blockIndex, headers, key, value, elements, emptied>> /\ StoreType => StoreType'
  /\ UNCHANGED poolVars /\ PoolType => PoolType'
<1>1. UNCHANGED counters /\ CounterType => CounterType'
  BY DEF counters, CounterType
<1>2. UNCHANGED <<blockIndex, headers, key, value, elements, emptied>> /\ StoreType => StoreType'
  BY HeadersSame DEF StoreType
<1>3. UNCHANGED poolVars /\ PoolType => PoolType'
  BY DEF poolVars, PoolType
<1> QED BY <1>1, <1>2, <1>3

\* A block of T objects after enqueue() has constructed its items.
LEMMA FillType ==
  ASSUME CounterType, ProducerInv, elements \in [Blocks -> [0 .. BLOCK_SIZE - 1 -> Int]], Fill
  PROVE  elements' \in [Blocks -> [0 .. BLOCK_SIZE - 1 -> Int]]
<1> DEFINE here(b, s) == {i \in tailIndex .. LastIndex : BlockOf(i) = b /\ Slot(i) = s}
           new(b, s) == IF here(b, s) = {} THEN elements[b][s] ELSE CHOOSE i \in here(b, s) : TRUE
<1>1. \A b \in Blocks, s \in 0 .. BLOCK_SIZE - 1 : elements[b][s] \in Int
  OBVIOUS
<1>2. \A b, s : here(b, s) # {} => (CHOOSE i \in here(b, s) : TRUE) \in here(b, s)
  OBVIOUS
<1>3. \A b, s : here(b, s) \subseteq Int
  BY LocalNumbers DEF CounterType
<1> HIDE DEF here
<1>4. \A b \in Blocks, s \in 0 .. BLOCK_SIZE - 1 : new(b, s) \in Int
  BY <1>1, <1>2, <1>3
<1>5. elements' = [b \in Blocks |-> [s \in 0 .. BLOCK_SIZE - 1 |-> new(b, s)]]
  BY DEF Fill, here
<1> HIDE DEF new
<1> QED BY <1>4, <1>5

\* The producer's steps that touch neither headers nor counters nor pools.
LEMMA ProducerShape ==
  ASSUME QueueShape, UNCHANGED <<counters, blockIndex, headers, poolVars, cons>>,
         ProducerInv', StoreType'
  PROVE  QueueShape'
<1>1. /\ HeaderInv /\ CounterType /\ PoolType /\ blockIndex \in Int
      /\ UNCHANGED counters /\ UNCHANGED poolVars /\ UNCHANGED <<blockIndex, headers>>
  BY DEF QueueShape, HeaderInv
<1>2. HeaderInv' /\ CounterType' /\ PoolType'
  BY <1>1, HeadersSame, TypesSame
<1>3. blockIndex' >= blockIndex
  BY <1>1
<1>4. \A h \in 1 .. blockIndex : headers'[h].capacity = headers[h].capacity
  BY <1>1
<1> QED BY <1>2, <1>3, <1>4, ShapeKept

\* A value stored in an entry, and a count of a block.
LEMMA StoreUpdates ==
  ASSUME StoreType, Entries' = Entries
  PROVE  /\ \A b \in Pointers : \A e : value' = [value EXCEPT ![e] = b]
                                     => value' \in [Entries' -> Pointers]
         /\ \A k \in Int : \A e : key' = [key EXCEPT ![e] = k] => key' \in [Entries' -> Int]
         /\ \A b : emptied' = [emptied EXCEPT ![b] = 0] => emptied' \in [Blocks -> Int]
<1>1. key \in [Entries -> Int] /\ value \in [Entries -> Pointers] /\ emptied \in [Blocks -> Int]
  BY DEF StoreType
<1> QED BY <1>1

\* add_block_to_free_list() keeps the pools in their types.
LEMMA AddedType ==
  ASSUME PoolType, NEW b \in Pointers, UNCHANGED initialBlockPoolIndex, AddBlockToFreeList(b)
  PROVE  PoolType'
  BY DEF PoolType, AddBlockToFreeList

\* Every step of the producer keeps the shape.
LEMMA EnqueueShape ==
  ASSUME QueueShape, EnqueueStep
  PROVE  QueueShape'
<1>0. HeaderInv /\ ProducerInv /\ CounterType /\ StoreType /\ PoolType /\ LocalType
  BY DEF QueueShape
<1>0a. /\ key \in [Entries -> Int] /\ value \in [Entries -> Pointers]
       /\ elements \in [Blocks -> [0 .. BLOCK_SIZE - 1 -> Int]] /\ emptied \in [Blocks -> Int]
  BY <1>0 DEF StoreType
<1>0b. NoBlock \in Pointers /\ INVALID_BLOCK_BASE \in Int
  BY DEF Pointers, INVALID_BLOCK_BASE
<1> DEFINE Calm == UNCHANGED <<counters, blockIndex, headers, poolVars, cons>>
<1>1. ASSUME Calm, ProducerInv', UNCHANGED <<key, value, elements, emptied>> PROVE QueueShape'
  <2>1. UNCHANGED <<blockIndex, headers, key, value, elements, emptied>>
    BY <1>1
  <2>2. StoreType'
    BY <1>0, <2>1, TypesSame
  <2> QED BY <1>1, <2>2, ProducerShape
<1>2. CASE StartEnqueue
  <2>1. ProducerInv'
    BY <1>0, <1>2, StartLocals
  <2>2. Calm /\ UNCHANGED <<key, value, elements, emptied>>
    BY <1>2 DEF StartEnqueue, indexVars, blockVars
  <2> QED BY <1>1, <2>1, <2>2
<1>3. CASE CheckRoom
  <2>1. ProducerInv'
    BY <1>0, <1>3, RoomLocals
  <2>2. Calm /\ UNCHANGED <<key, value, elements, emptied>>
    BY <1>3 DEF CheckRoom, indexVars, blockVars
  <2> QED BY <1>1, <2>1, <2>2
<1>4. CASE InsertIndexEntry
  <2>1. ProducerInv'
    BY <1>0, <1>4, InsertLocals
  <2>2. Calm /\ UNCHANGED <<value, elements, emptied>>
    BY <1>4 DEF InsertIndexEntry, blockVars
  <2>3. prod.at \in Int
    BY <1>0 DEF ProducerInv, ProducerType
  <2>4. key' \in [Entries -> Int]
    <3>1. \/ key' = [key EXCEPT ![Header.index[NextSlot]] = prod.at]
          \/ key' = key
      BY <1>4 DEF InsertIndexEntry
    <3> QED BY <1>0a, <2>3, <3>1
  <2>5. Entries' = Entries
    BY <2>2, HeadersSame
  <2>6. StoreType'
    BY <1>0a, <2>2, <2>4, <2>5 DEF StoreType
  <2> QED BY <2>1, <2>2, <2>6, ProducerShape
<1>5. CASE GrowIndex
  <2>1. ProducerInv'
    BY <1>0, <1>5, GrowLocals
  <2>2. UNCHANGED counters /\ UNCHANGED poolVars /\ UNCHANGED cons
        /\ UNCHANGED <<elements, emptied>>
    BY <1>5 DEF GrowIndex, blockVars
  <2>3. CASE UNCHANGED indexVars
    <3>1. Calm /\ UNCHANGED <<key, value, elements, emptied>>
      BY <2>2, <2>3 DEF indexVars
    <3> QED BY <1>1, <2>1, <3>1
  <2>4. CASE ~ UNCHANGED indexVars
    <3> DEFINE old == Header.capacity
               k(e) == IF e < old THEN key[e] ELSE INVALID_BLOCK_BASE
               v(e) == IF e < old THEN value[e] ELSE NoBlock
    <3>1. /\ key' = [e \in 0 .. 2 * old - 1 |-> k(e)]
          /\ value' = [e \in 0 .. 2 * old - 1 |-> v(e)]
          /\ headers' = Append(headers, LargerHeader(Header)) /\ blockIndex' = blockIndex + 1
      BY <1>5, <2>4 DEF GrowIndex
    <3>2. /\ HeaderInv' /\ Capacity' = 2 * Capacity
          /\ \A h \in 1 .. blockIndex : headers'[h] = headers[h]
      BY <1>0, <3>1, IndexGrown
    <3>3. old = Capacity /\ old \in Nat /\ Entries = 0 .. old - 1
      BY <1>0, HeaderTypes DEF Capacity, Entries
    <3>4. Entries' = 0 .. 2 * old - 1
      BY <3>2, <3>3 DEF Entries
    <3> HIDE DEF old
    <3>5. \A e \in 0 .. 2 * old - 1 : k(e) \in Int /\ v(e) \in Pointers
      <4> TAKE e \in 0 .. 2 * old - 1
      <4>1. CASE e < old
        <5>1. e \in Entries
          BY <3>3, <4>1
        <5> QED BY <1>0a, <4>1, <5>1
      <4>2. CASE ~(e < old)
        BY <1>0b, <4>2
      <4> QED BY <4>1, <4>2
    <3> HIDE DEF k, v
    <3>6. StoreType'
      BY <1>0a, <2>2, <3>1, <3>4, <3>5 DEF StoreType
    <3>7. CounterType' /\ PoolType'
      BY <1>0, <2>2, TypesSame
    <3>8. \A h \in 1 .. blockIndex : headers'[h].capacity = headers[h].capacity
      BY <3>2
    <3>9. blockIndex' >= blockIndex
      BY <1>0, <3>1 DEF HeaderInv
    <3> QED BY <2>1, <2>2, <3>2, <3>6, <3>7, <3>8, <3>9, ShapeKept
  <2> QED BY <2>3, <2>4
<1>6. ASSUME HeaderInv', ProducerInv', UNCHANGED blockIndex, Entries' = Entries,
             \A h \in 1 .. blockIndex : headers'[h].capacity = headers[h].capacity,
             UNCHANGED counters, UNCHANGED poolVars, UNCHANGED cons,
             UNCHANGED <<key, value, elements, emptied>>
      PROVE  QueueShape'
  <2>1. StoreType'
    BY <1>0a, <1>6 DEF StoreType
  <2>2. CounterType' /\ PoolType'
    BY <1>0, <1>6, TypesSame
  <2>3. blockIndex' >= blockIndex
    BY <1>0, <1>6 DEF HeaderInv
  <2> QED BY <1>6, <2>1, <2>2, <2>3, ShapeKept
<1>7. CASE PublishIndexTail
  <2>1. ProducerInv' /\ HeaderInv' /\ Entries' = Entries
    BY <1>0, <1>7, PublishLocals
  <2>2. /\ UNCHANGED counters /\ UNCHANGED poolVars /\ UNCHANGED cons /\ UNCHANGED blockIndex
        /\ UNCHANGED <<key, value, elements, emptied>>
        /\ headers' = [headers EXCEPT ![blockIndex].tail = NextSlot]
    BY <1>7 DEF PublishIndexTail, blockVars
  <2>3. \A h \in 1 .. blockIndex : headers'[h].capacity = headers[h].capacity
    BY <1>0, <2>2, TailStored, HeaderTypes
  <2> QED BY <1>6, <2>1, <2>2, <2>3
<1>8. CASE RequisitionBlock
  <2>1. /\ ProducerInv'
        /\ \/ UNCHANGED poolVars
           \/ \E b \in Pointers : TakesBlock(b)
    BY <1>0, <1>8, RequisitionLocals
  <2>2. UNCHANGED counters /\ UNCHANGED <<blockIndex, headers, key, value, elements, emptied>>
        /\ UNCHANGED cons
    BY <1>8 DEF RequisitionBlock, indexVars, blockVars
  <2>3. PoolType'
    <3>1. CASE UNCHANGED poolVars
      BY <1>0, <3>1, TypesSame
    <3>2. ASSUME NEW b \in Pointers, TakesBlock(b) PROVE PoolType'
      <4>1. InitialBlocks \in Nat
        BY QueueShapeAssumption
      <4> QED BY <1>0, <3>2, <4>1 DEF TakesBlock, PoolType
    <3> QED BY <2>1, <3>1, <3>2
  <2>4. StoreType' /\ CounterType' /\ HeaderInv'
    BY <1>0, <2>2, TypesSame, HeadersSame
  <2>5. /\ \A h \in 1 .. blockIndex : headers'[h].capacity = headers[h].capacity
        /\ blockIndex' >= blockIndex
    BY <1>0, <2>2 DEF HeaderInv
  <2> QED BY <2>1, <2>2, <2>3, <2>4, <2>5, ShapeKept
<1>9. CASE ConstructFirst
  <2>1. ProducerInv'
    BY <1>0, <1>9, ConstructLocals
  <2>2. Calm /\ UNCHANGED <<key, value>> /\ emptied' = [emptied EXCEPT ![NewBlock] = 0]
        /\ (Fill \/ UNCHANGED elements)
    BY <1>9 DEF ConstructFirst, indexVars
  <2>3. elements' \in [Blocks -> [0 .. BLOCK_SIZE - 1 -> Int]]
    BY <1>0, <1>0a, <2>2, FillType
  <2>4. Entries' = Entries
    BY <2>2, HeadersSame
  <2>4a. emptied' \in [Blocks -> Int]
    BY <1>0, <2>2, <2>4, StoreUpdates
  <2>5. StoreType'
    BY <1>0a, <2>2, <2>3, <2>4, <2>4a DEF StoreType
  <2> QED BY <2>1, <2>2, <2>5, ProducerShape
<1>10. CASE LinkBlock
  <2>1. ProducerInv' /\ NewBlock \in Pointers
    BY <1>0, <1>10, LinkLocals
  <2>2. Calm /\ UNCHANGED <<key, elements>> /\ emptied' = [emptied EXCEPT ![NewBlock] = 0]
        /\ value' = [value EXCEPT ![prod.entry] = NewBlock]
    BY <1>10 DEF LinkBlock
  <2>3. Entries' = Entries
    BY <2>2, HeadersSame
  <2>3a. emptied' \in [Blocks -> Int]
    BY <1>0, <2>2, <2>3, StoreUpdates
  <2>3b. value' \in [Entries' -> Pointers]
    BY <1>0, <2>1, <2>2, <2>3, StoreUpdates
  <2>4. StoreType'
    BY <1>0a, <2>2, <2>3, <2>3a, <2>3b DEF StoreType
  <2> QED BY <2>1, <2>2, <2>4, ProducerShape
<1>11. CASE FillBlocks
  <2>1. ProducerInv'
    BY <1>0, <1>11, FillLocals
  <2>2. Calm /\ UNCHANGED <<key, value, emptied>> /\ (Fill \/ UNCHANGED elements)
    BY <1>11 DEF FillBlocks, indexVars
  <2>3. elements' \in [Blocks -> [0 .. BLOCK_SIZE - 1 -> Int]]
    BY <1>0, <1>0a, <2>2, FillType
  <2>4. Entries' = Entries
    BY <2>2, HeadersSame
  <2>5. StoreType'
    BY <1>0a, <2>2, <2>3, <2>4 DEF StoreType
  <2> QED BY <2>1, <2>2, <2>5, ProducerShape
<1>12. CASE StoreTail
  <2>1. ProducerInv' /\ tailIndex' = LastIndex + 1 /\ tailIndex' > tailIndex
    BY <1>0, <1>12, StoreLocals
  <2>2. /\ UNCHANGED <<headIndex, dequeueOptimisticCount, dequeueOvercommit>>
        /\ UNCHANGED <<blockIndex, headers, key, value, elements, emptied>>
        /\ UNCHANGED poolVars /\ UNCHANGED cons
    BY <1>12 DEF StoreTail, indexVars, blockVars
  <2>3. CounterType'
    <3>1. tailIndex' \in Nat
      BY <1>0, <2>1, LocalNumbers DEF CounterType
    <3> QED BY <1>0, <2>2, <3>1 DEF CounterType
  <2>4. StoreType' /\ PoolType' /\ HeaderInv'
    BY <1>0, <2>2, TypesSame, HeadersSame
  <2>5. /\ \A h \in 1 .. blockIndex : headers'[h].capacity = headers[h].capacity
        /\ blockIndex' >= blockIndex
    BY <1>0, <2>2 DEF HeaderInv
  <2> QED BY <2>1, <2>2, <2>3, <2>4, <2>5, ShapeKept
<1>13. CASE RewindIndexTail
  <2>1. ProducerInv' /\ HeaderInv' /\ Entries' = Entries
    BY <1>0, <1>13, RewindLocals
  <2>2. /\ UNCHANGED counters /\ UNCHANGED poolVars /\ UNCHANGED cons /\ UNCHANGED blockIndex
        /\ UNCHANGED <<key, value, elements, emptied>> /\ RewindTail
    BY <1>13 DEF RewindIndexTail, blockVars
  <2>3. \A h \in 1 .. blockIndex : headers'[h].capacity = headers[h].capacity
    BY <1>0, <2>2, TailRewound
  <2> QED BY <1>6, <2>1, <2>2, <2>3
<1>14. CASE ClearEntry
  <2>1. ProducerInv'
    BY <1>0, <1>14, ClearLocals
  <2>2. Calm /\ UNCHANGED <<key, elements, emptied>>
        /\ value' = [value EXCEPT ![prod.entry] = NoBlock]
    BY <1>14 DEF ClearEntry, blockVars
  <2>3. Entries' = Entries
    BY <2>2, HeadersSame
  <2>4. StoreType'
    BY <1>0a, <1>0b, <2>2, <2>3 DEF StoreType
  <2> QED BY <2>1, <2>2, <2>4, ProducerShape
<1>15. CASE UndoEntry
  <2>1. ProducerInv'
    BY <1>0, <1>15, UndoEntryLocals
  <2> DEFINE e == EntryFor(blockIndex, Header.tail, FirstNewBase + prod.undone * BLOCK_SIZE)
  <2>2. Calm /\ UNCHANGED <<key, elements, emptied>> /\ value' = [value EXCEPT ![e] = NoBlock]
    BY <1>15 DEF UndoEntry, blockVars
  <2> HIDE DEF e
  <2>3. Entries' = Entries
    BY <2>2, HeadersSame
  <2>4. StoreType'
    BY <1>0a, <1>0b, <2>2, <2>3 DEF StoreType
  <2> QED BY <2>1, <2>2, <2>4, ProducerShape
<1>16. CASE UndoTail
  <2>1. ProducerInv' /\ HeaderInv' /\ Entries' = Entries
    BY <1>0, <1>16, UndoTailLocals
  <2>2. /\ UNCHANGED counters /\ UNCHANGED poolVars /\ UNCHANGED cons /\ UNCHANGED blockIndex
        /\ UNCHANGED <<key, value, elements, emptied>> /\ RewindTail
    BY <1>16 DEF UndoTail, blockVars
  <2>3. \A h \in 1 .. blockIndex : headers'[h].capacity = headers[h].capacity
    BY <1>0, <2>2, TailRewound
  <2> QED BY <1>6, <2>1, <2>2, <2>3
<1>17. CASE GiveBlockBack
  <2>1. ProducerInv' /\ Head(prod.chain) \in Pointers
    BY <1>0, <1>17, GiveBackLocals
  <2>2. /\ UNCHANGED counters /\ UNCHANGED <<blockIndex, headers, key, value, elements, emptied>>
        /\ UNCHANGED initialBlockPoolIndex /\ UNCHANGED cons /\ AddBlockToFreeList(Head(prod.chain))
    BY <1>17 DEF GiveBlockBack, indexVars, blockVars
  <2>3. PoolType'
    BY <1>0, <2>1, <2>2, AddedType
  <2>4. StoreType' /\ CounterType' /\ HeaderInv'
    BY <1>0, <2>2, TypesSame, HeadersSame
  <2>5. /\ \A h \in 1 .. blockIndex : headers'[h].capacity = headers[h].capacity
        /\ blockIndex' >= blockIndex
    BY <1>0, <2>2 DEF HeaderInv
  <2> QED BY <2>1, <2>2, <2>3, <2>4, <2>5, ShapeKept
<1> QED BY <1>2, <1>3, <1>4, <1>5, <1>7, <1>8, <1>9, <1>10, <1>11, <1>12, <1>13, <1>14, <1>15,
           <1>16, <1>17 DEF EnqueueStep

\* A consumer's step that changes only counters, blocks or entries.
LEMMA ConsumerShape ==
  ASSUME QueueShape, UNCHANGED <<tailIndex, blockIndex, headers, prod>>, CounterType', StoreType',
         PoolType', LocalType'
  PROVE  QueueShape'
<1>1. HeaderInv /\ ProducerInv /\ UNCHANGED <<blockIndex, headers>>
  BY DEF QueueShape
<1>2. HeaderInv' /\ Entries' = Entries
  BY <1>1, HeadersSame
<1>3. NextNumber' = NextNumber /\ Chained' = Chained /\ LastIndex' = LastIndex /\ Bulk' = Bulk
  BY DEF NextNumber, Chained, LastIndex, Bulk
<1>4. ProducerInv'
  BY <1>1, <1>2, <1>3 DEF ProducerInv
<1> QED BY <1>2, <1>4 DEF QueueShape

\* The entry of the next block has a slot in the header that the consumer loaded.
LEMMA AfterBlockSlot ==
  ASSUME LocalType, HeaderInv, NEW c \in Consumers, cons[c].pc \in LoadedSlot,
         EndIndex(c) # cons[c].stop
  PROVE  AfterBlock(c).slot \in 0 .. headers[cons[c].header].capacity - 1
<1> DEFINE x == cons[c].slot + 1
           t == x % headers[cons[c].header].capacity
<1>1. x \in Int /\ headers[cons[c].header].capacity \in Nat \ {0}
  BY EntryOfType
<1> HIDE DEF x
<1>2. t \in 0 .. headers[cons[c].header].capacity - 1
  BY <1>1, ModIn
<1>3. cons[c] \in ConsumerType
  BY DEF LocalType
<1> HIDE DEF t
<1>4. [cons[c] EXCEPT !.pc = "take", !.index = EndIndex(c), !.block = NoBlock, !.slot = t].slot = t
  BY <1>3 DEF ConsumerType
<1> QED BY <1>2, <1>4 DEF AfterBlock, t, x

\* The locals of a consumer that goes on to its next block.
LEMMA AfterBlockLocals ==
  ASSUME LocalType, NEW c \in Consumers, cons[c].pc \in LoadedSlot,
         EndIndex(c) # cons[c].stop =>
           AfterBlock(c).slot \in 0 .. headers[cons[c].header].capacity - 1
  PROVE  /\ AfterBlock(c).pc \in LoadedHeader => AfterBlock(c).header \in 1 .. blockIndex
         /\ AfterBlock(c).pc \in LoadedSlot =>
              AfterBlock(c).slot \in 0 .. headers[AfterBlock(c).header].capacity - 1
<1>1. CASE EndIndex(c) = cons[c].stop
  BY <1>1 DEF AfterBlock, IdleConsumer, LoadedHeader, LoadedSlot
<1>2. CASE EndIndex(c) # cons[c].stop
  <2>1. cons[c] \in ConsumerType
    BY DEF LocalType
  <2>2. AfterBlock(c).pc = "take" /\ AfterBlock(c).header = cons[c].header
    BY <1>2, <2>1 DEF AfterBlock, ConsumerType
  <2>3. cons[c].header \in 1 .. blockIndex
    BY DEF LocalType, LoadedSlot, LoadedHeader
  <2> QED BY <1>2, <2>2, <2>3
<1> QED BY <1>1, <1>2

\* Every step of a consumer keeps the shape.
LEMMA DequeueShape ==
  ASSUME QueueShape, NEW c \in Consumers, DequeueStep(c)
  PROVE  QueueShape'
<1>0. HeaderInv /\ ProducerInv /\ CounterType /\ StoreType /\ PoolType /\ LocalType
  BY DEF QueueShape
<1>0a. /\ key \in [Entries -> Int] /\ value \in [Entries -> Pointers]
       /\ elements \in [Blocks -> [0 .. BLOCK_SIZE - 1 -> Int]] /\ emptied \in [Blocks -> Int]
  BY <1>0 DEF StoreType
<1>0b. NoBlock \in Pointers /\ NoItem \in Int
  BY DEF Pointers, NoItem
<1>0c. cons \in [Consumers -> ConsumerType] /\ cons[c] \in ConsumerType
  BY <1>0 DEF LocalType
<1>0d. /\ cons[c].pc \in ConsumerSteps /\ cons[c].tail \in Int /\ cons[c].overcommit \in Int
       /\ cons[c].desired \in Int
       /\ cons[c].mine \in Int /\ cons[c].index \in Int /\ cons[c].stop \in Int
       /\ cons[c].header \in Int /\ cons[c].slot \in Int /\ cons[c].block \in Pointers
  BY <1>0c, ConsumerFields
<1> DEFINE Calm == UNCHANGED <<tailIndex, blockIndex, headers, prod>>
           Stored == UNCHANGED <<key, value, elements, emptied>>
           Early(r) == r.pc \in ConsumerSteps \ LoadedHeader
<1>1. ASSUME NEW r, Becomes(c, r), Calm, CounterType', UNCHANGED indexVars, UNCHANGED blockVars,
             UNCHANGED poolVars,
             r.pc \in LoadedHeader => r.header \in 1 .. blockIndex,
             r.pc \in LoadedSlot => r.slot \in 0 .. headers[r.header].capacity - 1
      PROVE  QueueShape'
  <2>1. UNCHANGED <<blockIndex, headers, key, value, elements, emptied>>
    BY <1>1 DEF indexVars, blockVars
  <2>2. StoreType' /\ PoolType'
    BY <1>0, <1>1, <2>1, TypesSame
  <2>3. LocalType'
    BY <1>0, <1>1, LocalsBecome
  <2> QED BY <1>1, <2>2, <2>3, ConsumerShape
<1>2. ASSUME NEW r, Becomes(c, r), r.pc \notin LoadedHeader, Calm, CounterType',
             UNCHANGED indexVars, UNCHANGED blockVars, UNCHANGED poolVars
      PROVE  QueueShape'
  <2>1. r.pc \notin LoadedSlot
    BY <1>2 DEF LoadedHeader, LoadedSlot
  <2> QED BY <1>1, <1>2, <2>1
<1>3. UNCHANGED counters /\ UNCHANGED indexVars /\ UNCHANGED prod => Calm /\ CounterType'
  BY <1>0, TypesSame DEF counters, indexVars
<1>4. ASSUME NEW max \in {1} \cup BulkCounts, LoadTail(c, max) PROVE QueueShape'
  <2> DEFINE r == [cons[c] EXCEPT !.pc = "load", !.tail = tailIndex, !.desired = max]
  <2>1. max \in Int
    BY QueueShapeAssumption
  <2>2. Becomes(c, r)
    BY <1>0, <1>0c, <1>4, <2>1, LoadTailBecomes
  <2>3. r.pc \notin LoadedHeader
    BY <1>0c DEF ConsumerType, LoadedHeader
  <2> HIDE DEF r
  <2> QED BY <1>2, <1>3, <1>4, <2>2, <2>3 DEF LoadTail
<1>5. CASE LoadOvercommit(c)
  <2> DEFINE r == [cons[c] EXCEPT !.pc = "check", !.overcommit = dequeueOvercommit]
  <2>2. Becomes(c, r)
    BY <1>0, <1>0c, <1>5, LoadOvercommitBecomes
  <2>3. r.pc \notin LoadedHeader
    BY <1>0c DEF ConsumerType, LoadedHeader
  <2> HIDE DEF r
  <2> QED BY <1>2, <1>3, <1>5, <2>2, <2>3 DEF LoadOvercommit
<1>6. CASE LooksFull(c)
  <2>1. \/ Becomes(c, IdleConsumer)
        \/ \E d \in Int : Becomes(c, [cons[c] EXCEPT !.pc = "claim", !.tail = 0, !.desired = d])
    BY <1>0, <1>0c, <1>6, LooksFullBecomes
  <2>2. IdleConsumer.pc \notin LoadedHeader
    BY DEF IdleConsumer, LoadedHeader
  <2>3. \A d \in Int :
          [cons[c] EXCEPT !.pc = "claim", !.tail = 0, !.desired = d].pc \notin LoadedHeader
    BY <1>0c DEF ConsumerType, LoadedHeader
  <2> QED BY <1>2, <1>3, <1>6, <2>1, <2>2, <2>3 DEF LooksFull
<1>7. CASE Claim(c)
  <2> DEFINE r == [cons[c] EXCEPT !.pc = "recheck", !.overcommit = 0,
                                  !.mine = dequeueOptimisticCount - cons[c].overcommit]
  <2>2. Becomes(c, r)
    BY <1>0, <1>0c, <1>7, ClaimBecomes
  <2>3. r.pc \notin LoadedHeader
    BY <1>0c DEF ConsumerType, LoadedHeader
  <2> HIDE DEF r
  <2>4. CounterType'
    BY <1>0, <1>0d, <1>7 DEF CounterType, Claim
  <2>5. Calm /\ UNCHANGED indexVars /\ UNCHANGED blockVars /\ UNCHANGED poolVars
    BY <1>7 DEF Claim, indexVars
  <2> QED BY <1>2, <2>2, <2>3, <2>4, <2>5
<1>8. CASE Recheck(c)
  <2> DEFINE r == [cons[c] EXCEPT
                     !.mine = 0, !.stop = IF Actual(c) > 0 THEN Actual(c) ELSE 0,
                     !.pc = IF Actual(c) = cons[c].desired THEN "head" ELSE "overcommit"]
  <2>2. Becomes(c, r)
    BY <1>0, <1>0c, <1>8, RecheckBecomes
  <2>3. r.pc \in {"head", "overcommit"}
    BY <1>0c DEF ConsumerType
  <2>4. r.pc \notin LoadedHeader
    BY <2>3 DEF LoadedHeader
  <2> HIDE DEF r
  <2> QED BY <1>2, <1>3, <1>8, <2>2, <2>4 DEF Recheck
<1>9. CASE Overcommit(c)
  <2> DEFINE r == IF cons[c].stop > 0 THEN [cons[c] EXCEPT !.pc = "head"] ELSE IdleConsumer
  <2>2. Becomes(c, r)
    BY <1>0c, <1>9, OvercommitBecomes
  <2>3. r.pc \in {"head", "idle"}
    BY <1>0c DEF ConsumerType, IdleConsumer
  <2>4. r.pc \notin LoadedHeader
    BY <2>3 DEF LoadedHeader
  <2> HIDE DEF r
  <2>5. CounterType'
    BY <1>0, <1>0d, <1>9 DEF CounterType, Overcommit
  <2>6. Calm /\ UNCHANGED indexVars /\ UNCHANGED blockVars /\ UNCHANGED poolVars
    BY <1>9 DEF Overcommit, indexVars
  <2> QED BY <1>2, <2>2, <2>4, <2>5, <2>6
<1>10. CASE ClaimHead(c)
  <2> DEFINE r == [cons[c] EXCEPT !.pc = "header", !.index = headIndex, !.desired = 0,
                                  !.stop = headIndex + cons[c].stop]
  <2>2. Becomes(c, r)
    BY <1>0, <1>0c, <1>10, ClaimHeadBecomes
  <2>3. r.pc \notin LoadedHeader
    BY <1>0c DEF ConsumerType, LoadedHeader
  <2> HIDE DEF r
  <2>4. CounterType'
    BY <1>0, <1>0d, <1>10 DEF CounterType, ClaimHead
  <2>5. Calm /\ UNCHANGED indexVars /\ UNCHANGED blockVars /\ UNCHANGED poolVars
    BY <1>10 DEF ClaimHead, indexVars
  <2> QED BY <1>2, <2>2, <2>3, <2>4, <2>5
<1>11. CASE LoadBlockIndex(c)
  <2> DEFINE r == [cons[c] EXCEPT !.pc = "slot", !.header = blockIndex]
  <2>2. Becomes(c, r)
    BY <1>0, <1>0c, <1>11, LoadBlockIndexBecomes
  <2>3. r.pc \notin LoadedSlot /\ r.header = blockIndex
    BY <1>0c DEF ConsumerType, LoadedSlot
  <2>4. blockIndex \in 1 .. blockIndex
    BY <1>0 DEF HeaderInv
  <2> HIDE DEF r
  <2> QED BY <1>1, <1>3, <1>11, <2>2, <2>3, <2>4 DEF LoadBlockIndex
<1>12. CASE LoadIndexTail(c)
  <2> DEFINE r == [cons[c] EXCEPT !.pc = "find", !.slot = headers[cons[c].header].tail]
  <2>2. Becomes(c, r) /\ cons[c].header \in 1 .. blockIndex
    BY <1>0, <1>12, LoadIndexTailBecomes
  <2>3. r.header = cons[c].header /\ r.slot = headers[cons[c].header].tail
    BY <1>0c DEF ConsumerType
  <2>4. headers[cons[c].header].tail \in 0 .. headers[cons[c].header].capacity - 1
    BY <1>0, <2>2, HeaderTypes
  <2> HIDE DEF r
  <2> QED BY <1>1, <1>3, <1>12, <2>2, <2>3, <2>4 DEF LoadIndexTail
<1>13. CASE FindEntry(c)
  <2> DEFINE r == [cons[c] EXCEPT !.pc = "take", !.slot = FoundSlot(c)]
  <2>2. /\ Becomes(c, r) /\ cons[c].header \in 1 .. blockIndex
        /\ FoundSlot(c) \in 0 .. headers[cons[c].header].capacity - 1
    BY <1>0, <1>13, FindEntryBecomes
  <2>3. r.header = cons[c].header /\ r.slot = FoundSlot(c)
    BY <1>0c DEF ConsumerType
  <2> HIDE DEF r
  <2> QED BY <1>1, <1>3, <1>13, <2>2, <2>3 DEF FindEntry
<1>14. ASSUME NEW r, Becomes(c, r), Calm, UNCHANGED counters, StoreType', PoolType',
              r.pc \in LoadedHeader => r.header \in 1 .. blockIndex,
              r.pc \in LoadedSlot => r.slot \in 0 .. headers[r.header].capacity - 1
       PROVE  QueueShape'
  <2>1. LocalType' /\ CounterType'
    BY <1>0, <1>14, LocalsBecome, TypesSame
  <2> QED BY <1>14, <2>1, ConsumerShape
<1>15. CASE TakeItems(c)
  <2> DEFINE r == [cons[c] EXCEPT !.pc = "empty", !.block = value[EntryOf(c)]]
             b == value[EntryOf(c)]
             slots == {Slot(i) : i \in cons[c].index .. EndIndex(c) - 1}
             left == [s \in DOMAIN elements[b] |-> IF s \in slots THEN NoItem ELSE elements[b][s]]
  <2>2. Becomes(c, r)
    BY <1>0, <1>15, TakeBecomes
  <2>3. cons[c].pc \in LoadedSlot
    BY <1>15 DEF TakeItems, ConsumerAt, LoadedSlot
  <2>4. /\ cons[c].header \in 1 .. blockIndex
        /\ cons[c].slot \in 0 .. headers[cons[c].header].capacity - 1
    BY <1>0, <2>3, EntryOfType
  <2>5. r.header = cons[c].header /\ r.slot = cons[c].slot
    BY <1>0c DEF ConsumerType
  <2> HIDE DEF r
  <2>6. /\ Calm /\ UNCHANGED counters /\ UNCHANGED poolVars /\ UNCHANGED <<key, value, emptied>>
        /\ elements' = [elements EXCEPT ![b] = left]
    BY <1>15 DEF TakeItems, indexVars, counters
  <2> HIDE DEF slots, b
  <2>7. b \in Blocks => left \in [0 .. BLOCK_SIZE - 1 -> Int]
    BY <1>0a, <1>0b
  <2> HIDE DEF left
  <2>8. elements' \in [Blocks -> [0 .. BLOCK_SIZE - 1 -> Int]]
    BY <1>0a, <2>6, <2>7
  <2>9. StoreType' /\ PoolType'
    BY <1>0, <1>0a, <2>6, <2>8, HeadersSame, TypesSame DEF StoreType
  <2> QED BY <1>14, <2>2, <2>4, <2>5, <2>6, <2>9
<1>16. CASE SetEmpty(c)
  <2> DEFINE b == cons[c].block
             last == emptied[b] + EndIndex(c) - cons[c].index = BLOCK_SIZE
             r == IF last THEN [cons[c] EXCEPT !.pc = "unlink"] ELSE AfterBlock(c)
             k == emptied[b] + EndIndex(c) - cons[c].index
  <2>1. cons[c].pc \in LoadedSlot
    BY <1>16 DEF SetEmpty, ConsumerAt, LoadedSlot
  <2>2a. Becomes(c, r)
    BY <1>0, <1>16, SetEmptyBecomes, Zenon
  <2>2b. EndIndex(c) # cons[c].stop =>
           AfterBlock(c).slot \in 0 .. headers[cons[c].header].capacity - 1
    BY <1>0, <2>1, AfterBlockSlot
  <2>2. /\ Becomes(c, r)
        /\ EndIndex(c) # cons[c].stop =>
             AfterBlock(c).slot \in 0 .. headers[cons[c].header].capacity - 1
    BY <2>2a, <2>2b
  <2>3. /\ AfterBlock(c).pc \in LoadedHeader => AfterBlock(c).header \in 1 .. blockIndex
        /\ AfterBlock(c).pc \in LoadedSlot =>
             AfterBlock(c).slot \in 0 .. headers[AfterBlock(c).header].capacity - 1
    BY <1>0, <2>1, <2>2, AfterBlockLocals
  <2>4. /\ cons[c].header \in 1 .. blockIndex
        /\ cons[c].slot \in 0 .. headers[cons[c].header].capacity - 1
    BY <1>0, <2>1, EntryOfType
  <2>5. last => r.header = cons[c].header /\ r.slot = cons[c].slot
    BY <1>0c DEF ConsumerType
  <2>6. ~last => r = AfterBlock(c)
    OBVIOUS
  <2> HIDE DEF r
  <2>6a. /\ UNCHANGED counters /\ UNCHANGED poolVars /\ UNCHANGED indexVars /\ UNCHANGED elements
         /\ UNCHANGED prod
    BY <1>16 DEF SetEmpty
  <2>6b. emptied' = [emptied EXCEPT ![b] = k]
    BY <1>16, Zenon DEF SetEmpty
  <2>7. /\ Calm /\ UNCHANGED counters /\ UNCHANGED poolVars /\ UNCHANGED <<key, value, elements>>
        /\ emptied' = [emptied EXCEPT ![b] = k]
    BY <2>6a, <2>6b DEF indexVars, counters
  <2>8. b \in Blocks => k \in Int
    BY <1>0, <1>0a, EndIndexType
  <2> HIDE DEF k
  <2>9. emptied' \in [Blocks -> Int]
    BY <1>0a, <2>7, <2>8
  <2>10. StoreType' /\ PoolType'
    BY <1>0, <1>0a, <2>7, <2>9, HeadersSame, TypesSame DEF StoreType
  <2> HIDE DEF last
  <2>11. /\ r.pc \in LoadedHeader => r.header \in 1 .. blockIndex
         /\ r.pc \in LoadedSlot => r.slot \in 0 .. headers[r.header].capacity - 1
    BY <2>3, <2>4, <2>5, <2>6, Zenon
  <2> QED BY <1>14, <2>2, <2>7, <2>10, <2>11
<1>17. CASE UnlinkBlock(c)
  <2> DEFINE r == [cons[c] EXCEPT !.pc = "recycle"]
             e == EntryOf(c)
  <2>1. cons[c].pc \in LoadedSlot
    BY <1>17 DEF UnlinkBlock, ConsumerAt, LoadedSlot
  <2>2. Becomes(c, r)
    BY <1>0, <1>17, UnlinkBecomes
  <2>4. /\ cons[c].header \in 1 .. blockIndex
        /\ cons[c].slot \in 0 .. headers[cons[c].header].capacity - 1
    BY <1>0, <2>1, EntryOfType
  <2>5. r.header = cons[c].header /\ r.slot = cons[c].slot
    BY <1>0c DEF ConsumerType
  <2> HIDE DEF r
  <2>7. /\ Calm /\ UNCHANGED counters /\ UNCHANGED poolVars /\ UNCHANGED <<key, elements, emptied>>
        /\ value' = [value EXCEPT ![e] = NoBlock]
    BY <1>17 DEF UnlinkBlock, blockVars, counters
  <2> HIDE DEF e
  <2>9. value' \in [Entries -> Pointers]
    BY <1>0a, <1>0b, <2>7
  <2>10. StoreType' /\ PoolType'
    BY <1>0, <1>0a, <2>7, <2>9, HeadersSame, TypesSame DEF StoreType
  <2> QED BY <1>14, <2>2, <2>4, <2>5, <2>7, <2>10
<1>18. CASE RecycleBlock(c)
  <2> DEFINE r == AfterBlock(c)
  <2>1. cons[c].pc \in LoadedSlot
    BY <1>18 DEF RecycleBlock, ConsumerAt, LoadedSlot
  <2>2. /\ Becomes(c, r)
        /\ EndIndex(c) # cons[c].stop =>
             AfterBlock(c).slot \in 0 .. headers[cons[c].header].capacity - 1
    BY <1>0, <1>18, RecycleBecomes
  <2>3. /\ r.pc \in LoadedHeader => r.header \in 1 .. blockIndex
        /\ r.pc \in LoadedSlot => r.slot \in 0 .. headers[r.header].capacity - 1
    BY <1>0, <2>1, <2>2, AfterBlockLocals
  <2>7. /\ Calm /\ UNCHANGED counters /\ UNCHANGED initialBlockPoolIndex
        /\ UNCHANGED <<blockIndex, headers, key, value, elements, emptied>>
        /\ AddBlockToFreeList(cons[c].block)
    BY <1>18 DEF RecycleBlock, indexVars, blockVars, counters
  <2>8. StoreType' /\ PoolType'
    BY <1>0, <1>0d, <2>7, TypesSame, AddedType
  <2> HIDE DEF r
  <2> QED BY <1>14, <2>2, <2>3, <2>7, <2>8
<1> QED BY <1>4, <1>5, <1>6, <1>7, <1>8, <1>9, <1>10, <1>11, <1>12, <1>13, <1>15, <1>16, <1>17,
           <1>18 DEF DequeueStep

\* The last multiple of the initial capacity that a base took (concurrentqueue.h:2930).
LEMMA LastIs ==
  ASSUME NEW N \in Nat \ {0}, NEW served \in Nat, NEW m \in served - N .. served - 1
  PROVE  LET last == {k \in 0 .. served - 1 : k % N = m % N} IN
         /\ m < 0 => last = {}
         /\ m >= 0 => last # {} /\ Max(last) = m
<1> DEFINE last == {k \in 0 .. served - 1 : k % N = m % N}
<1>0. m \in Int
  OBVIOUS
<1>1. \A k \in last : k <= m
  <2> SUFFICES ASSUME NEW k \in last, ~(k <= m) PROVE FALSE
    OBVIOUS
  <2>1. k \in Int /\ k % N = m % N /\ k <= served - 1
    OBVIOUS
  <2>2. k - m < N /\ m - k < N
    BY <1>0, <2>1
  <2>3. k = m
    BY <1>0, <2>1, <2>2, CloseMod
  <2> QED BY <1>0, <2>1, <2>3
<1>2. m >= 0 => m \in last
  BY <1>0
<1>3. \A k \in last : k \in 0 .. served - 1
  OBVIOUS
<1> HIDE DEF last
<1>4. m < 0 => last = {}
  BY <1>0, <1>1, <1>3
<1>5. ASSUME m >= 0 PROVE Max(last) = m
  <2> DEFINE x == Max(last)
  <2>1. x \in last /\ \A y \in last : x >= y
    BY <1>0, <1>1, <1>2, <1>3, <1>5 DEF Max
  <2> HIDE DEF x
  <2>2. x = m
    BY <1>0, <1>1, <1>2, <1>3, <1>5, <2>1
  <2> QED BY <2>2 DEF x
<1>6. (m < 0 => last = {}) /\ (m >= 0 => last # {} /\ Max(last) = m)
  BY <1>2, <1>4, <1>5
<1> QED BY <1>6 DEF last

\* The sub-queue begins with this shape.
LEMMA InitialShape ==
  ASSUME ImplicitInit
  PROVE  QueueShape
<1> DEFINE served == ServedItems \div BLOCK_SIZE
           last(e) == {k \in 0 .. served - 1 : k % INITIAL_INDEX_SIZE = e}
           N == INITIAL_INDEX_SIZE
           t == (N - 1 + served) % N
           h == [capacity |-> N, tail |-> t, index |-> [k \in 0 .. N - 1 |-> k]]
<1>1. N \in Nat \ {0} /\ BLOCK_SIZE \in Nat \ {0} /\ ServedItems \in Nat
      /\ InitialBlocks \in Nat /\ (ServedItems > 0 => InitialBlocks > 0)
  BY QueueShapeAssumption
<1>2. served \in Int /\ ServedItems = BLOCK_SIZE * served /\ Slot(ServedItems) = 0
  <2>1. ServedItems % BLOCK_SIZE = 0
    BY QueueShapeAssumption
  <2> QED BY <1>1, <2>1, Place DEF Num, Slot
<1>2a. served > 0 => ServedItems > 0
  <2>1. served > 0 => BLOCK_SIZE * served >= BLOCK_SIZE
    BY <1>1, <1>2, TimesPositive
  <2> QED BY <1>1, <1>2, <2>1
<1>2b. served >= 0
  <2>1. 0 - served > 0 => BLOCK_SIZE * (0 - served) >= BLOCK_SIZE
    BY <1>1, <1>2, TimesPositive
  <2>2. BLOCK_SIZE * (0 - served) = 0 - BLOCK_SIZE * served
    BY <1>1, <1>2
  <2> QED BY <1>1, <1>2, <2>1, <2>2
<1>3. /\ tailIndex = ServedItems /\ headIndex = ServedItems
      /\ dequeueOptimisticCount = ServedItems /\ dequeueOvercommit = 0 /\ blockIndex = 1
      /\ headers = <<[FirstHeader EXCEPT !.tail = (@ + served) % N]>>
      /\ key = [e \in 0 .. N - 1 |->
                  IF last(e) = {} THEN INVALID_BLOCK_BASE ELSE BLOCK_SIZE * Max(last(e))]
      /\ value = [e \in 0 .. N - 1 |-> NoBlock]
      /\ elements = [b \in Blocks |-> [s \in 0 .. BLOCK_SIZE - 1 |-> NoItem]]
      /\ emptied = [b \in Blocks |-> IF b = 1 /\ served > 0 THEN BLOCK_SIZE ELSE 0]
      /\ initialBlockPoolIndex = (IF served > 0 THEN 1 ELSE 0)
      /\ freeBlocks = (IF served > 0 THEN {1} ELSE {}) /\ heap = DynamicBlocks
      /\ prod = IdleProducer(NoBlock) /\ cons = [c \in Consumers |-> IdleConsumer]
  BY DEF ImplicitInit
<1>4. [FirstHeader EXCEPT !.tail = (@ + served) % N] = h
  <2>1. /\ FirstHeader.tail = N - 1
        /\ FirstHeader = [capacity |-> N, tail |-> N - 1, index |-> [k \in 0 .. N - 1 |-> k]]
    BY DEF FirstHeader
  <2> DEFINE u == (FirstHeader.tail + served) % N
  <2>2. u = t
    BY <2>1
  <2> HIDE DEF u, t, served, N
  <2> DEFINE f == [k \in 0 .. N - 1 |-> k]
  <2>2a. FirstHeader = [capacity |-> N, tail |-> N - 1, index |-> f] /\ h.index = f
    BY <2>1
  <2> HIDE DEF f
  <2>2b. [[capacity |-> N, tail |-> N - 1, index |-> f] EXCEPT !.tail = u]
           = [capacity |-> N, tail |-> u, index |-> f]
    OBVIOUS
  <2>3. [FirstHeader EXCEPT !.tail = u] = h
    BY <2>2, <2>2a, <2>2b DEF f
  <2> QED BY <2>3 DEF u
<1> HIDE DEF served, N
<1>5. t \in 0 .. N - 1
  <2>1. N - 1 + served \in Int
    BY <1>1, <1>2
  <2> QED BY <1>1, <2>1, ModIn
<1> HIDE DEF t
<1>6. /\ h.capacity = N /\ h.tail = t /\ h.index = [k \in 0 .. N - 1 |-> k]
      /\ h.index \in [0 .. N - 1 -> 0 .. N - 1] /\ \A k \in 0 .. N - 1 : h.index[k] = k
  BY <1>1
<1>7. h \in HeaderType
  <2>1. h.index \in [0 .. N - 1 -> Nat] /\ N \in Nat
    BY <1>1, <1>6
  <2>2. h.index \in Indexes
    BY <2>1, Zenon DEF Indexes
  <2> HIDE DEF h
  <2>3. [capacity |-> N, tail |-> t, index |-> h.index] \in HeaderType
    <3>1. N \in Nat \ {0} /\ t \in Nat
      BY <1>1, <1>5
    <3> QED BY <2>2, <3>1 DEF HeaderType
  <2> QED BY <1>6, <2>3 DEF h
<1> HIDE DEF h
<1>8. headers = <<h>> /\ headers \in Seq(HeaderType) /\ Len(headers) = 1 /\ headers[1] = h
  BY <1>3, <1>4, <1>7
<1>9. Header = h /\ Capacity = N /\ Entries = 0 .. N - 1
  BY <1>3, <1>6, <1>8 DEF Header, Capacity, Entries
<1>10. HeaderInv
  <2>1. HeaderShape(1)
    <3>1. 1 \in Nat /\ N = 1 * N
      BY <1>1
    <3> QED BY <1>5, <1>6, <1>8, <1>9, <3>1 DEF HeaderShape
  <2>2. NewestComplete
    BY <1>6, <1>9 DEF NewestComplete
  <2>3. \A x \in 1 .. blockIndex : HeaderShape(x)
    BY <1>3, <2>1
  <2> QED BY <1>3, <1>8, <2>2, <2>3 DEF HeaderInv
<1>11. CounterType
  BY <1>1, <1>3 DEF CounterType
<1>12. ProducerInv
  <2>1. prod.pc = "idle" /\ prod.chain = <<>> /\ prod.entry = 0 /\ prod.undone = 0
    BY <1>3 DEF IdleProducer
  <2>2. prod \in ProducerType
    BY <1>3 DEF IdleProducer, ProducerType, ProducerSteps, Pointers
  <2>3. 0 \in Entries
    BY <1>1, <1>9
  <2> QED BY <2>1, <2>2, <2>3 DEF ProducerInv, Entering, Linking, Backing, Undoing
<1>13. StoreType
  <2>1. \A e \in 0 .. N - 1 : key[e] \in Int
    <3> SUFFICES ASSUME NEW e \in 0 .. N - 1 PROVE key[e] \in Int
      OBVIOUS
    <3>1. CASE last(e) = {}
      BY <1>3, <3>1 DEF INVALID_BLOCK_BASE
    <3> DEFINE x == served - 1 - e
               m == served - 1 - (x % N)
    <3>2. x \in Int
      BY <1>2
    <3>3. x % N \in 0 .. N - 1
      BY <1>1, <3>2, ModIn
    <3>4. m \in served - N .. served - 1
      BY <1>1, <1>2, <3>3
    <3>5. m % N = e
      <4>1. x = N * (x \div N) + (x % N) /\ x \div N \in Int
        BY <1>1, <3>2, DivMod
      <4> DEFINE q == x \div N
                 r == x % N
      <4>2. q \in Int /\ r \in 0 .. N - 1 /\ x = N * q + r
        BY <3>3, <4>1
      <4>3. m = served - 1 - r /\ e = served - 1 - x
        BY <1>2
      <4> HIDE DEF q, r, m, x
      <4>4. m = N * q + e /\ e \in 0 .. N - 1 /\ m \in Int
        BY <1>1, <1>2, <3>2, <4>2, <4>3
      <4> QED BY <1>1, <4>2, <4>4, ModIs
    <3> HIDE DEF m
    <3>6. (m < 0 => last(e) = {}) /\ (m >= 0 => last(e) # {} /\ Max(last(e)) = m)
      <4>1. served \in Nat
        BY <1>1, <1>2, <1>2b
      <4>2. last(e) = {k \in 0 .. served - 1 : k % N = m % N}
        BY <3>5 DEF N
      <4> HIDE DEF last
      <4> DEFINE L == {k \in 0 .. served - 1 : k % N = m % N}
      <4>3. (m < 0 => L = {}) /\ (m >= 0 => L # {} /\ Max(L) = m)
        BY <1>1, <3>4, <4>1, LastIs
      <4> HIDE DEF L
      <4>4. last(e) = L
        BY <4>2 DEF L
      <4> QED BY <4>3, <4>4
    <3> HIDE DEF last
    <3>7. CASE last(e) # {}
      <4>1. Max(last(e)) \in Int
        BY <1>2, <3>4, <3>6, <3>7
      <4> QED BY <1>1, <1>3, <3>7, <4>1
    <3> QED BY <3>1, <3>7
  <2>2. key \in [Entries -> Int]
    BY <1>3, <1>9, <2>1
  <2>3. value \in [Entries -> Pointers]
    BY <1>3, <1>9 DEF Pointers
  <2>4. elements \in [Blocks -> [0 .. BLOCK_SIZE - 1 -> Int]]
    BY <1>3 DEF NoItem
  <2>5. emptied \in [Blocks -> Int]
    BY <1>1, <1>3
  <2> QED BY <2>2, <2>3, <2>4, <2>5 DEF StoreType
<1>14. PoolType
  BY <1>1, <1>2a, <1>3 DEF PoolType, Pointers, Blocks
<1>15. LocalType
  <2>1. \A c \in Consumers : cons[c] = IdleConsumer
    BY <1>3
  <2>2. cons \in [Consumers -> ConsumerType]
    BY <1>3, IdleConsumerType
  <2>3. IdleConsumer.pc \notin LoadedHeader /\ IdleConsumer.pc \notin LoadedSlot
    BY DEF IdleConsumer, LoadedHeader, LoadedSlot
  <2> QED BY <2>1, <2>2, <2>3 DEF LocalType
<1> QED BY <1>10, <1>11, <1>12, <1>13, <1>14, <1>15 DEF QueueShape

\* A state in which nothing changes keeps the shape.
LEMMA ShapeStutters ==
  ASSUME QueueShape, UNCHANGED queueVars
  PROVE  QueueShape'
<1>1. /\ UNCHANGED counters /\ UNCHANGED <<blockIndex, headers, key, value, elements, emptied>>
      /\ UNCHANGED poolVars /\ UNCHANGED prod /\ UNCHANGED cons /\ UNCHANGED tailIndex
  BY DEF queueVars, indexVars, blockVars, counters
<1>2. CounterType' /\ StoreType' /\ PoolType'
  BY <1>1, TypesSame DEF QueueShape
<1>3. LocalType'
  BY <1>1 DEF QueueShape, LocalType
<1> QED BY <1>1, <1>2, <1>3, ConsumerShape

\* Every step of the sub-queue keeps the shape.
LEMMA ShapeStep ==
  ASSUME QueueShape, [ImplicitNext]_queueVars
  PROVE  QueueShape'
<1>1. CASE EnqueueStep
  BY <1>1, EnqueueShape
<1>2. ASSUME NEW c \in Consumers, DequeueStep(c) PROVE QueueShape'
  BY <1>2, DequeueShape
<1>3. CASE UNCHANGED queueVars
  BY <1>3, ShapeStutters
<1> QED BY <1>1, <1>2, <1>3 DEF ImplicitNext

\* The sub-queue keeps its shape: headers that are never shortened, whose entries are
\* all in the newest one; what enqueue() and enqueue_bulk() hold at each of their steps;
\* and consumers whose header and slot exist when they are used.
THEOREM ShapeInvariance == ImplicitSpec => []QueueShape
<1>1. ImplicitInit => QueueShape
  BY InitialShape
<1>2. QueueShape /\ [ImplicitNext]_queueVars => QueueShape'
  BY ShapeStep
<1> QED BY <1>1, <1>2, PTL DEF ImplicitSpec

-----------------------------------------------------------------------------
(* Sums over the consumers, as numbers of tokens *)

Tokens(f) == {t \in Consumers \X Nat : 1 <= t[2] /\ t[2] <= f[t[1]]}
Total(f) == Cardinality(Tokens(f))
TokensOf(c, n) == {c} \X (1 .. n)

\* What one consumer adds to a sum.
LEMMA TokensOfOne ==
  ASSUME NEW c, NEW n \in Nat
  PROVE  IsFiniteSet(TokensOf(c, n)) /\ Cardinality(TokensOf(c, n)) = n
<1>1. IsFiniteSet({c}) /\ Cardinality({c}) = 1
  BY FS_Singleton
<1>2. IsFiniteSet(1 .. n) /\ Cardinality(1 .. n) = n
  BY FS_Interval
<1>3. /\ IsFiniteSet({c} \X (1 .. n))
      /\ Cardinality({c} \X (1 .. n)) = Cardinality({c}) * Cardinality(1 .. n)
  BY <1>1, <1>2, FS_Product
<1> QED BY <1>1, <1>2, <1>3 DEF TokensOf

\* There are finitely many consumers, so a sum over them is a number.
LEMMA TotalType ==
  ASSUME NEW f \in [Consumers -> Nat]
  PROVE  IsFiniteSet(Tokens(f)) /\ Total(f) \in Nat
<1> DEFINE g == [c \in Consumers |-> TokensOf(c, f[c])]
           T == {TokensOf(c, f[c]) : c \in Consumers}
<1>1. g \in Surjection(Consumers, T)
  BY DEF Surjection
<1>2. IsFiniteSet(Consumers)
  BY QueueShapeAssumption
<1>3. IsFiniteSet(T)
  BY <1>1, <1>2, FS_Surjection
<1>4. \A c \in Consumers : f[c] \in Nat
  OBVIOUS
<1>5. \A X \in T : IsFiniteSet(X)
  BY <1>4, TokensOfOne
<1>6. IsFiniteSet(UNION T)
  BY <1>3, <1>5, FS_UNION
<1>7. Tokens(f) \subseteq UNION T
  <2> SUFFICES ASSUME NEW t \in Tokens(f) PROVE t \in UNION T
    OBVIOUS
  <2>1. t \in Consumers \X Nat /\ 1 <= t[2] /\ t[2] <= f[t[1]]
    BY DEF Tokens
  <2>2. t[1] \in Consumers /\ t[2] \in 1 .. f[t[1]] /\ t = <<t[1], t[2]>>
    BY <2>1
  <2>3. t \in TokensOf(t[1], f[t[1]])
    BY <2>2 DEF TokensOf
  <2>4. TokensOf(t[1], f[t[1]]) \in T
    BY <2>2
  <2> HIDE DEF T
  <2> QED BY <2>3, <2>4
<1>8. IsFiniteSet(Tokens(f))
  BY <1>6, <1>7, FS_Subset
<1> QED BY <1>8, FS_CardinalityType DEF Total

\* When one consumer's share changes, the sum changes by as much.
LEMMA TotalChanges ==
  ASSUME NEW f \in [Consumers -> Nat], NEW g \in [Consumers -> Nat], NEW c \in Consumers,
         \A d \in Consumers : d # c => f[d] = g[d]
  PROVE  Total(g) = Total(f) + g[c] - f[c]
<1> DEFINE R == {t \in Tokens(f) : t[1] # c}
<1>1. R = {t \in Tokens(g) : t[1] # c}
  BY DEF Tokens
<1>2. ASSUME NEW h \in [Consumers -> Nat], R = {t \in Tokens(h) : t[1] # c}
      PROVE  Total(h) = Cardinality(R) + h[c]
  <2> HIDE DEF R
  <2>1. Tokens(h) = R \cup TokensOf(c, h[c]) /\ R \cap TokensOf(c, h[c]) = {}
    <3>1. \A t \in Tokens(h) : t[1] = c => t \in TokensOf(c, h[c])
      BY DEF Tokens, TokensOf
    <3>2. \A t \in TokensOf(c, h[c]) : t \in Tokens(h) /\ t[1] = c
      BY DEF Tokens, TokensOf
    <3> QED BY <1>2, <3>1, <3>2
  <2>2. h[c] \in Nat
    OBVIOUS
  <2>3. IsFiniteSet(TokensOf(c, h[c])) /\ Cardinality(TokensOf(c, h[c])) = h[c]
    BY <2>2, TokensOfOne
  <2>4. IsFiniteSet(Tokens(h)) /\ R \subseteq Tokens(h)
    BY <1>2, TotalType
  <2>5. IsFiniteSet(R)
    BY <2>4, FS_Subset
  <2>6. Cardinality(R) \in Nat /\ Cardinality({}) = 0
    BY <2>5, FS_CardinalityType, FS_EmptySet
  <2>7. Cardinality(R \cup TokensOf(c, h[c])) =
          Cardinality(R) + Cardinality(TokensOf(c, h[c])) - Cardinality(R \cap TokensOf(c, h[c]))
    BY <2>3, <2>5, FS_Union
  <2> QED BY <2>1, <2>2, <2>3, <2>6, <2>7 DEF Total
<1>3. Total(f) = Cardinality(R) + f[c]
  BY <1>2
<1>4. Total(g) = Cardinality(R) + g[c]
  BY <1>1, <1>2
<1>5. Cardinality(R) \in Nat
  <2>1. IsFiniteSet(Tokens(f)) /\ R \subseteq Tokens(f)
    BY TotalType
  <2>2. IsFiniteSet(R)
    BY <2>1, FS_Subset
  <2> QED BY <2>2, FS_CardinalityType
<1> HIDE DEF R
<1>6. f[c] \in Nat /\ g[c] \in Nat
  OBVIOUS
<1> QED BY <1>3, <1>4, <1>5, <1>6

\* A sum of greater shares is greater.
LEMMA TotalGrows ==
  ASSUME NEW f \in [Consumers -> Nat], NEW g \in [Consumers -> Nat],
         \A c \in Consumers : f[c] <= g[c]
  PROVE  Total(f) <= Total(g)
<1>1. Tokens(f) \subseteq Tokens(g)
  <2> SUFFICES ASSUME NEW t \in Tokens(f) PROVE t \in Tokens(g)
    OBVIOUS
  <2>1. t \in Consumers \X Nat /\ 1 <= t[2] /\ t[2] <= f[t[1]]
    BY DEF Tokens
  <2>2. t[1] \in Consumers /\ t[2] \in Nat
    BY <2>1
  <2>3. f[t[1]] \in Nat /\ g[t[1]] \in Nat /\ f[t[1]] <= g[t[1]]
    BY <2>2
  <2>4. t[2] <= g[t[1]]
    BY <2>1, <2>2, <2>3
  <2> QED BY <2>1, <2>4 DEF Tokens
<1>2. IsFiniteSet(Tokens(g))
  BY TotalType
<1> QED BY <1>1, <1>2, FS_Subset DEF Total

\* Nothing adds up to nothing.
LEMMA TotalOfNothing ==
  ASSUME NEW f \in [Consumers -> Nat], \A c \in Consumers : f[c] = 0
  PROVE  Total(f) = 0
<1>1. Tokens(f) = {}
  BY DEF Tokens
<1> QED BY <1>1, FS_EmptySet DEF Total

\* One share is at most the sum.
LEMMA ShareInTotal ==
  ASSUME NEW f \in [Consumers -> Nat], NEW c \in Consumers
  PROVE  f[c] <= Total(f)
<1> DEFINE z == [f EXCEPT ![c] = 0]
<1>1. z \in [Consumers -> Nat] /\ z[c] = 0 /\ \A d \in Consumers : d # c => z[d] = f[d]
  OBVIOUS
<1> HIDE DEF z
<1>2. Total(f) = Total(z) + f[c] - z[c]
  BY <1>1, TotalChanges
<1>3. Total(z) \in Nat /\ f[c] \in Nat /\ Total(f) \in Nat
  BY <1>1, TotalType
<1> QED BY <1>1, <1>2, <1>3

-----------------------------------------------------------------------------
(* The counters of dequeue(): a claim that is running is a promise, which  *)
(* is kept, or given back by way of dequeueOvercommit.                     *)

KeptOf(r) == IF r.pc \in {"head", "overcommit"} THEN r.stop ELSE 0
WantedOf(r) == IF r.pc = "recheck" THEN r.desired ELSE 0
OwingOf(r) == IF r.pc = "overcommit" THEN r.desired - r.stop ELSE 0

\* Items that a consumer knows to be there and takes from the head next; items that it
\* has claimed and not compared with the tail; items that it must give back.
Kept == [c \in Consumers |-> KeptOf(cons[c])]
Wanted == [c \in Consumers |-> WantedOf(cons[c])]
Owing == [c \in Consumers |-> OwingOf(cons[c])]

Rechecking == {c \in Consumers : cons[c].pc = "recheck"}

\* What is below it belongs to consumers that know it.
Reserved == headIndex + Total(Kept)

\* The locals of a claim.
ClaimType(r) ==
  /\ r.pc \in {"load", "check", "claim", "recheck"} => r.desired > 0
  /\ r.pc = "overcommit" => 0 <= r.stop /\ r.stop < r.desired
  /\ r.pc = "head" => r.stop > 0

Balance ==
  dequeueOptimisticCount = dequeueOvercommit + Reserved + Total(Wanted) + Total(Owing)

\* Claims in the order of their fetch_add(): what the earlier ones may still take.
Before(rank, c) == [d \in Consumers |-> IF rank[d] < rank[c] THEN Wanted[d] ELSE 0]
Upto(rank, c) == [d \in Consumers |-> IF rank[d] <= rank[c] THEN Wanted[d] ELSE 0]

\* assured[c] is a place below which no item is c's: all was reserved up to it when c
\* claimed, and the consumers that claimed earlier take theirs between it and c's own.
\* If others have reserved more since, they saw a tail that leaves room for c.
ClaimOrder(rank, assured) ==
  /\ rank \in [Consumers -> Int] /\ assured \in [Consumers -> Int]
  /\ \A c \in Rechecking :
       /\ rank[c] < dequeueOptimisticCount
       /\ \A d \in Rechecking : d # c => rank[c] # rank[d]
       /\ assured[c] + Total(Before(rank, c)) <= cons[c].mine
       /\ assured[c] <= Reserved
       /\ assured[c] = Reserved \/ Reserved + Total(Upto(rank, c)) <= tailIndex

CounterInv ==
  /\ \A c \in Consumers : ClaimType(cons[c])
  /\ Balance
  /\ \A c \in Consumers : cons[c].pc \in {"check", "claim"}
     => cons[c].overcommit <= dequeueOvercommit
  /\ Reserved <= tailIndex
  /\ \E rank, assured : ClaimOrder(rank, assured)

\* The shares are numbers.
LEMMA SharesType ==
  ASSUME cons \in [Consumers -> ConsumerType], \A c \in Consumers : ClaimType(cons[c])
  PROVE  /\ Kept \in [Consumers -> Nat] /\ Wanted \in [Consumers -> Nat]
         /\ Owing \in [Consumers -> Nat]
         /\ Total(Kept) \in Nat /\ Total(Wanted) \in Nat /\ Total(Owing) \in Nat
         /\ \A rank, c : /\ Before(rank, c) \in [Consumers -> Nat]
                         /\ Upto(rank, c) \in [Consumers -> Nat]
                         /\ Total(Before(rank, c)) \in Nat /\ Total(Upto(rank, c)) \in Nat
<1>1. \A c \in Consumers : KeptOf(cons[c]) \in Nat /\ WantedOf(cons[c]) \in Nat
                            /\ OwingOf(cons[c]) \in Nat
  <2> TAKE c \in Consumers
  <2>1. cons[c] \in ConsumerType /\ ClaimType(cons[c])
    OBVIOUS
  <2>2. cons[c].desired \in Int /\ cons[c].stop \in Int
    BY <2>1, ConsumerFields
  <2> QED BY <2>1, <2>2 DEF ClaimType, KeptOf, WantedOf, OwingOf
<1>2. /\ Kept \in [Consumers -> Nat] /\ Wanted \in [Consumers -> Nat]
      /\ Owing \in [Consumers -> Nat]
  BY <1>1 DEF Kept, Wanted, Owing
<1>3. \A rank, c : Before(rank, c) \in [Consumers -> Nat] /\ Upto(rank, c) \in [Consumers -> Nat]
  BY <1>2 DEF Before, Upto
<1> QED BY <1>2, <1>3, TotalType

\* How one consumer's step changes the shares.
LEMMA SharesChange ==
  ASSUME cons \in [Consumers -> ConsumerType], \A c \in Consumers : ClaimType(cons[c]),
         NEW c \in Consumers, NEW r, Becomes(c, r), ClaimType(r)
  PROVE  /\ \A d \in Consumers : ClaimType(cons'[d])
         /\ Kept' \in [Consumers -> Nat] /\ Wanted' \in [Consumers -> Nat]
         /\ Owing' \in [Consumers -> Nat]
         /\ Total(Kept)' \in Nat /\ Total(Wanted)' \in Nat /\ Total(Owing)' \in Nat
         /\ Total(Kept)' = Total(Kept) + KeptOf(r) - KeptOf(cons[c])
         /\ Total(Wanted)' = Total(Wanted) + WantedOf(r) - WantedOf(cons[c])
         /\ Total(Owing)' = Total(Owing) + OwingOf(r) - OwingOf(cons[c])
         /\ \A d \in Consumers : d # c => Wanted'[d] = Wanted[d]
         /\ Wanted'[c] = WantedOf(r) /\ Wanted[c] = WantedOf(cons[c])
         /\ \A d \in Consumers : d # c => (d \in Rechecking' <=> d \in Rechecking)
         /\ c \in Rechecking' <=> r.pc = "recheck"
<1>1. /\ r \in ConsumerType /\ cons' \in [Consumers -> ConsumerType] /\ cons'[c] = r
      /\ \A d \in Consumers : d # c => cons'[d] = cons[d]
  BY DEF Becomes
<1>2. \A d \in Consumers : ClaimType(cons'[d])
  BY <1>1, Zenon
<1>3. /\ Kept \in [Consumers -> Nat] /\ Wanted \in [Consumers -> Nat]
      /\ Owing \in [Consumers -> Nat]
      /\ Total(Kept) \in Nat /\ Total(Wanted) \in Nat /\ Total(Owing) \in Nat
  BY SharesType
<1>4. /\ Kept' \in [Consumers -> Nat] /\ Wanted' \in [Consumers -> Nat]
      /\ Owing' \in [Consumers -> Nat]
  <2>1. \A d \in Consumers : KeptOf(cons'[d]) \in Nat /\ WantedOf(cons'[d]) \in Nat
                             /\ OwingOf(cons'[d]) \in Nat
    <3> TAKE d \in Consumers
    <3>1. cons'[d] \in ConsumerType /\ ClaimType(cons'[d])
      BY <1>1, <1>2
    <3>2. cons'[d].desired \in Int /\ cons'[d].stop \in Int
      BY <3>1, ConsumerFields
    <3> QED BY <3>1, <3>2 DEF ClaimType, KeptOf, WantedOf, OwingOf
  <2> QED BY <2>1 DEF Kept, Wanted, Owing
<1>5. /\ Kept[c] = KeptOf(cons[c]) /\ Kept'[c] = KeptOf(r)
      /\ Wanted[c] = WantedOf(cons[c]) /\ Wanted'[c] = WantedOf(r)
      /\ Owing[c] = OwingOf(cons[c]) /\ Owing'[c] = OwingOf(r)
  BY <1>1 DEF Kept, Wanted, Owing
<1>6. \A d \in Consumers : d # c =>
        Kept[d] = Kept'[d] /\ Wanted[d] = Wanted'[d] /\ Owing[d] = Owing'[d]
  BY <1>1 DEF Kept, Wanted, Owing
<1>7. /\ Total(Kept') = Total(Kept) + Kept'[c] - Kept[c]
      /\ Total(Wanted') = Total(Wanted) + Wanted'[c] - Wanted[c]
      /\ Total(Owing') = Total(Owing) + Owing'[c] - Owing[c]
  BY <1>3, <1>4, <1>6, TotalChanges
<1>8. Total(Kept') \in Nat /\ Total(Wanted') \in Nat /\ Total(Owing') \in Nat
  BY <1>4, TotalType
<1>9. /\ Total(Kept)' = Total(Kept') /\ Total(Wanted)' = Total(Wanted')
      /\ Total(Owing)' = Total(Owing')
  BY DEF Total, Tokens
<1>10. /\ \A d \in Consumers : d # c => (d \in Rechecking' <=> d \in Rechecking)
       /\ c \in Rechecking' <=> r.pc = "recheck"
  BY <1>1 DEF Rechecking
<1> QED BY <1>2, <1>4, <1>5, <1>6, <1>7, <1>8, <1>9, <1>10

\* A step that leaves the claims and shares of all consumers what they are, and the
\* counters but for a later tail.
LEMMA ClaimsStay ==
  ASSUME CounterInv, CounterType, CounterType', cons \in [Consumers -> ConsumerType],
         UNCHANGED <<dequeueOptimisticCount, dequeueOvercommit>>, tailIndex' >= tailIndex,
         Reserved' = Reserved,
         Total(Wanted)' = Total(Wanted), Total(Owing)' = Total(Owing),
         Wanted' = Wanted, Rechecking' = Rechecking,
         \A c \in Consumers : ClaimType(cons'[c]),
         \A c \in Rechecking : cons'[c].mine = cons[c].mine,
         \A c \in Consumers : cons'[c].pc \in {"check", "claim"} =>
           cons'[c].overcommit <= dequeueOvercommit
  PROVE  CounterInv'
<1>1. Balance'
  BY DEF CounterInv, Balance
<1>2. Reserved \in Int /\ tailIndex \in Int /\ tailIndex' \in Int
  BY SharesType DEF Reserved, CounterInv, CounterType
<1>3. Reserved' <= tailIndex'
  BY <1>2 DEF CounterInv
<1>4. PICK rank, assured : ClaimOrder(rank, assured)
  BY Zenon DEF CounterInv
<1>5. \A c : Before(rank, c)' = Before(rank, c) /\ Upto(rank, c)' = Upto(rank, c)
  BY DEF Before, Upto
<1>6. \A c : Total(Before(rank, c))' = Total(Before(rank, c))
      /\ Total(Upto(rank, c))' = Total(Upto(rank, c))
  <2> TAKE c
  <2>1. Before(rank, c)' = Before(rank, c) /\ Upto(rank, c)' = Upto(rank, c)
    BY <1>5
  <2>2. /\ Tokens(Before(rank, c))' = Tokens(Before(rank, c))
        /\ Tokens(Upto(rank, c))' = Tokens(Upto(rank, c))
    BY <2>1 DEF Tokens
  <2> QED BY <2>2 DEF Total
<1>7. ClaimOrder(rank, assured)'
  <2>1. \A c : Total(Upto(rank, c)) \in Nat
    BY SharesType DEF CounterInv
  <2>2. rank \in [Consumers -> Int] /\ assured \in [Consumers -> Int]
    BY <1>4 DEF ClaimOrder
  <2>3. ASSUME NEW c \in Rechecking'
        PROVE  /\ rank[c] < dequeueOptimisticCount'
               /\ \A d \in Rechecking' : d # c => rank[c] # rank[d]
               /\ assured[c] + Total(Before(rank, c))' <= cons'[c].mine
               /\ assured[c] <= Reserved'
               /\ assured[c] = Reserved' \/ Reserved' + Total(Upto(rank, c))' <= tailIndex'
    <3>1. c \in Rechecking
      BY <2>3
    <3>2. /\ rank[c] < dequeueOptimisticCount
          /\ \A d \in Rechecking : d # c => rank[c] # rank[d]
          /\ assured[c] + Total(Before(rank, c)) <= cons[c].mine
          /\ assured[c] <= Reserved
          /\ assured[c] = Reserved \/ Reserved + Total(Upto(rank, c)) <= tailIndex
      BY <1>4, <3>1 DEF ClaimOrder
    <3>3. \A d \in Rechecking' : d # c => rank[c] # rank[d]
      BY <3>2
    <3> QED BY <1>2, <1>6, <2>1, <3>1, <3>2, <3>3
  <2> QED BY <2>2, <2>3 DEF ClaimOrder
<1>8. \E r, a : ClaimOrder(r, a)'
  BY <1>7
<1>9. \A c \in Consumers : cons'[c].pc \in {"check", "claim"} =>
        cons'[c].overcommit <= dequeueOvercommit'
  OBVIOUS
<1>10. \A c \in Consumers : ClaimType(cons'[c])
  OBVIOUS
<1> QED BY <1>1, <1>3, <1>8, <1>9, <1>10, Zenon DEF CounterInv

\* A consumer's step that neither claims nor settles a claim.
LEMMA ClaimStays ==
  ASSUME CounterInv, CounterType, cons \in [Consumers -> ConsumerType],
         UNCHANGED counters, NEW c \in Consumers, NEW r, Becomes(c, r), ClaimType(r),
         KeptOf(r) = KeptOf(cons[c]), OwingOf(r) = OwingOf(cons[c]),
         cons[c].pc # "recheck", r.pc # "recheck",
         r.pc \in {"check", "claim"} => r.overcommit <= dequeueOvercommit
  PROVE  CounterInv'
<1>1. \A d \in Consumers : ClaimType(cons[d])
  BY DEF CounterInv
<1>2. /\ \A d \in Consumers : ClaimType(cons'[d])
      /\ Kept' \in [Consumers -> Nat] /\ Wanted' \in [Consumers -> Nat]
      /\ Total(Kept)' = Total(Kept) + KeptOf(r) - KeptOf(cons[c])
      /\ Total(Wanted)' = Total(Wanted) + WantedOf(r) - WantedOf(cons[c])
      /\ Total(Owing)' = Total(Owing) + OwingOf(r) - OwingOf(cons[c])
      /\ \A d \in Consumers : d # c => Wanted'[d] = Wanted[d]
      /\ Wanted'[c] = WantedOf(r) /\ Wanted[c] = WantedOf(cons[c])
      /\ \A d \in Consumers : d # c => (d \in Rechecking' <=> d \in Rechecking)
      /\ c \in Rechecking' <=> r.pc = "recheck"
  BY <1>1, SharesChange
<1>3. /\ Total(Kept) \in Nat /\ Total(Wanted) \in Nat /\ Total(Owing) \in Nat
      /\ Wanted \in [Consumers -> Nat] /\ Kept \in [Consumers -> Nat]
         /\ Owing \in [Consumers -> Nat]
  BY <1>1, SharesType
<1>4. WantedOf(r) = 0 /\ WantedOf(cons[c]) = 0
  BY DEF WantedOf
<1>5. KeptOf(cons[c]) \in Nat /\ OwingOf(cons[c]) \in Nat
  <2>1. Kept[c] = KeptOf(cons[c]) /\ Owing[c] = OwingOf(cons[c])
    BY DEF Kept, Owing
  <2> QED BY <1>3, <2>1
<1>6. Total(Kept)' = Total(Kept) /\ Total(Wanted)' = Total(Wanted) /\ Total(Owing)' = Total(Owing)
  BY <1>2, <1>3, <1>4, <1>5
<1>7. Wanted' = Wanted
  BY <1>2, <1>3, <1>4
<1>8. Rechecking' = Rechecking
  BY <1>2 DEF Rechecking
<1>9. Reserved' = Reserved
  BY <1>6 DEF Reserved, counters
<1>10. \A d \in Rechecking : cons'[d].mine = cons[d].mine
  BY DEF Becomes, Rechecking
<1>11. \A d \in Consumers : cons'[d].pc \in {"check", "claim"} =>
         cons'[d].overcommit <= dequeueOvercommit
  BY DEF Becomes, CounterInv
<1>12. /\ CounterType' /\ UNCHANGED <<dequeueOptimisticCount, dequeueOvercommit>>
       /\ tailIndex' >= tailIndex
  BY DEF CounterType, counters
<1> QED BY <1>2, <1>6, <1>7, <1>8, <1>9, <1>10, <1>11, <1>12, ClaimsStay

\* The producer moves the tail up and touches no other counter.
LEMMA ClaimsOutlastEnqueue ==
  ASSUME CounterInv, CounterType, CounterType', cons \in [Consumers -> ConsumerType],
         UNCHANGED <<headIndex, dequeueOptimisticCount, dequeueOvercommit>>,
         UNCHANGED cons, tailIndex' >= tailIndex
  PROVE  CounterInv'
<1>1. Kept' = Kept /\ Wanted' = Wanted /\ Owing' = Owing /\ Rechecking' = Rechecking
  BY DEF Kept, Wanted, Owing, Rechecking
<1>2. Total(Kept)' = Total(Kept) /\ Total(Wanted)' = Total(Wanted) /\ Total(Owing)' = Total(Owing)
  BY <1>1 DEF Total, Tokens
<1>3. Reserved' = Reserved
  BY <1>2 DEF Reserved
<1> QED BY <1>1, <1>2, <1>3, ClaimsStay DEF CounterInv

\* dequeueOptimisticCount.fetch_add() (concurrentqueue.h:2581, :2811): all that is
\* reserved or claimed lies below the new claim.
LEMMA ClaimKeepsOrder ==
  ASSUME CounterInv, CounterType, cons \in [Consumers -> ConsumerType], NEW c \in Consumers,
         Claim(c)
  PROVE  CounterInv'
<1> DEFINE dm == cons[c].desired
           mn == dequeueOptimisticCount - cons[c].overcommit
           r == [cons[c] EXCEPT !.pc = "recheck", !.overcommit = 0, !.mine = mn]
<1>1. \A d \in Consumers : ClaimType(cons[d])
  BY DEF CounterInv
<1>2. cons[c] \in ConsumerType /\ cons[c].pc = "claim" /\ dm \in Int /\ cons[c].overcommit \in Int
  BY ConsumerFields DEF Claim, ConsumerAt
<1>3. Becomes(c, r)
  BY ClaimBecomes
<1>4. r.pc = "recheck" /\ r.desired = dm /\ r.mine = mn
  BY <1>2 DEF ConsumerType
<1> HIDE DEF r
<1>5. dm > 0 /\ cons[c].overcommit <= dequeueOvercommit
  BY <1>1, <1>2 DEF ClaimType, CounterInv
<1>6. ClaimType(r)
  BY <1>4, <1>5 DEF ClaimType
<1>7. /\ dequeueOptimisticCount' = dequeueOptimisticCount + dm
      /\ tailIndex' = tailIndex /\ headIndex' = headIndex /\ dequeueOvercommit' = dequeueOvercommit
  BY DEF Claim
<1>8. /\ KeptOf(r) = 0 /\ KeptOf(cons[c]) = 0 /\ OwingOf(r) = 0 /\ OwingOf(cons[c]) = 0
      /\ WantedOf(r) = dm /\ WantedOf(cons[c]) = 0
  BY <1>2, <1>4 DEF KeptOf, OwingOf, WantedOf
<1>9. /\ \A d \in Consumers : ClaimType(cons'[d])
      /\ Kept' \in [Consumers -> Nat] /\ Wanted' \in [Consumers -> Nat]
      /\ Total(Kept)' = Total(Kept) + KeptOf(r) - KeptOf(cons[c])
      /\ Total(Wanted)' = Total(Wanted) + WantedOf(r) - WantedOf(cons[c])
      /\ Total(Owing)' = Total(Owing) + OwingOf(r) - OwingOf(cons[c])
      /\ \A d \in Consumers : d # c => Wanted'[d] = Wanted[d]
      /\ Wanted'[c] = WantedOf(r) /\ Wanted[c] = WantedOf(cons[c])
      /\ \A d \in Consumers : d # c => (d \in Rechecking' <=> d \in Rechecking)
      /\ c \in Rechecking' <=> r.pc = "recheck"
  BY <1>1, <1>3, <1>6, SharesChange
<1>10. /\ Total(Kept) \in Nat /\ Total(Wanted) \in Nat /\ Total(Owing) \in Nat
       /\ Wanted \in [Consumers -> Nat] /\ Kept \in [Consumers -> Nat]
       /\ \A rank, d : /\ Before(rank, d) \in [Consumers -> Nat]
                       /\ Upto(rank, d) \in [Consumers -> Nat]
                       /\ Total(Before(rank, d)) \in Nat /\ Total(Upto(rank, d)) \in Nat
  BY <1>1, SharesType
<1>11. /\ Total(Kept)' = Total(Kept) /\ Total(Wanted)' = Total(Wanted) + dm
       /\ Total(Owing)' = Total(Owing)
  BY <1>2, <1>8, <1>9, <1>10
<1>12. Reserved' = Reserved /\ Reserved \in Int
  BY <1>7, <1>10, <1>11 DEF Reserved, CounterType
<1>13. Balance'
  BY <1>2, <1>7, <1>10, <1>11, <1>12 DEF Balance, CounterInv, CounterType
<1>14. Reserved' <= tailIndex'
  BY <1>7, <1>12 DEF CounterInv
<1>15. \A d \in Consumers : cons'[d].pc \in {"check", "claim"} =>
         cons'[d].overcommit <= dequeueOvercommit'
  BY <1>3, <1>4, <1>7 DEF Becomes, CounterInv
<1>16. PICK rank, assured : ClaimOrder(rank, assured)
  BY Zenon DEF CounterInv
<1>17. /\ rank \in [Consumers -> Int] /\ assured \in [Consumers -> Int]
       /\ dequeueOptimisticCount \in Int /\ dequeueOvercommit \in Int /\ tailIndex \in Int
  BY <1>16 DEF ClaimOrder, CounterType
<1>18a. PICK rank2 \in [Consumers -> Int] :
          rank2[c] = dequeueOptimisticCount /\ \A d \in Consumers : d # c => rank2[d] = rank[d]
  <2> DEFINE x == [rank EXCEPT ![c] = dequeueOptimisticCount]
  <2>1. /\ x \in [Consumers -> Int] /\ x[c] = dequeueOptimisticCount
        /\ \A d \in Consumers : d # c => x[d] = rank[d]
    BY <1>17
  <2> QED BY <2>1
<1>18b. PICK assured2 \in [Consumers -> Int] :
          assured2[c] = Reserved /\ \A d \in Consumers : d # c => assured2[d] = assured[d]
  <2> DEFINE x == [assured EXCEPT ![c] = Reserved]
  <2>1. /\ x \in [Consumers -> Int] /\ x[c] = Reserved
        /\ \A d \in Consumers : d # c => x[d] = assured[d]
    BY <1>12, <1>17
  <2> QED BY <2>1
<1>18. /\ rank2 \in [Consumers -> Int] /\ assured2 \in [Consumers -> Int]
       /\ rank2[c] = dequeueOptimisticCount /\ assured2[c] = Reserved
       /\ \A d \in Consumers : d # c => rank2[d] = rank[d] /\ assured2[d] = assured[d]
  BY <1>18a, <1>18b
<1>19. \A d \in Rechecking :
         /\ d # c /\ d \in Consumers
         /\ rank[d] < dequeueOptimisticCount
         /\ \A x \in Rechecking : x # d => rank[d] # rank[x]
         /\ assured[d] + Total(Before(rank, d)) <= cons[d].mine
         /\ assured[d] <= Reserved
         /\ assured[d] = Reserved \/ Reserved + Total(Upto(rank, d)) <= tailIndex
  BY <1>2, <1>16 DEF ClaimOrder, Rechecking
<1>20. ASSUME NEW d \in Rechecking
       PROVE  Total(Before(rank2, d))' = Total(Before(rank, d))
              /\ Total(Upto(rank2, d))' = Total(Upto(rank, d))
  <2>1. d \in Consumers /\ d # c /\ rank[d] < dequeueOptimisticCount /\ rank2[d] = rank[d]
    BY <1>18, <1>19
  <2>2. \A x \in Consumers : x # c => rank2[x] = rank[x] /\ Wanted'[x] = Wanted[x]
    BY <1>9, <1>18
  <2>3. Wanted[c] = 0 /\ rank2[c] = dequeueOptimisticCount /\ rank[d] \in Int
    BY <1>8, <1>9, <1>17, <1>18, <2>1
  <2>4. Before(rank2, d)' = Before(rank, d)
    <3>1. \A x \in Consumers : (IF rank2[x] < rank2[d] THEN Wanted'[x] ELSE 0)
                                = (IF rank[x] < rank[d] THEN Wanted[x] ELSE 0)
      BY <1>17, <2>1, <2>2, <2>3
    <3> QED BY <3>1, Zenon DEF Before
  <2>5. Upto(rank2, d)' = Upto(rank, d)
    <3>1. \A x \in Consumers : (IF rank2[x] <= rank2[d] THEN Wanted'[x] ELSE 0)
                                = (IF rank[x] <= rank[d] THEN Wanted[x] ELSE 0)
      BY <1>17, <2>1, <2>2, <2>3
    <3> QED BY <3>1, Zenon DEF Upto
  <2> QED BY <2>4, <2>5 DEF Total, Tokens
<1>21. Total(Before(rank2, c))' <= Total(Wanted)
  <2>1. rank2[c] = dequeueOptimisticCount
    BY <1>18
  <2>2. Before(rank2, c)' \in [Consumers -> Nat]
    BY <1>9 DEF Before
  <2>3. \A x \in Consumers : Before(rank2, c)'[x] <= Wanted[x]
    <3> TAKE x \in Consumers
    <3>1. Before(rank2, c)'[x] = IF rank2[x] < rank2[c] THEN Wanted'[x] ELSE 0
      BY DEF Before
    <3>2. x = c => Before(rank2, c)'[x] = 0
      BY <1>17, <2>1, <3>1
    <3>3. x # c => Wanted'[x] = Wanted[x]
      BY <1>9
    <3>4. Wanted[x] \in Nat
      BY <1>10
    <3> QED BY <3>1, <3>2, <3>3, <3>4
  <2>4. Total(Before(rank2, c)') <= Total(Wanted)
    BY <1>10, <2>2, <2>3, TotalGrows
  <2>5. Total(Before(rank2, c))' = Total(Before(rank2, c)')
    BY DEF Total, Tokens
  <2> QED BY <2>4, <2>5
<1>22. Total(Before(rank2, c))' \in Nat
  <2>1. Before(rank2, c)' \in [Consumers -> Nat]
    BY <1>9 DEF Before
  <2>2. Total(Before(rank2, c))' = Total(Before(rank2, c)')
    BY DEF Total, Tokens
  <2> QED BY <2>1, <2>2, TotalType
<1>23. Reserved + Total(Before(rank2, c))' <= mn
  <2>1. dequeueOptimisticCount = dequeueOvercommit + Reserved + Total(Wanted) + Total(Owing)
    BY DEF CounterInv, Balance
  <2> DEFINE tb == Total(Before(rank2, c))'
  <2>2. tb \in Nat /\ tb <= Total(Wanted)
    BY <1>21, <1>22
  <2> HIDE DEF tb
  <2>3. Reserved + tb <= mn
    BY <1>2, <1>5, <1>10, <1>12, <1>17, <2>1, <2>2
  <2> QED BY <2>3 DEF tb
<1>24. ClaimOrder(rank2, assured2)'
  <2> SUFFICES ASSUME NEW d \in Rechecking'
               PROVE  /\ rank2[d] < dequeueOptimisticCount'
                      /\ \A x \in Rechecking' : x # d => rank2[d] # rank2[x]
                      /\ assured2[d] + Total(Before(rank2, d))' <= cons'[d].mine
                      /\ assured2[d] <= Reserved'
                      /\ assured2[d] = Reserved' \/ Reserved' + Total(Upto(rank2, d))' <= tailIndex'
    BY <1>18 DEF ClaimOrder
  <2>1. \A x \in Rechecking' : x = c \/ (x # c /\ x \in Rechecking)
    BY <1>9 DEF Rechecking
  <2>2. CASE d = c
    <3>1. \A x \in Rechecking' : x # d => rank2[d] # rank2[x]
      <4> SUFFICES ASSUME NEW x \in Rechecking', x # c PROVE rank2[c] # rank2[x]
        BY <2>2
      <4>1. x \in Rechecking /\ x \in Consumers
        BY <1>19, <2>1
      <4>2. rank[x] \in Int /\ rank[x] < dequeueOptimisticCount /\ rank2[x] = rank[x]
        BY <1>17, <1>18, <1>19, <4>1
      <4> QED BY <1>17, <1>18, <4>2
    <3>2. cons'[d].mine = mn
      BY <1>3, <1>4, <2>2 DEF Becomes
    <3>3. rank2[d] < dequeueOptimisticCount'
      BY <1>2, <1>5, <1>7, <1>17, <1>18, <2>2
    <3>4. assured2[d] = Reserved
      BY <1>18, <2>2
    <3> QED BY <1>12, <1>23, <2>2, <3>1, <3>2, <3>3, <3>4
  <2>3. CASE d # c
    <3>1. d \in Rechecking /\ d \in Consumers
      BY <1>19, <2>1, <2>3
    <3>2. rank2[d] = rank[d] /\ assured2[d] = assured[d] /\ rank[d] \in Int
      BY <1>17, <1>18, <2>3, <3>1
    <3>3. cons'[d].mine = cons[d].mine
      BY <1>3, <2>3, <3>1 DEF Becomes
    <3>4. \A x \in Rechecking' : x # d => rank2[d] # rank2[x]
      <4> SUFFICES ASSUME NEW x \in Rechecking', x # d PROVE rank2[d] # rank2[x]
        OBVIOUS
      <4>1. CASE x = c
        BY <1>17, <1>18, <1>19, <3>1, <3>2, <4>1
      <4>2. CASE x # c
        <5>1. x \in Rechecking /\ x \in Consumers
          BY <1>19, <2>1, <4>2
        <5> QED BY <1>18, <1>19, <3>1, <3>2, <4>2, <5>1
      <4> QED BY <4>1, <4>2
    <3>5. rank2[d] < dequeueOptimisticCount'
      BY <1>2, <1>5, <1>7, <1>17, <1>19, <3>1, <3>2
    <3>6. /\ Total(Before(rank2, d))' = Total(Before(rank, d))
          /\ Total(Upto(rank2, d))' = Total(Upto(rank, d))
      BY <1>20, <3>1
    <3> QED BY <1>7, <1>12, <1>19, <3>1, <3>2, <3>3, <3>4, <3>5, <3>6
  <2> QED BY <2>2, <2>3
<1>25. (\E x, y : ClaimOrder(x, y))'
  BY <1>24
<1> QED BY <1>9, <1>13, <1>14, <1>15, <1>25, Zenon DEF CounterInv

\* The second load of the tail (concurrentqueue.h:2582, :2813) settles a claim: a
\* consumer reserves no more than there is, and what it reserves was not needed by the
\* claims before its own.
LEMMA RecheckKeepsOrder ==
  ASSUME CounterInv, CounterType, cons \in [Consumers -> ConsumerType], NEW c \in Consumers,
         Recheck(c)
  PROVE  CounterInv'
<1> DEFINE dm == cons[c].desired
           mn == cons[c].mine
           actual == Actual(c)
           k == IF Actual(c) > 0 THEN Actual(c) ELSE 0
           r == [cons[c] EXCEPT !.mine = 0, !.stop = k,
                                !.pc = IF Actual(c) = cons[c].desired THEN "head" ELSE "overcommit"]
<1>1. \A d \in Consumers : ClaimType(cons[d])
  BY DEF CounterInv
<1>2. cons[c] \in ConsumerType /\ cons[c].pc = "recheck" /\ dm \in Int /\ mn \in Int
  BY ConsumerFields DEF Recheck, ConsumerAt
<1>3. Becomes(c, r)
  BY RecheckBecomes
<1>4. /\ r.pc = (IF actual = dm THEN "head" ELSE "overcommit")
      /\ r.desired = dm /\ r.stop = k
  BY <1>2 DEF ConsumerType
<1> HIDE DEF r
<1>5. dm > 0
  BY <1>1, <1>2 DEF ClaimType
<1>5a. tailIndex \in Int
  BY DEF CounterType
<1>6. actual \in Int /\ actual <= dm /\ actual <= tailIndex - mn
  BY <1>2, <1>5a DEF Actual, Least
<1>7. k \in Nat /\ k <= dm /\ (actual = dm => k = dm) /\ (k > 0 => k <= tailIndex - mn)
      /\ (actual # dm => k < dm)
  BY <1>2, <1>5, <1>6
<1> HIDE DEF k, actual
<1>8. ClaimType(r)
  BY <1>4, <1>5, <1>7, <1>2 DEF ClaimType
<1>9. UNCHANGED counters /\ tailIndex' = tailIndex /\ headIndex' = headIndex
      /\ dequeueOvercommit' = dequeueOvercommit /\ dequeueOptimisticCount' = dequeueOptimisticCount
  BY DEF Recheck, counters
<1>10. /\ KeptOf(r) = k /\ KeptOf(cons[c]) = 0 /\ OwingOf(r) = dm - k /\ OwingOf(cons[c]) = 0
       /\ WantedOf(r) = 0 /\ WantedOf(cons[c]) = dm
  BY <1>2, <1>4, <1>7 DEF KeptOf, OwingOf, WantedOf
<1>11. /\ \A d \in Consumers : ClaimType(cons'[d])
       /\ Kept' \in [Consumers -> Nat] /\ Wanted' \in [Consumers -> Nat]
       /\ Total(Kept)' = Total(Kept) + KeptOf(r) - KeptOf(cons[c])
       /\ Total(Wanted)' = Total(Wanted) + WantedOf(r) - WantedOf(cons[c])
       /\ Total(Owing)' = Total(Owing) + OwingOf(r) - OwingOf(cons[c])
       /\ \A d \in Consumers : d # c => Wanted'[d] = Wanted[d]
       /\ Wanted'[c] = WantedOf(r) /\ Wanted[c] = WantedOf(cons[c])
       /\ \A d \in Consumers : d # c => (d \in Rechecking' <=> d \in Rechecking)
       /\ c \in Rechecking' <=> r.pc = "recheck"
  BY <1>1, <1>3, <1>8, SharesChange
<1>12. /\ Total(Kept) \in Nat /\ Total(Wanted) \in Nat /\ Total(Owing) \in Nat
       /\ Wanted \in [Consumers -> Nat] /\ Kept \in [Consumers -> Nat]
       /\ \A rank, d : /\ Before(rank, d) \in [Consumers -> Nat]
                       /\ Upto(rank, d) \in [Consumers -> Nat]
                       /\ Total(Before(rank, d)) \in Nat /\ Total(Upto(rank, d)) \in Nat
  BY <1>1, SharesType
<1>13. /\ Total(Kept)' = Total(Kept) + k /\ Total(Wanted)' = Total(Wanted) - dm
       /\ Total(Owing)' = Total(Owing) + dm - k
  BY <1>2, <1>7, <1>10, <1>11, <1>12
<1>14. Reserved' = Reserved + k /\ Reserved \in Int
  BY <1>7, <1>9, <1>12, <1>13 DEF Reserved, CounterType
<1>15. Balance'
  BY <1>2, <1>7, <1>9, <1>12, <1>13, <1>14 DEF Balance, CounterInv, CounterType
<1>16. \A d \in Consumers : cons'[d].pc \in {"check", "claim"} =>
         cons'[d].overcommit <= dequeueOvercommit'
  <2>1. r.pc \notin {"check", "claim"}
    BY <1>4
  <2> QED BY <1>3, <1>9, <2>1 DEF Becomes, CounterInv
<1>17. PICK rank, assured : ClaimOrder(rank, assured)
  BY Zenon DEF CounterInv
<1>18. rank \in [Consumers -> Int] /\ assured \in [Consumers -> Int]
  BY <1>17 DEF ClaimOrder
<1>19. \A d \in Rechecking :
         /\ d \in Consumers
         /\ rank[d] < dequeueOptimisticCount
         /\ \A x \in Rechecking : x # d => rank[d] # rank[x]
         /\ assured[d] + Total(Before(rank, d)) <= cons[d].mine
         /\ assured[d] <= Reserved
         /\ assured[d] = Reserved \/ Reserved + Total(Upto(rank, d)) <= tailIndex
  BY <1>17 DEF ClaimOrder, Rechecking
<1>20. c \in Rechecking /\ c \notin Rechecking' /\ Rechecking' \subseteq Rechecking
  BY <1>2, <1>4, <1>11 DEF Rechecking
<1> DEFINE tbc == Total(Before(rank, c))
           tuc == Total(Upto(rank, c))
<1>21. tbc \in Nat /\ tuc \in Nat /\ tuc = tbc + dm
  <2>1. \A x \in Consumers : x # c => Before(rank, c)[x] = Upto(rank, c)[x]
    <3> SUFFICES ASSUME NEW x \in Consumers, x # c PROVE Before(rank, c)[x] = Upto(rank, c)[x]
      OBVIOUS
    <3>1. Before(rank, c)[x] = (IF rank[x] < rank[c] THEN Wanted[x] ELSE 0)
      BY DEF Before
    <3>2. Upto(rank, c)[x] = (IF rank[x] <= rank[c] THEN Wanted[x] ELSE 0)
      BY DEF Upto
    <3>3. rank[x] = rank[c] => Wanted[x] = 0
      <4>1. rank[x] = rank[c] => x \notin Rechecking
        BY <1>19, <1>20
      <4>2. x \notin Rechecking => Wanted[x] = 0
        BY DEF Rechecking, Wanted, WantedOf
      <4> QED BY <4>1, <4>2
    <3>4. rank[x] \in Int /\ rank[c] \in Int
      BY <1>18
    <3> QED BY <3>1, <3>2, <3>3, <3>4
  <2>2. Before(rank, c)[c] = 0 /\ Upto(rank, c)[c] = dm
    <3>1. rank[c] \in Int
      BY <1>18
    <3> QED BY <1>10, <1>11, <3>1 DEF Before, Upto
  <2>3. Total(Upto(rank, c)) = Total(Before(rank, c)) + Upto(rank, c)[c] - Before(rank, c)[c]
    BY <1>12, <2>1, TotalChanges
  <2>4. tbc \in Nat /\ tuc \in Nat
    BY <1>12
  <2> QED BY <1>2, <2>2, <2>3, <2>4
<1>22. /\ assured[c] \in Int /\ assured[c] + tbc <= mn /\ assured[c] <= Reserved
       /\ assured[c] = Reserved \/ Reserved + tuc <= tailIndex
  BY <1>18, <1>19, <1>20
<1> HIDE DEF tbc, tuc
<1>23. Reserved' <= tailIndex'
  <2>0. Reserved <= tailIndex
    BY DEF CounterInv
  <2>1. CASE k = 0
    BY <1>9, <1>14, <2>0, <2>1
  <2>2. CASE k > 0
    <3>1. k + mn <= tailIndex
      BY <1>2, <1>5a, <1>7, <2>2
    <3> QED BY <1>2, <1>5a, <1>7, <1>9, <1>14, <1>21, <1>22, <3>1
  <2> QED BY <1>7, <2>1, <2>2
<1>24. ASSUME NEW d \in Rechecking, d # c
       PROVE  LET tb == Total(Before(rank, d))
                  tu == Total(Upto(rank, d))
                  tb2 == Total(Before(rank, d))'
                  tu2 == Total(Upto(rank, d))'
              IN /\ tb \in Nat /\ tu \in Nat
                 /\ rank[d] > rank[c] => tb2 = tb - dm /\ tu2 = tu - dm
                 /\ rank[d] < rank[c] => tb2 = tb /\ tu2 = tu /\ tu <= tbc
  <2>1. d \in Consumers /\ rank[d] \in Int /\ rank[c] \in Int
    BY <1>18, <1>19
  <2>2. \A x \in Consumers : x # c => Wanted'[x] = Wanted[x]
    BY <1>11
  <2>3. Wanted'[c] = 0 /\ Wanted[c] = dm
    BY <1>10, <1>11
  <2>4. Before(rank, d)' \in [Consumers -> Nat] /\ Upto(rank, d)' \in [Consumers -> Nat]
    BY <1>11 DEF Before, Upto
  <2>5. /\ Before(rank, d) \in [Consumers -> Nat] /\ Upto(rank, d) \in [Consumers -> Nat]
        /\ Total(Before(rank, d)) \in Nat /\ Total(Upto(rank, d)) \in Nat
    BY <1>12
  <2>6. /\ \A x \in Consumers : x # c => Before(rank, d)[x] = Before(rank, d)'[x]
        /\ \A x \in Consumers : x # c => Upto(rank, d)[x] = Upto(rank, d)'[x]
    BY <2>2 DEF Before, Upto
  <2>7. /\ Total(Before(rank, d)') = Total(Before(rank, d)) + Before(rank, d)'[c] - Before(rank, d)[c]
        /\ Total(Upto(rank, d)') = Total(Upto(rank, d)) + Upto(rank, d)'[c] - Upto(rank, d)[c]
    BY <2>4, <2>5, <2>6, TotalChanges
  <2>8. /\ Total(Before(rank, d))' = Total(Before(rank, d)')
        /\ Total(Upto(rank, d))' = Total(Upto(rank, d)')
    BY DEF Total, Tokens
  <2>9. Before(rank, d)'[c] = 0 /\ Upto(rank, d)'[c] = 0
    BY <2>3 DEF Before, Upto
  <2>10. rank[d] > rank[c] => Before(rank, d)[c] = dm /\ Upto(rank, d)[c] = dm
    BY <2>1, <2>3 DEF Before, Upto
  <2>11. rank[d] < rank[c] => Before(rank, d)[c] = 0 /\ Upto(rank, d)[c] = 0
    BY <2>1, <2>3 DEF Before, Upto
  <2>12. rank[d] < rank[c] => Total(Upto(rank, d)) <= tbc
    <3> SUFFICES ASSUME rank[d] < rank[c] PROVE Total(Upto(rank, d)) <= Total(Before(rank, c))
      BY DEF tbc
    <3>1. \A x \in Consumers : Upto(rank, d)[x] <= Before(rank, c)[x]
      <4> TAKE x \in Consumers
      <4>1. Upto(rank, d)[x] = (IF rank[x] <= rank[d] THEN Wanted[x] ELSE 0)
        BY DEF Upto
      <4>2. Before(rank, c)[x] = (IF rank[x] < rank[c] THEN Wanted[x] ELSE 0)
        BY DEF Before
      <4>3. rank[x] \in Int /\ Wanted[x] \in Nat
        BY <1>12, <1>18
      <4> QED BY <2>1, <4>1, <4>2, <4>3
    <3>2. Before(rank, c) \in [Consumers -> Nat]
      BY <1>12
    <3> QED BY <2>5, <3>1, <3>2, TotalGrows
  <2> QED BY <1>2, <2>5, <2>7, <2>8, <2>9, <2>10, <2>11, <2>12
<1> DEFINE moved(d) == IF rank[d] > rank[c] THEN assured[d] + k ELSE assured[d]
<1>25. PICK assured2 \in [Consumers -> Int] : \A d \in Consumers : assured2[d] = moved(d)
  <2>1. \A d \in Consumers : moved(d) \in Int
    BY <1>7, <1>18
  <2> DEFINE x == [d \in Consumers |-> moved(d)]
  <2> HIDE DEF moved
  <2>2. x \in [Consumers -> Int] /\ \A d \in Consumers : x[d] = moved(d)
    BY <2>1
  <2> QED BY <2>2
<1>26. ClaimOrder(rank, assured2)'
  <2> SUFFICES ASSUME NEW d \in Rechecking'
               PROVE  /\ rank[d] < dequeueOptimisticCount'
                      /\ \A x \in Rechecking' : x # d => rank[d] # rank[x]
                      /\ assured2[d] + Total(Before(rank, d))' <= cons'[d].mine
                      /\ assured2[d] <= Reserved'
                      /\ assured2[d] = Reserved' \/ Reserved' + Total(Upto(rank, d))' <= tailIndex'
    BY <1>18, <1>25 DEF ClaimOrder
  <2>1. d \in Rechecking /\ d # c /\ d \in Consumers
    BY <1>19, <1>20
  <2>2. rank[d] \in Int /\ rank[c] \in Int /\ assured[d] \in Int /\ rank[d] # rank[c]
    BY <1>18, <1>19, <1>20, <2>1
  <2> DEFINE tb == Total(Before(rank, d))
             tu == Total(Upto(rank, d))
             tb2 == Total(Before(rank, d))'
             tu2 == Total(Upto(rank, d))'
             m == cons[d].mine
  <2>3. /\ tb \in Nat /\ tu \in Nat
        /\ rank[d] > rank[c] => tb2 = tb - dm /\ tu2 = tu - dm
        /\ rank[d] < rank[c] => tb2 = tb /\ tu2 = tu /\ tu <= tbc
    BY <1>24, <2>1
  <2>4. cons'[d].mine = m
    BY <1>3, <2>1 DEF Becomes
  <2>4a. m \in Int
    BY <2>1, ConsumerFields
  <2>5. /\ rank[d] < dequeueOptimisticCount
        /\ \A x \in Rechecking : x # d => rank[d] # rank[x]
        /\ assured[d] + tb <= m /\ assured[d] <= Reserved
        /\ assured[d] = Reserved \/ Reserved + tu <= tailIndex
    BY <1>19, <2>1
  <2>6. assured2[d] = IF rank[d] > rank[c] THEN assured[d] + k ELSE assured[d]
    BY <1>25, <2>1
  <2> HIDE DEF tb, tu, tb2, tu2, m
  <2>7. /\ assured2[d] + tb2 <= m /\ assured2[d] <= Reserved'
        /\ assured2[d] = Reserved' \/ Reserved' + tu2 <= tailIndex'
    <3>1. CASE rank[d] > rank[c]
      BY <1>2, <1>5a, <1>7, <1>9, <1>14, <2>2, <2>3, <2>4a, <2>5, <2>6, <3>1
    <3>2. CASE rank[d] < rank[c]
      <4>1. assured2[d] = assured[d] /\ tb2 = tb /\ tu2 = tu /\ tu <= tbc
        BY <2>2, <2>3, <2>6, <3>2
      <4>2. assured2[d] + tb2 <= m /\ assured2[d] <= Reserved'
        BY <1>7, <1>14, <2>2, <2>5, <4>1
      <4>3. CASE k = 0
        BY <1>9, <1>14, <2>5, <4>1, <4>2, <4>3
      <4>4. CASE k > 0
        <5>1. k + mn <= tailIndex
          BY <1>2, <1>5a, <1>7, <4>4
        <5>2. Reserved' + tu2 <= tailIndex
          BY <1>2, <1>5a, <1>7, <1>14, <1>21, <1>22, <2>3, <4>1, <5>1
        <5> QED BY <1>9, <4>2, <5>2
      <4> QED BY <1>7, <4>3, <4>4
    <3> QED BY <2>2, <3>1, <3>2
  <2>8. rank[d] < dequeueOptimisticCount' /\ \A x \in Rechecking' : x # d => rank[d] # rank[x]
    BY <1>9, <1>20, <2>5
  <2> QED BY <2>4, <2>7, <2>8 DEF tb2, tu2
<1>27. (\E x, y : ClaimOrder(x, y))'
  BY <1>26
<1> QED BY <1>11, <1>15, <1>16, <1>23, <1>27, Zenon DEF CounterInv

\* dequeueOvercommit.fetch_add() (concurrentqueue.h:2636, :2818) gives back what the claim
\* did not find, and headIndex.fetch_add() (:2584, :2823) takes what it did.
LEMMA SettledClaims ==
  ASSUME CounterInv, CounterType, cons \in [Consumers -> ConsumerType], NEW c \in Consumers,
         Overcommit(c) \/ ClaimHead(c)
  PROVE  CounterInv'
<1>1. \A d \in Consumers : ClaimType(cons[d])
  BY DEF CounterInv
<1>2. /\ Total(Kept) \in Nat /\ Total(Wanted) \in Nat /\ Total(Owing) \in Nat
      /\ Wanted \in [Consumers -> Nat]
  BY <1>1, SharesType
<1>3. cons[c] \in ConsumerType /\ cons[c].desired \in Int /\ cons[c].stop \in Int
  BY ConsumerFields
<1>3a. /\ dequeueOptimisticCount \in Int /\ dequeueOvercommit \in Int /\ headIndex \in Int
       /\ tailIndex \in Nat
  BY DEF CounterType
<1> DEFINE stop == cons[c].stop
           owed == cons[c].desired - stop
<1>4. ASSUME NEW r, Becomes(c, r), ClaimType(r), WantedOf(r) = 0, WantedOf(cons[c]) = 0,
             r.pc # "recheck", cons[c].pc # "recheck", r.pc \notin {"check", "claim"},
             KeptOf(r) \in Int, KeptOf(cons[c]) \in Int, OwingOf(r) \in Int,
             OwingOf(cons[c]) \in Int,
             UNCHANGED <<dequeueOptimisticCount, tailIndex>>,
             dequeueOvercommit' = dequeueOvercommit + OwingOf(cons[c]) - OwingOf(r),
             OwingOf(cons[c]) >= OwingOf(r),
             headIndex' = headIndex + KeptOf(cons[c]) - KeptOf(r)
      PROVE  CounterInv'
  <2>1. /\ \A d \in Consumers : ClaimType(cons'[d])
        /\ Wanted' \in [Consumers -> Nat]
        /\ Total(Kept)' = Total(Kept) + KeptOf(r) - KeptOf(cons[c])
        /\ Total(Wanted)' = Total(Wanted) + WantedOf(r) - WantedOf(cons[c])
        /\ Total(Owing)' = Total(Owing) + OwingOf(r) - OwingOf(cons[c])
        /\ \A d \in Consumers : d # c => Wanted'[d] = Wanted[d]
        /\ Wanted'[c] = WantedOf(r) /\ Wanted[c] = WantedOf(cons[c])
        /\ \A d \in Consumers : d # c => (d \in Rechecking' <=> d \in Rechecking)
        /\ c \in Rechecking' <=> r.pc = "recheck"
    BY <1>1, <1>4, SharesChange
  <2>2. Total(Wanted)' = Total(Wanted)
    BY <1>2, <1>4, <2>1
  <2>3. Wanted' = Wanted
    BY <1>2, <1>4, <2>1
  <2>4. Rechecking' = Rechecking
    BY <1>4, <2>1 DEF Rechecking
  <2>5. Reserved' = Reserved /\ Reserved \in Int
    BY <1>2, <1>3a, <1>4, <2>1 DEF Reserved
  <2>6. Balance'
    BY <1>2, <1>3a, <1>4, <2>1, <2>2, <2>5 DEF Balance, CounterInv
  <2>7. \A d \in Consumers : cons'[d].pc \in {"check", "claim"} =>
          cons'[d].overcommit <= dequeueOvercommit'
    <3> SUFFICES ASSUME NEW d \in Consumers, cons'[d].pc \in {"check", "claim"}
                 PROVE  cons'[d].overcommit <= dequeueOvercommit'
      OBVIOUS
    <3>1. d # c
      BY <1>4 DEF Becomes
    <3>2. cons'[d] = cons[d]
      BY <1>4, <3>1 DEF Becomes
    <3>3. cons[d].overcommit <= dequeueOvercommit
      BY <3>2 DEF CounterInv
    <3>4. cons[d].overcommit \in Int
      BY ConsumerFields
    <3>5. dequeueOvercommit' \in Int /\ dequeueOvercommit <= dequeueOvercommit'
      BY <1>3a, <1>4
    <3> QED BY <1>3a, <3>2, <3>3, <3>4, <3>5
  <2>8. PICK rank, assured : ClaimOrder(rank, assured)
    BY Zenon DEF CounterInv
  <2>9. \A d \in Rechecking : cons'[d].mine = cons[d].mine
    BY <1>4 DEF Becomes, Rechecking
  <2>10. \A d : Total(Before(rank, d))' = Total(Before(rank, d))
         /\ Total(Upto(rank, d))' = Total(Upto(rank, d))
    <3> TAKE d
    <3>1. Before(rank, d)' = Before(rank, d) /\ Upto(rank, d)' = Upto(rank, d)
      BY <2>3 DEF Before, Upto
    <3>2. /\ Tokens(Before(rank, d))' = Tokens(Before(rank, d))
          /\ Tokens(Upto(rank, d))' = Tokens(Upto(rank, d))
      BY <3>1 DEF Tokens
    <3> QED BY <3>2 DEF Total
  <2>11. ClaimOrder(rank, assured)'
    BY <1>4, <2>4, <2>5, <2>8, <2>9, <2>10 DEF ClaimOrder
  <2>12. (\E x, y : ClaimOrder(x, y))'
    BY <2>11
  <2>13. Reserved' <= tailIndex'
    BY <1>4, <2>5 DEF CounterInv
  <2> QED BY <2>1, <2>6, <2>7, <2>12, <2>13, Zenon DEF CounterInv
<1>5. CASE Overcommit(c)
  <2> DEFINE r == IF stop > 0 THEN [cons[c] EXCEPT !.pc = "head"] ELSE IdleConsumer
  <2>1. cons[c].pc = "overcommit" /\ UNCHANGED <<dequeueOptimisticCount, tailIndex, headIndex>>
        /\ dequeueOvercommit' = dequeueOvercommit + cons[c].desired - stop
    BY <1>5 DEF Overcommit, ConsumerAt
  <2>2. Becomes(c, r)
    BY <1>5, OvercommitBecomes
  <2>3. 0 <= stop /\ stop < cons[c].desired
    BY <1>1, <2>1 DEF ClaimType
  <2>4. /\ stop > 0 => r.pc = "head" /\ r.stop = stop
        /\ ~(stop > 0) => r.pc = "idle"
    BY <1>3 DEF ConsumerType, IdleConsumer
  <2> HIDE DEF r
  <2>5. r.pc \in {"head", "idle"} /\ (r.pc = "head" => r.stop = stop /\ stop > 0)
        /\ (r.pc = "idle" => stop = 0)
    BY <1>3, <2>3, <2>4
  <2>6. ClaimType(r) /\ WantedOf(r) = 0 /\ WantedOf(cons[c]) = 0
        /\ KeptOf(r) = stop /\ KeptOf(cons[c]) = stop /\ OwingOf(r) = 0 /\ OwingOf(cons[c]) = owed
    BY <2>1, <2>5 DEF ClaimType, WantedOf, KeptOf, OwingOf
  <2>7. r.pc # "recheck" /\ cons[c].pc # "recheck" /\ r.pc \notin {"check", "claim"}
    BY <2>1, <2>5
  <2>8. /\ dequeueOvercommit' = dequeueOvercommit + owed - 0 /\ owed >= 0 /\ owed \in Int
           /\ 0 \in Int
        /\ headIndex' = headIndex + stop - stop
    BY <1>3, <1>3a, <2>1, <2>3
  <2> QED BY <1>3, <1>4, <2>1, <2>2, <2>6, <2>7, <2>8
<1>6. CASE ClaimHead(c)
  <2> DEFINE r == [cons[c] EXCEPT !.pc = "header", !.index = headIndex, !.desired = 0,
                                  !.stop = headIndex + cons[c].stop]
  <2>1. cons[c].pc = "head" /\ UNCHANGED <<dequeueOptimisticCount, tailIndex, dequeueOvercommit>>
        /\ headIndex' = headIndex + stop
    BY <1>6 DEF ClaimHead, ConsumerAt
  <2>2. Becomes(c, r)
    BY <1>6, ClaimHeadBecomes
  <2>4. r.pc = "header"
    BY <1>3 DEF ConsumerType
  <2> HIDE DEF r
  <2>6. ClaimType(r) /\ WantedOf(r) = 0 /\ WantedOf(cons[c]) = 0
        /\ KeptOf(r) = 0 /\ KeptOf(cons[c]) = stop /\ OwingOf(r) = 0 /\ OwingOf(cons[c]) = 0
    BY <2>1, <2>4 DEF ClaimType, WantedOf, KeptOf, OwingOf
  <2>7. r.pc # "recheck" /\ cons[c].pc # "recheck" /\ r.pc \notin {"check", "claim"}
    BY <2>1, <2>4
  <2>8. /\ dequeueOvercommit' = dequeueOvercommit + 0 - 0 /\ 0 >= 0 /\ 0 \in Int
        /\ headIndex' = headIndex + stop - 0
    BY <1>3, <1>3a, <2>1
  <2> QED BY <1>3, <1>4, <2>1, <2>2, <2>6, <2>7, <2>8
<1> QED BY <1>5, <1>6

\* Before the first dequeue there are no claims.
LEMMA InitialClaims ==
  ASSUME ImplicitInit
  PROVE  CounterInv
<1>1. /\ tailIndex = ServedItems /\ headIndex = ServedItems
      /\ dequeueOptimisticCount = ServedItems /\ dequeueOvercommit = 0
      /\ cons = [c \in Consumers |-> IdleConsumer] /\ ServedItems \in Nat
  BY QueueShapeAssumption DEF ImplicitInit
<1>2. \A c \in Consumers : cons[c].pc = "idle"
  BY <1>1 DEF IdleConsumer
<1>3. \A c \in Consumers : Kept[c] = 0 /\ Wanted[c] = 0 /\ Owing[c] = 0 /\ ClaimType(cons[c])
  BY <1>2 DEF Kept, Wanted, Owing, KeptOf, WantedOf, OwingOf, ClaimType
<1>4. cons \in [Consumers -> ConsumerType]
  BY <1>1, IdleConsumerType
<1>5. Kept \in [Consumers -> Nat] /\ Wanted \in [Consumers -> Nat] /\ Owing \in [Consumers -> Nat]
  BY <1>3, <1>4, SharesType
<1>6. Total(Kept) = 0 /\ Total(Wanted) = 0 /\ Total(Owing) = 0
  BY <1>3, <1>5, TotalOfNothing
<1>7. Balance /\ Reserved <= tailIndex
  BY <1>1, <1>6 DEF Balance, Reserved
<1>8. Rechecking = {}
  BY <1>2 DEF Rechecking
<1>9. ClaimOrder([c \in Consumers |-> 0], [c \in Consumers |-> 0])
  BY <1>8 DEF ClaimOrder
<1>10. \E rank, assured : ClaimOrder(rank, assured)
  BY <1>9
<1>11. \A c \in Consumers : cons[c].pc \in {"check", "claim"}
       => cons[c].overcommit <= dequeueOvercommit
  BY <1>2
<1> QED BY <1>3, <1>7, <1>10, <1>11, Zenon DEF CounterInv

\* Every step keeps the counters in balance.
LEMMA CountersStep ==
  ASSUME QueueShape, CounterInv, [ImplicitNext]_queueVars
  PROVE  CounterInv'
<1>0. /\ HeaderInv /\ ProducerInv /\ CounterType /\ StoreType /\ PoolType /\ LocalType
      /\ cons \in [Consumers -> ConsumerType]
      /\ \A c \in Consumers : ClaimType(cons[c])
  BY DEF QueueShape, LocalType, CounterInv
<1>0a. CounterType'
  BY ShapeStep DEF QueueShape
<1>1. CASE EnqueueStep
  <2>1. UNCHANGED <<headIndex, dequeueOptimisticCount, dequeueOvercommit>> /\ UNCHANGED cons
    BY <1>1 DEF EnqueueStep, StartEnqueue, CheckRoom, InsertIndexEntry, GrowIndex, PublishIndexTail,
         RequisitionBlock, ConstructFirst, LinkBlock, FillBlocks, StoreTail, RewindIndexTail,
         ClearEntry, UndoEntry, UndoTail, GiveBlockBack, counters
  <2>2. tailIndex' = tailIndex \/ StoreTail
    BY <1>1 DEF EnqueueStep, StartEnqueue, CheckRoom, InsertIndexEntry, GrowIndex, PublishIndexTail,
         RequisitionBlock, ConstructFirst, LinkBlock, FillBlocks, RewindIndexTail,
         ClearEntry, UndoEntry, UndoTail, GiveBlockBack, counters
  <2>3. tailIndex' >= tailIndex
    <3>1. CASE tailIndex' = tailIndex
      BY <1>0, <3>1 DEF CounterType
    <3>2. CASE StoreTail
      BY <1>0, <1>0a, <3>2, StoreLocals DEF CounterType
    <3> QED BY <2>2, <3>1, <3>2
  <2> QED BY <1>0, <1>0a, <2>1, <2>3, ClaimsOutlastEnqueue
<1>2. ASSUME NEW c \in Consumers, DequeueStep(c) PROVE CounterInv'
  <2>0. cons[c] \in ConsumerType /\ ClaimType(cons[c]) /\ cons[c].desired \in Int
        /\ cons[c].stop \in Int
    BY <1>0, ConsumerFields
  <2>1. ASSUME UNCHANGED counters, NEW r, Becomes(c, r), ClaimType(r),
               r.pc \in ConsumerSteps \ {"recheck", "head", "overcommit"},
               cons[c].pc \in ConsumerSteps \ {"recheck", "head", "overcommit"},
               r.pc \in {"check", "claim"} => r.overcommit <= dequeueOvercommit
        PROVE  CounterInv'
    <3>1. /\ KeptOf(r) = 0 /\ KeptOf(cons[c]) = 0 /\ OwingOf(r) = 0 /\ OwingOf(cons[c]) = 0
          /\ cons[c].pc # "recheck" /\ r.pc # "recheck"
      BY <2>1 DEF KeptOf, OwingOf
    <3> QED BY <1>0, <2>1, <3>1, ClaimStays
  <2> DEFINE Late == {"idle", "header", "slot", "find", "take", "empty", "unlink", "recycle"}
  <2>2. ASSUME UNCHANGED counters, NEW r, Becomes(c, r), r.pc \in Late, cons[c].pc \in Late
        PROVE  CounterInv'
    <3>1. ClaimType(r)
      BY <2>2 DEF ClaimType
    <3>2. /\ r.pc \in ConsumerSteps \ {"recheck", "head", "overcommit"}
          /\ cons[c].pc \in ConsumerSteps \ {"recheck", "head", "overcommit"}
          /\ r.pc \notin {"check", "claim"}
      BY <2>2 DEF ConsumerSteps
    <3> QED BY <2>1, <2>2, <3>1, <3>2
  <2>3. AfterBlock(c).pc \in {"idle", "take"}
    BY <2>0 DEF AfterBlock, IdleConsumer, ConsumerType
  <2>4. ASSUME NEW max \in {1} \cup BulkCounts, LoadTail(c, max) PROVE CounterInv'
    <3> DEFINE r == [cons[c] EXCEPT !.pc = "load", !.tail = tailIndex, !.desired = max]
    <3>1. max \in Int /\ max > 0
      BY QueueShapeAssumption
    <3>2. Becomes(c, r)
      BY <1>0, <2>4, <3>1, LoadTailBecomes
    <3>3. r.pc = "load" /\ r.desired = max
      BY <2>0 DEF ConsumerType
    <3> HIDE DEF r
    <3>4. ClaimType(r)
      BY <3>1, <3>3 DEF ClaimType
    <3>5. cons[c].pc = "idle" /\ UNCHANGED counters
      BY <2>4 DEF LoadTail, ConsumerAt
    <3> QED BY <2>1, <3>2, <3>3, <3>4, <3>5 DEF ConsumerSteps
  <2>5. CASE LoadOvercommit(c)
    <3> DEFINE r == [cons[c] EXCEPT !.pc = "check", !.overcommit = dequeueOvercommit]
    <3>2. Becomes(c, r)
      BY <1>0, <2>5, LoadOvercommitBecomes
    <3>3. r.pc = "check" /\ r.desired = cons[c].desired /\ r.overcommit = dequeueOvercommit
      BY <2>0 DEF ConsumerType
    <3> HIDE DEF r
    <3>5. cons[c].pc = "load" /\ UNCHANGED counters
      BY <2>5 DEF LoadOvercommit, ConsumerAt
    <3>4. ClaimType(r)
      BY <2>0, <3>3, <3>5 DEF ClaimType
    <3>6. r.overcommit <= dequeueOvercommit
      BY <1>0, <3>3 DEF CounterType
    <3> QED BY <2>1, <3>2, <3>3, <3>4, <3>5, <3>6 DEF ConsumerSteps
  <2>6. CASE LooksFull(c)
    <3>5. cons[c].pc = "check" /\ UNCHANGED counters
      BY <2>6 DEF LooksFull, ConsumerAt
    <3>1. CASE Becomes(c, IdleConsumer)
      <4>1. IdleConsumer.pc = "idle"
        BY DEF IdleConsumer
      <4>2. ClaimType(IdleConsumer)
        BY <4>1 DEF ClaimType
      <4> QED BY <2>1, <3>1, <3>5, <4>1, <4>2 DEF ConsumerSteps
    <3>2. ASSUME NEW d \in Int, d > 0 \/ d = cons[c].desired,
                 Becomes(c, [cons[c] EXCEPT !.pc = "claim", !.tail = 0, !.desired = d])
          PROVE  CounterInv'
      <4> DEFINE r == [cons[c] EXCEPT !.pc = "claim", !.tail = 0, !.desired = d]
      <4>1. Becomes(c, r)
        BY <3>2
      <4>2. r.pc = "claim" /\ r.desired = d /\ r.overcommit = cons[c].overcommit
        BY <2>0 DEF ConsumerType
      <4> HIDE DEF r
      <4>3. ClaimType(r)
        BY <2>0, <3>2, <3>5, <4>2 DEF ClaimType
      <4>4. r.overcommit <= dequeueOvercommit
        BY <3>5, <4>2 DEF CounterInv
      <4> QED BY <2>1, <3>5, <4>1, <4>2, <4>3, <4>4 DEF ConsumerSteps
    <3> QED BY <1>0, <2>6, <3>1, <3>2, LooksFullBecomes
  <2>7. CASE Claim(c)
    BY <1>0, <2>7, ClaimKeepsOrder
  <2>8. CASE Recheck(c)
    BY <1>0, <2>8, RecheckKeepsOrder
  <2>9. CASE Overcommit(c) \/ ClaimHead(c)
    BY <1>0, <2>9, SettledClaims
  <2>10. CASE LoadBlockIndex(c)
    <3> DEFINE r == [cons[c] EXCEPT !.pc = "slot", !.header = blockIndex]
    <3>1. Becomes(c, r)
      BY <1>0, <2>10, LoadBlockIndexBecomes
    <3>2. r.pc = "slot" /\ cons[c].pc = "header" /\ UNCHANGED counters
      BY <2>0, <2>10 DEF ConsumerType, LoadBlockIndex, ConsumerAt
    <3> QED BY <2>2, <3>1, <3>2
  <2>11. CASE LoadIndexTail(c)
    <3> DEFINE r == [cons[c] EXCEPT !.pc = "find", !.slot = headers[cons[c].header].tail]
    <3>1. Becomes(c, r)
      BY <1>0, <2>11, LoadIndexTailBecomes
    <3>2. r.pc = "find" /\ cons[c].pc = "slot" /\ UNCHANGED counters
      BY <2>0, <2>11 DEF ConsumerType, LoadIndexTail, ConsumerAt
    <3> QED BY <2>2, <3>1, <3>2
  <2>12. CASE FindEntry(c)
    <3> DEFINE r == [cons[c] EXCEPT !.pc = "take", !.slot = FoundSlot(c)]
    <3>1. Becomes(c, r)
      BY <1>0, <2>12, FindEntryBecomes
    <3>2. r.pc = "take"
      BY <2>0 DEF ConsumerType
    <3>3. cons[c].pc = "find" /\ UNCHANGED counters
      BY <2>12 DEF FindEntry, ConsumerAt
    <3> HIDE DEF r
    <3> QED BY <2>2, <3>1, <3>2, <3>3
  <2>13. CASE TakeItems(c)
    <3> DEFINE r == [cons[c] EXCEPT !.pc = "empty", !.block = value[EntryOf(c)]]
    <3>1. Becomes(c, r)
      BY <1>0, <2>13, TakeBecomes
    <3>2. r.pc = "empty"
      BY <2>0 DEF ConsumerType
    <3>3. cons[c].pc = "take" /\ UNCHANGED counters
      BY <2>13 DEF TakeItems, ConsumerAt
    <3> HIDE DEF r
    <3> QED BY <2>2, <3>1, <3>2, <3>3
  <2>14. CASE SetEmpty(c)
    <3> DEFINE r == IF emptied[cons[c].block] + EndIndex(c) - cons[c].index = BLOCK_SIZE
                      THEN [cons[c] EXCEPT !.pc = "unlink"] ELSE AfterBlock(c)
    <3>1. Becomes(c, r)
      BY <1>0, <2>14, SetEmptyBecomes, Zenon
    <3>2. r.pc \in {"unlink", "idle", "take"}
      BY <2>0, <2>3 DEF ConsumerType
    <3>3. cons[c].pc = "empty" /\ UNCHANGED counters
      BY <2>14 DEF SetEmpty, ConsumerAt
    <3> HIDE DEF r
    <3> QED BY <2>2, <3>1, <3>2, <3>3
  <2>15. CASE UnlinkBlock(c)
    <3> DEFINE r == [cons[c] EXCEPT !.pc = "recycle"]
    <3>1. Becomes(c, r)
      BY <1>0, <2>15, UnlinkBecomes
    <3>2. r.pc = "recycle" /\ cons[c].pc = "unlink" /\ UNCHANGED counters
      BY <2>0, <2>15 DEF ConsumerType, UnlinkBlock, ConsumerAt
    <3> QED BY <2>2, <3>1, <3>2
  <2>16. CASE RecycleBlock(c)
    <3>1. Becomes(c, AfterBlock(c))
      BY <1>0, <2>16, RecycleBecomes
    <3>2. cons[c].pc = "recycle" /\ UNCHANGED counters
      BY <2>16 DEF RecycleBlock, ConsumerAt
    <3> QED BY <2>2, <2>3, <3>1, <3>2
  <2> QED BY <1>2, <2>4, <2>5, <2>6, <2>7, <2>8, <2>9, <2>10, <2>11, <2>12, <2>13, <2>14, <2>15,
             <2>16 DEF DequeueStep
<1>3. CASE UNCHANGED queueVars
  <2>1. UNCHANGED counters /\ UNCHANGED cons
    BY <1>3 DEF queueVars
  <2>2. /\ UNCHANGED <<headIndex, dequeueOptimisticCount, dequeueOvercommit>>
        /\ tailIndex' = tailIndex
    BY <2>1 DEF counters
  <2>3. tailIndex' >= tailIndex
    BY <1>0, <2>2 DEF CounterType
  <2> QED BY <1>0, <1>0a, <2>1, <2>2, <2>3, ClaimsOutlastEnqueue
<1> QED BY <1>1, <1>2, <1>3 DEF ImplicitNext

-----------------------------------------------------------------------------
(* The claims of consumers that work on their items *)

Working == {"header", "slot", "find", "take", "empty", "unlink", "recycle"}
EndOf(r) == Least(r.stop, Base(r.index) + BLOCK_SIZE)

\* What a consumer has claimed and not counted in its block, and what it has not moved out.
Owed(r) ==
  IF r.pc \notin Working THEN {}
  ELSE IF r.pc \in {"unlink", "recycle"} THEN EndOf(r) .. r.stop - 1 ELSE r.index .. r.stop - 1
Untaken(r) ==
  IF r.pc \notin Working THEN {}
  ELSE IF r.pc \in {"empty", "unlink", "recycle"} THEN EndOf(r) .. r.stop - 1
  ELSE r.index .. r.stop - 1

ClaimIn(r, bound) == 0 <= r.index /\ r.index < r.stop /\ r.stop <= bound
Apart(r, q) == r.stop <= q.index \/ q.stop <= r.index

\* Every consumer has its own stretch below the head.
ClaimsApart ==
  /\ headIndex >= 0
  /\ \A c \in Consumers : cons[c].pc \in Working => ClaimIn(cons[c], headIndex)
  /\ \A c, d \in Consumers :
       c # d /\ cons[c].pc \in Working /\ cons[d].pc \in Working => Apart(cons[c], cons[d])

Finished == {i \in 0 .. headIndex - 1 : \A c \in Consumers : i \notin Owed(cons[c])}
Taken == {i \in 0 .. headIndex - 1 : \A c \in Consumers : i \notin Untaken(cons[c])}

\* A consumer's next place: past its items in the block it is at.
LEMMA EndIs ==
  ASSUME NEW r \in ConsumerType, r.index < r.stop
  PROVE  /\ r.index \in Int /\ r.stop \in Int /\ EndOf(r) \in Int
         /\ r.index < EndOf(r) /\ EndOf(r) <= r.stop
         /\ EndOf(r) <= BLOCK_SIZE * Num(r.index) + BLOCK_SIZE
         /\ EndOf(r) = r.stop \/ EndOf(r) = BLOCK_SIZE * Num(r.index) + BLOCK_SIZE
         /\ Num(r.index) \in Int /\ BLOCK_SIZE * Num(r.index) \in Int
         /\ BLOCK_SIZE * Num(r.index) <= r.index
<1>1. r.index \in Int /\ r.stop \in Int
  BY ConsumerFields
<1>2. BLOCK_SIZE \in Nat /\ BLOCK_SIZE > 1
  BY QueueShapeAssumption
<1>3. /\ Slot(r.index) \in 0 .. BLOCK_SIZE - 1
      /\ r.index = BLOCK_SIZE * Num(r.index) + Slot(r.index)
      /\ Base(r.index) = BLOCK_SIZE * Num(r.index) /\ Num(r.index) \in Int
  BY <1>1, Place
<1>4. BLOCK_SIZE * Num(r.index) \in Int
  BY <1>2, <1>3
<1> DEFINE b == BLOCK_SIZE * Num(r.index)
           s == Slot(r.index)
<1>5. s \in 0 .. BLOCK_SIZE - 1 /\ r.index = b + s /\ b \in Int
  BY <1>3, <1>4
<1>6. EndOf(r) = IF r.stop < b + BLOCK_SIZE THEN r.stop ELSE b + BLOCK_SIZE
  BY <1>3 DEF EndOf, Least
<1> HIDE DEF b, s
<1>7. /\ EndOf(r) \in Int /\ r.index < EndOf(r) /\ EndOf(r) <= r.stop /\ EndOf(r) <= b + BLOCK_SIZE
      /\ (EndOf(r) = r.stop \/ EndOf(r) = b + BLOCK_SIZE) /\ b <= r.index
  BY <1>1, <1>2, <1>5, <1>6
<1> QED BY <1>1, <1>3, <1>4, <1>7 DEF b

\* The end of a consumer's items in its block, as a function of its locals.
LEMMA EndOfConsumer ==
  ASSUME NEW c \in Consumers
  PROVE  EndIndex(c) = EndOf(cons[c])
  BY DEF EndIndex, EndOf

\* What is owed or not moved out lies in the claim.
LEMMA OwedInClaim ==
  ASSUME NEW r \in ConsumerType, r.pc \in Working => r.index < r.stop
  PROVE  /\ Owed(r) \subseteq r.index .. r.stop - 1
         /\ Untaken(r) \subseteq r.index .. r.stop - 1
         /\ Untaken(r) \subseteq Owed(r)
         /\ r.pc \notin Working => Owed(r) = {} /\ Untaken(r) = {}
<1>1. CASE r.pc \notin Working
  BY <1>1 DEF Owed, Untaken
<1>2. CASE r.pc \in Working
  <2>1. r.index \in Int /\ r.stop \in Int /\ EndOf(r) \in Int /\ r.index < EndOf(r)
    BY <1>2, EndIs
  <2>2. EndOf(r) .. r.stop - 1 \subseteq r.index .. r.stop - 1
    BY <2>1
  <2> QED BY <1>2, <2>2 DEF Owed, Untaken
<1> QED BY <1>1, <1>2

\* The claims stay apart when a consumer goes on in its own or lets it go.
LEMMA ApartKept ==
  ASSUME ClaimsApart, cons \in [Consumers -> ConsumerType], headIndex \in Int, headIndex' \in Int,
         headIndex' >= headIndex, NEW c \in Consumers, NEW r, Becomes(c, r),
         r.pc \in Working => /\ cons[c].pc \in Working
                             /\ r.stop = cons[c].stop /\ cons[c].index <= r.index
                             /\ r.index < r.stop
  PROVE  ClaimsApart'
<1>1. /\ r \in ConsumerType /\ cons'[c] = r /\ \A d \in Consumers : d # c => cons'[d] = cons[d]
  BY DEF Becomes
<1>2. \A d \in Consumers : cons[d].index \in Int /\ cons[d].stop \in Int
  BY ConsumerFields
<1>3. r.index \in Int /\ r.stop \in Int
  BY <1>1, ConsumerFields
<1>4. \A d \in Consumers : cons'[d].pc \in Working => ClaimIn(cons'[d], headIndex')
  <2> SUFFICES ASSUME NEW d \in Consumers, cons'[d].pc \in Working
               PROVE  ClaimIn(cons'[d], headIndex')
    OBVIOUS
  <2>1. CASE d = c
    <3>1. ClaimIn(cons[c], headIndex) /\ r.pc \in Working
      BY <1>1, <2>1 DEF ClaimsApart
    <3> QED BY <1>1, <1>2, <1>3, <2>1, <3>1 DEF ClaimIn
  <2>2. CASE d # c
    <3>1. ClaimIn(cons[d], headIndex) /\ cons'[d] = cons[d]
      BY <1>1, <2>2 DEF ClaimsApart
    <3> QED BY <1>2, <3>1 DEF ClaimIn
  <2> QED BY <2>1, <2>2
<1>5. ASSUME NEW d \in Consumers, NEW x \in Consumers, d # x, cons'[d].pc \in Working,
             cons'[x].pc \in Working
      PROVE  Apart(cons'[d], cons'[x])
  <2>1. \A y \in Consumers : cons'[y].pc \in Working =>
          /\ cons[y].pc \in Working /\ cons'[y].stop = cons[y].stop
          /\ cons[y].index <= cons'[y].index /\ cons'[y].index \in Int
    BY <1>1, <1>2, <1>3
  <2>2. Apart(cons[d], cons[x])
    BY <1>5, <2>1 DEF ClaimsApart
  <2> QED BY <1>2, <1>5, <2>1, <2>2 DEF Apart
<1> QED BY <1>4, <1>5 DEF ClaimsApart

\* headIndex.fetch_add() gives a consumer what lies above all claims.
LEMMA ApartClaimed ==
  ASSUME ClaimsApart, cons \in [Consumers -> ConsumerType], headIndex \in Int, NEW c \in Consumers,
         ClaimType(cons[c]), ClaimHead(c)
  PROVE  /\ ClaimsApart' /\ Finished' = Finished /\ Taken' = Taken
<1> DEFINE stop == cons[c].stop
           r == [cons[c] EXCEPT !.pc = "header", !.index = headIndex, !.desired = 0,
                                !.stop = headIndex + stop]
<1>0. CounterType => Becomes(c, r)
  BY ClaimHeadBecomes
<1>1. cons[c] \in ConsumerType /\ cons[c].pc = "head" /\ stop \in Int /\ stop > 0
  BY ConsumerFields DEF ClaimHead, ConsumerAt, ClaimType
<1>2. r.pc = "header" /\ r.index = headIndex /\ r.stop = headIndex + stop
  BY <1>1 DEF ConsumerType
<1>3. cons' = [cons EXCEPT ![c] = r] /\ headIndex' = headIndex + stop
  BY DEF ClaimHead
<1> HIDE DEF r
<1>4. cons'[c] = r /\ \A d \in Consumers : d # c => cons'[d] = cons[d]
  BY <1>3
<1>5. \A d \in Consumers : cons[d].index \in Int /\ cons[d].stop \in Int
  BY ConsumerFields
<1>6. \A d \in Consumers : cons'[d].pc \in Working => ClaimIn(cons'[d], headIndex')
  <2> SUFFICES ASSUME NEW d \in Consumers, cons'[d].pc \in Working
               PROVE  ClaimIn(cons'[d], headIndex')
    OBVIOUS
  <2>1. CASE d = c
    BY <1>1, <1>2, <1>3, <1>4, <2>1 DEF ClaimIn, ClaimsApart
  <2>2. CASE d # c
    <3>1. ClaimIn(cons[d], headIndex) /\ cons'[d] = cons[d]
      BY <1>4, <2>2 DEF ClaimsApart
    <3> QED BY <1>1, <1>3, <1>5, <3>1 DEF ClaimIn
  <2> QED BY <2>1, <2>2
<1>7. ASSUME NEW d \in Consumers, NEW x \in Consumers, d # x, cons'[d].pc \in Working,
             cons'[x].pc \in Working
      PROVE  Apart(cons'[d], cons'[x])
  <2>1. CASE d = c
    <3>1. ClaimIn(cons[x], headIndex) /\ cons'[x] = cons[x]
      BY <1>4, <1>7, <2>1 DEF ClaimsApart
    <3> QED BY <1>2, <1>4, <2>1, <3>1 DEF Apart, ClaimIn
  <2>2. CASE x = c
    <3>1. ClaimIn(cons[d], headIndex) /\ cons'[d] = cons[d]
      BY <1>4, <1>7, <2>2 DEF ClaimsApart
    <3> QED BY <1>2, <1>4, <2>2, <3>1 DEF Apart, ClaimIn
  <2>3. CASE d # c /\ x # c
    BY <1>4, <1>7, <2>3 DEF ClaimsApart
  <2> QED BY <2>1, <2>2, <2>3
<1>8. headIndex >= 0 /\ headIndex' >= 0
  BY <1>1, <1>3 DEF ClaimsApart
<1>9. ClaimsApart'
  BY <1>6, <1>7, <1>8 DEF ClaimsApart
<1>10. Owed(r) = headIndex .. headIndex' - 1 /\ Untaken(r) = headIndex .. headIndex' - 1
  BY <1>2, <1>3 DEF Owed, Untaken, Working
<1>11. Owed(cons[c]) = {} /\ Untaken(cons[c]) = {}
  BY <1>1 DEF Owed, Untaken, Working
<1>12. Finished' = Finished
  <2>1. \A i \in 0 .. headIndex' - 1 : i \in 0 .. headIndex - 1 \/ i \in headIndex .. headIndex' - 1
    BY <1>8
  <2>2. \A i \in 0 .. headIndex - 1 : i \in 0 .. headIndex' - 1
        /\ i \notin headIndex .. headIndex' - 1
    BY <1>1, <1>3, <1>8
  <2>3. \A i : (\A d \in Consumers : i \notin Owed(cons'[d])) <=>
                (i \notin headIndex .. headIndex' - 1 /\ \A d \in Consumers : i \notin Owed(cons[d]))
    BY <1>4, <1>10, <1>11
  <2> QED BY <2>1, <2>2, <2>3 DEF Finished
<1>13. Taken' = Taken
  <2>1. \A i \in 0 .. headIndex' - 1 : i \in 0 .. headIndex - 1 \/ i \in headIndex .. headIndex' - 1
    BY <1>8
  <2>2. \A i \in 0 .. headIndex - 1 : i \in 0 .. headIndex' - 1
        /\ i \notin headIndex .. headIndex' - 1
    BY <1>1, <1>3, <1>8
  <2>3. \A i : (\A d \in Consumers : i \notin Untaken(cons'[d])) <=>
                (i \notin headIndex .. headIndex' - 1 /\ \A d \in Consumers : i \notin Untaken(cons[d]))
    BY <1>4, <1>10, <1>11
  <2> QED BY <2>1, <2>2, <2>3 DEF Taken
<1> QED BY <1>9, <1>12, <1>13

\* What is finished or moved out changes with the consumer that steps only.
LEMMA FinishedSame ==
  ASSUME NEW c \in Consumers, NEW r, Becomes(c, r), UNCHANGED headIndex
  PROVE  /\ Owed(r) = Owed(cons[c]) => Finished' = Finished
         /\ Untaken(r) = Untaken(cons[c]) => Taken' = Taken
<1>1. cons'[c] = r /\ \A d \in Consumers : d # c => cons'[d] = cons[d]
  BY DEF Becomes
<1>2. ASSUME Owed(r) = Owed(cons[c]) PROVE Finished' = Finished
  <2>1. \A d \in Consumers : Owed(cons'[d]) = Owed(cons[d])
    BY <1>1, <1>2
  <2> QED BY <2>1 DEF Finished
<1>3. ASSUME Untaken(r) = Untaken(cons[c]) PROVE Taken' = Taken
  <2>1. \A d \in Consumers : Untaken(cons'[d]) = Untaken(cons[d])
    BY <1>1, <1>3
  <2> QED BY <2>1 DEF Taken
<1> QED BY <1>2, <1>3

\* A consumer that is done with its items of a block adds them to what is finished, and
\* so does one that moves them out to what is taken.
LEMMA FinishedMore ==
  ASSUME ClaimsApart, cons \in [Consumers -> ConsumerType], headIndex \in Int, NEW c \in Consumers,
         NEW r, Becomes(c, r), UNCHANGED headIndex, cons[c].pc \in Working
  PROVE  LET done == cons[c].index .. EndOf(cons[c]) - 1
             left == EndOf(cons[c]) .. cons[c].stop - 1
             all == cons[c].index .. cons[c].stop - 1
         IN /\ Owed(cons[c]) = all /\ Owed(r) = left =>
                 Finished' = Finished \cup done /\ Finished \cap done = {}
            /\ Untaken(cons[c]) = all /\ Untaken(r) = left =>
                 Taken' = Taken \cup done /\ Taken \cap done = {}
<1> DEFINE done == cons[c].index .. EndOf(cons[c]) - 1
           left == EndOf(cons[c]) .. cons[c].stop - 1
           all == cons[c].index .. cons[c].stop - 1
<1>1. cons'[c] = r /\ \A d \in Consumers : d # c => cons'[d] = cons[d]
  BY DEF Becomes
<1>2. cons[c] \in ConsumerType /\ ClaimIn(cons[c], headIndex)
  BY DEF ClaimsApart
<1>3. /\ cons[c].index \in Int /\ cons[c].stop \in Int /\ EndOf(cons[c]) \in Int
      /\ cons[c].index < EndOf(cons[c]) /\ EndOf(cons[c]) <= cons[c].stop
  BY <1>2, EndIs DEF ClaimIn
<1>4. all = done \cup left /\ done \cap left = {} /\ all \subseteq 0 .. headIndex - 1
  BY <1>2, <1>3 DEF ClaimIn
<1>5. ASSUME NEW d \in Consumers, d # c
      PROVE  Owed(cons[d]) \cap all = {} /\ Untaken(cons[d]) \cap all = {}
  <2>1. CASE cons[d].pc \notin Working
    BY <2>1, OwedInClaim
  <2>2. CASE cons[d].pc \in Working
    <3>1. Apart(cons[c], cons[d]) /\ ClaimIn(cons[d], headIndex)
      BY <1>5, <2>2 DEF ClaimsApart
    <3>2. cons[d] \in ConsumerType /\ cons[d].index \in Int /\ cons[d].stop \in Int
      BY ConsumerFields
    <3>3. (cons[d].index .. cons[d].stop - 1) \cap all = {}
      BY <1>3, <3>1, <3>2 DEF Apart
    <3>4. cons[d].index < cons[d].stop
      BY <3>1 DEF ClaimIn
    <3>5. /\ Owed(cons[d]) \subseteq cons[d].index .. cons[d].stop - 1
          /\ Untaken(cons[d]) \subseteq cons[d].index .. cons[d].stop - 1
      BY <3>2, <3>4, OwedInClaim
    <3> QED BY <3>3, <3>5
  <2> QED BY <2>1, <2>2
<1> HIDE DEF done, left, all
<1>6. ASSUME Owed(cons[c]) = all, Owed(r) = left
      PROVE  Finished' = Finished \cup done /\ Finished \cap done = {}
  <2>1. \A i \in done : i \in 0 .. headIndex - 1 /\ \A d \in Consumers : i \notin Owed(cons'[d])
    BY <1>1, <1>4, <1>5, <1>6
  <2>2. \A i : i \notin done =>
          ((\A d \in Consumers : i \notin Owed(cons'[d])) <=> (\A d \in Consumers : i \notin Owed(cons[d])))
    BY <1>1, <1>4, <1>6
  <2>3. \A i \in Finished : i \notin done
    BY <1>4, <1>6 DEF Finished
  <2> QED BY <2>1, <2>2, <2>3 DEF Finished
<1>7. ASSUME Untaken(cons[c]) = all, Untaken(r) = left
      PROVE  Taken' = Taken \cup done /\ Taken \cap done = {}
  <2>1. \A i \in done : i \in 0 .. headIndex - 1 /\ \A d \in Consumers : i \notin Untaken(cons'[d])
    BY <1>1, <1>4, <1>5, <1>7
  <2>2. \A i : i \notin done =>
          ((\A d \in Consumers : i \notin Untaken(cons'[d])) <=> (\A d \in Consumers : i \notin Untaken(cons[d])))
    BY <1>1, <1>4, <1>7
  <2>3. \A i \in Taken : i \notin done
    BY <1>4, <1>7 DEF Taken
  <2> QED BY <2>1, <2>2, <2>3 DEF Taken
<1> QED BY <1>6, <1>7 DEF done, left, all

\* A consumer that has not taken from the head yet, or goes back without, has no claim.
LEMMA QuietClaims ==
  ASSUME QueueShape, ClaimsApart, NEW c \in Consumers, DequeueStep(c),
         cons[c].pc \notin Working \cup {"head"}
  PROVE  /\ \E r : Becomes(c, r) /\ r.pc \notin Working
         /\ UNCHANGED <<tailIndex, headIndex, blockIndex, headers, key, value, elements, emptied,
                        poolVars, prod, delivered>>
         /\ ClaimsApart' /\ Finished' = Finished /\ Taken' = Taken
<1>0. cons \in [Consumers -> ConsumerType] /\ CounterType /\ headIndex \in Int
  BY DEF QueueShape, LocalType, CounterType
<1>1. cons[c] \in ConsumerType
  BY <1>0
<1>2. PICK r : /\ Becomes(c, r) /\ r.pc \notin Working
               /\ UNCHANGED <<tailIndex, headIndex, blockIndex, headers, key, value, elements,
                              emptied, poolVars, prod, delivered>>
  <2>1. CASE \E max \in {1} \cup BulkCounts : LoadTail(c, max)
    <3>1. PICK max \in {1} \cup BulkCounts : LoadTail(c, max)
      BY <2>1
    <3>2. max \in Int
      BY <3>1, QueueShapeAssumption
    <3> DEFINE r == [cons[c] EXCEPT !.pc = "load", !.tail = tailIndex, !.desired = max]
    <3>3. Becomes(c, r)
      BY <1>0, <3>1, <3>2, LoadTailBecomes
    <3>4. r.pc = "load"
      BY <1>1 DEF ConsumerType
    <3>5. UNCHANGED <<tailIndex, headIndex, blockIndex, headers, key, value, elements,
                      emptied, poolVars, prod, delivered>>
      BY <3>1 DEF LoadTail, counters, indexVars, blockVars
    <3> HIDE DEF r
    <3> QED BY <3>3, <3>4, <3>5 DEF Working
  <2>2. CASE LoadOvercommit(c)
    <3> DEFINE r == [cons[c] EXCEPT !.pc = "check", !.overcommit = dequeueOvercommit]
    <3>3. Becomes(c, r)
      BY <1>0, <2>2, LoadOvercommitBecomes
    <3>4. r.pc = "check"
      BY <1>1 DEF ConsumerType
    <3>5. UNCHANGED <<tailIndex, headIndex, blockIndex, headers, key, value, elements,
                      emptied, poolVars, prod, delivered>>
      BY <2>2 DEF LoadOvercommit, counters, indexVars, blockVars
    <3> HIDE DEF r
    <3> QED BY <3>3, <3>4, <3>5 DEF Working
  <2>3. CASE LooksFull(c)
    <3>1. IdleConsumer.pc = "idle"
      BY DEF IdleConsumer
    <3>2. \A d \in Int : [cons[c] EXCEPT !.pc = "claim", !.tail = 0, !.desired = d].pc = "claim"
      BY <1>1 DEF ConsumerType
    <3>3. \E r : Becomes(c, r) /\ r.pc \in {"idle", "claim"}
      BY <1>0, <2>3, <3>1, <3>2, LooksFullBecomes
    <3>5. UNCHANGED <<tailIndex, headIndex, blockIndex, headers, key, value, elements,
                      emptied, poolVars, prod, delivered>>
      BY <2>3 DEF LooksFull, counters, indexVars, blockVars
    <3> QED BY <3>3, <3>5 DEF Working
  <2>4. CASE Claim(c)
    <3> DEFINE r == [cons[c] EXCEPT !.pc = "recheck", !.overcommit = 0,
                                    !.mine = dequeueOptimisticCount - cons[c].overcommit]
    <3>3. Becomes(c, r)
      BY <1>0, <2>4, ClaimBecomes
    <3>4. r.pc = "recheck"
      BY <1>1 DEF ConsumerType
    <3>5. UNCHANGED <<tailIndex, headIndex, blockIndex, headers, key, value, elements,
                      emptied, poolVars, prod, delivered>>
      BY <2>4 DEF Claim, indexVars, blockVars
    <3> HIDE DEF r
    <3> QED BY <3>3, <3>4, <3>5 DEF Working
  <2>5. CASE Recheck(c)
    <3> DEFINE r == [cons[c] EXCEPT
                       !.mine = 0, !.stop = IF Actual(c) > 0 THEN Actual(c) ELSE 0,
                       !.pc = IF Actual(c) = cons[c].desired THEN "head" ELSE "overcommit"]
    <3>3. Becomes(c, r)
      BY <1>0, <2>5, RecheckBecomes
    <3>4. r.pc \in {"head", "overcommit"}
      BY <1>1 DEF ConsumerType
    <3>5. UNCHANGED <<tailIndex, headIndex, blockIndex, headers, key, value, elements,
                      emptied, poolVars, prod, delivered>>
      BY <2>5 DEF Recheck, counters, indexVars, blockVars
    <3> HIDE DEF r
    <3> QED BY <3>3, <3>4, <3>5 DEF Working
  <2>6. CASE Overcommit(c)
    <3>1. Becomes(c, IF cons[c].stop > 0 THEN [cons[c] EXCEPT !.pc = "head"] ELSE IdleConsumer)
      BY <1>0, <2>6, OvercommitBecomes
    <3>2. [cons[c] EXCEPT !.pc = "head"].pc = "head" /\ IdleConsumer.pc = "idle"
      BY <1>1 DEF ConsumerType, IdleConsumer
    <3>3. \E r : Becomes(c, r) /\ r.pc \in {"idle", "head"}
      BY <3>1, <3>2, Zenon
    <3>5. UNCHANGED <<tailIndex, headIndex, blockIndex, headers, key, value, elements,
                      emptied, poolVars, prod, delivered>>
      BY <2>6 DEF Overcommit, indexVars, blockVars
    <3> QED BY <3>3, <3>5 DEF Working
  <2> QED
    BY <2>1, <2>2, <2>3, <2>4, <2>5, <2>6
    DEF DequeueStep, Working, ClaimHead, LoadBlockIndex, LoadIndexTail, FindEntry, TakeItems,
        SetEmpty, UnlinkBlock, RecycleBlock, ConsumerAt
<1>3. ClaimsApart'
  BY <1>0, <1>2, ApartKept
<1>4. Owed(r) = {} /\ Untaken(r) = {} /\ Owed(cons[c]) = {} /\ Untaken(cons[c]) = {}
  BY <1>2 DEF Owed, Untaken
<1>5. Finished' = Finished /\ Taken' = Taken
  BY <1>2, <1>4, FinishedSame
<1> QED BY <1>2, <1>3, <1>5

\* What is left when a consumer goes on after a block.
LEMMA AfterBlockOwed ==
  ASSUME LocalType, ClaimsApart, NEW c \in Consumers, cons[c].pc \in Working
  PROVE  /\ Owed(AfterBlock(c)) = EndOf(cons[c]) .. cons[c].stop - 1
         /\ Untaken(AfterBlock(c)) = EndOf(cons[c]) .. cons[c].stop - 1
         /\ AfterBlock(c).pc \in Working =>
              /\ AfterBlock(c).pc = "take" /\ AfterBlock(c).stop = cons[c].stop
              /\ AfterBlock(c).index = EndOf(cons[c]) /\ EndOf(cons[c]) < cons[c].stop
              /\ cons[c].index < EndOf(cons[c])
              /\ AfterBlock(c).header = cons[c].header
              /\ AfterBlock(c).slot =
                   ((cons[c].slot + 1) % headers[cons[c].header].capacity)
<1>1. cons[c] \in ConsumerType /\ cons[c].index < cons[c].stop /\ EndIndex(c) = EndOf(cons[c])
  BY EndOfConsumer DEF LocalType, ClaimsApart, ClaimIn
<1>2. /\ cons[c].index \in Int /\ cons[c].stop \in Int /\ EndOf(cons[c]) \in Int
      /\ cons[c].index < EndOf(cons[c]) /\ EndOf(cons[c]) <= cons[c].stop
  BY <1>1, EndIs
<1>3. CASE EndIndex(c) = cons[c].stop
  <2>1. AfterBlock(c) = IdleConsumer /\ IdleConsumer.pc = "idle"
    BY <1>3 DEF AfterBlock, IdleConsumer
  <2>2. EndOf(cons[c]) .. cons[c].stop - 1 = {}
    BY <1>1, <1>2, <1>3
  <2> QED BY <2>1, <2>2 DEF Owed, Untaken, Working
<1>4. CASE EndIndex(c) # cons[c].stop
  <2> DEFINE r == AfterBlock(c)
  <2>1. /\ r.pc = "take" /\ r.index = EndOf(cons[c]) /\ r.stop = cons[c].stop
        /\ r.header = cons[c].header
        /\ r.slot = ((cons[c].slot + 1) % headers[cons[c].header].capacity)
    BY <1>1, <1>4 DEF AfterBlock, ConsumerType
  <2>2. EndOf(cons[c]) < cons[c].stop
    BY <1>1, <1>2, <1>4
  <2> HIDE DEF r
  <2>3. Owed(r) = EndOf(cons[c]) .. cons[c].stop - 1
        /\ Untaken(r) = EndOf(cons[c]) .. cons[c].stop - 1
    BY <2>1 DEF Owed, Untaken, Working
  <2> QED BY <1>2, <2>1, <2>2, <2>3 DEF r
<1> QED BY <1>3, <1>4

\* Looking up an entry (concurrentqueue.h:2976-2985) changes no claim, nor does the
\* unlinking of a block.
LEMMA LookupClaims ==
  ASSUME QueueShape, ClaimsApart, NEW c \in Consumers,
         LoadBlockIndex(c) \/ LoadIndexTail(c) \/ FindEntry(c) \/ UnlinkBlock(c)
  PROVE  ClaimsApart' /\ Finished' = Finished /\ Taken' = Taken
<1>0. cons \in [Consumers -> ConsumerType] /\ LocalType /\ StoreType /\ HeaderInv
      /\ headIndex \in Int
  BY DEF QueueShape, LocalType, CounterType
<1>1. cons[c] \in ConsumerType /\ cons[c].pc \in Working
  BY <1>0 DEF LoadBlockIndex, LoadIndexTail, FindEntry, UnlinkBlock, ConsumerAt, Working
<1>2. cons[c].index < cons[c].stop /\ cons[c].index \in Int
  BY <1>1, ConsumerFields DEF ClaimsApart, ClaimIn
<1>3. UNCHANGED headIndex
  BY DEF LoadBlockIndex, LoadIndexTail, FindEntry, UnlinkBlock, counters
<1>4. PICK r : /\ Becomes(c, r) /\ r.pc \in Working /\ r.index = cons[c].index
               /\ r.stop = cons[c].stop
               /\ r.pc \in {"unlink", "recycle"} <=> cons[c].pc \in {"unlink", "recycle"}
               /\ r.pc # "empty" /\ cons[c].pc # "empty"
  <2>1. CASE LoadBlockIndex(c)
    <3> DEFINE r == [cons[c] EXCEPT !.pc = "slot", !.header = blockIndex]
    <3>1. Becomes(c, r)
      BY <1>0, <2>1, LoadBlockIndexBecomes
    <3>2. r.pc = "slot" /\ r.index = cons[c].index /\ r.stop = cons[c].stop /\ cons[c].pc = "header"
      BY <1>1, <2>1 DEF ConsumerType, LoadBlockIndex, ConsumerAt
    <3> HIDE DEF r
    <3> QED BY <3>1, <3>2 DEF Working
  <2>2. CASE LoadIndexTail(c)
    <3> DEFINE r == [cons[c] EXCEPT !.pc = "find", !.slot = headers[cons[c].header].tail]
    <3>1. Becomes(c, r)
      BY <1>0, <2>2, LoadIndexTailBecomes
    <3>2. r.pc = "find" /\ r.index = cons[c].index /\ r.stop = cons[c].stop /\ cons[c].pc = "slot"
      BY <1>1, <2>2 DEF ConsumerType, LoadIndexTail, ConsumerAt
    <3> HIDE DEF r
    <3> QED BY <3>1, <3>2 DEF Working
  <2>3. CASE FindEntry(c)
    <3> DEFINE r == [cons[c] EXCEPT !.pc = "take", !.slot = FoundSlot(c)]
    <3>1. Becomes(c, r)
      BY <1>0, <2>3, FindEntryBecomes
    <3>2. r.pc = "take" /\ r.index = cons[c].index /\ r.stop = cons[c].stop /\ cons[c].pc = "find"
      BY <1>1, <2>3 DEF ConsumerType, FindEntry, ConsumerAt
    <3> HIDE DEF r
    <3> QED BY <3>1, <3>2 DEF Working
  <2>4. CASE UnlinkBlock(c)
    <3> DEFINE r == [cons[c] EXCEPT !.pc = "recycle"]
    <3>1. Becomes(c, r)
      BY <1>0, <2>4, UnlinkBecomes
    <3>2. r.pc = "recycle" /\ r.index = cons[c].index /\ r.stop = cons[c].stop
          /\ cons[c].pc = "unlink"
      BY <1>1, <2>4 DEF ConsumerType, UnlinkBlock, ConsumerAt
    <3> HIDE DEF r
    <3> QED BY <3>1, <3>2 DEF Working
  <2> QED BY <2>1, <2>2, <2>3, <2>4
<1>5. ClaimsApart'
  BY <1>0, <1>1, <1>2, <1>3, <1>4, ApartKept
<1>6. EndOf(r) = EndOf(cons[c])
  BY <1>4 DEF EndOf
<1>7. Owed(r) = Owed(cons[c]) /\ Untaken(r) = Untaken(cons[c])
  BY <1>1, <1>4, <1>6 DEF Owed, Untaken
<1> QED BY <1>3, <1>4, <1>5, <1>7, FinishedSame

\* The items of a consumer are moved out (concurrentqueue.h:2590-2619, :2834-2878).
LEMMA TakeClaims ==
  ASSUME QueueShape, ClaimsApart, NEW c \in Consumers, TakeItems(c)
  PROVE  /\ ClaimsApart' /\ Finished' = Finished
         /\ Taken' = Taken \cup cons[c].index .. EndOf(cons[c]) - 1
         /\ Taken \cap (cons[c].index .. EndOf(cons[c]) - 1) = {}
<1>0. /\ cons \in [Consumers -> ConsumerType] /\ LocalType /\ StoreType /\ HeaderInv
      /\ headIndex \in Int
  BY DEF QueueShape, LocalType, CounterType
<1>1. cons[c] \in ConsumerType /\ cons[c].pc = "take" /\ UNCHANGED headIndex
  BY <1>0 DEF TakeItems, ConsumerAt, counters
<1>2. cons[c].index < cons[c].stop /\ cons[c].index \in Int
  BY <1>1, ConsumerFields DEF ClaimsApart, ClaimIn, Working
<1> DEFINE r == [cons[c] EXCEPT !.pc = "empty", !.block = value[EntryOf(c)]]
<1>3. Becomes(c, r)
  BY <1>0, TakeBecomes
<1>4. r.pc = "empty" /\ r.index = cons[c].index /\ r.stop = cons[c].stop
  BY <1>1 DEF ConsumerType
<1> HIDE DEF r
<1>5. ClaimsApart'
  BY <1>0, <1>1, <1>2, <1>3, <1>4, ApartKept DEF Working
<1>6. EndOf(r) = EndOf(cons[c])
  BY <1>4 DEF EndOf
<1>7. /\ Owed(r) = Owed(cons[c])
      /\ Untaken(r) = EndOf(cons[c]) .. cons[c].stop - 1
      /\ Untaken(cons[c]) = cons[c].index .. cons[c].stop - 1
  BY <1>1, <1>4, <1>6 DEF Owed, Untaken, Working
<1>8. Finished' = Finished
  BY <1>1, <1>3, <1>7, FinishedSame
<1>9. Taken' = Taken \cup cons[c].index .. EndOf(cons[c]) - 1
      /\ Taken \cap (cons[c].index .. EndOf(cons[c]) - 1) = {}
  BY <1>0, <1>1, <1>3, <1>7, FinishedMore DEF Working
<1> QED BY <1>5, <1>8, <1>9

\* set_empty() counts them (concurrentqueue.h:2621, :2879).
LEMMA EmptyClaims ==
  ASSUME QueueShape, ClaimsApart, NEW c \in Consumers, SetEmpty(c)
  PROVE  /\ ClaimsApart' /\ Taken' = Taken
         /\ Finished' = Finished \cup cons[c].index .. EndOf(cons[c]) - 1
         /\ Finished \cap (cons[c].index .. EndOf(cons[c]) - 1) = {}
<1>0. /\ cons \in [Consumers -> ConsumerType] /\ LocalType /\ StoreType /\ HeaderInv
      /\ headIndex \in Int
  BY DEF QueueShape, LocalType, CounterType
<1>1. cons[c] \in ConsumerType /\ cons[c].pc = "empty" /\ UNCHANGED headIndex
  BY <1>0 DEF SetEmpty, ConsumerAt, counters
<1>1a. cons[c].pc \in Working
  BY <1>1 DEF Working
<1>2. cons[c].index < cons[c].stop /\ cons[c].index \in Int
  BY <1>1, <1>1a, ConsumerFields DEF ClaimsApart, ClaimIn
<1> DEFINE u == [cons[c] EXCEPT !.pc = "unlink"]
           full == emptied[cons[c].block] + EndIndex(c) - cons[c].index = BLOCK_SIZE
<1>3. Becomes(c, IF full THEN u ELSE AfterBlock(c))
  BY <1>0, SetEmptyBecomes
<1>4. u.pc = "unlink" /\ u.index = cons[c].index /\ u.stop = cons[c].stop
  BY <1>1 DEF ConsumerType
<1> HIDE DEF u, full
<1>5. PICK r : Becomes(c, r) /\ (r = u \/ r = AfterBlock(c))
  BY <1>3, Zenon
<1>6. EndOf(u) = EndOf(cons[c])
  BY <1>4 DEF EndOf
<1>7. /\ Owed(u) = EndOf(cons[c]) .. cons[c].stop - 1
      /\ Untaken(u) = EndOf(cons[c]) .. cons[c].stop - 1
  BY <1>4, <1>6 DEF Owed, Untaken, Working
<1>8. Owed(r) = EndOf(cons[c]) .. cons[c].stop - 1
      /\ Untaken(r) = EndOf(cons[c]) .. cons[c].stop - 1
  BY <1>0, <1>1a, <1>5, <1>7, AfterBlockOwed
<1>9. /\ Owed(cons[c]) = cons[c].index .. cons[c].stop - 1
      /\ Untaken(cons[c]) = EndOf(cons[c]) .. cons[c].stop - 1
  BY <1>1 DEF Owed, Untaken, Working
<1>10. r.pc \in Working => r.stop = cons[c].stop /\ cons[c].index <= r.index /\ r.index < r.stop
  <2>1. CASE r = u
    BY <1>2, <1>4, <2>1
  <2>2. CASE r = AfterBlock(c)
    <3>1. EndOf(cons[c]) \in Int
      BY <1>1, <1>2, EndIs
    <3> QED BY <1>0, <1>1a, <1>2, <2>2, <3>1, AfterBlockOwed
  <2> QED BY <1>5, <2>1, <2>2
<1>11. ClaimsApart'
  <2>1. headIndex' \in Int /\ headIndex' >= headIndex
    BY <1>0, <1>1
  <2> QED BY <1>0, <1>1a, <1>5, <1>10, <2>1, ApartKept
<1>12. Taken' = Taken
  BY <1>1, <1>5, <1>8, <1>9, FinishedSame
<1>13. Finished' = Finished \cup cons[c].index .. EndOf(cons[c]) - 1
       /\ Finished \cap (cons[c].index .. EndOf(cons[c]) - 1) = {}
  BY <1>0, <1>1, <1>1a, <1>5, <1>8, <1>9, FinishedMore
<1> QED BY <1>11, <1>12, <1>13

\* The block goes back to a pool after its items are counted.
LEMMA RecycleClaims ==
  ASSUME QueueShape, ClaimsApart, NEW c \in Consumers, RecycleBlock(c)
  PROVE  ClaimsApart' /\ Finished' = Finished /\ Taken' = Taken
<1>0. /\ cons \in [Consumers -> ConsumerType] /\ LocalType /\ StoreType /\ HeaderInv
      /\ headIndex \in Int
  BY DEF QueueShape, LocalType, CounterType
<1>1. cons[c] \in ConsumerType /\ cons[c].pc = "recycle" /\ UNCHANGED headIndex
  BY <1>0 DEF RecycleBlock, ConsumerAt, counters
<1>1a. cons[c].pc \in Working
  BY <1>1 DEF Working
<1>2. cons[c].index < cons[c].stop /\ cons[c].index \in Int /\ EndOf(cons[c]) \in Int
  BY <1>1, <1>1a, ConsumerFields, EndIs DEF ClaimsApart, ClaimIn
<1>3. Becomes(c, AfterBlock(c))
  BY <1>0, <1>1, RecycleBecomes
<1>4. /\ Owed(cons[c]) = EndOf(cons[c]) .. cons[c].stop - 1
      /\ Untaken(cons[c]) = EndOf(cons[c]) .. cons[c].stop - 1
  BY <1>1 DEF Owed, Untaken, Working
<1>5. Finished' = Finished /\ Taken' = Taken
  BY <1>0, <1>1, <1>1a, <1>3, <1>4, AfterBlockOwed, FinishedSame
<1>6. headIndex' \in Int /\ headIndex' >= headIndex
  BY <1>0, <1>1
<1>7. AfterBlock(c).pc \in Working =>
        /\ AfterBlock(c).stop = cons[c].stop /\ cons[c].index <= AfterBlock(c).index
        /\ AfterBlock(c).index < AfterBlock(c).stop
  BY <1>0, <1>1a, <1>2, AfterBlockOwed
<1>8. ClaimsApart'
  BY <1>0, <1>1a, <1>3, <1>6, <1>7, ApartKept
<1> QED BY <1>5, <1>8

\* A step that no consumer takes changes no claim.
LEMMA ClaimsSame ==
  ASSUME UNCHANGED <<headIndex, cons>>
  PROVE  /\ ClaimsApart => ClaimsApart'
         /\ Finished' = Finished /\ Taken' = Taken
  BY DEF ClaimsApart, Finished, Taken

\* Every step keeps the claims apart.
LEMMA ClaimsStep ==
  ASSUME QueueShape, CounterInv, ClaimsApart, [ImplicitNext]_queueVars
  PROVE  ClaimsApart'
<1>1. CASE EnqueueStep
  <2>1. UNCHANGED <<headIndex, cons>>
    BY <1>1 DEF EnqueueStep, StartEnqueue, CheckRoom, InsertIndexEntry, GrowIndex,
        PublishIndexTail, RequisitionBlock, ConstructFirst, LinkBlock, FillBlocks, StoreTail,
        RewindIndexTail, ClearEntry, UndoEntry, UndoTail, GiveBlockBack, counters
  <2> QED BY <2>1, ClaimsSame
<1>2. ASSUME NEW c \in Consumers, DequeueStep(c) PROVE ClaimsApart'
  <2>1. CASE cons[c].pc \notin Working \cup {"head"}
    BY <1>2, <2>1, QuietClaims
  <2>2. CASE ClaimHead(c)
    <3>1. ClaimType(cons[c]) /\ cons \in [Consumers -> ConsumerType] /\ headIndex \in Int
      BY DEF QueueShape, LocalType, CounterType, CounterInv
    <3> QED BY <2>2, <3>1, ApartClaimed
  <2>3. CASE LoadBlockIndex(c) \/ LoadIndexTail(c) \/ FindEntry(c) \/ UnlinkBlock(c)
    BY <2>3, LookupClaims
  <2>4. CASE TakeItems(c)
    BY <2>4, TakeClaims
  <2>5. CASE SetEmpty(c)
    BY <2>5, EmptyClaims
  <2>6. CASE RecycleBlock(c)
    BY <2>6, RecycleClaims
  <2> QED
    BY <1>2, <2>1, <2>2, <2>3, <2>4, <2>5, <2>6
    DEF DequeueStep, Working, LoadTail, LoadOvercommit, LooksFull, Claim, Recheck, Overcommit,
        ConsumerAt
<1>3. CASE UNCHANGED queueVars
  <2>1. UNCHANGED <<headIndex, cons>>
    BY <1>3 DEF queueVars, counters
  <2> QED BY <2>1, ClaimsSame
<1> QED BY <1>1, <1>2, <1>3 DEF ImplicitNext

\* No consumer works on anything when the queue begins, and what came before is taken.
LEMMA InitialClaimsApart ==
  ASSUME ImplicitInit
  PROVE  ClaimsApart /\ Finished = 0 .. ServedItems - 1 /\ Taken = 0 .. ServedItems - 1
<1>1. headIndex = ServedItems /\ \A c \in Consumers : cons[c].pc = "idle"
  BY DEF ImplicitInit, IdleConsumer
<1>2. \A c \in Consumers : cons[c].pc \notin Working /\ Owed(cons[c]) = {} /\ Untaken(cons[c]) = {}
  BY <1>1 DEF Working, Owed, Untaken
<1>3. ServedItems >= 0
  BY QueueShapeAssumption
<1> QED BY <1>1, <1>2, <1>3 DEF ClaimsApart, Finished, Taken

\* The counters of dequeue() stay in balance: what was claimed optimistically is below the
\* head, promised to a consumer that will take it, or given back as overcommit; and no
\* more is promised than there is below the tail.
THEOREM CounterInvariance == ImplicitSpec => []CounterInv
<1>1. ImplicitInit => CounterInv
  BY InitialClaims
<1>2. QueueShape /\ CounterInv /\ [ImplicitNext]_queueVars => CounterInv'
  BY CountersStep
<1> QED BY <1>1, <1>2, ShapeInvariance, PTL DEF ImplicitSpec

\* Every consumer that works on items has its own stretch of them below the head: no two
\* take the same item, whatever the order in which they claim, recheck and give back.
THEOREM ClaimsInvariance == ImplicitSpec => []ClaimsApart
<1>1. ImplicitInit => ClaimsApart
  BY InitialClaimsApart
<1>2. QueueShape /\ CounterInv /\ ClaimsApart /\ [ImplicitNext]_queueVars => ClaimsApart'
  BY ClaimsStep
<1> QED BY <1>1, <1>2, ShapeInvariance, CounterInvariance, PTL DEF ImplicitSpec
=============================================================================
