---------------------- MODULE ImplicitQueueContent_proofs ----------------------
(***************************************************************************)
(* Proofs about what the sub-queue of one producer stores: the entries of  *)
(* the block index, the blocks that they lead to, and the items in them,   *)
(* for every finite set of consumers, block size, pool, index size and     *)
(* every bound of the model.                                               *)
(*                                                                         *)
(* A block has a number, which is the place of its items in the queue; the *)
(* entry of a number (Ent) is found from the tail of the newest header.    *)
(* StoredInv says what entries, blocks and consumers hold of the numbers   *)
(* that are in use; ContentInv says where the items are.  Each conjunct is *)
(* shown for the producer and for a consumer; the theorems combine them    *)
(* with those of ImplicitQueue_proofs.                                     *)
(***************************************************************************)
EXTENDS ImplicitQueue_proofs
-----------------------------------------------------------------------------
(* The entries of the index, by the numbers of the blocks they stand for   *)

\* The entry of the newest header that lies n - Top places after its tail.
Ent(n) == Header.index[(Header.tail + n - Top) % Capacity]

\* Every header keeps the order of the entries: the distance of two slots is the
\* distance of the numbers that their entries stand for.
Phase(h) ==
  \A j, k \in 0 .. headers[h].capacity - 1, m, n \in Int :
    headers[h].index[j] = Ent(m) /\ headers[h].index[k] = Ent(n) =>
      (j + n) % headers[h].capacity = (k + m) % headers[h].capacity
PhaseInv == \A h \in 1 .. blockIndex : Phase(h)

\* The numbers that the producer's locals stand for.
LEMMA NumbersType ==
  ASSUME ProducerInv, CounterType
  PROVE  /\ Top \in Int /\ Linked \subseteq NextNumber .. NextNumber + Chained - 1
         /\ NextNumber \in Nat /\ NextNumber >= 0 /\ Chained \in Nat
<1>1. /\ NextNumber \in Nat /\ Chained \in Nat /\ AtNumber \in Int /\ prod.undone \in Nat
      /\ prod.pc \in ProducerSteps
      /\ prod.pc \in Linking => Chained > 0
  BY LocalNumbers DEF ProducerInv, ProducerType
<1>2. Top \in Int
  BY <1>1 DEF Top
<1>3. Linked \subseteq NextNumber .. NextNumber + Chained - 1
  BY <1>1 DEF Linked
<1> QED BY <1>1, <1>2, <1>3

\* An entry for every number.
LEMMA EntType ==
  ASSUME HeaderInv, Top \in Int, NEW n \in Int
  PROVE  /\ Ent(n) \in Entries /\ (Header.tail + n - Top) % Capacity \in Entries
<1>1. Capacity \in Nat \ {0} /\ Header.tail \in Entries /\ Header.index \in [Entries -> Entries]
  BY HeaderTypes
<1> DEFINE x == Header.tail + n - Top
           cap == Capacity
<1>2. x \in Int
  BY <1>1 DEF Entries
<1>3. cap \in Nat \ {0} /\ Entries = 0 .. cap - 1
  BY <1>1 DEF Entries
<1> HIDE DEF x, cap
<1>4. x % cap \in Entries
  BY <1>2, <1>3, ModIn
<1> QED BY <1>1, <1>4 DEF Ent, x, cap

\* Entries are the same when the numbers are as far apart as the index is long.
LEMMA EntSame ==
  ASSUME HeaderInv, Top \in Int, NEW m \in Int, NEW n \in Int
  PROVE  /\ Ent(m) = Ent(n) <=> m % Capacity = n % Capacity
         /\ m # n /\ m - n < Capacity /\ n - m < Capacity => Ent(m) # Ent(n)
<1>1. Capacity \in Nat \ {0} /\ Header.tail \in Int
  BY HeaderTypes DEF Entries
<1> DEFINE t == Header.tail - Top
           cap == Capacity
           x == t + m
           y == t + n
<1>2. t \in Int /\ x \in Int /\ y \in Int /\ x = Header.tail + m - Top /\ y = Header.tail + n - Top
  BY <1>1
<1>3. cap \in Nat \ {0}
  BY <1>1
<1>4. x % cap \in Entries /\ y % cap \in Entries /\ Ent(m) = Header.index[x % cap]
      /\ Ent(n) = Header.index[y % cap]
  BY <1>2, EntType DEF Ent
<1>5. Ent(m) = Ent(n) <=> x % cap = y % cap
  BY <1>4 DEF HeaderInv, NewestComplete
<1> HIDE DEF t, cap
<1>6. x % cap = y % cap <=> m % cap = n % cap
  <2>1. x % cap = y % cap <=> \E k \in Int : x = y + cap * k
    BY <1>2, <1>3, SameMod
  <2>2. m % cap = n % cap <=> \E k \in Int : m = n + cap * k
    BY <1>3, SameMod
  <2>3. \A k \in Int : cap * k \in Int
    BY <1>3
  <2>4. \A k \in Int : x = y + cap * k <=> m = n + cap * k
    BY <1>2, <2>3
  <2> QED BY <2>1, <2>2, <2>4
<1>7. m % cap = n % cap /\ m - n < cap /\ n - m < cap => m = n
  BY <1>3, CloseMod
<1> QED BY <1>5, <1>6, <1>7 DEF cap

\* Every entry stands for one of as many numbers in a row as the index is long.
LEMMA EntOnto ==
  ASSUME HeaderInv, Top \in Int, NEW e \in Entries, NEW a \in Int
  PROVE  \E n \in a .. a + Capacity - 1 : Ent(n) = e
<1>1. Capacity \in Nat \ {0} /\ Header.tail \in Int
  BY HeaderTypes DEF Entries
<1>2. PICK j \in Entries : Header.index[j] = e
  BY DEF HeaderInv, NewestComplete
<1>2a. j \in 0 .. Capacity - 1 /\ j \in Int
  BY <1>1 DEF Entries
<1> DEFINE cap == Capacity
           t == Header.tail - Top
           d == j - t - a
           n == a + (d % cap)
<1>3. cap \in Nat \ {0} /\ t \in Int /\ d \in Int /\ j \in 0 .. cap - 1
      /\ j - t - a = d /\ Header.tail + n - Top = t + n
  <2>1. d \in Int /\ cap \in Nat \ {0} /\ t \in Int
    BY <1>1, <1>2a
  <2>2. d % cap \in Int
    BY <2>1, ModIn
  <2> QED BY <1>1, <1>2a, <2>1, <2>2
<1> HIDE DEF cap, t, d
<1>4. d % cap \in 0 .. cap - 1 /\ d \div cap \in Int /\ d = cap * (d \div cap) + (d % cap)
  BY <1>3, DivMod
<1>5. n \in a .. a + cap - 1 /\ n \in Int
  BY <1>3, <1>4
<1>6. (t + n) % cap = j
  <2> DEFINE q == d \div cap
             w == d % cap
  <2>1. q \in Int /\ w \in 0 .. cap - 1 /\ d = cap * q + w /\ n = a + w
    BY <1>4
  <2> HIDE DEF q, w
  <2>2. cap * (-q) \in Int /\ cap * (-q) = -(cap * q) /\ cap * q \in Int
    BY <1>3, <2>1
  <2>3. t + n = cap * (-q) + j
    BY <1>3, <2>1, <2>2
  <2>4. t + n \in Int /\ -q \in Int
    BY <1>3, <1>5, <2>1
  <2> QED BY <1>3, <2>3, <2>4, ModIs
<1>7. Ent(n) = Header.index[(t + n) % cap]
  BY <1>3 DEF Ent, cap
<1> QED BY <1>2, <1>5, <1>6, <1>7 DEF cap

\* So the numbers and the entries belong together, in this state and in the next.
EntsCover ==
  /\ \A n \in Int : Ent(n) \in Entries
  /\ \A m, n \in Int : Ent(m) = Ent(n) <=> m % Capacity = n % Capacity
  /\ \A e \in Entries, a \in Int : \E n \in a .. a + Capacity - 1 : Ent(n) = e

\* The correspondence of numbers and entries, as one fact to cite in both states.
LEMMA EntsAreCovered ==
  ASSUME HeaderInv, Top \in Int
  PROVE  EntsCover
  BY EntType, EntSame, EntOnto DEF EntsCover

\* The entries at the tail and after it.
LEMMA EntAtTop ==
  ASSUME HeaderInv, Top \in Int
  PROVE  Ent(Top) = Header.index[Header.tail] /\ Ent(Top + 1) = Header.index[NextSlot]
<1>1. Capacity \in Nat \ {0} /\ Header.tail \in Entries /\ Header.tail \in Int
  BY HeaderTypes DEF Entries
<1>2. Header.tail % Capacity = Header.tail
  <2> DEFINE t == Header.tail
             cap == Capacity
  <2>1. cap \in Nat \ {0} /\ t \in 0 .. cap - 1 /\ t = cap * 0 + t
    BY <1>1 DEF Entries
  <2> HIDE DEF t, cap
  <2>2. t % cap = t
    BY <2>1, ModIs
  <2> QED BY <2>2 DEF t, cap
<1>3. Header.tail + Top - Top = Header.tail /\ Header.tail + (Top + 1) - Top = Header.tail + 1
  BY <1>1
<1> QED BY <1>2, <1>3 DEF Ent, NextSlot, Capacity

\* Moving the tail together with its number leaves every number its entry.
LEMMA EntKept ==
  ASSUME HeaderInv, HeaderInv', Top \in Int, Top' \in Int, Header'.index = Header.index,
         Capacity' = Capacity,
         (Header'.tail - Top') % Capacity = (Header.tail - Top) % Capacity
  PROVE  \A n \in Int : Ent(n)' = Ent(n)
<1> SUFFICES ASSUME NEW n \in Int PROVE Ent(n)' = Ent(n)
  OBVIOUS
<1>1. Capacity \in Nat \ {0} /\ Header.tail \in Int /\ Header'.tail \in Int
  <2>1. Capacity \in Nat \ {0} /\ Header.tail \in Entries
    BY HeaderTypes
  <2>2. (Header.tail \in Entries)'
    BY HeaderTypes, PTL
  <2> QED BY <2>1, <2>2 DEF Entries
<1> DEFINE cap == Capacity
           x == Header.tail - Top
           y == Header'.tail - Top'
<1>2. x \in Int /\ y \in Int /\ cap \in Nat \ {0} /\ x % cap = y % cap
      /\ Header.tail + n - Top = x + n /\ Header'.tail + n - Top' = y + n
  BY <1>1
<1>3. Ent(n) = Header.index[(x + n) % cap] /\ Ent(n)' = Header.index[(y + n) % cap]
  BY <1>2 DEF Ent
<1> HIDE DEF x, y, cap
<1>4. (x + n) % cap = (y + n) % cap
  <2>1. ((x % cap) + n) % cap = (x + n) % cap /\ ((y % cap) + n) % cap = (y + n) % cap
    BY <1>2, ModAdd
  <2> QED BY <1>2, <2>1
<1> QED BY <1>3, <1>4

\* The store of a tail that goes on by one place, or back by one.
LEMMA EntMoved ==
  ASSUME HeaderInv, HeaderInv', Top \in Int, Header'.index = Header.index, Capacity' = Capacity,
         \/ Top' = Top /\ Header'.tail = Header.tail
         \/ Top' = Top + 1 /\ Header'.tail = NextSlot
         \/ Top' = Top - 1 /\ Header'.tail = (Header.tail - 1) % Capacity
  PROVE  Top' \in Int /\ \A n \in Int : Ent(n)' = Ent(n)
<1>1. Capacity \in Nat \ {0} /\ Header.tail \in Int /\ Top' \in Int
  BY HeaderTypes DEF Entries
<1> DEFINE cap == Capacity
           t == Header.tail
           top == Top
<1>2. cap \in Nat \ {0} /\ t \in Int /\ top \in Int
  BY <1>1
<1>3. NextSlot = (t + 1) % cap
  BY DEF NextSlot, Capacity
<1> HIDE DEF cap, t, top
<1>4. (((t + 1) % cap) - (top + 1)) % cap = (t - top) % cap
  <2>1. t + 1 \in Int /\ -(top + 1) \in Int
    BY <1>2
  <2> DEFINE x == t + 1
             y == -(top + 1)
  <2>2. ((x % cap) + y) % cap = (x + y) % cap
    BY <1>2, <2>1, ModAdd
  <2>3. x % cap \in Int
    BY <1>2, <2>1, ModIn
  <2>4. x + y = t - top /\ (x % cap) + y = (x % cap) - (top + 1)
    BY <1>2, <2>3
  <2> QED BY <2>2, <2>4
<1>5. (((t - 1) % cap) - (top - 1)) % cap = (t - top) % cap
  <2>1. t - 1 \in Int /\ -(top - 1) \in Int
    BY <1>2
  <2> DEFINE x == t - 1
             y == -(top - 1)
  <2>2. ((x % cap) + y) % cap = (x + y) % cap
    BY <1>2, <2>1, ModAdd
  <2>3. x % cap \in Int
    BY <1>2, <2>1, ModIn
  <2>4. x + y = t - top /\ (x % cap) + y = (x % cap) - (top - 1)
    BY <1>2, <2>3
  <2> QED BY <2>2, <2>4
<1>6. (Header'.tail - Top') % cap = (t - top) % cap
  <2>1. CASE Top' = Top /\ Header'.tail = Header.tail
    BY <2>1 DEF t, top
  <2>2. CASE Top' = Top + 1 /\ Header'.tail = NextSlot
    BY <1>3, <1>4, <2>2 DEF top
  <2>3. CASE Top' = Top - 1 /\ Header'.tail = (Header.tail - 1) % Capacity
    BY <1>5, <2>3 DEF t, top, cap
  <2> QED BY <2>1, <2>2, <2>3
<1> QED BY <1>1, <1>6, EntKept DEF cap, t, top

\* new_block_index() keeps the entries of the latest numbers and adds as many for the
\* numbers to come (concurrentqueue.h:3004-3027).
LEMMA EntGrown ==
  ASSUME HeaderInv, Top \in Int, headers' = Append(headers, LargerHeader(Header)),
         blockIndex' = blockIndex + 1, Top' = Top
  PROVE  /\ \A n \in Top - Capacity + 1 .. Top : Ent(n)' = Ent(n)
         /\ \A n \in Top + 1 .. Top + Capacity : Ent(n)' \in Capacity .. 2 * Capacity - 1
<1>1. /\ Capacity \in Nat \ {0} /\ Header.tail \in Int
      /\ Header' = LargerHeader(Header) /\ Capacity' = 2 * Capacity
  BY HeaderTypes, IndexGrown DEF Entries
<1> DEFINE new == LargerHeader(Header)
           cap == Capacity
           t == Header.tail
           top == Top
<1>2. /\ new.tail = cap - 1
      /\ \A k \in 0 .. cap - 1 : new.index[k] = Header.index[(t + 1 + k) % cap]
      /\ \A k \in cap .. 2 * cap - 1 : new.index[k] = k
  BY LargerIs DEF Entries
<1>3. cap \in Nat \ {0} /\ t \in Int /\ top \in Int /\ 2 * cap \in Nat \ {0}
  BY <1>1
<1>4. \A n \in Int : /\ Ent(n)' = new.index[(cap - 1 + n - top) % (2 * cap)]
                     /\ Ent(n) = Header.index[(t + n - top) % cap]
  BY <1>1, <1>2 DEF Ent
<1> HIDE DEF new, cap, t, top
<1>5. \A n \in top - cap + 1 .. top + cap : (cap - 1 + n - top) % (2 * cap) = cap - 1 + n - top
  <2> SUFFICES ASSUME NEW n \in top - cap + 1 .. top + cap
               PROVE  (cap - 1 + n - top) % (2 * cap) = cap - 1 + n - top
    OBVIOUS
  <2> DEFINE x == cap - 1 + n - top
             d == 2 * cap
  <2>1. d \in Nat \ {0} /\ x \in 0 .. d - 1 /\ x = d * 0 + x /\ x \in Int
    BY <1>3
  <2> HIDE DEF x, d
  <2>2. x % d = x
    BY <2>1, ModIs
  <2> QED BY <2>2 DEF x, d
<1>6. ASSUME NEW n \in top - cap + 1 .. top PROVE Ent(n)' = Ent(n)
  <2> DEFINE k == cap - 1 + n - top
             x == t + n - top
  <2>1. k \in 0 .. cap - 1 /\ x \in Int /\ t + 1 + k = x + cap * 1 /\ n \in Int
        /\ n \in top - cap + 1 .. top + cap
    BY <1>3
  <2>2. Ent(n)' = Header.index[(t + 1 + k) % cap]
    BY <1>2, <1>4, <1>5, <2>1
  <2> HIDE DEF k, x
  <2>3. (x + cap * 1) % cap = x % cap
    <3>1. x \in Int /\ 1 \in Int
      BY <2>1
    <3> QED BY <1>3, <3>1, ModShift
  <2> QED BY <1>4, <2>1, <2>2, <2>3 DEF x
<1>7. ASSUME NEW n \in top + 1 .. top + cap PROVE Ent(n)' \in cap .. 2 * cap - 1
  <2>1. cap - 1 + n - top \in cap .. 2 * cap - 1 /\ n \in Int /\ n \in top - cap + 1 .. top + cap
    BY <1>3
  <2> QED BY <1>2, <1>4, <1>5, <2>1
<1> QED BY <1>6, <1>7 DEF cap, top

-----------------------------------------------------------------------------
(* Every header keeps the order *)

\* The newest header has it by construction.
LEMMA NewestPhase ==
  ASSUME HeaderInv, Top \in Int
  PROVE  Phase(blockIndex)
<1>1. Capacity \in Nat \ {0} /\ Header.tail \in Int /\ Header.index \in [Entries -> Entries]
  BY HeaderTypes DEF Entries
<1> SUFFICES ASSUME NEW j \in Entries, NEW k \in Entries, NEW m \in Int, NEW n \in Int,
                    Header.index[j] = Ent(m), Header.index[k] = Ent(n)
             PROVE  (j + n) % Capacity = (k + m) % Capacity
  BY DEF Phase, Header, Capacity, Entries
<1> DEFINE cap == Capacity
           x == Header.tail + m - Top
           y == Header.tail + n - Top
<1>2. x \in Int /\ y \in Int /\ cap \in Nat \ {0} /\ j \in Int /\ k \in Int /\ x + n = y + m
  BY <1>1 DEF Entries
<1>3. x % cap \in Entries /\ y % cap \in Entries
  BY EntType
<1>4. j = x % cap /\ k = y % cap
  BY <1>3 DEF Ent, HeaderInv, NewestComplete
<1> HIDE DEF cap, x, y
<1>5. ((x % cap) + n) % cap = (x + n) % cap /\ ((y % cap) + m) % cap = (y + m) % cap
  BY <1>2, ModAdd
<1>6. (j + n) % cap = (k + m) % cap
  BY <1>2, <1>4, <1>5
<1> QED BY <1>6 DEF cap

\* A step that leaves the arrays and the entries of all numbers keeps it.
LEMMA PhaseKept ==
  ASSUME PhaseInv, UNCHANGED blockIndex,
         \A h \in 1 .. blockIndex :
           headers'[h].capacity = headers[h].capacity /\ headers'[h].index = headers[h].index,
         \A n \in Int : Ent(n)' = Ent(n)
  PROVE  PhaseInv'
<1> SUFFICES ASSUME NEW h \in 1 .. blockIndex PROVE Phase(h)'
  BY DEF PhaseInv
<1>1. Phase(h)
  BY DEF PhaseInv
<1> SUFFICES ASSUME NEW j \in 0 .. headers[h].capacity - 1, NEW k \in 0 .. headers[h].capacity - 1,
                    NEW m \in Int, NEW n \in Int,
                    headers[h].index[j] = Ent(m)', headers[h].index[k] = Ent(n)'
             PROVE  (j + n) % headers[h].capacity = (k + m) % headers[h].capacity
  BY DEF Phase
<1>2. headers[h].index[j] = Ent(m) /\ headers[h].index[k] = Ent(n)
  OBVIOUS
<1> QED BY <1>1, <1>2 DEF Phase

\* Remainders of a divisor.
LEMMA ModOfDivisor ==
  ASSUME NEW x \in Int, NEW y \in Int, NEW d \in Nat \ {0}, NEW q \in Nat, q * d > 0,
         x % (q * d) = y % (q * d)
  PROVE  x % d = y % d
<1> DEFINE c == q * d
<1>1. c \in Nat \ {0}
  OBVIOUS
<1>2. c = q * d
  OBVIOUS
<1> HIDE DEF c
<1>3. PICK k \in Int : x = y + c * k
  BY <1>1, SameMod DEF c
<1>4. q * k \in Int /\ c * k = d * (q * k)
  BY <1>2
<1>5. x = y + d * (q * k)
  BY <1>3, <1>4
<1> QED BY <1>4, <1>5, SameMod

\* The larger index has its entries in the order of the old one (:3004-3027).
LEMMA PhaseGrown ==
  ASSUME HeaderInv, PhaseInv, Top \in Int, headers' = Append(headers, LargerHeader(Header)),
         blockIndex' = blockIndex + 1, Top' = Top
  PROVE  PhaseInv'
<1>1. /\ HeaderInv' /\ Capacity' = 2 * Capacity /\ blockIndex \in Nat \ {0}
      /\ Capacity \in Nat \ {0}
      /\ \A h \in 1 .. blockIndex : headers'[h] = headers[h]
  BY IndexGrown, HeaderTypes DEF HeaderInv
<1>2. /\ \A n \in Top - Capacity + 1 .. Top : Ent(n)' = Ent(n)
      /\ \A n \in Top + 1 .. Top + Capacity : Ent(n)' \in Capacity .. 2 * Capacity - 1
  BY EntGrown
<1> SUFFICES ASSUME NEW h \in 1 .. blockIndex' PROVE Phase(h)'
  BY DEF PhaseInv
<1>3. CASE h = blockIndex'
  <2>1. (HeaderInv /\ Top \in Int)'
    BY <1>1
  <2>2. Phase(blockIndex)'
    BY <2>1, NewestPhase, PTL
  <2>3. \A x : Phase(x)' <=>
          \A j, k \in 0 .. headers'[x].capacity - 1, m, n \in Int :
            headers'[x].index[j] = Ent(m)' /\ headers'[x].index[k] = Ent(n)' =>
              (j + n) % headers'[x].capacity = (k + m) % headers'[x].capacity
    BY DEF Phase
  <2>4. Phase(blockIndex)' <=>
          \A j, k \in 0 .. headers'[blockIndex'].capacity - 1, m, n \in Int :
            headers'[blockIndex'].index[j] = Ent(m)' /\ headers'[blockIndex'].index[k] = Ent(n)' =>
              (j + n) % headers'[blockIndex'].capacity = (k + m) % headers'[blockIndex'].capacity
    BY DEF Phase
  <2> QED BY <1>3, <2>2, <2>3, <2>4
<1>4. CASE h \in 1 .. blockIndex
  <2> DEFINE H == headers[h]
  <2>1. Phase(h) /\ headers'[h] = H
    BY <1>1, <1>4 DEF PhaseInv
  <2>2. /\ H.capacity \in Nat \ {0} /\ H.index \in [0 .. H.capacity - 1 -> Entries]
        /\ \E q \in Nat : Capacity = q * H.capacity
    BY <1>4, HeaderTypes DEF HeaderInv, HeaderShape
  <2> HIDE DEF H
  <2> SUFFICES ASSUME NEW j \in 0 .. H.capacity - 1, NEW k \in 0 .. H.capacity - 1,
                      NEW m \in Int, NEW n \in Int, H.index[j] = Ent(m)', H.index[k] = Ent(n)'
               PROVE  (j + n) % H.capacity = (k + m) % H.capacity
    <3>1. Phase(h)' <=>
            \A j, k \in 0 .. headers'[h].capacity - 1, m, n \in Int :
              headers'[h].index[j] = Ent(m)' /\ headers'[h].index[k] = Ent(n)' =>
                (j + n) % headers'[h].capacity = (k + m) % headers'[h].capacity
      BY DEF Phase
    <3> QED BY <2>1, <3>1
  \* An old entry stands for one of the latest numbers.
  <2>3. ASSUME NEW p \in Int, Ent(p)' \in Entries
        PROVE  \E p0 \in Top - Capacity + 1 .. Top :
                 Ent(p)' = Ent(p0) /\ p % H.capacity = p0 % H.capacity /\ p0 \in Int
    <3>1. Ent(p)' \in Entries'
      BY <1>1, <2>3 DEF Entries
    <3>0. EntsCover'
      <4>1. (HeaderInv /\ Top \in Int)'
        BY <1>1
      <4> QED BY <4>1, EntsAreCovered, PTL
    <3>2. PICK p0 \in Top - Capacity + 1 .. Top - Capacity + 1 + 2 * Capacity - 1 : Ent(p0)' = Ent(p)'
      <4>1. Top - Capacity + 1 \in Int
        BY <1>1
      <4>2. PICK b \in Int : b = Top - Capacity + 1
        BY <4>1
      <4>3. \E x \in b .. b + Capacity' - 1 : Ent(x)' = Ent(p)'
        BY <3>0, <3>1 DEF EntsCover
      <4> QED BY <1>1, <4>2, <4>3
    <3>3. p0 \in Int
      BY <1>1
    <3>4. p0 \notin Top + 1 .. Top + Capacity
      BY <1>1, <1>2, <2>3, <3>2 DEF Entries
    <3>5. p0 \in Top - Capacity + 1 .. Top
      BY <1>1, <3>3, <3>4
    <3>6. Ent(p)' = Ent(p0)
      BY <1>2, <3>2, <3>5
    <3>7. p % Capacity' = p0 % Capacity'
      BY <3>0, <3>2, <3>3 DEF EntsCover
    <3>8. p % H.capacity = p0 % H.capacity
      <4>1. PICK q \in Nat : Capacity = q * H.capacity
        BY <2>2
      <4>1a. PICK d \in Nat \ {0} : d = H.capacity
        BY <2>2
      <4>1b. q * d \in Nat /\ q * d = Capacity
        <5>1. \A x, y \in Nat : x * y \in Nat
          OBVIOUS
        <5>2. q * d = Capacity
          BY <4>1, <4>1a, Zenon
        <5> QED BY <5>1, <5>2
      <4>1c. 2 * (q * d) = (2 * q) * d
        <5>1. \A x, y \in Nat : 2 * (x * y) = (2 * x) * y
          OBVIOUS
        <5> QED BY <5>1
      <4>2. Capacity' = (2 * q) * H.capacity /\ 2 * q \in Nat /\ (2 * q) * H.capacity > 0
        BY <1>1, <4>1a, <4>1b, <4>1c
      <4> QED BY <2>2, <3>3, <3>7, <4>2, ModOfDivisor
    <3> QED BY <3>3, <3>5, <3>6, <3>8
  <2>4. H.index[j] \in Entries /\ H.index[k] \in Entries
    BY <2>2
  <2>5. PICK m0 \in Int : H.index[j] = Ent(m0) /\ m % H.capacity = m0 % H.capacity
    BY <2>3, <2>4
  <2>6. PICK n0 \in Int : H.index[k] = Ent(n0) /\ n % H.capacity = n0 % H.capacity
    BY <2>3, <2>4
  <2>7. (j + n0) % H.capacity = (k + m0) % H.capacity
    BY <2>1, <2>5, <2>6 DEF Phase, H
  <2> DEFINE c == H.capacity
  <2>8. c \in Nat \ {0} /\ j \in Int /\ k \in Int
    BY <2>2
  <2> HIDE DEF c
  <2>9. ((n % c) + j) % c = (n + j) % c /\ ((n0 % c) + j) % c = (n0 + j) % c
        /\ ((m % c) + k) % c = (m + k) % c /\ ((m0 % c) + k) % c = (m0 + k) % c
    BY <2>8, ModAdd
  <2>10. n + j = j + n /\ n0 + j = j + n0 /\ m + k = k + m /\ m0 + k = k + m0
    BY <2>8
  <2>11. (j + n) % c = (k + m) % c
    BY <2>5, <2>6, <2>7, <2>9, <2>10 DEF c
  <2> QED BY <2>11 DEF c
<1> QED BY <1>1, <1>3, <1>4

\* From the slot of one number to that of another, as get_block_index_index_for_index()
\* goes (concurrentqueue.h:2982-2983).
LEMMA Locate ==
  ASSUME HeaderInv, NEW h \in 1 .. blockIndex, Phase(h), NEW s \in 0 .. headers[h].capacity - 1,
         NEW j \in 0 .. headers[h].capacity - 1, NEW m \in Int, NEW n \in Int,
         headers[h].index[s] = Ent(n), headers[h].index[j] = Ent(m)
  PROVE  j = (s + (m - n)) % headers[h].capacity
<1> DEFINE c == headers[h].capacity
<1>1. c \in Nat \ {0}
  BY HeaderTypes
<1>2. (j + n) % c = (s + m) % c
  BY DEF Phase
<1>2a. j \in 0 .. c - 1 /\ s \in 0 .. c - 1 /\ j \in Int /\ s \in Int
  OBVIOUS
<1> HIDE DEF c
<1>3. PICK k \in Int : s + m = j + n + c * k
  <2>1. j + n \in Int /\ s + m \in Int
    BY <1>2a
  <2> QED BY <1>1, <1>2, <2>1, SameMod
<1>4. c * k \in Int
  BY <1>1
<1>5. s + (m - n) = c * k + j /\ s + (m - n) \in Int
  BY <1>2a, <1>3, <1>4
<1>6. (s + (m - n)) % c = j
  BY <1>1, <1>2a, <1>5, ModIs
<1> QED BY <1>6 DEF c

-----------------------------------------------------------------------------
(* What the index and the blocks hold *)

Items(n) == BLOCK_SIZE * n .. BLOCK_SIZE * n + BLOCK_SIZE - 1
Unlinking == {c \in Consumers : cons[c].pc = "unlink"}

\* The numbers below the tail whose blocks are in the index: not all of their items are
\* finished, or the consumer that finished the last one has not unlinked the block.
InUse ==
  {n \in 0 .. NextNumber - 1 :
     ~(Items(n) \subseteq Finished) \/ \E c \in Unlinking : Num(cons[c].index) = n}

\* The keys of the entries: those of the numbers up to last, which is beyond the tail
\* when entries have been taken back, and none for the numbers up to none.  An entry
\* that the producer may take, or has taken, has no block.
Keyed(last, none) ==
  /\ Top <= last /\ last < NextNumber + Capacity /\ none < NextNumber
  /\ \A n \in last - Capacity + 1 .. last :
       /\ n > none => key[Ent(n)] = BLOCK_SIZE * n
       /\ n <= none => key[Ent(n)] = INVALID_BLOCK_BASE /\ value[Ent(n)] = NoBlock
       /\ n >= NextNumber /\ n \notin Linked => value[Ent(n)] = NoBlock
  /\ prod.pc \in {"publish", "requisition"} \cup Linking \cup Backing =>
       prod.entry = Ent(AtNumber) /\ AtNumber <= last
  /\ prod.pc = "grow" => last = Top /\ none <= Top - Capacity
KeyInv == \E last, none \in Int : Keyed(last, none)

\* The entry of a block in use leads to it, and the block counts the finished items.
LinkedEntry(n) ==
  /\ key[Ent(n)] = BLOCK_SIZE * n /\ value[Ent(n)] \in Blocks
  /\ emptied[value[Ent(n)]] = Cardinality(Items(n) \cap Finished)
LinkInv ==
  /\ \A n \in InUse \cup Linked : LinkedEntry(n)
  /\ \A n \in Linked : value[Ent(n)] = prod.chain[n - NextNumber + 1]
  /\ tailIndex < BLOCK_SIZE * NextNumber => prod.tailBlock = value[Ent(NextNumber - 1)]
  /\ \A c \in Unlinking : Items(Num(cons[c].index)) \subseteq Finished
  /\ \A c, d \in Unlinking : Num(cons[c].index) = Num(cons[d].index) => c = d

\* A key from which the way to other numbers can be found.
ValidKey(e) == \E k \in Int : key[e] = BLOCK_SIZE * k /\ Ent(k) = e

\* The numbers that a consumer looks up from here on.
Remaining(c) ==
  IF cons[c].pc = "recycle" THEN Num(cons[c].index) + 1 .. Num(cons[c].stop - 1)
  ELSE Num(cons[c].index) .. Num(cons[c].stop - 1)

\* The header that a consumer has loaded has the entries that it needs, and the slot
\* that it has found is that of its number.
InHeader(c) ==
  \A m \in Remaining(c) :
    \E j \in 0 .. headers[cons[c].header].capacity - 1 : headers[cons[c].header].index[j] = Ent(m)
AtSlot(c) ==
  \A m \in Remaining(c) :
    headers[cons[c].header].index[(cons[c].slot + (m - Num(cons[c].index)))
                                    % headers[cons[c].header].capacity] = Ent(m)
Looked(c) ==
  /\ cons[c].pc \in LoadedHeader => InHeader(c)
  /\ cons[c].pc = "slot" => ValidKey(headers[cons[c].header].index[headers[cons[c].header].tail])
  /\ cons[c].pc = "find" => ValidKey(headers[cons[c].header].index[cons[c].slot])
  /\ cons[c].pc \in {"take", "empty", "unlink", "recycle"} => AtSlot(c)
  /\ cons[c].pc \in {"empty", "unlink"} => cons[c].block = value[Ent(Num(cons[c].index))]
LookupInv == \A c \in Consumers : Looked(c)

\* The places of a block: a pool, an entry of the index, the chain of the producer as
\* long as it is not in the index, and the consumer between unlinking and recycling.
Held(b, where, at) ==
  \/ where = "pool" /\ at = b /\ b \in freeBlocks
  \/ where = "heap" /\ at = b /\ b \in heap
  \/ where = "initial" /\ at = b /\ b \in initialBlockPoolIndex + 1 .. InitialBlocks
  \/ where = "index" /\ at \in Entries /\ value[at] = b
  \/ where = "producer" /\ at \in 1 .. Chained /\ NextNumber + at - 1 \notin Linked
     /\ prod.chain[at] = b
  \/ where = "consumer" /\ at \in Consumers /\ cons[at].pc = "recycle" /\ cons[at].block = b
OwnedOnce(b) == \E w, a : \A x, y : Held(b, x, y) <=> x = w /\ y = a
OwnerInv ==
  /\ freeBlocks \subseteq Blocks /\ heap \subseteq Blocks /\ prod.chain \in Seq(Blocks)
  /\ \A c \in Consumers : cons[c].pc = "recycle" => cons[c].block \in Blocks
  /\ \A b \in Blocks : OwnedOnce(b)

QueueBase == QueueShape /\ CounterInv /\ ClaimsApart
StoredInv == PhaseInv /\ KeyInv /\ LinkInv /\ LookupInv /\ OwnerInv

-----------------------------------------------------------------------------
(* First consequences *)

\* What is assumed of the block size.
LEMMA BlockSize ==
  BLOCK_SIZE \in Nat /\ BLOCK_SIZE > 1 /\ BLOCK_SIZE \in Nat \ {0} /\ NoBlock \notin Blocks
  BY QueueShapeAssumption DEF Blocks

\* The head is not beyond the tail, the tail not beyond the last block.
LEMMA Bounds ==
  ASSUME QueueBase
  PROVE  /\ headIndex \in Nat /\ tailIndex \in Nat /\ headIndex <= tailIndex
         /\ NextNumber \in Nat /\ tailIndex <= BLOCK_SIZE * NextNumber
         /\ BLOCK_SIZE * NextNumber < tailIndex + BLOCK_SIZE
         /\ FirstNewBase = BLOCK_SIZE * NextNumber
         /\ Finished \subseteq 0 .. headIndex - 1 /\ Taken \subseteq 0 .. headIndex - 1
         /\ Finished \subseteq Taken
<1>1. headIndex \in Int /\ headIndex >= 0 /\ tailIndex \in Nat /\ CounterType
  BY DEF QueueBase, QueueShape, CounterType, ClaimsApart
<1>2. cons \in [Consumers -> ConsumerType] /\ \A c \in Consumers : ClaimType(cons[c])
  BY DEF QueueBase, QueueShape, LocalType, CounterInv
<1>3. Total(Kept) \in Nat /\ headIndex + Total(Kept) <= tailIndex
  BY <1>2, SharesType DEF QueueBase, CounterInv, Reserved
<1>4. Finished \subseteq Taken
  <2>1. \A c \in Consumers : Untaken(cons[c]) \subseteq Owed(cons[c])
    <3> TAKE c \in Consumers
    <3>1. cons[c] \in ConsumerType /\ (cons[c].pc \in Working => cons[c].index < cons[c].stop)
      BY <1>2 DEF QueueBase, ClaimsApart, ClaimIn
    <3> QED BY <3>1, OwedInClaim
  <2> QED BY <2>1 DEF Finished, Taken
<1>5. Finished \subseteq 0 .. headIndex - 1 /\ Taken \subseteq 0 .. headIndex - 1
  BY DEF Finished, Taken
<1>6. /\ NextNumber \in Nat /\ FirstNewBase = BLOCK_SIZE * NextNumber
      /\ tailIndex <= BLOCK_SIZE * NextNumber /\ BLOCK_SIZE * NextNumber < tailIndex + BLOCK_SIZE
  BY <1>1, NextBase
<1>7. headIndex \in Nat /\ headIndex <= tailIndex
  BY <1>1, <1>3
<1> QED BY <1>1, <1>4, <1>5, <1>6, <1>7

\* What the numbers and entries are, for the steps to use.
LEMMA BaseFacts ==
  ASSUME QueueBase
  PROVE  /\ HeaderInv /\ ProducerInv /\ CounterType /\ StoreType /\ PoolType /\ LocalType
         /\ Top \in Int /\ Linked \subseteq NextNumber .. NextNumber + Chained - 1
         /\ NextNumber \in Nat /\ Chained \in Nat /\ AtNumber \in Int
         /\ EntsCover /\ Capacity \in Nat \ {0} /\ Entries = 0 .. Capacity - 1
         /\ InUse \subseteq 0 .. NextNumber - 1 /\ InUse \subseteq Int /\ Linked \subseteq Int
         /\ cons \in [Consumers -> ConsumerType]
<1>1. HeaderInv /\ ProducerInv /\ CounterType /\ StoreType /\ PoolType /\ LocalType
  BY DEF QueueBase, QueueShape
<1>2. Top \in Int /\ Linked \subseteq NextNumber .. NextNumber + Chained - 1 /\ NextNumber \in Nat
      /\ Chained \in Nat
  BY <1>1, NumbersType
<1>3. AtNumber \in Int
  BY <1>1, LocalNumbers
<1>4. EntsCover /\ Capacity \in Nat \ {0}
  BY <1>1, <1>2, EntsAreCovered, HeaderTypes
<1>5. InUse \subseteq 0 .. NextNumber - 1
  BY DEF InUse
<1>6. InUse \subseteq Int /\ Linked \subseteq Int
  BY <1>2, <1>5
<1> QED BY <1>1, <1>2, <1>3, <1>4, <1>5, <1>6 DEF Entries, LocalType

\* Numbers in use have entries and blocks of their own.
LEMMA KeysApart ==
  ASSUME QueueBase, LinkInv, NEW m \in InUse \cup Linked, NEW n \in InUse \cup Linked,
         Ent(m) = Ent(n)
  PROVE  m = n
<1>1. m \in Int /\ n \in Int
  BY BaseFacts
<1>2. BLOCK_SIZE * m = BLOCK_SIZE * n
  BY DEF LinkInv, LinkedEntry
<1> QED BY <1>1, <1>2, BasesOrdered

\* A base is never what an unused key is.
LEMMA BaseIsValid ==
  ASSUME NEW n \in Int
  PROVE  BLOCK_SIZE * n # INVALID_BLOCK_BASE
<1>1. CASE n <= 0
  BY <1>1, BlockSize, BasesOrdered DEF INVALID_BLOCK_BASE
<1>2. CASE n >= 1
  <2>1. BLOCK_SIZE * 1 <= BLOCK_SIZE * n /\ BLOCK_SIZE * 1 = BLOCK_SIZE
    BY <1>2, BlockSize, BasesOrdered
  <2> QED BY <2>1, BlockSize, BasesOrdered DEF INVALID_BLOCK_BASE
<1> QED BY <1>1, <1>2

\* Numbers in use are among the latest ones, and so are all numbers after them.
LEMMA InWindow ==
  ASSUME QueueBase, LinkInv, NEW last \in Int, NEW none \in Int, Keyed(last, none),
         NEW m \in InUse \cup Linked
  PROVE  /\ m \in last - Capacity + 1 .. last /\ m > none
         /\ \A n \in m .. last : key[Ent(n)] = BLOCK_SIZE * n
<1>1. m \in Int /\ Capacity \in Nat \ {0} /\ EntsCover /\ Ent(m) \in Entries
  BY BaseFacts DEF EntsCover
<1>2. key[Ent(m)] = BLOCK_SIZE * m
  BY DEF LinkInv, LinkedEntry
<1>3. PICK n \in last - Capacity + 1 .. last : Ent(n) = Ent(m)
  <2>1. last - Capacity + 1 \in Int /\ (last - Capacity + 1) + Capacity - 1 = last
    BY <1>1
  <2> QED BY <1>1, <2>1 DEF EntsCover
<1>4. n \in Int
  BY <1>1
<1>5. n > none
  BY <1>1, <1>2, <1>3, <1>4, BaseIsValid DEF Keyed
<1>6. key[Ent(n)] = BLOCK_SIZE * n
  BY <1>3, <1>5 DEF Keyed
<1>7. n = m
  BY <1>1, <1>2, <1>3, <1>4, <1>6, BasesOrdered
<1>8. \A k \in m .. last : k \in last - Capacity + 1 .. last /\ k > none
  BY <1>1, <1>3, <1>4, <1>5, <1>7
<1> QED BY <1>3, <1>5, <1>7, <1>8 DEF Keyed

\* Of a product with the block size, the numbers between.
LEMMA NumBetween ==
  ASSUME NEW i \in Int, NEW n \in Int
  PROVE  /\ i < BLOCK_SIZE * n <=> Num(i) < n
         /\ i >= BLOCK_SIZE * n <=> Num(i) >= n
         /\ i \in Items(n) <=> Num(i) = n
<1>1. /\ Num(i) \in Int /\ Slot(i) \in 0 .. BLOCK_SIZE - 1 /\ i = BLOCK_SIZE * Num(i) + Slot(i)
  BY Place
<1>2. /\ BLOCK_SIZE * Num(i) \in Int /\ BLOCK_SIZE * n \in Int
      /\ Num(i) < n => BLOCK_SIZE * Num(i) + BLOCK_SIZE <= BLOCK_SIZE * n
      /\ n < Num(i) => BLOCK_SIZE * n + BLOCK_SIZE <= BLOCK_SIZE * Num(i)
      /\ n <= Num(i) => BLOCK_SIZE * n <= BLOCK_SIZE * Num(i)
  BY <1>1, BasesOrdered
<1> DEFINE u == BLOCK_SIZE * Num(i)
           w == BLOCK_SIZE * n
           q == Num(i)
           s == Slot(i)
<1>3. /\ q \in Int /\ u \in Int /\ w \in Int /\ s \in 0 .. BLOCK_SIZE - 1 /\ i = u + s
      /\ q < n => u + BLOCK_SIZE <= w
      /\ n < q => w + BLOCK_SIZE <= u
      /\ n <= q => w <= u
      /\ n = q => u = w
  BY <1>1, <1>2
<1>4. Items(n) = w .. w + BLOCK_SIZE - 1
  BY DEF Items
<1> HIDE DEF u, w, q, s
<1>5. (i < w <=> q < n) /\ (i >= w <=> q >= n) /\ (i \in w .. w + BLOCK_SIZE - 1 <=> q = n)
  BY <1>3, BlockSize
<1> QED BY <1>4, <1>5 DEF w, q

\* A block has as many items as it has slots.
LEMMA ItemsCount ==
  ASSUME NEW n \in Int
  PROVE  IsFiniteSet(Items(n)) /\ Cardinality(Items(n)) = BLOCK_SIZE /\ Items(n) # {}
<1>1. BLOCK_SIZE * n \in Int
  BY BasesOrdered
<1> DEFINE w == BLOCK_SIZE * n
<1>2. w \in Int /\ Items(n) = w .. w + BLOCK_SIZE - 1
  BY <1>1 DEF Items
<1> HIDE DEF w
<1>3. w <= w + BLOCK_SIZE - 1 /\ w + BLOCK_SIZE - 1 \in Int
      /\ (w + BLOCK_SIZE - 1) - w + 1 = BLOCK_SIZE
  BY <1>2, BlockSize
<1>4. IsFiniteSet(Items(n)) /\ Cardinality(Items(n)) = BLOCK_SIZE
  BY <1>2, <1>3, FS_Interval
<1>5. w \in Items(n)
  BY <1>2, <1>3
<1> QED BY <1>4, <1>5

-----------------------------------------------------------------------------
(* What steps leave as it is *)

\* A step that stores neither a header nor the tail, and no local of the producer.
LEMMA NumbersSame ==
  ASSUME UNCHANGED <<tailIndex, blockIndex, headers, prod>>
  PROVE  /\ NextNumber' = NextNumber /\ Top' = Top /\ Linked' = Linked /\ Chained' = Chained
         /\ AtNumber' = AtNumber /\ Capacity' = Capacity /\ Entries' = Entries
         /\ Header' = Header /\ Bulk' = Bulk /\ LastIndex' = LastIndex
         /\ FirstNewBase' = FirstNewBase
         /\ \A n \in Int : Ent(n)' = Ent(n)
<1>1. /\ NextNumber' = NextNumber /\ Chained' = Chained /\ AtNumber' = AtNumber /\ Bulk' = Bulk
      /\ Header' = Header /\ LastIndex' = LastIndex /\ FirstNewBase' = FirstNewBase
  BY DEF NextNumber, Chained, AtNumber, Bulk, Header, LastIndex, FirstNewBase
<1>2. Capacity' = Capacity /\ Top' = Top /\ Linked' = Linked
  BY <1>1 DEF Capacity, Top, Linked
<1>3. Entries' = Entries
  BY <1>2 DEF Entries
<1>4. \A n \in Int : Ent(n)' = Ent(n)
  BY <1>1, <1>2 DEF Ent
<1> QED BY <1>1, <1>2, <1>3, <1>4

\* Nor one of the producer that keeps the number of the tail.
LEMMA EntsSame ==
  ASSUME UNCHANGED <<blockIndex, headers>>, Top' = Top
  PROVE  /\ Capacity' = Capacity /\ Entries' = Entries /\ Header' = Header
         /\ \A n \in Int : Ent(n)' = Ent(n)
<1>1. Header' = Header
  BY DEF Header
<1>2. Capacity' = Capacity
  BY <1>1 DEF Capacity
<1> QED BY <1>1, <1>2 DEF Entries, Ent

\* A consumer that does not come to unlink a block, or from there, leaves the others to it.
LEMMA UnlinkingSame ==
  ASSUME NEW c \in Consumers, NEW r, Becomes(c, r), cons[c].pc # "unlink", r.pc # "unlink"
  PROVE  Unlinking' = Unlinking /\ \A d \in Unlinking : cons'[d] = cons[d]
<1>1. cons'[c] = r /\ \A d \in Consumers : d # c => cons'[d] = cons[d]
  BY DEF Becomes
<1>2. \A d \in Consumers : d \in Unlinking' <=> d \in Unlinking
  BY <1>1 DEF Unlinking
<1>3. Unlinking' = Unlinking
  BY <1>2 DEF Unlinking
<1> QED BY <1>1, <1>3 DEF Unlinking

\* The numbers in use change with the tail, the finished items and who unlinks only.
LEMMA InUseSame ==
  ASSUME NextNumber' = NextNumber, Finished' = Finished, Unlinking' = Unlinking,
         \A d \in Unlinking : cons'[d] = cons[d]
  PROVE  InUse' = InUse
  BY DEF InUse

\* The last block is in use as long as it has room.
LEMMA LastInUse ==
  ASSUME QueueBase, tailIndex < BLOCK_SIZE * NextNumber
  PROVE  /\ NextNumber - 1 \in InUse /\ NextNumber - 1 \in Nat
         /\ tailIndex \in Items(NextNumber - 1) /\ tailIndex \notin Finished
<1>1. /\ headIndex \in Nat /\ tailIndex \in Nat /\ headIndex <= tailIndex /\ NextNumber \in Nat
      /\ Finished \subseteq 0 .. headIndex - 1
      /\ BLOCK_SIZE * NextNumber < tailIndex + BLOCK_SIZE
  BY Bounds
<1>2. Num(tailIndex) < NextNumber
  BY <1>1, NumBetween
<1>3. Num(tailIndex) \in Int /\ Num(tailIndex) >= 0
  <2>1. BLOCK_SIZE * 0 = 0
    BY BlockSize
  <2>2. tailIndex >= BLOCK_SIZE * 0
    BY <1>1, <2>1
  <2> QED BY <1>1, <2>2, Place, NumBetween
<1>4. tailIndex >= BLOCK_SIZE * (NextNumber - 1)
  <2>1. NextNumber - 1 \in Int
    BY <1>1
  <2>2. BLOCK_SIZE * ((NextNumber - 1) + 1) = BLOCK_SIZE * (NextNumber - 1) + BLOCK_SIZE
        /\ BLOCK_SIZE * (NextNumber - 1) \in Int
    BY <2>1, BasesOrdered
  <2>3. (NextNumber - 1) + 1 = NextNumber
    BY <1>1
  <2>4. BLOCK_SIZE * NextNumber = BLOCK_SIZE * (NextNumber - 1) + BLOCK_SIZE
    BY <2>2, <2>3
  <2> QED BY <1>1, <2>2, <2>4, BlockSize
<1>5. Num(tailIndex) = NextNumber - 1
  <2>1. NextNumber - 1 \in Int
    BY <1>1
  <2>2. Num(tailIndex) >= NextNumber - 1
    BY <1>1, <1>4, <2>1, NumBetween
  <2> QED BY <1>1, <1>2, <1>3, <2>2
<1>6. tailIndex \in Items(NextNumber - 1)
  <2>1. NextNumber - 1 \in Int
    BY <1>1
  <2> QED BY <1>1, <1>5, <2>1, NumBetween
<1>7. tailIndex \notin Finished
  BY <1>1
<1>8. NextNumber - 1 \in 0 .. NextNumber - 1
  BY <1>1, <1>3, <1>5
<1> QED BY <1>6, <1>7, <1>8 DEF InUse

\* What lies below a bound lies below a greater one.
LEMMA BoundGrows ==
  ASSUME NEW a \in Int, NEW d \in Int, NEW c \in Int, NEW p \in Int, NEW q \in Int, p <= q,
         a < p + c, d < p
  PROVE  a < q + c /\ d < q
  OBVIOUS

\* The keys stay what they are for as long as entries only lose their blocks.
LEMMA KeyedStays ==
  ASSUME NEW last \in Int, NEW none \in Int, Keyed(last, none), QueueBase,
         Capacity' = Capacity, \A n \in Int : Ent(n)' = Ent(n),
         UNCHANGED key, \A e \in Entries : value'[e] = value[e] \/ value'[e] = NoBlock,
         Top' <= last, NextNumber' \in Int, NextNumber' >= NextNumber,
         \A n \in Int : n >= NextNumber' /\ n \notin Linked' =>
           n \notin Linked \/ value'[Ent(n)] = NoBlock,
         prod'.pc = "grow" => prod.pc = "grow" /\ Top' = Top,
         prod'.pc \in {"publish", "requisition"} \cup Linking \cup Backing =>
           /\ prod.pc \in {"publish", "requisition"} \cup Linking \cup Backing
           /\ prod'.entry = prod.entry /\ AtNumber' = AtNumber
  PROVE  KeyInv'
<1>1. /\ NextNumber \in Nat /\ Capacity \in Nat \ {0} /\ EntsCover /\ AtNumber \in Int
  BY BaseFacts
<1>2. /\ Top' <= last /\ last < NextNumber' + Capacity' /\ none < NextNumber'
  <2>1. last < NextNumber + Capacity /\ none < NextNumber
    BY DEF Keyed
  <2>2. PICK p \in Int, q \in Int, cap \in Int : p = NextNumber /\ q = NextNumber' /\ cap = Capacity
    BY <1>1
  <2>3. p <= q
    BY <2>2
  <2>4. last < p + cap /\ none < p
    BY <2>1, <2>2, Zenon
  <2>6. last < q + cap /\ none < q
    BY <2>3, <2>4, BoundGrows, Zenon
  <2> QED BY <2>2, <2>6
<1>3. ASSUME NEW n \in last - Capacity + 1 .. last
      PROVE  /\ n > none => key'[Ent(n)'] = BLOCK_SIZE * n
             /\ n <= none => key'[Ent(n)'] = INVALID_BLOCK_BASE /\ value'[Ent(n)'] = NoBlock
             /\ n >= NextNumber' /\ n \notin Linked' => value'[Ent(n)'] = NoBlock
  <2>1. n \in Int /\ Ent(n)' = Ent(n) /\ Ent(n) \in Entries
    BY <1>1 DEF EntsCover
  <2>2. value'[Ent(n)] = value[Ent(n)] \/ value'[Ent(n)] = NoBlock
    BY <2>1
  <2>3. n > none => key[Ent(n)] = BLOCK_SIZE * n
    BY DEF Keyed
  <2>4. n <= none => key[Ent(n)] = INVALID_BLOCK_BASE /\ value[Ent(n)] = NoBlock
    BY DEF Keyed
  <2>5. ASSUME n >= NextNumber', n \notin Linked' PROVE value'[Ent(n)] = NoBlock
    <3>1. n >= NextNumber
      BY <1>1, <2>1, <2>5
    <3>2. n \notin Linked => value[Ent(n)] = NoBlock
      BY <3>1 DEF Keyed
    <3> QED BY <2>1, <2>2, <2>5, <3>2
  <2> QED BY <2>1, <2>2, <2>3, <2>4, <2>5
<1>4. prod'.pc \in {"publish", "requisition"} \cup Linking \cup Backing =>
        prod'.entry = Ent(AtNumber)' /\ AtNumber' <= last
  <2> SUFFICES ASSUME prod'.pc \in {"publish", "requisition"} \cup Linking \cup Backing
               PROVE  prod'.entry = Ent(AtNumber)' /\ AtNumber' <= last
    OBVIOUS
  <2>1. prod.entry = Ent(AtNumber) /\ AtNumber <= last
    BY DEF Keyed
  <2>2. Ent(AtNumber)' = Ent(AtNumber)
    <3>1. PICK a \in Int : a = AtNumber
      BY <1>1
    <3>2. Ent(a)' = Ent(a) /\ AtNumber' = a
      BY <3>1
    <3>3. Ent(AtNumber)' = Ent(a)'
      BY <3>2 DEF Ent
    <3> QED BY <3>1, <3>2, <3>3
  <2> QED BY <2>1, <2>2
<1>5. prod'.pc = "grow" => last = Top' /\ none <= Top' - Capacity'
  BY DEF Keyed
<1>6. Keyed(last, none)'
  BY <1>2, <1>3, <1>4, <1>5 DEF Keyed
<1> QED BY <1>6 DEF KeyInv

\* An entry stays linked.
LEMMA LinkedStays ==
  ASSUME NEW n \in Int, LinkedEntry(n), Ent(n)' = Ent(n), key'[Ent(n)] = key[Ent(n)],
         value'[Ent(n)] = value[Ent(n)], emptied'[value[Ent(n)]] = emptied[value[Ent(n)]],
         Items(n) \cap Finished' = Items(n) \cap Finished
  PROVE  LinkedEntry(n)'
  BY DEF LinkedEntry

\* The blocks stay linked for as long as the entries in use are left alone.
LEMMA LinkKept ==
  ASSUME QueueBase, LinkInv, InUse' \subseteq InUse, Linked' \subseteq Linked,
         \A n \in InUse' \cup Linked' :
           /\ Ent(n)' = Ent(n) /\ key'[Ent(n)] = key[Ent(n)] /\ value'[Ent(n)] = value[Ent(n)]
           /\ emptied'[value[Ent(n)]] = emptied[value[Ent(n)]],
         Finished' = Finished, UNCHANGED tailIndex, prod'.tailBlock = prod.tailBlock,
         NextNumber' = NextNumber,
         \A n \in Linked' : prod'.chain[n - NextNumber + 1] = prod.chain[n - NextNumber + 1],
         Unlinking' \subseteq Unlinking, \A d \in Unlinking' : cons'[d] = cons[d]
  PROVE  LinkInv'
<1>1. InUse \subseteq Int /\ Linked \subseteq Int /\ NextNumber \in Nat
  BY BaseFacts
<1>2. ASSUME NEW n \in InUse' \cup Linked' PROVE LinkedEntry(n)'
  <2>1. n \in Int /\ LinkedEntry(n)
    BY <1>1 DEF LinkInv
  <2> QED BY <2>1, LinkedStays
<1>3. ASSUME NEW n \in Linked' PROVE value'[Ent(n)'] = prod'.chain[n - NextNumber' + 1]
  <2>1. value[Ent(n)] = prod.chain[n - NextNumber + 1]
    BY DEF LinkInv
  <2> QED BY <2>1
<1>4. tailIndex' < BLOCK_SIZE * NextNumber' => prod'.tailBlock = value'[Ent(NextNumber - 1)']
  <2> SUFFICES ASSUME tailIndex < BLOCK_SIZE * NextNumber
               PROVE  prod.tailBlock = value'[Ent(NextNumber - 1)']
    OBVIOUS
  <2>1. prod.tailBlock = value[Ent(NextNumber - 1)]
    BY DEF LinkInv
  <2>2. /\ NextNumber - 1 \in InUse /\ tailIndex \in Items(NextNumber - 1)
           /\ tailIndex \notin Finished
    BY LastInUse
  <2>3. PICK n \in Int : n = NextNumber - 1
    BY <1>1
  <2>4. n \in 0 .. NextNumber' - 1 /\ ~(Items(n) \subseteq Finished')
    BY <2>2, <2>3 DEF InUse
  <2>5. n \in InUse'
    BY <2>4 DEF InUse
  <2>6. Ent(n)' = Ent(n) /\ value'[Ent(n)] = value[Ent(n)]
    BY <2>5
  <2>7. Ent(NextNumber - 1)' = Ent(n)'
    BY <2>3 DEF Ent
  <2> QED BY <2>1, <2>3, <2>6, <2>7
<1>5. \A c \in Unlinking' : Items(Num(cons'[c].index)) \subseteq Finished'
  BY DEF LinkInv
<1>6. \A c, d \in Unlinking' : Num(cons'[c].index) = Num(cons'[d].index) => c = d
  BY DEF LinkInv
<1> QED BY <1>2, <1>3, <1>4, <1>5, <1>6 DEF LinkInv

\* A key stays valid as long as neither it nor the place of its entry changes.
LEMMA ValidKeySame ==
  ASSUME NEW e, UNCHANGED key, \A n \in Int : Ent(n)' = Ent(n), ValidKey(e)
  PROVE  ValidKey(e)'
  BY DEF ValidKey

-----------------------------------------------------------------------------
(* The producer and the keys *)

\* The way of get_block_index_index_for_index() from the tail (concurrentqueue.h:2978-2983).
LEMMA OffsetIs ==
  ASSUME NEW a \in Int, NEW b \in Int
  PROVE  (BLOCK_SIZE * a - BLOCK_SIZE * b) \div BLOCK_SIZE = a - b
<1>1. BLOCK_SIZE * a \in Int /\ BLOCK_SIZE * b \in Int /\ BLOCK_SIZE * (a - b) \in Int
      /\ a - b \in Int
  BY BlockSize
<1>2. BLOCK_SIZE * a - BLOCK_SIZE * b = BLOCK_SIZE * (a - b)
  BY BlockSize
<1> DEFINE x == BLOCK_SIZE * a - BLOCK_SIZE * b
           q == a - b
           y == BLOCK_SIZE * q
<1>3. x \in Int /\ q \in Int /\ y \in Int /\ x = y + 0 /\ 0 \in 0 .. BLOCK_SIZE - 1
  BY <1>1, <1>2, BlockSize
<1>4. y = BLOCK_SIZE * q
  OBVIOUS
<1> HIDE DEF x, q, y
<1>5. x = BLOCK_SIZE * q + 0
  BY <1>3, <1>4
<1>6. x \div BLOCK_SIZE = q
  BY <1>3, <1>5, BlockSize, ModIs
<1> QED BY <1>6 DEF x, q

\* get_block_index_index_for_index() from the newest tail finds the entry of the item's number.
LEMMA EntryForIs ==
  ASSUME QueueBase, key[Ent(Top)] = BLOCK_SIZE * Top, NEW i \in Int
  PROVE  EntryFor(blockIndex, Header.tail, i) = Ent(Num(i))
<1>1. HeaderInv /\ Top \in Int /\ Capacity \in Nat \ {0}
  BY BaseFacts
<1>2. headers[blockIndex].index[Header.tail] = Ent(Top)
  BY <1>1, EntAtTop DEF Header
<1>3. Base(i) = BLOCK_SIZE * Num(i) /\ Num(i) \in Int
  BY Place
<1>4. (Base(i) - key[headers[blockIndex].index[Header.tail]]) \div BLOCK_SIZE = Num(i) - Top
  BY <1>1, <1>2, <1>3, OffsetIs
<1>5. EntryFor(blockIndex, Header.tail, i) = Header.index[(Header.tail + (Num(i) - Top)) % Capacity]
  BY <1>4 DEF EntryFor, Header, Capacity
<1>6. Header.tail \in Int
  BY <1>1, HeaderTypes DEF Entries
<1>7. Header.tail + (Num(i) - Top) = Header.tail + Num(i) - Top
  BY <1>1, <1>3, <1>6
<1> QED BY <1>5, <1>7 DEF Ent

\* A block that this call has added is behind the tail of the index.
LEMMA AddedIsValid ==
  ASSUME QueueBase, KeyInv, NEW n \in Int, NextNumber <= n, n <= Top
  PROVE  key[Ent(n)] = BLOCK_SIZE * n
<1>1. PICK last \in Int, none \in Int : Keyed(last, none)
  BY DEF KeyInv
<1>2. /\ NextNumber \in Nat /\ Capacity \in Nat \ {0} /\ Top \in Int
  BY BaseFacts
<1>3. Top <= last /\ last < NextNumber + Capacity /\ none < NextNumber
  BY <1>1 DEF Keyed
<1>4. n \in last - Capacity + 1 .. last /\ n > none
  BY <1>2, <1>3
<1> QED BY <1>1, <1>4 DEF Keyed

\* The steps of the producer that store no key and no tail.
LEMMA KeysUntouched ==
  ASSUME QueueBase, KeyInv, SameNumbers, UNCHANGED <<blockIndex, headers, key>>,
         \A e \in Entries : value'[e] = value[e] \/ value'[e] = NoBlock,
         prod'.pc # "grow",
         prod'.pc \in {"publish", "requisition"} \cup Linking \cup Backing =>
           /\ prod.pc \in {"publish", "requisition"} \cup Linking \cup Backing
           /\ prod'.entry = prod.entry /\ AtNumber' = AtNumber
  PROVE  KeyInv'
<1>1. PICK last \in Int, none \in Int : Keyed(last, none)
  BY DEF KeyInv
<1>2. NextNumber \in Int /\ NextNumber' = NextNumber /\ Top' = Top /\ Linked' = Linked
  BY BaseFacts DEF SameNumbers
<1>3. Capacity' = Capacity /\ \A n \in Int : Ent(n)' = Ent(n)
  BY <1>2, EntsSame
<1>4. Top <= last
  BY <1>1 DEF Keyed
<1>5. NextNumber' >= NextNumber
  BY <1>2
<1> QED BY <1>1, <1>2, <1>3, <1>4, <1>5, KeyedStays

\* The producer stores the key of the next entry if that has no block (:2931-2935).
LEMMA InsertKeys ==
  ASSUME QueueBase, StoredInv, InsertIndexEntry
  PROVE  KeyInv'
<1>1. PICK last \in Int, none \in Int : Keyed(last, none)
  BY DEF KeyInv, StoredInv
<1>2. /\ HeaderInv /\ ProducerInv /\ CounterType /\ StoreType /\ Top \in Int /\ NextNumber \in Nat
      /\ Chained \in Nat /\ AtNumber \in Int /\ EntsCover /\ Capacity \in Nat \ {0}
      /\ Entries = 0 .. Capacity - 1
  BY BaseFacts
<1>3. /\ NextNumber' = NextNumber /\ Top' = Top /\ Linked' = Linked /\ prod.pc = "insert"
      /\ prod'.pc \in {"publish", "grow"} /\ AtNumber' = AtNumber
      /\ prod'.pc = "publish" => prod'.entry = Header.index[NextSlot]
  BY <1>2, InsertLocals DEF SameNumbers
<1>4. UNCHANGED <<blockIndex, headers, value>>
  BY DEF InsertIndexEntry
<1>5. /\ Capacity' = Capacity /\ Entries' = Entries /\ \A n \in Int : Ent(n)' = Ent(n)
  BY <1>3, <1>4, EntsSame
<1>6. /\ AtNumber = NextNumber + Chained /\ Top = NextNumber + Chained - 1
      /\ Linked = NextNumber .. NextNumber + Chained - 1
      /\ prod.at = BLOCK_SIZE * AtNumber
  <2>1. AtNumber = NextNumber + Chained /\ prod.at = BLOCK_SIZE * (NextNumber + Chained)
    BY <1>2, <1>3, LocalNumbers DEF Entering, ProducerInv
  <2> QED BY <1>2, <1>3, <2>1 DEF Top, Linked, Undoing, Linking, Backing
<1>7. AtNumber = Top + 1
  BY <1>2, <1>6
<1>8. Header.index[NextSlot] = Ent(AtNumber)
  BY <1>2, <1>7, EntAtTop
<1> DEFINE e == Ent(AtNumber)
           free == key[e] = INVALID_BLOCK_BASE \/ value[e] = NoBlock
<1>9. e \in Entries
  BY <1>2 DEF EntsCover
<1>10. /\ free => key' = [key EXCEPT ![e] = prod.at] /\ prod'.pc = "publish"
       /\ ~free => UNCHANGED key /\ prod'.pc = "grow"
  BY <1>2, <1>8 DEF InsertIndexEntry, ProducerGoesTo, ProducerInv, ProducerType
<1>11. /\ Top <= last /\ last < NextNumber + Capacity /\ none < NextNumber
  BY <1>1 DEF Keyed
<1>12. key \in [Entries -> Int]
  BY <1>2 DEF StoreType
<1>12a. \A n \in last - Capacity + 1 .. last : n \in Int /\ Ent(n)' = Ent(n)
  BY <1>2, <1>5
<1>13. CASE Top < last
  <2>1. AtNumber \in last - Capacity + 1 .. last /\ AtNumber > none /\ AtNumber \notin Linked
        /\ AtNumber >= NextNumber
    BY <1>2, <1>6, <1>7, <1>11, <1>13
  <2>2. key[e] = BLOCK_SIZE * AtNumber /\ value[e] = NoBlock
    BY <1>1, <2>1 DEF Keyed
  <2>3. key' = key /\ prod'.pc = "publish"
    BY <1>6, <1>9, <1>10, <1>12, <2>2
  <2>4. Keyed(last, none)'
    <3>1. Top' <= last /\ last < NextNumber' + Capacity' /\ none < NextNumber'
      BY <1>3, <1>5, <1>11
    <3>2. ASSUME NEW n \in last - Capacity + 1 .. last
          PROVE  /\ n > none => key'[Ent(n)'] = BLOCK_SIZE * n
                 /\ n <= none => key'[Ent(n)'] = INVALID_BLOCK_BASE /\ value'[Ent(n)'] = NoBlock
                 /\ n >= NextNumber' /\ n \notin Linked' => value'[Ent(n)'] = NoBlock
      BY <1>1, <1>3, <1>4, <1>12a, <2>3 DEF Keyed
    <3>3. prod'.entry = Ent(AtNumber)' /\ AtNumber' <= last
      <4>1. Ent(AtNumber)' = Ent(AtNumber)
        <5>1. PICK a \in Int : a = AtNumber
          BY <1>2
        <5>2. Ent(a)' = Ent(a) /\ AtNumber' = a
          BY <1>3, <1>5, <5>1
        <5>3. Ent(AtNumber)' = Ent(a)'
          BY <5>2 DEF Ent
        <5> QED BY <5>1, <5>2, <5>3
      <4> QED BY <1>3, <1>8, <2>1, <2>3, <4>1
    <3> QED BY <1>5, <2>3, <3>1, <3>2, <3>3 DEF Keyed
  <2> QED BY <2>4 DEF KeyInv
<1>14. CASE Top = last
  <2>1. Ent(AtNumber) = Ent(last - Capacity + 1)
    <3>1. AtNumber = (last - Capacity + 1) + Capacity * 1 /\ last - Capacity + 1 \in Int
          /\ 1 \in Int
      BY <1>2, <1>7, <1>14
    <3>2. AtNumber % Capacity = (last - Capacity + 1) % Capacity
      BY <1>2, <3>1, SameMod
    <3> QED BY <1>2, <3>1, <3>2 DEF EntsCover
  <2>2. last - Capacity + 1 \in last - Capacity + 1 .. last
    BY <1>2
  <2>3. PICK low \in Int : low = last - Capacity + 1
    BY <1>2
  <2>4. /\ low > none => key[e] = BLOCK_SIZE * low
        /\ low <= none => key[e] = INVALID_BLOCK_BASE /\ value[e] = NoBlock
    BY <1>1, <2>1, <2>2, <2>3 DEF Keyed
  <2>5. CASE ~free
    <3>1. key' = key /\ prod'.pc = "grow"
      BY <1>10, <2>5
    <3>2. none <= Top - Capacity
      <4>1. ~(low <= none)
        BY <2>4, <2>5
      <4> QED BY <1>2, <1>14, <2>3, <4>1
    <3>3. Keyed(last, none)'
      <4>1. Top' <= last /\ last < NextNumber' + Capacity' /\ none < NextNumber'
        BY <1>3, <1>5, <1>11
      <4>2. ASSUME NEW n \in last - Capacity + 1 .. last
            PROVE  /\ n > none => key'[Ent(n)'] = BLOCK_SIZE * n
                   /\ n <= none => key'[Ent(n)'] = INVALID_BLOCK_BASE /\ value'[Ent(n)'] = NoBlock
                   /\ n >= NextNumber' /\ n \notin Linked' => value'[Ent(n)'] = NoBlock
        BY <1>1, <1>3, <1>4, <1>12a, <3>1 DEF Keyed
      <4>3. last = Top' /\ none <= Top' - Capacity'
        BY <1>3, <1>5, <1>14, <3>2
      <4>4. prod'.pc \notin {"publish", "requisition"} \cup Linking \cup Backing
        BY <3>1 DEF Linking, Backing
      <4> QED BY <1>5, <4>1, <4>2, <4>3, <4>4 DEF Keyed
    <3> QED BY <3>3 DEF KeyInv
  <2>6. CASE free
    <3>1. key' = [key EXCEPT ![e] = prod.at] /\ prod'.pc = "publish" /\ prod'.entry = e
      BY <1>3, <1>8, <1>10, <2>6
    <3>2. value[e] = NoBlock
      <4>1. CASE low <= none
        BY <2>4, <4>1
      <4>2. CASE low > none
        BY <2>3, <2>4, <2>6, <4>2, BaseIsValid
      <4> QED BY <1>1, <2>3, <4>1, <4>2
    \* There are fewer blocks of this call than entries: the entry after them is free.
    <3>3. Chained < Capacity
      <4> SUFFICES ASSUME Capacity <= Chained PROVE FALSE
        BY <1>2
      <4>1. low \in Linked
        BY <1>2, <1>6, <1>14, <2>3
      <4>2. value[e] \in Blocks
        BY <2>1, <2>3, <4>1 DEF StoredInv, LinkInv, LinkedEntry
      <4> QED BY <3>2, <4>2, BlockSize
    <3>4. PICK new \in Int : new = AtNumber
      BY <1>2
    <3>5. new = last + 1 /\ new < NextNumber + Capacity /\ none < new
      BY <1>2, <1>6, <1>7, <1>11, <1>14, <3>3, <3>4
    <3>6. ASSUME NEW n \in new - Capacity + 1 .. new
          PROVE  /\ n > none => key'[Ent(n)'] = BLOCK_SIZE * n
                 /\ n <= none => key'[Ent(n)'] = INVALID_BLOCK_BASE /\ value'[Ent(n)'] = NoBlock
                 /\ n >= NextNumber' /\ n \notin Linked' => value'[Ent(n)'] = NoBlock
      <4>0. n \in Int
        BY <1>2, <3>4
      <4>1. n \in Int /\ Ent(n)' = Ent(n) /\ Ent(n) \in Entries
        BY <1>2, <1>5, <4>0 DEF EntsCover
      <4>2. CASE n = new
        <5>1. key'[e] = BLOCK_SIZE * new
          BY <1>6, <1>9, <1>12, <3>1, <3>4
        <5> QED BY <1>4, <3>2, <3>4, <3>5, <4>1, <4>2, <5>1
      <4>3. CASE n # new
        <5>1. n \in last - Capacity + 1 .. last
          BY <1>2, <3>5, <4>1, <4>3
        <5>2. Ent(n) # e
          <6>1. n # new /\ n - new < Capacity /\ new - n < Capacity
            BY <1>2, <3>5, <4>1, <4>3
          <6> QED BY <1>2, <3>4, <4>1, <6>1, EntSame
        <5>3. key'[Ent(n)] = key[Ent(n)]
          BY <1>12, <3>1, <4>1, <5>2
        <5> QED BY <1>1, <1>3, <1>4, <4>1, <5>1, <5>3 DEF Keyed
      <4> QED BY <4>2, <4>3
    <3>7. prod'.entry = Ent(AtNumber)' /\ AtNumber' <= new
      <4>1. Ent(new)' = Ent(new) /\ AtNumber' = new
        BY <1>3, <1>5, <3>4
      <4>2. Ent(AtNumber)' = Ent(new)'
        BY <4>1 DEF Ent
      <4> QED BY <3>1, <3>4, <4>1, <4>2
    <3>8. Top' <= new /\ new < NextNumber' + Capacity' /\ none < NextNumber'
      BY <1>2, <1>3, <1>5, <1>11, <1>14, <3>5
    <3>9. Keyed(new, none)'
      BY <1>5, <3>1, <3>6, <3>7, <3>8 DEF Keyed
    <3> QED BY <3>9 DEF KeyInv
  <2> QED BY <2>5, <2>6
<1> QED BY <1>2, <1>11, <1>13, <1>14

-----------------------------------------------------------------------------
(* The keys at the other steps *)

\* What every step leaves of the entries, unless it makes a larger index: no header is
\* given other entries, and every number keeps its own.
EntriesStay ==
  /\ UNCHANGED blockIndex /\ Capacity' = Capacity /\ Entries' = Entries
  /\ \A n \in Int : Ent(n)' = Ent(n)
  /\ \A h \in 1 .. blockIndex :
       headers'[h].capacity = headers[h].capacity /\ headers'[h].index = headers[h].index

\* The larger index that new_block_index() made (concurrentqueue.h:3004-3027).
IndexGrows ==
  /\ prod.pc = "grow" /\ prod'.pc = "insert" /\ SameNumbers
  /\ headers' = Append(headers, LargerHeader(Header)) /\ blockIndex' = blockIndex + 1
  /\ \A e \in Entries : key'[e] = key[e] /\ value'[e] = value[e]
  /\ \A e \in Capacity .. 2 * Capacity - 1 :
       key'[e] = INVALID_BLOCK_BASE /\ value'[e] = NoBlock
  /\ UNCHANGED <<counters, blockVars, poolVars, cons>>
  /\ prod'.chain = prod.chain /\ prod'.tailBlock = prod.tailBlock

\* A step that stores no header and keeps the number of the tail.
LEMMA EntriesUntouched ==
  ASSUME UNCHANGED <<blockIndex, headers>>, Top' = Top
  PROVE  EntriesStay
<1>1. /\ Capacity' = Capacity /\ Entries' = Entries /\ \A n \in Int : Ent(n)' = Ent(n)
  BY EntsSame
<1> QED BY <1>1 DEF EntriesStay

\* A step of the producer keeps the entries or makes the index larger.
LEMMA EnqueueEntries ==
  ASSUME QueueBase, EnqueueStep
  PROVE  EntriesStay \/ IndexGrows
<1>1. /\ HeaderInv /\ ProducerInv /\ CounterType /\ Top \in Int /\ PoolType
  BY BaseFacts
<1>2. CASE StartEnqueue
  <2>1. UNCHANGED <<blockIndex, headers>> /\ Top' = Top
    BY <1>1, <1>2, StartLocals DEF SameNumbers, StartEnqueue, indexVars
  <2> QED BY <2>1, EntriesUntouched
<1>3. CASE CheckRoom
  <2>1. UNCHANGED <<blockIndex, headers>> /\ Top' = Top
    BY <1>1, <1>3, RoomLocals DEF SameNumbers, CheckRoom, indexVars
  <2> QED BY <2>1, EntriesUntouched
<1>4. CASE InsertIndexEntry
  <2>1. UNCHANGED <<blockIndex, headers>> /\ Top' = Top
    BY <1>1, <1>4, InsertLocals DEF SameNumbers, InsertIndexEntry
  <2> QED BY <2>1, EntriesUntouched
<1>5. CASE GrowIndex
  <2>1. SameNumbers /\ prod.pc = "grow" /\ Top' = Top
        /\ prod'.chain = prod.chain /\ prod'.tailBlock = prod.tailBlock
    BY <1>1, <1>5, GrowLocals DEF SameNumbers
  <2>2. CASE UNCHANGED indexVars
    BY <2>1, <2>2, EntriesUntouched DEF indexVars
  <2>3. CASE ~UNCHANGED indexVars
    <3>1. /\ headers' = Append(headers, LargerHeader(Header)) /\ blockIndex' = blockIndex + 1
          /\ prod' = [prod EXCEPT !.pc = "insert"]
          /\ UNCHANGED <<counters, blockVars, poolVars, cons>>
      BY <1>5, <2>3 DEF GrowIndex, ProducerGoesTo
    <3>2. /\ key' = [e \in 0 .. 2 * Capacity - 1 |-> IF e < Capacity THEN key[e] ELSE INVALID_BLOCK_BASE]
          /\ value' = [e \in 0 .. 2 * Capacity - 1 |-> IF e < Capacity THEN value[e] ELSE NoBlock]
      BY <1>5, <2>3 DEF GrowIndex, Capacity
    <3>3. Capacity \in Nat \ {0} /\ Entries = 0 .. Capacity - 1
      BY BaseFacts
    <3>4. /\ \A e \in Entries : key'[e] = key[e] /\ value'[e] = value[e]
          /\ \A e \in Capacity .. 2 * Capacity - 1 :
               key'[e] = INVALID_BLOCK_BASE /\ value'[e] = NoBlock
      BY <3>2, <3>3
    <3>5. prod'.pc = "insert"
      BY <1>1, <3>1 DEF ProducerInv, ProducerType
    <3> QED BY <2>1, <3>1, <3>4, <3>5 DEF IndexGrows
  <2> QED BY <2>2, <2>3
<1>6. CASE PublishIndexTail
  <2>1. HeaderInv' /\ Top' = Top + 1 /\ Entries' = Entries
    BY <1>1, <1>6, PublishLocals
  <2>2. NextSlot \in Entries /\ headers' = [headers EXCEPT ![blockIndex].tail = NextSlot]
        /\ UNCHANGED blockIndex
    BY <1>1, <1>6, HeaderTypes DEF PublishIndexTail
  <2>3. /\ Capacity' = Capacity /\ Header'.tail = NextSlot /\ Header'.index = Header.index
        /\ \A h \in 1 .. blockIndex :
             headers'[h].capacity = headers[h].capacity /\ headers'[h].index = headers[h].index
    BY <1>1, <2>2, TailStored
  <2>4. \A n \in Int : Ent(n)' = Ent(n)
    BY <1>1, <2>1, <2>3, EntMoved
  <2> QED BY <2>1, <2>2, <2>3, <2>4 DEF EntriesStay
<1>7. CASE RequisitionBlock
  <2>1. UNCHANGED <<blockIndex, headers>> /\ Top' = Top
    BY <1>1, <1>7, RequisitionLocals DEF SameNumbers, RequisitionBlock, indexVars
  <2> QED BY <2>1, EntriesUntouched
<1>8. CASE ConstructFirst
  <2>1. UNCHANGED <<blockIndex, headers>> /\ Top' = Top
    BY <1>1, <1>8, ConstructLocals DEF SameNumbers, ConstructFirst, indexVars
  <2> QED BY <2>1, EntriesUntouched
<1>9. CASE LinkBlock
  <2>1. UNCHANGED <<blockIndex, headers>> /\ Top' = Top
    BY <1>1, <1>9, LinkLocals DEF LinkBlock
  <2> QED BY <2>1, EntriesUntouched
<1>10. CASE FillBlocks
  <2>1. UNCHANGED <<blockIndex, headers>> /\ Top' = Top
    BY <1>1, <1>10, FillLocals DEF SameNumbers, FillBlocks, indexVars
  <2> QED BY <2>1, EntriesUntouched
<1>11. CASE StoreTail
  <2>1. UNCHANGED <<blockIndex, headers>> /\ Top' = Top
    BY <1>1, <1>11, StoreLocals DEF StoreTail, indexVars
  <2> QED BY <2>1, EntriesUntouched
<1>12. ASSUME RewindIndexTail \/ UndoTail
       PROVE  EntriesStay
  <2>1. Top' = Top - 1 /\ RewindTail /\ UNCHANGED blockIndex
    BY <1>1, <1>12, RewindLocals, UndoTailLocals DEF RewindIndexTail, UndoTail
  <2>2. /\ HeaderInv' /\ Capacity' = Capacity /\ Entries' = Entries
        /\ Header'.tail = (Header.tail - 1) % Capacity /\ Header'.index = Header.index
        /\ \A h \in 1 .. blockIndex :
             headers'[h].capacity = headers[h].capacity /\ headers'[h].index = headers[h].index
    BY <1>1, <2>1, TailRewound
  <2>3. \A n \in Int : Ent(n)' = Ent(n)
    BY <1>1, <2>1, <2>2, EntMoved
  <2> QED BY <2>1, <2>2, <2>3 DEF EntriesStay
<1>13. CASE ClearEntry
  <2>1. UNCHANGED <<blockIndex, headers>> /\ Top' = Top
    BY <1>1, <1>13, ClearLocals DEF SameNumbers, ClearEntry
  <2> QED BY <2>1, EntriesUntouched
<1>14. CASE UndoEntry
  <2>1. UNCHANGED <<blockIndex, headers>> /\ Top' = Top
    BY <1>1, <1>14, UndoEntryLocals DEF UndoEntry
  <2> QED BY <2>1, EntriesUntouched
<1>15. CASE GiveBlockBack
  <2>1. UNCHANGED <<blockIndex, headers>> /\ Top' = Top
    BY <1>1, <1>15, GiveBackLocals DEF GiveBlockBack, indexVars
  <2> QED BY <2>1, EntriesUntouched
<1> QED BY <1>2, <1>3, <1>4, <1>5, <1>6, <1>7, <1>8, <1>9, <1>10, <1>11, <1>12, <1>13, <1>14, <1>15
        DEF EnqueueStep

\* So the order of the entries is kept in every header.
LEMMA PhaseStep ==
  ASSUME QueueBase, PhaseInv, EntriesStay \/ IndexGrows
  PROVE  PhaseInv'
<1>1. CASE EntriesStay
  BY <1>1, PhaseKept DEF EntriesStay
<1>2. CASE IndexGrows
  <2>1. HeaderInv /\ Top \in Int
    BY BaseFacts
  <2> QED BY <1>2, <2>1, PhaseGrown DEF IndexGrows, SameNumbers
<1> QED BY <1>1, <1>2

-----------------------------------------------------------------------------

\* new_block_index() keeps the keys of the latest numbers (concurrentqueue.h:3004-3027).
LEMMA GrowKeys ==
  ASSUME QueueBase, QueueShape', KeyInv, LinkInv, IndexGrows
  PROVE  KeyInv'
<1>1. PICK last \in Int, none \in Int : Keyed(last, none)
  BY DEF KeyInv
<1>2. /\ HeaderInv /\ ProducerInv /\ CounterType /\ Top \in Int /\ NextNumber \in Nat
      /\ Chained \in Nat /\ EntsCover /\ Capacity \in Nat \ {0} /\ Entries = 0 .. Capacity - 1
  BY BaseFacts
<1>3. /\ prod.pc = "grow" /\ prod'.pc = "insert" /\ NextNumber' = NextNumber /\ Top' = Top
      /\ Linked' = Linked
  BY DEF IndexGrows, SameNumbers
<1>4. last = Top /\ none <= Top - Capacity
  BY <1>1, <1>3 DEF Keyed
<1>5. Capacity' = 2 * Capacity
  BY <1>2, IndexGrown DEF IndexGrows
<1>6. /\ \A n \in Top - Capacity + 1 .. Top : Ent(n)' = Ent(n)
      /\ \A n \in Top + 1 .. Top + Capacity : Ent(n)' \in Capacity .. 2 * Capacity - 1
  BY <1>2, <1>3, EntGrown DEF IndexGrows
<1>7. EntsCover'
  <2>1. (HeaderInv /\ Top \in Int)'
    BY <1>2, <1>3 DEF QueueShape
  <2> QED BY <2>1, EntsAreCovered, PTL
<1>8. Top - Capacity < NextNumber /\ Top < NextNumber + Capacity
  <2>1. Linked = NextNumber .. NextNumber + Chained - 1 /\ Top = NextNumber + Chained - 1
    BY <1>3 DEF Linked, Top, Linking, Backing, Undoing
  <2>2. CASE Chained = 0
    BY <1>2, <2>1, <2>2
  <2>3. CASE Chained > 0
    <3>1. NextNumber \in InUse \cup Linked
      BY <1>2, <2>1, <2>3
    <3>2. NextNumber \in last - Capacity + 1 .. last
      BY <1>1, <3>1, InWindow
    <3> QED BY <1>2, <1>4, <3>2
  <2> QED BY <1>2, <2>2, <2>3
<1>9. PICK low \in Int, cap \in Nat \ {0} : low = Top - Capacity /\ cap = Capacity
  BY <1>2
<1>10. ASSUME NEW n \in Top - Capacity' + 1 .. Top
       PROVE  /\ n > low => key'[Ent(n)'] = BLOCK_SIZE * n
              /\ n <= low => key'[Ent(n)'] = INVALID_BLOCK_BASE /\ value'[Ent(n)'] = NoBlock
              /\ n >= NextNumber /\ n \notin Linked => value'[Ent(n)'] = NoBlock
  <2>1. n \in Int /\ n <= Top /\ n > Top - 2 * Capacity
    BY <1>2, <1>5
  <2>2. CASE n > low
    <3>1. n \in Top - Capacity + 1 .. Top /\ n > none
      BY <1>2, <1>4, <1>9, <2>1, <2>2
    <3>2. Ent(n)' = Ent(n) /\ Ent(n) \in Entries
      BY <1>2, <1>6, <2>1, <3>1 DEF EntsCover
    <3>3. key'[Ent(n)] = key[Ent(n)] /\ value'[Ent(n)] = value[Ent(n)]
      BY <3>2 DEF IndexGrows
    <3>4. /\ key[Ent(n)] = BLOCK_SIZE * n
          /\ n >= NextNumber /\ n \notin Linked => value[Ent(n)] = NoBlock
      BY <1>1, <1>4, <3>1 DEF Keyed
    <3>5. ~(n <= low)
      BY <1>9, <2>1, <2>2
    <3> QED BY <3>2, <3>3, <3>4, <3>5
  <2>3. CASE n <= low
    <3>1. PICK m \in Int : m = n + 2 * Capacity
      BY <1>2, <2>1
    <3>2. m \in Top + 1 .. Top + Capacity
      BY <1>2, <1>9, <2>1, <2>3, <3>1
    <3>3. m % Capacity' = n % Capacity'
      <4>1. Capacity' \in Nat \ {0} /\ m = n + Capacity' * 1
        BY <1>2, <1>5, <2>1, <3>1
      <4> QED BY <2>1, <4>1, SameMod
    <3>4. Ent(n)' = Ent(m)'
      BY <1>7, <2>1, <3>3 DEF EntsCover
    <3>5. Ent(n)' \in Capacity .. 2 * Capacity - 1
      BY <1>6, <3>2, <3>4
    <3>6. key'[Ent(n)'] = INVALID_BLOCK_BASE /\ value'[Ent(n)'] = NoBlock
      BY <3>5 DEF IndexGrows
    <3>7. ~(n > low)
      BY <1>9, <2>1, <2>3
    <3> QED BY <3>6, <3>7
  <2> QED BY <1>9, <2>1, <2>2, <2>3
<1>11. Top < NextNumber + Capacity' /\ low < NextNumber /\ low <= Top - Capacity
  BY <1>2, <1>5, <1>8, <1>9
<1>12. Keyed(Top, low)'
  <2>1. /\ Top' <= Top' /\ Top' < NextNumber' + Capacity' /\ low < NextNumber'
    BY <1>2, <1>3, <1>11
  <2>2. prod'.pc \notin {"publish", "requisition"} \cup Linking \cup Backing /\ prod'.pc # "grow"
    BY <1>3 DEF Linking, Backing
  <2>3. PICK t \in Int : t = Top
    BY <1>2
  <2>4. Keyed(t, low)'
    BY <1>3, <1>10, <2>1, <2>2, <2>3 DEF Keyed
  <2> QED BY <1>3, <2>3, <2>4 DEF Keyed
<1>13. PICK t \in Int : t = Top'
  BY <1>2, <1>3
<1>14. Keyed(t, low)'
  BY <1>12, <1>13 DEF Keyed
<1> QED BY <1>14 DEF KeyInv

\* The entry gets its block (concurrentqueue.h:2555, :2706-2710).
LEMMA LinkKeys ==
  ASSUME QueueBase, KeyInv, LinkBlock
  PROVE  KeyInv'
<1>1. PICK last \in Int, none \in Int : Keyed(last, none)
  BY DEF KeyInv
<1>2. /\ HeaderInv /\ ProducerInv /\ CounterType /\ StoreType /\ Top \in Int /\ NextNumber \in Nat
      /\ Chained \in Nat /\ AtNumber \in Int /\ EntsCover /\ Capacity \in Nat \ {0}
  BY BaseFacts
<1>3. /\ NextNumber' = NextNumber /\ Top' = Top /\ prod.pc = "link"
      /\ prod'.pc \in {"room", "fill", "store"} /\ Linked' = Linked \cup {AtNumber}
      /\ AtNumber = NextNumber + Chained - 1 /\ Chained > 0
  BY <1>2, LinkLocals
<1>4. UNCHANGED <<blockIndex, headers, key>> /\ value' = [value EXCEPT ![prod.entry] = NewBlock]
  BY DEF LinkBlock
<1>5. Capacity' = Capacity /\ \A n \in Int : Ent(n)' = Ent(n)
  BY <1>3, <1>4, EntsSame
<1>6. prod.entry = Ent(AtNumber) /\ AtNumber <= last
  BY <1>1, <1>3 DEF Keyed, Linking
<1>7. Top <= last /\ last < NextNumber + Capacity /\ none < NextNumber
  BY <1>1 DEF Keyed
<1>8. PICK a \in Int : a = AtNumber /\ none < a /\ a <= last /\ last < a + Capacity
  BY <1>2, <1>3, <1>6, <1>7
<1>9. ASSUME NEW n \in last - Capacity + 1 .. last
      PROVE  /\ n > none => key[Ent(n)] = BLOCK_SIZE * n
             /\ n <= none => key[Ent(n)] = INVALID_BLOCK_BASE /\ value'[Ent(n)] = NoBlock
             /\ n >= NextNumber /\ n \notin Linked' => value'[Ent(n)] = NoBlock
  <2>1. n \in Int /\ n - a < Capacity /\ a - n < Capacity
    BY <1>2, <1>8
  <2>2. CASE n = a
    <3>1. n \in Linked' /\ ~(n <= none)
      BY <1>3, <1>8, <2>1, <2>2
    <3> QED BY <1>1, <3>1 DEF Keyed
  <2>3. CASE n # a
    <3>1. Ent(n) # Ent(a)
      BY <1>2, <1>8, <2>1, <2>3, EntSame
    <3>2. value'[Ent(n)] = value[Ent(n)]
      <4>1. value \in [Entries -> Pointers] /\ Ent(n) \in Entries
        BY <1>2, <2>1 DEF StoreType, EntsCover
      <4> QED BY <1>4, <1>6, <1>8, <3>1, <4>1
    <3>3. n \notin Linked' => n \notin Linked
      BY <1>3
    <3> QED BY <1>1, <3>2, <3>3 DEF Keyed
  <2> QED BY <2>2, <2>3
<1>10. ASSUME NEW n \in last - Capacity' + 1 .. last
       PROVE  n \in last - Capacity + 1 .. last /\ Ent(n)' = Ent(n)
  BY <1>2, <1>5
<1>11. Top' <= last /\ last < NextNumber' + Capacity' /\ none < NextNumber'
  BY <1>3, <1>5, <1>7
<1>12. prod'.pc \notin {"publish", "requisition"} \cup Linking \cup Backing /\ prod'.pc # "grow"
  BY <1>3 DEF Linking, Backing
<1>13. Keyed(last, none)'
  BY <1>3, <1>4, <1>9, <1>10, <1>11, <1>12 DEF Keyed
<1> QED BY <1>13 DEF KeyInv

\* enqueue_bulk() takes an entry out of the index by way of the key at the tail
\* (concurrentqueue.h:2775-2779).
LEMMA UndoneEntry ==
  ASSUME QueueBase, KeyInv, UndoEntry
  PROVE  /\ NextNumber + prod.undone \in Linked
         /\ value' = [value EXCEPT ![Ent(NextNumber + prod.undone)] = NoBlock]
<1>1. /\ HeaderInv /\ ProducerInv /\ CounterType /\ Top \in Int /\ NextNumber \in Nat
      /\ Chained \in Nat
  BY BaseFacts
<1>2. /\ Linked = NextNumber + prod.undone .. NextNumber + Chained - 1
      /\ Top = NextNumber + Chained - 1 - prod.undone /\ prod.undone \in 0 .. Chained - 1
  BY <1>1, UndoEntryLocals
<1>3. NextNumber <= Top
  BY <1>1, <1>2
<1>4. key[Ent(Top)] = BLOCK_SIZE * Top
  BY <1>1, <1>3, AddedIsValid
<1> DEFINE base == FirstNewBase + prod.undone * BLOCK_SIZE
<1>5. FirstNewBase = BLOCK_SIZE * NextNumber
  BY <1>1, NextBase
<1>6. PICK u \in Nat, n \in Nat : u = prod.undone /\ n = NextNumber
  BY <1>1, <1>2
<1>7. base = BLOCK_SIZE * (n + u) /\ base \in Int /\ n + u \in Int
  BY <1>5, <1>6, BlockSize
<1>8. Num(base) = n + u
  <2> DEFINE w == BLOCK_SIZE * (n + u)
  <2>1. w \in Int /\ w <= base /\ base < w + BLOCK_SIZE
    BY <1>7, BlockSize
  <2> QED BY <1>7, <2>1, NumOf
<1>9. EntryFor(blockIndex, Header.tail, base) = Ent(NextNumber + prod.undone)
  BY <1>4, <1>6, <1>7, <1>8, EntryForIs
<1>10. value' = [value EXCEPT ![EntryFor(blockIndex, Header.tail, base)] = NoBlock]
  BY DEF UndoEntry
<1>11. NextNumber + prod.undone \in Linked
  BY <1>1, <1>2
<1> QED BY <1>9, <1>10, <1>11

\* The keys stay as they are when a failed bulk takes back an entry.
LEMMA UndoKeys ==
  ASSUME QueueBase, KeyInv, UndoEntry
  PROVE  KeyInv'
<1>1. PICK last \in Int, none \in Int : Keyed(last, none)
  BY DEF KeyInv
<1>2. /\ HeaderInv /\ ProducerInv /\ CounterType /\ StoreType /\ Top \in Int /\ NextNumber \in Nat
      /\ EntsCover
  BY BaseFacts
<1>3. /\ NextNumber' = NextNumber /\ Top' = Top /\ Linked' = Linked \ {NextNumber + prod.undone}
      /\ prod'.pc = "undo_tail"
  BY <1>2, UndoEntryLocals
<1>4. UNCHANGED <<blockIndex, headers, key>>
  BY DEF UndoEntry
<1>5. Capacity' = Capacity /\ \A n \in Int : Ent(n)' = Ent(n)
  BY <1>3, <1>4, EntsSame
<1>6. PICK n0 \in Int : n0 = NextNumber + prod.undone
  <2>1. NextNumber + prod.undone \in Linked /\ Linked \subseteq Int
    BY UndoneEntry, BaseFacts
  <2> QED BY <2>1
<1>7. value' = [value EXCEPT ![Ent(n0)] = NoBlock] /\ Linked' = Linked \ {n0}
  BY <1>3, <1>6, UndoneEntry
<1>8. /\ \A e \in Entries : value'[e] = value[e] \/ value'[e] = NoBlock
      /\ value'[Ent(n0)] = NoBlock
  <2>1. value \in [Entries -> Pointers] /\ Ent(n0) \in Entries
    BY <1>2 DEF StoreType, EntsCover
  <2> QED BY <1>7, <2>1
<1>9. \A n \in Int : n >= NextNumber'
      /\ n \notin Linked' => n \notin Linked \/ value'[Ent(n)] = NoBlock
  BY <1>7, <1>8
<1>10. Top' <= last
  BY <1>1, <1>3 DEF Keyed
<1>11. prod'.pc \notin {"publish", "requisition"} \cup Linking \cup Backing /\ prod'.pc # "grow"
  BY <1>3 DEF Linking, Backing
<1>12. NextNumber' \in Int /\ NextNumber' >= NextNumber
  BY <1>2, <1>3
<1> QED BY <1>1, <1>4, <1>5, <1>8, <1>9, <1>10, <1>11, <1>12, KeyedStays

\* The steps that store a tail or tailIndex and no entry.
LEMMA TailKeys ==
  ASSUME QueueBase, QueueShape', KeyInv, EntriesStay, EnqueueStep,
         PublishIndexTail \/ RewindIndexTail \/ UndoTail \/ StoreTail \/ GiveBlockBack
  PROVE  KeyInv'
<1>1. PICK last \in Int, none \in Int : Keyed(last, none)
  BY DEF KeyInv
<1>2. /\ HeaderInv /\ ProducerInv /\ CounterType /\ Top \in Int /\ NextNumber \in Nat
      /\ Chained \in Nat /\ AtNumber \in Int
  BY BaseFacts
<1>3. Capacity' = Capacity /\ \A n \in Int : Ent(n)' = Ent(n)
  BY DEF EntriesStay
<1>4. Top <= last
  BY <1>1 DEF Keyed
<1>5. UNCHANGED <<key, value>>
  BY DEF PublishIndexTail, RewindIndexTail, UndoTail, StoreTail, GiveBlockBack, indexVars
<1>6. CASE PublishIndexTail
  <2>1. /\ NextNumber' = NextNumber /\ Top' = Top + 1 /\ Linked' = Linked
        /\ prod.pc = "publish" /\ prod'.pc = "requisition"
        /\ prod'.entry = prod.entry /\ AtNumber' = AtNumber
    BY <1>2, <1>6, PublishLocals
  <2>2. AtNumber = NextNumber + Chained /\ Top = NextNumber + Chained - 1
    BY <1>2, <2>1, LocalNumbers DEF Entering, Top, Undoing
  <2>3. AtNumber <= last
    BY <1>1, <2>1 DEF Keyed
  <2>4. Top' <= last
    BY <1>2, <2>1, <2>2, <2>3
  <2> QED BY <1>1, <1>2, <1>3, <1>5, <2>1, <2>4, KeyedStays
<1>7. CASE RewindIndexTail
  <2>1. /\ NextNumber' = NextNumber /\ Top' = Top - 1 /\ Linked' = Linked
        /\ prod.pc = "rewind" /\ prod'.pc = "clear"
        /\ prod'.entry = prod.entry /\ AtNumber' = AtNumber
    BY <1>2, <1>7, RewindLocals
  <2>2. Top' <= last
    BY <1>2, <1>4, <2>1
  <2>3. prod.pc \in Backing /\ prod'.pc # "grow"
    BY <2>1 DEF Backing
  <2> QED BY <1>1, <1>2, <1>3, <1>5, <2>1, <2>2, <2>3, KeyedStays
<1>8. CASE UndoTail
  <2>1. /\ NextNumber' = NextNumber /\ Top' = Top - 1 /\ Linked' = Linked
        /\ prod'.pc \in {"undo_entry", "give_back"}
    BY <1>2, <1>8, UndoTailLocals
  <2>2. Top' <= last
    BY <1>2, <1>4, <2>1
  <2>3. prod'.pc \notin {"publish", "requisition"} \cup Linking \cup Backing /\ prod'.pc # "grow"
    BY <2>1 DEF Linking, Backing
  <2> QED BY <1>1, <1>2, <1>3, <1>5, <2>1, <2>2, <2>3, KeyedStays
<1>9. CASE StoreTail
  <2>1. /\ NextNumber' = NextNumber + Chained /\ Top' = Top
        /\ Linked = NextNumber .. NextNumber + Chained - 1 /\ prod'.pc = "idle"
    BY <1>2, <1>9, StoreLocals
  <2>2. NextNumber' \in Int /\ NextNumber' >= NextNumber
    BY <1>2, <2>1
  <2>3. \A n \in Int : n >= NextNumber' => n \notin Linked
    BY <1>2, <2>1
  <2>4. Top' <= last
    BY <1>4, <2>1
  <2>5. prod'.pc \notin {"publish", "requisition"} \cup Linking \cup Backing /\ prod'.pc # "grow"
    BY <2>1 DEF Linking, Backing
  <2> QED BY <1>1, <1>3, <1>5, <2>2, <2>3, <2>4, <2>5, KeyedStays
<1>10. CASE GiveBlockBack
  <2>1. /\ NextNumber' = NextNumber /\ Top' = Top /\ Linked' = {} /\ Linked = {}
        /\ prod'.pc \in {"give_back", "idle"}
    BY <1>2, <1>10, GiveBackLocals
  <2>2. Top' <= last
    BY <1>4, <2>1
  <2>3. prod'.pc \notin {"publish", "requisition"} \cup Linking \cup Backing /\ prod'.pc # "grow"
    BY <2>1 DEF Linking, Backing
  <2> QED BY <1>1, <1>2, <1>3, <1>5, <2>1, <2>2, <2>3, KeyedStays
<1> QED BY <1>6, <1>7, <1>8, <1>9, <1>10

\* The steps that store neither a key nor a tail.
LEMMA QuietKeys ==
  ASSUME QueueBase, KeyInv, EntriesStay,
         StartEnqueue \/ CheckRoom \/ RequisitionBlock \/ ConstructFirst \/ FillBlocks
         \/ ClearEntry \/ (GrowIndex /\ UNCHANGED indexVars)
  PROVE  KeyInv'
<1>1. /\ HeaderInv /\ ProducerInv /\ CounterType /\ StoreType /\ PoolType
  BY BaseFacts
<1>2. SameNumbers /\ UNCHANGED <<blockIndex, headers, key>>
  BY <1>1, StartLocals, RoomLocals, RequisitionLocals, ConstructLocals, FillLocals, ClearLocals,
     GrowLocals
     DEF StartEnqueue, CheckRoom, RequisitionBlock, ConstructFirst, FillBlocks, ClearEntry,
         indexVars
<1>3. \A e \in Entries : value'[e] = value[e] \/ value'[e] = NoBlock
  <2>1. value \in [Entries -> Pointers]
    BY <1>1 DEF StoreType
  <2>2. UNCHANGED value \/ value' = [value EXCEPT ![prod.entry] = NoBlock]
    BY DEF StartEnqueue, CheckRoom, RequisitionBlock, ConstructFirst, FillBlocks, ClearEntry,
           indexVars
  <2> QED BY <2>1, <2>2
<1>4. CASE StartEnqueue \/ CheckRoom \/ FillBlocks \/ ClearEntry
           \/ (GrowIndex /\ UNCHANGED indexVars)
  <2>1. \/ prod'.pc \in {"room", "fill", "idle", "undo_entry", "store", "give_back"}
        \/ prod'.pc = "insert"
    BY <1>1, <1>4, StartLocals, RoomLocals, FillLocals, ClearLocals, GrowLocals
  <2>2. prod'.pc \notin {"publish", "requisition"} \cup Linking \cup Backing /\ prod'.pc # "grow"
    BY <2>1 DEF Linking, Backing
  <2> QED BY <1>2, <1>3, <2>2, KeysUntouched
<1>5. CASE RequisitionBlock
  <2>1. prod.pc = "requisition" /\ prod'.entry = prod.entry /\ AtNumber' = AtNumber
        /\ prod'.pc \in {"rewind"} \cup Linking
    BY <1>1, <1>5, RequisitionLocals DEF TakesBlock
  <2>2. prod'.pc # "grow"
    BY <2>1 DEF Linking
  <2> QED BY <1>2, <1>3, <2>1, <2>2, KeysUntouched
<1>6. CASE ConstructFirst
  <2>1. prod.pc \in Linking /\ prod'.entry = prod.entry /\ AtNumber' = AtNumber
        /\ prod'.pc \in {"link", "rewind"}
    BY <1>1, <1>6, ConstructLocals DEF Linking
  <2> QED BY <1>2, <1>3, <2>1, KeysUntouched
<1> QED BY <1>4, <1>5, <1>6

\* Every step of the producer.
LEMMA EnqueueKeys ==
  ASSUME QueueBase, QueueShape', StoredInv, EnqueueStep
  PROVE  KeyInv'
<1>1. KeyInv /\ LinkInv
  BY DEF StoredInv
<1>2. CASE IndexGrows
  BY <1>1, <1>2, GrowKeys
<1>3. CASE EntriesStay
  <2>1. GrowIndex => UNCHANGED indexVars
    <3>1. blockIndex \in Int /\ blockIndex' = blockIndex
      BY <1>3, BaseFacts DEF EntriesStay, HeaderInv
    <3> QED BY <3>1 DEF GrowIndex
  <2>2. CASE InsertIndexEntry
    BY <2>2, InsertKeys
  <2>3. CASE LinkBlock
    BY <1>1, <2>3, LinkKeys
  <2>4. CASE UndoEntry
    BY <1>1, <2>4, UndoKeys
  <2>5. CASE PublishIndexTail \/ RewindIndexTail \/ UndoTail \/ StoreTail \/ GiveBlockBack
    BY <1>1, <1>3, <2>5, TailKeys
  <2> QED BY <1>1, <1>3, <2>1, <2>2, <2>3, <2>4, <2>5, QuietKeys DEF EnqueueStep
<1> QED BY <1>2, <1>3, EnqueueEntries

-----------------------------------------------------------------------------
(* The steps of consumers and what they leave *)

\* A consumer stores no header, no key and none of the producer's locals.
LEMMA DequeueFrame ==
  ASSUME QueueBase, NEW c \in Consumers, DequeueStep(c)
  PROVE  /\ UNCHANGED <<tailIndex, blockIndex, headers, key, prod, initialBlockPoolIndex>>
         /\ EntriesStay
         /\ NextNumber' = NextNumber /\ Top' = Top /\ Linked' = Linked /\ AtNumber' = AtNumber
         /\ Chained' = Chained
         /\ ~UnlinkBlock(c) => UNCHANGED value
<1>1. UNCHANGED <<tailIndex, blockIndex, headers, key, prod, initialBlockPoolIndex>>
  BY DEF DequeueStep, LoadTail, LoadOvercommit, LooksFull, Claim, Recheck, Overcommit, ClaimHead,
         LoadBlockIndex, LoadIndexTail, FindEntry, TakeItems, SetEmpty, UnlinkBlock, RecycleBlock,
         counters, indexVars, poolVars
<1>2. ~UnlinkBlock(c) => UNCHANGED value
  BY DEF DequeueStep, LoadTail, LoadOvercommit, LooksFull, Claim, Recheck, Overcommit, ClaimHead,
         LoadBlockIndex, LoadIndexTail, FindEntry, TakeItems, SetEmpty, RecycleBlock, indexVars
<1>3. /\ NextNumber' = NextNumber /\ Top' = Top /\ Linked' = Linked /\ AtNumber' = AtNumber
      /\ Chained' = Chained
  BY <1>1, NumbersSame
<1>4. EntriesStay
  BY <1>1, <1>3, EntriesUntouched
<1> QED BY <1>1, <1>2, <1>3, <1>4

\* A step of a consumer that works on no items, or the step that it takes on them.
LEMMA DequeueCases ==
  ASSUME NEW c \in Consumers, DequeueStep(c)
  PROVE  \/ cons[c].pc \notin Working \cup {"head"}
         \/ ClaimHead(c) \/ LoadBlockIndex(c) \/ LoadIndexTail(c) \/ FindEntry(c) \/ TakeItems(c)
         \/ SetEmpty(c) \/ UnlinkBlock(c) \/ RecycleBlock(c)
  BY DEF DequeueStep, LoadTail, LoadOvercommit, LooksFull, Claim, Recheck, Overcommit, ConsumerAt,
         Working

\* An entry that loses its block to a consumer is free for the producer.
LEMMA DequeueKeys ==
  ASSUME QueueBase, KeyInv, NEW c \in Consumers, DequeueStep(c)
  PROVE  KeyInv'
<1>1. PICK last \in Int, none \in Int : Keyed(last, none)
  BY DEF KeyInv
<1>2. /\ UNCHANGED <<key, prod>> /\ EntriesStay /\ NextNumber' = NextNumber /\ Top' = Top
      /\ Linked' = Linked /\ AtNumber' = AtNumber /\ NextNumber \in Nat /\ StoreType
  BY DequeueFrame, BaseFacts
<1>3. \A e \in Entries : value'[e] = value[e] \/ value'[e] = NoBlock
  <2>1. value \in [Entries -> Pointers]
    BY <1>2 DEF StoreType
  <2>2. UnlinkBlock(c) => value' = [value EXCEPT ![EntryOf(c)] = NoBlock]
    BY DEF UnlinkBlock
  <2> QED BY <2>1, <2>2, DequeueFrame
<1>4. Top' <= last
  BY <1>1, <1>2 DEF Keyed
<1>5. Capacity' = Capacity /\ \A n \in Int : Ent(n)' = Ent(n)
  BY <1>2 DEF EntriesStay
<1>6. NextNumber' \in Int /\ NextNumber' >= NextNumber
  BY <1>2
<1> QED BY <1>1, <1>2, <1>3, <1>4, <1>5, <1>6, KeyedStays

\* A consumer at work on its items: their numbers.
LEMMA WorkNumber ==
  ASSUME QueueBase, NEW c \in Consumers, cons[c].pc \in Working
  PROVE  /\ Num(cons[c].index) \in 0 .. NextNumber - 1
         /\ cons[c].index \in Int /\ cons[c].stop \in Int /\ 0 <= cons[c].index
         /\ cons[c].index < cons[c].stop /\ cons[c].stop <= headIndex
         /\ Num(cons[c].index) <= Num(cons[c].stop - 1)
         /\ Num(cons[c].stop - 1) \in 0 .. NextNumber - 1
<1>1. ClaimIn(cons[c], headIndex) /\ cons[c] \in ConsumerType
  BY BaseFacts DEF QueueBase, ClaimsApart
<1>2. cons[c].index \in Int /\ cons[c].stop \in Int
  BY <1>1, ConsumerFields
<1>3. headIndex \in Nat /\ tailIndex \in Nat /\ headIndex <= tailIndex /\ NextNumber \in Nat
      /\ tailIndex <= BLOCK_SIZE * NextNumber /\ BLOCK_SIZE * NextNumber \in Int
  BY Bounds, BasesOrdered
<1>4. BLOCK_SIZE * 0 = 0
  BY BlockSize
<1> DEFINE i == cons[c].index
           j == cons[c].stop - 1
           w == BLOCK_SIZE * NextNumber
<1>5. i \in Int /\ j \in Int /\ 0 <= i /\ i <= j /\ j < headIndex
  BY <1>1, <1>2, <1>3 DEF ClaimIn
<1>6. i >= BLOCK_SIZE * 0 /\ j >= BLOCK_SIZE * 0
  BY <1>4, <1>5
<1>7. w \in Int /\ tailIndex <= w
  BY <1>3
<1>8. i < w /\ j < w
  <2> HIDE DEF w, i, j
  <2> QED BY <1>3, <1>5, <1>7
<1>9. Num(i) >= 0 /\ Num(j) >= 0 /\ Num(i) < NextNumber /\ Num(j) < NextNumber
      /\ Num(i) \in Int /\ Num(j) \in Int
  <2> HIDE DEF i, j
  <2> QED BY <1>3, <1>5, <1>6, <1>8, NumBetween, Place
<1>10. Num(i) <= Num(j)
  <2>1. i >= BLOCK_SIZE * Num(i)
    <3>1. PICK m \in Int : m = Num(i)
      BY <1>9
    <3>2. m >= Num(i)
      BY <3>1
    <3> QED BY <1>5, <3>1, <3>2, NumBetween
  <2>2. BLOCK_SIZE * Num(i) \in Int
    BY <1>9, BasesOrdered
  <2>3. PICK m \in Int, q \in Int : m = Num(i) /\ q = BLOCK_SIZE * Num(i)
    BY <1>9, <2>2
  <2>4. j >= q
    <3> HIDE DEF i, j
    <3> QED BY <1>5, <2>1, <2>3
  <2>5. j >= BLOCK_SIZE * m
    BY <2>3, <2>4
  <2>6. Num(j) >= m
    BY <1>5, <2>5, NumBetween
  <2> QED BY <2>3, <2>6
<1> QED BY <1>1, <1>2, <1>3, <1>5, <1>9, <1>10 DEF ClaimIn

\* The slot that a consumer has found is that of its number (concurrentqueue.h:2587-2590).
LEMMA EntryAtSlot ==
  ASSUME QueueBase, NEW c \in Consumers, Looked(c), cons[c].pc \in {"take", "empty", "unlink"}
  PROVE  EntryOf(c) = Ent(Num(cons[c].index))
<1>1. LocalType /\ HeaderInv /\ cons[c].pc \in LoadedSlot /\ cons[c].pc \in Working
  BY BaseFacts DEF LoadedSlot, Working
<1>2. /\ cons[c].slot \in 0 .. headers[cons[c].header].capacity - 1
      /\ headers[cons[c].header].capacity \in Nat \ {0}
  BY <1>1, EntryOfType
<1>3. Num(cons[c].index) \in Remaining(c) /\ Num(cons[c].index) \in Int
  BY <1>1, WorkNumber DEF Remaining
<1>4. headers[cons[c].header].index[(cons[c].slot + (Num(cons[c].index) - Num(cons[c].index)))
                                    % headers[cons[c].header].capacity] = Ent(Num(cons[c].index))
  BY <1>3 DEF Looked, AtSlot
<1>5. (cons[c].slot + (Num(cons[c].index) - Num(cons[c].index)))
        % headers[cons[c].header].capacity = cons[c].slot
  <2>1. PICK m \in Int : m = Num(cons[c].index)
    BY <1>3
  <2>2. cons[c].slot + (m - m) = cons[c].slot
    BY <1>2, <2>1
  <2>3. cons[c].slot % headers[cons[c].header].capacity = cons[c].slot
    <3> DEFINE s == cons[c].slot
               p == headers[cons[c].header].capacity
    <3>1. s \in 0 .. p - 1 /\ p \in Nat \ {0} /\ s = p * 0 + s
      BY <1>2
    <3> HIDE DEF s, p
    <3>2. s % p = s
      BY <3>1, ModIs
    <3> QED BY <3>2 DEF s, p
  <2> QED BY <2>1, <2>2, <2>3
<1> QED BY <1>4, <1>5 DEF EntryOf

-----------------------------------------------------------------------------
(* Who holds a block *)

\* A block is in one entry at most, and never in one while the producer holds it.
LEMMA OneEntry ==
  ASSUME OwnerInv, NEW e \in Entries, NEW f \in Entries, value[e] \in Blocks, value[e] = value[f]
  PROVE  e = f
<1>1. OwnedOnce(value[e])
  BY DEF OwnerInv
<1>2. PICK w, a : \A x, y : Held(value[e], x, y) <=> x = w /\ y = a
  BY <1>1 DEF OwnedOnce
<1>3. Held(value[e], "index", e) /\ Held(value[e], "index", f)
  BY DEF Held
<1> QED BY <1>2, <1>3

\* A block of the chain that has no entry yet is in none.
LEMMA ChainNotInIndex ==
  ASSUME OwnerInv, NEW k \in 1 .. Chained, NextNumber + k - 1 \notin Linked, NEW e \in Entries
  PROVE  value[e] # prod.chain[k] /\ prod.chain[k] \in Blocks
<1>1. prod.chain[k] \in Blocks
  BY DEF OwnerInv, Chained
<1>2. PICK w, a : \A x, y : Held(prod.chain[k], x, y) <=> x = w /\ y = a
  BY <1>1 DEF OwnerInv, OwnedOnce
<1>3. Held(prod.chain[k], "producer", k)
  BY DEF Held
<1>4. value[e] = prod.chain[k] => Held(prod.chain[k], "index", e)
  BY DEF Held
<1>5. w = "producer"
  BY <1>2, <1>3
<1> QED BY <1>1, <1>2, <1>4, <1>5

-----------------------------------------------------------------------------
(* Blocks stay linked while consumers work *)

\* A consumer's step that neither counts items nor unlinks a block.
LEMMA LinkQuiet ==
  ASSUME QueueBase, LinkInv, NEW c \in Consumers, DequeueStep(c), NEW r, Becomes(c, r),
         cons[c].pc # "unlink", r.pc # "unlink", Finished' = Finished, UNCHANGED emptied
  PROVE  LinkInv'
<1>1. /\ UNCHANGED <<tailIndex, key, prod>> /\ EntriesStay /\ NextNumber' = NextNumber
      /\ Linked' = Linked /\ InUse \subseteq Int /\ Linked \subseteq Int
      /\ ~UnlinkBlock(c) => UNCHANGED value
  BY DequeueFrame, BaseFacts
<1>2. UNCHANGED value
  BY <1>1 DEF UnlinkBlock, ConsumerAt
<1>3. Unlinking' = Unlinking /\ \A d \in Unlinking : cons'[d] = cons[d]
  BY UnlinkingSame
<1>4. InUse' = InUse
  BY <1>1, <1>3, InUseSame
<1>5. \A n \in InUse' \cup Linked' : Ent(n)' = Ent(n)
  BY <1>1, <1>4 DEF EntriesStay
<1> QED BY <1>1, <1>2, <1>3, <1>4, <1>5, LinkKept

\* The consumer that counted the last items of a block takes it out of its entry
\* (concurrentqueue.h:2627, :2886): nobody has a claim on the block any more.
LEMMA UnlinkLinks ==
  ASSUME QueueBase, LinkInv, LookupInv, NEW c \in Consumers, UnlinkBlock(c)
  PROVE  LinkInv'
<1>1. /\ UNCHANGED <<tailIndex, key, prod>> /\ EntriesStay /\ NextNumber' = NextNumber
      /\ Linked' = Linked /\ InUse \subseteq Int /\ Linked \subseteq Int
  BY DequeueFrame, BaseFacts DEF DequeueStep
<1>2. /\ cons[c].pc = "unlink" /\ value' = [value EXCEPT ![EntryOf(c)] = NoBlock]
      /\ UNCHANGED emptied
  BY DEF UnlinkBlock, ConsumerAt, blockVars
<1> DEFINE n0 == Num(cons[c].index)
<1>3. EntryOf(c) = Ent(n0)
  BY <1>2, EntryAtSlot DEF LookupInv
<1>4. n0 \in 0 .. NextNumber - 1 /\ NextNumber \in Nat
  BY <1>2, WorkNumber, BaseFacts DEF Working
<1>5. c \in Unlinking
  BY <1>2 DEF Unlinking
<1>6. n0 \in InUse
  BY <1>4, <1>5 DEF InUse
<1>7. Becomes(c, [cons[c] EXCEPT !.pc = "recycle"]) /\ cons[c] \in ConsumerType
  BY BaseFacts, UnlinkBecomes
<1>8. Finished' = Finished
  BY LookupClaims DEF QueueBase
<1>9. Unlinking' = Unlinking \ {c} /\ \A d \in Unlinking' : cons'[d] = cons[d]
  <2>1. cons'[c].pc = "recycle" /\ \A d \in Consumers : d # c => cons'[d] = cons[d]
    BY <1>7 DEF Becomes, ConsumerType
  <2> QED BY <2>1 DEF Unlinking
<1>10. InUse' \subseteq InUse \ {n0}
  <2> SUFFICES ASSUME NEW n \in InUse' PROVE n \in InUse /\ n # n0
    OBVIOUS
  <2>1. n \in 0 .. NextNumber - 1
    BY <1>1 DEF InUse
  <2>2. CASE ~(Items(n) \subseteq Finished)
    <3>1. Items(n0) \subseteq Finished
      BY <1>5 DEF LinkInv
    <3> QED BY <2>1, <2>2, <3>1 DEF InUse
  <2>3. CASE Items(n) \subseteq Finished
    <3>1. PICK d \in Unlinking' : Num(cons'[d].index) = n
      BY <1>8, <2>3 DEF InUse
    <3>2. d \in Unlinking /\ d # c /\ Num(cons[d].index) = n
      BY <1>9, <3>1
    <3>3. n # n0
      BY <1>5, <3>2 DEF LinkInv
    <3> QED BY <2>1, <3>2, <3>3 DEF InUse
  <2> QED BY <2>2, <2>3
<1>11. n0 \notin Linked
  BY <1>4, BaseFacts
<1>12. ASSUME NEW n \in InUse' \cup Linked'
       PROVE  Ent(n)' = Ent(n) /\ value'[Ent(n)] = value[Ent(n)]
  <2>1. n \in InUse \cup Linked /\ n # n0 /\ n \in Int
    BY <1>1, <1>10, <1>11
  <2>2. Ent(n) # Ent(n0)
    BY <1>6, <2>1, KeysApart
  <2>3. value \in [Entries -> Pointers] /\ Ent(n) \in Entries
    BY <2>1, BaseFacts DEF StoreType, EntsCover
  <2>4. value'[Ent(n)] = value[Ent(n)]
    BY <1>2, <1>3, <2>2, <2>3
  <2> QED BY <1>1, <2>1, <2>4 DEF EntriesStay
<1> HIDE DEF n0
<1> QED BY <1>1, <1>2, <1>8, <1>9, <1>10, <1>12, LinkKept

\* set_empty() and set_many_empty() (concurrentqueue.h:2621, :2879): the block counts
\* the items, and reaches BLOCK_SIZE with the last of them.
LEMMA EmptyLinks ==
  ASSUME QueueBase, LinkInv, LookupInv, OwnerInv, NEW c \in Consumers, SetEmpty(c)
  PROVE  LinkInv'
<1>1. /\ UNCHANGED <<tailIndex, key, prod>> /\ EntriesStay /\ NextNumber' = NextNumber
      /\ Linked' = Linked /\ InUse \subseteq Int /\ Linked \subseteq Int
      /\ InUse \subseteq 0 .. NextNumber - 1 /\ NextNumber \in Nat
      /\ Linked \subseteq NextNumber .. NextNumber + Chained - 1 /\ Chained \in Nat
  BY DequeueFrame, BaseFacts DEF DequeueStep
<1>2. cons[c].pc = "empty" /\ UNCHANGED value
  BY DEF SetEmpty, ConsumerAt, indexVars
<1> DEFINE n0 == Num(cons[c].index)
           b == cons[c].block
           done == cons[c].index .. EndOf(cons[c]) - 1
           full == emptied[b] + EndOf(cons[c]) - cons[c].index = BLOCK_SIZE
<1>3. cons[c] \in ConsumerType /\ cons[c].index < cons[c].stop /\ n0 \in 0 .. NextNumber - 1
      /\ n0 \in Int /\ cons[c].index \in Int /\ cons[c].stop \in Int /\ 0 <= cons[c].index
      /\ cons[c].stop <= headIndex
  <2>1. cons[c].pc \in Working
    BY <1>2 DEF Working
  <2> QED BY <1>1, <2>1, WorkNumber, BaseFacts
<1>4. b = value[Ent(n0)]
  BY <1>2 DEF LookupInv, Looked
<1>5. done \subseteq Items(n0) /\ cons[c].index \in done /\ EndOf(cons[c]) \in Int
      /\ cons[c].index < EndOf(cons[c])
  <2>1. /\ EndOf(cons[c]) \in Int /\ cons[c].index < EndOf(cons[c])
        /\ EndOf(cons[c]) <= BLOCK_SIZE * n0 + BLOCK_SIZE
        /\ BLOCK_SIZE * n0 \in Int /\ BLOCK_SIZE * n0 <= cons[c].index
    BY <1>3, EndIs
  <2>2. PICK w \in Int, i \in Int, k \in Int :
          w = BLOCK_SIZE * n0 /\ i = cons[c].index /\ k = EndOf(cons[c])
    BY <1>3, <2>1
  <2>3. i .. k - 1 \subseteq w .. w + BLOCK_SIZE - 1 /\ i \in i .. k - 1
    BY <2>1, <2>2, BlockSize
  <2> QED BY <2>1, <2>2, <2>3 DEF Items
<1>6. Finished' = Finished \cup done /\ Finished \cap done = {}
  BY EmptyClaims DEF QueueBase
<1>7. n0 \in InUse
  <2>1. ~(Items(n0) \subseteq Finished)
    BY <1>5, <1>6
  <2> QED BY <1>3, <2>1 DEF InUse
<1>8. LinkedEntry(n0) /\ b \in Blocks
  BY <1>4, <1>7 DEF LinkInv, LinkedEntry
<1>9. Becomes(c, IF full THEN [cons[c] EXCEPT !.pc = "unlink"] ELSE AfterBlock(c))
  BY SetEmptyBecomes, EndOfConsumer, BaseFacts
<1>10. emptied' = [emptied EXCEPT ![b] = emptied[b] + EndOf(cons[c]) - cons[c].index]
  BY EndOfConsumer DEF SetEmpty
<1>11. emptied \in [Blocks -> Int]
  BY BaseFacts DEF StoreType
\* What the block counts from here on.
<1>12. /\ emptied'[b] = Cardinality(Items(n0) \cap Finished')
       /\ full <=> Items(n0) \subseteq Finished'
  <2>1. IsFiniteSet(Items(n0)) /\ Cardinality(Items(n0)) = BLOCK_SIZE
    BY <1>3, ItemsCount
  <2>2. IsFiniteSet(done) /\ Cardinality(done) = EndOf(cons[c]) - cons[c].index
    <3>1. PICK i \in Int, k \in Int : i = cons[c].index /\ k = EndOf(cons[c])
      BY <1>3, <1>5
    <3>2. i <= k - 1 /\ k - 1 \in Int /\ (k - 1) - i + 1 = k - i
      BY <1>5, <3>1
    <3>3. IsFiniteSet(i .. k - 1) /\ Cardinality(i .. k - 1) = k - i
      BY <3>2, FS_Interval
    <3> QED BY <3>1, <3>3
  <2>3. Items(n0) \cap Finished' = (Items(n0) \cap Finished) \cup done
        /\ (Items(n0) \cap Finished) \cap done = {}
    BY <1>5, <1>6
  <2> DEFINE old == Items(n0) \cap Finished
  <2>4. IsFiniteSet(old) /\ IsFiniteSet(Items(n0) \cap Finished')
    BY <2>1, FS_Subset
  <2>5. Cardinality(old) \in Nat /\ Cardinality(done) \in Nat
    BY <2>2, <2>4, FS_CardinalityType
  <2>6. Cardinality(old \cup done) = Cardinality(old) + Cardinality(done) - Cardinality(old \cap done)
    BY <2>2, <2>4, FS_Union
  <2>7. Cardinality(old \cap done) = 0
    BY <2>3, FS_EmptySet
  <2>8. Cardinality(Items(n0) \cap Finished') = Cardinality(old) + Cardinality(done)
    <3>1. PICK p \in Nat, q \in Nat : p = Cardinality(old) /\ q = Cardinality(done)
      BY <2>5
    <3>2. Cardinality(old \cup done) = p + q - 0
      BY <2>6, <2>7, <3>1
    <3>3. p + q - 0 = p + q
      OBVIOUS
    <3> QED BY <2>3, <3>1, <3>2, <3>3
  <2>9. emptied[b] = Cardinality(old)
    BY <1>4, <1>8 DEF LinkedEntry
  <2>10. emptied'[b] = emptied[b] + EndOf(cons[c]) - cons[c].index
    BY <1>8, <1>10, <1>11
  <2>11. emptied[b] + EndOf(cons[c]) - cons[c].index = Cardinality(Items(n0) \cap Finished')
    <3>1. PICK i \in Int, k \in Int, p \in Nat, q \in Nat :
            i = cons[c].index /\ k = EndOf(cons[c]) /\ p = Cardinality(old) /\ q = Cardinality(done)
      BY <1>3, <1>5, <2>5
    <3>2. p + k - i = p + q
      BY <2>2, <3>1
    <3> QED BY <2>8, <2>9, <3>1, <3>2
  <2>12. Cardinality(Items(n0) \cap Finished') = Cardinality(Items(n0))
           <=> Items(n0) \subseteq Finished'
    <3>1. Items(n0) \cap Finished' \subseteq Items(n0)
      OBVIOUS
    <3>2. Cardinality(Items(n0) \cap Finished') = Cardinality(Items(n0))
            => Items(n0) \cap Finished' = Items(n0)
      BY <2>1, <3>1, FS_Subset
    <3>3. Items(n0) \subseteq Finished' => Items(n0) \cap Finished' = Items(n0)
      OBVIOUS
    <3> HIDE DEF n0
    <3> QED BY <3>2, <3>3
  <2> QED BY <2>1, <2>10, <2>11, <2>12
<1>13. \A d \in Consumers : d # c => cons'[d] = cons[d]
  BY <1>9 DEF Becomes
<1>14. c \in Unlinking' => full /\ cons'[c].index = cons[c].index
  <2>1. CASE full
    BY <1>3, <1>9, <2>1 DEF Becomes, ConsumerType
  <2>2. CASE ~full
    <3>1. cons'[c] = AfterBlock(c)
      BY <1>9, <2>2 DEF Becomes
    <3>2. AfterBlock(c).pc # "unlink"
      <4>1. LocalType /\ cons[c].pc \in Working /\ ClaimsApart
        BY <1>2, BaseFacts DEF Working, QueueBase
      <4> QED BY <4>1, AfterBlockOwed DEF Working
    <3> QED BY <3>1, <3>2 DEF Unlinking
  <2> QED BY <2>1, <2>2
<1>15. \A d \in Unlinking' : Num(cons'[d].index) = n0 => d = c
  <2> SUFFICES ASSUME NEW d \in Unlinking', Num(cons'[d].index) = n0, d # c PROVE FALSE
    OBVIOUS
  <2>1. cons'[d] = cons[d] /\ d \in Unlinking
    BY <1>13 DEF Unlinking
  <2>2. Items(n0) \subseteq Finished
    BY <2>1 DEF LinkInv
  <2> QED BY <1>5, <1>6, <2>2
<1>16. InUse' \subseteq InUse
  <2> SUFFICES ASSUME NEW n \in InUse' PROVE n \in InUse
    OBVIOUS
  <2>1. n \in 0 .. NextNumber - 1
    BY <1>1 DEF InUse
  <2>2. CASE ~(Items(n) \subseteq Finished')
    BY <1>6, <2>1, <2>2 DEF InUse
  <2>3. CASE Items(n) \subseteq Finished'
    <3>1. PICK d \in Unlinking' : Num(cons'[d].index) = n
      BY <2>3 DEF InUse
    <3>2. CASE d = c
      BY <1>7, <1>14, <3>1, <3>2
    <3>3. CASE d # c
      BY <1>13, <2>1, <3>1, <3>3 DEF InUse, Unlinking
    <3> QED BY <3>2, <3>3
  <2> QED BY <2>2, <2>3
<1>17. ASSUME NEW n \in InUse' \cup Linked' PROVE LinkedEntry(n)'
  <2>1. n \in InUse \cup Linked /\ n \in Int /\ LinkedEntry(n) /\ Ent(n)' = Ent(n)
    BY <1>1, <1>16 DEF LinkInv, EntriesStay
  <2>2. CASE n = n0
    <3>1. emptied'[value[Ent(n)]] = Cardinality(Items(n) \cap Finished')
      BY <1>4, <1>12, <2>2
    <3> QED BY <1>1, <1>2, <2>1, <3>1 DEF LinkedEntry
  <2>3. CASE n # n0
    <3>1. Ent(n) # Ent(n0)
      BY <1>7, <2>1, <2>3, KeysApart
    <3>2. Ent(n) \in Entries /\ Ent(n0) \in Entries
      BY <1>3, <2>1, BaseFacts DEF EntsCover
    <3>3. value[Ent(n)] # b
      BY <1>4, <1>8, <3>1, <3>2, OneEntry
    <3>4. emptied'[value[Ent(n)]] = emptied[value[Ent(n)]]
      BY <1>10, <1>11, <2>1, <3>3 DEF LinkedEntry
    <3>5. Items(n) \cap done = {}
      <4> SUFFICES ASSUME NEW i \in Items(n), i \in Items(n0) PROVE FALSE
        BY <1>5
      <4>1. i \in Int
        BY <2>1, BasesOrdered DEF Items
      <4> QED BY <1>3, <2>1, <2>3, <4>1, NumBetween
    <3>6. Items(n) \cap Finished' = Items(n) \cap Finished
      BY <1>6, <3>5
    <3> QED BY <1>1, <1>2, <2>1, <3>4, <3>6, LinkedStays
  <2> QED BY <2>2, <2>3
<1>18. \A n \in Linked' : value'[Ent(n)'] = prod'.chain[n - NextNumber' + 1]
  BY <1>1, <1>2 DEF LinkInv, EntriesStay
<1>19. tailIndex' < BLOCK_SIZE * NextNumber' => prod'.tailBlock = value'[Ent(NextNumber - 1)']
  <2>1. PICK n \in Int : n = NextNumber - 1
    BY <1>1
  <2>2. Ent(NextNumber - 1)' = Ent(n)'
    BY <1>1, <2>1 DEF Ent
  <2> QED BY <1>1, <1>2, <2>1, <2>2 DEF LinkInv, EntriesStay
<1>20. \A d \in Unlinking' : Items(Num(cons'[d].index)) \subseteq Finished'
  <2> TAKE d \in Unlinking'
  <2>1. CASE d = c
    BY <1>12, <1>14, <2>1
  <2>2. CASE d # c
    BY <1>6, <1>13, <2>2 DEF LinkInv, Unlinking
  <2> QED BY <2>1, <2>2
<1>21. \A d, e \in Unlinking' : Num(cons'[d].index) = Num(cons'[e].index) => d = e
  <2> SUFFICES ASSUME NEW d \in Unlinking', NEW e \in Unlinking',
                      Num(cons'[d].index) = Num(cons'[e].index)
               PROVE  d = e
    OBVIOUS
  <2>1. CASE d = c \/ e = c
    BY <1>14, <1>15, <2>1
  <2>2. CASE d # c /\ e # c
    BY <1>13, <2>2 DEF LinkInv, Unlinking
  <2> QED BY <2>1, <2>2
<1> QED BY <1>17, <1>18, <1>19, <1>20, <1>21 DEF LinkInv

\* Every step of a consumer.
LEMMA DequeueLinks ==
  ASSUME QueueBase, LinkInv, LookupInv, OwnerInv, NEW c \in Consumers, DequeueStep(c)
  PROVE  LinkInv'
<1>1. QueueShape /\ ClaimsApart /\ LocalType /\ HeaderInv /\ CounterType /\ StoreType
      /\ cons \in [Consumers -> ConsumerType] /\ ClaimType(cons[c]) /\ headIndex \in Int
  BY BaseFacts DEF QueueBase, CounterInv, CounterType
<1>2. CASE cons[c].pc \notin Working \cup {"head"}
  <2>1. PICK r : Becomes(c, r) /\ r.pc \notin Working
    BY <1>1, <1>2, QuietClaims
  <2>2. Finished' = Finished /\ UNCHANGED emptied
    BY <1>1, <1>2, QuietClaims
  <2> QED BY <1>2, <2>1, <2>2, LinkQuiet DEF Working
<1>3. CASE ClaimHead(c)
  <2>1. PICK r : Becomes(c, r) /\ r.pc = "header"
    <3>1. Becomes(c, [cons[c] EXCEPT !.pc = "header", !.index = headIndex, !.desired = 0,
                                    !.stop = headIndex + cons[c].stop])
      BY <1>1, <1>3, ClaimHeadBecomes
    <3>2. cons[c] \in ConsumerType
      BY <1>1
    <3>3. [cons[c] EXCEPT !.pc = "header", !.index = headIndex, !.desired = 0,
                                    !.stop = headIndex + cons[c].stop].pc = "header"
      BY <3>2 DEF ConsumerType
    <3> QED BY <3>1, <3>3
  <2>2. Finished' = Finished /\ UNCHANGED emptied /\ cons[c].pc = "head"
    BY <1>1, <1>3, ApartClaimed DEF ClaimHead, blockVars, ConsumerAt
  <2> QED BY <2>1, <2>2, LinkQuiet
<1>4. CASE LoadBlockIndex(c)
  <2>1. PICK r : Becomes(c, r) /\ r.pc = "slot"
    <3>1. Becomes(c, [cons[c] EXCEPT !.pc = "slot", !.header = blockIndex])
      BY <1>1, <1>4, LoadBlockIndexBecomes
    <3>2. cons[c] \in ConsumerType
      BY <1>1
    <3>3. [cons[c] EXCEPT !.pc = "slot", !.header = blockIndex].pc = "slot"
      BY <3>2 DEF ConsumerType
    <3> QED BY <3>1, <3>3
  <2>2. Finished' = Finished /\ UNCHANGED emptied /\ cons[c].pc = "header"
    BY <1>1, <1>4, LookupClaims DEF LoadBlockIndex, blockVars, ConsumerAt
  <2> QED BY <2>1, <2>2, LinkQuiet
<1>5. CASE LoadIndexTail(c)
  <2>1. PICK r : Becomes(c, r) /\ r.pc = "find"
    <3>1. Becomes(c, [cons[c] EXCEPT !.pc = "find", !.slot = headers[cons[c].header].tail])
      BY <1>1, <1>5, LoadIndexTailBecomes
    <3>2. cons[c] \in ConsumerType
      BY <1>1
    <3>3. [cons[c] EXCEPT !.pc = "find", !.slot = headers[cons[c].header].tail].pc = "find"
      BY <3>2 DEF ConsumerType
    <3> QED BY <3>1, <3>3
  <2>2. Finished' = Finished /\ UNCHANGED emptied /\ cons[c].pc = "slot"
    BY <1>1, <1>5, LookupClaims DEF LoadIndexTail, blockVars, ConsumerAt
  <2> QED BY <2>1, <2>2, LinkQuiet
<1>6. CASE FindEntry(c)
  <2>1. PICK r : Becomes(c, r) /\ r.pc = "take"
    <3>1. Becomes(c, [cons[c] EXCEPT !.pc = "take", !.slot = FoundSlot(c)])
      BY <1>1, <1>6, FindEntryBecomes
    <3>2. cons[c] \in ConsumerType
      BY <1>1
    <3>3. [cons[c] EXCEPT !.pc = "take", !.slot = FoundSlot(c)].pc = "take"
      BY <3>2 DEF ConsumerType
    <3> QED BY <3>1, <3>3
  <2>2. Finished' = Finished /\ UNCHANGED emptied /\ cons[c].pc = "find"
    BY <1>1, <1>6, LookupClaims DEF FindEntry, blockVars, ConsumerAt
  <2> QED BY <2>1, <2>2, LinkQuiet
<1>7. CASE TakeItems(c)
  <2>1. PICK r : Becomes(c, r) /\ r.pc = "empty"
    <3>1. Becomes(c, [cons[c] EXCEPT !.pc = "empty", !.block = value[EntryOf(c)]])
      BY <1>1, <1>7, TakeBecomes
    <3>2. cons[c] \in ConsumerType
      BY <1>1
    <3>3. [cons[c] EXCEPT !.pc = "empty", !.block = value[EntryOf(c)]].pc = "empty"
      BY <3>2 DEF ConsumerType
    <3> QED BY <3>1, <3>3
  <2>2. Finished' = Finished /\ UNCHANGED emptied /\ cons[c].pc = "take"
    BY <1>1, <1>7, TakeClaims DEF TakeItems, ConsumerAt
  <2> QED BY <2>1, <2>2, LinkQuiet
<1>8. CASE RecycleBlock(c)
  <2>1. cons[c].pc = "recycle" /\ UNCHANGED emptied /\ Finished' = Finished
    BY <1>1, <1>8, RecycleClaims DEF RecycleBlock, ConsumerAt, blockVars
  <2>2. Becomes(c, AfterBlock(c))
    BY <1>1, <1>8, RecycleBecomes
  <2>3. AfterBlock(c).pc # "unlink"
    <3>1. cons[c].pc \in Working
      BY <2>1 DEF Working
    <3> QED BY <1>1, <3>1, AfterBlockOwed DEF Working
  <2> QED BY <2>1, <2>2, <2>3, LinkQuiet
<1>9. CASE SetEmpty(c)
  BY <1>9, EmptyLinks
<1>10. CASE UnlinkBlock(c)
  BY <1>10, UnlinkLinks
<1> QED BY <1>2, <1>3, <1>4, <1>5, <1>6, <1>7, <1>8, <1>9, <1>10, DequeueCases

-----------------------------------------------------------------------------
(* Blocks stay linked while the producer works *)

\* A step of the producer that changes no entry in use and no count of its block.
LEMMA LinkProducer ==
  ASSUME QueueBase, LinkInv, UNCHANGED <<tailIndex, headIndex, cons>>, NextNumber' = NextNumber,
         Linked' \subseteq Linked, prod'.tailBlock = prod.tailBlock,
         \A n \in Linked' : prod'.chain[n - NextNumber + 1] = prod.chain[n - NextNumber + 1],
         \A n \in InUse \cup Linked' :
           /\ Ent(n)' = Ent(n) /\ key'[Ent(n)] = key[Ent(n)] /\ value'[Ent(n)] = value[Ent(n)]
           /\ emptied'[value[Ent(n)]] = emptied[value[Ent(n)]]
  PROVE  LinkInv'
<1>1. Unlinking' = Unlinking /\ Finished' = Finished
  BY ClaimsSame DEF Unlinking
<1>2. InUse' = InUse
  BY <1>1, InUseSame
<1> QED BY <1>1, <1>2, LinkKept

\* The numbers and entries that the producer's steps keep, in one place.
LEMMA InUseEnts ==
  ASSUME QueueBase, EntriesStay
  PROVE  /\ \A n \in InUse \cup Linked : n \in Int /\ Ent(n)' = Ent(n) /\ Ent(n) \in Entries
         /\ Linked \subseteq NextNumber .. NextNumber + Chained - 1 /\ NextNumber \in Nat
         /\ Chained \in Nat /\ InUse \subseteq 0 .. NextNumber - 1
<1>1. /\ InUse \subseteq Int /\ Linked \subseteq Int /\ EntsCover
      /\ Linked \subseteq NextNumber .. NextNumber + Chained - 1 /\ NextNumber \in Nat
      /\ Chained \in Nat /\ InUse \subseteq 0 .. NextNumber - 1
  BY BaseFacts
<1> QED BY <1>1 DEF EntriesStay, EntsCover

\* The steps that store no key, no block and no count.
LEMMA PlainLinks ==
  ASSUME QueueBase, LinkInv, EntriesStay,
         StartEnqueue \/ CheckRoom \/ PublishIndexTail \/ RequisitionBlock \/ FillBlocks
         \/ RewindIndexTail \/ UndoTail \/ GiveBlockBack \/ (GrowIndex /\ UNCHANGED indexVars)
  PROVE  LinkInv'
<1>1. /\ HeaderInv /\ ProducerInv /\ CounterType /\ StoreType /\ PoolType
  BY BaseFacts
<1>2. UNCHANGED <<tailIndex, headIndex, cons, key, value, emptied>>
  BY DEF StartEnqueue, CheckRoom, PublishIndexTail, RequisitionBlock, FillBlocks, RewindIndexTail,
         UndoTail, GiveBlockBack, GrowIndex, counters, indexVars, blockVars
<1>3. CASE StartEnqueue \/ CheckRoom \/ PublishIndexTail \/ FillBlocks \/ RewindIndexTail
           \/ UndoTail
           \/ (GrowIndex /\ UNCHANGED indexVars)
  <2>1. /\ NextNumber' = NextNumber /\ Linked' = Linked /\ prod'.tailBlock = prod.tailBlock
        /\ prod'.chain = prod.chain
    BY <1>1, <1>3, StartLocals, RoomLocals, PublishLocals, FillLocals, RewindLocals,
       UndoTailLocals, GrowLocals DEF SameNumbers
  <2> QED BY <1>2, <2>1, InUseEnts, LinkProducer
<1>4. CASE RequisitionBlock
  <2>1. /\ NextNumber' = NextNumber /\ Linked' = Linked /\ prod'.tailBlock = prod.tailBlock
        /\ prod'.chain = prod.chain \/ \E b \in Pointers : prod'.chain = Append(prod.chain, b)
    BY <1>1, <1>4, RequisitionLocals DEF SameNumbers, TakesBlock
  <2>2. \A n \in Linked' : prod'.chain[n - NextNumber + 1] = prod.chain[n - NextNumber + 1]
    <3> TAKE n \in Linked'
    <3>1. n - NextNumber + 1 \in 1 .. Chained
      BY <2>1, InUseEnts
    <3>2. prod.chain \in Seq(Pointers)
      BY <1>1 DEF ProducerInv, ProducerType
    <3> QED BY <2>1, <3>1, <3>2 DEF Chained
  <2> QED BY <1>2, <2>1, <2>2, InUseEnts, LinkProducer
<1>5. CASE GiveBlockBack
  <2>1. NextNumber' = NextNumber /\ Linked' = {} /\ prod'.tailBlock = prod.tailBlock
    BY <1>1, <1>5, GiveBackLocals
  <2> QED BY <1>2, <2>1, InUseEnts, LinkProducer
<1> QED BY <1>3, <1>4, <1>5

\* reset_empty() on a block that is not in the index yet (concurrentqueue.h:2539).
LEMMA ConstructLinks ==
  ASSUME QueueBase, LinkInv, OwnerInv, EntriesStay, ConstructFirst
  PROVE  LinkInv'
<1>1. /\ HeaderInv /\ ProducerInv /\ CounterType /\ StoreType
  BY BaseFacts
<1>2. UNCHANGED <<tailIndex, headIndex, cons, key, value>>
      /\ emptied' = [emptied EXCEPT ![NewBlock] = 0]
  BY DEF ConstructFirst, counters, indexVars
<1>3. /\ NextNumber' = NextNumber /\ Linked' = Linked /\ prod'.tailBlock = prod.tailBlock
      /\ prod'.chain = prod.chain /\ Chained = 1 /\ prod.pc = "construct"
  BY <1>1, ConstructLocals DEF SameNumbers
<1>4. Linked = {}
  <2>1. Linked = NextNumber .. NextNumber + Chained - 2 /\ NextNumber \in Nat
    BY <1>3, BaseFacts DEF Linked, Linking, Backing, Undoing
  <2> QED BY <1>3, <2>1
<1>5. \A n \in InUse \cup Linked : value[Ent(n)] # NewBlock /\ value[Ent(n)] \in Blocks
  <2>1. NewBlock = prod.chain[1] /\ 1 \in 1 .. Chained
    BY <1>3 DEF NewBlock, Chained
  <2>2. \A e \in Entries : value[e] # NewBlock
    BY <1>4, <2>1, ChainNotInIndex
  <2> QED BY <2>2, InUseEnts DEF LinkInv, LinkedEntry
<1>6. \A n \in InUse \cup Linked : emptied'[value[Ent(n)]] = emptied[value[Ent(n)]]
  BY <1>1, <1>2, <1>5 DEF StoreType
<1> QED BY <1>2, <1>3, <1>6, InUseEnts, LinkProducer

\* The entry that got no block has none to lose (concurrentqueue.h:2533, :2688).
LEMMA ClearLinks ==
  ASSUME QueueBase, KeyInv, LinkInv, EntriesStay, ClearEntry
  PROVE  LinkInv'
<1>1. PICK last \in Int, none \in Int : Keyed(last, none)
  BY DEF KeyInv
<1>2. /\ HeaderInv /\ ProducerInv /\ CounterType /\ StoreType /\ AtNumber \in Int
      /\ Capacity \in Nat \ {0} /\ NextNumber \in Nat /\ Chained \in Nat
  BY BaseFacts
<1>3. UNCHANGED <<tailIndex, headIndex, cons, key, emptied>>
      /\ value' = [value EXCEPT ![prod.entry] = NoBlock]
  BY DEF ClearEntry, counters, blockVars
<1>4. /\ NextNumber' = NextNumber /\ Linked' = Linked /\ prod'.tailBlock = prod.tailBlock
      /\ prod'.chain = prod.chain /\ prod.pc = "clear"
  BY <1>2, ClearLocals DEF SameNumbers
<1>5. prod.entry = Ent(AtNumber) /\ AtNumber <= last
  BY <1>1, <1>4 DEF Keyed, Backing
<1>6. AtNumber >= NextNumber /\ AtNumber \notin Linked
  <2>1. AtNumber = NextNumber + (IF Bulk THEN Chained ELSE 0)
        /\ Linked = IF Bulk THEN NextNumber .. NextNumber + Chained - 1 ELSE {}
    BY <1>2, <1>4, LocalNumbers DEF Linked, Backing, Linking
  <2> QED BY <1>2, <2>1
<1>7. value[Ent(AtNumber)] = NoBlock
  <2>1. last < NextNumber + Capacity
    BY <1>1 DEF Keyed
  <2>2. AtNumber \in last - Capacity + 1 .. last
    BY <1>2, <1>5, <1>6, <2>1
  <2> QED BY <1>1, <1>6, <2>2 DEF Keyed
<1>8. value' = value
  BY <1>2, <1>3, <1>5, <1>7 DEF StoreType
<1> QED BY <1>3, <1>4, <1>8, InUseEnts, LinkProducer

\* An entry that is taken back was linked for this call only.
LEMMA UndoLinks ==
  ASSUME QueueBase, KeyInv, LinkInv, EntriesStay, UndoEntry
  PROVE  LinkInv'
<1>1. /\ HeaderInv /\ ProducerInv /\ CounterType /\ StoreType
  BY BaseFacts
<1> DEFINE n0 == NextNumber + prod.undone
<1>2. UNCHANGED <<tailIndex, headIndex, cons, key, emptied>>
  BY DEF UndoEntry, counters, blockVars
<1>3. /\ NextNumber' = NextNumber /\ Linked' = Linked \ {n0} /\ prod'.tailBlock = prod.tailBlock
      /\ prod'.chain = prod.chain
  BY <1>1, UndoEntryLocals
<1>4. n0 \in Linked /\ value' = [value EXCEPT ![Ent(n0)] = NoBlock]
  BY UndoneEntry
<1>5. ASSUME NEW n \in InUse \cup Linked' PROVE value'[Ent(n)] = value[Ent(n)]
  <2>1. n \in InUse \cup Linked /\ n # n0
    BY <1>3, <1>4, InUseEnts
  <2>2. Ent(n) # Ent(n0)
    BY <1>4, <2>1, KeysApart
  <2>3. Ent(n) \in Entries
    BY <2>1, InUseEnts
  <2> QED BY <1>1, <1>4, <2>2, <2>3 DEF StoreType
<1> HIDE DEF n0
<1>6. Linked' \subseteq Linked
  BY <1>3
<1> QED BY <1>2, <1>3, <1>5, <1>6, InUseEnts, LinkProducer

\* The key goes to an entry that no block in use has.
LEMMA InsertLinks ==
  ASSUME QueueBase, LinkInv, EntriesStay, InsertIndexEntry
  PROVE  LinkInv'
<1>1. /\ HeaderInv /\ ProducerInv /\ CounterType /\ StoreType
  BY BaseFacts
<1> DEFINE e == Header.index[NextSlot]
<1>2. UNCHANGED <<tailIndex, headIndex, cons, value, emptied>>
  BY DEF InsertIndexEntry, counters, blockVars
<1>3. \/ UNCHANGED key
      \/ /\ key[e] = INVALID_BLOCK_BASE \/ value[e] = NoBlock
         /\ key' = [key EXCEPT ![e] = prod.at]
  BY DEF InsertIndexEntry
<1>4. /\ NextNumber' = NextNumber /\ Linked' = Linked /\ prod'.tailBlock = prod.tailBlock
      /\ prod'.chain = prod.chain
  BY <1>1, InsertLocals DEF SameNumbers
<1>5. ASSUME NEW n \in InUse \cup Linked PROVE key'[Ent(n)] = key[Ent(n)]
  <2>1. n \in Int /\ Ent(n) \in Entries /\ key[Ent(n)] = BLOCK_SIZE * n /\ value[Ent(n)] \in Blocks
    BY InUseEnts DEF LinkInv, LinkedEntry
  <2>2. key[Ent(n)] # INVALID_BLOCK_BASE /\ value[Ent(n)] # NoBlock
    BY <2>1, BaseIsValid, BlockSize
  <2> HIDE DEF e
  <2> QED BY <1>1, <1>3, <2>1, <2>2 DEF StoreType
<1> QED BY <1>2, <1>4, <1>5, InUseEnts, LinkProducer

\* A larger index has all entries in use where they were.
LEMMA GrowLinks ==
  ASSUME QueueBase, KeyInv, LinkInv, IndexGrows
  PROVE  LinkInv'
<1>1. PICK last \in Int, none \in Int : Keyed(last, none)
  BY DEF KeyInv
<1>2. /\ HeaderInv /\ Top \in Int /\ EntsCover /\ InUse \subseteq Int /\ Linked \subseteq Int
  BY BaseFacts
<1>3. last = Top
  BY <1>1 DEF IndexGrows, Keyed
<1>4. ASSUME NEW n \in InUse \cup Linked
      PROVE  Ent(n)' = Ent(n) /\ key'[Ent(n)] = key[Ent(n)] /\ value'[Ent(n)] = value[Ent(n)]
  <2>1. n \in Top - Capacity + 1 .. Top
    BY <1>1, <1>3, InWindow
  <2>2. \A m \in Top - Capacity + 1 .. Top : Ent(m)' = Ent(m)
    BY <1>2, EntGrown DEF IndexGrows, SameNumbers
  <2>3. Ent(n) \in Entries
    BY <1>2 DEF EntsCover
  <2> QED BY <2>1, <2>2, <2>3 DEF IndexGrows
<1> QED BY <1>4, LinkProducer DEF IndexGrows, SameNumbers, counters, blockVars

\* The block of the producer gets its entry (concurrentqueue.h:2555, :2706-2710).
LEMMA LinkLinks ==
  ASSUME QueueBase, KeyInv, LinkInv, OwnerInv, EntriesStay, LinkBlock
  PROVE  LinkInv'
<1>1. PICK last \in Int, none \in Int : Keyed(last, none)
  BY DEF KeyInv
<1>2. /\ HeaderInv /\ ProducerInv /\ CounterType /\ StoreType /\ AtNumber \in Int
      /\ Capacity \in Nat \ {0} /\ NextNumber \in Nat /\ Chained \in Nat
  BY BaseFacts
<1>3. /\ NextNumber' = NextNumber /\ prod.pc = "link" /\ Linked' = Linked \cup {AtNumber}
      /\ AtNumber = NextNumber + Chained - 1 /\ Chained > 0
      /\ prod'.chain = prod.chain /\ prod'.tailBlock = prod.tailBlock
  BY <1>2, LinkLocals
<1>4. /\ UNCHANGED <<tailIndex, headIndex, cons, key>>
      /\ value' = [value EXCEPT ![prod.entry] = NewBlock]
      /\ emptied' = [emptied EXCEPT ![NewBlock] = 0]
  BY DEF LinkBlock, counters
<1>5. Linked = NextNumber .. NextNumber + Chained - 2
  BY <1>3 DEF Linked, Linking, Backing, Undoing
<1>6. PICK a \in Int : a = AtNumber /\ a \notin Linked /\ a >= NextNumber
  BY <1>2, <1>3, <1>5
<1>7. prod.entry = Ent(a) /\ a <= last
  BY <1>1, <1>3, <1>6 DEF Keyed, Linking
<1>8. key[Ent(a)] = BLOCK_SIZE * a
  <2>1. last < NextNumber + Capacity /\ none < NextNumber
    BY <1>1 DEF Keyed
  <2>2. a \in last - Capacity + 1 .. last /\ a > none
    BY <1>2, <1>6, <1>7, <2>1
  <2> QED BY <1>1, <2>2 DEF Keyed
<1>9. NewBlock \in Blocks /\ \A e \in Entries : value[e] # NewBlock
  <2>1. NewBlock = prod.chain[Chained] /\ Chained \in 1 .. Chained
        /\ NextNumber + Chained - 1 \notin Linked
    BY <1>2, <1>3, <1>6 DEF NewBlock, Chained
  <2> QED BY <2>1, <1>2, HeaderTypes, ChainNotInIndex DEF ProducerInv
<1>10. Unlinking' = Unlinking /\ Finished' = Finished
  BY <1>4, ClaimsSame DEF Unlinking
<1>11. InUse' = InUse
  BY <1>3, <1>4, <1>10, InUseSame
<1>12. ASSUME NEW n \in InUse \cup Linked
       PROVE  LinkedEntry(n)' /\ value'[Ent(n)] = value[Ent(n)]
  <2>1. n \in Int /\ Ent(n)' = Ent(n) /\ Ent(n) \in Entries /\ LinkedEntry(n) /\ n # a
    BY <1>6, InUseEnts DEF LinkInv
  <2>2. Ent(n) # Ent(a)
    BY <1>6, <1>8, <2>1, BasesOrdered DEF LinkedEntry
  <2>3. value'[Ent(n)] = value[Ent(n)]
    BY <1>2, <1>4, <1>7, <2>1, <2>2 DEF StoreType
  <2>4. value[Ent(n)] # NewBlock /\ value[Ent(n)] \in Blocks
    BY <1>9, <2>1 DEF LinkedEntry
  <2>5. emptied'[value[Ent(n)]] = emptied[value[Ent(n)]]
    BY <1>2, <1>4, <2>4 DEF StoreType
  <2> QED BY <1>4, <1>10, <2>1, <2>3, <2>5, LinkedStays
<1>13. Ent(a)' = Ent(a) /\ Ent(a) \in Entries
  BY <1>6, BaseFacts DEF EntriesStay, EntsCover
<1>14. value'[Ent(a)] = NewBlock /\ emptied'[NewBlock] = 0
  BY <1>2, <1>4, <1>7, <1>9, <1>13 DEF StoreType
<1>15. LinkedEntry(a)'
  <2>1. Items(a) \cap Finished' = {}
    <3> SUFFICES ASSUME NEW i \in Items(a), i \in Finished PROVE FALSE
      BY <1>10
    <3>1. i \in Int /\ i < headIndex /\ headIndex <= tailIndex /\ headIndex \in Nat
          /\ tailIndex \in Nat
          /\ tailIndex <= BLOCK_SIZE * NextNumber
      BY Bounds
    <3>2. Num(i) = a
      BY <1>6, <3>1, NumBetween
    <3>3. PICK w \in Int : w = BLOCK_SIZE * NextNumber
      BY <1>2, BasesOrdered
    <3>4. i < w
      BY <3>1, <3>3
    <3>5. Num(i) < NextNumber
      BY <1>2, <3>1, <3>3, <3>4, NumBetween
    <3> QED BY <1>2, <1>6, <3>2, <3>5
  <2>2. Cardinality(Items(a) \cap Finished') = 0
    BY <2>1, FS_EmptySet
  <2> QED BY <1>4, <1>8, <1>9, <1>13, <1>14, <2>2 DEF LinkedEntry
<1>16. ASSUME NEW n \in Linked' PROVE value'[Ent(n)'] = prod'.chain[n - NextNumber' + 1]
  <2>1. CASE n = a
    <3>1. n - NextNumber' + 1 = Chained
      BY <1>2, <1>3, <1>6, <2>1
    <3> QED BY <1>3, <1>13, <1>14, <2>1, <3>1 DEF NewBlock, Chained
  <2>2. CASE n # a
    <3>1. n \in Linked
      BY <1>3, <1>6, <2>2
    <3> QED BY <1>3, <1>12, <3>1, InUseEnts DEF LinkInv
  <2> QED BY <2>1, <2>2
<1>17. tailIndex' < BLOCK_SIZE * NextNumber' => prod'.tailBlock = value'[Ent(NextNumber - 1)']
  <2> SUFFICES ASSUME tailIndex < BLOCK_SIZE * NextNumber
               PROVE  prod.tailBlock = value'[Ent(NextNumber - 1)']
    BY <1>3, <1>4
  <2>1. PICK n \in Int : n = NextNumber - 1 /\ n \in InUse
    BY <1>2, LastInUse
  <2>2. Ent(NextNumber - 1)' = Ent(n)'
    BY <1>3, <2>1 DEF Ent
  <2>3. prod.tailBlock = value[Ent(n)]
    BY <2>1 DEF LinkInv
  <2> QED BY <1>12, <2>1, <2>2, <2>3, InUseEnts
<1>18. \A c \in Unlinking' : Items(Num(cons'[c].index)) \subseteq Finished'
  BY <1>4, <1>10 DEF LinkInv
<1>19. \A c, d \in Unlinking' : Num(cons'[c].index) = Num(cons'[d].index) => c = d
  BY <1>4, <1>10 DEF LinkInv
<1>20. \A n \in InUse' \cup Linked' : LinkedEntry(n)'
  BY <1>3, <1>6, <1>11, <1>12, <1>15
<1> QED BY <1>3, <1>16, <1>17, <1>18, <1>19, <1>20 DEF LinkInv

\* The store of tailIndex (concurrentqueue.h:2560, :2794): the blocks of this call are in
\* use from here on, and the last of them is the tail block.
LEMMA StoreLinks ==
  ASSUME QueueBase, LinkInv, EntriesStay, StoreTail
  PROVE  LinkInv'
<1>1. /\ HeaderInv /\ ProducerInv /\ CounterType /\ NextNumber \in Nat /\ Chained \in Nat
  BY BaseFacts
<1>2. UNCHANGED <<headIndex, cons, key, value, emptied>>
  BY DEF StoreTail, indexVars, blockVars
<1>3. /\ NextNumber' = NextNumber + Chained
      /\ Linked = NextNumber .. NextNumber + Chained - 1 /\ Linked' = {}
      /\ tailIndex' > tailIndex /\ tailIndex \in Nat /\ tailIndex' \in Int
      /\ prod'.tailBlock = (IF Chained = 0 THEN prod.tailBlock ELSE NewBlock)
  BY <1>1, StoreLocals, LocalNumbers DEF CounterType
<1>4. Unlinking' = Unlinking /\ Finished' = Finished
  BY <1>2, ClaimsSame DEF Unlinking
<1>5. InUse' \subseteq InUse \cup Linked
  <2> SUFFICES ASSUME NEW n \in InUse', n \notin Linked PROVE n \in InUse
    OBVIOUS
  <2>1. n \in 0 .. NextNumber' - 1
    BY DEF InUse
  <2>2. n \in 0 .. NextNumber - 1
    BY <1>1, <1>3, <2>1
  <2> QED BY <1>2, <1>4, <2>2 DEF InUse
<1>6. ASSUME NEW n \in InUse' \cup Linked' PROVE LinkedEntry(n)'
  <2>1. n \in Int /\ LinkedEntry(n) /\ Ent(n)' = Ent(n)
    BY <1>3, <1>5, InUseEnts DEF LinkInv
  <2> QED BY <1>2, <1>4, <2>1, LinkedStays
<1>7. tailIndex' < BLOCK_SIZE * NextNumber' => prod'.tailBlock = value'[Ent(NextNumber - 1)']
  <2> SUFFICES ASSUME tailIndex' < BLOCK_SIZE * NextNumber'
               PROVE  prod'.tailBlock = value'[Ent(NextNumber - 1)']
    OBVIOUS
  <2>1. PICK n \in Int : n = NextNumber' - 1
    BY <1>1, <1>3
  <2>2. Ent(NextNumber - 1)' = Ent(n)'
    BY <2>1 DEF Ent
  <2>3. Ent(n)' = Ent(n)
    BY <2>1 DEF EntriesStay
  <2>4. CASE Chained = 0
    <3>1. NextNumber' = NextNumber
      BY <1>1, <1>3, <2>4
    <3>2. PICK w \in Int : w = BLOCK_SIZE * NextNumber
      BY <1>1, BasesOrdered
    <3>3. tailIndex < BLOCK_SIZE * NextNumber
      BY <1>3, <3>1, <3>2
    <3> QED BY <1>2, <1>3, <2>1, <2>2, <2>3, <2>4, <3>1, <3>3 DEF LinkInv
  <2>5. CASE Chained # 0
    <3>1. n \in Linked /\ n - NextNumber + 1 = Chained
      BY <1>1, <1>3, <2>1, <2>5
    <3>2. value[Ent(n)] = prod.chain[Chained]
      BY <3>1 DEF LinkInv
    <3> QED BY <1>2, <1>3, <2>2, <2>3, <2>5, <3>2 DEF NewBlock, Chained
  <2> QED BY <2>4, <2>5
<1>8. \A c \in Unlinking' : Items(Num(cons'[c].index)) \subseteq Finished'
  BY <1>2, <1>4 DEF LinkInv
<1>9. \A c, d \in Unlinking' : Num(cons'[c].index) = Num(cons'[d].index) => c = d
  BY <1>2, <1>4 DEF LinkInv
<1> QED BY <1>3, <1>6, <1>7, <1>8, <1>9 DEF LinkInv

\* Every step of the producer.
LEMMA EnqueueLinks ==
  ASSUME QueueBase, KeyInv, LinkInv, OwnerInv, EnqueueStep
  PROVE  LinkInv'
<1>1. CASE IndexGrows
  BY <1>1, GrowLinks
<1>2. CASE EntriesStay
  <2>1. GrowIndex => UNCHANGED indexVars
    <3>1. blockIndex \in Int /\ blockIndex' = blockIndex
      BY <1>2, BaseFacts DEF EntriesStay, HeaderInv
    <3> QED BY <3>1 DEF GrowIndex
  <2>2. CASE InsertIndexEntry
    BY <1>2, <2>2, InsertLinks
  <2>3. CASE LinkBlock
    BY <1>2, <2>3, LinkLinks
  <2>4. CASE UndoEntry
    BY <1>2, <2>4, UndoLinks
  <2>5. CASE ClearEntry
    BY <1>2, <2>5, ClearLinks
  <2>6. CASE StoreTail
    BY <1>2, <2>6, StoreLinks
  <2>7. CASE ConstructFirst
    BY <1>2, <2>7, ConstructLinks
  <2> QED BY <1>2, <2>1, <2>2, <2>3, <2>4, <2>5, <2>6, <2>7, PlainLinks DEF EnqueueStep
<1> QED BY <1>1, <1>2, EnqueueEntries

-----------------------------------------------------------------------------
(* Consumers find the entries of their items *)

\* What a consumer has yet to work on is in use: its items are not finished.
LEMMA ClaimedInUse ==
  ASSUME QueueBase, NEW c \in Consumers, cons[c].pc \in Working
  PROVE  /\ Remaining(c) \subseteq InUse /\ Remaining(c) \subseteq Int
         /\ cons[c].pc \in {"header", "slot", "find", "take", "empty"} =>
              ~(Items(Num(cons[c].index)) \subseteq Finished)
         /\ cons[c].pc # "recycle" => Num(cons[c].index) \in Remaining(c)
<1> DEFINE i == cons[c].index
           z == cons[c].stop
           n0 == Num(i)
           n1 == Num(z - 1)
           k == EndOf(cons[c])
<1>1. /\ n0 \in 0 .. NextNumber - 1 /\ n1 \in 0 .. NextNumber - 1 /\ n0 <= n1
      /\ i \in Int /\ z \in Int /\ 0 <= i /\ i < z /\ z <= headIndex
      /\ NextNumber \in Nat /\ cons[c] \in ConsumerType /\ headIndex \in Nat
  BY WorkNumber, BaseFacts, Bounds
<1>2. /\ k \in Int /\ i < k /\ k <= BLOCK_SIZE * n0 + BLOCK_SIZE
  BY <1>1, EndIs
<1>3. /\ k .. z - 1 \subseteq Owed(cons[c])
      /\ cons[c].pc \notin {"unlink", "recycle"} => i \in Owed(cons[c])
  BY <1>1, <1>2 DEF Owed
<1>4. Owed(cons[c]) \cap Finished = {}
  BY DEF Finished
\* The first item of each further block is in the claim.
<1>5. ASSUME NEW m \in n0 + 1 .. n1
      PROVE  m \in InUse
  <2>1. m \in Int /\ n0 + 1 <= m /\ m <= n1 /\ m \in 0 .. NextNumber - 1 /\ n0 \in Int /\ n1 \in Int
    BY <1>1
  <2>2. BLOCK_SIZE * (n0 + 1) <= BLOCK_SIZE * m
        /\ BLOCK_SIZE * (n0 + 1) = BLOCK_SIZE * n0 + BLOCK_SIZE
        /\ BLOCK_SIZE * m \in Int /\ BLOCK_SIZE * n0 \in Int
    <3>1. n0 + 1 \in Int
      BY <2>1
    <3> HIDE DEF n0, n1
    <3> QED BY <2>1, <3>1, BasesOrdered
  <2>3. z - 1 >= BLOCK_SIZE * m
    <3>1. z - 1 \in Int
      BY <1>1
    <3> QED BY <2>1, <3>1, NumBetween
  <2>4. PICK w \in Int, u \in Int : w = BLOCK_SIZE * m /\ u = BLOCK_SIZE * n0
    BY <2>2
  <2>5. w \in k .. z - 1
    <3>1. u + BLOCK_SIZE <= w /\ k <= u + BLOCK_SIZE /\ w <= z - 1
      BY <1>2, <2>2, <2>3, <2>4
    <3> HIDE DEF k, z
    <3> QED BY <1>1, <1>2, <2>4, <3>1, BlockSize
  <2>6. w \in Items(m)
    BY <2>4, BlockSize DEF Items
  <2>7. ~(Items(m) \subseteq Finished)
    BY <1>3, <1>4, <2>5, <2>6
  <2> QED BY <2>1, <2>7 DEF InUse
<1>6. cons[c].pc \notin {"unlink", "recycle"} => ~(Items(n0) \subseteq Finished)
  <2>1. i \in Items(n0)
    BY <1>1, NumBetween
  <2> QED BY <1>3, <1>4, <2>1
<1>7. cons[c].pc # "recycle" => n0 \in InUse
  <2>1. CASE cons[c].pc \notin {"unlink", "recycle"}
    BY <1>1, <1>6, <2>1 DEF InUse
  <2>2. CASE cons[c].pc = "unlink"
    BY <1>1, <2>2 DEF InUse, Unlinking
  <2> QED BY <2>1, <2>2
<1>8. /\ Remaining(c) \subseteq {n0} \cup (n0 + 1 .. n1)
      /\ cons[c].pc = "recycle" => Remaining(c) \subseteq n0 + 1 .. n1
      /\ cons[c].pc # "recycle" => n0 \in Remaining(c)
  <2> HIDE DEF n0, n1
  <2>1. Remaining(c) = IF cons[c].pc = "recycle" THEN n0 + 1 .. n1 ELSE n0 .. n1
    BY DEF Remaining, n0, n1, i, z
  <2>2. n0 \in Int /\ n1 \in Int /\ n0 <= n1
    BY <1>1
  <2> QED BY <2>1, <2>2
<1>9. Remaining(c) \subseteq InUse
  <2> HIDE DEF n0, n1
  <2>1. CASE cons[c].pc = "recycle"
    BY <1>5, <1>8, <2>1
  <2>2. CASE cons[c].pc # "recycle"
    BY <1>5, <1>7, <1>8, <2>2
  <2> QED BY <2>1, <2>2
<1>10. Remaining(c) \subseteq Int
  BY <1>9, BaseFacts
<1> QED BY <1>6, <1>8, <1>9, <1>10

\* The tail stands for the last block at least.
LEMMA TopBound ==
  ASSUME QueueBase
  PROVE  Top >= NextNumber - 1
<1>1. /\ ProducerInv /\ CounterType /\ NextNumber \in Nat /\ Chained \in Nat
  BY BaseFacts
<1>2. /\ prod.pc \in {"requisition"} => AtNumber = NextNumber + Chained
      /\ prod.pc \in Backing => AtNumber = NextNumber + (IF Bulk THEN Chained ELSE 0)
      /\ prod.undone \in Nat
  BY <1>1, LocalNumbers DEF Entering
<1>3. prod.pc \in Undoing => prod.undone < Chained
  BY <1>1 DEF ProducerInv
<1>4. CASE prod.pc = "requisition"
  <2>1. Top = AtNumber
    BY <1>4 DEF Top, Undoing
  <2> QED BY <1>1, <1>2, <1>4, <2>1
<1>5. CASE prod.pc = "rewind"
  <2>1. Top = AtNumber /\ prod.pc \in Backing
    BY <1>5 DEF Top, Undoing, Backing
  <2> QED BY <1>1, <1>2, <2>1
<1>6. CASE prod.pc = "clear"
  <2>1. Top = AtNumber - 1 /\ prod.pc \in Backing
    BY <1>6 DEF Top, Undoing, Backing
  <2> QED BY <1>1, <1>2, <2>1
<1>7. CASE prod.pc \in Undoing
  <2>1. Top = NextNumber + Chained - 1 - prod.undone
    BY <1>7 DEF Top, Undoing
  <2> QED BY <1>1, <1>2, <1>3, <1>7, <2>1
<1>8. CASE prod.pc = "give_back"
  <2>1. Top = NextNumber - 1
    BY <1>8 DEF Top, Undoing
  <2> QED BY <1>1, <2>1
<1>9. CASE prod.pc \notin {"requisition", "rewind", "clear", "give_back"} \cup Undoing
  <2>1. Top = NextNumber + Chained - 1
    BY <1>9 DEF Top
  <2> QED BY <1>1, <2>1
<1> QED BY <1>4, <1>5, <1>6, <1>7, <1>8, <1>9

\* While a block is in use, all keys from its number up to the last are valid.
LEMMA KeysFrom ==
  ASSUME QueueBase, KeyInv, LinkInv, InUse # {}, NEW n \in Int, NextNumber - 1 <= n, n <= Top
  PROVE  ValidKey(Ent(n))
<1>1. PICK last \in Int, none \in Int : Keyed(last, none)
  BY DEF KeyInv
<1>2. PICK m : m \in InUse
  OBVIOUS
<1>3. m \in Int /\ m <= NextNumber - 1 /\ NextNumber \in Nat /\ Top \in Int
  BY <1>2, BaseFacts
<1>4. n \in m .. last
  <2>1. Top <= last
    BY <1>1 DEF Keyed
  <2> QED BY <1>3, <2>1
<1>5. key[Ent(n)] = BLOCK_SIZE * n
  BY <1>1, <1>2, <1>4, InWindow
<1> QED BY <1>5 DEF ValidKey

\* What a consumer has looked up stays right when another thread steps.
LEMMA LookedStays ==
  ASSUME QueueBase, LinkInv, NEW d \in Consumers, Looked(d), cons'[d] = cons[d],
         \A h \in 1 .. blockIndex :
           headers'[h].capacity = headers[h].capacity /\ headers'[h].index = headers[h].index,
         \A n \in InUse : Ent(n)' = Ent(n),
         cons[d].pc \in {"empty", "unlink"} =>
           value'[Ent(Num(cons[d].index))] = value[Ent(Num(cons[d].index))],
         \A e \in Entries : ValidKey(e) => ValidKey(e)',
         \A h \in 1 .. blockIndex : InUse # {} /\ headers'[h].tail # headers[h].tail =>
           ValidKey(headers[h].index[headers[h].tail])'
  PROVE  Looked(d)'
<1>1. LocalType /\ HeaderInv /\ LoadedHeader \subseteq Working
  BY BaseFacts DEF LoadedHeader, Working
<1>2. CASE cons[d].pc \notin LoadedHeader
  BY <1>2 DEF Looked, LoadedHeader
<1>3. CASE cons[d].pc \in LoadedHeader
  <2>1. cons[d].header \in 1 .. blockIndex
    BY <1>1, <1>3 DEF LocalType
  <2>2. PICK h \in 1 .. blockIndex :
          /\ h = cons[d].header
          /\ headers'[h].capacity = headers[h].capacity /\ headers'[h].index = headers[h].index
          /\ headers[h].index \in [0 .. headers[h].capacity - 1 -> Entries]
          /\ headers[h].tail \in 0 .. headers[h].capacity - 1
    BY <1>1, <2>1, HeaderTypes
  <2>3. Remaining(d)' = Remaining(d)
    BY DEF Remaining
  <2>4. \A m \in Remaining(d) : Ent(m)' = Ent(m)
    BY <1>1, <1>3, ClaimedInUse
  <2>5. cons[d].pc # "recycle" => InUse # {} /\ Ent(Num(cons[d].index))' = Ent(Num(cons[d].index))
    <3>1. cons[d].pc # "recycle" => Num(cons[d].index) \in Remaining(d)
      BY <1>1, <1>3, ClaimedInUse
    <3>2. Remaining(d) \subseteq InUse
      BY <1>1, <1>3, ClaimedInUse
    <3>3. PICK m : m = Num(cons[d].index)
      OBVIOUS
    <3>4. cons[d].pc # "recycle" => Ent(m)' = Ent(m)
      BY <3>1, <3>2, <3>3
    <3>5. Num(cons'[d].index) = m
      BY <3>3
    <3>6. Ent(Num(cons[d].index))' = Ent(m)'
      BY <3>5 DEF Ent
    <3> QED BY <3>1, <3>2, <3>3, <3>4, <3>6
  <2>6. InHeader(d)'
    BY <1>3, <2>2, <2>3, <2>4 DEF Looked, InHeader
  <2>7. cons[d].pc = "slot" => ValidKey(headers[h].index[headers[h].tail])'
    <3> SUFFICES ASSUME cons[d].pc = "slot" PROVE ValidKey(headers[h].index[headers[h].tail])'
      OBVIOUS
    <3>1. CASE headers'[h].tail = headers[h].tail
      <4>1. PICK e \in Entries : e = headers[h].index[headers[h].tail]
        BY <2>2
      <4>2. ValidKey(e)
        BY <2>2, <4>1 DEF Looked
      <4>3. ValidKey(e)'
        BY <4>2
      <4>4. e = headers'[h].index[headers'[h].tail]
        BY <2>2, <3>1, <4>1
      <4> QED BY <4>3, <4>4 DEF ValidKey
    <3>2. CASE headers'[h].tail # headers[h].tail
      BY <2>5, <3>2
    <3> QED BY <3>1, <3>2
  <2>8. cons[d].pc = "find" => ValidKey(headers[h].index[cons[d].slot])'
    <3> SUFFICES ASSUME cons[d].pc = "find" PROVE ValidKey(headers[h].index[cons[d].slot])'
      OBVIOUS
    <3>1. cons[d].slot \in 0 .. headers[h].capacity - 1
      BY <1>1, <2>2 DEF LocalType, LoadedSlot
    <3>2. PICK e \in Entries : e = headers[h].index[cons[d].slot]
      BY <2>2, <3>1
    <3>3. ValidKey(e)
      BY <2>2, <3>2 DEF Looked
    <3>4. ValidKey(e)'
      BY <3>3
    <3>5. e = headers'[h].index[cons'[d].slot]
      BY <2>2, <3>2
    <3> QED BY <3>4, <3>5 DEF ValidKey
  <2>9. cons'[d].header = h /\ cons'[d].pc = cons[d].pc
    BY <2>2
  <2>10. cons'[d].pc \in {"take", "empty", "unlink", "recycle"} => AtSlot(d)'
    BY <2>2, <2>3, <2>4 DEF Looked, AtSlot
  <2>11. cons'[d].pc \in {"empty", "unlink"} =>
           cons'[d].block = value'[Ent(Num(cons[d].index))']
    BY <2>5 DEF Looked
  <2>12. cons'[d].pc = "slot" => ValidKey(headers[cons[d].header].index[headers[cons[d].header].tail])'
    BY <2>7, <2>9 DEF ValidKey
  <2>13. cons'[d].pc = "find" => ValidKey(headers[cons[d].header].index[cons[d].slot])'
    BY <2>8, <2>9 DEF ValidKey
  <2> QED BY <2>6, <2>10, <2>11, <2>12, <2>13 DEF Looked
<1> QED BY <1>2, <1>3

\* Keys stay valid as long as no step stores one, or only a valid one.
LEMMA KeysStayValid ==
  ASSUME EntriesStay, UNCHANGED key
  PROVE  \A e \in Entries : ValidKey(e) => ValidKey(e)'
  BY ValidKeySame DEF EntriesStay

-----------------------------------------------------------------------------
(* A consumer looks up its entries *)

\* The step of one consumer leaves to the others what they have found: the block that
\* it unlinks is nobody else's any more.
LEMMA OthersLooked ==
  ASSUME QueueBase, LinkInv, LookupInv, NEW c \in Consumers, DequeueStep(c),
         NEW d \in Consumers, d # c, cons'[d] = cons[d]
  PROVE  Looked(d)'
<1>1. /\ UNCHANGED <<headers, key>> /\ EntriesStay
  BY DequeueFrame
<1>2. /\ \A n \in InUse : n \in Int /\ Ent(n)' = Ent(n) /\ Ent(n) \in Entries
  BY <1>1, InUseEnts
<1>3. Looked(d) /\ Looked(c)
  BY DEF LookupInv
<1>4. ASSUME cons[d].pc \in {"empty", "unlink"}
      PROVE  value'[Ent(Num(cons[d].index))] = value[Ent(Num(cons[d].index))]
  <2>1. CASE ~UnlinkBlock(c)
    BY <2>1, DequeueFrame
  <2>2. CASE UnlinkBlock(c)
    <3>1. cons[c].pc = "unlink" /\ value' = [value EXCEPT ![EntryOf(c)] = NoBlock]
      BY <2>2 DEF UnlinkBlock, ConsumerAt
    <3>2. EntryOf(c) = Ent(Num(cons[c].index))
      BY <1>3, <3>1, EntryAtSlot
    <3>3. cons[c].pc \in Working /\ cons[d].pc \in Working
      BY <1>4, <3>1 DEF Working
    <3>4. Num(cons[c].index) \in InUse /\ Num(cons[d].index) \in InUse
      BY <1>4, <3>1, <3>3, ClaimedInUse
    <3>5. Num(cons[c].index) # Num(cons[d].index)
      <4>1. c \in Unlinking
        BY <3>1 DEF Unlinking
      <4>2. Items(Num(cons[c].index)) \subseteq Finished
        BY <4>1 DEF LinkInv
      <4>3. CASE cons[d].pc = "unlink"
        BY <4>1, <4>3 DEF LinkInv, Unlinking
      <4>4. CASE cons[d].pc = "empty"
        BY <3>3, <4>2, <4>4, ClaimedInUse
      <4> QED BY <1>4, <4>3, <4>4
    <3>6. Ent(Num(cons[c].index)) # Ent(Num(cons[d].index))
      BY <3>4, <3>5, KeysApart
    <3>7. value \in [Entries -> Pointers]
      BY BaseFacts DEF StoreType
    <3> QED BY <1>2, <3>1, <3>2, <3>4, <3>6, <3>7
  <2> QED BY <2>1, <2>2
<1>5. \A e \in Entries : ValidKey(e) => ValidKey(e)'
  BY <1>1, KeysStayValid
<1> QED BY <1>1, <1>2, <1>3, <1>4, <1>5, LookedStays

\* The newest header has every entry, and the key at its tail is valid.
LEMMA LoadHeaderLooked ==
  ASSUME QueueBase, KeyInv, LinkInv, NEW c \in Consumers, LoadBlockIndex(c)
  PROVE  Looked(c)'
<1>1. /\ UNCHANGED <<headers, key, value, blockIndex>> /\ EntriesStay
  BY DequeueFrame DEF DequeueStep, LoadBlockIndex, indexVars
<1>2. cons[c].pc = "header" /\ cons[c].pc \in Working /\ HeaderInv /\ Top \in Int
      /\ NextNumber \in Nat
      /\ cons \in [Consumers -> ConsumerType]
  BY BaseFacts DEF LoadBlockIndex, ConsumerAt, Working
<1>3. cons'[c].pc = "slot" /\ cons'[c].header = blockIndex /\ cons'[c].index = cons[c].index
      /\ cons'[c].stop = cons[c].stop
  <2>1. cons' = [cons EXCEPT ![c].pc = "slot", ![c].header = blockIndex]
    BY DEF LoadBlockIndex
  <2> QED BY <1>2, <2>1 DEF ConsumerType
<1>4. Remaining(c)' = Remaining(c) /\ Remaining(c) \subseteq Int /\ Remaining(c) # {}
      /\ Remaining(c) \subseteq InUse
  <2>1. Remaining(c)' = Remaining(c)
    BY <1>2, <1>3 DEF Remaining
  <2> QED BY <1>2, <2>1, ClaimedInUse
<1>5. InHeader(c)'
  <2>1. ASSUME NEW m \in Remaining(c)
        PROVE  \E j \in 0 .. headers[blockIndex].capacity - 1 : headers[blockIndex].index[j] = Ent(m)'
    <3>1. Ent(m)' = Ent(m) /\ Ent(m) \in Entries
      BY <1>1, <1>4, BaseFacts DEF EntriesStay, EntsCover
    <3> QED BY <1>2, <3>1 DEF HeaderInv, NewestComplete, Entries, Capacity, Header
  <2> QED BY <1>1, <1>3, <1>4, <2>1 DEF InHeader
<1>6. ValidKey(headers[blockIndex].index[headers[blockIndex].tail])'
  <2>1. ValidKey(Ent(Top))
    BY <1>2, <1>4, TopBound, KeysFrom
  <2>2. PICK e \in Entries : e = Ent(Top)
    BY <1>2, BaseFacts DEF EntsCover
  <2>3. ValidKey(e)'
    BY <1>1, <2>1, <2>2, KeysStayValid
  <2>4. e = headers'[blockIndex'].index[headers'[blockIndex'].tail]
    BY <1>1, <1>2, <2>2, EntAtTop DEF Header
  <2> QED BY <2>3, <2>4 DEF ValidKey
<1>7. headers'[cons'[c].header].index[headers'[cons'[c].header].tail]
        = headers'[blockIndex'].index[headers'[blockIndex'].tail]
  BY <1>1, <1>3
<1> QED BY <1>3, <1>5, <1>6, <1>7 DEF Looked, ValidKey

\* The key under the tail that is loaded (concurrentqueue.h:2977) is valid.
LEMMA LoadTailLooked ==
  ASSUME QueueBase, LookupInv, NEW c \in Consumers, LoadIndexTail(c)
  PROVE  Looked(c)'
<1>1. /\ UNCHANGED <<headers, key, value>> /\ EntriesStay
  BY DequeueFrame DEF DequeueStep, LoadIndexTail, indexVars
<1>2. cons[c].pc = "slot" /\ cons[c].pc \in Working /\ cons[c].pc \in LoadedHeader /\ HeaderInv
      /\ cons \in [Consumers -> ConsumerType]
  BY BaseFacts DEF LoadIndexTail, ConsumerAt, Working, LoadedHeader
<1>3. /\ cons'[c].pc = "find" /\ cons'[c].header = cons[c].header
      /\ cons'[c].index = cons[c].index
      /\ cons'[c].stop = cons[c].stop /\ cons'[c].slot = headers[cons[c].header].tail
  <2>1. cons' = [cons EXCEPT ![c].pc = "find", ![c].slot = headers[cons[c].header].tail]
    BY DEF LoadIndexTail
  <2> QED BY <1>2, <2>1 DEF ConsumerType
<1>4. Remaining(c)' = Remaining(c) /\ Remaining(c) \subseteq Int
  <2>1. Remaining(c)' = Remaining(c)
    BY <1>2, <1>3 DEF Remaining
  <2> QED BY <1>2, <2>1, ClaimedInUse
<1>5. Looked(c)
  BY DEF LookupInv
<1>6. InHeader(c)'
  <2>1. InHeader(c)
    BY <1>2, <1>5 DEF Looked
  <2>2. \A m \in Remaining(c) : Ent(m)' = Ent(m)
    BY <1>1, <1>4 DEF EntriesStay
  <2> QED BY <1>1, <1>3, <1>4, <2>1, <2>2 DEF InHeader
<1>7. cons[c].header \in 1 .. blockIndex
  BY <1>2, BaseFacts DEF LocalType
<1>8. PICK e \in Entries : e = headers[cons[c].header].index[headers[cons[c].header].tail]
  BY <1>2, <1>7, HeaderTypes
<1>9. ValidKey(e)'
  <2>1. ValidKey(e)
    BY <1>2, <1>5, <1>8 DEF Looked
  <2> QED BY <1>1, <2>1, KeysStayValid
<1>10. e = headers'[cons'[c].header].index[cons'[c].slot]
  BY <1>1, <1>3, <1>8
<1> QED BY <1>3, <1>6, <1>9, <1>10 DEF Looked, ValidKey

\* Slots of a ring, two ways at once or one after the other.
LEMMA RingSteps ==
  ASSUME NEW s \in Int, NEW p \in Nat \ {0}, NEW x \in Int, NEW y \in Int
  PROVE  (((s + x) % p) + y) % p = (s + (x + y)) % p
<1>1. s + x \in Int /\ (s + x) + y = s + (x + y)
  OBVIOUS
<1>2. (((s + x) % p) + y) % p = ((s + x) + y) % p
  BY <1>1, ModAdd
<1> QED BY <1>1, <1>2

\* And by a single place.
LEMMA RingStep ==
  ASSUME NEW s \in Int, NEW p \in Nat \ {0}, NEW m \in Int, NEW n \in Int
  PROVE  (((s + 1) % p) + (m - (n + 1))) % p = (s + (m - n)) % p
<1>1. PICK z \in Int, y \in Int : z = s + 1 /\ y = m - (n + 1)
  OBVIOUS
<1>2. ((z % p) + y) % p = (z + y) % p
  BY ModAdd
<1>3. z + y = s + (m - n)
  BY <1>1
<1> QED BY <1>1, <1>2, <1>3

\* get_block_index_index_for_index() finds the entry from any valid key
\* (concurrentqueue.h:2978-2983), in the header that the consumer loaded.
LEMMA FindLooked ==
  ASSUME QueueBase, PhaseInv, LookupInv, NEW c \in Consumers, FindEntry(c)
  PROVE  Looked(c)'
<1>1. /\ UNCHANGED <<headers, key, value>> /\ EntriesStay
  BY DequeueFrame DEF DequeueStep, FindEntry, indexVars
<1>2. cons[c].pc = "find" /\ cons[c].pc \in Working /\ cons[c].pc \in LoadedHeader /\ HeaderInv
      /\ cons \in [Consumers -> ConsumerType] /\ LocalType /\ StoreType
  BY BaseFacts DEF FindEntry, ConsumerAt, Working, LoadedHeader
<1>3. cons'[c].pc = "take" /\ cons'[c].header = cons[c].header /\ cons'[c].index = cons[c].index
      /\ cons'[c].stop = cons[c].stop /\ cons'[c].slot = FoundSlot(c)
  <2>1. Becomes(c, [cons[c] EXCEPT !.pc = "take", !.slot = FoundSlot(c)])
    BY <1>2, FindEntryBecomes
  <2> QED BY <1>2, <2>1 DEF Becomes, ConsumerType
<1>4. Remaining(c)' = Remaining(c) /\ Remaining(c) \subseteq Int /\ Num(cons[c].index) \in Int
  <2>1. Remaining(c)' = Remaining(c)
    BY <1>2, <1>3 DEF Remaining
  <2> QED BY <1>2, <2>1, ClaimedInUse, WorkNumber
<1>5. Looked(c)
  BY DEF LookupInv
<1>6. PICK h \in 1 .. blockIndex :
        /\ h = cons[c].header /\ headers[h].capacity \in Nat \ {0}
        /\ headers[h].index \in [0 .. headers[h].capacity - 1 -> Entries]
        /\ cons[c].slot \in 0 .. headers[h].capacity - 1
  <2>1. /\ cons[c].header \in 1 .. blockIndex
        /\ cons[c].slot \in 0 .. headers[cons[c].header].capacity - 1
    BY <1>2, FindEntryBecomes
  <2> QED BY <1>2, <2>1, HeaderTypes
<1> DEFINE s == cons[c].slot
           p == headers[h].capacity
           n0 == Num(cons[c].index)
<1>7. PICK k \in Int : key[headers[h].index[s]] = BLOCK_SIZE * k /\ Ent(k) = headers[h].index[s]
  BY <1>2, <1>5, <1>6 DEF Looked, ValidKey
<1>8. FoundSlot(c) = (s + (n0 - k)) % p
  <2>1. Base(cons[c].index) = BLOCK_SIZE * n0 /\ cons[c].index \in Int
    BY <1>2, WorkNumber, Place
  <2>2. (Base(cons[c].index) - key[headers[h].index[s]]) \div BLOCK_SIZE = n0 - k
    BY <1>4, <1>7, <2>1, OffsetIs
  <2> HIDE DEF s, p, n0
  <2> QED BY <1>6, <2>2 DEF FoundSlot, s, p
<1>9. ASSUME NEW m \in Remaining(c)
      PROVE  headers[h].index[(FoundSlot(c) + (m - n0)) % p] = Ent(m)'
  <2>1. m \in Int /\ Ent(m)' = Ent(m)
    BY <1>1, <1>4 DEF EntriesStay
  <2>2. PICK j \in 0 .. p - 1 : headers[h].index[j] = Ent(m)
    BY <1>2, <1>5, <1>6 DEF Looked, InHeader
  <2>3. j = (s + (m - k)) % p
    <3>1. Phase(h)
      BY DEF PhaseInv
    <3>2. HeaderInv
      BY <1>2
    <3>3. s \in 0 .. p - 1 /\ headers[h].index[s] = Ent(k) /\ j \in 0 .. p - 1
          /\ headers[h].index[j] = Ent(m)
      BY <1>6, <1>7, <2>2
    <3>4. m \in Int
      BY <2>1
    <3> QED BY <3>1, <3>2, <3>3, <3>4, Locate
  <2>4. (((s + (n0 - k)) % p) + (m - n0)) % p = (s + ((n0 - k) + (m - n0))) % p
    <3>1. s \in Int /\ p \in Nat \ {0} /\ n0 - k \in Int /\ m - n0 \in Int
      BY <1>4, <1>6, <2>1
    <3> HIDE DEF s, p, n0
    <3> QED BY <3>1, RingSteps
  <2>5. (n0 - k) + (m - n0) = m - k
    <3>1. n0 \in Int
      BY <1>4
    <3> HIDE DEF n0
    <3> QED BY <2>1, <3>1
  <2> HIDE DEF s, p, n0
  <2> QED BY <1>8, <2>1, <2>2, <2>3, <2>4, <2>5
<1>10. AtSlot(c)'
  BY <1>1, <1>3, <1>4, <1>6, <1>9 DEF AtSlot
<1>11. InHeader(c)'
  <2>1. InHeader(c)
    BY <1>2, <1>5 DEF Looked
  <2>2. \A m \in Remaining(c) : Ent(m)' = Ent(m)
    BY <1>1, <1>4 DEF EntriesStay
  <2> QED BY <1>1, <1>3, <1>4, <2>1, <2>2 DEF InHeader
<1> QED BY <1>3, <1>10, <1>11 DEF Looked

\* The next block of a bulk has the next entry (concurrentqueue.h:2890).
LEMMA AfterLooked ==
  ASSUME QueueBase, LookupInv, EntriesStay, UNCHANGED <<headers, key>>, NEW c \in Consumers,
         cons[c].pc \in {"empty", "recycle"}, Becomes(c, AfterBlock(c))
  PROVE  Looked(c)'
<1>1. /\ cons[c].pc \in Working /\ cons[c].pc \in LoadedHeader /\ cons[c].pc \in LoadedSlot
      /\ HeaderInv /\ cons \in [Consumers -> ConsumerType] /\ LocalType /\ ClaimsApart
  BY BaseFacts DEF Working, LoadedHeader, LoadedSlot, QueueBase
<1>2. cons'[c] = AfterBlock(c)
  BY DEF Becomes
<1>3. Looked(c)
  BY DEF LookupInv
<1>4. CASE AfterBlock(c).pc \notin Working
  BY <1>2, <1>4 DEF Looked, Working, LoadedHeader
<1>5. CASE AfterBlock(c).pc \in Working
  <2>1. /\ cons'[c].pc = "take" /\ cons'[c].stop = cons[c].stop
        /\ cons'[c].index = EndOf(cons[c]) /\ EndOf(cons[c]) < cons[c].stop
        /\ cons'[c].header = cons[c].header
        /\ cons'[c].slot = ((cons[c].slot + 1) % headers[cons[c].header].capacity)
    BY <1>1, <1>2, <1>5, AfterBlockOwed
  <2>2. PICK h \in 1 .. blockIndex :
          /\ h = cons[c].header /\ headers[h].capacity \in Nat \ {0}
          /\ cons[c].slot \in 0 .. headers[h].capacity - 1
    BY <1>1, EntryOfType
  <2>3. /\ cons[c] \in ConsumerType /\ cons[c].index < cons[c].stop
        /\ Remaining(c) \subseteq Int /\ Num(cons[c].index) \in Int
    BY <1>1, WorkNumber, ClaimedInUse
  <2>4. Num(EndOf(cons[c])) = Num(cons[c].index) + 1
    <3>1. /\ EndOf(cons[c]) = cons[c].stop
             \/ EndOf(cons[c]) = BLOCK_SIZE * Num(cons[c].index) + BLOCK_SIZE
          /\ EndOf(cons[c]) \in Int /\ cons[c].stop \in Int
      BY <2>3, EndIs
    <3>2. PICK n \in Int : n = Num(cons[c].index)
      BY <2>3
    <3>3. EndOf(cons[c]) = BLOCK_SIZE * (n + 1)
      <4>1. BLOCK_SIZE * (n + 1) = BLOCK_SIZE * n + BLOCK_SIZE
        BY BasesOrdered
      <4> QED BY <2>1, <3>1, <3>2, <4>1
    <3>4. n + 1 \in Int /\ BLOCK_SIZE * (n + 1) \in Int
      BY BasesOrdered
    <3>5. PICK w \in Int : w = BLOCK_SIZE * (n + 1)
      BY <3>4
    <3>6. w <= w /\ w < w + BLOCK_SIZE
      BY <3>5, BlockSize
    <3>7. Num(w) = n + 1
      BY <3>4, <3>5, <3>6, NumOf
    <3> QED BY <3>2, <3>3, <3>5, <3>7
  <2>5. /\ Remaining(c)' = Num(cons[c].index) + 1 .. Num(cons[c].stop - 1)
        /\ Remaining(c)' \subseteq Remaining(c)
    <3>1. Remaining(c)' = Num(cons[c].index) + 1 .. Num(cons[c].stop - 1)
      BY <2>1, <2>4 DEF Remaining
    <3>2. PICK n0 \in Int : n0 = Num(cons[c].index)
      BY <2>3
    <3>3. n0 + 1 .. Num(cons[c].stop - 1) \subseteq n0 .. Num(cons[c].stop - 1)
      <4>1. Num(cons[c].stop - 1) \in Int
        BY <1>1, WorkNumber, BaseFacts
      <4> QED BY <4>1
    <3> QED BY <3>1, <3>2, <3>3 DEF Remaining
  <2>6. AtSlot(c) /\ InHeader(c)
    BY <1>1, <1>3 DEF Looked
  <2>7. ASSUME NEW m \in Remaining(c)'
        PROVE  headers[h].index[(((cons[c].slot + 1) % headers[h].capacity)
                                   + (m - Num(EndOf(cons[c])))) % headers[h].capacity] = Ent(m)'
    <3>1. m \in Int /\ Ent(m)' = Ent(m)
      BY <2>3, <2>5 DEF EntriesStay
    <3>2. headers[h].index[(cons[c].slot + (m - Num(cons[c].index))) % headers[h].capacity] = Ent(m)
      BY <2>2, <2>5, <2>6 DEF AtSlot
    <3>3. PICK n0 \in Int, p \in Nat \ {0}, s \in Int :
            n0 = Num(cons[c].index) /\ p = headers[h].capacity /\ s = cons[c].slot
      BY <2>2, <2>3
    <3>4. (((s + 1) % p) + (m - (n0 + 1))) % p = (s + (m - n0)) % p
      BY <3>1, RingStep
    <3> QED BY <2>4, <3>1, <3>2, <3>3, <3>4
  <2>8. AtSlot(c)'
    BY <2>1, <2>2, <2>7 DEF AtSlot
  <2>9. InHeader(c)'
    <3>1. \A m \in Remaining(c)' : Ent(m)' = Ent(m)
      BY <2>3, <2>5 DEF EntriesStay
    <3> QED BY <2>1, <2>5, <2>6, <3>1 DEF InHeader
  <2> QED BY <2>1, <2>8, <2>9 DEF Looked
<1> QED BY <1>4, <1>5

\* A consumer that stays at its block keeps its slot.
LEMMA SameLooked ==
  ASSUME QueueBase, LookupInv, EntriesStay, UNCHANGED <<headers, key>>, NEW c \in Consumers,
         cons[c].pc \in {"take", "empty", "unlink"}, cons'[c].pc \in {"empty", "unlink", "recycle"},
         cons'[c].index = cons[c].index, cons'[c].stop = cons[c].stop,
         cons'[c].header = cons[c].header, cons'[c].slot = cons[c].slot,
         cons'[c].pc # "recycle" => UNCHANGED value
           /\ cons'[c].block = value[Ent(Num(cons[c].index))]
  PROVE  Looked(c)'
<1>1. /\ cons[c].pc \in Working /\ cons[c].pc \in LoadedHeader /\ Looked(c)
  BY DEF Working, LoadedHeader, LookupInv
<1>2. Remaining(c) \subseteq Int /\ Num(cons[c].index) \in Int /\ Num(cons[c].stop - 1) \in Int
  BY <1>1, ClaimedInUse, WorkNumber, BaseFacts
<1>3. Remaining(c)' \subseteq Remaining(c)
  <2>1. PICK n0 \in Int, n1 \in Int : n0 = Num(cons[c].index) /\ n1 = Num(cons[c].stop - 1)
    BY <1>2
  <2>2. n0 + 1 .. n1 \subseteq n0 .. n1
    BY <2>1
  <2> QED BY <2>1, <2>2 DEF Remaining
<1>4. \A m \in Remaining(c)' : Ent(m)' = Ent(m)
  BY <1>2, <1>3 DEF EntriesStay
<1>5. AtSlot(c)' /\ InHeader(c)'
  <2>1. AtSlot(c) /\ InHeader(c)
    BY <1>1 DEF Looked
  <2> QED BY <1>3, <1>4, <2>1 DEF AtSlot, InHeader
<1>6. cons'[c].pc # "recycle" => cons'[c].block = value'[Ent(Num(cons[c].index))']
  <2>1. PICK n0 \in Int : n0 = Num(cons[c].index)
    BY <1>2
  <2>2. Ent(n0)' = Ent(n0) /\ Ent(Num(cons[c].index))' = Ent(n0)'
    BY <2>1 DEF EntriesStay, Ent
  <2> QED BY <2>1, <2>2
<1> QED BY <1>5, <1>6 DEF Looked

\* Every step of a consumer leaves it with the entry that it needs.
LEMMA OwnLooked ==
  ASSUME QueueBase, StoredInv, NEW c \in Consumers, DequeueStep(c)
  PROVE  Looked(c)' /\ \A d \in Consumers : d # c => cons'[d] = cons[d]
<1>1. /\ QueueShape /\ ClaimsApart /\ LocalType /\ HeaderInv /\ CounterType /\ StoreType
      /\ cons \in [Consumers -> ConsumerType] /\ cons[c] \in ConsumerType
      /\ PhaseInv /\ KeyInv /\ LinkInv /\ LookupInv
  BY BaseFacts DEF QueueBase, StoredInv
<1>2. UNCHANGED <<headers, key>> /\ EntriesStay
  BY DequeueFrame
<1>3. CASE cons[c].pc \notin Working \cup {"head"}
  <2>1. PICK r : Becomes(c, r) /\ r.pc \notin Working
    BY <1>1, <1>3, QuietClaims
  <2>2. cons'[c].pc \notin Working
    BY <2>1 DEF Becomes
  <2> QED BY <2>1, <2>2 DEF Becomes, Looked, Working, LoadedHeader
<1>4. CASE ClaimHead(c)
  <2>1. /\ cons'[c].pc = "header" /\ \A d \in Consumers : d # c => cons'[d] = cons[d]
    <3>1. Becomes(c, [cons[c] EXCEPT !.pc = "header", !.index = headIndex, !.desired = 0,
                                     !.stop = headIndex + cons[c].stop])
      BY <1>1, <1>4, ClaimHeadBecomes
    <3> QED BY <1>1, <3>1 DEF Becomes, ConsumerType
  <2> QED BY <2>1 DEF Looked, LoadedHeader
<1>5. CASE LoadBlockIndex(c)
  <2>1. \A d \in Consumers : d # c => cons'[d] = cons[d]
    BY <1>1, <1>5 DEF LoadBlockIndex
  <2> QED BY <1>1, <1>5, <2>1, LoadHeaderLooked
<1>6. CASE LoadIndexTail(c)
  <2>1. \A d \in Consumers : d # c => cons'[d] = cons[d]
    BY <1>1, <1>6 DEF LoadIndexTail
  <2> QED BY <1>1, <1>6, <2>1, LoadTailLooked
<1>7. CASE FindEntry(c)
  <2>1. \A d \in Consumers : d # c => cons'[d] = cons[d]
    BY <1>1, <1>7, FindEntryBecomes DEF Becomes
  <2> QED BY <1>1, <1>7, <2>1, FindLooked
<1>8. CASE TakeItems(c)
  <2>1. Becomes(c, [cons[c] EXCEPT !.pc = "empty", !.block = value[EntryOf(c)]])
    BY <1>1, <1>8, TakeBecomes
  <2>2. /\ cons[c].pc = "take" /\ UNCHANGED value
    BY <1>8 DEF TakeItems, ConsumerAt, indexVars
  <2>3. EntryOf(c) = Ent(Num(cons[c].index))
    BY <1>1, <2>2, EntryAtSlot DEF LookupInv
  <2>4. /\ cons'[c].pc = "empty" /\ cons'[c].index = cons[c].index /\ cons'[c].stop = cons[c].stop
        /\ cons'[c].header = cons[c].header /\ cons'[c].slot = cons[c].slot
        /\ cons'[c].block = value[Ent(Num(cons[c].index))]
        /\ \A d \in Consumers : d # c => cons'[d] = cons[d]
    BY <1>1, <2>1, <2>3 DEF Becomes, ConsumerType
  <2> QED BY <1>1, <1>2, <2>2, <2>4, SameLooked
<1>9. CASE SetEmpty(c)
  <2>1. /\ cons[c].pc = "empty" /\ UNCHANGED value
    BY <1>9 DEF SetEmpty, ConsumerAt, indexVars
  <2>2. \/ Becomes(c, [cons[c] EXCEPT !.pc = "unlink"])
        \/ Becomes(c, AfterBlock(c))
    BY <1>1, <1>9, SetEmptyBecomes
  <2>3. CASE Becomes(c, AfterBlock(c))
    BY <1>1, <1>2, <2>1, <2>3, AfterLooked DEF Becomes
  <2>4. CASE Becomes(c, [cons[c] EXCEPT !.pc = "unlink"])
    <3>1. /\ cons'[c].pc = "unlink" /\ cons'[c].index = cons[c].index
             /\ cons'[c].stop = cons[c].stop
          /\ cons'[c].header = cons[c].header /\ cons'[c].slot = cons[c].slot
          /\ cons'[c].block = cons[c].block
          /\ \A d \in Consumers : d # c => cons'[d] = cons[d]
      BY <1>1, <2>4 DEF Becomes, ConsumerType
    <3>2. cons[c].block = value[Ent(Num(cons[c].index))]
      BY <1>1, <2>1 DEF LookupInv, Looked
    <3> QED BY <1>1, <1>2, <2>1, <3>1, <3>2, SameLooked
  <2> QED BY <2>2, <2>3, <2>4
<1>10. CASE UnlinkBlock(c)
  <2>1. cons[c].pc = "unlink" /\ Becomes(c, [cons[c] EXCEPT !.pc = "recycle"])
    BY <1>1, <1>10, UnlinkBecomes DEF UnlinkBlock, ConsumerAt
  <2>2. /\ cons'[c].pc = "recycle" /\ cons'[c].index = cons[c].index /\ cons'[c].stop = cons[c].stop
        /\ cons'[c].header = cons[c].header /\ cons'[c].slot = cons[c].slot
        /\ \A d \in Consumers : d # c => cons'[d] = cons[d]
    BY <1>1, <2>1 DEF Becomes, ConsumerType
  <2> QED BY <1>1, <1>2, <2>1, <2>2, SameLooked
<1>11. CASE RecycleBlock(c)
  <2>1. cons[c].pc = "recycle" /\ Becomes(c, AfterBlock(c))
    BY <1>1, <1>11, RecycleBecomes DEF RecycleBlock, ConsumerAt
  <2> QED BY <1>1, <1>2, <2>1, AfterLooked DEF Becomes
<1> QED BY <1>3, <1>4, <1>5, <1>6, <1>7, <1>8, <1>9, <1>10, <1>11, DequeueCases

\* Every step of a consumer leaves all of them with the entries that they need.
LEMMA DequeueLooked ==
  ASSUME QueueBase, StoredInv, NEW c \in Consumers, DequeueStep(c)
  PROVE  LookupInv'
<1>1. Looked(c)' /\ \A d \in Consumers : d # c => cons'[d] = cons[d]
  BY OwnLooked
<1>2. \A d \in Consumers : d # c => Looked(d)'
  BY <1>1, OthersLooked DEF StoredInv
<1> QED BY <1>1, <1>2 DEF LookupInv

-----------------------------------------------------------------------------
(* Consumers find their entries while the producer works *)

\* The entry that the producer has taken for its next block carries the base of that.
LEMMA AddedEntry ==
  ASSUME QueueBase, KeyInv, prod.pc \in {"publish", "requisition"} \cup Linking \cup Backing
  PROVE  \E a \in Int : /\ a = AtNumber /\ a >= NextNumber
                        /\ prod.entry = Ent(a) /\ key[Ent(a)] = BLOCK_SIZE * a
<1>1. PICK last \in Int, none \in Int : Keyed(last, none)
  BY DEF KeyInv
<1>2. /\ ProducerInv /\ CounterType /\ AtNumber \in Int /\ Capacity \in Nat \ {0}
      /\ NextNumber \in Nat /\ Chained \in Nat
  BY BaseFacts
<1>3. AtNumber >= NextNumber
  <2>1. /\ prod.pc \in {"publish", "requisition"} => AtNumber = NextNumber + Chained
        /\ prod.pc \in Linking => AtNumber = NextNumber + Chained - 1 /\ Chained > 0
        /\ prod.pc \in Backing => AtNumber = NextNumber + (IF Bulk THEN Chained ELSE 0)
    BY <1>2, LocalNumbers DEF Entering, ProducerInv
  <2> QED BY <1>2, <2>1
<1>4. prod.entry = Ent(AtNumber) /\ AtNumber <= last
      /\ last < NextNumber + Capacity /\ none < NextNumber
  BY <1>1 DEF Keyed
<1>5. PICK a \in Int : a = AtNumber
  BY <1>2
<1>6. a \in last - Capacity + 1 .. last /\ a > none
  BY <1>2, <1>3, <1>4, <1>5
<1>7. key[Ent(a)] = BLOCK_SIZE * a
  BY <1>1, <1>6 DEF Keyed
<1> QED BY <1>3, <1>4, <1>5, <1>7

\* The producer gives a block to an entry, or takes one from it, only where nothing is
\* in use.
LEMMA EnqueueValues ==
  ASSUME QueueBase, KeyInv, LinkInv, EntriesStay, EnqueueStep, NEW n \in InUse
  PROVE  value'[Ent(n)] = value[Ent(n)]
<1>1. /\ ProducerInv /\ CounterType /\ HeaderInv /\ StoreType /\ blockIndex \in Nat
  BY BaseFacts DEF HeaderInv
<1>2. n \in Int /\ Ent(n) \in Entries /\ n \in 0 .. NextNumber - 1 /\ LinkedEntry(n)
  BY InUseEnts DEF LinkInv
<1>3. CASE LinkBlock \/ ClearEntry
  <2>1. prod.pc \in Linking \cup Backing
        /\ \E b : value' = [value EXCEPT ![prod.entry] = b]
    BY <1>3 DEF LinkBlock, ClearEntry, ProducerAt, Linking, Backing
  <2>2. PICK a \in Int : /\ a >= NextNumber
                         /\ prod.entry = Ent(a) /\ key[Ent(a)] = BLOCK_SIZE * a
    BY <2>1, AddedEntry
  <2>3. n # a
    BY <1>2, <2>2, BaseFacts
  <2>4. Ent(n) # Ent(a)
    BY <1>2, <2>2, <2>3, BasesOrdered DEF LinkedEntry
  <2> QED BY <1>1, <1>2, <2>1, <2>2, <2>4 DEF StoreType
<1>4. CASE UndoEntry
  <2>1. PICK m \in Linked : value' = [value EXCEPT ![Ent(m)] = NoBlock]
    BY <1>4, UndoneEntry
  <2>2. n # m
    BY <1>2, <2>1, BaseFacts
  <2>3. Ent(n) # Ent(m)
    BY <2>1, <2>2, KeysApart
  <2> QED BY <1>1, <1>2, <2>1, <2>3 DEF StoreType
<1>5. CASE ~LinkBlock /\ ~ClearEntry /\ ~UndoEntry
  <2>1. blockIndex' # blockIndex + 1
    BY <1>1 DEF EntriesStay
  <2>2. UNCHANGED value
    BY <1>5, <2>1 DEF EnqueueStep, StartEnqueue, CheckRoom, InsertIndexEntry, GrowIndex,
       PublishIndexTail, RequisitionBlock, ConstructFirst, FillBlocks, StoreTail, RewindIndexTail,
       UndoTail, GiveBlockBack, indexVars
  <2> QED BY <2>2
<1> QED BY <1>3, <1>4, <1>5

\* The only key that the producer stores is that of the number after the tail.
LEMMA EnqueueKeysValid ==
  ASSUME QueueBase, EntriesStay, EnqueueStep
  PROVE  \A e \in Entries : ValidKey(e) => ValidKey(e)'
<1>1. /\ ProducerInv /\ CounterType /\ HeaderInv /\ StoreType /\ blockIndex \in Nat /\ Top \in Int
      /\ NextNumber \in Nat /\ Chained \in Nat
  BY BaseFacts DEF HeaderInv
<1>2. CASE UNCHANGED key
  BY <1>2, KeysStayValid
<1>3. CASE InsertIndexEntry /\ ~UNCHANGED key
  <2>1. prod.pc = "insert" /\ key' = [key EXCEPT ![Header.index[NextSlot]] = prod.at]
    BY <1>3 DEF InsertIndexEntry, ProducerAt
  <2>2. PICK a \in Int : a = NextNumber + Chained
    BY <1>1
  <2>3. prod.at = BLOCK_SIZE * a
    BY <1>1, <2>1, <2>2 DEF ProducerInv, Entering
  <2>4. a = Top + 1
    <3>1. Top = NextNumber + Chained - 1
      BY <2>1 DEF Top, Undoing
    <3> QED BY <1>1, <2>2, <3>1
  <2>5. Header.index[NextSlot] = Ent(a)
    BY <1>1, <2>4, EntAtTop
  <2> SUFFICES ASSUME NEW e \in Entries, ValidKey(e) PROVE ValidKey(e)'
    OBVIOUS
  <2>6. CASE e = Ent(a)
    <3>1. key'[e] = BLOCK_SIZE * a
      BY <1>1, <2>1, <2>3, <2>5, <2>6 DEF StoreType
    <3>2. Ent(a)' = e
      BY <2>6 DEF EntriesStay
    <3> QED BY <3>1, <3>2 DEF ValidKey
  <2>7. CASE e # Ent(a)
    <3>1. PICK k \in Int : key[e] = BLOCK_SIZE * k /\ Ent(k) = e
      BY DEF ValidKey
    <3>2. key'[e] = key[e]
      BY <1>1, <2>1, <2>5, <2>7 DEF StoreType
    <3>3. Ent(k)' = e
      BY <3>1 DEF EntriesStay
    <3> QED BY <3>1, <3>2, <3>3 DEF ValidKey
  <2> QED BY <2>6, <2>7
<1>4. CASE ~InsertIndexEntry
  <2>1. blockIndex' # blockIndex + 1
    BY <1>1 DEF EntriesStay
  <2>2. UNCHANGED key
    BY <1>4, <2>1 DEF EnqueueStep, StartEnqueue, CheckRoom, GrowIndex, LinkBlock, ClearEntry,
       UndoEntry,
       PublishIndexTail, RequisitionBlock, ConstructFirst, FillBlocks, StoreTail, RewindIndexTail,
       UndoTail, GiveBlockBack, indexVars
  <2> QED BY <2>2, KeysStayValid
<1> QED BY <1>2, <1>3, <1>4

\* The key under a tail that the producer stores is valid while anything is in use.
LEMMA EnqueueTails ==
  ASSUME QueueBase, KeyInv, LinkInv, EntriesStay, EnqueueStep, InUse # {},
         NEW h \in 1 .. blockIndex, headers'[h].tail # headers[h].tail
  PROVE  ValidKey(headers[h].index[headers[h].tail])'
<1>1. /\ ProducerInv /\ CounterType /\ HeaderInv /\ StoreType /\ blockIndex \in Nat /\ Top \in Int
      /\ NextNumber \in Nat /\ Chained \in Nat
  BY BaseFacts DEF HeaderInv
<1>2. PublishIndexTail \/ RewindIndexTail \/ UndoTail
  <2>1. blockIndex' # blockIndex + 1
    BY <1>1 DEF EntriesStay
  <2>2. ~UNCHANGED headers
    OBVIOUS
  <2> QED BY <2>1, <2>2 DEF EnqueueStep, StartEnqueue, CheckRoom, InsertIndexEntry, GrowIndex,
       RequisitionBlock, ConstructFirst, LinkBlock, FillBlocks, StoreTail, ClearEntry, UndoEntry,
       GiveBlockBack, indexVars
<1>3. PICK t \in Int : t = Top' /\ HeaderInv' /\ UNCHANGED key /\ ValidKey(Ent(t))
  <2>1. CASE PublishIndexTail
    <3>1. Top' = Top + 1 /\ HeaderInv' /\ prod.pc = "publish"
      BY <1>1, <2>1, PublishLocals
    <3>2. PICK a \in Int : a = AtNumber /\ prod.entry = Ent(a) /\ key[Ent(a)] = BLOCK_SIZE * a
      BY <3>1, AddedEntry
    <3>3. a = Top + 1
      <4>1. Top = NextNumber + Chained - 1
        BY <3>1 DEF Top, Undoing
      <4>2. a = NextNumber + Chained
        BY <1>1, <3>1, <3>2, LocalNumbers DEF Entering
      <4> QED BY <1>1, <4>1, <4>2
    <3> QED BY <2>1, <3>1, <3>2, <3>3 DEF ValidKey, PublishIndexTail
  <2>2. CASE RewindIndexTail \/ UndoTail
    <3>1. Top' = Top - 1 /\ HeaderInv' /\ Top >= NextNumber
      BY <1>1, <2>2, RewindLocals, UndoTailLocals
    <3>2. PICK t \in Int : t = Top - 1 /\ NextNumber - 1 <= t /\ t <= Top
      BY <1>1, <3>1
    <3>3. ValidKey(Ent(t))
      BY <3>2, KeysFrom
    <3> QED BY <2>2, <3>1, <3>2, <3>3 DEF RewindIndexTail, UndoTail
  <2> QED BY <1>2, <2>1, <2>2
<1>4. PICK e \in Entries : e = Ent(t) /\ Ent(t)' = e
  BY BaseFacts DEF EntriesStay, EntsCover
<1>5. ValidKey(e)'
  BY <1>3, <1>4, KeysStayValid
<1>6. h = blockIndex
  BY <1>1, <1>2 DEF PublishIndexTail, RewindIndexTail, UndoTail, RewindTail, HeaderInv
<1>7. Header'.index[Header'.tail] = e
  <2>1. (HeaderInv /\ Top \in Int)'
    BY <1>3
  <2>2. (Ent(Top) = Header.index[Header.tail] /\ Ent(Top + 1) = Header.index[NextSlot])'
    BY <2>1, EntAtTop, PTL
  <2>3. Ent(Top)' = Ent(t)'
    BY <1>3 DEF Ent
  <2> QED BY <1>4, <2>2, <2>3
<1>8. headers'[h].index[headers'[h].tail] = e
  BY <1>6, <1>7 DEF Header, EntriesStay
<1> QED BY <1>5, <1>8 DEF ValidKey

\* A larger index leaves every valid key so: the newest key is that of the tail.
LEMMA GrowKeysValid ==
  ASSUME QueueBase, KeyInv, IndexGrows
  PROVE  \A e \in Entries : ValidKey(e) => ValidKey(e)'
<1>1. PICK last \in Int, none \in Int : Keyed(last, none)
  BY DEF KeyInv
<1>2. /\ HeaderInv /\ Top \in Int /\ EntsCover /\ Capacity \in Nat \ {0}
  BY BaseFacts
<1>3. last = Top /\ none <= Top - Capacity
  BY <1>1 DEF IndexGrows, Keyed
<1>4. \A n \in Top - Capacity + 1 .. Top : Ent(n)' = Ent(n)
  BY <1>2, EntGrown DEF IndexGrows, SameNumbers
<1> SUFFICES ASSUME NEW e \in Entries PROVE ValidKey(e)'
  OBVIOUS
<1>5. PICK n \in Top - Capacity + 1 .. Top : Ent(n) = e
  <2>1. Top - Capacity + 1 \in Int /\ (Top - Capacity + 1) + Capacity - 1 = Top
    BY <1>2
  <2> QED BY <2>1, <1>2 DEF EntsCover
<1>6. n \in Int /\ n > none
  BY <1>2, <1>3, <1>5
<1>7. key[e] = BLOCK_SIZE * n
  BY <1>1, <1>3, <1>5, <1>6 DEF Keyed
<1>8. key'[e] = BLOCK_SIZE * n /\ Ent(n)' = e
  BY <1>4, <1>5, <1>7 DEF IndexGrows
<1> QED BY <1>6, <1>8 DEF ValidKey

\* Every step of the producer leaves the consumers what they looked up.
LEMMA EnqueueLooked ==
  ASSUME QueueBase, KeyInv, LinkInv, LookupInv, EnqueueStep
  PROVE  LookupInv'
<1>1. /\ HeaderInv /\ Top \in Int /\ InUse \subseteq Int /\ Capacity \in Nat \ {0}
  BY BaseFacts
<1>2. UNCHANGED cons
  BY DEF EnqueueStep, StartEnqueue, CheckRoom, InsertIndexEntry, GrowIndex, PublishIndexTail,
     RequisitionBlock, ConstructFirst, LinkBlock, FillBlocks, StoreTail, RewindIndexTail,
        ClearEntry,
     UndoEntry, UndoTail, GiveBlockBack
<1> SUFFICES ASSUME NEW d \in Consumers PROVE Looked(d)'
  BY DEF LookupInv
<1>3. Looked(d) /\ cons'[d] = cons[d]
  BY <1>2 DEF LookupInv
<1>4. cons[d].pc \in {"empty", "unlink"} => Num(cons[d].index) \in InUse
  BY ClaimedInUse DEF Working
<1>5. CASE EntriesStay
  <2>1. \A n \in InUse : value'[Ent(n)] = value[Ent(n)]
    BY <1>5, EnqueueValues
  <2>2. \A n \in InUse : Ent(n)' = Ent(n)
    BY <1>1, <1>5 DEF EntriesStay
  <2>3. \A e \in Entries : ValidKey(e) => ValidKey(e)'
    BY <1>5, EnqueueKeysValid
  <2>4. \A h \in 1 .. blockIndex : InUse # {} /\ headers'[h].tail # headers[h].tail =>
           ValidKey(headers[h].index[headers[h].tail])'
    BY <1>5, EnqueueTails
  <2>5. \A h \in 1 .. blockIndex :
       headers'[h].capacity = headers[h].capacity /\ headers'[h].index = headers[h].index
    BY <1>5 DEF EntriesStay
  <2> QED BY <1>3, <1>4, <2>1, <2>2, <2>3, <2>4, <2>5, LookedStays
<1>6. CASE IndexGrows
  <2>1. PICK last \in Int, none \in Int : Keyed(last, none)
    BY DEF KeyInv
  <2>2. last = Top
    BY <1>6, <2>1 DEF IndexGrows, Keyed
  <2>3. \A n \in InUse : Ent(n)' = Ent(n) /\ value'[Ent(n)] = value[Ent(n)]
    <3> TAKE n \in InUse
    <3>1. n \in Top - Capacity + 1 .. Top
      BY <2>1, <2>2, InWindow
    <3>2. Ent(n)' = Ent(n)
      BY <1>1, <1>6, <3>1, EntGrown DEF IndexGrows, SameNumbers
    <3>3. Ent(n) \in Entries
      BY <1>1, BaseFacts DEF EntsCover
    <3> QED BY <1>6, <3>2, <3>3 DEF IndexGrows
  <2>4. \A e \in Entries : ValidKey(e) => ValidKey(e)'
    BY <1>6, GrowKeysValid
  <2>5. \A h \in 1 .. blockIndex : headers'[h] = headers[h]
    BY <1>1, <1>6, IndexGrown DEF IndexGrows
  <2> QED BY <1>3, <1>4, <2>3, <2>4, <2>5, LookedStays
<1> QED BY <1>5, <1>6, EnqueueEntries

-----------------------------------------------------------------------------
(* A block goes from one holder to the next *)

\* A block that no step moves keeps its place.
LEMMA PlaceStays ==
  ASSUME NEW b, OwnedOnce(b), \A x, y : Held(b, x, y)' <=> Held(b, x, y)
  PROVE  OwnedOnce(b)'
<1>1. PICK w, a : \A x, y : Held(b, x, y) <=> x = w /\ y = a
  BY DEF OwnedOnce
<1>2. \A x, y : Held(b, x, y)' <=> x = w /\ y = a
  BY <1>1
<1>3. \E v, d : \A x, y : Held(b, x, y)' <=> x = v /\ y = d
  BY <1>2
<1> QED BY <1>3 DEF OwnedOnce

\* The one place of a block.
LEMMA OnePlace ==
  ASSUME NEW b, OwnedOnce(b), NEW w, NEW a, Held(b, w, a)
  PROVE  \A x, y : Held(b, x, y) <=> x = w /\ y = a
  BY DEF OwnedOnce

\* The consumers that hold a block go on holding it, and no other begins to.
RecyclersSame ==
  \A c \in Consumers : /\ cons'[c].pc = "recycle" <=> cons[c].pc = "recycle"
                       /\ cons[c].pc = "recycle" => cons'[c].block = cons[c].block

\* Where a block is, when the pools, the index, the chain or the consumers change.
LEMMA HeldSame ==
  ASSUME NEW b, UNCHANGED poolVars, Entries' = Entries, UNCHANGED value,
         prod'.chain = prod.chain, NextNumber' = NextNumber, Linked' = Linked, RecyclersSame
  PROVE  \A x, y : Held(b, x, y)' <=> Held(b, x, y)
  BY DEF Held, RecyclersSame, Chained, poolVars

\* add_block_to_free_list() gives the block to one pool.
LEMMA PoolAdds ==
  ASSUME NEW b, AddBlockToFreeList(b), UNCHANGED initialBlockPoolIndex
  PROVE  \/ freeBlocks' = freeBlocks \cup {b} /\ UNCHANGED <<heap, initialBlockPoolIndex>>
         \/ heap' = heap \cup {b} /\ UNCHANGED <<freeBlocks, initialBlockPoolIndex>>
  BY DEF AddBlockToFreeList

-----------------------------------------------------------------------------
(* Consumers *)

\* A consumer that is neither unlinking nor recycling moves no block.
LEMMA QuietOwners ==
  ASSUME QueueBase, OwnerInv, NEW c \in Consumers, DequeueStep(c), ~UnlinkBlock(c),
         \A d \in Consumers : d # c => cons'[d] = cons[d],
         cons[c].pc # "recycle", cons'[c].pc # "recycle", UNCHANGED <<freeBlocks, heap>>
  PROVE  OwnerInv'
<1>1. /\ UNCHANGED <<prod, initialBlockPoolIndex, value>> /\ Entries' = Entries
      /\ NextNumber' = NextNumber /\ Linked' = Linked
  BY DequeueFrame DEF EntriesStay
<1>2. RecyclersSame
  BY DEF RecyclersSame
<1>3. \A b \in Blocks : OwnedOnce(b)'
  <2> TAKE b \in Blocks
  <2>1. OwnedOnce(b)
    BY DEF OwnerInv
  <2>2. \A x, y : Held(b, x, y)' <=> Held(b, x, y)
    BY <1>1, <1>2, HeldSame DEF poolVars
  <2> QED BY <2>1, <2>2, PlaceStays
<1> QED BY <1>1, <1>2, <1>3 DEF OwnerInv, RecyclersSame

\* The block of an entry that a consumer clears is that consumer's
\* (concurrentqueue.h:2627, :2886).
LEMMA UnlinkOwners ==
  ASSUME QueueBase, LinkInv, LookupInv, OwnerInv, NEW c \in Consumers, UnlinkBlock(c)
  PROVE  OwnerInv'
<1>1. /\ UNCHANGED <<prod, poolVars>> /\ Entries' = Entries /\ StoreType /\ LocalType
      /\ NextNumber' = NextNumber /\ Linked' = Linked /\ HeaderInv
  <2>1. DequeueStep(c)
    BY DEF DequeueStep
  <2> QED BY <2>1, DequeueFrame, BaseFacts DEF EntriesStay, UnlinkBlock
<1>2. cons[c].pc = "unlink" /\ cons[c].pc \in Working
  BY DEF UnlinkBlock, ConsumerAt, Working
<1>3. PICK e \in Entries : /\ e = EntryOf(c) /\ value[e] = cons[c].block /\ value[e] \in Blocks
  <2>1. Looked(c)
    BY DEF LookupInv
  <2>2. EntryOf(c) = Ent(Num(cons[c].index)) /\ cons[c].block = value[Ent(Num(cons[c].index))]
    BY <1>2, <2>1, EntryAtSlot DEF Looked
  <2>3. Num(cons[c].index) \in InUse
    BY <1>2, ClaimedInUse
  <2>4. value[Ent(Num(cons[c].index))] \in Blocks
    BY <2>3 DEF LinkInv, LinkedEntry
  <2>5. EntryOf(c) \in Entries
    BY <1>1, <1>2, EntryOfType DEF LoadedSlot
  <2> QED BY <2>2, <2>4, <2>5
<1>4. value' = [value EXCEPT ![e] = NoBlock]
  BY <1>3 DEF UnlinkBlock
<1>5. Becomes(c, [cons[c] EXCEPT !.pc = "recycle"])
  BY <1>1, UnlinkBecomes
<1>6. /\ cons'[c].pc = "recycle" /\ cons'[c].block = cons[c].block
      /\ \A d \in Consumers : d # c => cons'[d] = cons[d]
  BY <1>1, <1>5 DEF Becomes, LocalType, ConsumerType
<1>7. \A b \in Blocks : OwnedOnce(b)'
  <2> TAKE b \in Blocks
  <2>1. OwnedOnce(b) /\ b # NoBlock
    BY BlockSize DEF OwnerInv
  <2>2. CASE b = value[e]
    <3>1. Held(b, "index", e)
      BY <1>3, <2>2 DEF Held
    <3>2. \A x, y : Held(b, x, y)' <=> (Held(b, x, y) /\ ~(x = "index" /\ y = e))
                                       \/ (x = "consumer" /\ y = c)
      BY <1>1, <1>2, <1>3, <1>4, <1>6, <2>1, <2>2 DEF Held, Chained, StoreType, poolVars
    <3>3. \A x, y : Held(b, x, y) <=> x = "index" /\ y = e
      BY <2>1, <3>1, OnePlace
    <3>4. \A x, y : Held(b, x, y)' <=> x = "consumer" /\ y = c
      BY <3>2, <3>3
    <3>5. \E w1, a1 : \A x, y : Held(b, x, y)' <=> x = w1 /\ y = a1
      BY <3>4
    <3> QED BY <3>5 DEF OwnedOnce
  <2>3. CASE b # value[e]
    <3>1. \A x, y : Held(b, x, y)' <=> Held(b, x, y)
      BY <1>1, <1>2, <1>3, <1>4, <1>6, <2>1, <2>3 DEF Held, Chained, StoreType, poolVars
    <3> QED BY <2>1, <3>1, PlaceStays
  <2> QED BY <2>2, <2>3
<1> QED BY <1>1, <1>3, <1>6, <1>7 DEF OwnerInv, poolVars

\* And goes from there to a pool (concurrentqueue.h:2629, :2888).
LEMMA RecycleOwners ==
  ASSUME QueueBase, OwnerInv, NEW c \in Consumers, RecycleBlock(c)
  PROVE  OwnerInv'
<1>1. /\ UNCHANGED <<prod, initialBlockPoolIndex, value>> /\ Entries' = Entries /\ LocalType
      /\ NextNumber' = NextNumber /\ Linked' = Linked /\ HeaderInv /\ ClaimsApart
  <2>1. DequeueStep(c) /\ ~UnlinkBlock(c)
    BY DEF DequeueStep, RecycleBlock, UnlinkBlock, ConsumerAt
  <2> QED BY <2>1, DequeueFrame, BaseFacts DEF EntriesStay, QueueBase
<1>2. cons[c].pc = "recycle" /\ cons[c].pc \in Working /\ cons[c].block \in Blocks
  BY DEF RecycleBlock, ConsumerAt, Working, OwnerInv
<1>3. /\ cons'[c].pc # "recycle"
      /\ \A d \in Consumers : d # c => cons'[d] = cons[d]
  <2>1. Becomes(c, AfterBlock(c))
    BY <1>1, RecycleBecomes
  <2>2. AfterBlock(c).pc \in Working => AfterBlock(c).pc = "take"
    BY <1>1, <1>2, AfterBlockOwed
  <2> QED BY <2>1, <2>2 DEF Becomes, Working
<1>4. PICK b0 \in Blocks :
        /\ b0 = cons[c].block
        /\ \/ freeBlocks' = freeBlocks \cup {b0} /\ UNCHANGED heap
           \/ heap' = heap \cup {b0} /\ UNCHANGED freeBlocks
  BY <1>1, <1>2, PoolAdds DEF RecycleBlock
<1>5. \A b \in Blocks : OwnedOnce(b)'
  <2> TAKE b \in Blocks
  <2>1. OwnedOnce(b)
    BY DEF OwnerInv
  <2>2. CASE b = b0
    <3>1. Held(b, "consumer", c)
      BY <1>2, <1>4, <2>2 DEF Held
    <3>2. \A x, y : Held(b, x, y) <=> x = "consumer" /\ y = c
      BY <2>1, <3>1, OnePlace
    <3>3. CASE freeBlocks' = freeBlocks \cup {b0} /\ UNCHANGED heap
      <4>1. \A x, y : Held(b, x, y)' <=> (Held(b, x, y) /\ ~(x = "consumer" /\ y = c))
                                         \/ (x = "pool" /\ y = b)
        BY <1>1, <1>2, <1>3, <1>4, <2>2, <3>3 DEF Held, Chained
      <4>2. \A x, y : Held(b, x, y)' <=> x = "pool" /\ y = b
        BY <3>2, <4>1
      <4>3. \E w1, a1 : \A x, y : Held(b, x, y)' <=> x = w1 /\ y = a1
        BY <4>2
      <4> QED BY <4>3 DEF OwnedOnce
    <3>4. CASE heap' = heap \cup {b0} /\ UNCHANGED freeBlocks
      <4>1. \A x, y : Held(b, x, y)' <=> (Held(b, x, y) /\ ~(x = "consumer" /\ y = c))
                                         \/ (x = "heap" /\ y = b)
        BY <1>1, <1>2, <1>3, <1>4, <2>2, <3>4 DEF Held, Chained
      <4>2. \A x, y : Held(b, x, y)' <=> x = "heap" /\ y = b
        BY <3>2, <4>1
      <4>3. \E w1, a1 : \A x, y : Held(b, x, y)' <=> x = w1 /\ y = a1
        BY <4>2
      <4> QED BY <4>3 DEF OwnedOnce
    <3> QED BY <1>4, <3>3, <3>4
  <2>3. CASE b # b0
    <3>1. \A x, y : Held(b, x, y)' <=> Held(b, x, y)
      BY <1>1, <1>2, <1>3, <1>4, <2>3 DEF Held, Chained
    <3> QED BY <2>1, <3>1, PlaceStays
  <2> QED BY <2>2, <2>3
<1> QED BY <1>1, <1>3, <1>4, <1>5 DEF OwnerInv

\* Every step of a consumer.
LEMMA DequeueOwners ==
  ASSUME QueueBase, LinkInv, LookupInv, OwnerInv, NEW c \in Consumers, DequeueStep(c)
  PROVE  OwnerInv'
<1>1. /\ LocalType /\ HeaderInv /\ ClaimsApart /\ QueueShape /\ StoreType /\ CounterType
      /\ cons \in [Consumers -> ConsumerType]
  BY BaseFacts DEF QueueBase
<1>2. CASE cons[c].pc \notin Working \cup {"head"}
  <2>1. PICK r : Becomes(c, r) /\ r.pc \notin Working
    BY <1>1, <1>2, QuietClaims
  <2>2. UNCHANGED poolVars
    BY <1>1, <1>2, QuietClaims
  <2>3. ~UnlinkBlock(c) /\ cons[c].pc # "recycle" /\ cons'[c].pc # "recycle"
        /\ \A d \in Consumers : d # c => cons'[d] = cons[d]
    BY <1>2, <2>1 DEF UnlinkBlock, ConsumerAt, Working, Becomes
  <2> QED BY <2>2, <2>3, QuietOwners DEF poolVars
<1>3. CASE ClaimHead(c) \/ LoadBlockIndex(c) \/ LoadIndexTail(c) \/ FindEntry(c) \/ TakeItems(c)
           \/ SetEmpty(c)
  <2>1. UNCHANGED poolVars /\ ~UnlinkBlock(c) /\ cons[c].pc # "recycle"
    BY <1>3 DEF ClaimHead, LoadBlockIndex, LoadIndexTail, FindEntry, TakeItems, SetEmpty,
                ConsumerAt, UnlinkBlock
  <2>2. cons'[c].pc # "recycle" /\ \A d \in Consumers : d # c => cons'[d] = cons[d]
    <3>1. CASE ClaimHead(c)
      BY <1>1, <3>1 DEF ClaimHead, ConsumerType
    <3>2. CASE LoadBlockIndex(c)
      BY <1>1, <3>2 DEF LoadBlockIndex, ConsumerType
    <3>3. CASE LoadIndexTail(c)
      BY <1>1, <3>3 DEF LoadIndexTail, ConsumerType
    <3>4. CASE FindEntry(c)
      BY <1>1, <3>4 DEF FindEntry, ConsumerType
    <3>5. CASE TakeItems(c)
      BY <1>1, <3>5 DEF TakeItems, ConsumerType
    <3>6. CASE SetEmpty(c)
      <4>1. PICK q : /\ Becomes(c, q)
                     /\ q = [cons[c] EXCEPT !.pc = "unlink"] \/ q = AfterBlock(c)
        BY <1>1, <3>6, SetEmptyBecomes
      <4>2. cons[c].pc \in Working
        BY <3>6 DEF SetEmpty, ConsumerAt, Working
      <4>3. AfterBlock(c).pc \in Working => AfterBlock(c).pc = "take"
        BY <1>1, <4>2, AfterBlockOwed
      <4>4. q.pc # "recycle"
        BY <1>1, <4>1, <4>3 DEF ConsumerType, Working
      <4> QED BY <4>1, <4>4 DEF Becomes
    <3> QED BY <1>3, <3>1, <3>2, <3>3, <3>4, <3>5, <3>6
  <2> QED BY <2>1, <2>2, QuietOwners DEF poolVars
<1> QED BY <1>2, <1>3, UnlinkOwners, RecycleOwners, DequeueCases

-----------------------------------------------------------------------------
(* The producer moves blocks *)

\* An entry that is cleared because it got no block has none.
LEMMA ClearedIsClear ==
  ASSUME QueueBase, KeyInv, prod.pc = "clear", value' = [value EXCEPT ![prod.entry] = NoBlock]
  PROVE  value' = value
<1>1. PICK last \in Int, none \in Int : Keyed(last, none)
  BY DEF KeyInv
<1>2. /\ ProducerInv /\ CounterType /\ StoreType /\ AtNumber \in Int
      /\ Capacity \in Nat \ {0} /\ NextNumber \in Nat /\ Chained \in Nat
  BY BaseFacts
<1>3. prod.entry = Ent(AtNumber) /\ AtNumber <= last /\ last < NextNumber + Capacity
  BY <1>1 DEF Keyed, Backing
<1>4. AtNumber >= NextNumber /\ AtNumber \notin Linked
  <2>1. AtNumber = NextNumber + (IF Bulk THEN Chained ELSE 0)
        /\ Linked = IF Bulk THEN NextNumber .. NextNumber + Chained - 1 ELSE {}
    BY <1>2, LocalNumbers DEF Linked, Backing, Linking
  <2> QED BY <1>2, <2>1
<1>5. AtNumber \in last - Capacity + 1 .. last
  BY <1>2, <1>3, <1>4
<1>6. value[Ent(AtNumber)] = NoBlock
  BY <1>1, <1>4, <1>5 DEF Keyed
<1> QED BY <1>2, <1>3, <1>6 DEF StoreType

\* A step of the producer that moves no block.
LEMMA IdleOwners ==
  ASSUME OwnerInv, UNCHANGED <<cons, poolVars, value>>, Entries' = Entries,
         prod'.chain = prod.chain, NextNumber' = NextNumber, Linked' = Linked
  PROVE  OwnerInv'
<1>1. RecyclersSame
  BY DEF RecyclersSame
<1>2. \A b \in Blocks : OwnedOnce(b)'
  <2> TAKE b \in Blocks
  <2>1. OwnedOnce(b)
    BY DEF OwnerInv
  <2>2. \A x, y : Held(b, x, y)' <=> Held(b, x, y)
    BY <1>1, HeldSame
  <2> QED BY <2>1, <2>2, PlaceStays
<1> QED BY <1>2 DEF OwnerInv, poolVars

\* The entries of a larger index have no blocks yet.
LEMMA GrowOwners ==
  ASSUME QueueBase, OwnerInv, IndexGrows
  PROVE  OwnerInv'
<1>1. /\ HeaderInv /\ Capacity \in Nat \ {0} /\ NoBlock \notin Blocks
  BY BaseFacts, BlockSize
<1>2. Capacity' = 2 * Capacity
  BY <1>1, IndexGrown DEF IndexGrows
<1>3. ASSUME NEW b \in Blocks, NEW e
      PROVE  e \in Entries' /\ value'[e] = b <=> e \in Entries /\ value[e] = b
  <2>1. e \in Entries' <=> e \in Entries \/ e \in Capacity .. 2 * Capacity - 1
    BY <1>1, <1>2 DEF Entries
  <2>2. e \in Entries => value'[e] = value[e]
    BY DEF IndexGrows
  <2>3. e \in Capacity .. 2 * Capacity - 1 => value'[e] # b
    BY <1>1 DEF IndexGrows
  <2> QED BY <2>1, <2>2, <2>3
<1>4. /\ UNCHANGED <<cons, freeBlocks, heap, initialBlockPoolIndex>> /\ prod'.chain = prod.chain
      /\ NextNumber' = NextNumber /\ Linked' = Linked
  BY DEF IndexGrows, SameNumbers, poolVars
<1>5. \A b \in Blocks : OwnedOnce(b)'
  <2> TAKE b \in Blocks
  <2>1. OwnedOnce(b)
    BY DEF OwnerInv
  <2>2. \A x, y : Held(b, x, y)' <=> Held(b, x, y)
    BY <1>3, <1>4 DEF Held, Chained
  <2> QED BY <2>1, <2>2, PlaceStays
<1> QED BY <1>4, <1>5 DEF OwnerInv

\* requisition_block() takes the block out of one pool (concurrentqueue.h:2530-2531, :2683).
LEMMA RequisitionOwners ==
  ASSUME QueueBase, OwnerInv, EntriesStay, RequisitionBlock
  PROVE  OwnerInv'
<1>1. /\ HeaderInv /\ ProducerInv /\ CounterType /\ PoolType /\ NextNumber \in Nat
         /\ Chained \in Nat
      /\ NoBlock \notin Blocks /\ InitialBlocks \in Nat
  BY BaseFacts, BlockSize, QueueShapeAssumption
<1>2. /\ NextNumber' = NextNumber /\ Linked' = Linked /\ prod.pc = "requisition"
      /\ \/ prod'.chain = prod.chain /\ UNCHANGED poolVars
         \/ \E b \in Pointers : TakesBlock(b)
  BY <1>1, RequisitionLocals DEF SameNumbers
<1>3. UNCHANGED <<cons, value>> /\ Entries' = Entries
  BY DEF RequisitionBlock, indexVars, EntriesStay
<1>4. CASE prod'.chain = prod.chain /\ UNCHANGED poolVars
  BY <1>2, <1>3, <1>4, IdleOwners
<1>5. ASSUME NEW g \in Pointers, TakesBlock(g) PROVE OwnerInv'
  <2>1. prod'.chain = Append(prod.chain, g) /\ prod.chain \in Seq(Blocks)
    BY <1>5 DEF TakesBlock, OwnerInv
  <2>2. PICK w \in {"initial", "pool", "heap"} :
          /\ g \in Blocks
          /\ w = "initial" => /\ initialBlockPoolIndex < InitialBlocks
                              /\ g = initialBlockPoolIndex + 1 /\ initialBlockPoolIndex' = g
                              /\ UNCHANGED <<freeBlocks, heap>>
          /\ w = "pool" => /\ g \in freeBlocks /\ freeBlocks' = freeBlocks \ {g}
                           /\ UNCHANGED <<initialBlockPoolIndex, heap>>
          /\ w = "heap" => /\ g \in heap /\ heap' = heap \ {g}
                           /\ UNCHANGED <<initialBlockPoolIndex, freeBlocks>>
    <3>1. initialBlockPoolIndex < InitialBlocks => initialBlockPoolIndex + 1 \in Blocks
      BY <1>1 DEF PoolType, Blocks
    <3> QED BY <1>5, <3>1 DEF TakesBlock, OwnerInv
  <2>3. /\ Chained' = Chained + 1 /\ prod'.chain[Chained + 1] = g
        /\ \A k \in 1 .. Chained : prod'.chain[k] = prod.chain[k]
    BY <1>1, <2>1, <2>2 DEF Chained
  <2>4. Linked = NextNumber .. NextNumber + Chained - 1
    BY <1>2 DEF Linked, Linking, Backing, Undoing
  <2>5. PICK n \in Nat : n = Chained + 1 /\ NextNumber + n - 1 \notin Linked
    BY <1>1, <2>4
  <2>6. ASSUME NEW b, NEW k
        PROVE  (k \in 1 .. Chained' /\ NextNumber' + k - 1 \notin Linked' /\ prod'.chain[k] = b)
           <=> \/ k \in 1 .. Chained /\ NextNumber + k - 1 \notin Linked /\ prod.chain[k] = b
               \/ k = n /\ b = g
    <3>1. k \in 1 .. Chained' <=> k \in 1 .. Chained \/ k = n
      BY <1>1, <2>3, <2>5
    <3> QED BY <1>2, <2>3, <2>5, <3>1
  <2>7. ASSUME NEW b \in Blocks PROVE OwnedOnce(b)'
    <3>1. OwnedOnce(b)
      BY DEF OwnerInv
    <3>2. CASE b = g
      <4>1. Held(b, w, g)
        BY <1>1, <2>2, <3>2 DEF Held, PoolType
      <4>2. \A x, y : Held(b, x, y) <=> x = w /\ y = g
        BY <3>1, <4>1, OnePlace
      <4>3. \A x, y : Held(b, x, y)' <=> (Held(b, x, y) /\ ~(x = w /\ y = g))
                                         \/ (x = "producer" /\ y = n)
        <5>1. CASE w = "pool"
          BY <1>3, <2>2, <2>6, <3>2, <5>1 DEF Held
        <5>2. CASE w = "heap"
          BY <1>3, <2>2, <2>6, <3>2, <5>2 DEF Held
        <5>3. CASE w = "initial"
          <6>1. g \notin initialBlockPoolIndex' + 1 .. InitialBlocks
            BY <1>1, <2>2, <5>3 DEF PoolType
          <6> QED BY <1>3, <2>2, <2>6, <3>2, <5>3, <6>1 DEF Held
        <5> QED BY <2>2, <5>1, <5>2, <5>3
      <4>4. \A x, y : Held(b, x, y)' <=> x = "producer" /\ y = n
        BY <4>2, <4>3
      <4>5. \E w1, a1 : \A x, y : Held(b, x, y)' <=> x = w1 /\ y = a1
        BY <4>4
      <4> QED BY <4>5 DEF OwnedOnce
    <3>3. CASE b # g
      <4>1. \A x, y : Held(b, x, y)' <=> Held(b, x, y)
        <5>1. CASE w = "pool" \/ w = "heap"
          BY <1>3, <2>2, <2>6, <3>3, <5>1 DEF Held
        <5>2. CASE w = "initial"
          <6>1. b \in initialBlockPoolIndex' + 1 .. InitialBlocks
                  <=> b \in initialBlockPoolIndex + 1 .. InitialBlocks
            BY <1>1, <2>2, <3>3, <5>2 DEF PoolType
          <6>2. UNCHANGED <<freeBlocks, heap>>
            BY <2>2, <5>2
          <6>3. \A y : Held(b, "initial", y)' <=> Held(b, "initial", y)
            BY <6>1 DEF Held
          <6>4. \A x, y : x # "initial" => (Held(b, x, y)' <=> Held(b, x, y))
            BY <1>3, <2>6, <3>3, <6>2 DEF Held
          <6> QED BY <6>3, <6>4
        <5> QED BY <2>2, <5>1, <5>2
      <4> QED BY <3>1, <4>1, PlaceStays
    <3> QED BY <3>2, <3>3
  <2>8. prod'.chain \in Seq(Blocks) /\ freeBlocks' \subseteq Blocks /\ heap' \subseteq Blocks
    BY <2>1, <2>2 DEF OwnerInv
  <2> QED BY <1>3, <2>7, <2>8 DEF OwnerInv
<1> QED BY <1>2, <1>4, <1>5

\* The entry of the new block takes it from the producer's hands
\* (concurrentqueue.h:2555, :2706-2710).
LEMMA LinkOwners ==
  ASSUME QueueBase, KeyInv, OwnerInv, EntriesStay, LinkBlock
  PROVE  OwnerInv'
<1>1. /\ HeaderInv /\ ProducerInv /\ CounterType /\ StoreType /\ NextNumber \in Nat
         /\ Chained \in Nat
      /\ Capacity \in Nat \ {0} /\ NoBlock \notin Blocks /\ EntsCover /\ AtNumber \in Int
  BY BaseFacts, BlockSize
<1>2. /\ NextNumber' = NextNumber /\ prod.pc = "link" /\ Linked' = Linked \cup {AtNumber}
      /\ AtNumber = NextNumber + Chained - 1 /\ Chained > 0 /\ prod'.chain = prod.chain
  BY <1>1, LinkLocals
<1>3. /\ UNCHANGED <<cons, freeBlocks, heap, initialBlockPoolIndex>> /\ Entries' = Entries
      /\ value' = [value EXCEPT ![prod.entry] = NewBlock]
  BY DEF LinkBlock, poolVars, EntriesStay
<1>4. PICK last \in Int, none \in Int : Keyed(last, none)
  BY DEF KeyInv
<1>5. PICK a \in Int : a = AtNumber /\ a \notin Linked /\ a >= NextNumber
  <2>1. Linked = NextNumber .. NextNumber + Chained - 2
    BY <1>2 DEF Linked, Linking, Backing, Undoing
  <2> QED BY <1>1, <1>2, <2>1
<1>6. PICK e \in Entries : e = prod.entry /\ e = Ent(a) /\ value[e] = NoBlock
  <2>1. prod.entry = Ent(a) /\ a <= last /\ last < NextNumber + Capacity
    BY <1>2, <1>4, <1>5 DEF Keyed, Linking
  <2>2. a \in last - Capacity + 1 .. last
    BY <1>1, <1>5, <2>1
  <2>3. value[Ent(a)] = NoBlock
    BY <1>4, <1>5, <2>2 DEF Keyed
  <2> QED BY <1>1, <2>1, <2>3 DEF EntsCover
<1>7. PICK g \in Blocks : g = NewBlock /\ g = prod.chain[Chained]
      /\ NextNumber + Chained - 1 \notin Linked
  BY <1>1, <1>2, <1>5 DEF OwnerInv, NewBlock, Chained
<1>8. ASSUME NEW b \in Blocks, NEW y
      PROVE  /\ (y \in Entries' /\ value'[y] = b) <=> (y \in Entries /\ value[y] = b)
                \/ (y = e /\ b = g)
             /\ (y \in 1 .. Chained' /\ NextNumber' + y - 1 \notin Linked' /\ prod'.chain[y] = b)
                  <=> /\ y \in 1 .. Chained /\ NextNumber + y - 1 \notin Linked /\ prod.chain[y] = b
                      /\ y # Chained
  <2>1. (y \in Entries' /\ value'[y] = b) <=> (y \in Entries /\ value[y] = b) \/ (y = e /\ b = g)
    BY <1>1, <1>3, <1>6, <1>7 DEF StoreType
  <2>2. y \in 1 .. Chained => (NextNumber + y - 1 = AtNumber <=> y = Chained)
    BY <1>1, <1>2
  <2>3. Chained' = Chained
    BY <1>2 DEF Chained
  <2>4. (y \in 1 .. Chained' /\ NextNumber' + y - 1 \notin Linked' /\ prod'.chain[y] = b)
          <=> /\ y \in 1 .. Chained /\ NextNumber + y - 1 \notin Linked /\ prod.chain[y] = b
              /\ y # Chained
    BY <1>2, <2>2, <2>3
  <2> QED BY <2>1, <2>4
<1>9. ASSUME NEW b \in Blocks PROVE OwnedOnce(b)'
  <2>1. OwnedOnce(b)
    BY DEF OwnerInv
  <2>2. CASE b = g
    <3>1. Held(b, "producer", Chained)
      BY <1>1, <1>2, <1>7, <2>2 DEF Held
    <3>2. \A x, y : Held(b, x, y) <=> x = "producer" /\ y = Chained
      BY <2>1, <3>1, OnePlace
    <3>3. \A x, y : Held(b, x, y)' <=> (Held(b, x, y) /\ ~(x = "producer" /\ y = Chained))
                                       \/ (x = "index" /\ y = e)
      BY <1>3, <1>8, <2>2 DEF Held
    <3>4. \A x, y : Held(b, x, y)' <=> x = "index" /\ y = e
      BY <3>2, <3>3
    <3>5. \E w1, a1 : \A x, y : Held(b, x, y)' <=> x = w1 /\ y = a1
      BY <3>4
    <3> QED BY <3>5 DEF OwnedOnce
  <2>3. CASE b # g
    <3>1. \A x, y : Held(b, x, y)' <=> Held(b, x, y)
      BY <1>3, <1>7, <1>8, <2>3 DEF Held
    <3> QED BY <2>1, <3>1, PlaceStays
  <2> QED BY <2>2, <2>3
<1> QED BY <1>2, <1>3, <1>9 DEF OwnerInv

\* An entry that the failed bulk takes back gives its block to the producer
\* (concurrentqueue.h:2775-2779).
LEMMA UndoOwners ==
  ASSUME QueueBase, KeyInv, LinkInv, OwnerInv, EntriesStay, UndoEntry
  PROVE  OwnerInv'
<1>1. /\ HeaderInv /\ ProducerInv /\ CounterType /\ StoreType /\ NextNumber \in Nat
         /\ Chained \in Nat
      /\ NoBlock \notin Blocks /\ EntsCover /\ prod.undone \in Nat
  BY BaseFacts, BlockSize, LocalNumbers
<1>2. /\ NextNumber' = NextNumber /\ Linked' = Linked \ {NextNumber + prod.undone}
      /\ prod.undone \in 0 .. Chained - 1 /\ prod'.chain = prod.chain
  BY <1>1, UndoEntryLocals
<1>3. /\ UNCHANGED <<cons, freeBlocks, heap, initialBlockPoolIndex>> /\ Entries' = Entries
  BY DEF UndoEntry, poolVars, EntriesStay
<1>4. PICK n \in Linked : n = NextNumber + prod.undone
      /\ value' = [value EXCEPT ![Ent(n)] = NoBlock]
  BY UndoneEntry
<1>5. PICK k \in 1 .. Chained : k = prod.undone + 1 /\ NextNumber + k - 1 = n
      /\ n - NextNumber + 1 = k
  BY <1>1, <1>2, <1>4
<1>6. PICK e \in Entries : e = Ent(n) /\ value[e] = prod.chain[k] /\ prod.chain[k] \in Blocks
  <2>1. Ent(n) \in Entries
    BY <1>1, BaseFacts DEF EntsCover
  <2>2. value[Ent(n)] = prod.chain[k] /\ value[Ent(n)] \in Blocks
    BY <1>4, <1>5 DEF LinkInv, LinkedEntry
  <2> QED BY <2>1, <2>2
<1>7. PICK g \in Blocks : g = prod.chain[k]
  BY <1>6
<1>8. ASSUME NEW b \in Blocks, NEW y
      PROVE  /\ (y \in Entries' /\ value'[y] = b) <=> (y \in Entries /\ value[y] = b) /\ y # e
             /\ (y \in 1 .. Chained' /\ NextNumber' + y - 1 \notin Linked' /\ prod'.chain[y] = b)
                  <=> \/ y \in 1 .. Chained /\ NextNumber + y - 1 \notin Linked /\ prod.chain[y] = b
                      \/ y = k /\ b = g
  <2>1. (y \in Entries' /\ value'[y] = b) <=> (y \in Entries /\ value[y] = b) /\ y # e
    BY <1>1, <1>3, <1>4, <1>6 DEF StoreType
  <2>2. y \in 1 .. Chained => (NextNumber + y - 1 = n <=> y = k)
    BY <1>1, <1>5
  <2>3. Chained' = Chained
    BY <1>2 DEF Chained
  <2>4. (y \in 1 .. Chained' /\ NextNumber' + y - 1 \notin Linked' /\ prod'.chain[y] = b)
          <=> \/ y \in 1 .. Chained /\ NextNumber + y - 1 \notin Linked /\ prod.chain[y] = b
              \/ y = k /\ b = g
    BY <1>2, <1>4, <1>5, <1>7, <2>2, <2>3
  <2> QED BY <2>1, <2>4
<1>9. ASSUME NEW b \in Blocks PROVE OwnedOnce(b)'
  <2>1. OwnedOnce(b)
    BY DEF OwnerInv
  <2>2. CASE b = g
    <3>1. Held(b, "index", e)
      BY <1>6, <1>7, <2>2 DEF Held
    <3>2. \A x, y : Held(b, x, y) <=> x = "index" /\ y = e
      BY <2>1, <3>1, OnePlace
    <3>3. \A x, y : Held(b, x, y)' <=> (Held(b, x, y) /\ ~(x = "index" /\ y = e))
                                       \/ (x = "producer" /\ y = k)
      BY <1>3, <1>8, <2>2 DEF Held
    <3>4. \A x, y : Held(b, x, y)' <=> x = "producer" /\ y = k
      BY <3>2, <3>3
    <3>5. \E w1, a1 : \A x, y : Held(b, x, y)' <=> x = w1 /\ y = a1
      BY <3>4
    <3> QED BY <3>5 DEF OwnedOnce
  <2>3. CASE b # g
    <3>0. value[e] # b
      BY <1>6, <1>7, <2>3
    <3>1. \A x, y : Held(b, x, y)' <=> Held(b, x, y)
      BY <1>3, <1>8, <2>3, <3>0 DEF Held
    <3> QED BY <2>1, <3>1, PlaceStays
  <2> QED BY <2>2, <2>3
<1> QED BY <1>2, <1>3, <1>9 DEF OwnerInv

\* The blocks of a failed call go back one by one (concurrentqueue.h:2549, :2782).
LEMMA GiveBackOwners ==
  ASSUME QueueBase, OwnerInv, EntriesStay, GiveBlockBack
  PROVE  OwnerInv'
<1>1. /\ HeaderInv /\ ProducerInv /\ CounterType /\ Chained \in Nat
  BY BaseFacts
<1>2. /\ Linked' = {} /\ Linked = {} /\ Chained > 0 /\ Chained' = Chained - 1
      /\ Head(prod.chain) = prod.chain[1] /\ prod'.chain = Tail(prod.chain)
      /\ \A i \in 1 .. Chained - 1 : prod'.chain[i] = prod.chain[i + 1]
  BY <1>1, GiveBackLocals
<1>3. UNCHANGED <<cons, value, initialBlockPoolIndex>> /\ Entries' = Entries
  BY DEF GiveBlockBack, indexVars, EntriesStay
<1>4. prod.chain \in Seq(Blocks) /\ prod'.chain \in Seq(Blocks)
  BY <1>1, <1>2 DEF OwnerInv, Chained
<1>5. PICK g \in Blocks : g = prod.chain[1] /\ AddBlockToFreeList(g)
  BY <1>1, <1>2, <1>4 DEF GiveBlockBack, Chained
<1>6. \/ freeBlocks' = freeBlocks \cup {g} /\ UNCHANGED heap
      \/ heap' = heap \cup {g} /\ UNCHANGED freeBlocks
  BY <1>3, <1>5, PoolAdds
<1>7. ASSUME NEW b \in Blocks
      PROVE  /\ \A y : Held(b, "producer", y) <=> y \in 1 .. Chained /\ prod.chain[y] = b
             /\ \A y : Held(b, "producer", y)' <=> y \in 1 .. Chained - 1 /\ prod.chain[y + 1] = b
             /\ \A x, y : x \notin {"producer", "pool", "heap"} =>
                            (Held(b, x, y)' <=> Held(b, x, y))
  <2>1. \A y : Held(b, "producer", y) <=> y \in 1 .. Chained /\ prod.chain[y] = b
    BY <1>2 DEF Held
  <2>2. \A y : Held(b, "producer", y)' <=> y \in 1 .. Chained - 1 /\ prod.chain[y + 1] = b
    <3>1. \A y : Held(b, "producer", y)' <=> y \in 1 .. Chained' /\ prod'.chain[y] = b
      BY <1>2 DEF Held
    <3> QED BY <1>2, <3>1
  <2>3. \A x, y : x \notin {"producer", "pool", "heap"} => (Held(b, x, y)' <=> Held(b, x, y))
    BY <1>3 DEF Held
  <2> QED BY <2>1, <2>2, <2>3
<1>8. ASSUME NEW b \in Blocks PROVE OwnedOnce(b)'
  <2>1. OwnedOnce(b)
    BY DEF OwnerInv
  <2>2. CASE b = g
    <3>1. Held(b, "producer", 1)
      BY <1>1, <1>2, <1>5, <1>7, <2>2
    <3>2. \A x, y : Held(b, x, y) <=> x = "producer" /\ y = 1
      BY <2>1, <3>1, OnePlace
    <3>3. \A y : ~Held(b, "producer", y)'
      <4> SUFFICES ASSUME NEW y, y \in 1 .. Chained - 1, prod.chain[y + 1] = b PROVE FALSE
        BY <1>7
      <4>1. y + 1 \in 1 .. Chained /\ y + 1 # 1
        BY <1>1
      <4> QED BY <1>7, <3>2, <4>1
    <3>4. \A x, y : x \notin {"producer", "pool", "heap"} => ~Held(b, x, y)'
      BY <1>7, <3>2
    <3>5. /\ \A y : ~Held(b, "pool", y) /\ ~Held(b, "heap", y)
          /\ b \notin freeBlocks /\ b \notin heap
      <4>1. \A y : ~Held(b, "pool", y) /\ ~Held(b, "heap", y)
        BY <3>2
      <4> QED BY <4>1 DEF Held
    <3>6. CASE freeBlocks' = freeBlocks \cup {g} /\ UNCHANGED heap
      <4>1. \A y : (Held(b, "pool", y)' <=> y = b) /\ ~Held(b, "heap", y)'
        BY <2>2, <3>5, <3>6 DEF Held
      <4>2. \A x, y : Held(b, x, y)' <=> x = "pool" /\ y = b
        BY <3>3, <3>4, <4>1
      <4>3. \E w1, a1 : \A x, y : Held(b, x, y)' <=> x = w1 /\ y = a1
        BY <4>2
      <4> QED BY <4>3 DEF OwnedOnce
    <3>7. CASE heap' = heap \cup {g} /\ UNCHANGED freeBlocks
      <4>1. \A y : (Held(b, "heap", y)' <=> y = b) /\ ~Held(b, "pool", y)'
        BY <2>2, <3>5, <3>7 DEF Held
      <4>2. \A x, y : Held(b, x, y)' <=> x = "heap" /\ y = b
        BY <3>3, <3>4, <4>1
      <4>3. \E w1, a1 : \A x, y : Held(b, x, y)' <=> x = w1 /\ y = a1
        BY <4>2
      <4> QED BY <4>3 DEF OwnedOnce
    <3> QED BY <1>6, <3>6, <3>7
  <2>3. CASE b # g
    <3>1. \A x, y : x # "producer" => (Held(b, x, y)' <=> Held(b, x, y))
      <4>1. \A y : (Held(b, "pool", y)' <=> Held(b, "pool", y))
                   /\ (Held(b, "heap", y)' <=> Held(b, "heap", y))
        BY <1>6, <2>3 DEF Held
      <4> QED BY <1>7, <4>1
    <3>2. CASE \E k \in 1 .. Chained : prod.chain[k] = b
      <4>1. PICK k \in 1 .. Chained : prod.chain[k] = b
        BY <3>2
      <4>2. Held(b, "producer", k)
        BY <1>7, <4>1
      <4>3. \A x, y : Held(b, x, y) <=> x = "producer" /\ y = k
        BY <2>1, <4>2, OnePlace
      <4>4. PICK j \in Int : j = k - 1 /\ j \in 1 .. Chained - 1 /\ j + 1 = k
        BY <1>1, <1>5, <2>3, <4>1
      <4>5. \A y : Held(b, "producer", y)' <=> y = j
        <5>1. ASSUME NEW y \in 1 .. Chained - 1, prod.chain[y + 1] = b PROVE y = j
          <6>1. y + 1 \in 1 .. Chained
            BY <1>1
          <6>2. y + 1 = k
            BY <1>7, <4>3, <5>1, <6>1
          <6> QED BY <4>4, <6>2
        <5>2. Held(b, "producer", j)'
          BY <1>7, <4>1, <4>4
        <5> QED BY <1>7, <5>1, <5>2
      <4>6. \A x, y : Held(b, x, y)' <=> x = "producer" /\ y = j
        BY <3>1, <4>3, <4>5
      <4>7. \E w1, a1 : \A x, y : Held(b, x, y)' <=> x = w1 /\ y = a1
        BY <4>6
      <4> QED BY <4>7 DEF OwnedOnce
    <3>3. CASE ~\E k \in 1 .. Chained : prod.chain[k] = b
      <4>1. \A y : ~Held(b, "producer", y)
        BY <1>7, <3>3
      <4>2. \A y : ~Held(b, "producer", y)'
        <5>1. \A y \in 1 .. Chained - 1 : y + 1 \in 1 .. Chained
          BY <1>1
        <5> QED BY <1>7, <3>3, <5>1
      <4>3. \A x, y : Held(b, x, y)' <=> Held(b, x, y)
        BY <3>1, <4>1, <4>2
      <4> QED BY <2>1, <4>3, PlaceStays
    <3> QED BY <3>2, <3>3
  <2> QED BY <2>2, <2>3
<1> QED BY <1>3, <1>4, <1>6, <1>8 DEF OwnerInv

\* The store of tailIndex (concurrentqueue.h:2560, :2794) finds all blocks of the call in
\* the index.
LEMMA StoreOwners ==
  ASSUME QueueBase, OwnerInv, EntriesStay, StoreTail
  PROVE  OwnerInv'
<1>1. /\ HeaderInv /\ ProducerInv /\ CounterType /\ Chained \in Nat /\ NextNumber \in Nat
  BY BaseFacts
<1>2. /\ Linked = NextNumber .. NextNumber + Chained - 1 /\ prod'.chain = <<>>
  BY <1>1, StoreLocals
<1>3. UNCHANGED <<cons, value, initialBlockPoolIndex, freeBlocks, heap>> /\ Entries' = Entries
  BY DEF StoreTail, indexVars, poolVars, EntriesStay
<1>4. \A b \in Blocks : OwnedOnce(b)'
  <2> TAKE b \in Blocks
  <2>1. OwnedOnce(b)
    BY DEF OwnerInv
  <2>2. \A y : ~Held(b, "producer", y)
    <3>1. \A y \in 1 .. Chained : NextNumber + y - 1 \in Linked
      BY <1>1, <1>2
    <3> QED BY <3>1 DEF Held
  <2>3. \A y : ~Held(b, "producer", y)'
    <3>1. \A y : y \notin 1 .. Chained'
      BY <1>2 DEF Chained
    <3> QED BY <3>1 DEF Held
  <2>4. \A x, y : x # "producer" => (Held(b, x, y)' <=> Held(b, x, y))
    BY <1>3 DEF Held
  <2>5. \A x, y : Held(b, x, y)' <=> Held(b, x, y)
    BY <2>2, <2>3, <2>4
  <2> QED BY <2>1, <2>5, PlaceStays
<1> QED BY <1>2, <1>3, <1>4 DEF OwnerInv

\* Every step of the producer.
LEMMA EnqueueOwners ==
  ASSUME QueueBase, KeyInv, LinkInv, OwnerInv, EnqueueStep
  PROVE  OwnerInv'
<1>1. /\ HeaderInv /\ ProducerInv /\ CounterType /\ StoreType /\ blockIndex \in Nat
  BY BaseFacts DEF HeaderInv
<1>2. CASE IndexGrows
  BY <1>2, GrowOwners
<1>3. CASE EntriesStay
  <2>1. Entries' = Entries /\ blockIndex' # blockIndex + 1
    BY <1>1, <1>3 DEF EntriesStay
  <2>2. CASE StartEnqueue \/ CheckRoom \/ InsertIndexEntry \/ GrowIndex \/ PublishIndexTail
             \/ ConstructFirst \/ FillBlocks \/ RewindIndexTail \/ UndoTail
    <3>1. UNCHANGED <<cons, poolVars, value>>
      BY <2>1, <2>2 DEF StartEnqueue, CheckRoom, InsertIndexEntry, GrowIndex, PublishIndexTail,
         ConstructFirst, FillBlocks, RewindIndexTail, UndoTail, indexVars
    <3>2. prod'.chain = prod.chain /\ NextNumber' = NextNumber /\ Linked' = Linked
      BY <1>1, <2>2, StartLocals, RoomLocals, InsertLocals, GrowLocals, PublishLocals,
         ConstructLocals, FillLocals, RewindLocals, UndoTailLocals DEF SameNumbers
    <3> QED BY <2>1, <3>1, <3>2, IdleOwners
  <2>3. CASE ClearEntry
    <3>1. UNCHANGED <<cons, poolVars>> /\ value' = [value EXCEPT ![prod.entry] = NoBlock]
          /\ prod.pc = "clear"
      BY <2>3 DEF ClearEntry, ProducerAt
    <3>2. prod'.chain = prod.chain /\ NextNumber' = NextNumber /\ Linked' = Linked
      BY <1>1, <2>3, ClearLocals DEF SameNumbers
    <3>3. value' = value
      BY <3>1, ClearedIsClear
    <3> QED BY <2>1, <3>1, <3>2, <3>3, IdleOwners
  <2> QED BY <1>3, <2>2, <2>3, RequisitionOwners, LinkOwners, UndoOwners, GiveBackOwners,
             StoreOwners DEF EnqueueStep
<1> QED BY <1>2, <1>3, EnqueueEntries

-----------------------------------------------------------------------------
(* The stored items are found and each block has one place: an invariant   *)

\* A step in which nothing changes.
LEMMA StoredStutters ==
  ASSUME QueueBase, StoredInv, UNCHANGED queueVars
  PROVE  StoredInv'
<1>1. UNCHANGED <<tailIndex, headIndex, blockIndex, headers, key, value, emptied, poolVars, prod,
      cons>>
  BY DEF queueVars, counters, indexVars, blockVars
<1>2. /\ NextNumber' = NextNumber /\ Top' = Top /\ Linked' = Linked /\ AtNumber' = AtNumber
      /\ Capacity' = Capacity /\ \A n \in Int : Ent(n)' = Ent(n)
  BY <1>1, NumbersSame
<1>3. EntriesStay
  BY <1>1, <1>2, EntriesUntouched
<1>4. PhaseInv'
  BY <1>3, PhaseStep DEF StoredInv
<1>5. NextNumber \in Nat /\ InUse \subseteq Int /\ HeaderInv
  BY BaseFacts
<1>6. KeyInv'
  <2>1. PICK last \in Int, none \in Int : Keyed(last, none)
    BY DEF StoredInv, KeyInv
  <2>2. Top' <= last
    BY <1>2, <2>1 DEF Keyed
  <2>3. \A e \in Entries : value'[e] = value[e] \/ value'[e] = NoBlock
    BY <1>1
  <2>4. NextNumber' \in Int /\ NextNumber' >= NextNumber
    BY <1>2, <1>5
  <2>5. \A n \in Int : n >= NextNumber' /\ n \notin Linked' =>
           n \notin Linked \/ value'[Ent(n)] = NoBlock
    BY <1>2
  <2>6. prod' = prod
    BY <1>1
  <2> QED BY <1>1, <1>2, <2>1, <2>2, <2>3, <2>4, <2>5, <2>6, KeyedStays
<1>7. LinkInv'
  BY <1>1, <1>2, InUseEnts, <1>3, LinkProducer DEF StoredInv
<1>8. LookupInv'
  <2> SUFFICES ASSUME NEW d \in Consumers PROVE Looked(d)'
    BY DEF LookupInv
  <2>1. \A e \in Entries : ValidKey(e) => ValidKey(e)'
    BY <1>1, <1>3, KeysStayValid
  <2>2. Looked(d) /\ LinkInv
    BY DEF StoredInv, LookupInv
  <2> QED BY <1>1, <1>2, <1>5, <2>1, <2>2, LookedStays
<1>9. OwnerInv'
  BY <1>1, <1>2, <1>3, IdleOwners DEF StoredInv, EntriesStay
<1> QED BY <1>4, <1>6, <1>7, <1>8, <1>9 DEF StoredInv

\* Every step keeps what is stored.
LEMMA StoredStep ==
  ASSUME QueueBase, QueueShape', StoredInv, [ImplicitNext]_queueVars
  PROVE  StoredInv'
<1>1. PhaseInv /\ KeyInv /\ LinkInv /\ LookupInv /\ OwnerInv
  BY DEF StoredInv
<1>2. CASE EnqueueStep
  <2>1. PhaseInv'
    BY <1>1, <1>2, EnqueueEntries, PhaseStep
  <2>2. KeyInv'
    BY <1>2, EnqueueKeys
  <2>3. LinkInv' /\ LookupInv' /\ OwnerInv'
    BY <1>1, <1>2, EnqueueLinks, EnqueueLooked, EnqueueOwners
  <2> QED BY <2>1, <2>2, <2>3 DEF StoredInv
<1>3. ASSUME NEW c \in Consumers, DequeueStep(c) PROVE StoredInv'
  <2>1. PhaseInv'
    BY <1>1, <1>3, DequeueFrame, PhaseStep
  <2>2. KeyInv' /\ LinkInv' /\ OwnerInv'
    BY <1>1, <1>3, DequeueKeys, DequeueLinks, DequeueOwners
  <2>3. LookupInv'
    BY <1>3, DequeueLooked
  <2> QED BY <2>1, <2>2, <2>3 DEF StoredInv
<1>4. CASE UNCHANGED queueVars
  BY <1>4, StoredStutters
<1> QED BY <1>2, <1>3, <1>4 DEF ImplicitNext

-----------------------------------------------------------------------------
(* The queue after the items that it served before *)

\* The queue begins behind the blocks that it served before, with an empty index.
LEMMA InitialNumbers ==
  ASSUME ImplicitInit
  PROVE  \E s \in Nat : /\ s = ServedItems \div BLOCK_SIZE /\ ServedItems = BLOCK_SIZE * s
                        /\ NextNumber = s /\ Top = s - 1 /\ Linked = {} /\ Chained = 0
<1>1. BLOCK_SIZE \in Nat \ {0} /\ ServedItems \in Nat /\ ServedItems % BLOCK_SIZE = 0
  BY QueueShapeAssumption
<1>2. PICK s \in Int : s = ServedItems \div BLOCK_SIZE
  BY <1>1, Place DEF Num
<1>3. ServedItems = BLOCK_SIZE * s
  BY <1>1, <1>2, Place DEF Num, Slot
<1>4. s >= 0
  <2>1. s < 0 => BLOCK_SIZE * s + BLOCK_SIZE <= BLOCK_SIZE * 0 /\ BLOCK_SIZE * 0 = 0
    BY <1>1, BasesOrdered
  <2>2. PICK p \in Int : p = BLOCK_SIZE * s
    BY BasesOrdered
  <2> QED BY <1>1, <1>3, <2>1, <2>2
<1>5. tailIndex = ServedItems /\ prod.pc = "idle" /\ prod.chain = <<>>
  BY DEF ImplicitInit, IdleProducer
<1>6. NextNumber = s
  <2>1. PICK p \in Int, i \in Int :
          /\ p = BLOCK_SIZE * (s - 1) /\ i = ServedItems - 1 /\ p + BLOCK_SIZE = ServedItems
    <3>1. s - 1 \in Int /\ (s - 1) + 1 = s
      BY <1>2
    <3>2. BLOCK_SIZE * (s - 1) \in Int
          /\ BLOCK_SIZE * ((s - 1) + 1) = BLOCK_SIZE * (s - 1) + BLOCK_SIZE
      BY <3>1, BasesOrdered
    <3> QED BY <1>1, <1>3, <3>1, <3>2
  <2>2. BLOCK_SIZE * (s - 1) <= i /\ i < BLOCK_SIZE * (s - 1) + BLOCK_SIZE
    BY <1>1, <2>1
  <2>3. s - 1 \in Int
    BY <1>2
  <2>4. Num(i) = s - 1
    BY <2>2, <2>3, NumOf
  <2> QED BY <1>2, <1>5, <2>1, <2>4 DEF NextNumber
<1>7. Chained = 0
  BY <1>5 DEF Chained
<1>8. Top = s - 1
  <2>1. Top = NextNumber + Chained - 1
    BY <1>5 DEF Top, Undoing
  <2> QED BY <1>2, <1>6, <1>7, <2>1
<1>9. Linked = {}
  <2>1. Linked = NextNumber .. NextNumber + Chained - 1
    BY <1>5 DEF Linked, Linking, Backing, Undoing
  <2> QED BY <1>2, <1>6, <1>7, <2>1
<1>10. s \in Nat
  BY <1>4
<1> QED BY <1>2, <1>3, <1>6, <1>7, <1>8, <1>9, <1>10

\* The entries were taken in turn.
LEMMA InitialEnts ==
  ASSUME ImplicitInit
  PROVE  /\ Capacity = INITIAL_INDEX_SIZE /\ blockIndex = 1
         /\ \A n \in Int : Ent(n) = n % INITIAL_INDEX_SIZE
<1>1. PICK s \in Nat : s = ServedItems \div BLOCK_SIZE /\ Top = s - 1
  BY InitialNumbers
<1>2. PICK N \in Nat \ {0} : N = INITIAL_INDEX_SIZE
  BY QueueShapeAssumption
<1> DEFINE f == [k \in 0 .. N - 1 |-> k]
<1>3. PICK t : t = (N - 1 + s) % N
  OBVIOUS
<1>4. FirstHeader = [capacity |-> N, tail |-> N - 1, index |-> f]
  BY <1>2 DEF FirstHeader
<1>5. blockIndex = 1 /\ headers = <<[FirstHeader EXCEPT !.tail = t]>>
  <2>1. headers = <<[FirstHeader EXCEPT !.tail = (FirstHeader.tail + s) % N]>> /\ blockIndex = 1
    BY <1>1, <1>2 DEF ImplicitInit
  <2>2. FirstHeader.tail = N - 1
    BY <1>4
  <2> QED BY <1>3, <2>1, <2>2
<1> HIDE DEF f
<1>6. Header.capacity = N /\ Header.tail = t /\ Header.index = f
  BY <1>4, <1>5 DEF Header
<1>7. ASSUME NEW n \in Int PROVE Ent(n) = n % N
  <2>1. Ent(n) = f[(t + n - Top) % N]
    BY <1>6 DEF Ent, Capacity
  <2>2. PICK x \in Int, y \in Int : x = N - 1 + s /\ y = n - (s - 1)
    BY <1>1
  <2>3. t \in Int /\ t + n - Top = t + y
    <3>1. t \in 0 .. N - 1
      BY <1>2, <1>3, <2>2, ModIn
    <3> QED BY <1>1, <1>2, <2>2, <3>1
  <2>4. (t + y) % N = (x + y) % N
    BY <1>2, <1>3, <2>2, ModAdd
  <2>5. PICK k \in Int : k = 1 /\ x + y = n + N * k
    <3>1. x + y = n + N * 1
      BY <1>1, <1>2, <2>2
    <3> QED BY <3>1
  <2>6. (n + N * k) % N = n % N
    BY ModShift
  <2>7. n % N \in 0 .. N - 1
    BY <1>2, ModIn
  <2> QED BY <2>1, <2>3, <2>4, <2>5, <2>6, <2>7 DEF f
<1> QED BY <1>2, <1>5, <1>6, <1>7 DEF Capacity

\* The keys of the latest of those blocks are still there, and no entry has a block.
LEMMA InitialKeys ==
  ASSUME ImplicitInit
  PROVE  KeyInv
<1>1. PICK s \in Nat : s = ServedItems \div BLOCK_SIZE /\ NextNumber = s /\ Top = s - 1
  BY InitialNumbers
<1>2. PICK N \in Nat \ {0} : N = INITIAL_INDEX_SIZE
  BY QueueShapeAssumption
<1>3. /\ Capacity = N /\ \A n \in Int : Ent(n) = n % N
  BY <1>2, InitialEnts
<1>4. prod.pc = "idle"
  BY DEF ImplicitInit, IdleProducer
<1>5. ASSUME NEW n \in s - N .. s - 1
      PROVE  /\ n >= 0 => key[n % N] = BLOCK_SIZE * n
             /\ n < 0 => key[n % N] = INVALID_BLOCK_BASE
             /\ value[n % N] = NoBlock
  <2> DEFINE last(e) == {k \in 0 .. s - 1 : k % N = e}
  <2>1. n \in Int
    BY <1>2
  <2>2. n % N \in 0 .. N - 1
    BY <1>2, <2>1, ModIn
  <2>3. /\ n < 0 => last(n % N) = {}
        /\ n >= 0 => last(n % N) # {} /\ Max(last(n % N)) = n
    BY <1>1, <1>2, LastIs
  <2>4. key = [e \in 0 .. N - 1 |->
                 IF last(e) = {} THEN INVALID_BLOCK_BASE ELSE BLOCK_SIZE * Max(last(e))]
        /\ value = [e \in 0 .. N - 1 |-> NoBlock]
    BY <1>1, <1>2 DEF ImplicitInit
  <2> HIDE DEF last
  <2> QED BY <2>2, <2>3, <2>4
<1>6. Keyed(s - 1, -1)
  <2>1. Top <= s - 1 /\ s - 1 < NextNumber + Capacity /\ -1 < NextNumber
    BY <1>1, <1>2, <1>3
  <2>2. ASSUME NEW n \in s - 1 - Capacity + 1 .. s - 1
        PROVE  /\ n > -1 => key[Ent(n)] = BLOCK_SIZE * n
               /\ n <= -1 => key[Ent(n)] = INVALID_BLOCK_BASE /\ value[Ent(n)] = NoBlock
               /\ n >= NextNumber /\ n \notin Linked => value[Ent(n)] = NoBlock
    <3>1. n \in s - N .. s - 1 /\ n \in Int
      BY <1>2, <1>3
    <3>2. Ent(n) = n % N
      BY <1>3, <3>1
    <3>3. (n > -1 => n >= 0) /\ (n <= -1 => n < 0)
      BY <3>1
    <3> QED BY <1>5, <3>1, <3>2, <3>3
  <2> QED BY <1>4, <2>1, <2>2 DEF Keyed, Linking, Backing
<1>7. s - 1 \in Int /\ -1 \in Int
  BY <1>1
<1> QED BY <1>6, <1>7 DEF KeyInv

\* No block is in use, and none is anywhere but in its pool.
LEMMA InitialOwners ==
  ASSUME ImplicitInit
  PROVE  OwnerInv
<1>1. PICK s \in Nat : s = ServedItems \div BLOCK_SIZE /\ ServedItems = BLOCK_SIZE * s
  BY InitialNumbers
<1>2. /\ freeBlocks = (IF s > 0 THEN {1} ELSE {}) /\ heap = DynamicBlocks
      /\ initialBlockPoolIndex = (IF s > 0 THEN 1 ELSE 0)
      /\ \A e \in Entries : value[e] = NoBlock
      /\ prod.chain = <<>> /\ \A c \in Consumers : cons[c].pc = "idle"
  <2>1. Entries = 0 .. INITIAL_INDEX_SIZE - 1
    BY InitialEnts DEF Entries
  <2> QED BY <1>1, <2>1 DEF ImplicitInit, IdleProducer, IdleConsumer
<1>3. /\ InitialBlocks \in Nat /\ DynamicBlocks \cap 1 .. InitialBlocks = {}
      /\ s > 0 => InitialBlocks > 0
  <2>1. s > 0 => ServedItems > 0
    <3>1. s > 0 => BLOCK_SIZE * 0 + BLOCK_SIZE <= BLOCK_SIZE * s /\ BLOCK_SIZE * 0 = 0
      BY BlockSize, BasesOrdered
    <3>2. PICK p \in Int : p = BLOCK_SIZE * s
      BY BasesOrdered
    <3> QED BY <1>1, <3>1, <3>2, BlockSize
  <2> QED BY <2>1, QueueShapeAssumption
<1>4. ASSUME NEW b \in Blocks PROVE OwnedOnce(b)
  <2>1. b # NoBlock /\ (b \in 1 .. InitialBlocks \/ b \in DynamicBlocks)
    BY BlockSize DEF Blocks
  <2>2. \A y : /\ ~Held(b, "index", y) /\ ~Held(b, "producer", y) /\ ~Held(b, "consumer", y)
    <3>1. Chained = 0
      BY <1>2 DEF Chained
    <3> QED BY <1>2, <2>1, <3>1 DEF Held
  <2>3. PICK u : u = initialBlockPoolIndex + 1 .. InitialBlocks
    OBVIOUS
  <2>4. \A y : /\ Held(b, "pool", y) <=> y = b /\ b \in freeBlocks
               /\ Held(b, "heap", y) <=> y = b /\ b \in heap
               /\ Held(b, "initial", y) <=> y = b /\ b \in u
    BY <2>3 DEF Held
  <2>5. \A x, y : Held(b, x, y)
        => x \in {"pool", "heap", "initial", "index", "producer", "consumer"}
    BY DEF Held
  <2>6. \E w \in {"pool", "heap", "initial"} :
          /\ (b \in freeBlocks <=> w = "pool") /\ (b \in heap <=> w = "heap")
          /\ (b \in u <=> w = "initial")
    <3>1. CASE b \in DynamicBlocks
      <4>1. b \in heap /\ b \notin freeBlocks /\ b \notin u
        BY <1>2, <1>3, <2>3, <3>1
      <4> QED BY <4>1
    <3>2. CASE b \in 1 .. InitialBlocks /\ s > 0 /\ b = 1
      <4>1. b \in freeBlocks /\ b \notin u /\ b \notin heap
        BY <1>2, <1>3, <2>3, <3>2
      <4> QED BY <4>1
    <3>3. CASE b \in 1 .. InitialBlocks /\ ~(s > 0 /\ b = 1)
      <4>1. b \notin heap
        BY <1>2, <1>3, <3>3
      <4>2. CASE s > 0
        <5>1. freeBlocks = {1} /\ u = 2 .. InitialBlocks
          BY <1>2, <2>3, <4>2
        <5> QED BY <1>3, <3>3, <4>1, <4>2, <5>1
      <4>3. CASE ~(s > 0)
        <5>1. freeBlocks = {} /\ u = 1 .. InitialBlocks
          BY <1>2, <2>3, <4>3
        <5> QED BY <3>3, <4>1, <5>1
      <4> QED BY <4>2, <4>3
    <3> QED BY <2>1, <3>1, <3>2, <3>3
  <2>7. PICK w : \A x, y : Held(b, x, y) <=> x = w /\ y = b
    <3>1. PICK w \in {"pool", "heap", "initial"} :
            /\ (b \in freeBlocks <=> w = "pool") /\ (b \in heap <=> w = "heap")
            /\ (b \in u <=> w = "initial")
      BY <2>6
    <3>2. \A x, y : Held(b, x, y) <=> x = w /\ y = b
      BY <2>2, <2>4, <2>5, <3>1
    <3> QED BY <3>2
  <2> QED BY <2>7 DEF OwnedOnce
<1>5. /\ freeBlocks \subseteq Blocks /\ heap \subseteq Blocks
      /\ prod.chain \in Seq(Blocks)
  BY <1>2, <1>3 DEF Blocks
<1> QED BY <1>2, <1>4, <1>5 DEF OwnerInv

\* The sub-queue begins with all that is stored in its place.
LEMMA InitialStored ==
  ASSUME ImplicitInit
  PROVE  StoredInv
<1>1. PICK s \in Nat : /\ ServedItems = BLOCK_SIZE * s /\ NextNumber = s /\ Top = s - 1
                       /\ Linked = {} /\ Chained = 0
  BY InitialNumbers
<1>2. QueueShape /\ HeaderInv
  BY InitialShape DEF QueueShape
<1>3. tailIndex = ServedItems /\ \A c \in Consumers : cons[c].pc = "idle"
  BY DEF ImplicitInit, IdleConsumer
<1>4. PhaseInv
  <2>1. blockIndex = 1
    BY InitialEnts
  <2>2. Phase(blockIndex)
    BY <1>1, <1>2, NewestPhase
  <2> QED BY <2>1, <2>2 DEF PhaseInv
<1>5. Unlinking = {}
  BY <1>3 DEF Unlinking
<1>6. InUse = {}
  <2> SUFFICES ASSUME NEW n \in InUse PROVE FALSE
    OBVIOUS
  <2>1. n \in 0 .. s - 1 /\ ~(Items(n) \subseteq Finished)
    BY <1>1, <1>5 DEF InUse
  <2>2. Finished = 0 .. ServedItems - 1
    BY InitialClaimsApart
  <2>3. PICK p \in Int, q \in Int : p = BLOCK_SIZE * n /\ q = BLOCK_SIZE * s
    BY <2>1, BasesOrdered
  <2>4. p >= 0
    <3>1. BLOCK_SIZE * 0 <= BLOCK_SIZE * n /\ BLOCK_SIZE * 0 = 0
      BY <2>1, BasesOrdered, BlockSize
    <3> QED BY <2>3, <3>1
  <2>5. p + BLOCK_SIZE <= q
    BY <2>1, <2>3, BasesOrdered
  <2>6. Items(n) = p .. p + BLOCK_SIZE - 1
    BY <2>3 DEF Items
  <2>7. p .. p + BLOCK_SIZE - 1 \subseteq 0 .. q - 1
    BY <2>3, <2>4, <2>5, BlockSize
  <2> QED BY <1>1, <2>1, <2>2, <2>3, <2>6, <2>7
<1>7. LinkInv
  <2>1. ~(tailIndex < BLOCK_SIZE * NextNumber)
    <3>1. PICK p \in Int : p = BLOCK_SIZE * s
      BY BasesOrdered
    <3> QED BY <1>1, <1>3, <3>1
  <2> QED BY <1>1, <1>5, <1>6, <2>1 DEF LinkInv
<1>8. LookupInv
  BY <1>3 DEF LookupInv, Looked, LoadedHeader
<1> QED BY <1>4, <1>7, <1>8, InitialKeys, InitialOwners DEF StoredInv

\* What the sub-queue stores: every header keeps the entries in order, the keys are those
\* of the latest blocks, a block in use is linked and counts its finished items, consumers
\* find the entries of their items, and every block has one holder.
THEOREM StoredInvariance == ImplicitSpec => []StoredInv
<1>1. ImplicitInit => StoredInv
  BY InitialStored
<1>2. QueueShape /\ QueueShape' /\ CounterInv /\ ClaimsApart /\ StoredInv
      /\ [ImplicitNext]_queueVars
        => StoredInv'
  BY StoredStep DEF QueueBase
<1> QED BY <1>1, <1>2, ShapeInvariance, CounterInvariance, ClaimsInvariance, PTL DEF ImplicitSpec

\* The holders that the property counts are the places of the block.
LEMMA OneHolder ==
  ASSUME QueueBase, StoredInv
  PROVE  BlockHasOneHolder
<1> SUFFICES ASSUME NEW b \in Blocks PROVE Cardinality(Holders(b)) = 1
  BY DEF BlockHasOneHolder
<1>1. PICK w, a : \A x, y : Held(b, x, y) <=> x = w /\ y = a
  BY DEF StoredInv, OwnerInv, OwnedOnce
<1>2. /\ StoreType /\ LinkInv /\ OwnerInv /\ EntsCover /\ Linked \subseteq Int /\ NextNumber \in Nat
      /\ prod.chain \in Seq(Blocks) /\ Chained \in Nat
  BY BaseFacts DEF StoredInv, OwnerInv
<1>3. DOMAIN value = Entries /\ DOMAIN prod.chain = 1 .. Chained
  BY <1>2 DEF StoreType, Chained
<1>4. ASSUME NEW k \in 1 .. Chained, prod.chain[k] = b
      PROVE  NextNumber + k - 1 \notin Linked <=> \A e \in Entries : value[e] # b
  <2>1. NextNumber + k - 1 \notin Linked => \A e \in Entries : value[e] # b
    BY <1>2, <1>4, ChainNotInIndex
  <2>2. ASSUME NextNumber + k - 1 \in Linked PROVE \E e \in Entries : value[e] = b
    <3>1. PICK n \in Int : n = NextNumber + k - 1 /\ n - NextNumber + 1 = k
      BY <1>2
    <3>2. value[Ent(n)] = b /\ Ent(n) \in Entries
      BY <1>2, <1>4, <2>2, <3>1 DEF LinkInv, EntsCover
    <3> QED BY <3>2
  <2> QED BY <2>1, <2>2
<1>5. \A t : t \in Holders(b) <=> \E x, y : t = <<x, y>> /\ Held(b, x, y)
  <2>1. \A t : t \in {<<"pool", x>> : x \in freeBlocks \cap {b}}
                 <=> \E y : t = <<"pool", y>> /\ Held(b, "pool", y)
    BY DEF Held
  <2>2. \A t : t \in {<<"heap", x>> : x \in heap \cap {b}}
                 <=> \E y : t = <<"heap", y>> /\ Held(b, "heap", y)
    BY DEF Held
  <2>3. \A t : t \in {<<"initial", x>> : x \in (initialBlockPoolIndex + 1 .. InitialBlocks) \cap {b}}
                 <=> \E y : t = <<"initial", y>> /\ Held(b, "initial", y)
    BY DEF Held
  <2>4. \A t : t \in {<<"index", e>> : e \in {e \in DOMAIN value : value[e] = b}}
                 <=> \E y : t = <<"index", y>> /\ Held(b, "index", y)
    BY <1>3 DEF Held
  <2>5. \A t : t \in {<<"producer", k>> : k \in {k \in DOMAIN prod.chain :
                        prod.chain[k] = b /\ \A e \in DOMAIN value : value[e] # b}}
                 <=> \E y : t = <<"producer", y>> /\ Held(b, "producer", y)
    BY <1>3, <1>4 DEF Held
  <2>6. \A t : t \in {<<"consumer", c>> : c \in {c \in Consumers :
                        ConsumerAt(c, "recycle") /\ cons[c].block = b}}
                 <=> \E y : t = <<"consumer", y>> /\ Held(b, "consumer", y)
    BY DEF Held, ConsumerAt
  <2>7. \A x, y : Held(b, x, y)
        => x \in {"pool", "heap", "initial", "index", "producer", "consumer"}
    BY DEF Held
  <2> QED BY <2>1, <2>2, <2>3, <2>4, <2>5, <2>6, <2>7 DEF Holders
<1>6. Holders(b) = {<<w, a>>}
  <2>1. \A t : t \in Holders(b) <=> t = <<w, a>>
    BY <1>1, <1>5
  <2> QED BY <2>1
<1> QED BY <1>6, FS_Singleton

\* A block is in the index, in a pool, or in the hands of the one thread that moves it.
THEOREM BlocksHaveOneHolder == ImplicitSpec => []BlockHasOneHolder
<1>1. QueueShape /\ CounterInv /\ ClaimsApart /\ StoredInv => BlockHasOneHolder
  BY OneHolder DEF QueueBase
<1> QED BY <1>1, ShapeInvariance, CounterInvariance, ClaimsInvariance, StoredInvariance, PTL

-----------------------------------------------------------------------------
(* The items in the blocks                                                 *)

\* The item with index i lies in the block that the entry of its number leads to.
InPlace(i) == elements[value[Ent(Num(i))]][Slot(i)] = i

\* An enqueue has constructed its items and not shown them yet.
Constructed == prod.pc = "store" \/ (prod.pc = "link" /\ ~Bulk)
Shown == tailIndex .. LastIndex

ContentInv ==
  /\ \A i \in 0 .. tailIndex - 1 : i \notin Taken => InPlace(i)
  /\ Constructed => \A i \in Shown : elements[BlockOf(i)][Slot(i)] = i
  /\ delivered = Taken

\* The block of an item that nobody has moved out is in use.
LEMMA UntakenInUse ==
  ASSUME QueueBase, NEW i \in 0 .. tailIndex - 1, i \notin Taken
  PROVE  Num(i) \in InUse /\ i \in Int
<1>1. /\ tailIndex \in Nat /\ NextNumber \in Nat /\ tailIndex <= BLOCK_SIZE * NextNumber
      /\ Finished \subseteq Taken
  BY Bounds
<1>2. PICK p \in Int : p = BLOCK_SIZE * NextNumber
  BY <1>1, BasesOrdered
<1>3. i < BLOCK_SIZE * NextNumber /\ i >= 0 /\ i \in Int
  BY <1>1, <1>2
<1>4. i >= BLOCK_SIZE * 0
  BY <1>3, BlockSize
<1>5. Num(i) < NextNumber /\ Num(i) >= 0 /\ Num(i) \in Int /\ i \in Items(Num(i))
  BY <1>1, <1>3, <1>4, NumBetween, Place
<1>6. ~(Items(Num(i)) \subseteq Finished)
  BY <1>1, <1>5
<1> QED BY <1>1, <1>3, <1>5, <1>6 DEF InUse

\* Two items are never in one slot of one block.
LEMMA ItemsApart ==
  ASSUME QueueBase, LinkInv, OwnerInv, NEW i \in Int, NEW j \in Int,
         Num(i) \in InUse \cup Linked, Num(j) \in InUse \cup Linked,
         value[Ent(Num(i))] = value[Ent(Num(j))], Slot(i) = Slot(j)
  PROVE  i = j
<1>1. PICK m \in Int, n \in Int : m = Num(i) /\ n = Num(j)
  BY Place
<1>2. Ent(m) \in Entries /\ Ent(n) \in Entries
  BY BaseFacts DEF EntsCover
<1>3. value[Ent(m)] \in Blocks
  BY <1>1 DEF LinkInv, LinkedEntry
<1>4. Ent(m) = Ent(n)
  BY <1>1, <1>2, <1>3, OneEntry
<1>5. Num(i) = Num(j)
  BY <1>1, <1>4, KeysApart
<1> QED BY <1>5, Place

\* The blocks of the items that are being enqueued, when all of them are linked.
LEMMA BlockOfLinked ==
  ASSUME QueueBase, LinkInv, prod.pc \in {"fill", "store"}, NEW i \in Shown
  PROVE  /\ i \in Int /\ Num(i) \in InUse \cup Linked /\ BlockOf(i) = value[Ent(Num(i))]
         /\ BlockOf(i) \in Blocks /\ i >= tailIndex
<1>1. /\ ProducerInv /\ CounterType /\ NextNumber \in Nat /\ Chained \in Nat /\ LastIndex \in Int
  BY BaseFacts, LocalNumbers
<1>2. /\ Linked = NextNumber .. NextNumber + Chained - 1
      /\ NextNumber + Chained = Num(LastIndex) + 1
  BY <1>1 DEF Linked, Linking, Backing, Undoing, ProducerInv
<1>3. /\ tailIndex \in Nat /\ FirstNewBase = BLOCK_SIZE * NextNumber
      /\ BLOCK_SIZE * NextNumber < tailIndex + BLOCK_SIZE
  BY Bounds
<1>4. i \in Int /\ i >= tailIndex /\ i <= LastIndex
  BY <1>1, <1>3 DEF Shown
<1>5. PICK m \in Int : m = Num(i)
  BY <1>4, Place
<1>6. m <= NextNumber + Chained - 1
  <2>1. PICK l \in Int, n \in Int : l = LastIndex /\ n = NextNumber + Chained /\ Num(l) = n - 1
    <3>1. Num(LastIndex) \in Int
      BY <1>1, Place
    <3> QED BY <1>1, <1>2, <3>1
  <2>2. l < BLOCK_SIZE * n
    <3>1. Num(l) < n
      BY <2>1
    <3> QED BY <3>1, NumBetween
  <2>3. PICK p \in Int : p = BLOCK_SIZE * n
    BY BasesOrdered
  <2>4. i < BLOCK_SIZE * n
    BY <1>4, <2>1, <2>2, <2>3
  <2>5. Num(i) < n
    BY <1>4, <2>4, NumBetween
  <2> QED BY <1>1, <1>5, <2>1, <2>5
<1>7. CASE i < FirstNewBase
  <2>1. PICK p \in Int : p = BLOCK_SIZE * NextNumber
    BY <1>1, BasesOrdered
  <2>2. tailIndex < BLOCK_SIZE * NextNumber
    BY <1>3, <1>4, <1>7, <2>1
  <2>3. PICK k \in Int : k = NextNumber - 1
    BY <1>1
  <2>4. BLOCK_SIZE * k + BLOCK_SIZE = BLOCK_SIZE * NextNumber /\ BLOCK_SIZE * k \in Int
    <3>1. k + 1 = NextNumber
      BY <1>1, <2>3
    <3> QED BY <3>1, BasesOrdered
  <2>5. PICK q \in Int : q = BLOCK_SIZE * k
    BY <2>4
  <2>6. q <= i /\ i < q + BLOCK_SIZE
    BY <1>3, <1>4, <1>7, <2>4, <2>5, BlockSize
  <2>7. m = k
    BY <1>4, <1>5, <2>5, <2>6, NumOf
  <2>8. k \in InUse /\ prod.tailBlock = value[Ent(k)]
    BY <2>2, <2>3, LastInUse DEF LinkInv
  <2>9. value[Ent(k)] \in Blocks
    BY <2>8 DEF LinkInv, LinkedEntry
  <2> QED BY <1>4, <1>5, <1>7, <2>7, <2>8, <2>9 DEF BlockOf
<1>8. CASE ~(i < FirstNewBase)
  <2>1. i >= BLOCK_SIZE * NextNumber
    <3>1. PICK p \in Int : p = BLOCK_SIZE * NextNumber
      BY <1>1, BasesOrdered
    <3> QED BY <1>3, <1>4, <1>8, <3>1
  <2>2. m >= NextNumber
    BY <1>1, <1>4, <1>5, <2>1, NumBetween
  <2>3. m \in Linked
    BY <1>1, <1>2, <1>5, <1>6, <2>2
  <2>4. (i - FirstNewBase) \div BLOCK_SIZE = m - NextNumber
    <3>1. PICK p \in Int, q \in Int, k \in Int :
            p = BLOCK_SIZE * m /\ q = BLOCK_SIZE * NextNumber /\ k = m - NextNumber
      BY <1>1, BasesOrdered
    <3>2. p - q = BLOCK_SIZE * k
      BY <1>1, <3>1, BlockSize
    <3>3. i = p + Slot(i) /\ Slot(i) \in 0 .. BLOCK_SIZE - 1
      BY <1>4, <1>5, <3>1, Place
    <3>4. i - q = BLOCK_SIZE * k + Slot(i)
      BY <1>4, <3>1, <3>2, <3>3, BlockSize
    <3>5. (i - q) \div BLOCK_SIZE = k
      <4>1. PICK x \in Int : x = i - q
        BY <1>4, <3>1
      <4> QED BY <3>1, <3>3, <3>4, <4>1, BlockSize, ModIs
    <3> QED BY <1>3, <3>1, <3>5
  <2>5. BlockOf(i) = prod.chain[m - NextNumber + 1]
    BY <1>8, <2>4 DEF BlockOf
  <2>6. value[Ent(m)] = prod.chain[m - NextNumber + 1] /\ value[Ent(m)] \in Blocks
    BY <2>3 DEF LinkInv, LinkedEntry
  <2> QED BY <1>4, <1>5, <2>3, <2>5, <2>6
<1> QED BY <1>7, <1>8

\* The one item of an enqueue() whose block is not linked yet.
LEMMA BlockOfNew ==
  ASSUME QueueBase, OwnerInv, prod.pc \in Linking, ~Bulk, NEW i \in Shown
  PROVE  /\ i = tailIndex /\ i \in Int /\ BlockOf(i) = NewBlock /\ NewBlock \in Blocks
         /\ Num(i) = AtNumber /\ LastIndex = tailIndex
         /\ \A e \in Entries : value[e] # NewBlock
<1>1. /\ ProducerInv /\ CounterType /\ NextNumber \in Nat /\ Chained \in Nat /\ LastIndex \in Int
      /\ HeaderInv /\ AtNumber = NextNumber + Chained - 1
  BY BaseFacts, LocalNumbers
<1>2. /\ prod.count = 1 /\ Chained = 1 /\ prod.at = BLOCK_SIZE * (NextNumber + Chained - 1)
      /\ prod.at <= LastIndex
  BY <1>1 DEF ProducerInv, Linking
<1>3. LastIndex = tailIndex /\ tailIndex \in Nat
  BY <1>1, <1>2 DEF LastIndex, CounterType
<1>4. i = tailIndex /\ i \in Int
  BY <1>3 DEF Shown
<1>5. PICK p \in Int : p = BLOCK_SIZE * NextNumber
  BY <1>1, BasesOrdered
<1>6. NextNumber + Chained - 1 = NextNumber
  BY <1>1, <1>2
<1>7. FirstNewBase = p /\ tailIndex <= p /\ p = prod.at
  BY <1>2, <1>5, <1>6, Bounds
<1>8. i = p
  BY <1>2, <1>3, <1>4, <1>5, <1>7
<1>9. (i - FirstNewBase) \div BLOCK_SIZE = 0 /\ ~(i < FirstNewBase)
  <2>1. i - FirstNewBase = BLOCK_SIZE * 0 + 0 /\ i - FirstNewBase \in Int
    BY <1>5, <1>7, <1>8, BlockSize
  <2>2. 0 \in 0 .. BLOCK_SIZE - 1 /\ 0 \in Int
    BY BlockSize
  <2>3. (i - FirstNewBase) \div BLOCK_SIZE = 0
    BY <2>1, <2>2, BlockSize, ModIs
  <2> QED BY <1>5, <1>7, <1>8, <2>3
<1>10. BlockOf(i) = prod.chain[1] /\ NewBlock = prod.chain[1]
  BY <1>2, <1>9 DEF BlockOf, NewBlock, Chained
<1>11. NextNumber \notin Linked
  BY <1>1, <1>2 DEF Linked, Linking
<1>12. NewBlock \in Blocks /\ \A e \in Entries : value[e] # NewBlock
  <2>1. PICK k \in 1 .. Chained : k = 1 /\ NextNumber + k - 1 = NextNumber
    BY <1>1, <1>2
  <2>2. 0 \in Entries
    BY BaseFacts
  <2> QED BY <1>10, <1>11, <2>1, <2>2, ChainNotInIndex
<1>13. Num(i) = AtNumber
  <2>1. AtNumber = NextNumber
    BY <1>1, <1>6
  <2>2. BLOCK_SIZE * NextNumber <= i /\ i < BLOCK_SIZE * NextNumber + BLOCK_SIZE
    BY <1>5, <1>8, BlockSize
  <2> QED BY <1>1, <1>4, <2>1, <2>2, NumOf
<1> QED BY <1>3, <1>4, <1>10, <1>12, <1>13

\* An item that is being enqueued is in nobody's way.
LEMMA PlacesApart ==
  ASSUME QueueBase, LinkInv, OwnerInv,
         prod.pc \in {"fill", "store"} \/ (prod.pc \in Linking /\ ~Bulk),
         NEW i \in Shown
  PROVE  /\ i \in Int /\ BlockOf(i) \in Blocks
         /\ \A j \in 0 .. tailIndex - 1 : Num(j) \in InUse /\ Slot(i) = Slot(j) =>
              BlockOf(i) # value[Ent(Num(j))]
         /\ \A j \in Shown : BlockOf(i) = BlockOf(j) /\ Slot(i) = Slot(j) => i = j
<1>1. tailIndex \in Nat
  BY Bounds
<1>2. CASE prod.pc \in {"fill", "store"}
  <2>1. /\ i \in Int /\ Num(i) \in InUse \cup Linked /\ BlockOf(i) = value[Ent(Num(i))]
        /\ BlockOf(i) \in Blocks /\ i >= tailIndex
    BY <1>2, BlockOfLinked
  <2>2. ASSUME NEW j \in 0 .. tailIndex - 1, Num(j) \in InUse, Slot(i) = Slot(j)
        PROVE  BlockOf(i) # value[Ent(Num(j))]
    <3>1. j \in Int /\ j # i
      BY <1>1, <2>1
    <3> QED BY <2>1, <2>2, <3>1, ItemsApart
  <2>3. ASSUME NEW j \in Shown, BlockOf(i) = BlockOf(j), Slot(i) = Slot(j)
        PROVE  i = j
    <3>1. j \in Int /\ Num(j) \in InUse \cup Linked /\ BlockOf(j) = value[Ent(Num(j))]
      BY <1>2, BlockOfLinked
    <3> QED BY <2>1, <2>3, <3>1, ItemsApart
  <2> QED BY <2>1, <2>2, <2>3
<1>3. CASE prod.pc \in Linking /\ ~Bulk
  <2>1. /\ i = tailIndex /\ i \in Int /\ BlockOf(i) = NewBlock /\ NewBlock \in Blocks
        /\ \A e \in Entries : value[e] # NewBlock
    BY <1>3, BlockOfNew
  <2>2. ASSUME NEW j \in 0 .. tailIndex - 1
        PROVE  BlockOf(i) # value[Ent(Num(j))]
    <3>1. PICK n \in Int : n = Num(j)
      BY <1>1, Place
    <3>2. Ent(n) \in Entries
      BY BaseFacts DEF EntsCover
    <3> QED BY <2>1, <3>1, <3>2
  <2>3. \A j \in Shown : i = j
    BY <1>3, <2>1, BlockOfNew
  <2> QED BY <2>1, <2>2, <2>3
<1> QED BY <1>2, <1>3

-----------------------------------------------------------------------------
(* Items and the producer *)

\* The construction of the items (concurrentqueue.h:2539-2551, :2724-2793) puts each in its
\* place and leaves the items of others alone.
LEMMA FillIs ==
  ASSUME QueueBase, LinkInv, OwnerInv,
         prod.pc \in {"fill", "store"} \/ (prod.pc \in Linking /\ ~Bulk), Fill
  PROVE  /\ \A i \in Shown : elements'[BlockOf(i)][Slot(i)] = i
         /\ \A j \in 0 .. tailIndex - 1 : Num(j) \in InUse =>
              elements'[value[Ent(Num(j))]][Slot(j)] = elements[value[Ent(Num(j))]][Slot(j)]
<1> DEFINE here(b, s) == {i \in Shown : BlockOf(i) = b /\ Slot(i) = s}
<1>1. \A b \in Blocks, s \in 0 .. BLOCK_SIZE - 1 :
        elements'[b][s] = IF here(b, s) = {} THEN elements[b][s] ELSE CHOOSE i \in here(b, s) : TRUE
  BY DEF Fill, Shown
<1>2. ASSUME NEW i \in Shown PROVE elements'[BlockOf(i)][Slot(i)] = i
  <2>1. /\ i \in Int /\ BlockOf(i) \in Blocks
        /\ \A j \in Shown : BlockOf(i) = BlockOf(j) /\ Slot(i) = Slot(j) => i = j
    BY PlacesApart
  <2>2. here(BlockOf(i), Slot(i)) = {i}
    BY <2>1
  <2>3. Slot(i) \in 0 .. BLOCK_SIZE - 1
    BY <2>1, Place
  <2> HIDE DEF here
  <2>4. elements'[BlockOf(i)][Slot(i)] = CHOOSE k \in {i} : TRUE
    BY <1>1, <2>1, <2>2, <2>3
  <2> QED BY <2>4
<1>3. ASSUME NEW j \in 0 .. tailIndex - 1, Num(j) \in InUse
      PROVE  elements'[value[Ent(Num(j))]][Slot(j)] = elements[value[Ent(Num(j))]][Slot(j)]
  <2>1. j \in Int
    BY Bounds
  <2>2. value[Ent(Num(j))] \in Blocks
    BY <1>3 DEF LinkInv, LinkedEntry
  <2>3. Slot(j) \in 0 .. BLOCK_SIZE - 1
    BY <2>1, Place
  <2>4. here(value[Ent(Num(j))], Slot(j)) = {}
    BY <1>3, PlacesApart
  <2> HIDE DEF here
  <2> QED BY <1>1, <2>2, <2>3, <2>4
<1> QED BY <1>2, <1>3

\* The entries in use are left alone by the producer, in a larger index too.
LEMMA EntriesInUse ==
  ASSUME QueueBase, KeyInv, LinkInv, EnqueueStep, NEW n \in InUse
  PROVE  Ent(n)' = Ent(n) /\ value'[Ent(n)] = value[Ent(n)]
<1>1. /\ HeaderInv /\ Top \in Int /\ n \in Int
  BY BaseFacts
<1>2. CASE EntriesStay
  BY <1>1, <1>2, EnqueueValues DEF EntriesStay
<1>3. CASE IndexGrows
  <2>1. PICK last \in Int, none \in Int : Keyed(last, none)
    BY DEF KeyInv
  <2>2. last = Top
    BY <1>3, <2>1 DEF IndexGrows, Keyed
  <2>3. n \in Top - Capacity + 1 .. Top
    BY <2>1, <2>2, InWindow
  <2>4. Ent(n)' = Ent(n)
    BY <1>1, <1>3, <2>3, EntGrown DEF IndexGrows, SameNumbers
  <2>5. Ent(n) \in Entries
    BY <1>1, BaseFacts DEF EntsCover
  <2> QED BY <1>3, <2>4, <2>5 DEF IndexGrows
<1> QED BY <1>2, <1>3, EnqueueEntries

\* An item stays in its place with its entry and its slot.
LEMMA InPlaceStays ==
  ASSUME NEW i \in Int, InPlace(i), Ent(Num(i))' = Ent(Num(i)),
         value'[Ent(Num(i))] = value[Ent(Num(i))],
         elements'[value[Ent(Num(i))]][Slot(i)] = elements[value[Ent(Num(i))]][Slot(i)]
  PROVE  InPlace(i)'
<1>1. PICK n : n = Num(i) /\ Ent(n)' = Ent(n)
  OBVIOUS
<1>2. Ent(Num(i))' = Ent(n)'
  BY <1>1 DEF Ent, Num
<1>3. elements'[value'[Ent(n)]][Slot(i)] = i
  BY <1>1 DEF InPlace
<1> QED BY <1>1, <1>2, <1>3 DEF InPlace

\* The items below the tail stay where they are while the producer works.
LEMMA EnqueueKeepsPlaces ==
  ASSUME QueueBase, KeyInv, LinkInv, OwnerInv, ContentInv, EnqueueStep,
         UNCHANGED elements \/ (Fill /\
           (prod.pc \in {"fill", "store"} \/ (prod.pc \in Linking /\ ~Bulk))),
         NEW i \in 0 .. tailIndex - 1, i \notin Taken
  PROVE  InPlace(i)'
<1>1. i \in Int /\ Num(i) \in InUse /\ InPlace(i)
  BY UntakenInUse DEF ContentInv
<1>2. Ent(Num(i))' = Ent(Num(i)) /\ value'[Ent(Num(i))] = value[Ent(Num(i))]
  <2>1. PICK n \in InUse : n = Num(i)
    BY <1>1
  <2>2. Ent(n)' = Ent(n) /\ value'[Ent(n)] = value[Ent(n)]
    BY EntriesInUse
  <2>3. Ent(Num(i))' = Ent(n)'
    BY <2>1 DEF Ent, Num
  <2> QED BY <2>1, <2>2, <2>3
<1>3. elements'[value[Ent(Num(i))]][Slot(i)] = elements[value[Ent(Num(i))]][Slot(i)]
  BY <1>1, FillIs
<1> QED BY <1>1, <1>2, <1>3, InPlaceStays

\* A step of the producer that constructs nothing and shows nothing.
LEMMA QuietContent ==
  ASSUME QueueBase, KeyInv, LinkInv, OwnerInv, ContentInv, EnqueueStep,
         UNCHANGED <<tailIndex, headIndex, elements, cons, delivered>>,
         Constructed' => Constructed /\ LastIndex' = LastIndex
           /\ \A i \in Int : BlockOf(i)' = BlockOf(i)
  PROVE  ContentInv'
<1>1. Taken' = Taken
  BY ClaimsSame
<1>2. \A i \in 0 .. tailIndex' - 1 : i \notin Taken' => InPlace(i)'
  BY <1>1, EnqueueKeepsPlaces
<1>3. ASSUME Constructed', NEW i \in Shown' PROVE elements'[BlockOf(i)'][Slot(i)] = i
  <2>1. i \in Shown /\ i \in Int
    <3>1. tailIndex \in Int /\ LastIndex \in Int
      BY BaseFacts, LocalNumbers, Bounds
    <3> QED BY <1>3, <3>1 DEF Shown
  <2> QED BY <1>3, <2>1 DEF ContentInv
<1> QED BY <1>1, <1>2, <1>3 DEF ContentInv

\* A step that constructs the items.
LEMMA FillContent ==
  ASSUME QueueBase, KeyInv, LinkInv, OwnerInv, ContentInv, EnqueueStep, Fill,
         prod.pc = "fill" \/ (prod.pc = "construct" /\ ~Bulk),
         UNCHANGED <<tailIndex, headIndex, cons, delivered>>, LastIndex' = LastIndex,
         prod'.chain = prod.chain, prod'.tailBlock = prod.tailBlock
  PROVE  ContentInv'
<1>1. Taken' = Taken
  BY ClaimsSame
<1>2. prod.pc \in {"fill", "store"} \/ (prod.pc \in Linking /\ ~Bulk)
  BY DEF Linking
<1>3. \A i \in 0 .. tailIndex' - 1 : i \notin Taken' => InPlace(i)'
  BY <1>1, <1>2, EnqueueKeepsPlaces
<1>4. FirstNewBase' = FirstNewBase
  BY DEF FirstNewBase
<1>5. \A i : BlockOf(i)' = BlockOf(i)
  BY <1>4 DEF BlockOf
<1>6. Shown' = Shown
  BY DEF Shown
<1>7. \A i \in Shown' : elements'[BlockOf(i)'][Slot(i)] = i
  BY <1>2, <1>5, <1>6, FillIs
<1> QED BY <1>1, <1>3, <1>7 DEF ContentInv

\* The store of tailIndex (concurrentqueue.h:2560, :2794) shows items that are in place.
LEMMA StoreContent ==
  ASSUME QueueBase, KeyInv, LinkInv, OwnerInv, ContentInv, EnqueueStep, StoreTail
  PROVE  ContentInv'
<1>1. UNCHANGED <<headIndex, elements, cons, delivered, blockIndex, headers, value>>
  BY DEF StoreTail, blockVars, indexVars
<1>2. Taken' = Taken
  BY <1>1, ClaimsSame
<1>3. prod.pc = "store" /\ tailIndex' = LastIndex + 1 /\ prod'.pc = "idle" /\ Top' = Top
  BY BaseFacts, StoreLocals
<1>4. tailIndex \in Nat /\ LastIndex \in Int
  BY Bounds, BaseFacts, LocalNumbers
<1>5. ASSUME NEW i \in 0 .. tailIndex' - 1, i \notin Taken' PROVE InPlace(i)'
  <2>1. i \in Int /\ (i \in 0 .. tailIndex - 1 \/ i \in Shown)
    BY <1>3, <1>4 DEF Shown
  <2>2. CASE i \in 0 .. tailIndex - 1
    BY <1>1, <1>2, <1>5, <2>2, EnqueueKeepsPlaces
  <2>3. CASE i \in Shown
    <3>1. BlockOf(i) = value[Ent(Num(i))] /\ elements[BlockOf(i)][Slot(i)] = i
      BY <1>3, <2>3, BlockOfLinked DEF ContentInv, Constructed
    <3>2. InPlace(i)
      BY <3>1 DEF InPlace
    <3>3. PICK n \in Int : n = Num(i)
      BY <2>1, Place
    <3>4. Ent(n)' = Ent(n)
      BY <1>1, <1>3, EntsSame
    <3>5. Ent(Num(i))' = Ent(n)'
      BY <3>3 DEF Ent, Num
    <3>6. Ent(Num(i))' = Ent(Num(i))
      BY <3>3, <3>4, <3>5
    <3> QED BY <1>1, <2>1, <3>2, <3>6, InPlaceStays
  <2> QED BY <2>1, <2>2, <2>3
<1>6. ~Constructed'
  BY <1>3 DEF Constructed
<1> QED BY <1>1, <1>2, <1>5, <1>6 DEF ContentInv

\* Every step of the producer leaves the items in their places.
LEMMA EnqueueContent ==
  ASSUME QueueBase, KeyInv, LinkInv, OwnerInv, ContentInv, EnqueueStep
  PROVE  ContentInv'
<1>1. /\ ProducerInv /\ CounterType /\ HeaderInv /\ PoolType /\ prod \in ProducerType
  BY BaseFacts DEF ProducerInv
<1>2. CASE StoreTail
  BY <1>2, StoreContent
<1>3. CASE ConstructFirst
  <2>1. /\ UNCHANGED <<tailIndex, headIndex, cons, delivered>>
        /\ (Fill /\ ProducerGoesTo("link")) \/ (ProducerGoesTo("rewind") /\ UNCHANGED elements)
    BY <1>3 DEF ConstructFirst, counters
  <2>2. /\ prod.pc = "construct" /\ ~Bulk /\ LastIndex' = LastIndex
        /\ prod'.chain = prod.chain /\ prod'.tailBlock = prod.tailBlock
    BY <1>1, <1>3, ConstructLocals
  <2>3. CASE Fill
    BY <2>1, <2>2, <2>3, FillContent
  <2>4. CASE ProducerGoesTo("rewind") /\ UNCHANGED elements
    <3>1. prod'.pc = "rewind"
      BY <1>1, <2>4 DEF ProducerGoesTo, ProducerType
    <3> QED BY <2>1, <2>4, <3>1, QuietContent DEF Constructed
  <2> QED BY <2>1, <2>3, <2>4
<1>4. CASE FillBlocks
  <2>1. UNCHANGED <<tailIndex, headIndex, cons, delivered>>
    BY <1>4 DEF FillBlocks, counters
  <2>2. /\ prod.pc = "fill" /\ prod'.pc \in {"store", "idle", "undo_entry"}
        /\ prod'.chain = prod.chain /\ prod'.tailBlock = prod.tailBlock
        /\ prod'.pc = "store" => Fill /\ LastIndex' = LastIndex
        /\ prod'.pc # "store" => UNCHANGED elements
    BY <1>1, <1>4, FillLocals
  <2>3. CASE prod'.pc = "store"
    BY <2>1, <2>2, <2>3, FillContent
  <2>4. CASE prod'.pc # "store"
    BY <2>1, <2>2, <2>4, QuietContent DEF Constructed
  <2> QED BY <2>3, <2>4
<1>5. CASE LinkBlock
  <2>1. UNCHANGED <<tailIndex, headIndex, elements, cons, delivered>>
    BY <1>5 DEF LinkBlock, counters
  <2>2. /\ prod.pc = "link" /\ prod'.pc \in {"room", "fill", "store"} /\ LastIndex' = LastIndex
        /\ prod'.chain = prod.chain /\ prod'.tailBlock = prod.tailBlock
        /\ prod'.pc = "store" => ~Bulk
    BY <1>1, <1>5, LinkLocals
  <2>3. FirstNewBase' = FirstNewBase
    BY <2>1 DEF FirstNewBase
  <2>4. \A i \in Int : BlockOf(i)' = BlockOf(i)
    BY <2>2, <2>3 DEF BlockOf
  <2> QED BY <2>1, <2>2, <2>4, QuietContent DEF Constructed
<1>6. CASE RequisitionBlock
  <2>1. UNCHANGED <<tailIndex, headIndex, elements, cons, delivered>>
    BY <1>6 DEF RequisitionBlock, counters, blockVars
  <2>2. \/ prod'.pc = "rewind" \/ prod'.pc = "construct" \/ (prod'.pc = "link" /\ Bulk')
    <3>1. \/ prod' = [prod EXCEPT !.pc = "rewind"]
          \/ \E b : prod' = [prod EXCEPT !.pc = IF Bulk THEN "link" ELSE "construct",
                                         !.chain = Append(@, b)]
      BY <1>6 DEF RequisitionBlock, ProducerGoesTo
    <3>2. CASE prod' = [prod EXCEPT !.pc = "rewind"]
      BY <1>1, <3>2 DEF ProducerType
    <3>3. ASSUME NEW b, prod' = [prod EXCEPT !.pc = IF Bulk THEN "link" ELSE "construct",
                                             !.chain = Append(@, b)]
          PROVE  prod'.pc = "construct" \/ (prod'.pc = "link" /\ Bulk')
      <4>1. prod'.pc = (IF Bulk THEN "link" ELSE "construct") /\ prod'.call = prod.call
        BY <1>1, <3>3 DEF ProducerType
      <4>2. Bulk' <=> Bulk
        BY <4>1 DEF Bulk
      <4> QED BY <4>1, <4>2
    <3> QED BY <3>1, <3>2, <3>3
  <2>3. ~Constructed'
    BY <2>2 DEF Constructed
  <2> QED BY <2>1, <2>3, QuietContent
<1>7. CASE \/ StartEnqueue \/ CheckRoom \/ InsertIndexEntry \/ GrowIndex \/ PublishIndexTail
           \/ RewindIndexTail \/ ClearEntry \/ UndoEntry \/ UndoTail \/ GiveBlockBack
  <2>1. UNCHANGED <<tailIndex, headIndex, elements, cons, delivered>>
    BY <1>7 DEF StartEnqueue, CheckRoom, InsertIndexEntry, GrowIndex, PublishIndexTail,
       RewindIndexTail, ClearEntry, UndoEntry, UndoTail, GiveBlockBack, counters, blockVars
  <2>2. prod'.pc \notin {"link", "store"}
    BY <1>1, <1>7, StartLocals, RoomLocals, InsertLocals, GrowLocals, PublishLocals, RewindLocals,
       ClearLocals, UndoEntryLocals, UndoTailLocals, GiveBackLocals
  <2> QED BY <2>1, <2>2, QuietContent DEF Constructed
<1> QED BY <1>2, <1>3, <1>4, <1>5, <1>6, <1>7 DEF EnqueueStep

-----------------------------------------------------------------------------
(* Items and the consumers *)

\* The items of a consumer that has found their block are there.
LEMMA ClaimedInPlace ==
  ASSUME QueueBase, StoredInv, ContentInv, NEW c \in Consumers, cons[c].pc = "take"
  PROVE  /\ EntryOf(c) = Ent(Num(cons[c].index)) /\ Num(cons[c].index) \in InUse
         /\ \A i \in cons[c].index .. EndOf(cons[c]) - 1 :
              /\ i \in Int /\ i \in 0 .. tailIndex - 1 /\ i \notin Taken
              /\ Num(i) = Num(cons[c].index)
              /\ elements[value[EntryOf(c)]][Slot(i)] = i
<1>1. PICK n \in Int : n = Num(cons[c].index) /\ n \in InUse /\ EntryOf(c) = Ent(n)
  <2>1. cons[c].pc \in Working
    BY DEF Working
  <2>2. Num(cons[c].index) \in InUse /\ Num(cons[c].index) \in Int
    BY <2>1, ClaimedInUse
  <2> QED BY <2>2, EntryAtSlot DEF StoredInv, LookupInv
<1>2. /\ cons[c].index \in Int /\ cons[c].stop \in Int /\ 0 <= cons[c].index
      /\ cons[c].index < cons[c].stop /\ cons[c].stop <= headIndex
  BY WorkNumber DEF Working
<1>3. /\ EndOf(cons[c]) \in Int /\ EndOf(cons[c]) <= cons[c].stop
      /\ EndOf(cons[c]) <= BLOCK_SIZE * n + BLOCK_SIZE
      /\ BLOCK_SIZE * n <= cons[c].index
  <2>1. cons[c] \in ConsumerType
    BY BaseFacts
  <2> QED BY <1>1, <1>2, <2>1, EndIs
<1>4. ASSUME NEW i \in cons[c].index .. EndOf(cons[c]) - 1
      PROVE  /\ i \in Int /\ i \in 0 .. tailIndex - 1 /\ i \notin Taken /\ Num(i) = n
             /\ elements[value[EntryOf(c)]][Slot(i)] = i
  <2>1. i \in Int /\ cons[c].index <= i /\ i < EndOf(cons[c])
    BY <1>2, <1>3
  <2>2. headIndex \in Nat /\ tailIndex \in Nat /\ headIndex <= tailIndex
    BY Bounds
  <2>3. i \in 0 .. tailIndex - 1
    BY <1>2, <1>3, <2>1, <2>2
  <2>4. i \in Untaken(cons[c])
    <3>1. Untaken(cons[c]) = cons[c].index .. cons[c].stop - 1
      BY DEF Untaken, Working
    <3> QED BY <1>2, <1>3, <2>1, <3>1
  <2>5. i \notin Taken
    BY <2>4 DEF Taken
  <2>6. Num(i) = n
    <3>1. PICK p \in Int : p = BLOCK_SIZE * n
      BY BasesOrdered
    <3>2. BLOCK_SIZE * n <= i /\ i < BLOCK_SIZE * n + BLOCK_SIZE
      BY <1>2, <1>3, <2>1, <3>1, BlockSize
    <3> QED BY <2>1, <3>2, NumOf
  <2>7. InPlace(i)
    BY <2>3, <2>5 DEF ContentInv
  <2> QED BY <1>1, <2>1, <2>3, <2>5, <2>6, <2>7 DEF InPlace
<1> QED BY <1>1, <1>4

\* dequeue() and dequeue_bulk() move the items out of their slots
\* (concurrentqueue.h:2590-2619, :2834-2878) and return what lay there.
LEMMA TakeContent ==
  ASSUME QueueBase, StoredInv, ContentInv, NEW c \in Consumers, TakeItems(c)
  PROVE  ContentInv'
<1> DEFINE done == cons[c].index .. EndOf(cons[c]) - 1
           slots == {Slot(i) : i \in done}
           b == value[EntryOf(c)]
<1>1. /\ EntryOf(c) = Ent(Num(cons[c].index)) /\ Num(cons[c].index) \in InUse
      /\ \A i \in done : /\ i \in Int /\ i \in 0 .. tailIndex - 1 /\ i \notin Taken
                         /\ Num(i) = Num(cons[c].index) /\ elements[b][Slot(i)] = i
  BY ClaimedInPlace DEF TakeItems, ConsumerAt
<1>2. /\ delivered' = delivered \cup {elements[b][s] : s \in slots}
      /\ elements' = [elements EXCEPT ![b] =
                        [s \in DOMAIN @ |-> IF s \in slots THEN NoItem ELSE @[s]]]
      /\ UNCHANGED <<tailIndex, headIndex, value, prod>>
  BY EndOfConsumer DEF TakeItems, counters, indexVars
<1>3. Taken' = Taken \cup done
  BY TakeClaims DEF QueueBase
<1>4. /\ LinkInv /\ OwnerInv /\ elements \in [Blocks -> [0 .. BLOCK_SIZE - 1 -> Int]]
  BY BaseFacts DEF StoredInv, StoreType
<1>5. DequeueStep(c)
  BY DEF DequeueStep
<1>6. EntriesStay
  BY <1>5, DequeueFrame
<1>7. ASSUME NEW d \in Blocks, NEW s \in 0 .. BLOCK_SIZE - 1, d # b \/ s \notin slots
      PROVE  elements'[d][s] = elements[d][s]
  <2> HIDE DEF slots, b
  <2> QED BY <1>2, <1>4, <1>7
<1>8. ASSUME NEW i \in 0 .. tailIndex' - 1, i \notin Taken' PROVE InPlace(i)'
  <2>1. i \in 0 .. tailIndex - 1 /\ i \notin Taken /\ i \notin done
    BY <1>2, <1>3, <1>8
  <2>2. i \in Int /\ Num(i) \in InUse /\ InPlace(i)
    BY <2>1, UntakenInUse DEF ContentInv
  <2>3. value[Ent(Num(i))] \in Blocks /\ Slot(i) \in 0 .. BLOCK_SIZE - 1
    BY <1>4, <2>2, Place DEF LinkInv, LinkedEntry
  <2>4. value[Ent(Num(i))] # b \/ Slot(i) \notin slots
    <3> SUFFICES ASSUME value[Ent(Num(i))] = b, NEW j \in done, Slot(i) = Slot(j) PROVE FALSE
      OBVIOUS
    <3>1. j \in Int /\ Num(j) = Num(cons[c].index) /\ Num(j) \in InUse
      BY <1>1
    <3>2. value[Ent(Num(j))] = b
      BY <1>1, <3>1
    <3> HIDE DEF b, done
    <3>3. i = j
      BY <1>4, <2>2, <3>1, <3>2, ItemsApart
    <3> QED BY <2>1, <3>3
  <2>5. elements'[value[Ent(Num(i))]][Slot(i)] = elements[value[Ent(Num(i))]][Slot(i)]
    BY <1>7, <2>3, <2>4
  <2>6. Ent(Num(i))' = Ent(Num(i))
    <3>1. PICK n \in Int : n = Num(i)
      BY <2>2, Place
    <3>2. Ent(n)' = Ent(n) /\ Ent(Num(i))' = Ent(n)'
      BY <1>6, <3>1 DEF EntriesStay, Ent, Num
    <3> QED BY <3>1, <3>2
  <2> QED BY <1>2, <2>2, <2>5, <2>6, InPlaceStays
<1>9. ASSUME Constructed', NEW i \in Shown' PROVE elements'[BlockOf(i)'][Slot(i)] = i
  <2>1. /\ Constructed /\ Shown' = Shown /\ BlockOf(i)' = BlockOf(i)
        /\ prod.pc \in {"fill", "store"} \/ (prod.pc \in Linking /\ ~Bulk)
    <3>1. LastIndex' = LastIndex /\ FirstNewBase' = FirstNewBase /\ (Bulk' <=> Bulk)
      BY <1>2 DEF LastIndex, FirstNewBase, Bulk
    <3> QED BY <1>2, <1>9, <3>1 DEF Constructed, Shown, BlockOf, Linking
  <2>2. i \in Shown /\ elements[BlockOf(i)][Slot(i)] = i
    BY <1>9, <2>1 DEF ContentInv
  <2>3. /\ i \in Int /\ BlockOf(i) \in Blocks
        /\ \A j \in 0 .. tailIndex - 1 : Num(j) \in InUse /\ Slot(i) = Slot(j) =>
              BlockOf(i) # value[Ent(Num(j))]
    BY <1>4, <2>1, <2>2, PlacesApart
  <2>4. BlockOf(i) # b \/ Slot(i) \notin slots
    BY <1>1, <2>3
  <2>5. Slot(i) \in 0 .. BLOCK_SIZE - 1
    BY <2>3, Place
  <2> QED BY <1>7, <2>1, <2>2, <2>3, <2>4, <2>5
<1>10. delivered' = Taken'
  <2>1. {elements[b][s] : s \in slots} = done
    BY <1>1
  <2> QED BY <1>2, <1>3, <2>1 DEF ContentInv
<1> QED BY <1>8, <1>9, <1>10 DEF ContentInv

\* A consumer that moves no item out leaves the items in their places: the block that it
\* unlinks has none that anybody wants.
LEMMA DequeueQuietContent ==
  ASSUME QueueBase, StoredInv, ContentInv, NEW c \in Consumers, DequeueStep(c),
         UNCHANGED <<elements, delivered>>, Taken' = Taken
  PROVE  ContentInv'
<1>1. /\ UNCHANGED <<tailIndex, prod>> /\ EntriesStay /\ (~UnlinkBlock(c) => UNCHANGED value)
  BY DequeueFrame
<1>2. LinkInv /\ LookupInv
  BY DEF StoredInv
<1>3. ASSUME NEW i \in 0 .. tailIndex - 1, i \notin Taken PROVE InPlace(i)'
  <2>1. i \in Int /\ Num(i) \in InUse /\ InPlace(i)
    BY <1>3, UntakenInUse DEF ContentInv
  <2>2. PICK n \in Int : n = Num(i) /\ i \in Items(n)
    BY <2>1, Place, NumBetween
  <2>3. Ent(n)' = Ent(n) /\ Ent(Num(i))' = Ent(n)' /\ Ent(n) \in Entries
    BY <1>1, <2>2, BaseFacts DEF EntriesStay, Ent, Num, EntsCover
  <2>4. value'[Ent(n)] = value[Ent(n)]
    <3>1. CASE ~UnlinkBlock(c)
      BY <1>1, <3>1
    <3>2. CASE UnlinkBlock(c)
      <4>1. cons[c].pc = "unlink" /\ value' = [value EXCEPT ![EntryOf(c)] = NoBlock]
        BY <3>2 DEF UnlinkBlock, ConsumerAt
      <4>2. c \in Unlinking /\ Items(Num(cons[c].index)) \subseteq Finished
        BY <1>2, <4>1 DEF Unlinking, LinkInv
      <4>3. EntryOf(c) = Ent(Num(cons[c].index))
        BY <1>2, <4>1, EntryAtSlot DEF LookupInv
      <4>4. Num(cons[c].index) \in InUse /\ Num(cons[c].index) # n
        <5>1. Num(cons[c].index) \in 0 .. NextNumber - 1
          BY <4>1, WorkNumber DEF Working
        <5>2. i \notin Finished
          BY <1>3, Bounds
        <5> QED BY <2>2, <4>2, <5>1, <5>2 DEF InUse
      <4>5. Ent(n) # Ent(Num(cons[c].index))
        BY <1>2, <2>1, <2>2, <4>4, KeysApart
      <4>6. value \in [Entries -> Pointers]
        BY BaseFacts DEF StoreType
      <4> QED BY <2>3, <4>1, <4>3, <4>5, <4>6
    <3> QED BY <3>1, <3>2
  <2> QED BY <2>1, <2>2, <2>3, <2>4, InPlaceStays
<1>4. ASSUME Constructed', NEW i \in Shown' PROVE elements'[BlockOf(i)'][Slot(i)] = i
  <2>1. LastIndex' = LastIndex /\ FirstNewBase' = FirstNewBase /\ (Bulk' <=> Bulk)
    BY <1>1 DEF LastIndex, FirstNewBase, Bulk
  <2>2. Constructed /\ Shown' = Shown /\ BlockOf(i)' = BlockOf(i)
    BY <1>1, <1>4, <2>1 DEF Constructed, Shown, BlockOf
  <2> QED BY <1>4, <2>2 DEF ContentInv
<1> QED BY <1>1, <1>3, <1>4 DEF ContentInv

\* Every step of a consumer.
LEMMA DequeueContent ==
  ASSUME QueueBase, StoredInv, ContentInv, NEW c \in Consumers, DequeueStep(c)
  PROVE  ContentInv'
<1>1. QueueShape /\ ClaimsApart /\ CounterInv /\ headIndex \in Int
      /\ cons \in [Consumers -> ConsumerType]
  BY BaseFacts DEF QueueBase, CounterType
<1>2. CASE cons[c].pc \notin Working \cup {"head"}
  BY <1>1, <1>2, QuietClaims, DequeueQuietContent
<1>3. CASE TakeItems(c)
  BY <1>3, TakeContent
<1>4. CASE ClaimHead(c)
  <2>1. Taken' = Taken
    BY <1>1, <1>4, ApartClaimed DEF CounterInv
  <2> QED BY <1>4, <2>1, DequeueQuietContent DEF ClaimHead, blockVars
<1>5. CASE LoadBlockIndex(c) \/ LoadIndexTail(c) \/ FindEntry(c) \/ UnlinkBlock(c)
  <2>1. Taken' = Taken
    BY <1>1, <1>5, LookupClaims
  <2>2. UNCHANGED <<elements, delivered>>
    BY <1>5 DEF LoadBlockIndex, LoadIndexTail, FindEntry, UnlinkBlock, blockVars
  <2> QED BY <2>1, <2>2, DequeueQuietContent
<1>6. CASE SetEmpty(c)
  <2>1. Taken' = Taken
    BY <1>1, <1>6, EmptyClaims
  <2> QED BY <1>6, <2>1, DequeueQuietContent DEF SetEmpty
<1>7. CASE RecycleBlock(c)
  <2>1. Taken' = Taken
    BY <1>1, <1>7, RecycleClaims
  <2> QED BY <1>7, <2>1, DequeueQuietContent DEF RecycleBlock, blockVars
<1> QED BY <1>2, <1>3, <1>4, <1>5, <1>6, <1>7, DequeueCases

-----------------------------------------------------------------------------
(* What the runs check of the items *)

\* A step in which nothing changes leaves all items in their places.
LEMMA ContentStutters ==
  ASSUME QueueBase, StoredInv, ContentInv, UNCHANGED queueVars
  PROVE  ContentInv'
<1>1. UNCHANGED <<tailIndex, headIndex, blockIndex, headers, value, elements, prod, cons,
      delivered>>
  BY DEF queueVars, counters, indexVars, blockVars
<1>2. Taken' = Taken /\ \A n \in Int : Ent(n)' = Ent(n)
  BY <1>1, ClaimsSame, NumbersSame
<1>3. ASSUME NEW i \in 0 .. tailIndex - 1, i \notin Taken PROVE InPlace(i)'
  <2>1. i \in Int /\ InPlace(i)
    BY <1>3, UntakenInUse DEF ContentInv
  <2>2. PICK n \in Int : n = Num(i)
    BY <2>1, Place
  <2>3. Ent(n)' = Ent(n) /\ Ent(Num(i))' = Ent(n)'
    BY <1>2, <2>2 DEF Ent, Num
  <2> QED BY <1>1, <2>1, <2>2, <2>3, InPlaceStays
<1>4. ASSUME Constructed', NEW i \in Shown' PROVE elements'[BlockOf(i)'][Slot(i)] = i
  <2>1. LastIndex' = LastIndex /\ FirstNewBase' = FirstNewBase /\ (Bulk' <=> Bulk)
    BY <1>1 DEF LastIndex, FirstNewBase, Bulk
  <2>2. Constructed /\ Shown' = Shown /\ BlockOf(i)' = BlockOf(i)
    BY <1>1, <1>4, <2>1 DEF Constructed, Shown, BlockOf
  <2> QED BY <1>1, <1>4, <2>2 DEF ContentInv
<1> QED BY <1>1, <1>2, <1>3, <1>4 DEF ContentInv

\* The queue begins with the items that it served before, all of them delivered.
LEMMA InitialContent ==
  ASSUME ImplicitInit
  PROVE  ContentInv
<1>1. tailIndex = ServedItems /\ delivered = 0 .. ServedItems - 1 /\ prod.pc = "idle"
  BY DEF ImplicitInit, IdleProducer
<1>2. Taken = 0 .. ServedItems - 1
  BY InitialClaimsApart
<1> QED BY <1>1, <1>2 DEF ContentInv, Constructed

\* Every item below the tail that nobody has moved out lies in the block and the slot that
\* its index leads to, an enqueue shows only items that are in their places, and what
\* dequeue() has returned is what it has moved out.
THEOREM ContentInvariance == ImplicitSpec => []ContentInv
<1>1. ImplicitInit => ContentInv
  BY InitialContent
<1>2. QueueBase /\ StoredInv /\ ContentInv /\ [ImplicitNext]_queueVars => ContentInv'
  <2> SUFFICES ASSUME QueueBase, StoredInv, ContentInv, [ImplicitNext]_queueVars
               PROVE  ContentInv'
    OBVIOUS
  <2>1. CASE EnqueueStep
    BY <2>1, EnqueueContent DEF StoredInv
  <2>2. ASSUME NEW c \in Consumers, DequeueStep(c) PROVE ContentInv'
    BY <2>2, DequeueContent
  <2>3. CASE UNCHANGED queueVars
    BY <2>3, ContentStutters
  <2> QED BY <2>1, <2>2, <2>3 DEF ImplicitNext
<1>3. QueueShape /\ CounterInv /\ ClaimsApart => QueueBase
  BY DEF QueueBase
<1> QED BY <1>1, <1>2, <1>3, ShapeInvariance, CounterInvariance, ClaimsInvariance,
           StoredInvariance, PTL DEF ImplicitSpec

\* A consumer that has claimed items finds their entry, its key, its block and the items.
THEOREM ItemsAreFound == ImplicitSpec => []ClaimedItemsAreFound
<1>1. QueueBase /\ StoredInv /\ ContentInv => ClaimedItemsAreFound
  <2> SUFFICES ASSUME QueueBase, StoredInv, ContentInv, NEW c \in Consumers, cons[c].pc = "take"
               PROVE  /\ key[EntryOf(c)] = Base(cons[c].index)
                      /\ value[EntryOf(c)] # NoBlock
                      /\ \A i \in cons[c].index .. EndIndex(c) - 1 :
                           elements[value[EntryOf(c)]][Slot(i)] = i
    BY DEF ClaimedItemsAreFound, ConsumerAt
  <2>1. /\ EntryOf(c) = Ent(Num(cons[c].index)) /\ Num(cons[c].index) \in InUse
        /\ \A i \in cons[c].index .. EndOf(cons[c]) - 1 : elements[value[EntryOf(c)]][Slot(i)] = i
    BY ClaimedInPlace
  <2>2. LinkedEntry(Num(cons[c].index))
    BY <2>1 DEF StoredInv, LinkInv
  <2>3. Base(cons[c].index) = BLOCK_SIZE * Num(cons[c].index)
    BY WorkNumber, Place DEF Working
  <2> QED BY <2>1, <2>2, <2>3, BlockSize, EndOfConsumer DEF LinkedEntry
<1>2. QueueShape /\ CounterInv /\ ClaimsApart => QueueBase
  BY DEF QueueBase
<1> QED BY <1>1, <1>2, ShapeInvariance, CounterInvariance, ClaimsInvariance, StoredInvariance,
           ContentInvariance, PTL

\* When no call is running, all claims are settled.
LEMMA QuietBalance ==
  ASSUME QueueBase, \A c \in Consumers : cons[c].pc = "idle"
  PROVE  /\ dequeueOptimisticCount - dequeueOvercommit = headIndex
         /\ Taken = 0 .. headIndex - 1
<1>1. \A c \in Consumers : ClaimType(cons[c])
  BY DEF QueueBase, CounterInv
<1>2. cons \in [Consumers -> ConsumerType] /\ CounterType
  BY BaseFacts
<1>3. /\ Kept \in [Consumers -> Nat] /\ Wanted \in [Consumers -> Nat]
      /\ Owing \in [Consumers -> Nat]
  BY <1>1, <1>2, SharesType
<1>4. \A c \in Consumers : Kept[c] = 0 /\ Wanted[c] = 0 /\ Owing[c] = 0
  BY DEF Kept, Wanted, Owing, KeptOf, WantedOf, OwingOf
<1>5. Total(Kept) = 0 /\ Total(Wanted) = 0 /\ Total(Owing) = 0
  BY <1>3, <1>4, TotalOfNothing
<1>6. dequeueOptimisticCount = dequeueOvercommit + (headIndex + 0) + 0 + 0
  BY <1>5 DEF QueueBase, CounterInv, Balance, Reserved
<1>7. \A c \in Consumers : Untaken(cons[c]) = {}
  BY DEF Untaken, Working
<1> QED BY <1>2, <1>6, <1>7 DEF CounterType, Taken

\* The head never passes the tail; and when no call is running, every claim is settled,
\* what is below the head is delivered, and the rest is found from the tail of the index.
THEOREM QuietQueueComplete == ImplicitSpec => []QuietQueueIsComplete
<1>1. QueueBase /\ StoredInv /\ ContentInv => QuietQueueIsComplete
  <2> SUFFICES ASSUME QueueBase, StoredInv, ContentInv PROVE QuietQueueIsComplete
    OBVIOUS
  <2>1. /\ headIndex \in Nat /\ tailIndex \in Nat /\ headIndex <= tailIndex
    BY Bounds
  <2> SUFFICES ASSUME prod.pc = "idle", \A c \in Consumers : cons[c].pc = "idle"
               PROVE  /\ dequeueOptimisticCount - dequeueOvercommit = headIndex
                      /\ delivered = 0 .. headIndex - 1
                      /\ \A i \in headIndex .. tailIndex - 1 :
                           LET b == value[EntryFor(blockIndex, Header.tail, i)]
                           IN b # NoBlock /\ elements[b][Slot(i)] = i
    BY <2>1 DEF QuietQueueIsComplete, ProducerAt, ConsumerAt
  <2>2. /\ dequeueOptimisticCount - dequeueOvercommit = headIndex
        /\ Taken = 0 .. headIndex - 1
    BY QuietBalance
  <2>3. delivered = Taken
    BY DEF ContentInv
  <2>4. ASSUME NEW i \in headIndex .. tailIndex - 1
        PROVE  /\ value[EntryFor(blockIndex, Header.tail, i)] # NoBlock
               /\ elements[value[EntryFor(blockIndex, Header.tail, i)]][Slot(i)] = i
    <3>1. i \in Int /\ i \in 0 .. tailIndex - 1 /\ i \notin Taken
      BY <2>1, <2>2
    <3>2. Num(i) \in InUse /\ InPlace(i)
      BY <3>1, UntakenInUse DEF ContentInv
    <3>3. PICK n \in InUse : n = Num(i) /\ n \in Int /\ n <= NextNumber - 1
      <4>1. NextNumber \in Nat /\ InUse \subseteq 0 .. NextNumber - 1
        BY BaseFacts
      <4>2. PICK n : n = Num(i)
        OBVIOUS
      <4>3. n \in InUse /\ n \in 0 .. NextNumber - 1
        BY <3>2, <4>1, <4>2
      <4>4. n \in Int /\ n <= NextNumber - 1
        BY <4>1, <4>3
      <4> QED BY <4>2, <4>3, <4>4
    <3>4. Top = NextNumber - 1
      <4>1. Chained = 0 /\ NextNumber \in Nat
        <5>1. prod.chain = <<>> /\ NextNumber \in Nat
          BY BaseFacts DEF ProducerInv
        <5> QED BY <5>1 DEF Chained
      <4>2. Top = NextNumber + Chained - 1
        BY DEF Top, Undoing
      <4> QED BY <4>1, <4>2
    <3>5. PICK last \in Int, none \in Int : Keyed(last, none)
      BY DEF StoredInv, KeyInv
    <3>6. Top \in Int /\ n <= Top /\ Top <= last
      BY <3>3, <3>4, <3>5, BaseFacts DEF Keyed
    <3>7. key[Ent(Top)] = BLOCK_SIZE * Top
      <4>1. LinkInv
        BY DEF StoredInv
      <4>2. \A k \in n .. last : key[Ent(k)] = BLOCK_SIZE * k
        BY <3>3, <3>5, <4>1, InWindow
      <4> QED BY <3>3, <3>6, <4>2
    <3>8. EntryFor(blockIndex, Header.tail, i) = Ent(Num(i))
      BY <3>1, <3>7, EntryForIs
    <3>9. value[Ent(Num(i))] \in Blocks
      BY <3>2 DEF StoredInv, LinkInv, LinkedEntry
    <3> QED BY <3>2, <3>8, <3>9, BlockSize DEF InPlace
  <2> QED BY <2>2, <2>3, <2>4
<1>2. QueueShape /\ CounterInv /\ ClaimsApart => QueueBase
  BY DEF QueueBase
<1> QED BY <1>1, <1>2, ShapeInvariance, CounterInvariance, ClaimsInvariance, StoredInvariance,
           ContentInvariance, PTL
=============================================================================
