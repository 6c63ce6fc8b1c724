---------------------------- MODULE FreeList_proofs ----------------------------
(***************************************************************************)
(* Proofs about FreeList, for every finite set of nodes and of threads.    *)
(*                                                                         *)
(* The argument is an account of the reference counts.  The count of a     *)
(* node is the number of threads that hold a reference to it, plus one     *)
(* while the list has its own.  A thread that is about to link a node      *)
(* found its count at zero, so nobody holds the node; whoever holds one    *)
(* therefore knows its next pointer, which is what the compare-exchange on *)
(* the head relies on (no ABA).  Every node is in one place: with one      *)
(* caller, on the list, with one adder, or marked and waiting for the last *)
(* holder.                                                                 *)
(***************************************************************************)
EXTENDS FreeList, SequenceTheorems, FiniteSetTheorems, WellFoundedInduction, TLAPS

-----------------------------------------------------------------------------
(* The inductive invariant *)

\* The accesses between the increment of the count and its decrement.
Holding == {"next_load", "take_cas", "release", "unref"}

Holders(n) == {t \in Threads : pc[t] \in Holding /\ node[t] = n}

\* Before and after an adder has stored the reference of the list.
EarlySteps == {"add_load", "next_store", "ref_store"}
LateSteps == {"add_cas", "add_undo"}

\* The list has its reference: on the list, about to be, or just taken off.
Listed(on, n) ==
  n \in on \/ \E t \in Threads : pc[t] \in LateSteps \cup {"release"} /\ node[t] = n

HasAdder(n) == \E t \in Threads : pc[t] \in AddSteps /\ node[t] = n

RefType == [count : Nat, should : BOOLEAN]

SharedType ==
  /\ freeListHead \in Nodes \cup {NoNode}
  /\ freeListRefs \in [Nodes -> RefType]
  /\ freeListNext \in [Nodes -> Nodes \cup {NoNode}]
  /\ owned \in [Threads -> SUBSET Nodes]

LocalType ==
  /\ pc \in [Threads -> Steps]
  /\ node \in [Threads -> Nodes \cup {NoNode}]
  /\ head \in [Threads -> Nodes \cup {NoNode}]
  /\ next \in [Threads -> Nodes \cup {NoNode}]
  /\ refs \in [Threads -> RefType]
  /\ getting \in [Threads -> BOOLEAN]
  /\ \A t \in Threads : pc[t] \notin {"idle", "reload"} => node[t] \in Nodes

\* What a thread read is still so when it acts on it.
LocalsInv ==
  \A t \in Threads :
    /\ pc[t] = "ref_cas" => refs[t].count # 0
    /\ pc[t] \in {"ref_load", "ref_cas", "next_load", "take_cas"} => head[t] = node[t]
    /\ pc[t] = "take_cas" => next[t] = freeListNext[node[t]]
    /\ pc[t] \in {"ref_store", "add_cas"} => next[t] = freeListNext[node[t]]

CountInv(on) ==
  \A n \in Nodes :
    freeListRefs[n].count = Cardinality(Holders(n)) + (IF Listed(on, n) THEN 1 ELSE 0)

\* What an adder knows of the count and the mark of its node.
AdderInv ==
  \A t \in Threads :
    /\ pc[t] \in EarlySteps => freeListRefs[node[t]] = Ref(0, TRUE)
    /\ pc[t] \in LateSteps => freeListRefs[node[t]].should = FALSE

\* A node has one place: no two callers, no two adders, and a caller's node is
\* neither on the list, nor marked, nor being added.
OneCaller == \A s, t \in Threads : s # t => owned[s] \cap owned[t] = {}
OneAdder ==
  \A s, t \in Threads :
    pc[s] \in AddSteps /\ pc[t] \in AddSteps /\ node[s] = node[t] => s = t
TakerOwns == \A t \in Threads : pc[t] = "release" => node[t] \in owned[t]
Untouched(n) == freeListRefs[n].should = FALSE /\ ~HasAdder(n)
OwnedOff(on) == \A t \in Threads : \A n \in owned[t] : n \notin on /\ Untouched(n)
OnListClean(on) == \A n \in on : Untouched(n)

\* And it has some place; a marked node that nobody adds waits for a holder.
SomePlace(on) ==
  \A n \in Nodes :
    \/ n \in on \/ freeListRefs[n].should = TRUE \/ HasAdder(n)
    \/ \E t \in Threads : n \in owned[t]
WaitsForHolder ==
  \A n \in Nodes : freeListRefs[n].should = TRUE /\ ~HasAdder(n) => freeListRefs[n].count > 0

PlacesInv(on) ==
  /\ OneCaller /\ OneAdder /\ TakerOwns /\ OwnedOff(on) /\ OnListClean(on)
  /\ SomePlace(on) /\ WaitsForHolder

Books(on) == LocalsInv /\ CountInv(on) /\ AdderInv /\ PlacesInv(on)

\* The nodes on the list are those of a sequence without repetitions that the
\* next pointers link.
Chain(list) ==
  /\ list \in Seq(Nodes)
  /\ \A i, j \in 1 .. Len(list) : list[i] = list[j] => i = j
  /\ freeListHead = IF list = <<>> THEN NoNode ELSE list[1]
  /\ \A k \in 1 .. Len(list) :
       freeListNext[list[k]] = IF k < Len(list) THEN list[k + 1] ELSE NoNode

NodesOf(list) == {list[k] : k \in 1 .. Len(list)}

FreeListInv ==
  SharedType /\ LocalType /\ \E list \in Seq(Nodes) : Chain(list) /\ Books(NodesOf(list))

-----------------------------------------------------------------------------
(* What a step of one thread leaves alone *)

\* The locals of every other thread.
Others(t) ==
  \A s \in Threads \ {t} :
    /\ pc'[s] = pc[s] /\ node'[s] = node[s]
    /\ head'[s] = head[s] /\ next'[s] = next[s] /\ refs'[s] = refs[s]

\* A thread at one of these has no reference and no node to add.
Outside == {"idle", "reload", "ref_load", "ref_cas"}

\* The loop of try_get() goes on or returns (concurrentqueue.h:1501-1531):
\* only the locals of the thread change.
LEMMA LoopWithLocals ==
  ASSUME LocalType, NEW t \in Threads, NEW h \in Nodes \cup {NoNode}, LoopWith(t, h)
  PROVE  /\ LocalType' /\ Others(t)
         /\ pc'[t] \in {"idle", "ref_load"}
         /\ pc'[t] = "ref_load" => head'[t] = node'[t]
<1> USE DEF LocalType, Others
<1>1. Ref(0, FALSE) \in RefType
  BY DEF Ref, RefType
<1>2. CASE h = NoNode
  <2> USE <1>2 DEF LoopWith, Return, GoTo
  <2>1. getting' \in [Threads -> BOOLEAN] /\ refs' \in [Threads -> RefType]
    BY <1>1, Zenon
  <2>2. pc' \in [Threads -> Steps]
    BY DEF Steps
  <2>3. pc'[t] = "idle" /\ Others(t)
    OBVIOUS
  <2> QED BY <2>1, <2>2, <2>3
<1>3. CASE h # NoNode
  <2> USE <1>3 DEF LoopWith, GoTo
  <2>1. getting' \in [Threads -> BOOLEAN] /\ refs' \in [Threads -> RefType]
    BY <1>1, Zenon
  <2>2. pc' \in [Threads -> Steps]
    BY DEF Steps
  <2>3. pc'[t] = "ref_load" /\ head'[t] = node'[t] /\ Others(t)
    OBVIOUS
  <2> QED BY <2>1, <2>2, <2>3
<1> QED BY <1>2, <1>3

\* A step from outside to outside disturbs nothing that is shared.
LEMMA OutsideKeeps ==
  ASSUME NEW on \in SUBSET Nodes, Books(on), LocalType, NEW t \in Threads, Others(t),
         UNCHANGED <<freeListRefs, freeListNext, owned>>,
         pc[t] \in Outside, pc'[t] \in Outside,
         pc'[t] = "ref_cas" => refs'[t].count # 0,
         pc'[t] \in {"ref_load", "ref_cas"} => head'[t] = node'[t]
  PROVE  Books(on)'
<1> USE DEF Others, Outside
<1>1. \A n : Holders(n)' = Holders(n)
  BY DEF Holders, Holding
<1>2. \A n : Listed(on, n)' <=> Listed(on, n)
  BY DEF Listed, LateSteps
<1>3. \A n : HasAdder(n)' <=> HasAdder(n)
  BY DEF HasAdder, AddSteps
<1>4. LocalsInv'
  BY DEF Books, LocalsInv
<1>5. CountInv(on)'
  BY <1>1, <1>2 DEF Books, CountInv
<1>6. AdderInv'
  BY DEF Books, AdderInv, EarlySteps, LateSteps
<1>7. PlacesInv(on)'
  BY <1>3 DEF Books, PlacesInv, OneCaller, OneAdder, TakerOwns, OwnedOff, OnListClean,
     SomePlace, WaitsForHolder, Untouched, AddSteps
<1> QED BY <1>4, <1>5, <1>6, <1>7 DEF Books

-----------------------------------------------------------------------------
(* try_get(), access by access (concurrentqueue.h:1495-1532) *)

\* The loads of the head (concurrentqueue.h:1497, :1535) keep the invariant.
LEMMA LoadHeadKeeps ==
  ASSUME NEW on \in SUBSET Nodes, Books(on), SharedType, LocalType,
         NEW t \in Threads, LoadHead(t)
  PROVE  Books(on)' /\ LocalType'
<1>1. freeListHead \in Nodes \cup {NoNode}
  BY DEF SharedType
<1>2. LocalType' /\ Others(t) /\ pc'[t] \in {"idle", "ref_load"}
         /\ (pc'[t] = "ref_load" => head'[t] = node'[t])
  BY <1>1, LoopWithLocals DEF LoadHead
<1>3. pc[t] \in Outside /\ pc'[t] \in Outside
  BY <1>2 DEF LoadHead, Outside
<1> QED BY <1>2, <1>3, OutsideKeeps DEF LoadHead

\* Reading the count of the head (:1503) keeps the invariant.
LEMMA LoadRefsKeeps ==
  ASSUME NEW on \in SUBSET Nodes, Books(on), SharedType, LocalType,
         NEW t \in Threads, LoadRefs(t)
  PROVE  Books(on)' /\ LocalType'
<1> USE DEF LoadRefs, At, GoTo
<1>1. node[t] \in Nodes /\ freeListRefs[node[t]] \in RefType
  BY DEF LocalType, SharedType
<1>2. pc' \in [Threads -> Steps]
  BY DEF LocalType, Steps
<1>3. refs' \in [Threads -> RefType]
  BY <1>1, Zenon DEF LocalType
<1>4. LocalType'
  BY <1>1, <1>2, <1>3 DEF LocalType
<1>5. Others(t)
  BY DEF Others, LocalType
<1>6. head[t] = node[t]
  BY DEF Books, LocalsInv
<1>7. /\ pc'[t] \in {"reload", "ref_cas"}
      /\ pc'[t] = "ref_cas" => refs'[t].count # 0
      /\ head'[t] = node'[t]
  BY <1>6 DEF LocalType
<1>8. pc[t] \in Outside /\ pc'[t] \in Outside
  BY <1>7 DEF Outside
<1> QED BY <1>4, <1>5, <1>7, <1>8, OutsideKeeps

\* The reference counts: a thread becomes a holder, or ceases to be one.
LEMMA HoldersFinite ==
  ASSUME NEW n
  PROVE  IsFiniteSet(Holders(n)) /\ IsFiniteSet(Holders(n)')
         /\ Cardinality(Holders(n)) \in Nat /\ Cardinality(Holders(n)') \in Nat
<1>1. Holders(n) \subseteq Threads /\ Holders(n)' \subseteq Threads
  BY DEF Holders
<1>2. IsFiniteSet(Holders(n)) /\ IsFiniteSet(Holders(n)')
  BY <1>1, NoNodeAssumption, FS_Subset
<1> QED BY <1>2, FS_CardinalityType

\* A lost compare-exchange leads to the loop; a won one counts the thread in
\* (concurrentqueue.h:1504).
LEMMA CasRefsKeeps ==
  ASSUME NEW on \in SUBSET Nodes, Books(on), SharedType, LocalType,
         NEW t \in Threads, CasRefs(t)
  PROVE  Books(on)' /\ LocalType' /\ SharedType'
<1> USE DEF CasRefs, At, GoTo
<1>1. node[t] \in Nodes /\ freeListRefs[node[t]] \in RefType
  BY DEF LocalType, SharedType
<1>2. pc' \in [Threads -> Steps]
  BY DEF LocalType, Steps
<1>3. LocalType'
  BY <1>1, <1>2 DEF LocalType
<1>4. Others(t)
  BY DEF Others, LocalType
<1>5. head[t] = node[t]
  BY DEF Books, LocalsInv
<1>6. CASE freeListRefs[node[t]] # refs[t]
  <2>1. pc'[t] = "reload"
    BY <1>6 DEF LocalType
  <2>2. Books(on)'
    BY <1>4, <1>6, <2>1, OutsideKeeps DEF Outside
  <2> QED BY <1>3, <1>6, <2>2 DEF SharedType
<1>7. CASE freeListRefs[node[t]] = refs[t]
  <2> DEFINE m == node[t]
  <2>1. /\ pc'[t] = "next_load" /\ node' = node /\ head' = head
        /\ freeListRefs[m].count \in Nat \ {0}
    BY <1>1, <1>7 DEF LocalType, Books, LocalsInv, RefType
  <2>2. /\ freeListRefs' \in [Nodes -> RefType]
        /\ freeListRefs'[m].count = freeListRefs[m].count + 1
        /\ freeListRefs'[m].should = freeListRefs[m].should
        /\ \A n \in Nodes \ {m} : freeListRefs'[n] = freeListRefs[n]
    BY <1>1, <1>7 DEF SharedType, RefType
  <2>3. Holders(m)' = Holders(m) \cup {t} /\ t \notin Holders(m)
        /\ \A n \in Nodes \ {m} : Holders(n)' = Holders(n)
    BY <1>4, <2>1 DEF Holders, Holding, Others
  <2>4. \A n : Listed(on, n)' <=> Listed(on, n)
    BY <1>4, <2>1 DEF Listed, LateSteps, Others
  <2>5. \A n : HasAdder(n)' <=> HasAdder(n)
    BY <1>4, <2>1 DEF HasAdder, AddSteps, Others
  <2>6. Cardinality(Holders(m)') = Cardinality(Holders(m)) + 1
    BY <2>3, HoldersFinite, FS_AddElement
  <2>7. CountInv(on)'
    <3> SUFFICES ASSUME NEW n \in Nodes
                 PROVE  freeListRefs'[n].count = Cardinality(Holders(n)') + (IF Listed(on, n)' THEN 1 ELSE 0)
      BY DEF CountInv
    <3>1. freeListRefs[n].count = Cardinality(Holders(n)) + (IF Listed(on, n) THEN 1 ELSE 0)
      BY DEF Books, CountInv
    <3>2. CASE n = m
      BY <3>1, <3>2, <2>2, <2>4, <2>6, HoldersFinite
    <3>3. CASE n # m
      BY <3>1, <3>3, <2>2, <2>3, <2>4
    <3> QED BY <3>2, <3>3
  <2>8. LocalsInv'
    BY <1>4, <1>5, <2>1 DEF Books, LocalsInv, Others
  <2>9. AdderInv'
    BY <1>1, <1>4, <2>1, <2>2 DEF Books, AdderInv, EarlySteps, LateSteps, Others, Ref, LocalType
  <2>10. PlacesInv(on)'
    <3>1. \A n \in Nodes : /\ freeListRefs'[n].should = freeListRefs[n].should
                           /\ freeListRefs[n].count > 0 => freeListRefs'[n].count > 0
      BY <1>1, <2>2 DEF RefType
    <3>2. \A n \in Nodes : Untouched(n)' <=> Untouched(n)
      BY <2>5, <3>1 DEF Untouched
    <3>3. OneCaller' /\ OneAdder' /\ TakerOwns'
      BY <1>4, <2>1 DEF Books, PlacesInv, OneCaller, OneAdder, TakerOwns, AddSteps, Others
    <3>4. OwnedOff(on)' /\ OnListClean(on)'
      BY <3>2 DEF Books, PlacesInv, OwnedOff, OnListClean, SharedType
    <3>5. SomePlace(on)'
      BY <2>5, <3>1 DEF Books, PlacesInv, SomePlace
    <3>6. WaitsForHolder'
      BY <2>5, <3>1 DEF Books, PlacesInv, WaitsForHolder
    <3> QED BY <3>3, <3>4, <3>5, <3>6 DEF PlacesInv
  <2> QED BY <1>3, <2>2, <2>7, <2>8, <2>9, <2>10 DEF Books, SharedType
<1> QED BY <1>6, <1>7

\* A step that neither moves a node nor changes a mark, and leaves no marked
\* node without a holder, keeps every node in its place.
LEMMA PlacesKept ==
  ASSUME NEW on \in SUBSET Nodes, PlacesInv(on), SharedType, owned' = owned,
         \A s \in Threads : pc'[s] \in AddSteps <=> pc[s] \in AddSteps,
         \A s \in Threads : pc[s] \in AddSteps => node'[s] = node[s],
         \A s \in Threads : pc'[s] = "release" => node'[s] \in owned[s],
         \A n \in Nodes : freeListRefs'[n].should = freeListRefs[n].should,
         \A n \in Nodes : freeListRefs[n].should = TRUE /\ ~HasAdder(n) => freeListRefs'[n].count > 0
  PROVE  PlacesInv(on)'
<1>1. \A n : HasAdder(n)' <=> HasAdder(n)
  BY DEF HasAdder
<1>2. \A n \in Nodes : Untouched(n)' <=> Untouched(n)
  BY <1>1 DEF Untouched
<1>3. OneCaller' /\ OneAdder' /\ TakerOwns'
  BY DEF PlacesInv, OneCaller, OneAdder, TakerOwns
<1>4. OwnedOff(on)' /\ OnListClean(on)'
  BY <1>2 DEF PlacesInv, OwnedOff, OnListClean, SharedType
<1>5. SomePlace(on)' /\ WaitsForHolder'
  BY <1>1 DEF PlacesInv, SomePlace, WaitsForHolder
<1> QED BY <1>3, <1>4, <1>5 DEF PlacesInv

\* The next pointer is read under a reference (concurrentqueue.h:1511).
LEMMA LoadNextKeeps ==
  ASSUME NEW on \in SUBSET Nodes, Books(on), SharedType, LocalType,
         NEW t \in Threads, LoadNext(t)
  PROVE  Books(on)' /\ LocalType'
<1> USE DEF LoadNext, At, GoTo
<1>1. node[t] \in Nodes /\ freeListNext[node[t]] \in Nodes \cup {NoNode}
  BY DEF LocalType, SharedType
<1>2. pc' \in [Threads -> Steps]
  BY DEF LocalType, Steps
<1>3. LocalType'
  BY <1>1, <1>2 DEF LocalType
<1>4. Others(t) /\ pc'[t] = "take_cas" /\ node' = node /\ head' = head
         /\ next'[t] = freeListNext[node[t]]
  BY DEF Others, LocalType
<1>5. \A n : Holders(n)' = Holders(n) /\ (Listed(on, n)' <=> Listed(on, n))
  BY <1>4 DEF Holders, Holding, Listed, LateSteps, Others
<1>6. LocalsInv'
  BY <1>4 DEF Books, LocalsInv, Others
<1>7. CountInv(on)'
  BY <1>5 DEF Books, CountInv
<1>8. AdderInv'
  BY <1>4 DEF Books, AdderInv, EarlySteps, LateSteps, Others
<1>9. PlacesInv(on)'
  <2>1. /\ \A s \in Threads : pc'[s] \in AddSteps <=> pc[s] \in AddSteps
        /\ \A s \in Threads : pc'[s] = "release" => node'[s] \in owned[s]
    BY <1>4 DEF AddSteps, Others, Books, PlacesInv, TakerOwns
  <2>2. \A n \in Nodes : freeListRefs[n].should = TRUE /\ ~HasAdder(n) => freeListRefs'[n].count > 0
    BY DEF Books, PlacesInv, WaitsForHolder
  <2> QED BY <1>4, <2>1, <2>2, PlacesKept DEF Books
<1> QED BY <1>3, <1>6, <1>7, <1>8, <1>9 DEF Books

\* A lost compare-exchange on the head: the thread keeps its reference, to
\* give it back next (concurrentqueue.h:1522-1525).
LEMMA CasTakeLostKeeps ==
  ASSUME NEW on \in SUBSET Nodes, Books(on), SharedType, LocalType,
         NEW t \in Threads, CasTake(t), freeListHead # head[t]
  PROVE  Books(on)' /\ LocalType' /\ UNCHANGED <<freeListHead, freeListNext, freeListRefs, owned>>
<1> USE DEF CasTake, At, GoTo
<1>1. node[t] \in Nodes /\ freeListHead \in Nodes \cup {NoNode}
  BY DEF LocalType, SharedType
<1>2. pc' \in [Threads -> Steps]
  BY DEF LocalType, Steps
<1>3. LocalType'
  BY <1>1, <1>2 DEF LocalType
<1>4. Others(t) /\ pc'[t] = "unref" /\ node' = node
  BY DEF Others, LocalType
<1>5. \A n : Holders(n)' = Holders(n) /\ (Listed(on, n)' <=> Listed(on, n))
  BY <1>4 DEF Holders, Holding, Listed, LateSteps, Others
<1>6. LocalsInv'
  BY <1>4 DEF Books, LocalsInv, Others
<1>7. CountInv(on)'
  BY <1>5 DEF Books, CountInv
<1>8. AdderInv'
  BY <1>4 DEF Books, AdderInv, EarlySteps, LateSteps, Others
<1>9. PlacesInv(on)'
  <2>1. /\ \A s \in Threads : pc'[s] \in AddSteps <=> pc[s] \in AddSteps
        /\ \A s \in Threads : pc'[s] = "release" => node'[s] \in owned[s]
    BY <1>4 DEF AddSteps, Others, Books, PlacesInv, TakerOwns
  <2>2. \A n \in Nodes : freeListRefs[n].should = TRUE /\ ~HasAdder(n) => freeListRefs'[n].count > 0
    BY DEF Books, PlacesInv, WaitsForHolder
  <2> QED BY <1>4, <2>1, <2>2, PlacesKept DEF Books
<1> QED BY <1>3, <1>6, <1>7, <1>8, <1>9 DEF Books

\* The node at the head leaves the list for the caller (concurrentqueue.h:1512-1519).
LEMMA CasTakeWonKeeps ==
  ASSUME NEW on \in SUBSET Nodes, Books(on), SharedType, LocalType,
         NEW t \in Threads, CasTake(t), freeListHead = head[t],
         NEW m \in on, m = node[t]
  PROVE  Books(on \ {m})' /\ LocalType' /\ owned' \in [Threads -> SUBSET Nodes]
<1> USE DEF CasTake, At, GoTo
<1>2. pc' \in [Threads -> Steps]
  BY DEF LocalType, Steps
<1>3. LocalType'
  BY <1>2 DEF LocalType
<1>4. Others(t) /\ pc'[t] = "release" /\ node' = node /\ head' = head
        /\ UNCHANGED <<freeListRefs, freeListNext>>
  BY DEF Others, LocalType
<1>5. \A n : Holders(n)' = Holders(n) /\ (HasAdder(n)' <=> HasAdder(n))
  BY <1>4 DEF Holders, Holding, HasAdder, AddSteps, Others
<1>6. \A n : Listed(on \ {m}, n)' <=> Listed(on, n)
  BY <1>4 DEF Listed, LateSteps, Others
<1>7. /\ owned' \in [Threads -> SUBSET Nodes] /\ owned'[t] = owned[t] \cup {m}
      /\ \A s \in Threads \ {t} : owned'[s] = owned[s]
  BY DEF SharedType
<1>8. \A s \in Threads : m \notin owned[s]
  BY DEF Books, PlacesInv, OwnedOff
<1>9. \A n : Untouched(n)' <=> Untouched(n)
  BY <1>4, <1>5 DEF Untouched
<1>10. LocalsInv'
  BY <1>4 DEF Books, LocalsInv, Others
<1>11. CountInv(on \ {m})'
  BY <1>4, <1>5, <1>6 DEF Books, CountInv
<1>12. AdderInv'
  BY <1>4 DEF Books, AdderInv, EarlySteps, LateSteps, Others
<1>13. PlacesInv(on \ {m})'
  <2>1. OneCaller'
    BY <1>7, <1>8 DEF Books, PlacesInv, OneCaller
  <2>2. OneAdder' /\ TakerOwns'
    BY <1>4, <1>7 DEF Books, PlacesInv, OneAdder, TakerOwns, AddSteps, Others
  <2>3. OwnedOff(on \ {m})' /\ OnListClean(on \ {m})'
    BY <1>7, <1>9 DEF Books, PlacesInv, OwnedOff, OnListClean
  <2>4. SomePlace(on \ {m})' /\ WaitsForHolder'
    BY <1>4, <1>5, <1>7 DEF Books, PlacesInv, SomePlace, WaitsForHolder
  <2> QED BY <2>1, <2>2, <2>3, <2>4 DEF PlacesInv
<1> QED BY <1>3, <1>7, <1>10, <1>11, <1>12, <1>13 DEF Books

\* fetch_sub(2): the reference of the taker and the one of the list go, and
\* nobody else has a claim on the node (concurrentqueue.h:1518).
LEMMA ReleaseKeeps ==
  ASSUME NEW on \in SUBSET Nodes, Books(on), SharedType, LocalType,
         NEW t \in Threads, Release(t), NEW m \in Nodes, m = node[t]
  PROVE  Books(on)' /\ LocalType' /\ SharedType'
<1> USE DEF Release, At
<1>1. freeListRefs[m] \in RefType
  BY DEF SharedType
<1>2. m \in owned[t] /\ m \notin on /\ Untouched(m)
  BY DEF Books, PlacesInv, TakerOwns, OwnedOff
<1>3. LocalType' /\ pc'[t] = "idle" /\ Others(t)
  <2>1. getting' \in [Threads -> BOOLEAN] /\ refs' \in [Threads -> RefType]
    <3>1. Ref(0, FALSE) \in RefType
      BY DEF Ref, RefType
    <3> QED BY <3>1, Zenon DEF LocalType, Return
  <2>2. pc' \in [Threads -> Steps] /\ pc'[t] = "idle"
    BY DEF LocalType, Return, GoTo, Steps
  <2> QED BY <2>1, <2>2 DEF LocalType, Return, GoTo, Others
<1>4. Listed(on, m)
  BY DEF Listed
<1>5. ~Listed(on, m)'
  <2> SUFFICES ASSUME NEW s \in Threads \ {t}, pc[s] \in LateSteps \cup {"release"}, node[s] = m
               PROVE  FALSE
    BY <1>2, <1>3 DEF Listed, Others, LateSteps
  <2>1. CASE pc[s] \in LateSteps
    BY <2>1, <1>2 DEF Untouched, HasAdder, LateSteps, AddSteps
  <2>2. CASE pc[s] = "release"
    BY <2>2, <1>2 DEF Books, PlacesInv, TakerOwns, OneCaller
  <2> QED BY <2>1, <2>2
<1>6. \A n \in Nodes \ {m} : Holders(n)' = Holders(n) /\ (Listed(on, n)' <=> Listed(on, n))
  BY <1>3 DEF Holders, Holding, Listed, LateSteps, Others
<1>7. Holders(m)' = Holders(m) \ {t} /\ t \in Holders(m)
  BY <1>3 DEF Holders, Holding, Others
<1>8. Cardinality(Holders(m)') = Cardinality(Holders(m)) - 1
  BY <1>7, HoldersFinite, FS_RemoveElement
<1>9. freeListRefs[m].count = Cardinality(Holders(m)) + 1
  BY <1>1, <1>4 DEF Books, CountInv
<1>10. /\ freeListRefs[m].count - 2 \in Nat
       /\ freeListRefs[m].count - 2 = Cardinality(Holders(m)')
  BY <1>8, <1>9, HoldersFinite
<1>11. /\ freeListRefs' \in [Nodes -> RefType]
       /\ freeListRefs'[m].count = Cardinality(Holders(m)')
       /\ freeListRefs'[m].should = freeListRefs[m].should
       /\ \A n \in Nodes \ {m} : freeListRefs'[n] = freeListRefs[n]
  BY <1>1, <1>10 DEF SharedType, RefType
<1>12. CountInv(on)'
  <2> SUFFICES ASSUME NEW n \in Nodes
               PROVE  freeListRefs'[n].count = Cardinality(Holders(n)') + (IF Listed(on, n)' THEN 1 ELSE 0)
    BY DEF CountInv
  <2>1. CASE n = m
    BY <2>1, <1>5, <1>11, HoldersFinite
  <2>2. CASE n # m
    BY <2>2, <1>6, <1>11 DEF Books, CountInv
  <2> QED BY <2>1, <2>2
<1>13. LocalsInv'
  BY <1>3 DEF Books, LocalsInv, Others
<1>14. AdderInv'
  <2>1. \A s \in Threads :
          pc'[s] \in AddSteps =>
            s # t /\ pc'[s] = pc[s] /\ node'[s] = node[s] /\ node[s] \in Nodes \ {m}
    BY <1>2, <1>3 DEF Untouched, HasAdder, Others, AddSteps, LocalType
  <2>2. \A s \in Threads :
          pc'[s] \in AddSteps =>
            pc'[s] = pc[s] /\ freeListRefs'[node'[s]] = freeListRefs[node[s]]
    BY <2>1, <1>11
  <2>3. AdderInv
    BY DEF Books
  <2> QED BY <2>2, <2>3 DEF AdderInv, EarlySteps, LateSteps, AddSteps
<1>15. PlacesInv(on)'
  <2>1. /\ \A s \in Threads : pc'[s] \in AddSteps <=> pc[s] \in AddSteps
        /\ \A s \in Threads : pc[s] \in AddSteps => node'[s] = node[s]
        /\ \A s \in Threads : pc'[s] = "release" => node'[s] \in owned[s]
    BY <1>3 DEF AddSteps, Others, Books, PlacesInv, TakerOwns
  <2>2. \A n \in Nodes : freeListRefs'[n].should = freeListRefs[n].should
    BY <1>11
  <2>3. \A n \in Nodes : freeListRefs[n].should = TRUE /\ ~HasAdder(n) => freeListRefs'[n].count > 0
    BY <1>2, <1>11 DEF Untouched, Books, PlacesInv, WaitsForHolder
  <2>4. PlacesInv(on) /\ owned' = owned
    BY DEF Books
  <2> QED BY <2>1, <2>2, <2>3, <2>4, PlacesKept
<1>16. SharedType'
  BY <1>11 DEF SharedType
<1> QED BY <1>3, <1>12, <1>13, <1>14, <1>15, <1>16 DEF Books

\* fetch_sub(1): a thread gives its reference back and goes on outside, or
\* becomes the adder.
LEMMA UnrefCounts ==
  ASSUME NEW on \in SUBSET Nodes, Books(on), SharedType, LocalType,
         NEW t \in Threads, Unref(t), NEW m \in Nodes, m = node[t],
         Others(t), pc'[t] \in {"idle", "ref_load", "add_load"}
  PROVE  /\ CountInv(on)' /\ SharedType'
         /\ freeListRefs[m].count > 0
         /\ freeListRefs'[m].count = freeListRefs[m].count - 1
         /\ freeListRefs'[m].should = freeListRefs[m].should
         /\ \A n \in Nodes \ {m} : freeListRefs'[n] = freeListRefs[n]
<1> USE DEF Unref, At
<1>1. freeListRefs[m] \in RefType
  BY DEF SharedType
<1>2. \A n : Listed(on, n)' <=> Listed(on, n)
  BY DEF Listed, LateSteps, Others
<1>3. \A n \in Nodes \ {m} : Holders(n)' = Holders(n)
  BY DEF Holders, Holding, Others
<1>4. Holders(m)' = Holders(m) \ {t} /\ t \in Holders(m)
  BY DEF Holders, Holding, Others
<1>5. Cardinality(Holders(m)') = Cardinality(Holders(m)) - 1
  <2>1. IsFiniteSet(Holders(m))
    BY HoldersFinite
  <2>2. Cardinality(Holders(m) \ {t}) = Cardinality(Holders(m)) - 1
    BY <1>4, <2>1, FS_RemoveElement
  <2> QED BY <1>4, <2>2
<1>6. freeListRefs[m].count = Cardinality(Holders(m)) + (IF Listed(on, m) THEN 1 ELSE 0)
  BY DEF Books, CountInv
<1>7. freeListRefs[m].count > 0 /\ freeListRefs[m].count - 1 \in Nat
  BY <1>5, <1>6, HoldersFinite
<1>8. /\ freeListRefs' \in [Nodes -> RefType]
      /\ freeListRefs'[m].count = freeListRefs[m].count - 1
      /\ freeListRefs'[m].should = freeListRefs[m].should
      /\ \A n \in Nodes \ {m} : freeListRefs'[n] = freeListRefs[n]
  BY <1>1, <1>7 DEF SharedType, RefType
<1>9. CountInv(on)'
  <2> SUFFICES ASSUME NEW n \in Nodes
               PROVE  freeListRefs'[n].count = Cardinality(Holders(n)') + (IF Listed(on, n)' THEN 1 ELSE 0)
    BY DEF CountInv
  <2>1. CASE n = m
    BY <2>1, <1>2, <1>5, <1>6, <1>8, HoldersFinite
  <2>2. CASE n # m
    BY <2>2, <1>2, <1>3, <1>8 DEF Books, CountInv
  <2> QED BY <2>1, <2>2
<1> QED BY <1>7, <1>8, <1>9 DEF SharedType

\* Whoever drops the last reference of a marked node is its only adder
\* (concurrentqueue.h:1525-1528).
LEMMA UnrefLastKeeps ==
  ASSUME NEW on \in SUBSET Nodes, Books(on), SharedType, LocalType,
         NEW t \in Threads, Unref(t), NEW m \in Nodes, m = node[t],
         freeListRefs[m] = Ref(1, TRUE)
  PROVE  Books(on)' /\ LocalType' /\ SharedType'
<1> USE DEF Unref, At
<1>1. LocalType' /\ Others(t) /\ pc'[t] = "add_load" /\ node' = node
  BY DEF GoTo, LocalType, Steps, Others
<1>2. /\ CountInv(on)' /\ SharedType'
      /\ freeListRefs'[m].count = freeListRefs[m].count - 1
      /\ freeListRefs'[m].should = freeListRefs[m].should
      /\ \A n \in Nodes \ {m} : freeListRefs'[n] = freeListRefs[n]
  BY <1>1, UnrefCounts
<1>3. freeListRefs[m].count = 1 /\ freeListRefs[m].should = TRUE
  BY DEF Ref
<1>4. freeListRefs'[m] = Ref(0, TRUE)
  <2>1. freeListRefs'[m] \in RefType
    BY <1>2 DEF SharedType
  <2>2. freeListRefs'[m].count = 0
    BY <1>2, <1>3 DEF Ref
  <2>3. freeListRefs'[m].should = TRUE
    BY <1>2, <1>3, Zenon
  <2> QED BY <2>1, <2>2, <2>3 DEF RefType, Ref
<1>5. ~HasAdder(m)
  <2> SUFFICES ASSUME NEW s \in Threads, pc[s] \in AddSteps, node[s] = m
               PROVE  FALSE
    BY DEF HasAdder
  <2>1. freeListRefs[m] = Ref(0, TRUE) \/ freeListRefs[m].should = FALSE
    BY DEF Books, AdderInv, AddSteps, EarlySteps, LateSteps
  <2> QED BY <2>1, <1>3 DEF Ref
<1>6. m \notin on /\ \A s \in Threads : m \notin owned[s]
  BY <1>3 DEF Books, PlacesInv, OwnedOff, OnListClean, Untouched
<1>7. HasAdder(m)' /\ \A n : n # m => (HasAdder(n)' <=> HasAdder(n))
  BY <1>1 DEF HasAdder, AddSteps, Others
<1>8. \A n \in Nodes \ {m} : Untouched(n)' <=> Untouched(n)
  BY <1>2, <1>7 DEF Untouched
<1>9. LocalsInv'
  BY <1>1 DEF Books, LocalsInv, Others
<1>10. AdderInv'
  <2>1. \A s \in Threads \ {t} :
          pc'[s] \in AddSteps =>
            pc'[s] = pc[s] /\ freeListRefs'[node'[s]] = freeListRefs[node[s]]
    <3> SUFFICES ASSUME NEW s \in Threads \ {t}, pc'[s] \in AddSteps
                 PROVE  node[s] \in Nodes \ {m}
      BY <1>1, <1>2 DEF Others
    <3> QED BY <1>1, <1>5 DEF Others, HasAdder, LocalType, AddSteps
  <2>2. AdderInv
    BY DEF Books
  <2> QED BY <2>1, <2>2, <1>1, <1>4 DEF AdderInv, EarlySteps, LateSteps, AddSteps
<1>11. PlacesInv(on)'
  <2>1. OneCaller' /\ TakerOwns'
    BY <1>1 DEF Books, PlacesInv, OneCaller, TakerOwns, Others
  <2>2. OneAdder'
    BY <1>1, <1>5 DEF Books, PlacesInv, OneAdder, HasAdder, AddSteps, Others
  <2>3. OwnedOff(on)' /\ OnListClean(on)'
    BY <1>6, <1>8 DEF Books, PlacesInv, OwnedOff, OnListClean, SharedType
  <2>4. SomePlace(on)' /\ WaitsForHolder'
    BY <1>2, <1>7 DEF Books, PlacesInv, SomePlace, WaitsForHolder
  <2> QED BY <2>1, <2>2, <2>3, <2>4 DEF PlacesInv
<1> QED BY <1>1, <1>2, <1>9, <1>10, <1>11 DEF Books

\* Otherwise try_get() goes on with its head; if the node is marked, another
\* thread holds it still.
LEMMA UnrefKeeps ==
  ASSUME NEW on \in SUBSET Nodes, Books(on), SharedType, LocalType,
         NEW t \in Threads, Unref(t), NEW m \in Nodes, m = node[t],
         freeListRefs[m] # Ref(1, TRUE)
  PROVE  Books(on)' /\ LocalType' /\ SharedType'
<1> USE DEF Unref, At
<1>1. /\ LocalType' /\ Others(t) /\ pc'[t] \in {"idle", "ref_load"}
      /\ pc'[t] = "ref_load" => head'[t] = node'[t]
  BY LoopWithLocals DEF LocalType
<1>2. /\ CountInv(on)' /\ SharedType'
      /\ freeListRefs[m].count > 0
      /\ freeListRefs'[m].count = freeListRefs[m].count - 1
      /\ freeListRefs'[m].should = freeListRefs[m].should
      /\ \A n \in Nodes \ {m} : freeListRefs'[n] = freeListRefs[n]
  BY <1>1, UnrefCounts
<1>3. freeListRefs[m].should = TRUE => freeListRefs[m].count # 1
  <2>1. freeListRefs[m] \in RefType
    BY DEF SharedType
  <2> QED BY <2>1 DEF RefType, Ref
<1>4. LocalsInv'
  BY <1>1 DEF Books, LocalsInv, Others
<1>5. \A s \in Threads : pc[s] \in EarlySteps => node[s] # m
  BY <1>2 DEF Books, AdderInv, Ref
<1>6. AdderInv'
  <2> SUFFICES ASSUME NEW s \in Threads, pc'[s] \in AddSteps
               PROVE  /\ pc'[s] \in EarlySteps => freeListRefs'[node'[s]] = Ref(0, TRUE)
                      /\ pc'[s] \in LateSteps => freeListRefs'[node'[s]].should = FALSE
    BY DEF AdderInv, EarlySteps, LateSteps, AddSteps
  <2>1. s # t /\ pc'[s] = pc[s] /\ node'[s] = node[s] /\ node[s] \in Nodes
    BY <1>1 DEF Others, AddSteps, LocalType
  <2>2. freeListRefs'[node[s]].should = freeListRefs[node[s]].should
    BY <1>2, <2>1
  <2>3. pc[s] \in EarlySteps => freeListRefs'[node[s]] = freeListRefs[node[s]]
    BY <1>2, <1>5, <2>1
  <2> QED BY <2>1, <2>2, <2>3 DEF Books, AdderInv
<1>7. PlacesInv(on)'
  <2>1. /\ \A s \in Threads : pc'[s] \in AddSteps <=> pc[s] \in AddSteps
        /\ \A s \in Threads : pc[s] \in AddSteps => node'[s] = node[s]
        /\ \A s \in Threads : pc'[s] = "release" => node'[s] \in owned[s]
    BY <1>1 DEF AddSteps, Others, Books, PlacesInv, TakerOwns
  <2>2. \A n \in Nodes : freeListRefs'[n].should = freeListRefs[n].should
    BY <1>2
  <2>3. \A n \in Nodes : freeListRefs[n].should = TRUE /\ ~HasAdder(n) => freeListRefs'[n].count > 0
    <3>1. freeListRefs[m].count \in Nat
      BY DEF SharedType, RefType
    <3> QED BY <3>1, <1>2, <1>3 DEF Books, PlacesInv, WaitsForHolder
  <2>4. PlacesInv(on) /\ owned' = owned
    BY DEF Books
  <2> QED BY <2>1, <2>2, <2>3, <2>4, PlacesKept
<1> QED BY <1>1, <1>2, <1>4, <1>6, <1>7 DEF Books

-----------------------------------------------------------------------------
(* add(), access by access (concurrentqueue.h:1481-1493, :1538-1560) *)

\* The caller gives the node up: whoever finds its count at zero adds it,
\* otherwise a holder is left who will.
LEMMA MarkKeeps ==
  ASSUME NEW on \in SUBSET Nodes, Books(on), SharedType, LocalType,
         NEW t \in Threads, NEW m \in Nodes, Mark(t, m)
  PROVE  Books(on)' /\ LocalType' /\ SharedType'
<1> USE DEF Mark, At
<1>1. freeListRefs[m] \in RefType
  BY DEF SharedType
<1>2. /\ freeListRefs' \in [Nodes -> RefType]
      /\ freeListRefs'[m].count = freeListRefs[m].count
      /\ freeListRefs'[m].should = TRUE
      /\ \A n \in Nodes \ {m} : freeListRefs'[n] = freeListRefs[n]
  <2>1. [freeListRefs[m] EXCEPT !.should = TRUE] \in RefType
    BY <1>1, Zenon DEF RefType
  <2>2. freeListRefs' = [freeListRefs EXCEPT ![m] = [freeListRefs[m] EXCEPT !.should = TRUE]]
    BY Zenon DEF SharedType
  <2> QED BY <1>1, <2>1, <2>2 DEF SharedType, RefType
<1>3. LocalType' /\ Others(t) /\ pc'[t] \in {"idle", "add_load"}
      /\ (pc'[t] = "add_load" <=> freeListRefs[m].count = 0)
      /\ (pc'[t] = "add_load" => node'[t] = m)
  BY DEF GoTo, LocalType, Steps, Others
<1>4. m \notin on /\ Untouched(m) /\ \A s \in Threads \ {t} : m \notin owned[s]
  BY DEF Books, PlacesInv, OwnedOff, OneCaller
<1>5. /\ owned' \in [Threads -> SUBSET Nodes] /\ owned'[t] = owned[t] \ {m}
      /\ \A s \in Threads \ {t} : owned'[s] = owned[s]
  BY DEF SharedType
<1>6. \A n : Holders(n)' = Holders(n) /\ (Listed(on, n)' <=> Listed(on, n))
  BY <1>3 DEF Holders, Holding, Listed, LateSteps, Others
<1>7. /\ \A n : n # m => (HasAdder(n)' <=> HasAdder(n))
      /\ freeListRefs[m].count = 0 => HasAdder(m)'
  BY <1>3 DEF HasAdder, AddSteps, Others
<1>8. \A n \in Nodes \ {m} : Untouched(n)' <=> Untouched(n)
  BY <1>2, <1>7 DEF Untouched
<1>9. CountInv(on)'
  BY <1>2, <1>6 DEF Books, CountInv
<1>10. LocalsInv'
  BY <1>3 DEF Books, LocalsInv, Others
<1>11. AdderInv'
  <2>1. \A s \in Threads \ {t} :
          pc'[s] \in AddSteps =>
            pc'[s] = pc[s] /\ freeListRefs'[node'[s]] = freeListRefs[node[s]]
    <3> SUFFICES ASSUME NEW s \in Threads \ {t}, pc'[s] \in AddSteps
                 PROVE  node[s] \in Nodes \ {m}
      BY <1>2, <1>3 DEF Others
    <3> QED BY <1>3, <1>4 DEF Untouched, HasAdder, Others, LocalType, AddSteps
  <2>2. pc'[t] = "add_load" => freeListRefs'[node'[t]] = Ref(0, TRUE)
    BY <1>1, <1>2, <1>3 DEF RefType, Ref
  <2>3. AdderInv
    BY DEF Books
  <2> QED BY <2>1, <2>2, <2>3, <1>3 DEF AdderInv, EarlySteps, LateSteps, AddSteps
<1>12. PlacesInv(on)'
  <2>1. OneCaller' /\ TakerOwns'
    BY <1>3, <1>5 DEF Books, PlacesInv, OneCaller, TakerOwns, Others
  <2>2. OneAdder'
    BY <1>3, <1>4 DEF Books, PlacesInv, OneAdder, Untouched, HasAdder, AddSteps, Others
  <2>3. OwnedOff(on)' /\ OnListClean(on)'
    BY <1>4, <1>5, <1>8 DEF Books, PlacesInv, OwnedOff, OnListClean, SharedType
  <2>4. SomePlace(on)'
    BY <1>2, <1>5, <1>7 DEF Books, PlacesInv, SomePlace
  <2>5. WaitsForHolder'
    BY <1>1, <1>2, <1>7 DEF Books, PlacesInv, WaitsForHolder, RefType
  <2> QED BY <2>1, <2>2, <2>3, <2>4, <2>5 DEF PlacesInv
<1> QED BY <1>2, <1>3, <1>5, <1>9, <1>10, <1>11, <1>12 DEF Books, SharedType

\* Up to the store of the count an adder is the only one who knows the node.
LEMMA LoadAddHeadKeeps ==
  ASSUME NEW on \in SUBSET Nodes, Books(on), SharedType, LocalType,
         NEW t \in Threads, LoadAddHead(t)
  PROVE  Books(on)' /\ LocalType'
<1> USE DEF LoadAddHead, At, GoTo
<1>1. pc' \in [Threads -> Steps]
  BY DEF LocalType, Steps
<1>2. LocalType'
  BY <1>1 DEF LocalType, SharedType
<1>3. Others(t) /\ pc'[t] = "next_store" /\ node' = node
  BY DEF Others, LocalType
<1>4. \A n : Holders(n)' = Holders(n) /\ (Listed(on, n)' <=> Listed(on, n))
  BY <1>3 DEF Holders, Holding, Listed, LateSteps, Others
<1>5. LocalsInv'
  BY <1>3 DEF Books, LocalsInv, Others
<1>6. CountInv(on)'
  BY <1>4 DEF Books, CountInv
<1>7. AdderInv'
  BY <1>3 DEF Books, AdderInv, EarlySteps, LateSteps, Others
<1>8. PlacesInv(on)'
  <2>1. /\ \A s \in Threads : pc'[s] \in AddSteps <=> pc[s] \in AddSteps
        /\ \A s \in Threads : pc'[s] = "release" => node'[s] \in owned[s]
    BY <1>3 DEF AddSteps, Others, Books, PlacesInv, TakerOwns
  <2>2. \A n \in Nodes : freeListRefs[n].should = TRUE /\ ~HasAdder(n) => freeListRefs'[n].count > 0
    BY DEF Books, PlacesInv, WaitsForHolder
  <2> QED BY <1>3, <2>1, <2>2, PlacesKept DEF Books
<1> QED BY <1>2, <1>5, <1>6, <1>7, <1>8 DEF Books

\* A node whose count is zero is held by nobody.
LEMMA AdderAlone ==
  ASSUME NEW on \in SUBSET Nodes, Books(on), LocalType,
         NEW t \in Threads, pc[t] \in EarlySteps
  PROVE  /\ freeListRefs[node[t]] = Ref(0, TRUE) /\ node[t] \in Nodes
         /\ Holders(node[t]) = {} /\ ~Listed(on, node[t])
<1>1. freeListRefs[node[t]] = Ref(0, TRUE) /\ node[t] \in Nodes
  BY DEF Books, AdderInv, EarlySteps, LocalType
<1>2. freeListRefs[node[t]].count = 0
  BY <1>1 DEF Ref
<1>3. Cardinality(Holders(node[t])) + (IF Listed(on, node[t]) THEN 1 ELSE 0) = 0
  BY <1>1, <1>2 DEF Books, CountInv
<1>4. Cardinality(Holders(node[t])) = 0 /\ ~Listed(on, node[t])
  BY <1>3, HoldersFinite
<1>5. Holders(node[t]) = {}
  BY <1>4, HoldersFinite, FS_EmptySet
<1> QED BY <1>1, <1>4, <1>5

\* So its store changes the next pointer of no node that anybody else works on.
LEMMA StoreNextKeeps ==
  ASSUME NEW on \in SUBSET Nodes, Books(on), SharedType, LocalType,
         NEW t \in Threads, StoreNext(t)
  PROVE  /\ Books(on)' /\ LocalType' /\ SharedType'
         /\ \A n \in on : freeListNext'[n] = freeListNext[n]
<1> USE DEF StoreNext, At, GoTo
<1>1. pc' \in [Threads -> Steps]
  BY DEF LocalType, Steps
<1>2. LocalType'
  BY <1>1 DEF LocalType, SharedType
<1>3. Others(t) /\ pc'[t] = "ref_store" /\ node' = node /\ next' = next
  BY DEF Others, LocalType
<1>4. node[t] \in Nodes /\ Holders(node[t]) = {} /\ ~Listed(on, node[t])
  BY AdderAlone DEF EarlySteps
<1>5. /\ freeListNext' \in [Nodes -> Nodes \cup {NoNode}]
      /\ freeListNext'[node[t]] = next[t]
      /\ \A n \in Nodes \ {node[t]} : freeListNext'[n] = freeListNext[n]
  BY <1>4 DEF SharedType, LocalType
<1>6. \A n : Holders(n)' = Holders(n) /\ (Listed(on, n)' <=> Listed(on, n))
  BY <1>3 DEF Holders, Holding, Listed, LateSteps, Others
<1>7. \A n \in on : freeListNext'[n] = freeListNext[n]
  BY <1>4, <1>5 DEF Listed
<1>8. LocalsInv'
  <2>1. \A s \in Threads \ {t} :
          pc[s] \in {"take_cas", "ref_store", "add_cas"} => node[s] \in Nodes \ {node[t]}
    BY <1>4 DEF Holders, Holding, Books, PlacesInv, OneAdder, AddSteps, LocalType
  <2>2. \A s \in Threads \ {t} :
          pc[s] \in {"take_cas", "ref_store", "add_cas"} =>
            freeListNext'[node[s]] = freeListNext[node[s]]
    BY <2>1, <1>5
  <2> QED BY <1>3, <1>5, <2>2 DEF Books, LocalsInv, Others
<1>9. CountInv(on)'
  BY <1>6 DEF Books, CountInv
<1>10. AdderInv'
  BY <1>3 DEF Books, AdderInv, EarlySteps, LateSteps, Others
<1>11. PlacesInv(on)'
  <2>1. /\ \A s \in Threads : pc'[s] \in AddSteps <=> pc[s] \in AddSteps
        /\ \A s \in Threads : pc'[s] = "release" => node'[s] \in owned[s]
    BY <1>3 DEF AddSteps, Others, Books, PlacesInv, TakerOwns
  <2>2. \A n \in Nodes : freeListRefs[n].should = TRUE /\ ~HasAdder(n) => freeListRefs'[n].count > 0
    BY DEF Books, PlacesInv, WaitsForHolder
  <2> QED BY <1>3, <2>1, <2>2, PlacesKept DEF Books
<1> QED BY <1>2, <1>5, <1>7, <1>8, <1>9, <1>10, <1>11 DEF Books, SharedType

\* The count of the adder's node becomes the reference of the list.
LEMMA StoreRefsKeeps ==
  ASSUME NEW on \in SUBSET Nodes, Books(on), SharedType, LocalType,
         NEW t \in Threads, StoreRefs(t), NEW m \in Nodes, m = node[t]
  PROVE  Books(on)' /\ LocalType' /\ SharedType'
<1> USE DEF StoreRefs, At, GoTo, Ref
<1>1. pc' \in [Threads -> Steps]
  BY DEF LocalType, Steps
<1>2. LocalType'
  BY <1>1 DEF LocalType
<1>3. Others(t) /\ pc'[t] = "add_cas" /\ node' = node /\ next' = next
  BY DEF Others, LocalType
<1>4. Holders(m) = {} /\ ~Listed(on, m)
  BY AdderAlone DEF EarlySteps
<1>5. /\ freeListRefs' \in [Nodes -> RefType]
      /\ freeListRefs'[m].count = 1 /\ freeListRefs'[m].should = FALSE
      /\ \A n \in Nodes \ {m} : freeListRefs'[n] = freeListRefs[n]
  BY DEF SharedType, RefType, Ref
<1>6. \A n : Holders(n)' = Holders(n) /\ (HasAdder(n)' <=> HasAdder(n))
  BY <1>3 DEF Holders, Holding, HasAdder, AddSteps, Others
<1>7. HasAdder(m)
  BY DEF HasAdder, AddSteps
<1>8. \A n \in Nodes : Untouched(n)' <=> Untouched(n)
  BY <1>5, <1>6, <1>7 DEF Untouched
<1>9. Listed(on, m)' /\ \A n \in Nodes \ {m} : Listed(on, n)' <=> Listed(on, n)
  BY <1>3 DEF Listed, LateSteps, Others
<1>10. CountInv(on)'
  <2> SUFFICES ASSUME NEW n \in Nodes
               PROVE  freeListRefs'[n].count = Cardinality(Holders(n)') + (IF Listed(on, n)' THEN 1 ELSE 0)
    BY DEF CountInv
  <2>1. CASE n = m
    <3>1. Cardinality(Holders(n)') = 0
      <4>1. Holders(n)' = {}
        BY <2>1, <1>4, <1>6
      <4> QED BY <4>1, FS_EmptySet, Zenon
    <3> QED BY <2>1, <3>1, <1>5, <1>9
  <2>2. CASE n # m
    BY <2>2, <1>5, <1>6, <1>9 DEF Books, CountInv
  <2> QED BY <2>1, <2>2
<1>11. LocalsInv'
  BY <1>3 DEF Books, LocalsInv, Others
<1>12. AdderInv'
  <2>1. \A s \in Threads \ {t} :
          pc'[s] \in AddSteps =>
            pc'[s] = pc[s] /\ freeListRefs'[node'[s]] = freeListRefs[node[s]]
    <3> SUFFICES ASSUME NEW s \in Threads \ {t}, pc'[s] \in AddSteps
                 PROVE  node[s] \in Nodes \ {m}
      BY <1>3, <1>5 DEF Others
    <3> QED BY <1>3 DEF Books, PlacesInv, OneAdder, Others, LocalType, AddSteps
  <2>2. AdderInv
    BY DEF Books
  <2>3. pc'[t] \notin EarlySteps /\ freeListRefs'[node'[t]].should = FALSE
    BY <1>3, <1>5 DEF EarlySteps
  <2> QED BY <2>1, <2>2, <2>3 DEF AdderInv, EarlySteps, LateSteps, AddSteps
<1>13. PlacesInv(on)'
  <2>1. OneCaller' /\ TakerOwns' /\ OneAdder'
    BY <1>3 DEF Books, PlacesInv, OneCaller, TakerOwns, OneAdder, AddSteps, Others
  <2>2. OwnedOff(on)' /\ OnListClean(on)'
    BY <1>8 DEF Books, PlacesInv, OwnedOff, OnListClean, SharedType
  <2>3. SomePlace(on)' /\ WaitsForHolder'
    BY <1>5, <1>6, <1>7 DEF Books, PlacesInv, SomePlace, WaitsForHolder
  <2> QED BY <2>1, <2>2, <2>3 DEF PlacesInv
<1> QED BY <1>2, <1>5, <1>10, <1>11, <1>12, <1>13 DEF Books, SharedType

\* When add() ends the thread is outside again.
LEMMA AddReturnsLocals ==
  ASSUME LocalType, NEW t \in Threads, AddReturns(t)
  PROVE  /\ LocalType' /\ Others(t)
         /\ pc'[t] \in {"idle", "ref_load"}
         /\ pc'[t] = "ref_load" => head'[t] = node'[t]
<1>1. head[t] \in Nodes \cup {NoNode}
  BY DEF LocalType
<1>2. LoopWith(t, head[t]) \/ LoopWith(t, NoNode)
  BY DEF AddReturns, LoopWith
<1> QED BY <1>1, <1>2, LoopWithLocals

\* The only adder of a node.
LEMMA AdderOnly ==
  ASSUME NEW on \in SUBSET Nodes, Books(on), LocalType,
         NEW t \in Threads, pc[t] \in LateSteps, NEW m \in Nodes, m = node[t]
  PROVE  /\ HasAdder(m) /\ Listed(on, m) /\ m \notin on
         /\ freeListRefs[m].should = FALSE
         /\ \A s \in Threads : m \notin owned[s]
         /\ \A s \in Threads \ {t} : pc[s] \in AddSteps => node[s] \in Nodes \ {m}
         /\ \A s \in Threads : pc[s] = "release" => node[s] # m
<1>1. HasAdder(m) /\ Listed(on, m)
  BY DEF HasAdder, Listed, LateSteps, AddSteps
<1>2. m \notin on /\ \A s \in Threads : m \notin owned[s]
  BY <1>1 DEF Books, PlacesInv, OnListClean, OwnedOff, Untouched
<1>3. freeListRefs[m].should = FALSE
  BY DEF Books, AdderInv
<1>4. \A s \in Threads \ {t} : pc[s] \in AddSteps => node[s] \in Nodes \ {m}
  BY DEF Books, PlacesInv, OneAdder, AddSteps, LateSteps, LocalType
<1>5. \A s \in Threads : pc[s] = "release" => node[s] # m
  BY <1>2 DEF Books, PlacesInv, TakerOwns
<1> QED BY <1>1, <1>2, <1>3, <1>4, <1>5

\* A lost compare-exchange of add(): the new head is kept for another try.
LEMMA CasAddLostKeeps ==
  ASSUME NEW on \in SUBSET Nodes, Books(on), SharedType, LocalType,
         NEW t \in Threads, CasAdd(t), freeListHead # next[t]
  PROVE  Books(on)' /\ LocalType' /\ UNCHANGED <<freeListHead, freeListNext, freeListRefs, owned>>
<1> USE DEF CasAdd, At, GoTo
<1>1. pc' \in [Threads -> Steps]
  BY DEF LocalType, Steps
<1>2. LocalType'
  BY <1>1 DEF LocalType, SharedType
<1>3. Others(t) /\ pc'[t] = "add_undo" /\ node' = node
  BY DEF Others, LocalType
<1>4. \A n : Holders(n)' = Holders(n) /\ (Listed(on, n)' <=> Listed(on, n))
  BY <1>3 DEF Holders, Holding, Listed, LateSteps, Others
<1>5. LocalsInv'
  BY <1>3 DEF Books, LocalsInv, Others
<1>6. CountInv(on)'
  BY <1>4 DEF Books, CountInv
<1>7. AdderInv'
  BY <1>3 DEF Books, AdderInv, EarlySteps, LateSteps, Others
<1>8. PlacesInv(on)'
  <2>1. /\ \A s \in Threads : pc'[s] \in AddSteps <=> pc[s] \in AddSteps
        /\ \A s \in Threads : pc'[s] = "release" => node'[s] \in owned[s]
    BY <1>3 DEF AddSteps, Others, Books, PlacesInv, TakerOwns
  <2>2. \A n \in Nodes : freeListRefs[n].should = TRUE /\ ~HasAdder(n) => freeListRefs'[n].count > 0
    BY DEF Books, PlacesInv, WaitsForHolder
  <2> QED BY <1>3, <2>1, <2>2, PlacesKept DEF Books
<1> QED BY <1>2, <1>5, <1>6, <1>7, <1>8 DEF Books

\* A won one: the node is on the list.
LEMMA CasAddWonKeeps ==
  ASSUME NEW on \in SUBSET Nodes, Books(on), SharedType, LocalType,
         NEW t \in Threads, CasAdd(t), freeListHead = next[t], NEW m \in Nodes, m = node[t]
  PROVE  Books(on \cup {m})' /\ LocalType'
<1> USE DEF CasAdd, At
<1>1. /\ LocalType' /\ Others(t) /\ pc'[t] \in {"idle", "ref_load"}
      /\ pc'[t] = "ref_load" => head'[t] = node'[t]
  BY AddReturnsLocals
<1>2. /\ HasAdder(m) /\ Listed(on, m) /\ m \notin on
      /\ freeListRefs[m].should = FALSE
      /\ \A s \in Threads : m \notin owned[s]
      /\ \A s \in Threads \ {t} : pc[s] \in AddSteps => node[s] \in Nodes \ {m}
  BY AdderOnly DEF LateSteps
<1>3. \A n : Holders(n)' = Holders(n)
  BY <1>1 DEF Holders, Holding, Others
<1>4. \A n : Listed(on \cup {m}, n)' <=> Listed(on, n)
  BY <1>1, <1>2 DEF Listed, LateSteps, Others
<1>5. ~HasAdder(m)' /\ \A n : n # m => (HasAdder(n)' <=> HasAdder(n))
  BY <1>1, <1>2 DEF HasAdder, AddSteps, Others
<1>6. Untouched(m)' /\ \A n \in Nodes \ {m} : Untouched(n)' <=> Untouched(n)
  BY <1>2, <1>5 DEF Untouched
<1>7. LocalsInv'
  BY <1>1 DEF Books, LocalsInv, Others
<1>8. CountInv(on \cup {m})'
  BY <1>3, <1>4 DEF Books, CountInv
<1>9. AdderInv'
  BY <1>1 DEF Books, AdderInv, EarlySteps, LateSteps, Others
<1>10. PlacesInv(on \cup {m})'
  <2>1. OneCaller' /\ TakerOwns' /\ OneAdder'
    BY <1>1 DEF Books, PlacesInv, OneCaller, TakerOwns, OneAdder, AddSteps, Others
  <2>2. OwnedOff(on \cup {m})' /\ OnListClean(on \cup {m})'
    BY <1>2, <1>6 DEF Books, PlacesInv, OwnedOff, OnListClean, SharedType
  <2>3. SomePlace(on \cup {m})' /\ WaitsForHolder'
    BY <1>2, <1>5 DEF Books, PlacesInv, SomePlace, WaitsForHolder
  <2> QED BY <2>1, <2>2, <2>3 DEF PlacesInv
<1> QED BY <1>1, <1>7, <1>8, <1>9, <1>10 DEF Books

\* fetch_add(SHOULD_BE_ON_FREELIST - 1): the reference of the list goes, the
\* mark comes back, and the thread stays the adder only if nobody holds the node.
LEMMA UndoAddCounts ==
  ASSUME NEW on \in SUBSET Nodes, Books(on), SharedType, LocalType,
         NEW t \in Threads, UndoAdd(t), NEW m \in Nodes, m = node[t],
         Others(t), pc'[t] \in {"idle", "ref_load", "next_store"}
  PROVE  /\ CountInv(on)' /\ SharedType'
         /\ freeListRefs[m].count > 0
         /\ freeListRefs'[m].count = freeListRefs[m].count - 1
         /\ freeListRefs'[m].should = TRUE
         /\ \A n \in Nodes \ {m} : freeListRefs'[n] = freeListRefs[n]
<1>1. freeListRefs[m] \in RefType
  BY DEF SharedType
<1>2. /\ Listed(on, m) /\ m \notin on
      /\ \A s \in Threads \ {t} : pc[s] \in AddSteps => node[s] \in Nodes \ {m}
      /\ \A s \in Threads : pc[s] = "release" => node[s] # m
  <2>1. pc[t] \in LateSteps
    BY DEF UndoAdd, At, LateSteps
  <2> QED BY <2>1, AdderOnly
<1> USE DEF UndoAdd, At, Ref
<1>3. ~Listed(on, m)'
  BY <1>2 DEF Listed, LateSteps, AddSteps, Others
<1>4. \A n \in Nodes \ {m} : Listed(on, n)' <=> Listed(on, n)
  BY DEF Listed, LateSteps, Others
<1>5. \A n : Holders(n)' = Holders(n)
  BY DEF Holders, Holding, Others
<1>6. freeListRefs[m].count = Cardinality(Holders(m)) + 1
  BY <1>2 DEF Books, CountInv
<1>7. freeListRefs[m].count > 0 /\ freeListRefs[m].count - 1 \in Nat
  BY <1>6, HoldersFinite
<1>8. /\ freeListRefs' \in [Nodes -> RefType]
      /\ freeListRefs'[m].count = freeListRefs[m].count - 1
      /\ freeListRefs'[m].should = TRUE
      /\ \A n \in Nodes \ {m} : freeListRefs'[n] = freeListRefs[n]
  BY <1>1, <1>7 DEF SharedType, RefType
<1>9. CountInv(on)'
  <2> SUFFICES ASSUME NEW n \in Nodes
               PROVE  freeListRefs'[n].count = Cardinality(Holders(n)') + (IF Listed(on, n)' THEN 1 ELSE 0)
    BY DEF CountInv
  <2>1. CASE n = m
    BY <2>1, <1>3, <1>5, <1>6, <1>8, HoldersFinite
  <2>2. CASE n # m
    BY <2>2, <1>4, <1>5, <1>8 DEF Books, CountInv
  <2> QED BY <2>1, <2>2
<1> QED BY <1>7, <1>8, <1>9 DEF SharedType

\* add() has failed to push its node and finds the count back at zero: it stays the
\* one who adds and tries again (:1553-1554).
LEMMA UndoAddAgainKeeps ==
  ASSUME NEW on \in SUBSET Nodes, Books(on), SharedType, LocalType,
         NEW t \in Threads, UndoAdd(t), NEW m \in Nodes, m = node[t],
         freeListRefs[m] = Ref(1, FALSE)
  PROVE  Books(on)' /\ LocalType' /\ SharedType'
<1> USE DEF UndoAdd, At, Ref
<1>1. pc' \in [Threads -> Steps]
  BY DEF GoTo, LocalType, Steps
<1>2. LocalType' /\ Others(t) /\ pc'[t] = "next_store" /\ node' = node
  BY <1>1 DEF GoTo, LocalType, Others
<1>3. /\ CountInv(on)' /\ SharedType'
      /\ freeListRefs'[m].count = freeListRefs[m].count - 1
      /\ freeListRefs'[m].should = TRUE
      /\ \A n \in Nodes \ {m} : freeListRefs'[n] = freeListRefs[n]
  BY <1>2, UndoAddCounts
<1>4. freeListRefs'[m] = Ref(0, TRUE)
  <2>1. freeListRefs'[m] \in RefType /\ freeListRefs'[m].count = 0 /\ freeListRefs'[m].should = TRUE
    BY <1>3 DEF SharedType
  <2> QED BY <2>1 DEF RefType
<1>5. /\ HasAdder(m) /\ m \notin on /\ \A s \in Threads : m \notin owned[s]
      /\ \A s \in Threads \ {t} : pc[s] \in AddSteps => node[s] \in Nodes \ {m}
  BY AdderOnly DEF LateSteps
<1>6. \A n : HasAdder(n)' <=> HasAdder(n)
  BY <1>2 DEF HasAdder, AddSteps, Others
<1>7. \A n \in Nodes : Untouched(n)' <=> Untouched(n)
  BY <1>3, <1>5, <1>6 DEF Untouched
<1>8. LocalsInv'
  BY <1>2 DEF Books, LocalsInv, Others
<1>9. AdderInv'
  <2>1. \A s \in Threads \ {t} :
          pc'[s] \in AddSteps =>
            pc'[s] = pc[s] /\ freeListRefs'[node'[s]] = freeListRefs[node[s]]
    BY <1>2, <1>3, <1>5 DEF Others
  <2>2. AdderInv
    BY DEF Books
  <2>3. pc'[t] \notin LateSteps /\ freeListRefs'[node'[t]] = Ref(0, TRUE)
    BY <1>2, <1>4 DEF LateSteps
  <2> QED BY <2>1, <2>2, <2>3 DEF AdderInv, EarlySteps, LateSteps, AddSteps
<1>10. PlacesInv(on)'
  <2>1. OneCaller' /\ TakerOwns' /\ OneAdder'
    BY <1>2 DEF Books, PlacesInv, OneCaller, TakerOwns, OneAdder, AddSteps, Others
  <2>2. OwnedOff(on)' /\ OnListClean(on)'
    BY <1>7 DEF Books, PlacesInv, OwnedOff, OnListClean, SharedType
  <2>3. SomePlace(on)' /\ WaitsForHolder'
    BY <1>3, <1>5, <1>6 DEF Books, PlacesInv, SomePlace, WaitsForHolder
  <2> QED BY <2>1, <2>2, <2>3 DEF PlacesInv
<1> QED BY <1>2, <1>3, <1>8, <1>9, <1>10 DEF Books

\* add() has failed to push its node while another thread refers to it: it leaves the
\* node to that thread (:1553-1556).
LEMMA UndoAddKeeps ==
  ASSUME NEW on \in SUBSET Nodes, Books(on), SharedType, LocalType,
         NEW t \in Threads, UndoAdd(t), NEW m \in Nodes, m = node[t],
         freeListRefs[m] # Ref(1, FALSE)
  PROVE  Books(on)' /\ LocalType' /\ SharedType'
<1> USE DEF UndoAdd, At, Ref
<1>1. /\ LocalType' /\ Others(t) /\ pc'[t] \in {"idle", "ref_load"}
      /\ pc'[t] = "ref_load" => head'[t] = node'[t]
  BY AddReturnsLocals
<1>2. /\ CountInv(on)' /\ SharedType'
      /\ freeListRefs[m].count > 0
      /\ freeListRefs'[m].count = freeListRefs[m].count - 1
      /\ freeListRefs'[m].should = TRUE
      /\ \A n \in Nodes \ {m} : freeListRefs'[n] = freeListRefs[n]
  BY <1>1, UndoAddCounts
<1>3. /\ HasAdder(m) /\ m \notin on /\ freeListRefs[m].should = FALSE
      /\ \A s \in Threads : m \notin owned[s]
      /\ \A s \in Threads \ {t} : pc[s] \in AddSteps => node[s] \in Nodes \ {m}
  BY AdderOnly DEF LateSteps
<1>4. freeListRefs'[m].count > 0
  <2>1. freeListRefs[m] \in RefType
    BY DEF SharedType
  <2>2. freeListRefs[m].count # 1
    BY <2>1, <1>3 DEF RefType
  <2> QED BY <2>1, <2>2, <1>2 DEF RefType
<1>5. ~HasAdder(m)' /\ \A n : n # m => (HasAdder(n)' <=> HasAdder(n))
  BY <1>1, <1>3 DEF HasAdder, AddSteps, Others
<1>6. \A n \in Nodes \ {m} : Untouched(n)' <=> Untouched(n)
  BY <1>2, <1>5 DEF Untouched
<1>7. LocalsInv'
  BY <1>1 DEF Books, LocalsInv, Others
<1>8. AdderInv'
  <2>1. \A s \in Threads :
          pc'[s] \in AddSteps =>
            pc'[s] = pc[s] /\ freeListRefs'[node'[s]] = freeListRefs[node[s]]
    BY <1>1, <1>2, <1>3 DEF Others, AddSteps
  <2>2. AdderInv
    BY DEF Books
  <2> QED BY <2>1, <2>2 DEF AdderInv, EarlySteps, LateSteps, AddSteps
<1>9. PlacesInv(on)'
  <2>1. OneCaller' /\ TakerOwns' /\ OneAdder'
    BY <1>1 DEF Books, PlacesInv, OneCaller, TakerOwns, OneAdder, AddSteps, Others
  <2>2. OwnedOff(on)' /\ OnListClean(on)'
    BY <1>3, <1>6 DEF Books, PlacesInv, OwnedOff, OnListClean, SharedType
  <2>3. SomePlace(on)'
    BY <1>2, <1>5 DEF Books, PlacesInv, SomePlace
  <2>4. WaitsForHolder'
    BY <1>2, <1>4, <1>5 DEF Books, PlacesInv, WaitsForHolder
  <2> QED BY <2>1, <2>2, <2>3, <2>4 DEF PlacesInv
<1> QED BY <1>1, <1>2, <1>7, <1>8, <1>9 DEF Books

-----------------------------------------------------------------------------
(* The list itself *)

\* A change of the link of a node that is off the list leaves the list as it is.
LEMMA ChainKept ==
  ASSUME NEW list \in Seq(Nodes), Chain(list), freeListHead' = freeListHead,
         \A n \in NodesOf(list) : freeListNext'[n] = freeListNext[n]
  PROVE  Chain(list)'
BY DEF Chain, NodesOf

\* The head is unlinked by making its successor the head.
LEMMA ChainPop ==
  ASSUME NEW list \in Seq(Nodes), Chain(list), NEW m \in Nodes, freeListHead = m,
         freeListHead' = freeListNext[m], freeListNext' = freeListNext
  PROVE  /\ m \in NodesOf(list) /\ Tail(list) \in Seq(Nodes)
         /\ Chain(Tail(list))' /\ NodesOf(Tail(list)) = NodesOf(list) \ {m}
<1>1. list # <<>> /\ list[1] = m /\ Len(list) \in Nat /\ Len(list) >= 1
  BY NoNodeAssumption DEF Chain
<1> DEFINE rest == Tail(list)
<1>2. /\ rest \in Seq(Nodes) /\ Len(rest) = Len(list) - 1
      /\ \A k \in 1 .. Len(rest) : rest[k] = list[k + 1]
  BY <1>1, HeadTailProperties
<1> HIDE DEF rest
<1>3. m \in NodesOf(list)
  BY <1>1 DEF NodesOf
<1>4. \A i, j \in 1 .. Len(rest) : rest[i] = rest[j] => i = j
  <2> SUFFICES ASSUME NEW i \in 1 .. Len(rest), NEW j \in 1 .. Len(rest), rest[i] = rest[j]
               PROVE  i = j
    OBVIOUS
  <2>1. i + 1 \in 1 .. Len(list) /\ j + 1 \in 1 .. Len(list)
    BY <1>1, <1>2
  <2> QED BY <2>1, <1>2 DEF Chain
<1>5. NodesOf(rest) = NodesOf(list) \ {m}
  <2>1. \A k \in 1 .. Len(rest) : k + 1 \in 1 .. Len(list) /\ list[k + 1] # m
    BY <1>1, <1>2 DEF Chain
  <2>2. \A k \in 1 .. Len(list) : k # 1 => k - 1 \in 1 .. Len(rest) /\ rest[k - 1] = list[k]
    BY <1>1, <1>2
  <2> QED BY <1>1, <1>2, <2>1, <2>2 DEF NodesOf
<1>6. freeListHead' = IF rest = <<>> THEN NoNode ELSE rest[1]
  <2>1. rest = <<>> <=> Len(list) = 1
    BY <1>1, <1>2, EmptySeq
  <2>2. freeListNext[m] = IF 1 < Len(list) THEN list[1 + 1] ELSE NoNode
    BY <1>1 DEF Chain
  <2> QED BY <1>1, <1>2, <2>1, <2>2
<1>7. \A k \in 1 .. Len(rest) :
        freeListNext'[rest[k]] = IF k < Len(rest) THEN rest[k + 1] ELSE NoNode
  <2> SUFFICES ASSUME NEW k \in 1 .. Len(rest)
               PROVE  freeListNext[rest[k]] = IF k < Len(rest) THEN rest[k + 1] ELSE NoNode
    OBVIOUS
  <2>1. k + 1 \in 1 .. Len(list) /\ rest[k] = list[k + 1]
    BY <1>1, <1>2
  <2>2. freeListNext[list[k + 1]] = IF k + 1 < Len(list) THEN list[(k + 1) + 1] ELSE NoNode
    BY <2>1 DEF Chain
  <2>3. k < Len(rest) => rest[k + 1] = list[(k + 1) + 1]
    BY <1>1, <1>2
  <2> QED BY <1>1, <1>2, <2>1, <2>2, <2>3
<1>8. Chain(rest)'
  BY <1>2, <1>4, <1>6, <1>7 DEF Chain
<1> QED BY <1>2, <1>3, <1>5, <1>8 DEF rest

\* A node is linked in by making it the head, once its successor is the old one.
LEMMA ChainPush ==
  ASSUME NEW list \in Seq(Nodes), Chain(list), NEW m \in Nodes \ NodesOf(list),
         freeListNext[m] = freeListHead, freeListHead' = m, freeListNext' = freeListNext
  PROVE  /\ <<m>> \o list \in Seq(Nodes) /\ Chain(<<m>> \o list)'
         /\ NodesOf(<<m>> \o list) = NodesOf(list) \cup {m}
<1> DEFINE all == <<m>> \o list
<1>1. Len(list) \in Nat /\ <<m>> \in Seq(Nodes) /\ Len(<<m>>) = 1 /\ <<m>>[1] = m
  OBVIOUS
<1>2. /\ all \in Seq(Nodes) /\ Len(all) = Len(list) + 1
      /\ \A k \in 1 .. 1 + Len(list) : all[k] = IF k <= 1 THEN m ELSE list[k - 1]
  BY <1>1, ConcatProperties
<1> HIDE DEF all
<1>3. all[1] = m /\ \A k \in 1 .. Len(list) : k + 1 \in 1 .. Len(all) /\ all[k + 1] = list[k]
  BY <1>1, <1>2
<1>4. \A k \in 1 .. Len(list) : list[k] # m
  BY DEF NodesOf
<1>5. \A i, j \in 1 .. Len(all) : all[i] = all[j] => i = j
  <2> SUFFICES ASSUME NEW i \in 1 .. Len(all), NEW j \in 1 .. Len(all), all[i] = all[j]
               PROVE  i = j
    OBVIOUS
  <2>1. /\ i # 1 => i - 1 \in 1 .. Len(list) /\ all[i] = list[i - 1]
        /\ j # 1 => j - 1 \in 1 .. Len(list) /\ all[j] = list[j - 1]
    BY <1>1, <1>2
  <2>2. CASE i = 1 \/ j = 1
    BY <2>1, <2>2, <1>3, <1>4
  <2>3. CASE i # 1 /\ j # 1
    <3>1. i - 1 \in 1 .. Len(list) /\ j - 1 \in 1 .. Len(list) /\ list[i - 1] = list[j - 1]
      BY <2>1, <2>3
    <3>2. i - 1 = j - 1
      BY <3>1 DEF Chain
    <3>3. i \in Int /\ j \in Int
      BY <1>2
    <3> QED BY <3>2, <3>3
  <2> QED BY <2>2, <2>3
<1>6. NodesOf(all) = NodesOf(list) \cup {m}
  <2>1. \A k \in 1 .. Len(all) : k # 1 => k - 1 \in 1 .. Len(list) /\ all[k] = list[k - 1]
    BY <1>1, <1>2
  <2>2. 1 \in 1 .. Len(all)
    BY <1>1, <1>2
  <2>3. NodesOf(all) \subseteq NodesOf(list) \cup {m}
    <3> SUFFICES ASSUME NEW k \in 1 .. Len(all) PROVE all[k] \in NodesOf(list) \cup {m}
      BY DEF NodesOf
    <3> QED BY <1>3, <2>1 DEF NodesOf
  <2>4. NodesOf(list) \cup {m} \subseteq NodesOf(all)
    <3> SUFFICES ASSUME NEW k \in 1 .. Len(list) PROVE list[k] \in NodesOf(all)
      BY <1>3, <2>2 DEF NodesOf
    <3> QED BY <1>3 DEF NodesOf
  <2> QED BY <2>3, <2>4
<1>7. \A k \in 1 .. Len(all) :
        freeListNext'[all[k]] = IF k < Len(all) THEN all[k + 1] ELSE NoNode
  <2> SUFFICES ASSUME NEW k \in 1 .. Len(all)
               PROVE  freeListNext[all[k]] = IF k < Len(all) THEN all[k + 1] ELSE NoNode
    OBVIOUS
  <2>1. CASE k = 1
    <3>1. list = <<>> <=> Len(list) = 0
      BY EmptySeq
    <3>2. k < Len(all) => all[k + 1] = list[1]
      BY <2>1, <1>1, <1>2, <1>3
    <3> QED BY <2>1, <3>1, <3>2, <1>1, <1>2, <1>3 DEF Chain
  <2>2. CASE k # 1
    <3>1. k - 1 \in 1 .. Len(list) /\ all[k] = list[k - 1]
      BY <2>2, <1>1, <1>2
    <3>2. freeListNext[list[k - 1]] = IF k - 1 < Len(list) THEN list[(k - 1) + 1] ELSE NoNode
      BY <3>1 DEF Chain
    <3>3. k < Len(all) => all[k + 1] = list[(k - 1) + 1]
      BY <2>2, <1>1, <1>2, <1>3
    <3> QED BY <3>1, <3>2, <3>3, <1>1, <1>2
  <2> QED BY <2>1, <2>2
<1>8. Chain(all)'
  <2>1. all # <<>>
    BY <1>1, <1>2
  <2> QED BY <2>1, <1>2, <1>3, <1>5, <1>7 DEF Chain
<1> QED BY <1>2, <1>6, <1>8 DEF all

\* Every set of numbers with 0 that is closed under successor holds them all:
\* by the least number outside it.
LEMMA NatInd ==
  ASSUME NEW P, 0 \in P, \A n \in Nat : n \in P => n + 1 \in P
  PROVE  Nat \subseteq P
<1> SUFFICES ASSUME Nat \ P # {} PROVE FALSE
  OBVIOUS
<1>1. \A x, y \in Nat : x < y => <<x, y>> \in OpToRel(<, Nat)
  BY Zenon DEF OpToRel
<1>2. PICK x \in Nat \ P : \A y \in Nat \ P : ~(<<y, x>> \in OpToRel(<, Nat))
  <2>1. Nat \ P \subseteq Nat
    OBVIOUS
  <2> QED BY <2>1, NatLessThanWellFounded, WFMin, Zenon
<1>3. \A y \in Nat \ P : ~(y < x)
  BY <1>1, <1>2, Zenon
<1>4. x \in Nat /\ x \notin P /\ x # 0 /\ x - 1 \in Nat
  OBVIOUS
<1>5. x - 1 \in P
  BY <1>3, <1>4
<1>6. (x - 1) + 1 = x
  BY <1>4
<1> QED BY <1>4, <1>5, <1>6, Zenon

\* NodeAt walks along the chain, so what it finds is what the chain holds, and
\* it has left the chain after as many links as there are nodes.
LEMMA ChainIsOnList ==
  ASSUME NEW list \in Seq(Nodes), Chain(list), freeListHead \in Nodes \cup {NoNode}
  PROVE  OnList = NodesOf(list) /\ NodeAt[Cardinality(Nodes)] = NoNode
<1> DEFINE C == Cardinality(Nodes)
           G == [k \in 0 .. C |-> IF k < Len(list) THEN list[k + 1] ELSE NoNode]
<1>1. C \in Nat /\ Len(list) \in Nat
  BY NoNodeAssumption, FS_CardinalityType
<1>2. Len(list) <= C
  <2>1. list \in [1 .. Len(list) -> Nodes]
    OBVIOUS
  <2>2. list \in Injection(1 .. Len(list), Nodes)
    BY <2>1 DEF Chain, Injection, IsInjective
  <2>3. Cardinality(1 .. Len(list)) <= C
    BY <2>2, NoNodeAssumption, FS_Injection
  <2>4. Cardinality(1 .. Len(list)) = Len(list)
    <3>1. 1 \in Int /\ Len(list) \in Int
      BY <1>1
    <3>2. Cardinality(1 .. Len(list)) = IF 1 > Len(list) THEN 0 ELSE Len(list) - 1 + 1
      BY <3>1, FS_Interval, Zenon
    <3> QED BY <1>1, <3>2
  <2> QED BY <2>3, <2>4
<1>3. \A k \in 0 .. C :
        G[k] = IF k = 0 THEN freeListHead
               ELSE IF G[k - 1] = NoNode THEN NoNode ELSE freeListNext[G[k - 1]]
  <2> SUFFICES ASSUME NEW k \in 0 .. C
               PROVE  G[k] = IF k = 0 THEN freeListHead
                             ELSE IF G[k - 1] = NoNode THEN NoNode ELSE freeListNext[G[k - 1]]
    OBVIOUS
  <2>1. CASE k = 0
    <3>1. list = <<>> <=> Len(list) = 0
      BY EmptySeq
    <3> QED BY <2>1, <3>1, <1>1 DEF Chain
  <2>2. CASE k # 0 /\ k - 1 < Len(list)
    <3>1. k - 1 \in 0 .. C /\ k \in 1 .. Len(list) /\ G[k - 1] = list[k]
      BY <2>2, <1>1
    <3>2. list[k] \in Nodes /\ list[k] # NoNode
      BY <3>1, NoNodeAssumption
    <3> QED BY <2>2, <3>1, <3>2 DEF Chain
  <2>3. CASE k # 0 /\ ~(k - 1 < Len(list))
    <3>1. k - 1 \in 0 .. C /\ G[k - 1] = NoNode /\ G[k] = NoNode
      BY <2>3, <1>1
    <3> QED BY <2>3, <3>1
  <2> QED BY <2>1, <2>2, <2>3
<1> HIDE DEF G
<1>4. G = [k \in 0 .. C |-> IF k = 0 THEN freeListHead
                            ELSE IF G[k - 1] = NoNode THEN NoNode ELSE freeListNext[G[k - 1]]]
  BY <1>3 DEF G
<1>5. NodeAt = [k \in 0 .. C |-> IF k = 0 THEN freeListHead
                                 ELSE IF NodeAt[k - 1] = NoNode THEN NoNode ELSE freeListNext[NodeAt[k - 1]]]
  BY <1>4, Zenon DEF NodeAt
<1>6. \A k \in 0 .. C : NodeAt[k] = G[k]
  <2> DEFINE P == {k \in Nat : k <= C => NodeAt[k] = G[k]}
  <2>1. 0 \in P
    BY <1>1, <1>3, <1>5
  <2>2. \A k \in Nat : k \in P => k + 1 \in P
    <3> SUFFICES ASSUME NEW k \in Nat, k \in P, k + 1 <= C PROVE NodeAt[k + 1] = G[k + 1]
      OBVIOUS
    <3>1. k + 1 \in 0 .. C /\ (k + 1) - 1 = k /\ k + 1 # 0
      BY <1>1
    <3>2. NodeAt[k] = G[k]
      BY <1>1
    <3>3. G[k + 1] = IF G[k] = NoNode THEN NoNode ELSE freeListNext[G[k]]
      <4>1. G[k + 1] = IF k + 1 = 0 THEN freeListHead
                       ELSE IF G[(k + 1) - 1] = NoNode THEN NoNode ELSE freeListNext[G[(k + 1) - 1]]
        BY <3>1, <1>3, Zenon
      <4> QED BY <4>1, <3>1, Zenon
    <3>4. NodeAt[k + 1] = IF NodeAt[k] = NoNode THEN NoNode ELSE freeListNext[NodeAt[k]]
      <4>1. NodeAt[k + 1] = IF k + 1 = 0 THEN freeListHead
                            ELSE IF NodeAt[(k + 1) - 1] = NoNode THEN NoNode
                            ELSE freeListNext[NodeAt[(k + 1) - 1]]
        BY <3>1, <1>5, Zenon
      <4> QED BY <4>1, <3>1, Zenon
    <3> QED BY <3>2, <3>3, <3>4, Zenon
  <2> HIDE DEF P
  <2>3. Nat \subseteq P
    BY <2>1, <2>2, NatInd
  <2> USE DEF P
  <2> QED BY <2>3, <1>1
<1>7. NodeAt[C] = NoNode
  BY <1>1, <1>2, <1>6 DEF G
<1>8. OnList = NodesOf(list)
  <2>1. OnList = {G[k] : k \in 0 .. C} \ {NoNode}
    BY <1>6 DEF OnList
  <2>2. ASSUME NEW k \in 0 .. C, G[k] # NoNode PROVE G[k] \in NodesOf(list)
    <3>1. k < Len(list) /\ G[k] = list[k + 1]
      BY <2>2 DEF G
    <3>2. k + 1 \in 1 .. Len(list)
      BY <3>1, <1>1
    <3> QED BY <3>1, <3>2 DEF NodesOf
  <2>3. ASSUME NEW k \in 1 .. Len(list) PROVE list[k] \in {G[i] : i \in 0 .. C} \ {NoNode}
    <3>1. k - 1 \in 0 .. C /\ (k - 1) + 1 = k /\ k - 1 < Len(list)
      BY <1>1, <1>2
    <3>2. G[k - 1] = list[k]
      BY <3>1 DEF G
    <3>3. list[k] # NoNode
      BY NoNodeAssumption
    <3> QED BY <3>1, <3>2, <3>3
  <2> QED BY <2>1, <2>2, <2>3 DEF NodesOf
<1> QED BY <1>7, <1>8

-----------------------------------------------------------------------------
(* The invariant holds *)

\* At first every node is with a caller.
LEMMA ListInit == FreeListInit => FreeListInv
<1> SUFFICES ASSUME FreeListInit PROVE FreeListInv
  OBVIOUS
<1> USE DEF FreeListInit
<1>1. PICK holder \in [Nodes -> Threads] :
        owned = [t \in Threads |-> {n \in Nodes : holder[n] = t}]
  OBVIOUS
<1>2. SharedType
  <2>1. Ref(0, FALSE) \in RefType
    BY DEF Ref, RefType
  <2>2. freeListRefs \in [Nodes -> RefType]
    BY <2>1, Zenon
  <2>3. owned \in [Threads -> SUBSET Nodes]
    BY <1>1
  <2> QED BY <2>2, <2>3 DEF SharedType
<1>3. LocalType
  <2>1. Ref(0, FALSE) \in RefType
    BY DEF Ref, RefType
  <2>2. refs \in [Threads -> RefType] /\ getting \in [Threads -> BOOLEAN]
    BY <2>1, Zenon
  <2> QED BY <2>2 DEF LocalType, Steps
<1>4. <<>> \in Seq(Nodes) /\ Chain(<<>>) /\ NodesOf(<<>>) = {}
  BY DEF Chain, NodesOf
<1>5. LocalsInv /\ AdderInv
  BY DEF LocalsInv, AdderInv, EarlySteps, LateSteps
<1>6. \A n : Holders(n) = {} /\ ~Listed({}, n) /\ ~HasAdder(n)
  BY DEF Holders, Holding, Listed, LateSteps, HasAdder, AddSteps
<1>7. \A n \in Nodes : freeListRefs[n].count = 0 /\ freeListRefs[n].should = FALSE
  BY DEF Ref
<1>8. CountInv({})
  <2>1. \A n : Cardinality(Holders(n)) = 0
    BY <1>6, FS_EmptySet, Zenon
  <2> QED BY <2>1, <1>6, <1>7 DEF CountInv, Ref
<1>9. PlacesInv({})
  <2>1. OneCaller /\ OneAdder /\ TakerOwns
    BY <1>1 DEF OneCaller, OneAdder, TakerOwns, AddSteps
  <2>2. OwnedOff({}) /\ OnListClean({}) /\ WaitsForHolder
    BY <1>1, <1>6, <1>7 DEF OwnedOff, OnListClean, WaitsForHolder, Untouched
  <2>3. SomePlace({})
    BY <1>1 DEF SomePlace
  <2> QED BY <2>1, <2>2, <2>3 DEF PlacesInv
<1> QED BY <1>2, <1>3, <1>4, <1>5, <1>8, <1>9 DEF FreeListInv, Books

\* The node that a compare-exchange on the head takes is the first of the list,
\* and what the thread read as its successor still is: no ABA.
LEMMA TakeIsPop ==
  ASSUME NEW list \in Seq(Nodes), Chain(list), Books(NodesOf(list)), SharedType, LocalType,
         NEW t \in Threads, CasTake(t), freeListHead = head[t]
  PROVE  /\ Tail(list) \in Seq(Nodes) /\ Chain(Tail(list))' /\ Books(NodesOf(Tail(list)))'
         /\ SharedType' /\ LocalType' /\ node[t] \in NodesOf(list)
<1>1. pc[t] = "take_cas" /\ node[t] \in Nodes
  BY DEF CasTake, At, LocalType
<1>2. PICK m \in Nodes : m = node[t]
  BY <1>1
<1>3. freeListHead = m /\ freeListHead' = freeListNext[m] /\ freeListNext' = freeListNext
        /\ freeListRefs' = freeListRefs
  BY <1>1, <1>2 DEF CasTake, Books, LocalsInv
<1>4. /\ m \in NodesOf(list) /\ Tail(list) \in Seq(Nodes)
      /\ Chain(Tail(list))' /\ NodesOf(Tail(list)) = NodesOf(list) \ {m}
  BY <1>3, ChainPop
<1>5. NodesOf(list) \in SUBSET Nodes
  BY DEF NodesOf
<1>6. Books(NodesOf(list) \ {m})' /\ LocalType' /\ owned' \in [Threads -> SUBSET Nodes]
  BY <1>2, <1>4, <1>5, CasTakeWonKeeps
<1>7. SharedType'
  BY <1>3, <1>6 DEF SharedType
<1>8. Books(NodesOf(Tail(list)))'
  BY <1>4, <1>6, Zenon
<1> QED BY <1>2, <1>4, <1>6, <1>7, <1>8

\* The successful CAS of add() pushes its node onto the list (:1552).
LEMMA AddIsPush ==
  ASSUME NEW list \in Seq(Nodes), Chain(list), Books(NodesOf(list)), SharedType, LocalType,
         NEW t \in Threads, CasAdd(t), freeListHead = next[t]
  PROVE  \E longer \in Seq(Nodes) :
           Chain(longer)' /\ Books(NodesOf(longer))' /\ SharedType' /\ LocalType'
<1>1. pc[t] = "add_cas" /\ node[t] \in Nodes
  BY DEF CasAdd, At, LocalType
<1>2. PICK m \in Nodes : m = node[t]
  BY <1>1
<1>3. NodesOf(list) \in SUBSET Nodes
  BY DEF NodesOf
<1>4. m \notin NodesOf(list)
  BY <1>1, <1>2, <1>3, AdderOnly DEF LateSteps
<1>5. /\ freeListNext[m] = freeListHead /\ freeListHead' = m
      /\ UNCHANGED <<freeListNext, freeListRefs, owned>>
  BY <1>1, <1>2 DEF CasAdd, Books, LocalsInv
<1>6. /\ <<m>> \o list \in Seq(Nodes) /\ Chain(<<m>> \o list)'
      /\ NodesOf(<<m>> \o list) = NodesOf(list) \cup {m}
  BY <1>4, <1>5, ChainPush
<1>7. Books(NodesOf(list) \cup {m})' /\ LocalType'
  BY <1>2, <1>3, CasAddWonKeeps
<1>8. SharedType'
  BY <1>5 DEF SharedType
<1>9. Books(NodesOf(<<m>> \o list))'
  BY <1>6, <1>7, Zenon
<1> QED BY <1>6, <1>7, <1>8, <1>9

\* Whatever try_get() or add() does next, there is a list that explains the state
\* after it.
LEMMA ListStep ==
  ASSUME NEW list \in Seq(Nodes), Chain(list), Books(NodesOf(list)), SharedType, LocalType,
         NEW t \in Threads, TryGetStep(t) \/ AddStep(t)
  PROVE  FreeListInv'
<1> DEFINE on == NodesOf(list)
<1>1. on \in SUBSET Nodes
  BY DEF NodesOf
<1> HIDE DEF on
<1>2. Books(on)
  BY DEF on
<1>3. ASSUME Books(on)', SharedType', LocalType', freeListHead' = freeListHead,
             \A n \in on : freeListNext'[n] = freeListNext[n]
      PROVE  FreeListInv'
  <2>1. Chain(list)'
    BY <1>3, ChainKept DEF on
  <2>2. Books(NodesOf(list))'
    BY <1>3 DEF on
  <2> QED BY <1>3, <2>1, <2>2 DEF FreeListInv
<1>4. CASE LoadHead(t) \/ LoadRefs(t)
  <2>1. Books(on)' /\ LocalType'
    BY <1>1, <1>2, <1>4, LoadHeadKeeps, LoadRefsKeeps
  <2>2. UNCHANGED <<freeListHead, freeListRefs, freeListNext, owned>>
    BY <1>4 DEF LoadHead, LoadRefs
  <2> QED BY <2>1, <2>2, <1>3 DEF SharedType
<1>5. CASE CasRefs(t)
  <2>1. Books(on)' /\ LocalType' /\ SharedType'
    BY <1>1, <1>2, <1>5, CasRefsKeeps
  <2> QED BY <2>1, <1>3, <1>5 DEF CasRefs
<1>6. CASE LoadNext(t) \/ LoadAddHead(t)
  <2>1. Books(on)' /\ LocalType'
    BY <1>1, <1>2, <1>6, LoadNextKeeps, LoadAddHeadKeeps
  <2>2. UNCHANGED <<freeListHead, freeListRefs, freeListNext, owned>>
    BY <1>6 DEF LoadNext, LoadAddHead
  <2> QED BY <2>1, <2>2, <1>3 DEF SharedType
<1>7. CASE CasTake(t)
  <2>1. CASE freeListHead = head[t]
    BY <1>7, <2>1, TakeIsPop DEF FreeListInv
  <2>2. CASE freeListHead # head[t]
    <3>1. Books(on)' /\ LocalType' /\ UNCHANGED <<freeListHead, freeListNext, freeListRefs, owned>>
      BY <1>1, <1>2, <1>7, <2>2, CasTakeLostKeeps
    <3> QED BY <3>1, <1>3 DEF SharedType
  <2> QED BY <2>1, <2>2
<1>8. CASE Release(t) \/ Unref(t) \/ StoreRefs(t) \/ UndoAdd(t)
  <2>1. node[t] \in Nodes
    BY <1>8 DEF Release, Unref, StoreRefs, UndoAdd, At, LocalType
  <2>2. Books(on)' /\ LocalType' /\ SharedType'
    BY <1>1, <1>2, <1>8, <2>1, ReleaseKeeps, UnrefLastKeeps, UnrefKeeps, StoreRefsKeeps,
       UndoAddAgainKeeps, UndoAddKeeps
  <2>3. UNCHANGED <<freeListHead, freeListNext>>
    BY <1>8 DEF Release, Unref, StoreRefs, UndoAdd
  <2> QED BY <2>2, <2>3, <1>3
<1>9. CASE \E n \in Nodes : Mark(t, n)
  <2>1. Books(on)' /\ LocalType' /\ SharedType' /\ UNCHANGED <<freeListHead, freeListNext>>
    BY <1>1, <1>2, <1>9, MarkKeeps DEF Mark
  <2> QED BY <2>1, <1>3
<1>10. CASE StoreNext(t)
  <2>1. /\ Books(on)' /\ LocalType' /\ SharedType' /\ freeListHead' = freeListHead
        /\ \A n \in on : freeListNext'[n] = freeListNext[n]
    BY <1>1, <1>2, <1>10, StoreNextKeeps DEF StoreNext
  <2> QED BY <2>1, <1>3
<1>11. CASE CasAdd(t)
  <2>1. CASE freeListHead = next[t]
    BY <1>11, <2>1, AddIsPush DEF FreeListInv
  <2>2. CASE freeListHead # next[t]
    <3>1. Books(on)' /\ LocalType' /\ UNCHANGED <<freeListHead, freeListNext, freeListRefs, owned>>
      BY <1>1, <1>2, <1>11, <2>2, CasAddLostKeeps
    <3> QED BY <3>1, <1>3 DEF SharedType
  <2> QED BY <2>1, <2>2
<1> QED
  BY <1>4, <1>5, <1>6, <1>7, <1>8, <1>9, <1>10, <1>11 DEF TryGetStep, AddStep

\* The account of the counts and the chain survive every interleaving of the
\* accesses of add() and try_get() (concurrentqueue.h:1481-1560).
THEOREM ListInvariance == FreeListSpec => []FreeListInv
<1>1. FreeListInv /\ [FreeListStep]_freeListVars => FreeListInv'
  <2> SUFFICES ASSUME FreeListInv, [FreeListStep]_freeListVars PROVE FreeListInv'
    OBVIOUS
  <2>1. PICK list \in Seq(Nodes) : Chain(list) /\ Books(NodesOf(list))
    BY DEF FreeListInv
  <2>2. SharedType /\ LocalType
    BY DEF FreeListInv
  <2>3. CASE FreeListStep
    BY <2>1, <2>2, <2>3, ListStep DEF FreeListStep
  <2>4. CASE UNCHANGED freeListVars
    <3> USE <2>4 DEF freeListVars
    <3>1. SharedType' /\ LocalType' /\ Chain(list)'
      BY <2>1, <2>2 DEF SharedType, LocalType, Chain
    <3>2. \A n : Holders(n)' = Holders(n) /\ (HasAdder(n)' <=> HasAdder(n))
                 /\ (Untouched(n)' <=> Untouched(n))
      BY DEF Holders, HasAdder, Untouched
    <3>3. LocalsInv' /\ AdderInv'
      BY <2>1 DEF Books, LocalsInv, AdderInv
    <3>4. CountInv(NodesOf(list))'
      BY <2>1, <3>2 DEF Books, CountInv, Listed
    <3>5. PlacesInv(NodesOf(list))'
      BY <2>1, <3>2 DEF Books, PlacesInv, OneCaller, OneAdder, TakerOwns, OwnedOff, OnListClean,
         SomePlace, WaitsForHolder
    <3> QED BY <3>1, <3>3, <3>4, <3>5 DEF FreeListInv, Books
  <2> QED BY <2>3, <2>4
<1> QED BY <1>1, ListInit, PTL DEF FreeListSpec

-----------------------------------------------------------------------------
(* The counts are bounded *)

RefsBounded == \A t \in Threads : refs[t].count <= Cardinality(Threads) + 1

\* A count never reaches the mark's bit: it counts threads, and the list.
LEMMA CountBounded ==
  ASSUME FreeListInv
  PROVE  /\ \A n \in Nodes : freeListRefs[n].count <= Cardinality(Threads) + 1
         /\ Cardinality(Threads) \in Nat
<1>1. PICK list \in Seq(Nodes) : Books(NodesOf(list))
  BY DEF FreeListInv
<1>2. Cardinality(Threads) \in Nat
  BY NoNodeAssumption, FS_CardinalityType
<1>3. \A n : Cardinality(Holders(n)) <= Cardinality(Threads)
  <2> TAKE n
  <2>1. Holders(n) \subseteq Threads
    BY DEF Holders
  <2> QED BY <2>1, NoNodeAssumption, FS_Subset
<1>4. ASSUME NEW n \in Nodes PROVE freeListRefs[n].count <= Cardinality(Threads) + 1
  <2>1. freeListRefs[n].count = Cardinality(Holders(n)) + (IF Listed(NodesOf(list), n) THEN 1 ELSE 0)
    BY <1>1 DEF Books, CountInv
  <2> QED BY <2>1, <1>2, <1>3, HoldersFinite
<1> QED BY <1>2, <1>4

\* The type of every variable (concurrentqueue.h:1564-1567): the mark and the
\* count share one word, and the count stays below the number of threads plus one.
THEOREM ListTypeCorrect == FreeListSpec => []FreeListTypeOK
<1>1. FreeListInit => RefsBounded
  <2> SUFFICES ASSUME FreeListInit PROVE RefsBounded
    OBVIOUS
  <2>1. Cardinality(Threads) \in Nat
    BY NoNodeAssumption, FS_CardinalityType
  <2> QED BY <2>1 DEF FreeListInit, RefsBounded, Ref
<1>2. FreeListInv /\ RefsBounded /\ [FreeListStep]_freeListVars => RefsBounded'
  <2> SUFFICES ASSUME FreeListInv, RefsBounded, [FreeListStep]_freeListVars PROVE RefsBounded'
    OBVIOUS
  <2>1. /\ \A n \in Nodes : freeListRefs[n].count <= Cardinality(Threads) + 1
        /\ Cardinality(Threads) \in Nat
    BY CountBounded
  <2>2. LocalType
    BY DEF FreeListInv
  <2>3. ASSUME NEW t \in Threads, NEW r \in RefType,
               refs' = [refs EXCEPT ![t] = r], r.count <= Cardinality(Threads) + 1
        PROVE  RefsBounded'
    BY <2>2, <2>3 DEF RefsBounded, LocalType
  <2>4. Ref(0, FALSE) \in RefType /\ Ref(0, FALSE).count <= Cardinality(Threads) + 1
    BY <2>1 DEF Ref, RefType
  <2>5. ASSUME NEW t \in Threads, NEW h, LoopWith(t, h) PROVE RefsBounded'
    BY <2>3, <2>4, <2>5, Zenon DEF LoopWith, Return
  <2>6. ASSUME NEW t \in Threads, LoadRefs(t) PROVE RefsBounded'
    <3>1. node[t] \in Nodes
      BY <2>2, <2>6 DEF LoadRefs, At, LocalType
    <3>2. freeListRefs[node[t]] \in RefType
      BY <3>1 DEF FreeListInv, SharedType
    <3> QED BY <2>1, <2>3, <2>6, <3>1, <3>2 DEF LoadRefs
  <2>7. ASSUME NEW t \in Threads, Release(t) PROVE RefsBounded'
    BY <2>3, <2>4, <2>7, Zenon DEF Release, Return
  <2>8. ASSUME refs' = refs PROVE RefsBounded'
    BY <2>8 DEF RefsBounded
  <2>9. ASSUME NEW t \in Threads, LoadHead(t) \/ Unref(t) \/ CasAdd(t) \/ UndoAdd(t)
        PROVE  RefsBounded'
    <3>1. (\E h : LoopWith(t, h)) \/ Return(t) \/ refs' = refs
      BY <2>9, Zenon DEF LoadHead, Unref, CasAdd, UndoAdd, AddReturns
    <3>2. CASE Return(t)
      BY <2>3, <2>4, <3>2, Zenon DEF Return
    <3> QED BY <2>5, <2>8, <3>1, <3>2
  <2>10. ASSUME NEW t \in Threads,
                \/ CasRefs(t) \/ LoadNext(t) \/ CasTake(t) \/ (\E n \in Nodes : Mark(t, n))
                \/ LoadAddHead(t) \/ StoreNext(t) \/ StoreRefs(t)
         PROVE  RefsBounded'
    <3>1. refs' = refs
      BY <2>10, Zenon DEF CasRefs, LoadNext, CasTake, Mark, LoadAddHead, StoreNext, StoreRefs
    <3> QED BY <2>8, <3>1
  <2>11. CASE UNCHANGED freeListVars
    BY <2>8, <2>11 DEF freeListVars
  <2> QED BY <2>6, <2>7, <2>9, <2>10, <2>11, Zenon DEF FreeListStep, TryGetStep, AddStep
<1>3. FreeListInv /\ RefsBounded => FreeListTypeOK
  <2> SUFFICES ASSUME FreeListInv, RefsBounded PROVE FreeListTypeOK
    OBVIOUS
  <2>1. SharedType /\ LocalType
    BY DEF FreeListInv
  <2>2. ASSUME NEW r \in RefType, r.count <= Cardinality(Threads) + 1
        PROVE  r \in [count : 0 .. Cardinality(Threads) + 1, should : BOOLEAN]
    <3>1. r.count \in 0 .. Cardinality(Threads) + 1
      BY <2>2, CountBounded DEF RefType
    <3> QED BY <3>1, Zenon DEF RefType
  <2>3. freeListRefs \in [Nodes -> [count : 0 .. Cardinality(Threads) + 1, should : BOOLEAN]]
    BY <2>1, <2>2, CountBounded, Zenon DEF SharedType
  <2>4. refs \in [Threads -> [count : 0 .. Cardinality(Threads) + 1, should : BOOLEAN]]
    BY <2>1, <2>2, Zenon DEF LocalType, RefsBounded
  <2> QED BY <2>1, <2>3, <2>4, Zenon DEF FreeListTypeOK, SharedType, LocalType
<1> QED BY <1>1, <1>2, <1>3, ListInvariance, PTL DEF FreeListSpec

-----------------------------------------------------------------------------
(* What follows from it *)

\* A caller's node is off the list (concurrentqueue.h:1486-1487, :1515, :1540).
THEOREM OffTheList == FreeListSpec => []CallersNodeIsOffTheList
<1>1. FreeListInv => CallersNodeIsOffTheList
  <2> SUFFICES ASSUME FreeListInv PROVE CallersNodeIsOffTheList
    OBVIOUS
  <2>1. PICK list \in Seq(Nodes) : Chain(list) /\ Books(NodesOf(list))
    BY DEF FreeListInv
  <2>2. OnList = NodesOf(list)
    BY <2>1, ChainIsOnList DEF FreeListInv, SharedType
  <2>3. \A t \in Threads : owned[t] \cap (Marked \cup OnList \cup BeingAdded) = {}
    <3> SUFFICES ASSUME NEW t \in Threads, NEW n \in owned[t]
                 PROVE  n \notin Marked /\ n \notin OnList /\ n \notin BeingAdded
      OBVIOUS
    <3>1. n \notin OnList /\ freeListRefs[n].should = FALSE /\ ~HasAdder(n)
      BY <2>1, <2>2 DEF Books, PlacesInv, OwnedOff, Untouched
    <3>2. n \notin Marked
      BY <3>1, Zenon DEF Marked
    <3> QED BY <3>1, <3>2 DEF BeingAdded, Adders, HasAdder
  <2>4. ASSUME NEW n \in Nodes PROVE Cardinality(Adders(n)) <= 1
    <3>1. CASE Adders(n) = {}
      <4>1. Cardinality(Adders(n)) = 0
        BY <3>1, FS_EmptySet, Zenon
      <4> QED BY <4>1
    <3>2. CASE Adders(n) # {}
      <4>1. PICK t \in Threads : t \in Adders(n)
        BY <3>2 DEF Adders
      <4>2. Adders(n) = {t}
        BY <4>1, <2>1 DEF Adders, Books, PlacesInv, OneAdder
      <4>3. Cardinality(Adders(n)) = 1
        BY <4>2, FS_Singleton, Zenon
      <4> QED BY <4>3
    <3> QED BY <3>1, <3>2
  <2> QED BY <2>3, <2>4 DEF CallersNodeIsOffTheList
<1> QED BY <1>1, ListInvariance, PTL

\* No interleaving leaves a node behind, counted too often or marked for good
\* (concurrentqueue.h:1481-1560).
THEOREM QuietComplete == FreeListSpec => []QuietListIsComplete
<1>1. FreeListInv => QuietListIsComplete
  <2> SUFFICES ASSUME FreeListInv, \A t \in Threads : pc[t] = "idle"
               PROVE  /\ OnList = Nodes \ UNION {owned[t] : t \in Threads}
                      /\ NodeAt[Cardinality(Nodes)] = NoNode
                      /\ \A n \in Nodes : freeListRefs[n] = Ref(IF n \in OnList THEN 1 ELSE 0, FALSE)
    BY DEF QuietListIsComplete, At
  <2>1. PICK list \in Seq(Nodes) : Chain(list) /\ Books(NodesOf(list))
    BY DEF FreeListInv
  <2>2. OnList = NodesOf(list) /\ NodeAt[Cardinality(Nodes)] = NoNode
    BY <2>1, ChainIsOnList DEF FreeListInv, SharedType
  <2>3. \A n : Holders(n) = {} /\ ~HasAdder(n) /\ (Listed(OnList, n) <=> n \in OnList)
    BY DEF Holders, Holding, HasAdder, AddSteps, Listed, LateSteps
  <2>4. \A n \in Nodes : freeListRefs[n].count = IF n \in OnList THEN 1 ELSE 0
    <3>1. \A n \in Nodes : Cardinality(Holders(n)) = 0
      BY <2>3, FS_EmptySet, Zenon
    <3> QED BY <2>1, <2>2, <2>3, <3>1 DEF Books, CountInv
  <2>5. \A n \in Nodes : freeListRefs[n] \in RefType
    BY DEF FreeListInv, SharedType
  <2>6. \A n \in Nodes : freeListRefs[n].should = FALSE
    <3> SUFFICES ASSUME NEW n \in Nodes, freeListRefs[n].should = TRUE PROVE FALSE
      BY <2>5, Zenon DEF RefType
    <3>1. n \notin OnList
      BY <2>1, <2>2 DEF Books, PlacesInv, OnListClean, Untouched
    <3>2. freeListRefs[n].count > 0
      BY <2>1, <2>3 DEF Books, PlacesInv, WaitsForHolder
    <3> QED BY <2>4, <3>1, <3>2
  <2>7. \A n \in Nodes : freeListRefs[n] = Ref(IF n \in OnList THEN 1 ELSE 0, FALSE)
    BY <2>4, <2>5, <2>6 DEF RefType, Ref
  <2>8. OnList = Nodes \ UNION {owned[t] : t \in Threads}
    <3>1. OnList \subseteq Nodes
      BY <2>2 DEF NodesOf
    <3>2. \A n \in Nodes : n \in OnList <=> \A t \in Threads : n \notin owned[t]
      BY <2>1, <2>2, <2>3, <2>6 DEF Books, PlacesInv, SomePlace, OwnedOff
    <3> QED BY <3>1, <3>2
  <2> QED BY <2>2, <2>7, <2>8
<1> QED BY <1>1, ListInvariance, PTL

-----------------------------------------------------------------------------
(* The pool *)

PoolNodes == OnList \cup Marked \cup BeingAdded

\* The pool is what no caller holds.
PoolIsRest ==
  /\ \A n : n \in PoolNodes <=> n \in Nodes /\ \A t \in Threads : n \notin owned[t]
  /\ owned \in [Threads -> SUBSET Nodes] /\ OneCaller

\* A node that no caller holds is marked, being added or on the list, and only
\* such a node is.
LEMMA PoolIsTheRest == FreeListInv => PoolIsRest
<1> SUFFICES ASSUME FreeListInv PROVE PoolIsRest
  OBVIOUS
<1>1. PICK list \in Seq(Nodes) : Chain(list) /\ Books(NodesOf(list))
  BY DEF FreeListInv
<1>2. OnList = NodesOf(list) /\ OnList \subseteq Nodes
  BY <1>1, ChainIsOnList DEF FreeListInv, SharedType, NodesOf
<1>3. \A n \in Nodes : n \in BeingAdded <=> HasAdder(n)
  BY DEF BeingAdded, Adders, HasAdder
<1>4. \A n \in Nodes : n \in Marked <=> freeListRefs[n].should = TRUE
  <2>1. \A n \in Nodes : freeListRefs[n].should \in BOOLEAN
    BY Zenon DEF FreeListInv, SharedType, RefType
  <2> QED BY <2>1, Zenon DEF Marked
<1>5. \A n \in Nodes : n \in PoolNodes <=> \A t \in Threads : n \notin owned[t]
  <2> SUFFICES ASSUME NEW n \in Nodes
               PROVE  n \in PoolNodes <=> \A t \in Threads : n \notin owned[t]
    OBVIOUS
  <2>1. ASSUME NEW t \in Threads, n \in owned[t] PROVE n \notin PoolNodes
    <3>1. n \notin OnList /\ freeListRefs[n].should = FALSE /\ ~HasAdder(n)
      BY <1>1, <1>2, <2>1 DEF Books, PlacesInv, OwnedOff, Untouched
    <3> QED BY <3>1, <1>3, <1>4 DEF PoolNodes
  <2>2. ASSUME \A t \in Threads : n \notin owned[t] PROVE n \in PoolNodes
    BY <1>1, <1>2, <1>3, <1>4, <2>2 DEF Books, PlacesInv, SomePlace, PoolNodes
  <2> QED BY <2>1, <2>2
<1>6. PoolNodes \subseteq Nodes
  BY <1>2 DEF PoolNodes, Marked, BeingAdded
<1> QED BY <1>1, <1>5, <1>6 DEF PoolIsRest, FreeListInv, SharedType, Books, PlacesInv

\* A successful compare-exchange of try_get() takes a node from the pool, the
\* mark of add() gives one back, every other access does neither.
LEMMA StepOfPool ==
  ASSUME FreeListInv, FreeListInv', FreeListStep
  PROVE  [Pool!PoolNext]_<<PoolNodes, owned>>
<1>1. PICK t \in Threads : TryGetStep(t) \/ AddStep(t)
  BY DEF FreeListStep
<1>2. /\ \A n : n \in PoolNodes <=> n \in Nodes /\ \A s \in Threads : n \notin owned[s]
      /\ owned \in [Threads -> SUBSET Nodes] /\ OneCaller
  BY PoolIsTheRest DEF PoolIsRest
<1>3. /\ \A n : n \in PoolNodes' <=> n \in Nodes /\ \A s \in Threads : n \notin owned'[s]
      /\ owned' \in [Threads -> SUBSET Nodes] /\ OneCaller'
  <2>1. PoolIsRest'
    BY PoolIsTheRest, PTL
  <2> QED BY <2>1 DEF PoolIsRest
<1>4. CASE owned' = owned
  <2>1. PoolNodes' = PoolNodes
    BY <1>2, <1>3, <1>4
  <2> QED BY <1>4, <2>1
<1>5. CASE CasTake(t) /\ freeListHead = head[t]
  <2>1. PICK list \in Seq(Nodes) : Chain(list) /\ Books(NodesOf(list))
    BY DEF FreeListInv
  <2>2. node[t] \in NodesOf(list)
    BY <1>5, <2>1, TakeIsPop DEF FreeListInv
  <2>3. PICK m \in Nodes : m = node[t] /\ m \in NodesOf(list)
    BY <2>2 DEF NodesOf
  <2>4. \A s \in Threads : m \notin owned[s]
    BY <2>1, <2>3 DEF Books, PlacesInv, OwnedOff
  <2>5. owned' = [owned EXCEPT ![t] = @ \cup {m}]
    BY <1>5, <2>3 DEF CasTake
  <2>6. m \in PoolNodes
    BY <1>2, <2>4
  <2>7. PoolNodes' = PoolNodes \ {m}
    BY <1>2, <1>3, <2>5
  <2>8. Pool!Take(t, m)
    BY <2>5, <2>6, <2>7 DEF Pool!Take, PoolNodes
  <2> QED BY <2>8 DEF Pool!PoolNext
<1>6. CASE \E n \in Nodes : Mark(t, n)
  <2>1. PICK n \in Nodes : n \in owned[t] /\ owned' = [owned EXCEPT ![t] = @ \ {n}]
    BY <1>6 DEF Mark
  <2>2. PoolNodes' = PoolNodes \cup {n}
    BY <1>2, <1>3, <2>1 DEF OneCaller
  <2>3. Pool!Give(t, n)
    BY <2>1, <2>2 DEF Pool!Give, PoolNodes
  <2> QED BY <2>3 DEF Pool!PoolNext
<1> QED
  BY <1>1, <1>4, <1>5, <1>6 DEF TryGetStep, AddStep, LoadHead, LoadRefs, CasRefs, LoadNext, CasTake,
     Release, Unref, LoadAddHead, StoreNext, StoreRefs, CasAdd, UndoAdd

\* FreeList implements the pool: a node is never handed to two callers and
\* never lost, whatever the interleaving (concurrentqueue.h:1481-1560).
THEOREM RefinesPool == FreeListSpec => ImplementsPool
<1>1. FreeListInit => Pool!PoolInit
  <2> SUFFICES ASSUME FreeListInit PROVE Pool!PoolInit
    OBVIOUS
  <2>1. /\ \A n : n \in PoolNodes <=> n \in Nodes /\ \A t \in Threads : n \notin owned[t]
        /\ owned \in [Threads -> SUBSET Nodes] /\ OneCaller
    BY ListInit, PoolIsTheRest DEF PoolIsRest
  <2>2. \A n \in Nodes : \E t \in Threads : n \in owned[t]
    BY DEF FreeListInit
  <2>3. PoolNodes = {}
    BY <2>1, <2>2
  <2> QED BY <2>1, <2>3 DEF Pool!PoolInit, PoolNodes, OneCaller
<1>2. FreeListInv /\ FreeListInv' /\ [FreeListStep]_freeListVars => [Pool!PoolNext]_<<PoolNodes, owned>>
  <2> SUFFICES ASSUME FreeListInv, FreeListInv', [FreeListStep]_freeListVars
               PROVE  [Pool!PoolNext]_<<PoolNodes, owned>>
    OBVIOUS
  <2>1. CASE FreeListStep
    BY <2>1, StepOfPool
  <2>2. CASE UNCHANGED freeListVars
    <3>1. owned' = owned
      BY <2>2 DEF freeListVars
    <3>2. \A n : n \in PoolNodes <=> n \in Nodes /\ \A t \in Threads : n \notin owned[t]
      BY PoolIsTheRest DEF PoolIsRest
    <3>3. \A n : n \in PoolNodes' <=> n \in Nodes /\ \A t \in Threads : n \notin owned'[t]
      <4>1. PoolIsRest'
        BY PoolIsTheRest, PTL
      <4> QED BY <4>1 DEF PoolIsRest
    <3>4. PoolNodes' = PoolNodes
      BY <3>1, <3>2, <3>3
    <3> QED BY <3>1, <3>4
  <2> QED BY <2>1, <2>2
<1>3. FreeListSpec => Pool!PoolInit /\ [][Pool!PoolNext]_<<PoolNodes, owned>>
  BY <1>1, <1>2, ListInvariance, PTL DEF FreeListSpec
<1> QED BY <1>3 DEF ImplementsPool, Pool!PoolSpec, PoolNodes
==============================================================================
