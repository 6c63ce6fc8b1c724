------------------------------ MODULE FreeList ------------------------------
(***************************************************************************)
(* FreeList of concurrentqueue.h: the lock-free stack that keeps the free  *)
(* blocks of the multi-producer queue.  Reference counts guard a node's    *)
(* next pointer against the ABA problem; a node whose count is not zero    *)
(* when it is given back is only marked (SHOULD_BE_ON_FREELIST), and the   *)
(* thread that drops the last reference puts it on the list.               *)
(*                                                                         *)
(* Every access to an atomic is a step of its own, named after the access; *)
(* the steps of all threads interleave.                                    *)
(***************************************************************************)
EXTENDS Integers, FiniteSets

CONSTANTS
  Nodes,     \* the blocks that pass through the list
  Threads,   \* the threads that call add() and try_get()
  NoNode     \* nullptr

ASSUME NoNodeAssumption ==
  NoNode \notin Nodes /\ IsFiniteSet(Nodes) /\ IsFiniteSet(Threads)

VARIABLES
  freeListHead,
  freeListRefs,   \* per node [count, should]: the low 31 bits and SHOULD_BE_ON_FREELIST
  freeListNext,
  owned,          \* the nodes that the caller on each thread may use or give back
  pc,             \* the access each thread makes next
  node,           \* the node it works on: add()'s argument, or prevHead
  head,           \* its local head
  refs,           \* try_get()'s local refs
  next,           \* try_get()'s local next
  getting         \* add_knowing_refcount_is_zero() was called by try_get()

freeListVars ==
  <<freeListHead, freeListRefs, freeListNext, owned, pc, node, head, refs, next, getting>>

Ref(count, should) == [count |-> count, should |-> should]

Steps ==
  {"idle", "ref_load", "ref_cas", "next_load", "take_cas", "release", "unref",
   "reload", "mark", "add_load", "next_store", "ref_store", "add_cas", "add_undo"}

FreeListTypeOK ==
  /\ freeListHead \in Nodes \cup {NoNode}
  /\ freeListRefs \in [Nodes -> [count : 0 .. Cardinality(Threads) + 1, should : BOOLEAN]]
  /\ freeListNext \in [Nodes -> Nodes \cup {NoNode}]
  /\ owned \in [Threads -> SUBSET Nodes]
  /\ pc \in [Threads -> Steps]
  /\ node \in [Threads -> Nodes \cup {NoNode}]
  /\ head \in [Threads -> Nodes \cup {NoNode}]
  /\ next \in [Threads -> Nodes \cup {NoNode}]
  /\ refs \in [Threads -> [count : 0 .. Cardinality(Threads) + 1, should : BOOLEAN]]
  /\ getting \in [Threads -> BOOLEAN]

\* Blocks reach the list by add() only: at first the callers hold them all.
FreeListInit ==
  /\ freeListHead = NoNode
  /\ freeListRefs = [n \in Nodes |-> Ref(0, FALSE)]
  /\ freeListNext = [n \in Nodes |-> NoNode]
  /\ \E holder \in [Nodes -> Threads] :
       owned = [t \in Threads |-> {n \in Nodes : holder[n] = t}]
  /\ pc = [t \in Threads |-> "idle"]
  /\ node = [t \in Threads |-> NoNode]
  /\ head = [t \in Threads |-> NoNode]
  /\ next = [t \in Threads |-> NoNode]
  /\ refs = [t \in Threads |-> Ref(0, FALSE)]
  /\ getting = [t \in Threads |-> FALSE]

At(t, step) == pc[t] = step
GoTo(t, step) == pc' = [pc EXCEPT ![t] = step]

\* A call returns; what its locals held no longer matters.
Return(t) ==
  /\ GoTo(t, "idle")
  /\ node' = [node EXCEPT ![t] = NoNode]
  /\ head' = [head EXCEPT ![t] = NoNode]
  /\ next' = [next EXCEPT ![t] = NoNode]
  /\ refs' = [refs EXCEPT ![t] = Ref(0, FALSE)]
  /\ getting' = [getting EXCEPT ![t] = FALSE]

-----------------------------------------------------------------------------
(* try_get() *)

\* while (head != nullptr): the loop goes on with h, or the call finds nothing.
LoopWith(t, h) ==
  IF h = NoNode
    THEN Return(t)
    ELSE /\ GoTo(t, "ref_load")
         /\ head' = [head EXCEPT ![t] = h]
         /\ node' = [node EXCEPT ![t] = h]
         /\ next' = [next EXCEPT ![t] = NoNode]
         /\ refs' = [refs EXCEPT ![t] = Ref(0, FALSE)]
         /\ getting' = [getting EXCEPT ![t] = TRUE]

\* A new call, or the loop after a count of zero or a lost compare-exchange.
LoadHead(t) ==
  /\ pc[t] \in {"idle", "reload"}
  /\ LoopWith(t, freeListHead)
  /\ UNCHANGED <<freeListHead, freeListRefs, freeListNext, owned>>

\* Mistake caught by ImplementsPool: a count of zero is not looked for.
LoadRefsUnchecked(t) ==
  /\ At(t, "ref_load")
  /\ refs' = [refs EXCEPT ![t] = freeListRefs[node[t]]]
  /\ GoTo(t, "ref_cas")
  /\ UNCHANGED <<freeListHead, freeListRefs, freeListNext, owned, node, head, next, getting>>

LoadRefs(t) ==
  /\ At(t, "ref_load")
  /\ refs' = [refs EXCEPT ![t] = freeListRefs[node[t]]]
  /\ GoTo(t, IF freeListRefs[node[t]].count = 0 THEN "reload" ELSE "ref_cas")
  /\ UNCHANGED <<freeListHead, freeListRefs, freeListNext, owned, node, head, next, getting>>

CasRefs(t) ==
  /\ At(t, "ref_cas")
  /\ IF freeListRefs[node[t]] = refs[t]
       THEN /\ freeListRefs' = [freeListRefs EXCEPT ![node[t]].count = @ + 1]
            /\ GoTo(t, "next_load")
       ELSE /\ GoTo(t, "reload")
            /\ UNCHANGED freeListRefs
  /\ UNCHANGED <<freeListHead, freeListNext, owned, node, head, refs, next, getting>>

LoadNext(t) ==
  /\ At(t, "next_load")
  /\ next' = [next EXCEPT ![t] = freeListNext[node[t]]]
  /\ GoTo(t, "take_cas")
  /\ UNCHANGED <<freeListHead, freeListRefs, freeListNext, owned, node, head, refs, getting>>

\* The node leaves the list for the caller, or head becomes the head that is there.
CasTake(t) ==
  /\ At(t, "take_cas")
  /\ IF freeListHead = head[t]
       THEN /\ freeListHead' = next[t]
            /\ owned' = [owned EXCEPT ![t] = @ \cup {node[t]}]
            /\ GoTo(t, "release")
            /\ UNCHANGED head
       ELSE /\ head' = [head EXCEPT ![t] = freeListHead]
            /\ GoTo(t, "unref")
            /\ UNCHANGED <<freeListHead, owned>>
  /\ UNCHANGED <<freeListRefs, freeListNext, node, refs, next, getting>>

\* fetch_sub(2): the caller's reference and the list's.
Release(t) ==
  /\ At(t, "release")
  /\ freeListRefs' = [freeListRefs EXCEPT ![node[t]].count = @ - 2]
  /\ Return(t)
  /\ UNCHANGED <<freeListHead, freeListNext, owned>>

\* Mistake caught by QuietListIsComplete: a mark left meanwhile is not looked at.
UnrefForgetsMark(t) ==
  /\ At(t, "unref")
  /\ freeListRefs' = [freeListRefs EXCEPT ![node[t]].count = @ - 1]
  /\ LoopWith(t, head[t])
  /\ UNCHANGED <<freeListHead, freeListNext, owned>>

\* fetch_sub(1) on prevHead; whoever drops the last reference of a marked node adds it.
Unref(t) ==
  /\ At(t, "unref")
  /\ freeListRefs' = [freeListRefs EXCEPT ![node[t]].count = @ - 1]
  /\ IF freeListRefs[node[t]] = Ref(1, TRUE)
       THEN /\ GoTo(t, "add_load")
            /\ UNCHANGED <<node, head, next, refs, getting>>
       ELSE LoopWith(t, head[t])
  /\ UNCHANGED <<freeListHead, freeListNext, owned>>

-----------------------------------------------------------------------------
(* add() and add_knowing_refcount_is_zero() *)

\* fetch_add(SHOULD_BE_ON_FREELIST): the caller gives the node up.
Mark(t, n) ==
  /\ At(t, "idle")
  /\ n \in owned[t]
  /\ owned' = [owned EXCEPT ![t] = @ \ {n}]
  /\ freeListRefs' = [freeListRefs EXCEPT ![n].should = TRUE]
  /\ IF freeListRefs[n].count = 0
       THEN /\ GoTo(t, "add_load")
            /\ node' = [node EXCEPT ![t] = n]
       ELSE UNCHANGED <<pc, node>>
  /\ UNCHANGED <<freeListHead, freeListNext, head, refs, next, getting>>

\* try_get() still needs its own head: next is free to hold the one of add.
LoadAddHead(t) ==
  /\ At(t, "add_load")
  /\ next' = [next EXCEPT ![t] = freeListHead]
  /\ GoTo(t, "next_store")
  /\ UNCHANGED <<freeListHead, freeListRefs, freeListNext, owned, node, head, refs, getting>>

StoreNext(t) ==
  /\ At(t, "next_store")
  /\ freeListNext' = [freeListNext EXCEPT ![node[t]] = next[t]]
  /\ GoTo(t, "ref_store")
  /\ UNCHANGED <<freeListHead, freeListRefs, owned, node, head, refs, next, getting>>

\* Mistake caught by CallersNodeIsOffTheList: the mark stays.
StoreRefsKeepsMark(t) ==
  /\ At(t, "ref_store")
  /\ freeListRefs' = [freeListRefs EXCEPT ![node[t]].count = 1]
  /\ GoTo(t, "add_cas")
  /\ UNCHANGED <<freeListHead, freeListNext, owned, node, head, refs, next, getting>>

\* store(1): the list's reference, and the mark is gone.
StoreRefs(t) ==
  /\ At(t, "ref_store")
  /\ freeListRefs' = [freeListRefs EXCEPT ![node[t]] = Ref(1, FALSE)]
  /\ GoTo(t, "add_cas")
  /\ UNCHANGED <<freeListHead, freeListNext, owned, node, head, refs, next, getting>>

\* Back in try_get() the loop goes on with its head; add() returns.
AddReturns(t) ==
  IF getting[t] THEN LoopWith(t, head[t]) ELSE Return(t)

CasAdd(t) ==
  /\ At(t, "add_cas")
  /\ IF freeListHead = next[t]
       THEN /\ freeListHead' = node[t]
            /\ AddReturns(t)
       ELSE /\ next' = [next EXCEPT ![t] = freeListHead]
            /\ GoTo(t, "add_undo")
            /\ UNCHANGED <<freeListHead, node, head, refs, getting>>
  /\ UNCHANGED <<freeListRefs, freeListNext, owned>>

\* fetch_add(SHOULD_BE_ON_FREELIST - 1): try again only if the count is zero again.
UndoAdd(t) ==
  /\ At(t, "add_undo")
  /\ freeListRefs' =
       [freeListRefs EXCEPT ![node[t]] = Ref(freeListRefs[node[t]].count - 1, TRUE)]
  /\ IF freeListRefs[node[t]] = Ref(1, FALSE)
       THEN /\ GoTo(t, "next_store")
            /\ UNCHANGED <<node, head, next, refs, getting>>
       ELSE AddReturns(t)
  /\ UNCHANGED <<freeListHead, freeListNext, owned>>

-----------------------------------------------------------------------------
TryGetStep(t) ==
  \/ LoadHead(t) \/ LoadRefs(t) \/ CasRefs(t) \/ LoadNext(t)
  \/ CasTake(t) \/ Release(t) \/ Unref(t)

AddStep(t) ==
  \/ \E n \in Nodes : Mark(t, n)
  \/ LoadAddHead(t) \/ StoreNext(t) \/ StoreRefs(t) \/ CasAdd(t) \/ UndoAdd(t)

FreeListStep == \E t \in Threads : TryGetStep(t) \/ AddStep(t)

FreeListSpec == FreeListInit /\ [][FreeListStep]_freeListVars

-----------------------------------------------------------------------------
(* Properties *)

\* The node k links down from the head, NoNode below the last one.
NodeAt[k \in 0 .. Cardinality(Nodes)] ==
  IF k = 0 THEN freeListHead
  ELSE IF NodeAt[k - 1] = NoNode THEN NoNode
  ELSE freeListNext[NodeAt[k - 1]]

OnList == {NodeAt[k] : k \in 0 .. Cardinality(Nodes)} \ {NoNode}

AddSteps == {"add_load", "next_store", "ref_store", "add_cas", "add_undo"}

Adders(n) == {t \in Threads : pc[t] \in AddSteps /\ node[t] = n}

Marked == {n \in Nodes : freeListRefs[n].should}

BeingAdded == {n \in Nodes : Adders(n) # {}}

\* add() relies on "the should-be-on-freelist bit is 0 at this point", try_get()
\* asserts it after its compare-exchange on the head, and only one thread at a
\* time runs add_knowing_refcount_is_zero() on a node: a node in the hands of a
\* caller is neither marked, nor linked, nor about to be linked by someone who
\* still acts on an older mark.
CallersNodeIsOffTheList ==
  /\ \A t \in Threads : owned[t] \cap (Marked \cup OnList \cup BeingAdded) = {}
  /\ \A n \in Nodes : Cardinality(Adders(n)) <= 1

\* When no call is running every node is with a caller or on the list, once,
\* and the counts are back to the list's own reference: no interleaving of lost
\* compare-exchanges leaves a node behind, counted too often or marked for good.
QuietListIsComplete ==
  (\A t \in Threads : At(t, "idle")) =>
    /\ OnList = Nodes \ UNION {owned[t] : t \in Threads}
    /\ NodeAt[Cardinality(Nodes)] = NoNode
    /\ \A n \in Nodes : freeListRefs[n] = Ref(IF n \in OnList THEN 1 ELSE 0, FALSE)

Pool == INSTANCE NodePool WITH pool <- OnList \cup Marked \cup BeingAdded

\* The list implements the pool: a node is in the pool from the moment add() has
\* marked it to the moment a compare-exchange takes it off the head, whoever
\* links it in between; every other access is invisible to the callers.
ImplementsPool == Pool!PoolSpec
=============================================================================
