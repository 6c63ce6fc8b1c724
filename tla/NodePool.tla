------------------------------ MODULE NodePool ------------------------------
(***************************************************************************)
(* What FreeList of concurrentqueue.h promises to its callers: a pool that *)
(* threads give nodes to and take nodes from.  A node is in the pool or    *)
(* in the hands of one thread.  A thread that asks may be told that there  *)
(* is none although there is one (a stutter here): the caller of try_get() *)
(* then allocates a block or gives up.                                     *)
(***************************************************************************)
CONSTANTS Nodes, Threads

VARIABLES pool,   \* the nodes that may be taken
          owned   \* [Threads -> SUBSET Nodes], the nodes each thread holds

PoolInit ==
  /\ pool = {}
  /\ owned \in [Threads -> SUBSET Nodes]
  /\ \A s, t \in Threads : s # t => owned[s] \cap owned[t] = {}

Give(t, n) ==
  /\ n \in owned[t]
  /\ pool' = pool \cup {n}
  /\ owned' = [owned EXCEPT ![t] = @ \ {n}]

Take(t, n) ==
  /\ n \in pool
  /\ pool' = pool \ {n}
  /\ owned' = [owned EXCEPT ![t] = @ \cup {n}]

PoolNext == \E t \in Threads, n \in Nodes : Give(t, n) \/ Take(t, n)

PoolSpec == PoolInit /\ [][PoolNext]_<<pool, owned>>
=============================================================================
