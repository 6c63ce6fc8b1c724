----------------------------- MODULE BoundedFifo -----------------------------
(***************************************************************************)
(* What a single-producer single-consumer queue promises, with nothing of  *)
(* how it is built: items leave in the order they entered, none is lost,   *)
(* duplicated or invented, and at most Bound of them wait at a time.       *)
(***************************************************************************)
EXTENDS Naturals, Sequences

CONSTANTS Items,    \* what may be put into the queue
          Bound     \* how many items may wait

VARIABLES queue,      \* the items that wait, oldest first
          delivered   \* every item taken out so far, oldest first

fifoVars == <<queue, delivered>>

FifoInit == queue = <<>> /\ delivered = <<>>

Put(x) == /\ Len(queue) < Bound
          /\ queue' = Append(queue, x)
          /\ UNCHANGED delivered

Get == /\ queue # <<>>
       /\ queue' = Tail(queue)
       /\ delivered' = Append(delivered, Head(queue))

FifoNext == (\E x \in Items : Put(x)) \/ Get

\* Nobody is obliged to put, but what waits is eventually taken.
FifoSafety == FifoInit /\ [][FifoNext]_fifoVars
FifoSpec == FifoSafety /\ WF_fifoVars(Get)
==============================================================================
