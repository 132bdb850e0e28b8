----------------------------- MODULE FifoQueue -----------------------------
(***************************************************************************)
(* What Container::MPSCQueue promises its users (Channel and Connection):  *)
(* a first-in first-out queue that any number of threads add to and one    *)
(* thread takes from.  A message is <<producer, k>>, the k-th one that     *)
(* producer adds.                                                          *)
(***************************************************************************)
EXTENDS Naturals, Sequences

CONSTANTS Producers,   \* the threads that push
          MaxPush      \* bound: pushes of one producer

VARIABLES pushed,      \* pushed[p]: how many messages p has added
          queue,       \* the messages in the queue, oldest first
          delivered    \* the messages taken out, in the order they were taken

vars == <<pushed, queue, delivered>>

Init ==
    /\ pushed = [p \in Producers |-> 0]
    /\ queue = <<>>
    /\ delivered = <<>>

Enqueue(p) ==
    /\ pushed[p] < MaxPush
    /\ pushed' = [pushed EXCEPT ![p] = @ + 1]
    /\ queue' = Append(queue, <<p, pushed[p] + 1>>)
    /\ UNCHANGED delivered

Dequeue ==
    /\ queue # <<>>
    /\ delivered' = Append(delivered, Head(queue))
    /\ queue' = Tail(queue)
    /\ UNCHANGED pushed

Next == (\E p \in Producers : Enqueue(p)) \/ Dequeue

Spec == Init /\ [][Next]_vars
=============================================================================
