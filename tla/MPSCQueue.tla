----------------------------- MODULE MPSCQueue -----------------------------
(***************************************************************************)
(* Container::MPSCQueue (Core/Container/MPSC.h): the node-based queue of   *)
(* Vyukov.  Producers swing _head with one atomic exchange and then link   *)
(* the node they displaced to their own; the one consumer follows the      *)
(* links from _tail.  Between the exchange and the link the list is cut.   *)
(*                                                                         *)
(* A node is named by the message it was allocated for: <<p, k>> is the    *)
(* k-th node producer p allocates, Stub the node of the constructor.       *)
(* _count is a size_t that only these atomic operations touch; it is kept  *)
(* as an integer, the signed reading of the two's-complement word, since   *)
(* a pop can run before the push it undoes has been counted.               *)
(***************************************************************************)
EXTENDS Integers, Sequences, FiniteSets

CONSTANTS Producers,   \* threads that push
          MaxPush,     \* bound: pushes of one producer
          Stub,        \* the dummy node the constructor allocates
          Null         \* nullptr

Message == Producers \X (1..MaxPush)
Node == Message \cup {Stub}

(* What the theorems about the queue ask of its parameters; ActorScheduler *)
(* and MCMPSCQueue assume it.                                              *)
MPSCAssumption ==
    /\ IsFiniteSet(Producers)
    /\ MaxPush \in Nat
    /\ Stub \notin Message
    /\ Null \notin Node

VARIABLES
    head,      \* _head: the node pushed last
    tail,      \* _tail: the node popped last
    next,      \* next[n]: the link of node n
    count,     \* _count
    freed,     \* nodes deleted by the consumer
    pc,        \* pc[p]: where producer p is in Push; IncreaseNodeCount(1)
    prev,      \* prev[p]: its local prev_head
    sent,      \* sent[p]: nodes p has allocated
    cpc,       \* where the consumer is in TryPop
    old,       \* its local "tail", the node it is about to delete
    out,       \* history: the messages TryPop returned, in order
    order      \* history: the nodes in the order of the exchanges

producerVars == <<pc, prev, sent>>
consumerVars == <<cpc, old, out>>
vars == <<head, tail, next, count, freed, pc, prev, sent, cpc, old, out, order>>

Mine(p) == <<p, sent[p]>>

Init ==
    /\ head = Stub /\ tail = Stub
    /\ next = [n \in Node |-> Null]
    /\ count = 0
    /\ freed = {}
    /\ pc = [p \in Producers |-> "idle"]
    /\ prev = [p \in Producers |-> Stub]
    /\ sent = [p \in Producers |-> 0]
    /\ cpc = "idle" /\ old = Stub
    /\ out = <<>>
    /\ order = <<Stub>>

-----------------------------------------------------------------------------
(* Push: the new node (its next is null) replaces _head in one exchange.   *)

Exchange(p) ==
    /\ pc[p] = "idle" /\ sent[p] < MaxPush
    /\ LET n == <<p, sent[p] + 1>>
       IN  /\ sent' = [sent EXCEPT ![p] = @ + 1]
           /\ prev' = [prev EXCEPT ![p] = head]
           /\ head' = n
           /\ order' = Append(order, n)
    /\ pc' = [pc EXCEPT ![p] = "link"]
    /\ UNCHANGED <<tail, next, count, freed, consumerVars>>

(* Mutant: the store of the link is forgotten. *)
LinkNothing(p) ==
    /\ pc[p] = "link"
    /\ pc' = [pc EXCEPT ![p] = "count"]
    /\ UNCHANGED <<head, tail, next, count, freed, prev, sent, consumerVars, order>>

(* prev_head->next.store(node) *)
Link(p) ==
    /\ pc[p] = "link"
    /\ next' = [next EXCEPT ![prev[p]] = Mine(p)]
    /\ pc' = [pc EXCEPT ![p] = "count"]
    /\ UNCHANGED <<head, tail, count, freed, prev, sent, consumerVars, order>>

(* IncreaseNodeCount(1), which every user calls after Push; the value it   *)
(* returns is the unprimed count.                                          *)
IncreaseNodeCount(p) ==
    /\ pc[p] = "count"
    /\ count' = count + 1
    /\ pc' = [pc EXCEPT ![p] = "idle"]
    /\ UNCHANGED <<head, tail, next, freed, prev, sent, consumerVars, order>>

-----------------------------------------------------------------------------
(* TryPop.  It returns false, changing nothing, when the tail has no link. *)

(* Mutant: TryPop compares _tail with _head instead of loading the link. *)
HeadMoved == tail # head

CanPop == next[tail] # Null

PopAdvance ==
    /\ cpc = "idle" /\ CanPop
    /\ out' = Append(out, next[tail])
    /\ old' = tail
    /\ tail' = next[tail]
    /\ cpc' = "uncount"
    /\ UNCHANGED <<head, next, count, freed, producerVars, order>>

(* Mutant: fetch_sub is left to the caller, as Channel::Dispatched would.  *)
PopKeepsCount ==
    /\ cpc = "uncount"
    /\ cpc' = "free"
    /\ UNCHANGED <<head, tail, next, count, freed, producerVars, old, out, order>>

PopUncount ==
    /\ cpc = "uncount"
    /\ count' = count - 1
    /\ cpc' = "free"
    /\ UNCHANGED <<head, tail, next, freed, producerVars, old, out, order>>

(* Mutant: deletes the node just returned, which is the new tail. *)
PopFreesNext ==
    /\ cpc = "free"
    /\ freed' = freed \cup {tail}
    /\ cpc' = "idle"
    /\ UNCHANGED <<head, tail, next, count, producerVars, old, out, order>>

PopFree ==
    /\ cpc = "free"
    /\ freed' = freed \cup {old}
    /\ cpc' = "idle"
    /\ UNCHANGED <<head, tail, next, count, producerVars, old, out, order>>

Produce(p) == Exchange(p) \/ Link(p) \/ IncreaseNodeCount(p)
Consume == PopAdvance \/ PopUncount \/ PopFree

Next == (\E p \in Producers : Produce(p)) \/ Consume

Spec == Init /\ [][Next]_vars

(* A thread inside Push is running and the consumer keeps calling TryPop;  *)
(* nothing obliges a thread to start a push.                               *)
Fairness ==
    /\ \A p \in Producers : WF_vars(Link(p)) /\ WF_vars(IncreaseNodeCount(p))
    /\ WF_vars(Consume)

FairSpec == Spec /\ Fairness

-----------------------------------------------------------------------------
(* The values the variables range over. *)
TypeOK ==
    /\ head \in Node /\ tail \in Node
    /\ next \in [Node -> Node \cup {Null}]
    /\ count \in Int
    /\ freed \subseteq Node
    /\ pc \in [Producers -> {"idle", "link", "count"}]
    /\ prev \in [Producers -> Node]
    /\ sent \in [Producers -> 0..MaxPush]
    /\ cpc \in {"idle", "uncount", "free"}
    /\ old \in Node
    /\ out \in Seq(Message)
    /\ order \in Seq(Node)

(* The shape of the list: the nodes in the order of the exchanges, each    *)
(* linked to its successor unless the producer of the successor is still   *)
(* between its exchange and its store, with everything behind the tail     *)
(* linked, returned and deleted.  It is the inductive heart of the proofs  *)
(* about the queue (ActorSchedulerProofs).                                 *)
Popped == 1..Len(out)
PendingLink(i) == \E p \in Producers :
                     /\ pc[p] = "link"
                     /\ prev[p] = order[i]
                     /\ Mine(p) = order[i + 1]

OrderShape ==
    /\ Len(order) >= 1 /\ order[1] = Stub
    /\ \A i \in 2..Len(order) : order[i] \in Message
    /\ \A i, j \in 1..Len(order) : order[i] = order[j] => i = j
    /\ head = order[Len(order)]

OrderContents ==
    /\ \A i \in 2..Len(order) : order[i][2] <= sent[order[i][1]]
    /\ \A p \in Producers : \A k \in 1..sent[p] :
          \E i \in 2..Len(order) : order[i] = <<p, k>>
    /\ \A i, j \in 2..Len(order) :
          i < j /\ order[i][1] = order[j][1] => order[i][2] < order[j][2]

LinkShape ==
    /\ \A i \in 1..(Len(order) - 1) :
          \/ next[order[i]] = order[i + 1]
          \/ next[order[i]] = Null /\ PendingLink(i)
    /\ next[head] = Null
    /\ \A n \in Node : (\A i \in 1..Len(order) : order[i] # n) => next[n] = Null
    /\ \A p \in Producers : pc[p] = "link" =>
          \E i \in 1..(Len(order) - 1) :
             prev[p] = order[i] /\ Mine(p) = order[i + 1] /\ next[order[i]] = Null
    /\ \A p \in Producers : pc[p] # "idle" => sent[p] >= 1

PopShape ==
    /\ Len(out) < Len(order)
    /\ tail = order[Len(out) + 1]
    /\ \A i \in Popped : out[i] = order[i + 1] /\ next[order[i]] = order[i + 1]
    /\ cpc = "idle" => freed = {order[i] : i \in Popped}
    /\ cpc # "idle" => /\ Len(out) >= 1 /\ old = order[Len(out)]
                       /\ freed = {order[i] : i \in 1..(Len(out) - 1)}

ListShape == OrderShape /\ OrderContents /\ LinkShape /\ PopShape

(* Every producer's messages come out once each, in the order it pushed    *)
(* them and without a gap, whatever the interleaving of the exchanges and  *)
(* the links of several producers (MPSC.h, Push and TryPop).               *)
PerProducerFifo ==
    \A i \in 1..Len(out) :
        \A k \in 1..MaxPush :
            k < out[i][2] <=> \E j \in 1..(i - 1) : out[j] = <<out[i][1], k>>

(* No thread can still touch a deleted node: not the next exchange, not    *)
(* the consumer's next load, not the link a producer has yet to store      *)
(* (MPSC.h, the delete of TryPop against the store of Push).               *)
NoUseAfterFree ==
    /\ head \notin freed
    /\ tail \notin freed
    /\ cpc # "idle" => old \notin freed
    /\ \A p \in Producers : pc[p] = "link" => prev[p] \notin freed

(* When no Push and no TryPop is half done, a tail without a link means    *)
(* that every message has been delivered: an empty answer is the truth.    *)
Quiescent == cpc = "idle" /\ \A p \in Producers : pc[p] = "idle"

EmptyMeansDrained ==
    Quiescent /\ ~CanPop => \A p \in Producers : \A k \in 1..sent[p] :
                               \E i \in 1..Len(out) : out[i] = <<p, k>>

(* The count that Channel and Connection take their wake-up decision from  *)
(* is the number of undelivered messages whenever no operation is half     *)
(* done, and is off by at most the pushes in progress when one is.         *)
Uncounted == {p \in Producers : pc[p] # "idle"}
CountTracksQueue ==
    count + Cardinality(Uncounted) + Len(out)
        = Len(order) - 1 + (IF cpc = "uncount" THEN 1 ELSE 0)

(* Every message that was exchanged in is eventually returned by TryPop,   *)
(* even if its predecessor's producer was still about to link it.          *)
Delivery ==
    \A p \in Producers : \A k \in 1..MaxPush :
        sent[p] >= k ~> \E i \in 1..Len(out) : out[i] = <<p, k>>

(* The queue implements FifoQueue: an exchange is the moment a message     *)
(* enters, the advance of the tail the moment it leaves.                   *)
Fifo == INSTANCE FifoQueue
            WITH pushed <- sent,
                 queue <- SubSeq(order, Len(out) + 2, Len(order)),
                 delivered <- out
ImplementsFifo == Fifo!Spec
=============================================================================
