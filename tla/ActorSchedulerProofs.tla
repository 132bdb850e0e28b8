------------------------ MODULE ActorSchedulerProofs ------------------------
(***************************************************************************)
(* Proofs about the actor runtime and the queue it is built on, for any    *)
(* number of threads, workers and pushes.                                  *)
(*                                                                         *)
(* First MPSCQueue by itself: the shape of the linked list is an inductive *)
(* invariant, and from it follow the order of delivery, the absence of use *)
(* after free, the meaning of an empty answer, the exactness of the count, *)
(* and that the queue implements FifoQueue.                                *)
(*                                                                         *)
(* Then ActorScheduler: its steps are steps of the queue, so the queue's   *)
(* theorems hold of it, and with them who holds the channel and when it is *)
(* woken.                                                                  *)
(***************************************************************************)
EXTENDS ActorScheduler, FiniteSetTheorems, SequenceTheorems, TLAPS

Ind == TypeOK /\ ListShape

(* A queue just constructed has the shape. *)
LEMMA InitInd ==
  ASSUME MPSCAssumption
  PROVE  Init => Ind
<1> SUFFICES ASSUME Init PROVE Ind
  OBVIOUS
<1> USE DEF MPSCAssumption
<1>1. TypeOK
  BY DEF Init, TypeOK, Node, Message
<1>2. OrderShape
  BY DEF Init, OrderShape, Node, Message
<1>3. OrderContents
  BY DEF Init, OrderContents, Message
<1>4. LinkShape
  BY DEF Init, LinkShape, PendingLink, Node
<1>5. PopShape
  BY DEF Init, PopShape, Popped
<1> QED
  BY <1>1, <1>2, <1>3, <1>4, <1>5 DEF Ind, ListShape

-----------------------------------------------------------------------------
(* The new node becomes the last of the order, and the node it displaced   *)
(* is the one its producer has yet to link.                                *)
LEMMA ExchangeInd ==
  ASSUME MPSCAssumption, Ind, NEW p \in Producers, Exchange(p)
  PROVE  Ind'
<1> USE DEF MPSCAssumption
<1> DEFINE n == <<p, sent[p] + 1>>
           N == Len(order)
<1>1. n \in Message /\ n \in Node /\ N \in Nat /\ Len(out) \in Nat
  BY DEF Ind, TypeOK, Exchange, Message, Node
<1>2. order' = Append(order, n) /\ Len(order') = N + 1 /\ order' \in Seq(Node)
  BY <1>1 DEF Ind, TypeOK, Exchange
<1>3. /\ \A i \in 1..N : order'[i] = order[i]
      /\ order'[N + 1] = n
  BY <1>1, <1>2 DEF Ind, TypeOK
<1>4. \A i \in 1..N : order[i] # n
  <2> SUFFICES ASSUME NEW i \in 1..N, order[i] = n PROVE FALSE
    OBVIOUS
  <2>1. i \in 2..N
    BY <1>1 DEF Ind, ListShape, OrderShape, Message
  <2>2. order[i][2] <= sent[order[i][1]]
    BY <2>1 DEF Ind, ListShape, OrderContents
  <2> QED
    BY <2>2 DEF Ind, TypeOK
<1>5. TypeOK'
  BY <1>1, <1>2 DEF Ind, TypeOK, Exchange, consumerVars
<1>6. OrderShape'
  <2>1. Len(order') >= 1 /\ order'[1] = Stub
    BY <1>1, <1>2, <1>3 DEF Ind, ListShape, OrderShape
  <2>2. \A i \in 2..Len(order') : order'[i] \in Message
    BY <1>1, <1>2, <1>3 DEF Ind, ListShape, OrderShape
  <2>3. \A i, j \in 1..Len(order') : order'[i] = order'[j] => i = j
    <3>1. \A i, j \in 1..N : order[i] = order[j] => i = j
      BY DEF Ind, ListShape, OrderShape
    <3>2. \A i \in 1..(N + 1) : i \in 1..N \/ i = N + 1
      BY <1>1
    <3> QED
      BY <1>2, <1>3, <1>4, <3>1, <3>2
  <2>4. head' = order'[Len(order')]
    BY <1>2, <1>3 DEF Exchange
  <2> QED
    BY <2>1, <2>2, <2>3, <2>4 DEF OrderShape
<1>7. OrderContents'
  <2>0. sent' = [sent EXCEPT ![p] = @ + 1] /\ sent \in [Producers -> 0..MaxPush]
    BY DEF Exchange, Ind, TypeOK
  <2>1. \A i \in 2..Len(order') : order'[i][2] <= sent'[order'[i][1]]
    <3> SUFFICES ASSUME NEW i \in 2..Len(order')
                 PROVE  order'[i][2] <= sent'[order'[i][1]]
      OBVIOUS
    <3>1. CASE i = N + 1
      BY <3>1, <2>0, <1>3
    <3>2. CASE i \in 2..N
      <4>1. order'[i] = order[i] /\ order[i] \in Message
        BY <3>2, <1>1, <1>3 DEF Ind, ListShape, OrderShape
      <4>2. order[i][2] <= sent[order[i][1]]
        BY <3>2 DEF Ind, ListShape, OrderContents
      <4>3. order[i][1] \in Producers /\ order[i][2] \in 1..MaxPush
        BY <4>1 DEF Message
      <4>4. sent[order[i][1]] <= sent'[order[i][1]]
        BY <2>0, <4>3
      <4> QED
        BY <4>1, <4>2, <4>3, <4>4, <2>0
    <3> QED
      BY <3>1, <3>2, <1>1, <1>2
  <2>2. ASSUME NEW q \in Producers, NEW k \in 1..sent'[q]
        PROVE  \E i \in 2..Len(order') : order'[i] = <<q, k>>
    <3>1. CASE k \in 1..sent[q]
      <4>1. PICK i \in 2..N : order[i] = <<q, k>>
        BY <3>1 DEF Ind, ListShape, OrderContents
      <4> QED
        BY <4>1, <1>1, <1>2, <1>3
    <3>2. CASE k \notin 1..sent[q]
      <4>1. q = p /\ k = sent[p] + 1
        BY <3>2, <2>0
      <4> QED
        BY <4>1, <1>1, <1>2, <1>3 DEF Ind, ListShape, OrderShape
    <3> QED
      BY <3>1, <3>2
  <2>3. ASSUME NEW i \in 2..Len(order'), NEW j \in 2..Len(order'),
               i < j, order'[i][1] = order'[j][1]
        PROVE  order'[i][2] < order'[j][2]
    <3>1. i \in 2..N /\ order'[i] = order[i]
      BY <2>3, <1>1, <1>2, <1>3
    <3>2. CASE j = N + 1
      <4>1. order[i][2] <= sent[order[i][1]] /\ order[i] \in Message
        BY <3>1 DEF Ind, ListShape, OrderContents, OrderShape
      <4>2. order'[j] = n /\ order[i][1] = p
        BY <3>1, <3>2, <2>3, <1>3
      <4> QED
        BY <4>1, <4>2, <3>1, <2>0 DEF Message
    <3>3. CASE j \in 2..N
      BY <3>1, <3>3, <2>3, <1>3, <1>1 DEF Ind, ListShape, OrderContents
    <3> QED
      BY <3>2, <3>3, <1>1, <1>2
  <2> QED
    BY <2>1, <2>2, <2>3 DEF OrderContents
<1>8. LinkShape'
  <2>0. /\ pc' = [pc EXCEPT ![p] = "link"] /\ prev' = [prev EXCEPT ![p] = head]
        /\ sent' = [sent EXCEPT ![p] = @ + 1] /\ next' = next /\ head' = n
        /\ pc[p] = "idle"
        /\ pc \in [Producers -> {"idle", "link", "count"}]
        /\ prev \in [Producers -> Node] /\ sent \in [Producers -> 0..MaxPush]
    BY DEF Exchange, Ind, TypeOK
  <2>1. pc'[p] = "link" /\ prev'[p] = order[N] /\ Mine(p)' = n
    BY <2>0 DEF Mine, Ind, ListShape, OrderShape
  <2>2. \A q \in Producers : q # p =>
           pc'[q] = pc[q] /\ prev'[q] = prev[q] /\ Mine(q)' = Mine(q)
    BY <2>0 DEF Mine
  <2>3. ASSUME NEW i \in 1..(Len(order') - 1)
        PROVE  \/ next'[order'[i]] = order'[i + 1]
               \/ next'[order'[i]] = Null /\ PendingLink(i)'
    <3>1. CASE i = N
      <4>1. next[order[N]] = Null
        BY DEF Ind, ListShape, LinkShape, OrderShape
      <4>2. PendingLink(i)'
        BY <3>1, <2>1, <1>1, <1>3 DEF PendingLink, Ind, ListShape, OrderShape
      <4> QED
        BY <3>1, <4>1, <4>2, <2>0, <1>3, <1>1 DEF Ind, ListShape, OrderShape
    <3>2. CASE i \in 1..(N - 1)
      <4>1. order'[i] = order[i] /\ order'[i + 1] = order[i + 1]
        BY <3>2, <1>1, <1>3
      <4>2. \/ next[order[i]] = order[i + 1]
            \/ next[order[i]] = Null /\ PendingLink(i)
        BY <3>2 DEF Ind, ListShape, LinkShape
      <4>3. PendingLink(i) => PendingLink(i)'
        BY <4>1, <2>0, <2>2 DEF PendingLink
      <4> QED
        BY <4>1, <4>2, <4>3, <2>0
    <3> QED
      BY <3>1, <3>2, <1>1, <1>2
  <2>4. next'[head'] = Null
    BY <2>0, <1>1, <1>4 DEF Ind, ListShape, LinkShape
  <2>5. ASSUME NEW m \in Node, \A i \in 1..Len(order') : order'[i] # m
        PROVE  next'[m] = Null
    <3>1. \A i \in 1..N : order[i] # m
      BY <2>5, <1>1, <1>2, <1>3
    <3> QED
      BY <2>5, <3>1, <2>0 DEF Ind, ListShape, LinkShape
  <2>6. ASSUME NEW q \in Producers, pc'[q] = "link"
        PROVE  \E i \in 1..(Len(order') - 1) :
                  /\ prev'[q] = order'[i]
                  /\ Mine(q)' = order'[i + 1]
                  /\ next'[order'[i]] = Null
    <3>1. CASE q = p
      <4>1. N \in 1..(Len(order') - 1) /\ order'[N] = order[N]
        BY <1>1, <1>2, <1>3 DEF Ind, ListShape, OrderShape
      <4>2. next[order[N]] = Null
        BY DEF Ind, ListShape, LinkShape, OrderShape
      <4> QED
        BY <3>1, <4>1, <4>2, <2>0, <2>1, <1>3
    <3>2. CASE q # p
      <4>1. pc[q] = "link"
        BY <3>2, <2>6, <2>2
      <4>2. PICK i \in 1..(N - 1) :
               prev[q] = order[i] /\ Mine(q) = order[i + 1] /\ next[order[i]] = Null
        BY <4>1 DEF Ind, ListShape, LinkShape
      <4>3. i \in 1..(Len(order') - 1) /\ order'[i] = order[i] /\ order'[i + 1] = order[i + 1]
        BY <1>1, <1>2, <1>3
      <4> QED
        BY <3>2, <4>2, <4>3, <2>0, <2>2
    <3> QED
      BY <3>1, <3>2
  <2>7. \A q \in Producers : pc'[q] # "idle" => sent'[q] >= 1
    BY <2>0 DEF Ind, ListShape, LinkShape
  <2> QED
    BY <2>3, <2>4, <2>5, <2>6, <2>7 DEF LinkShape
<1>9. PopShape'
  <2>1. /\ out' = out /\ tail' = tail /\ next' = next /\ cpc' = cpc
        /\ old' = old /\ freed' = freed
    BY DEF Exchange, consumerVars
  <2>2. Len(out) < N
    BY DEF Ind, ListShape, PopShape
  <2>3. \A i \in 1..(Len(out) + 1) : order'[i] = order[i]
    BY <2>2, <1>1, <1>3
  <2>4. {order'[i] : i \in 1..Len(out)} = {order[i] : i \in 1..Len(out)}
    BY <2>3, <1>1
  <2>5. {order'[i] : i \in 1..(Len(out) - 1)} = {order[i] : i \in 1..(Len(out) - 1)}
    BY <2>3, <1>1
  <2>6. /\ Len(out') < Len(order')
        /\ tail' = order'[Len(out') + 1]
    BY <2>1, <2>2, <2>3, <1>1, <1>2 DEF Ind, ListShape, PopShape
  <2>7. \A i \in 1..Len(out') : out'[i] = order'[i + 1] /\ next'[order'[i]] = order'[i + 1]
    <3>1. \A i \in 1..Len(out) : out[i] = order[i + 1] /\ next[order[i]] = order[i + 1]
      BY DEF Ind, ListShape, PopShape, Popped
    <3>2. \A i \in 1..Len(out) : order'[i] = order[i] /\ order'[i + 1] = order[i + 1]
      BY <2>3, <1>1
    <3> QED
      BY <2>1, <3>1, <3>2
  <2>8. cpc' = "idle" => freed' = {order'[i] : i \in 1..Len(out')}
    <3>1. cpc = "idle" => freed = {order[i] : i \in 1..Len(out)}
      BY DEF Ind, ListShape, PopShape, Popped
    <3>2. cpc' = cpc /\ freed' = freed /\ out' = out
      BY <2>1
    <3> QED
      BY <3>1, <3>2, <2>4
  <2>9. cpc' # "idle" => /\ Len(out') >= 1 /\ old' = order'[Len(out')]
                         /\ freed' = {order'[i] : i \in 1..(Len(out') - 1)}
    <3>1. cpc # "idle" => /\ Len(out) >= 1 /\ old = order[Len(out)]
                          /\ freed = {order[i] : i \in 1..(Len(out) - 1)}
      BY DEF Ind, ListShape, PopShape
    <3>2. Len(out) >= 1 => order'[Len(out)] = order[Len(out)]
      BY <2>3, <1>1
    <3> QED
      BY <3>1, <3>2, <2>1, <2>5
  <2> QED
    BY <2>6, <2>7, <2>8, <2>9 DEF PopShape, Popped
<1> QED
  BY <1>5, <1>6, <1>7, <1>8, <1>9 DEF Ind, ListShape

-----------------------------------------------------------------------------
(* The store of a link closes the one cut its producer had opened. *)
LEMMA LinkInd ==
  ASSUME MPSCAssumption, Ind, NEW p \in Producers, Link(p)
  PROVE  Ind'
<1> USE DEF MPSCAssumption
<1> DEFINE N == Len(order)
<1>1. N \in Nat /\ Len(out) \in Nat /\ pc[p] = "link" /\ N >= 1
  BY DEF Ind, TypeOK, Link, ListShape, OrderShape
<1>2. PICK c \in 1..(N - 1) :
        prev[p] = order[c] /\ Mine(p) = order[c + 1] /\ next[order[c]] = Null
  BY <1>1 DEF Ind, ListShape, LinkShape
<1>3. /\ order[c] \in Node /\ order[c + 1] \in Message /\ order[c + 1] \in Node
      /\ \A i \in 1..N : order[i] \in Node
  BY <1>1, <1>2 DEF Ind, TypeOK, ListShape, OrderShape, Node
<1>4. /\ next' = [next EXCEPT ![order[c]] = order[c + 1]]
      /\ pc' = [pc EXCEPT ![p] = "count"]
      /\ head' = head /\ tail' = tail /\ count' = count /\ freed' = freed
      /\ prev' = prev /\ sent' = sent /\ cpc' = cpc /\ old' = old
      /\ out' = out /\ order' = order
  BY <1>2 DEF Link, consumerVars
<1>5. next \in [Node -> Node \cup {Null}] /\ pc \in [Producers -> {"idle", "link", "count"}]
  BY DEF Ind, TypeOK
<1>6. next'[order[c]] = order[c + 1] /\ \A m \in Node : m # order[c] => next'[m] = next[m]
  BY <1>3, <1>4, <1>5
<1>7. \A i \in 1..N : i # c => order[i] # order[c] /\ next'[order[i]] = next[order[i]]
  BY <1>1, <1>2, <1>3, <1>6 DEF Ind, ListShape, OrderShape
<1>8. \A q \in Producers : Mine(q)' = Mine(q)
  BY <1>4 DEF Mine
<1>9. TypeOK'
  BY <1>3, <1>4, <1>5 DEF Ind, TypeOK
<1>10. OrderShape' /\ OrderContents'
  BY <1>4 DEF Ind, ListShape, OrderShape, OrderContents
<1>11. LinkShape'
  <2>1. ASSUME NEW i \in 1..(N - 1)
        PROVE  \/ next'[order[i]] = order[i + 1]
               \/ next'[order[i]] = Null /\ PendingLink(i)'
    <3>1. CASE i = c
      BY <3>1, <1>6
    <3>2. CASE i # c
      <4>1. next'[order[i]] = next[order[i]] /\ order[i] # order[c]
        BY <3>2, <1>1, <1>7
      <4>2. PendingLink(i) => PendingLink(i)'
        <5> SUFFICES ASSUME PendingLink(i) PROVE PendingLink(i)'
          OBVIOUS
        <5>1. PICK q \in Producers :
                 pc[q] = "link" /\ prev[q] = order[i] /\ Mine(q) = order[i + 1]
          BY DEF PendingLink
        <5>2. q # p
          BY <5>1, <4>1, <1>2
        <5> QED
          BY <5>1, <5>2, <1>4, <1>5, <1>8 DEF PendingLink
      <4> QED
        BY <4>1, <4>2 DEF Ind, ListShape, LinkShape
    <3> QED
      BY <3>1, <3>2
  <2>2. next'[head'] = Null
    BY <1>1, <1>2, <1>4, <1>7 DEF Ind, ListShape, LinkShape, OrderShape
  <2>3. \A m \in Node : (\A i \in 1..N : order[i] # m) => next'[m] = Null
    BY <1>1, <1>2, <1>6 DEF Ind, ListShape, LinkShape
  <2>4. ASSUME NEW q \in Producers, pc'[q] = "link"
        PROVE  \E i \in 1..(N - 1) :
                  prev[q] = order[i] /\ Mine(q) = order[i + 1] /\ next'[order[i]] = Null
    <3>1. q # p /\ pc[q] = "link"
      BY <2>4, <1>4, <1>5
    <3>2. PICK i \in 1..(N - 1) :
             prev[q] = order[i] /\ Mine(q) = order[i + 1] /\ next[order[i]] = Null
      BY <3>1 DEF Ind, ListShape, LinkShape
    <3>3. i # c
      BY <3>1, <3>2, <1>2 DEF Mine
    <3>4. next'[order[i]] = next[order[i]]
      BY <3>3, <1>1, <1>7
    <3> QED
      BY <3>2, <3>4
  <2>5. \A q \in Producers : pc'[q] # "idle" => sent[q] >= 1
    BY <1>1, <1>4, <1>5 DEF Ind, ListShape, LinkShape
  <2> QED
    BY <2>1, <2>2, <2>3, <2>4, <2>5, <1>4, <1>8 DEF LinkShape
<1>12. PopShape'
  <2>1. \A i \in 1..Len(out) : i # c /\ i \in 1..N
    BY <1>1, <1>2, <1>3 DEF Ind, ListShape, PopShape, Popped
  <2>2. \A i \in 1..Len(out) : out[i] = order[i + 1] /\ next'[order[i]] = order[i + 1]
    BY <2>1, <1>7 DEF Ind, ListShape, PopShape, Popped
  <2> QED
    BY <2>2, <1>4 DEF Ind, ListShape, PopShape, Popped
<1> QED
  BY <1>9, <1>10, <1>11, <1>12 DEF Ind, ListShape

(* A step that leaves the list and the pending links alone keeps its shape. *)
LEMMA ListFrame ==
  ASSUME MPSCAssumption, Ind, UNCHANGED <<head, next, prev, sent, order>>,
         \A q \in Producers : pc'[q] = "link" <=> pc[q] = "link",
         \A q \in Producers : pc'[q] # "idle" => pc[q] # "idle"
  PROVE  OrderShape' /\ OrderContents' /\ LinkShape'
<1>1. /\ head' = head /\ next' = next /\ prev' = prev /\ sent' = sent /\ order' = order
  OBVIOUS
<1>2. \A q \in Producers : Mine(q)' = Mine(q)
  BY <1>1 DEF Mine
<1>3. \A i : PendingLink(i)' <=> PendingLink(i)
  BY <1>1, <1>2 DEF PendingLink
<1>4. OrderShape'
  BY <1>1 DEF Ind, ListShape, OrderShape
<1>5. OrderContents'
  BY <1>1 DEF Ind, ListShape, OrderContents
<1>6. LinkShape'
  <2>1. \A i \in 1..(Len(order') - 1) :
           \/ next'[order'[i]] = order'[i + 1]
           \/ next'[order'[i]] = Null /\ PendingLink(i)'
    BY <1>1, <1>3 DEF Ind, ListShape, LinkShape
  <2>2. /\ next'[head'] = Null
        /\ \A n \in Node : (\A i \in 1..Len(order') : order'[i] # n) => next'[n] = Null
    BY <1>1 DEF Ind, ListShape, LinkShape
  <2>3. \A p \in Producers : pc'[p] = "link" =>
           \E i \in 1..(Len(order') - 1) :
              prev'[p] = order'[i] /\ Mine(p)' = order'[i + 1] /\ next'[order'[i]] = Null
    BY <1>1, <1>2 DEF Ind, ListShape, LinkShape
  <2>4. \A p \in Producers : pc'[p] # "idle" => sent'[p] >= 1
    BY <1>1 DEF Ind, ListShape, LinkShape
  <2> QED
    BY <2>1, <2>2, <2>3, <2>4 DEF LinkShape
<1> QED
  BY <1>4, <1>5, <1>6

(* Counting touches neither the list nor the consumer. *)
LEMMA CountInd ==
  ASSUME MPSCAssumption, Ind, NEW p \in Producers, IncreaseNodeCount(p)
  PROVE  Ind'
<1>1. /\ pc[p] = "count" /\ pc' = [pc EXCEPT ![p] = "idle"] /\ count' = count + 1
      /\ head' = head /\ tail' = tail /\ next' = next /\ freed' = freed
      /\ prev' = prev /\ sent' = sent /\ cpc' = cpc /\ old' = old
      /\ out' = out /\ order' = order
  BY DEF IncreaseNodeCount, consumerVars
<1>2. pc \in [Producers -> {"idle", "link", "count"}]
  BY DEF Ind, TypeOK
<1>3. TypeOK'
  BY <1>1 DEF Ind, TypeOK
<1>4. OrderShape' /\ OrderContents' /\ LinkShape'
  BY <1>1, <1>2, ListFrame
<1>5. PopShape'
  BY <1>1 DEF Ind, ListShape, PopShape, Popped
<1> QED
  BY <1>3, <1>4, <1>5 DEF Ind, ListShape

(* The tail moves along one link, to the node whose message is returned. *)
LEMMA PopAdvanceInd ==
  ASSUME MPSCAssumption, Ind, PopAdvance
  PROVE  Ind'
<1> USE DEF MPSCAssumption
<1> DEFINE N == Len(order)
           D == Len(out)
<1>1. /\ N \in Nat /\ D \in Nat /\ D < N /\ tail = order[D + 1]
      /\ cpc = "idle" /\ next[tail] # Null
  BY DEF Ind, TypeOK, PopAdvance, CanPop, ListShape, PopShape
<1>2. D + 1 # N
  BY <1>1 DEF Ind, ListShape, OrderShape, LinkShape
<1>3. D + 1 \in 1..(N - 1) /\ next[tail] = order[D + 2] /\ order[D + 2] \in Message
  BY <1>1, <1>2 DEF Ind, ListShape, LinkShape, OrderShape
<1>4. /\ out' = Append(out, order[D + 2]) /\ old' = order[D + 1]
      /\ tail' = order[D + 2] /\ cpc' = "uncount"
      /\ head' = head /\ next' = next /\ count' = count /\ freed' = freed
      /\ pc' = pc /\ prev' = prev /\ sent' = sent /\ order' = order
  BY <1>1, <1>3 DEF PopAdvance, producerVars
<1>5. out \in Seq(Message) /\ order \in Seq(Node)
  BY DEF Ind, TypeOK
<1>6. /\ Len(out') = D + 1 /\ out' \in Seq(Message)
      /\ \A i \in 1..D : out'[i] = out[i]
      /\ out'[D + 1] = order[D + 2]
  BY <1>1, <1>3, <1>4, <1>5
<1>7. TypeOK'
  BY <1>1, <1>3, <1>4, <1>6 DEF Ind, TypeOK, Node
<1>10. OrderShape' /\ OrderContents' /\ LinkShape'
  BY <1>4, ListFrame
<1>11. PopShape'
  <2>1. ASSUME NEW i \in 1..(D + 1)
        PROVE  out'[i] = order[i + 1] /\ next[order[i]] = order[i + 1]
    <3>1. CASE i = D + 1
      BY <3>1, <1>1, <1>3, <1>6
    <3>2. CASE i \in 1..D
      BY <3>2, <1>6 DEF Ind, ListShape, PopShape, Popped
    <3> QED
      BY <3>1, <3>2, <1>1
  <2>2. freed = {order[i] : i \in 1..D}
    BY <1>1 DEF Ind, ListShape, PopShape, Popped
  <2>3. D = (D + 1) - 1 /\ (D + 1) + 1 = D + 2 /\ D + 1 < N
    BY <1>1, <1>3
  <2>4. freed' = {order'[i] : i \in 1..(Len(out') - 1)}
    BY <2>2, <2>3, <1>4, <1>6
  <2>5. /\ Len(out') < Len(order') /\ tail' = order'[Len(out') + 1]
        /\ Len(out') >= 1 /\ old' = order'[Len(out')]
    BY <2>3, <1>1, <1>4, <1>6
  <2>6. \A i \in 1..Len(out') : out'[i] = order'[i + 1] /\ next'[order'[i]] = order'[i + 1]
    BY <2>1, <1>4, <1>6
  <2> QED
    BY <2>4, <2>5, <2>6, <1>4 DEF PopShape, Popped
<1> QED
  BY <1>7, <1>10, <1>11 DEF Ind, ListShape

(* The consumer's decrement leaves the list alone. *)
LEMMA PopUncountInd ==
  ASSUME MPSCAssumption, Ind, PopUncount
  PROVE  Ind'
<1> USE DEF MPSCAssumption
<1>1. /\ cpc = "uncount" /\ cpc' = "free" /\ count' = count - 1
      /\ head' = head /\ tail' = tail /\ next' = next /\ freed' = freed
      /\ pc' = pc /\ prev' = prev /\ sent' = sent /\ old' = old
      /\ out' = out /\ order' = order
  BY DEF PopUncount, producerVars
<1>2. TypeOK'
  BY <1>1 DEF Ind, TypeOK
<1>5. OrderShape' /\ OrderContents' /\ LinkShape'
  BY <1>1, ListFrame
<1>6. PopShape'
  BY <1>1 DEF Ind, ListShape, PopShape, Popped
<1> QED
  BY <1>2, <1>5, <1>6 DEF Ind, ListShape

(* The node deleted is the one behind the tail. *)
LEMMA PopFreeInd ==
  ASSUME MPSCAssumption, Ind, PopFree
  PROVE  Ind'
<1> USE DEF MPSCAssumption
<1>1. /\ cpc = "free" /\ cpc' = "idle" /\ freed' = freed \cup {old}
      /\ head' = head /\ tail' = tail /\ next' = next /\ count' = count
      /\ pc' = pc /\ prev' = prev /\ sent' = sent /\ old' = old
      /\ out' = out /\ order' = order
  BY DEF PopFree, producerVars
<1>2. TypeOK'
  BY <1>1 DEF Ind, TypeOK
<1>5. OrderShape' /\ OrderContents' /\ LinkShape'
  BY <1>1, ListFrame
<1>6. PopShape'
  <2>1. /\ Len(out) \in Nat /\ Len(out) >= 1 /\ old = order[Len(out)]
        /\ freed = {order[i] : i \in 1..(Len(out) - 1)}
    BY <1>1 DEF Ind, TypeOK, ListShape, PopShape
  <2>2. 1..Len(out) = 1..(Len(out) - 1) \cup {Len(out)}
    BY <2>1
  <2>3. freed' = {order[i] : i \in 1..Len(out)}
    BY <2>1, <2>2, <1>1
  <2> QED
    BY <2>3, <1>1 DEF Ind, ListShape, PopShape, Popped
<1> QED
  BY <1>2, <1>5, <1>6 DEF Ind, ListShape

LEMMA StutterInd ==
  ASSUME MPSCAssumption, Ind, UNCHANGED vars
  PROVE  Ind'
<1>1. /\ head' = head /\ tail' = tail /\ next' = next /\ freed' = freed /\ count' = count
      /\ pc' = pc /\ prev' = prev /\ sent' = sent /\ cpc' = cpc /\ old' = old
      /\ out' = out /\ order' = order
  BY DEF vars
<1>2. TypeOK'
  BY <1>1 DEF Ind, TypeOK
<1>3. OrderShape' /\ OrderContents' /\ LinkShape'
  BY <1>1, ListFrame
<1>4. PopShape'
  BY <1>1 DEF Ind, ListShape, PopShape, Popped
<1> QED
  BY <1>2, <1>3, <1>4 DEF Ind, ListShape

LEMMA NextInd ==
  ASSUME MPSCAssumption
  PROVE  Ind /\ [Next]_vars => Ind'
<1> SUFFICES ASSUME Ind, [Next]_vars PROVE Ind'
  OBVIOUS
<1>1. ASSUME NEW p \in Producers, Produce(p) PROVE Ind'
  BY <1>1, ExchangeInd, LinkInd, CountInd DEF Produce
<1>2. ASSUME Consume PROVE Ind'
  BY <1>2, PopAdvanceInd, PopUncountInd, PopFreeInd DEF Consume
<1> QED
  BY <1>1, <1>2, StutterInd DEF Next

(* The list always has the shape ListShape, and every variable its type:   *)
(* the nodes of MPSC.h form the exchange order, cut only where a producer  *)
(* is about to store a link.                                               *)
THEOREM ShapeTheorem ==
  ASSUME MPSCAssumption
  PROVE  Spec => []Ind
<1>1. Init => Ind
  BY InitInd
<1>2. Ind /\ [Next]_vars => Ind'
  BY NextInd
<1> QED
  BY <1>1, <1>2, PTL DEF Spec

(* The type invariant of the queue. *)
THEOREM TypeTheorem ==
  ASSUME MPSCAssumption
  PROVE  Spec => []TypeOK
<1>1. Ind => TypeOK
  BY DEF Ind
<1> QED
  BY <1>1, ShapeTheorem, PTL

(* The nodes are linked in the order of the exchanges, with no cut but     *)
(* those of producers between their exchange and their store.              *)
THEOREM ListShapeTheorem ==
  ASSUME MPSCAssumption
  PROVE  Spec => []ListShape
<1>1. Ind => ListShape
  BY DEF Ind
<1> QED
  BY <1>1, ShapeTheorem, PTL

-----------------------------------------------------------------------------
LEMMA IndNoUseAfterFree ==
  ASSUME MPSCAssumption
  PROVE  Ind => NoUseAfterFree
<1> SUFFICES ASSUME Ind PROVE NoUseAfterFree
  OBVIOUS
<1> USE DEF MPSCAssumption
<1> DEFINE N == Len(order)
           D == Len(out)
<1>1. /\ N \in Nat /\ D \in Nat /\ D < N
      /\ head = order[N] /\ tail = order[D + 1]
      /\ \A i, j \in 1..N : order[i] = order[j] => i = j
  BY DEF Ind, TypeOK, ListShape, OrderShape, PopShape
<1>2. \A m \in freed : \E i \in 1..D : m = order[i]
  BY <1>1 DEF Ind, TypeOK, ListShape, PopShape, Popped
<1>3. head \notin freed /\ tail \notin freed
  BY <1>1, <1>2
<1>4. cpc # "idle" => old \notin freed
  <2> SUFFICES ASSUME cpc # "idle" PROVE old \notin freed
    OBVIOUS
  <2>1. D >= 1 /\ old = order[D] /\ freed = {order[i] : i \in 1..(D - 1)}
    BY DEF Ind, ListShape, PopShape
  <2> QED
    BY <2>1, <1>1
<1>5. ASSUME NEW p \in Producers, pc[p] = "link"
      PROVE  prev[p] \notin freed
  <2>1. PICK i \in 1..(N - 1) : prev[p] = order[i] /\ next[order[i]] = Null
    BY <1>5 DEF Ind, ListShape, LinkShape
  <2>2. \A j \in 1..D : next[order[j]] # Null
    <3> SUFFICES ASSUME NEW j \in 1..D PROVE next[order[j]] # Null
      OBVIOUS
    <3>1. next[order[j]] = order[j + 1]
      BY DEF Ind, ListShape, PopShape, Popped
    <3>2. order[j + 1] \in Message
      BY <1>1 DEF Ind, ListShape, OrderShape
    <3> QED
      BY <3>1, <3>2 DEF Node
  <2> QED
    BY <2>1, <2>2, <1>2
<1> QED
  BY <1>3, <1>4, <1>5 DEF NoUseAfterFree

(* No thread touches a node that TryPop has deleted, for any number of     *)
(* producers and pushes.                                                   *)
THEOREM NoUseAfterFreeTheorem ==
  ASSUME MPSCAssumption
  PROVE  Spec => []NoUseAfterFree
<1> QED
  BY IndNoUseAfterFree, ShapeTheorem, PTL

-----------------------------------------------------------------------------
LEMMA IndPerProducerFifo ==
  ASSUME MPSCAssumption
  PROVE  Ind => PerProducerFifo
<1> SUFFICES ASSUME Ind,
                    NEW i \in 1..Len(out), NEW k \in 1..MaxPush
             PROVE  k < out[i][2] <=> \E j \in 1..(i - 1) : out[j] = <<out[i][1], k>>
  BY DEF PerProducerFifo
<1> USE DEF MPSCAssumption
<1> DEFINE N == Len(order)
           D == Len(out)
           p == out[i][1]
<1>1. /\ N \in Nat /\ D \in Nat /\ D < N
      /\ \A j \in 1..D : out[j] = order[j + 1]
      /\ \A a \in 2..N : order[a] \in Message
  BY DEF Ind, TypeOK, ListShape, OrderShape, PopShape, Popped
<1>2. /\ i + 1 \in 2..N /\ out[i] = order[i + 1] /\ p \in Producers
      /\ out[i][2] \in 1..MaxPush
  BY <1>1 DEF Message
<1>3. /\ \A a \in 2..N : order[a][2] <= sent[order[a][1]]
      /\ \A q \in Producers : \A l \in 1..sent[q] : \E a \in 2..N : order[a] = <<q, l>>
      /\ \A a, b \in 2..N :
            a < b /\ order[a][1] = order[b][1] => order[a][2] < order[b][2]
  BY DEF Ind, ListShape, OrderContents
<1>4. ASSUME k < out[i][2]
      PROVE  \E j \in 1..(i - 1) : out[j] = <<p, k>>
  <2>1. out[i][2] <= sent[p] /\ sent[p] \in 0..MaxPush
    BY <1>2, <1>3 DEF Ind, TypeOK
  <2>2. k \in 1..sent[p]
    BY <1>2, <1>4, <2>1
  <2>3. PICK a \in 2..N : order[a] = <<p, k>>
    BY <1>2, <1>3, <2>2
  <2>4. a < i + 1
    <3>1. a # i + 1
      BY <2>3, <1>2, <1>4
    <3>2. ~(i + 1 < a)
      <4> SUFFICES ASSUME i + 1 < a PROVE FALSE
        OBVIOUS
      <4>1. order[i + 1][2] < order[a][2]
        BY <1>2, <1>3, <2>3
      <4> QED
        BY <4>1, <2>3, <1>2, <1>4
    <3> QED
      BY <3>1, <3>2, <1>1, <1>2
  <2>5. a - 1 \in 1..(i - 1) /\ a - 1 \in 1..D /\ (a - 1) + 1 = a
    BY <2>4, <1>1
  <2>6. out[a - 1] = <<p, k>>
    BY <2>3, <2>5, <1>1
  <2> QED
    BY <2>5, <2>6
<1>5. ASSUME NEW j \in 1..(i - 1), out[j] = <<p, k>>
      PROVE  k < out[i][2]
  <2>1. j + 1 \in 2..N /\ j + 1 < i + 1 /\ out[j] = order[j + 1]
    BY <1>1
  <2>2. order[j + 1][1] = order[i + 1][1]
    BY <2>1, <1>2, <1>5
  <2>3. order[j + 1][2] < order[i + 1][2]
    BY <2>1, <2>2, <1>2, <1>3
  <2> QED
    BY <2>1, <2>3, <1>2, <1>5
<1> QED
  BY <1>4, <1>5

(* Each producer's messages come out in its order, once each and without a *)
(* gap, for any number of producers and pushes.                            *)
THEOREM PerProducerFifoTheorem ==
  ASSUME MPSCAssumption
  PROVE  Spec => []PerProducerFifo
<1> QED
  BY IndPerProducerFifo, ShapeTheorem, PTL

-----------------------------------------------------------------------------
LEMMA IndEmptyMeansDrained ==
  ASSUME MPSCAssumption
  PROVE  Ind => EmptyMeansDrained
<1> SUFFICES ASSUME Ind, Quiescent, ~CanPop,
                    NEW p \in Producers, NEW k \in 1..sent[p]
             PROVE  \E i \in 1..Len(out) : out[i] = <<p, k>>
  BY DEF EmptyMeansDrained
<1> USE DEF MPSCAssumption
<1> DEFINE N == Len(order)
           D == Len(out)
<1>1. /\ N \in Nat /\ D \in Nat /\ D < N /\ tail = order[D + 1]
      /\ \A j \in 1..D : out[j] = order[j + 1]
      /\ \A a \in 2..N : order[a] \in Message
  <2>1. N \in Nat /\ D \in Nat
    BY DEF Ind, TypeOK
  <2>2. \A a \in 2..N : order[a] \in Message
    BY DEF Ind, ListShape, OrderShape
  <2> QED
    BY <2>1, <2>2 DEF Ind, ListShape, PopShape, Popped
<1>2. D + 1 = N
  <2> SUFFICES ASSUME D + 1 # N PROVE FALSE
    OBVIOUS
  <2>1. D + 1 \in 1..(N - 1)
    BY <1>1
  <2>2. ~PendingLink(D + 1)
    BY DEF Quiescent, PendingLink
  <2>3. next[tail] = order[D + 2]
    BY <2>1, <2>2, <1>1 DEF Ind, ListShape, LinkShape
  <2>4. order[D + 2] \in Node
    BY <2>1, <1>1 DEF Node
  <2> QED
    BY <2>3, <2>4 DEF CanPop
<1>3. PICK a \in 2..N : order[a] = <<p, k>>
  BY DEF Ind, ListShape, OrderContents
<1>4. a - 1 \in 1..D /\ out[a - 1] = order[a]
  BY <1>1, <1>2, <1>3
<1> QED
  BY <1>3, <1>4

(* With no operation half done, TryPop answers "empty" only when every     *)
(* message has been delivered.                                             *)
THEOREM EmptyMeansDrainedTheorem ==
  ASSUME MPSCAssumption
  PROVE  Spec => []EmptyMeansDrained
<1> QED
  BY IndEmptyMeansDrained, ShapeTheorem, PTL

-----------------------------------------------------------------------------
(* The count is kept by every step, because the pushes that have not been  *)
(* counted yet and the pop that has not been uncounted are accounted for.  *)
LEMMA CountStep ==
  ASSUME MPSCAssumption, Ind, CountTracksQueue, [Next]_vars
  PROVE  CountTracksQueue'
<1> USE DEF MPSCAssumption
<1>1. /\ count \in Int /\ Len(order) \in Nat /\ Len(out) \in Nat
      /\ pc \in [Producers -> {"idle", "link", "count"}]
      /\ order \in Seq(Node) /\ out \in Seq(Message)
  BY DEF Ind, TypeOK
<1>2. Uncounted \subseteq Producers /\ IsFiniteSet(Uncounted) /\ Cardinality(Uncounted) \in Nat
  <2>1. Uncounted \in SUBSET Producers
    BY DEF Uncounted
  <2>2. IsFiniteSet(Producers)
    BY DEF MPSCAssumption
  <2> QED
    BY <2>1, <2>2, FS_Subset, FS_CardinalityType
<1>3. ASSUME NEW p \in Producers, Exchange(p)
      PROVE  CountTracksQueue'
  <2>1. /\ pc[p] = "idle" /\ pc' = [pc EXCEPT ![p] = "link"]
        /\ count' = count /\ cpc' = cpc /\ out' = out
        /\ order' = Append(order, <<p, sent[p] + 1>>)
    BY <1>3 DEF Exchange, consumerVars
  <2>2. Len(order') = Len(order) + 1
    BY <2>1, <1>1
  <2>3. Uncounted' = Uncounted \cup {p} /\ p \notin Uncounted
    BY <2>1, <1>1 DEF Uncounted
  <2>4. Cardinality(Uncounted') = Cardinality(Uncounted) + 1
    BY <2>3, <1>2, FS_AddElement
  <2> DEFINE late == IF cpc = "uncount" THEN 1 ELSE 0
  <2>5. late \in 0..1 /\ count + Cardinality(Uncounted) + Len(out) = Len(order) - 1 + late
    BY DEF CountTracksQueue
  <2>6. count' + Cardinality(Uncounted') + Len(out') = Len(order') - 1 + late
    <3>1. count' = count /\ Len(out') = Len(out)
      BY <2>1
    <3>2. count \in Int /\ Len(order) \in Nat /\ Len(out) \in Nat /\ Cardinality(Uncounted) \in Nat
      BY <1>1, <1>2
    <3> HIDE DEF late
    <3> QED
      BY <3>1, <3>2, <2>2, <2>4, <2>5
  <2> QED
    BY <2>1, <2>6 DEF CountTracksQueue
<1>4. ASSUME NEW p \in Producers, Link(p)
      PROVE  CountTracksQueue'
  <2>1. /\ pc[p] = "link" /\ pc' = [pc EXCEPT ![p] = "count"]
        /\ count' = count /\ cpc' = cpc /\ out' = out /\ order' = order
    BY <1>4 DEF Link, consumerVars
  <2>2. Uncounted' = Uncounted
    BY <2>1, <1>1 DEF Uncounted
  <2> QED
    BY <2>1, <2>2 DEF CountTracksQueue
<1>5. ASSUME NEW p \in Producers, IncreaseNodeCount(p)
      PROVE  CountTracksQueue'
  <2>1. /\ pc[p] = "count" /\ pc' = [pc EXCEPT ![p] = "idle"]
        /\ count' = count + 1 /\ cpc' = cpc /\ out' = out /\ order' = order
    BY <1>5 DEF IncreaseNodeCount, consumerVars
  <2>2. Uncounted' = Uncounted \ {p} /\ p \in Uncounted
    BY <2>1, <1>1 DEF Uncounted
  <2>3. Cardinality(Uncounted') = Cardinality(Uncounted) - 1
    BY <2>2, <1>2, FS_RemoveElement
  <2> QED
    BY <2>1, <2>3, <1>1, <1>2 DEF CountTracksQueue
<1>6. ASSUME PopAdvance
      PROVE  CountTracksQueue'
  <2>1. /\ cpc = "idle" /\ cpc' = "uncount" /\ count' = count /\ pc' = pc
        /\ order' = order /\ out' = Append(out, next[tail])
    BY <1>6 DEF PopAdvance, producerVars
  <2>2. Len(out') = Len(out) + 1
    BY <2>1, <1>1
  <2>3. Uncounted' = Uncounted
    BY <2>1 DEF Uncounted
  <2> QED
    BY <2>1, <2>2, <2>3, <1>1, <1>2 DEF CountTracksQueue
<1>7. ASSUME PopUncount
      PROVE  CountTracksQueue'
  <2>1. /\ cpc = "uncount" /\ cpc' = "free" /\ count' = count - 1 /\ pc' = pc
        /\ order' = order /\ out' = out
    BY <1>7 DEF PopUncount, producerVars
  <2>2. Uncounted' = Uncounted
    BY <2>1 DEF Uncounted
  <2> QED
    BY <2>1, <2>2, <1>1, <1>2 DEF CountTracksQueue
<1>8. ASSUME PopFree
      PROVE  CountTracksQueue'
  <2>1. /\ cpc = "free" /\ cpc' = "idle" /\ count' = count /\ pc' = pc
        /\ order' = order /\ out' = out
    BY <1>8 DEF PopFree, producerVars
  <2>2. Uncounted' = Uncounted
    BY <2>1 DEF Uncounted
  <2> QED
    BY <2>1, <2>2 DEF CountTracksQueue
<1>9. CASE UNCHANGED vars
  BY <1>9 DEF CountTracksQueue, Uncounted, vars
<1> QED
  BY <1>3, <1>4, <1>5, <1>6, <1>7, <1>8, <1>9 DEF Next, Produce, Consume

(* The count is the number of undelivered messages, less the pushes not    *)
(* yet counted and more a pop not yet uncounted: the value a wake-up       *)
(* decision is taken from, for any number of producers.                    *)
THEOREM CountTheorem ==
  ASSUME MPSCAssumption
  PROVE  Spec => []CountTracksQueue
<1>1. Init => CountTracksQueue
  <2> SUFFICES ASSUME Init PROVE CountTracksQueue
    OBVIOUS
  <2>1. Uncounted = {} /\ Len(order) = 1 /\ Len(out) = 0 /\ count = 0 /\ cpc = "idle"
    BY DEF Init, Uncounted
  <2>2. Cardinality(Uncounted) = 0
    BY <2>1, FS_EmptySet
  <2> QED
    BY <2>1, <2>2 DEF CountTracksQueue
<1>2. Ind /\ CountTracksQueue /\ [Next]_vars => CountTracksQueue'
  BY CountStep
<1> QED
  BY <1>1, <1>2, ShapeTheorem, PTL DEF Spec

-----------------------------------------------------------------------------
(* Refinement.  The messages in the abstract queue are the nodes of the    *)
(* exchange order behind the tail.                                         *)
Waiting == SubSeq(order, Len(out) + 2, Len(order))

LEMMA ExchangeRefines ==
  ASSUME MPSCAssumption, Ind, NEW p \in Producers, Exchange(p)
  PROVE  Fifo!Enqueue(p)
<1> DEFINE n == <<p, sent[p] + 1>>
<1>1. /\ sent[p] < MaxPush /\ sent' = [sent EXCEPT ![p] = @ + 1]
      /\ order' = Append(order, n) /\ out' = out
  BY DEF Exchange, consumerVars
<1>2. order \in Seq(Node) /\ Len(order) \in Nat /\ Len(out) \in Nat /\ Len(out) < Len(order)
  BY DEF Ind, TypeOK, ListShape, PopShape
<1>3. n \in Node
  BY <1>1 DEF MPSCAssumption, Ind, TypeOK, Node, Message
<1>4. /\ Len(order') = Len(order) + 1
      /\ \A i \in 1..Len(order) : order'[i] = order[i]
      /\ order'[Len(order) + 1] = n
      /\ order' \in Seq(Node)
  BY <1>1, <1>2, <1>3
<1>5. Waiting' = Append(Waiting, n)
  <2> DEFINE a == Len(out) + 2
             b == Len(order)
  <2>1. SubSeq(order', a, b + 1) = SubSeq(order', a, b) \o <<order'[b + 1]>>
    <3>1. a \in 1..Len(order') /\ b + 1 \in a..Len(order') /\ (b + 1) - 1 = b
      BY <1>2, <1>4
    <3> HIDE DEF a, b
    <3> QED
      BY <3>1, <1>4, SubSeqRecursiveSecond
  <2>2. SubSeq(order', a, b) = SubSeq(order, a, b)
    <3>1. order' = order \o <<n>>
      BY <1>1, <1>2, <1>3, AppendIsConcat
    <3>2. CASE a <= b
      <4>1. a \in 1..Len(order) /\ b \in 1..Len(order) /\ <<n>> \in Seq(Node)
        BY <3>2, <1>2, <1>3
      <4> QED
        BY <3>1, <4>1, <1>2, SubSeqOfConcat1
    <3>3. CASE b < a
      BY <3>3, <1>2, SubSeqEmpty
    <3> QED
      BY <3>2, <3>3, <1>2
  <2>3. SubSeq(order, a, b) \in Seq(Node)
    BY <1>2
  <2>4. SubSeq(order, a, b) \o <<n>> = Append(SubSeq(order, a, b), n)
    BY <2>3, <1>3, AppendIsConcat
  <2> QED
    BY <2>1, <2>2, <2>4, <1>1, <1>4 DEF Waiting
<1> QED
  BY <1>1, <1>5 DEF Fifo!Enqueue, Waiting

LEMMA PopRefines ==
  ASSUME MPSCAssumption, Ind, PopAdvance
  PROVE  Fifo!Dequeue
<1> DEFINE a == Len(out) + 2
           b == Len(order)
<1>1. /\ out' = Append(out, next[tail]) /\ order' = order /\ sent' = sent
      /\ next[tail] # Null /\ tail = order[Len(out) + 1]
  BY DEF PopAdvance, CanPop, producerVars, Ind, ListShape, PopShape
<1>2. /\ order \in Seq(Node) /\ b \in Nat /\ Len(out) \in Nat /\ Len(out) < b
      /\ out \in Seq(Message)
  BY DEF Ind, TypeOK, ListShape, PopShape
<1>3. a <= b
  BY <1>1, <1>2 DEF Ind, ListShape, LinkShape, OrderShape
<1>4. next[tail] = order[a] /\ order[a] \in Message
  BY <1>1, <1>2, <1>3 DEF Ind, ListShape, LinkShape, OrderShape
<1>5. Head(Waiting) = order[a] /\ Tail(Waiting) = SubSeq(order, a + 1, b)
  <2>1. a \in 1..Len(order) /\ b \in a..Len(order)
    BY <1>2, <1>3
  <2> QED
    BY <1>2, <2>1, HeadTailOfSubSeq DEF Waiting
<1>6. Waiting # <<>>
  <2>1. a \in Nat /\ a > 0 /\ \A i \in a..b : order[i] \in Node
    BY <1>2, <1>3
  <2>2. Len(Waiting) = b - a + 1
    BY <1>2, <1>3, <2>1, SubSeqProperties DEF Waiting
  <2> QED
    BY <2>2, <1>2, <1>3
<1>7. Len(out') = Len(out) + 1
  BY <1>1, <1>2, <1>4
<1>8. Waiting' = Tail(Waiting)
  <2>1. Len(out') + 2 = a + 1 /\ Len(order') = b
    BY <1>1, <1>2, <1>7
  <2>2. Waiting' = SubSeq(order, a + 1, b)
    BY <1>1, <2>1, Zenon DEF Waiting
  <2> QED
    BY <1>5, <2>2
<1>9. out' = Append(out, Head(Waiting)) /\ UNCHANGED sent
  BY <1>1, <1>4, <1>5
<1>10. /\ Waiting # <<>> /\ UNCHANGED sent
       /\ out' = Append(out, Head(Waiting)) /\ Waiting' = Tail(Waiting)
  BY <1>6, <1>8, <1>9
<1> HIDE DEF a, b
<1>11. /\ SubSeq(order, Len(out) + 2, Len(order)) # <<>> /\ UNCHANGED sent
       /\ out' = Append(out, Head(SubSeq(order, Len(out) + 2, Len(order))))
       /\ SubSeq(order, Len(out) + 2, Len(order))' = Tail(SubSeq(order, Len(out) + 2, Len(order)))
  BY <1>10, Zenon DEF Waiting
<1> QED
  BY <1>11, Zenon DEF Fifo!Dequeue

(* MPSCQueue implements FifoQueue: whatever the interleaving of exchanges, *)
(* links and pops, its users see one queue in the order of the exchanges.  *)
THEOREM Refinement ==
  ASSUME MPSCAssumption
  PROVE  Spec => Fifo!Spec
<1>1. Init => Fifo!Init
  BY DEF Init, Fifo!Init
<1>2. Ind /\ [Next]_vars => [Fifo!Next]_Fifo!vars
  <2> SUFFICES ASSUME Ind, [Next]_vars PROVE [Fifo!Next]_Fifo!vars
    OBVIOUS
  <2>1. ASSUME NEW p \in Producers, Exchange(p) PROVE Fifo!Next
    BY <2>1, ExchangeRefines DEF Fifo!Next
  <2>2. ASSUME PopAdvance PROVE Fifo!Next
    BY <2>2, PopRefines DEF Fifo!Next
  <2>3. ASSUME NEW p \in Producers, Link(p) \/ IncreaseNodeCount(p)
        PROVE  UNCHANGED Fifo!vars
    BY <2>3 DEF Link, IncreaseNodeCount, consumerVars, Fifo!vars
  <2>4. ASSUME PopUncount \/ PopFree PROVE UNCHANGED Fifo!vars
    BY <2>4 DEF PopUncount, PopFree, producerVars, Fifo!vars
  <2>5. CASE UNCHANGED vars
    BY <2>5 DEF vars, Fifo!vars
  <2> QED
    BY <2>1, <2>2, <2>3, <2>4, <2>5 DEF Next, Produce, Consume
<1> QED
  BY <1>1, <1>2, ShapeTheorem, PTL DEF Spec, Fifo!Spec

(* The property the run checks, for every value of the constants. *)
THEOREM ImplementsFifoTheorem ==
  ASSUME MPSCAssumption
  PROVE  Spec => ImplementsFifo
<1> QED
  BY Refinement DEF ImplementsFifo

-----------------------------------------------------------------------------
(* Every step of the scheduler is a step of the queue or leaves it alone,  *)
(* and its parameters are what the queue's theorems ask for.               *)
LEMMA StepQueue == [SchedulerNext]_schedulerVars => [Next]_vars
<1> SUFFICES ASSUME [SchedulerNext]_schedulerVars PROVE [Next]_vars
  OBVIOUS
<1> USE DEF queueVars
<1>1. ASSUME NEW t \in Threads, PushExchange(t) \/ PushLink(t) \/ PushCount(t)
      PROVE  Next
  BY <1>1, SchedulerAssumption DEF PushExchange, PushLink, PushCount, Next, Produce
<1>2. ASSUME NEW w \in Workers,
             PopMessage(w) \/ UncountMessage(w) \/ ExecuteMessage(w)
      PROVE  Next
  BY <1>2 DEF PopMessage, UncountMessage, ExecuteMessage, Next, Consume
<1>3. ASSUME NEW t \in Threads, Schedule(t) \/ Inline(t) PROVE UNCHANGED vars
  BY <1>3 DEF Schedule, Inline, PostInline, InlineDone
<1>4. ASSUME NEW w \in Workers,
             \/ EnterSlice(w) \/ TakeChannel(w) \/ BeginContext(w)
             \/ MessageDone(w) \/ LeaveLoop(w) \/ EndContext(w)
      PROVE  UNCHANGED vars
  BY <1>4 DEF EnterSlice, TakeChannel, BeginContext, MessageDone, LeaveLoop, EndContext
<1>5. CASE UNCHANGED schedulerVars
  BY <1>5 DEF schedulerVars
<1> QED
  BY <1>1, <1>2, <1>3, <1>4, <1>5 DEF SchedulerNext, Push, Work

(* The actor runtime uses the queue as MPSCQueue says a queue is used:     *)
(* every behaviour of ActorScheduler is one of the queue, so the queue's   *)
(* theorems (order, no use after free, the FIFO it implements) hold of it. *)
THEOREM SchedulerUsesQueue == SchedulerSpec => Spec
<1>1. SchedulerInit => Init
  BY DEF SchedulerInit
<1> QED
  BY <1>1, StepQueue, PTL DEF SchedulerSpec, Spec

(* The queue's producers are the threads. *)
LEMMA EveryThreadPushes == Producers = Threads
BY SchedulerAssumption

LEMMA QueueFacts == SchedulerSpec => [](Ind /\ CountTracksQueue)
<1>1. Spec => []Ind
  BY ShapeTheorem, SchedulerAssumption
<1>2. Spec => []CountTracksQueue
  BY CountTheorem, SchedulerAssumption
<1> QED
  BY <1>1, <1>2, SchedulerUsesQueue, PTL

(* What the workers take from the channel, until two of them are in its    *)
(* TryPop at once and the program's behaviour is undefined (Undefined):    *)
(* each thread's messages, once each, in the order in which it posted them *)
(* and without a gap, and no push or pop touches a node that was deleted,  *)
(* whatever worker comes after whatever other.                             *)
THEOREM ActorMessagesInOrder == SchedulerSpec => [](PerProducerFifo /\ NoUseAfterFree)
<1>1. Spec => []PerProducerFifo
  BY PerProducerFifoTheorem, SchedulerAssumption
<1>2. Spec => []NoUseAfterFree
  BY NoUseAfterFreeTheorem, SchedulerAssumption
<1> QED
  BY <1>1, <1>2, SchedulerUsesQueue, PTL

-----------------------------------------------------------------------------
(* The variables the scheduler adds to the queue's. *)
OwnType ==
    /\ ready \in Nat
    /\ context \in Workers \cup {Null}
    /\ scheduling \subseteq Threads
    /\ wpc \in [Workers -> {"io", "spin", "begin", "drain", "pop", "exec", "end"}]
    /\ inlined \subseteq External
    /\ overlapped \in BOOLEAN /\ rescheduled \in BOOLEAN

LEMMA OwnTypeStep == OwnType /\ [SchedulerNext]_schedulerVars => OwnType'
<1> SUFFICES ASSUME OwnType, [SchedulerNext]_schedulerVars PROVE OwnType'
  OBVIOUS
<1> USE DEF OwnType, workVars, Move
<1>1. ASSUME NEW t \in Threads, PushExchange(t) PROVE OwnType'
  BY <1>1 DEF PushExchange
<1>2. ASSUME NEW t \in Threads, PushLink(t) PROVE OwnType'
  BY <1>2 DEF PushLink
<1>3. ASSUME NEW t \in Threads, PushCount(t) PROVE OwnType'
  BY <1>3 DEF PushCount
<1>4. ASSUME NEW t \in Threads, Schedule(t) \/ Inline(t) PROVE OwnType'
  BY <1>4 DEF Schedule, Inline, PostInline, InlineDone
<1>5. ASSUME NEW w \in Workers, TakeChannel(w) PROVE OwnType'
  BY <1>5 DEF TakeChannel
<1>6. ASSUME NEW w \in Workers, BeginContext(w) \/ EndContext(w) PROVE OwnType'
  BY <1>6 DEF BeginContext, EndContext
<1>7. ASSUME NEW w \in Workers,
             \/ EnterSlice(w) \/ PopMessage(w) \/ UncountMessage(w)
             \/ ExecuteMessage(w) \/ MessageDone(w) \/ LeaveLoop(w)
      PROVE  OwnType'
  BY <1>7 DEF EnterSlice, PopMessage, UncountMessage, ExecuteMessage, MessageDone, LeaveLoop
<1>8. CASE UNCHANGED schedulerVars
  BY <1>8 DEF schedulerVars
<1> QED
  BY <1>1, <1>2, <1>3, <1>4, <1>5, <1>6, <1>7, <1>8 DEF SchedulerNext, Push, Work

LEMMA OwnTypeAlways == SchedulerSpec => []OwnType
<1>1. SchedulerInit => OwnType
  <2> SUFFICES ASSUME SchedulerInit PROVE OwnType
    OBVIOUS
  <2>1. ready = 0 /\ context = Null /\ scheduling = {} /\ wpc = [w \in Workers |-> "io"]
    BY DEF SchedulerInit
  <2>2. inlined = {} /\ overlapped = FALSE /\ rescheduled = FALSE
    BY DEF SchedulerInit
  <2> QED
    BY <2>1, <2>2 DEF OwnType
<1> QED
  BY <1>1, OwnTypeStep, PTL DEF SchedulerSpec

(* Type correctness of the runtime: in particular the ready list never     *)
(* gives out an entry it does not have.                                    *)
THEOREM SchedulerTypeTheorem == SchedulerSpec => []SchedulerTypeOK
<1>1. Ind /\ OwnType => SchedulerTypeOK
  BY DEF Ind, TypeOK, OwnType, SchedulerTypeOK, Node, Message
<1> QED
  BY <1>1, QueueFacts, OwnTypeAlways, PTL

-----------------------------------------------------------------------------
(* One worker at a time.  While no push has scheduled an attended channel, *)
(* there is one token: the push that will schedule, then the ready entry,  *)
(* then the worker inside.                                                 *)
Holding == {"drain", "pop", "exec", "end"}

OneToken ==
    ~rescheduled =>
        /\ ready <= 1
        /\ ready = 1 => Inside = {} /\ scheduling = {}
        /\ \A v, w \in Inside : v = w
        /\ Inside # {} => scheduling = {}
        /\ \A s, t \in scheduling : s = t
        /\ \A w \in Workers : wpc[w] \in Holding => context = w
        /\ (\A w \in Workers : wpc[w] \notin Holding) => context = Null

(* A step that moves no worker and leaves ready and scheduling alone. *)
LEMMA OneTokenFrame ==
  ASSUME OneToken, UNCHANGED <<ready, context, wpc, scheduling>>,
         rescheduled' = rescheduled
  PROVE  OneToken'
BY DEF OneToken, Inside

(* A step of worker w that stays inside, holding the channel. *)
LEMMA OneTokenInside ==
  ASSUME OwnType, OneToken, NEW w \in Workers, NEW to \in Holding,
         wpc[w] \in Holding, wpc' = [wpc EXCEPT ![w] = to],
         UNCHANGED <<ready, context, scheduling, rescheduled>>
  PROVE  OneToken'
<1>1. Inside' = Inside
  BY DEF Inside, OwnType, Holding
<1>2. \A v \in Workers : wpc'[v] \in Holding <=> wpc[v] \in Holding
  BY DEF OwnType
<1> QED
  BY <1>1, <1>2 DEF OneToken

LEMMA OneTokenStep == OwnType /\ OneToken /\ [SchedulerNext]_schedulerVars => OneToken'
<1> SUFFICES ASSUME OwnType, OneToken, [SchedulerNext]_schedulerVars PROVE OneToken'
  OBVIOUS
<1> USE DEF workVars
<1>1. ASSUME NEW t \in Threads, PushExchange(t) \/ PushLink(t) \/ Inline(t) PROVE OneToken'
  BY <1>1, OneTokenFrame DEF PushExchange, PushLink, Inline, PostInline, InlineDone
<1>2. ASSUME NEW t \in Threads, PushCount(t) PROVE OneToken'
  <2>1. CASE FoundZero /\ Attended
    BY <1>2, <2>1 DEF PushCount, OneToken, OwnType
  <2>2. CASE FoundZero /\ ~Attended
    <3>1. ready = 0 /\ Inside = {} /\ scheduling = {}
      BY <2>2 DEF Attended, OwnType
    <3>2. UNCHANGED <<ready, context, wpc>> /\ scheduling' = {t} /\ rescheduled' = rescheduled
      BY <1>2, <2>2, <3>1 DEF PushCount, OwnType
    <3>3. Inside' = {}
      BY <3>1, <3>2 DEF Inside
    <3> QED
      BY <3>1, <3>2, <3>3 DEF OneToken, Inside, Holding
  <2>3. CASE ~FoundZero
    BY <1>2, <2>3, OneTokenFrame DEF PushCount, OwnType
  <2> QED
    BY <2>1, <2>2, <2>3
<1>3. ASSUME NEW t \in Threads, Schedule(t) PROVE OneToken'
  <2>1. /\ t \in scheduling /\ scheduling' = scheduling \ {t} /\ ready' = ready + 1
        /\ UNCHANGED <<context, wpc, rescheduled>>
    BY <1>3 DEF Schedule
  <2>2. ASSUME ~rescheduled PROVE ready = 0 /\ Inside = {} /\ scheduling = {t}
    BY <2>1, <2>2 DEF OneToken, OwnType
  <2>3. Inside' = Inside
    BY <2>1 DEF Inside
  <2> QED
    BY <2>1, <2>2, <2>3 DEF OneToken
<1>4. ASSUME NEW w \in Workers, EnterSlice(w) PROVE OneToken'
  <2>1. /\ wpc[w] = "io" /\ wpc' = [wpc EXCEPT ![w] = "spin"]
        /\ UNCHANGED <<ready, context, scheduling, rescheduled>>
    BY <1>4 DEF EnterSlice, Move
  <2>2. Inside' = Inside
    BY <2>1 DEF Inside, OwnType
  <2>3. \A v \in Workers : wpc'[v] \in Holding <=> wpc[v] \in Holding
    BY <2>1 DEF OwnType, Holding
  <2> QED
    BY <2>1, <2>2, <2>3 DEF OneToken
<1>5. ASSUME NEW w \in Workers, TakeChannel(w) PROVE OneToken'
  <2>1. /\ ready > 0 /\ ready' = ready - 1
        /\ wpc[w] = "spin" /\ wpc' = [wpc EXCEPT ![w] = "begin"]
        /\ UNCHANGED <<context, scheduling, rescheduled>>
    BY <1>5 DEF TakeChannel, Move
  <2>2. ASSUME ~rescheduled PROVE ready = 1 /\ Inside = {} /\ scheduling = {}
    BY <2>1, <2>2 DEF OneToken, OwnType
  <2>3. Inside' = Inside \cup {w}
    BY <2>1 DEF Inside, OwnType
  <2>4. \A v \in Workers : wpc'[v] \in Holding <=> wpc[v] \in Holding
    BY <2>1 DEF OwnType, Holding
  <2> QED
    BY <2>1, <2>2, <2>3, <2>4 DEF OneToken
<1>6. ASSUME NEW w \in Workers, BeginContext(w) PROVE OneToken'
  <2>1. /\ wpc[w] = "begin" /\ wpc' = [wpc EXCEPT ![w] = "drain"] /\ context' = w
        /\ UNCHANGED <<ready, scheduling, rescheduled>>
    BY <1>6 DEF BeginContext, Move
  <2>2. Inside' = Inside /\ w \in Inside
    BY <2>1 DEF Inside, OwnType
  <2>3. ASSUME ~rescheduled, NEW v \in Workers, wpc'[v] \in Holding PROVE v = w
    <3>1. v # w => wpc[v] \in Holding /\ v \in Inside
      BY <2>1, <2>3 DEF OwnType, Inside, Holding
    <3> QED
      BY <2>2, <2>3, <3>1 DEF OneToken
  <2>4. wpc'[w] \in Holding
    BY <2>1 DEF OwnType, Holding
  <2> QED
    BY <2>1, <2>2, <2>3, <2>4 DEF OneToken
<1>7. ASSUME NEW w \in Workers, PopMessage(w) PROVE OneToken'
  BY <1>7, OneTokenInside DEF PopMessage, Move, Holding
<1>8. ASSUME NEW w \in Workers, UncountMessage(w) PROVE OneToken'
  BY <1>8, OneTokenFrame DEF UncountMessage
<1>9. ASSUME NEW w \in Workers, ExecuteMessage(w) PROVE OneToken'
  BY <1>9, OneTokenInside DEF ExecuteMessage, Move, Holding
<1>10. ASSUME NEW w \in Workers, MessageDone(w) PROVE OneToken'
  BY <1>10, OneTokenInside DEF MessageDone, Move, Holding
<1>11. ASSUME NEW w \in Workers, LeaveLoop(w) PROVE OneToken'
  BY <1>11, OneTokenInside DEF LeaveLoop, Move, Holding
<1>12. ASSUME NEW w \in Workers, EndContext(w) PROVE OneToken'
  <2>1. PICK to \in {"spin", "io"} : Move(w, "end", to)
    BY <1>12 DEF EndContext
  <2>2. /\ wpc[w] = "end" /\ wpc' = [wpc EXCEPT ![w] = to] /\ context' = Null
        /\ UNCHANGED <<ready, scheduling, rescheduled>>
    BY <1>12, <2>1 DEF EndContext, Move
  <2>3. Inside' = Inside \ {w} /\ w \in Inside
    BY <2>2 DEF Inside, OwnType
  <2>4. ASSUME ~rescheduled, NEW v \in Workers PROVE wpc'[v] \notin Holding
    <3>1. wpc'[v] \in Holding => v # w /\ v \in Inside
      BY <2>2 DEF OwnType, Inside, Holding
    <3> QED
      BY <2>3, <2>4, <3>1 DEF OneToken
  <2> QED
    BY <2>2, <2>3, <2>4 DEF OneToken
<1>13. CASE UNCHANGED schedulerVars
  BY <1>13, OneTokenFrame DEF schedulerVars
<1> QED
  BY <1>1, <1>2, <1>3, <1>4, <1>5, <1>6, <1>7, <1>8, <1>9, <1>10, <1>11, <1>12, <1>13
  DEF SchedulerNext, Push, Work

(* Dispatcher, Channel and ExecutionContext keep an actor to one worker,   *)
(* and current_context_ to that worker, for as long as no push finds the   *)
(* count at zero while the channel is ready or being run.                  *)
THEOREM ExclusiveTheorem == SchedulerSpec => []ExclusiveUnlessRescheduled
<1>1. SchedulerInit => OneToken
  <2> SUFFICES ASSUME SchedulerInit PROVE OneToken
    OBVIOUS
  <2>1. ready = 0 /\ context = Null /\ scheduling = {} /\ wpc = [w \in Workers |-> "io"]
    BY DEF SchedulerInit
  <2>2. Inside = {}
    BY <2>1 DEF Inside
  <2> QED
    BY <2>1, <2>2 DEF OneToken, Holding
<1>2. OneToken => ExclusiveUnlessRescheduled
  <2> SUFFICES ASSUME OneToken, ~rescheduled
               PROVE  /\ \A v, w \in Inside : v = w
                      /\ \A w \in Workers : wpc[w] \in Holding => context = w
                      /\ Inside = {} => context = Null
    BY DEF ExclusiveUnlessRescheduled, Holding
  <2> QED
    BY DEF OneToken, Inside, Holding
<1> QED
  BY <1>1, <1>2, OneTokenStep, OwnTypeAlways, PTL DEF SchedulerSpec

-----------------------------------------------------------------------------
(* The wake-up.  While no two pushes have overlapped, the one in progress  *)
(* owns the head of the list, and whenever a counted message is on the     *)
(* queue somebody is going to look at the queue again.                     *)
Late == IF cpc = "uncount" THEN 1 ELSE 0
Looking == {"begin", "drain", "pop", "exec"}
Covered == ready > 0 \/ scheduling # {} \/ \E w \in Workers : wpc[w] \in Looking

Wake ==
    /\ cpc # "idle" => \E w \in Workers : wpc[w] = "pop"
    /\ \A t \in scheduling : pc[t] = "idle"
    /\ ~overlapped =>
          /\ \A s, t \in Threads : Busy(s) /\ Busy(t) => s = t
          /\ \A t \in Threads : pc[t] # "idle" => head = Mine(t)
          /\ count - Late > 0 => Covered

(* When TryPop finds no link and pushes do not overlap, nothing that was   *)
(* counted is left: at most the newest message waits, for the count of the *)
(* push that is linking it.                                                *)
LEMMA NothingOwed ==
  ASSUME Ind, CountTracksQueue, Wake, ~overlapped, ~CanPop
  PROVE  count - Late <= 0
<1> USE EveryThreadPushes
<1> DEFINE N == Len(order)
           D == Len(out)
<1>1. N \in Nat /\ D \in Nat /\ D < N /\ tail = order[D + 1] /\ head = order[N]
  BY DEF Ind, TypeOK, ListShape, OrderShape, PopShape
<1>2. count - Late = N - 1 - D - Cardinality(Uncounted)
        /\ Cardinality(Uncounted) \in Nat
  <2>1. IsFiniteSet(Uncounted)
    <3>1. Uncounted \subseteq Threads
      BY DEF Uncounted
    <3> QED
      BY <3>1, SchedulerAssumption, FS_Subset DEF MPSCAssumption
  <2>2. Cardinality(Uncounted) \in Nat
    BY <2>1, FS_CardinalityType
  <2>3. count \in Int
    BY DEF Ind, TypeOK
  <2>4. count + Cardinality(Uncounted) + D = N - 1 + Late
    BY DEF CountTracksQueue, Late
  <2>5. Late \in Int
    BY DEF Late
  <2> HIDE DEF N, D
  <2> QED
    BY <2>2, <2>3, <2>4, <2>5, <1>1
<1>3. CASE D + 1 = N
  BY <1>1, <1>2, <1>3
<1>4. CASE D + 1 # N
  <2>1. D + 1 \in 1..(N - 1)
    BY <1>1, <1>4
  <2>2. next[order[D + 1]] = Null
    BY <1>1 DEF CanPop
  <2>3. order[D + 2] # Null
    <3>1. order[D + 2] \in Node
      BY <1>1, <2>1 DEF Ind, TypeOK
    <3> QED
      BY <3>1, SchedulerAssumption DEF MPSCAssumption
  <2>4. PendingLink(D + 1)
    BY <2>1, <2>2, <2>3 DEF Ind, ListShape, LinkShape
  <2>5. PICK t \in Threads : pc[t] = "link" /\ Mine(t) = order[D + 2]
    BY <2>4, <1>1 DEF PendingLink
  <2>6. head = order[D + 2]
    BY <2>5 DEF Wake
  <2>7. D + 2 = N
    <3>1. D + 2 \in 1..N /\ N \in 1..N
      BY <2>1, <1>1
    <3>2. \A i, j \in 1..N : order[i] = order[j] => i = j
      BY DEF Ind, ListShape, OrderShape
    <3> QED
      BY <3>1, <3>2, <2>6, <1>1
  <2>8. Uncounted = {t}
    BY <2>5 DEF Uncounted, Wake, Busy
  <2>9. Cardinality(Uncounted) = 1
    BY <2>8, FS_Singleton
  <2> QED
    BY <1>1, <1>2, <2>7, <2>9
<1> QED
  BY <1>3, <1>4

(* A step in which no push takes part, after which somebody still looks if *)
(* somebody did.                                                           *)
LEMMA WakeFrame ==
  ASSUME Wake, UNCHANGED <<pc, head, sent, scheduling, overlapped>>,
         ~overlapped /\ count' - Late' > 0 => count - Late > 0 /\ (Covered => Covered'),
         cpc' # "idle" => \E w \in Workers : wpc'[w] = "pop"
  PROVE  Wake'
<1>1. \A t \in Threads : (Busy(t))' = Busy(t) /\ (Mine(t))' = Mine(t)
  BY DEF Busy, Mine
<1> QED
  BY <1>1 DEF Wake

(* A worker that goes from one place to another. *)
LEMMA CoveredMove ==
  ASSUME OwnType, NEW w \in Workers, NEW to \in Looking,
         wpc' = [wpc EXCEPT ![w] = to]
  PROVE  Covered'
BY DEF Covered, OwnType, Looking

LEMMA WakeStep ==
  ASSUME OwnType, Ind, CountTracksQueue, Wake, [SchedulerNext]_schedulerVars
  PROVE  Wake'
<1> USE EveryThreadPushes DEF queueVars, vars, workVars, consumerVars, producerVars
<1>0. count \in Int /\ Late \in Int /\ Late' \in Int
  BY DEF Ind, TypeOK, Late
<1>1. ASSUME NEW t \in Threads, PushExchange(t) PROVE Wake'
  <2>1. /\ t \notin scheduling /\ pc[t] = "idle"
        /\ pc' = [pc EXCEPT ![t] = "link"] /\ sent' = [sent EXCEPT ![t] = @ + 1]
        /\ head' = <<t, sent[t] + 1>>
        /\ UNCHANGED <<count, cpc, ready, context, wpc, scheduling>>
        /\ overlapped' = (overlapped \/ \E u \in Threads \ {t} : Busy(u))
    BY <1>1 DEF PushExchange, Exchange, consumerVars
  <2>2. \A u \in Threads \ {t} : (Busy(u))' = Busy(u)
    BY <2>1 DEF Busy, Ind, TypeOK
  <2>3. head' = (Mine(t))' /\ Covered' = Covered /\ Late' = Late
    BY <2>1 DEF Mine, Ind, TypeOK, Covered, Late
  <2>4. \A s \in scheduling' : pc'[s] = "idle"
    BY <2>1 DEF Wake, Ind, TypeOK, OwnType
  <2>5. ASSUME ~overlapped'
        PROVE  /\ \A s, u \in Threads : (Busy(s))' /\ (Busy(u))' => s = u
               /\ \A u \in Threads : pc'[u] # "idle" => u = t
    BY <2>1, <2>2, <2>5 DEF OwnType, Busy
  <2> QED
    BY <2>1, <2>3, <2>4, <2>5 DEF Wake, OwnType
<1>2. ASSUME NEW t \in Threads, PushLink(t) PROVE Wake'
  <2>1. /\ pc[t] = "link" /\ pc' = [pc EXCEPT ![t] = "count"]
        /\ UNCHANGED <<head, count, cpc, sent, ready, wpc, scheduling, overlapped>>
    BY <1>2 DEF PushLink, Link, consumerVars
  <2>2. \A u \in Threads : (Busy(u))' = Busy(u) /\ (Mine(u))' = Mine(u)
    BY <2>1 DEF Busy, Mine, Ind, TypeOK
  <2>3. \A u \in Threads : pc'[u] # "idle" <=> pc[u] # "idle"
    BY <2>1 DEF Ind, TypeOK
  <2>4. Covered' = Covered /\ Late' = Late
    BY <2>1 DEF Covered, Late
  <2> QED
    BY <2>1, <2>2, <2>3, <2>4 DEF Wake, OwnType
<1>3. ASSUME NEW t \in Threads, PushCount(t) PROVE Wake'
  <2>1. /\ pc[t] = "count" /\ pc' = [pc EXCEPT ![t] = "idle"] /\ count' = count + 1
        /\ scheduling' = IF FoundZero THEN scheduling \cup {t} ELSE scheduling
        /\ UNCHANGED <<head, cpc, sent, ready, wpc, overlapped>>
    BY <1>3 DEF PushCount, IncreaseNodeCount, consumerVars
  <2>2. \A u \in Threads : (Busy(u))' => Busy(u)
    BY <2>1 DEF Busy, Ind, TypeOK
  <2>3. /\ \A u \in Threads : pc'[u] # "idle" => pc[u] # "idle"
        /\ \A u \in Threads : (Mine(u))' = Mine(u)
        /\ pc'[t] = "idle" /\ Late' = Late
    BY <2>1 DEF Ind, TypeOK, Mine, Late
  <2>4. ASSUME ~overlapped, count' - Late' > 0 PROVE Covered'
    <3>1. CASE FoundZero
      BY <2>1, <3>1 DEF Covered
    <3>2. CASE ~FoundZero /\ count - Late > 0
      BY <2>1, <2>4, <3>2 DEF Wake, Covered
    <3>3. CASE ~FoundZero /\ count - Late <= 0
      <4>1. cpc = "uncount"
        BY <2>1, <2>3, <2>4, <3>3, <1>0 DEF FoundZero, Late
      <4>2. PICK w \in Workers : wpc[w] = "pop"
        BY <4>1 DEF Wake
      <4> QED
        BY <4>2, <2>1 DEF Covered, Looking
    <3> QED
      BY <3>1, <3>2, <3>3, <1>0
  <2>5. \A u \in scheduling' : pc'[u] = "idle"
    BY <2>1, <2>3 DEF Wake, OwnType, Ind, TypeOK
  <2> QED
    BY <2>1, <2>2, <2>3, <2>4, <2>5 DEF Wake
<1>4. ASSUME NEW t \in Threads, Schedule(t) PROVE Wake'
  <2>1. /\ scheduling' = scheduling \ {t} /\ ready' = ready + 1
        /\ UNCHANGED <<head, pc, sent, cpc, count, wpc, overlapped>>
    BY <1>4 DEF Schedule
  <2>2. \A u \in Threads : /\ (Busy(u))' => Busy(u)
                           /\ (Mine(u))' = Mine(u)
    BY <2>1 DEF Busy, Mine
  <2>3. Covered'
    BY <2>1 DEF Covered, OwnType
  <2> QED
    BY <2>1, <2>2, <2>3 DEF Wake
<1>5. ASSUME NEW w \in Workers, EnterSlice(w) PROVE Wake'
  <2>1. /\ wpc[w] = "io" /\ wpc' = [wpc EXCEPT ![w] = "spin"]
        /\ UNCHANGED <<head, pc, sent, cpc, count, ready, scheduling, overlapped>>
    BY <1>5 DEF EnterSlice, Move
  <2>2. /\ \A v \in Workers : wpc[v] \in Looking => wpc'[v] \in Looking
        /\ \A v \in Workers : wpc[v] = "pop" => wpc'[v] = "pop"
    BY <2>1 DEF OwnType, Looking
  <2> QED
    BY <2>1, <2>2, WakeFrame DEF Wake, Covered, Late
<1>6. ASSUME NEW w \in Workers, TakeChannel(w) PROVE Wake'
  <2>1. /\ wpc[w] = "spin" /\ wpc' = [wpc EXCEPT ![w] = "begin"]
        /\ UNCHANGED <<head, pc, sent, cpc, count, scheduling, overlapped>>
    BY <1>6 DEF TakeChannel, Move
  <2>2. Covered'
    BY <2>1, CoveredMove DEF Looking
  <2>3. \A v \in Workers : wpc[v] = "pop" => wpc'[v] = "pop"
    BY <2>1 DEF OwnType
  <2> QED
    BY <2>1, <2>2, <2>3, WakeFrame DEF Wake, Late
<1>7. ASSUME NEW w \in Workers, BeginContext(w) PROVE Wake'
  <2>1. /\ wpc[w] = "begin" /\ wpc' = [wpc EXCEPT ![w] = "drain"]
        /\ UNCHANGED <<head, pc, sent, cpc, count, scheduling, overlapped>>
    BY <1>7 DEF BeginContext, Move
  <2>2. Covered'
    BY <2>1, CoveredMove DEF Looking
  <2>3. \A v \in Workers : wpc[v] = "pop" => wpc'[v] = "pop"
    BY <2>1 DEF OwnType
  <2> QED
    BY <2>1, <2>2, <2>3, WakeFrame DEF Wake, Late
<1>8. ASSUME NEW w \in Workers, PopMessage(w) PROVE Wake'
  <2>1. /\ wpc' = [wpc EXCEPT ![w] = "pop"] /\ cpc = "idle" /\ cpc' = "uncount"
        /\ UNCHANGED <<head, pc, sent, count, scheduling, overlapped>>
    BY <1>8 DEF PopMessage, Move, PopAdvance, producerVars
  <2>2. Covered' /\ wpc'[w] = "pop"
    BY <2>1, CoveredMove DEF Looking, OwnType
  <2>3. count' - Late' > 0 => count - Late > 0
    BY <2>1, <1>0 DEF Late
  <2> QED
    BY <2>1, <2>2, <2>3, WakeFrame
<1>9. ASSUME NEW w \in Workers, UncountMessage(w) PROVE Wake'
  <2>1. /\ cpc = "uncount" /\ cpc' = "free" /\ count' = count - 1
        /\ UNCHANGED <<head, pc, sent, ready, wpc, scheduling, overlapped>>
    BY <1>9 DEF UncountMessage, PopUncount, producerVars
  <2>2. count' - Late' = count - Late
    BY <2>1, <1>0 DEF Late
  <2> QED
    BY <2>1, <2>2, WakeFrame DEF Wake, Covered
<1>10. ASSUME NEW w \in Workers, ExecuteMessage(w) PROVE Wake'
  <2>1. /\ wpc' = [wpc EXCEPT ![w] = "exec"] /\ cpc = "free" /\ cpc' = "idle"
        /\ UNCHANGED <<head, pc, sent, count, scheduling, overlapped>>
    BY <1>10 DEF ExecuteMessage, Move, PopFree, producerVars
  <2>2. Covered' /\ Late' = Late
    BY <2>1, CoveredMove DEF Looking, Late
  <2> QED
    BY <2>1, <2>2, WakeFrame
<1>11. ASSUME NEW w \in Workers, MessageDone(w) PROVE Wake'
  <2>1. /\ wpc[w] = "exec" /\ wpc' = [wpc EXCEPT ![w] = "drain"]
        /\ UNCHANGED <<head, pc, sent, cpc, count, scheduling, overlapped>>
    BY <1>11 DEF MessageDone, Move
  <2>2. Covered'
    BY <2>1, CoveredMove DEF Looking
  <2>3. \A v \in Workers : wpc[v] = "pop" => wpc'[v] = "pop"
    BY <2>1 DEF OwnType
  <2> QED
    BY <2>1, <2>2, <2>3, WakeFrame DEF Wake, Late
<1>12. ASSUME NEW w \in Workers, LeaveLoop(w) PROVE Wake'
  <2>1. /\ ~CanPop /\ wpc[w] = "drain" /\ wpc' = [wpc EXCEPT ![w] = "end"]
        /\ UNCHANGED <<head, pc, sent, cpc, count, scheduling, overlapped>>
    BY <1>12 DEF LeaveLoop, Move, CanPop
  <2>2. ~overlapped => ~(count' - Late' > 0)
    BY <2>1, NothingOwed, <1>0 DEF Late
  <2>3. \A v \in Workers : wpc[v] = "pop" => wpc'[v] = "pop"
    BY <2>1 DEF OwnType
  <2> QED
    BY <2>1, <2>2, <2>3, WakeFrame DEF Wake
<1>13. ASSUME NEW w \in Workers, EndContext(w) PROVE Wake'
  <2>1. PICK to \in {"spin", "io"} : Move(w, "end", to)
    BY <1>13 DEF EndContext
  <2>2. /\ wpc[w] = "end" /\ wpc' = [wpc EXCEPT ![w] = to]
        /\ UNCHANGED <<head, pc, sent, cpc, count, ready, scheduling, overlapped>>
    BY <1>13, <2>1 DEF EndContext, Move
  <2>3. /\ \A v \in Workers : wpc[v] \in Looking => wpc'[v] \in Looking
        /\ \A v \in Workers : wpc[v] = "pop" => wpc'[v] = "pop"
    BY <2>2 DEF OwnType, Looking
  <2> QED
    BY <2>2, <2>3, WakeFrame DEF Wake, Covered, Late
<1>14. ASSUME NEW t \in Threads, Inline(t) PROVE Wake'
  BY <1>14, WakeFrame DEF Inline, PostInline, InlineDone, Wake, Covered, Late
<1>15. CASE UNCHANGED schedulerVars
  BY <1>15, WakeFrame DEF schedulerVars, Wake, Covered, Late
<1> QED
  BY <1>1, <1>2, <1>3, <1>4, <1>5, <1>6, <1>7, <1>8, <1>9, <1>10, <1>11, <1>12, <1>13, <1>14,
     <1>15
  DEF SchedulerNext, Push, Work

(* Channel::Push wakes the channel whenever it has to, for as long as no   *)
(* two pushes overlap: a message is never left on the queue with no ready  *)
(* entry, no worker and no push to see to it.                              *)
THEOREM WakeTheorem == SchedulerSpec => []StrandedOnlyAfterOverlap
<1> USE EveryThreadPushes
<1>1. SchedulerInit => Wake
  <2> SUFFICES ASSUME SchedulerInit PROVE Wake
    OBVIOUS
  <2>1. pc = [t \in Threads |-> "idle"] /\ cpc = "idle" /\ count = 0 /\ scheduling = {}
    BY DEF SchedulerInit, Init
  <2> QED
    BY <2>1 DEF Wake, Busy, Late
<1>2. OwnType /\ Ind /\ CountTracksQueue /\ Wake /\ [SchedulerNext]_schedulerVars => Wake'
  BY WakeStep
<1>3. OwnType /\ Ind /\ CountTracksQueue /\ Wake => StrandedOnlyAfterOverlap
  <2> SUFFICES ASSUME OwnType, Ind, CountTracksQueue, Wake, Unattended, ~overlapped
               PROVE  FALSE
    BY DEF StrandedOnlyAfterOverlap
  <2>1. CanPop /\ ready = 0 /\ Inside = {} /\ \A t \in Threads : ~Busy(t)
    BY DEF Unattended, CanPop
  <2>2. ~Covered
    BY <2>1 DEF Covered, Inside, Looking, Busy, OwnType
  <2>3. Len(order) - 1 - Len(out) >= 1
    BY <2>1 DEF Ind, TypeOK, ListShape, OrderShape, LinkShape, PopShape,
                CanPop
  <2>4. Uncounted = {}
    BY <2>1 DEF Uncounted, Busy
  <2>5. Cardinality(Uncounted) = 0
    BY <2>4, FS_EmptySet
  <2>6. count - Late >= 1
    BY <2>3, <2>5 DEF CountTracksQueue, Late, Ind, TypeOK
  <2> QED
    BY <2>2, <2>6 DEF Wake, Ind, TypeOK, Late
<1> QED
  BY <1>1, <1>2, <1>3, OwnTypeAlways, QueueFacts, PTL DEF SchedulerSpec
=============================================================================
