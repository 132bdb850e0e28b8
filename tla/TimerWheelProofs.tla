--------------------------- MODULE TimerWheelProofs ---------------------------
(***************************************************************************)
(* Proofs about TimerWheel, for a ring of any length, flushes of any size  *)
(* and any timers: what waits is where Flush looks for it, no timer is     *)
(* reserved twice, and the wheel implements Timers.                        *)
(***************************************************************************)
EXTENDS TimerWheel, SequenceTheorems, FiniteSetTheorems, TLAPS

Places == 0..(Ring - 1)

(* While it runs, Flush is cnt slots past tick_index_. *)
CursorInv ==
    /\ Idle => cnt = 0 /\ total = 0
    /\ ~Idle => /\ cnt < total
                /\ cursor = (cnt + index) % Ring
    /\ running # None => Ahead(running.target) = cnt

(* In a slot no timer is twice. *)
Once(s) == \A k, l \in DOMAIN s : s[k].timer = s[l].timer => k = l

(* Nor is it in two slots, in a slot and in the heap, or in one of them    *)
(* while it runs; and what is reserved was registered as such.             *)
Apart(A, B) == \A a \in A, b \in B : a.timer # b.timer

SlotsApart ==
    /\ \A i \in Places : Once(slots[i])
    /\ \A i, j \in Places : i # j => Apart(ToSet(slots[i]), ToSet(slots[j]))
    /\ \A i \in Places : Apart(ToSet(slots[i]), heap)
    /\ \A a, b \in heap : a.timer = b.timer => a = b

ReservedInv ==
    /\ SlotsApart
    /\ running # None => Apart(Waiting, {running}) /\ running.timer \in reserved
    /\ \A a \in Waiting : a.timer \in reserved

WheelInv ==
    /\ TypeOK /\ IsFiniteSet(heap)
    /\ CursorInv
    /\ InPlace
    /\ ReservedInv

-----------------------------------------------------------------------------
(* The ring: places and how far ahead of tick_index_ they are. *)

LEMMA Bounds ==
  /\ Ring \in Nat /\ Ring > 0 /\ MaxFlush \in Nat /\ MaxFlush > 0 /\ MaxFlush <= Ring
  /\ None \notin Item /\ MaxTime \in Nat /\ OneShots \cap Periodics = {}
  /\ Delays \subseteq Nat /\ Period \in [Periodics -> Nat \ {0}]
BY TimerAssumption

LEMMA Around ==
  ASSUME NEW a \in Places, NEW k \in Places
  PROVE  (k + a) % Ring = IF k + a < Ring THEN k + a ELSE k + a - Ring
<1>1. \A r \in Places : r % Ring = r /\ (r + Ring) % Ring = r
  BY Bounds DEF Places
<1>2. CASE k + a < Ring
  BY <1>1, <1>2, Bounds DEF Places
<1>3. CASE ~(k + a < Ring)
  <2>1. k + a - Ring \in Places
    BY <1>3, Bounds DEF Places
  <2>2. ((k + a - Ring) + Ring) % Ring = k + a - Ring
    BY <1>1, <2>1
  <2>3. (k + a - Ring) + Ring = k + a
    BY Bounds DEF Places
  <2> QED
    BY <1>3, <2>2, <2>3
<1> QED
  BY <1>2, <1>3

(* The distance of a place from another, and from tick_index_. *)
LEMMA Between ==
  ASSUME NEW i \in Places, NEW a \in Places
  PROVE  (i - a + Ring) % Ring = IF a <= i THEN i - a ELSE i - a + Ring
<1>1. \A r \in Places : r % Ring = r /\ (r + Ring) % Ring = r
  BY Bounds DEF Places
<1>2. CASE a <= i
  BY <1>1, <1>2, Bounds DEF Places
<1>3. CASE ~(a <= i)
  <2>1. i - a + Ring \in Places
    BY <1>3, Bounds DEF Places
  <2> QED
    BY <1>1, <1>3, <2>1
<1> QED
  BY <1>2, <1>3

LEMMA Distance ==
  ASSUME NEW i \in Places, index \in Places
  PROVE  Ahead0(i) = IF index <= i THEN i - index ELSE i - index + Ring
BY Between DEF Ahead0

(* The place a number of steps ahead is that far ahead. *)
LEMMA PlaceAhead ==
  ASSUME index \in Places, NEW k \in Places
  PROVE  (k + index) % Ring \in Places /\ Ahead0((k + index) % Ring) = k
<1>1. PICK i : i = (k + index) % Ring
  OBVIOUS
<1>2. i = IF k + index < Ring THEN k + index ELSE k + index - Ring
  BY <1>1, Around
<1>3. i \in Places
  BY <1>2, Bounds DEF Places
<1>4. Ahead0(i) = IF index <= i THEN i - index ELSE i - index + Ring
  BY <1>3, Distance
<1> QED
  BY <1>1, <1>2, <1>3, <1>4, Bounds DEF Places

-----------------------------------------------------------------------------
(* Sequences of items and the sets of what is in them. *)

LEMMA OneMore ==
  ASSUME NEW s \in Seq(Item), NEW e \in Item
  PROVE  /\ Append(s, e) \in Seq(Item) /\ ToSet(Append(s, e)) = ToSet(s) \cup {e}
         /\ Once(s) /\ Apart(ToSet(s), {e}) => Once(Append(s, e))
<1>1. /\ Len(s) \in Nat /\ DOMAIN s = 1..Len(s) /\ Append(s, e) \in Seq(Item)
      /\ DOMAIN Append(s, e) = 1..(Len(s) + 1)
      /\ \A i \in 1..Len(s) : Append(s, e)[i] = s[i]
      /\ Append(s, e)[Len(s) + 1] = e
  BY AppendProperties, LenProperties
<1>2. PICK t : t = Append(s, e)
  OBVIOUS
<1>3. ToSet(t) = ToSet(s) \cup {e}
  BY <1>1, <1>2 DEF ToSet
<1>4. ASSUME Once(s), Apart(ToSet(s), {e}), NEW k \in DOMAIN t, NEW l \in DOMAIN t,
             t[k].timer = t[l].timer
      PROVE  k = l
  <2>1. \A i \in DOMAIN s : s[i].timer # e.timer
    BY <1>4 DEF Apart, ToSet
  <2>2. CASE k \in DOMAIN s /\ l \in DOMAIN s
    BY <1>1, <1>2, <1>4, <2>2 DEF Once
  <2>3. CASE k \notin DOMAIN s /\ l \notin DOMAIN s
    BY <1>1, <1>2, <1>4, <2>3
  <2>4. CASE k \in DOMAIN s /\ l \notin DOMAIN s
    BY <1>1, <1>2, <1>4, <2>1, <2>4
  <2>5. CASE k \notin DOMAIN s /\ l \in DOMAIN s
    BY <1>1, <1>2, <1>4, <2>1, <2>5
  <2> QED
    BY <2>2, <2>3, <2>4, <2>5
<1> QED
  BY <1>1, <1>2, <1>3, <1>4 DEF Once

LEMMA OneLess ==
  ASSUME NEW s \in Seq(Item), s # <<>>
  PROVE  /\ Head(s) \in Item /\ Tail(s) \in Seq(Item)
         /\ ToSet(s) = {Head(s)} \cup ToSet(Tail(s))
         /\ Once(s) => Once(Tail(s)) /\ Apart(ToSet(Tail(s)), {Head(s)})
<1>1. PICK t, h : t = Tail(s) /\ h = Head(s)
  OBVIOUS
<1>2. /\ Len(s) \in Nat /\ Len(s) > 0 /\ DOMAIN s = 1..Len(s) /\ h = s[1] /\ h \in Item
      /\ t \in Seq(Item) /\ DOMAIN t = 1..(Len(s) - 1)
      /\ \A i \in DOMAIN t : t[i] = s[i + 1]
  BY <1>1, HeadTailProperties, LenProperties, EmptySeq, ElementOfSeq
<1>3. ToSet(s) = {h} \cup ToSet(t)
  <2>1. ASSUME NEW a \in ToSet(s) PROVE a \in {h} \cup ToSet(t)
    <3>1. PICK i \in DOMAIN s : a = s[i]
      BY <2>1 DEF ToSet
    <3>2. CASE i = 1
      BY <1>2, <3>1, <3>2
    <3>3. CASE i # 1
      <4>1. i - 1 \in DOMAIN t /\ t[i - 1] = s[i]
        BY <1>2, <3>1, <3>3
      <4> QED
        BY <3>1, <4>1 DEF ToSet
    <3> QED
      BY <3>2, <3>3
  <2>2. ASSUME NEW a \in ToSet(t) PROVE a \in ToSet(s)
    <3>1. PICK i \in DOMAIN t : a = t[i]
      BY <2>2 DEF ToSet
    <3>2. i + 1 \in DOMAIN s /\ s[i + 1] = a
      BY <1>2, <3>1
    <3> QED
      BY <3>2 DEF ToSet
  <2>3. h \in ToSet(s)
    BY <1>2 DEF ToSet
  <2> QED
    BY <2>1, <2>2, <2>3
<1>4. ASSUME Once(s) PROVE Once(t) /\ Apart(ToSet(t), {h})
  <2>1. ASSUME NEW k \in DOMAIN t, NEW l \in DOMAIN t, t[k].timer = t[l].timer PROVE k = l
    <3>1. k + 1 \in DOMAIN s /\ l + 1 \in DOMAIN s /\ s[k + 1].timer = s[l + 1].timer
      BY <1>2, <2>1
    <3> QED
      BY <1>2, <1>4, <3>1 DEF Once
  <2>2. ASSUME NEW k \in DOMAIN t PROVE t[k].timer # h.timer
    <3>1. k + 1 \in DOMAIN s /\ s[k + 1] = t[k] /\ 1 \in DOMAIN s /\ s[1] = h /\ k + 1 # 1
      BY <1>2, <2>2
    <3> QED
      BY <1>4, <3>1 DEF Once
  <2> QED
    BY <2>1, <2>2 DEF Once, Apart, ToSet
<1> QED
  BY <1>1, <1>2, <1>3, <1>4

LEMMA OneAfterTheOther ==
  ASSUME NEW s \in Seq(Item), NEW t \in Seq(Item)
  PROVE  /\ s \o t \in Seq(Item) /\ ToSet(s \o t) = ToSet(s) \cup ToSet(t)
         /\ Once(s) /\ Once(t) /\ Apart(ToSet(s), ToSet(t)) => Once(s \o t)
<1>1. PICK u : u = s \o t
  OBVIOUS
<1>2. /\ Len(s) \in Nat /\ DOMAIN s = 1..Len(s) /\ Len(t) \in Nat /\ DOMAIN t = 1..Len(t)
      /\ u \in Seq(Item) /\ DOMAIN u = 1..(Len(s) + Len(t))
      /\ \A i \in 1..(Len(s) + Len(t)) : u[i] = IF i <= Len(s) THEN s[i] ELSE t[i - Len(s)]
  BY <1>1, ConcatProperties, LenProperties
<1>3. \A i \in DOMAIN u : \/ i \in DOMAIN s /\ u[i] = s[i]
                          \/ i - Len(s) \in DOMAIN t /\ u[i] = t[i - Len(s)]
  BY <1>2
<1>4. /\ \A i \in DOMAIN s : i \in DOMAIN u /\ u[i] = s[i]
      /\ \A i \in DOMAIN t : i + Len(s) \in DOMAIN u /\ u[i + Len(s)] = t[i]
  BY <1>2
<1>5. ToSet(u) = ToSet(s) \cup ToSet(t)
  <2>1. ASSUME NEW a \in ToSet(u) PROVE a \in ToSet(s) \cup ToSet(t)
    BY <1>3, <2>1 DEF ToSet
  <2>2. ASSUME NEW a \in ToSet(s) \cup ToSet(t) PROVE a \in ToSet(u)
    BY <1>4, <2>2 DEF ToSet
  <2> QED
    BY <2>1, <2>2
<1>6. ASSUME Once(s), Once(t), Apart(ToSet(s), ToSet(t)), NEW k \in DOMAIN u, NEW l \in DOMAIN u,
             u[k].timer = u[l].timer
      PROVE  k = l
  <2>1. \A i \in DOMAIN s, j \in DOMAIN t : s[i].timer # t[j].timer
    BY <1>6 DEF Apart, ToSet
  <2>2. CASE k <= Len(s) /\ l <= Len(s)
    BY <1>2, <1>6, <2>2 DEF Once
  <2>3. CASE ~(k <= Len(s)) /\ ~(l <= Len(s))
    <3>1. k - Len(s) \in DOMAIN t /\ l - Len(s) \in DOMAIN t
          /\ u[k] = t[k - Len(s)] /\ u[l] = t[l - Len(s)]
      BY <1>2, <1>6, <2>3
    <3>2. k - Len(s) = l - Len(s)
      BY <1>6, <3>1 DEF Once
    <3> QED
      BY <1>2, <1>6, <3>2
  <2>4. CASE k <= Len(s) /\ ~(l <= Len(s))
    <3>1. k \in DOMAIN s /\ u[k] = s[k] /\ l - Len(s) \in DOMAIN t /\ u[l] = t[l - Len(s)]
      BY <1>2, <1>6, <2>4
    <3> QED
      BY <1>6, <2>1, <3>1
  <2>5. CASE ~(k <= Len(s)) /\ l <= Len(s)
    <3>1. l \in DOMAIN s /\ u[l] = s[l] /\ k - Len(s) \in DOMAIN t /\ u[k] = t[k - Len(s)]
      BY <1>2, <1>6, <2>5
    <3> QED
      BY <1>6, <2>1, <3>1
  <2> QED
    BY <2>2, <2>3, <2>4, <2>5
<1> QED
  BY <1>1, <1>2, <1>5, <1>6 DEF Once

(* A set of items with different timers, in the order of their times. *)
LEMMA InOrder ==
  ASSUME NEW S, S \subseteq Item, IsFiniteSet(S), NEW s \in HeapOrders(S),
         \A a, b \in S : a.timer = b.timer => a = b
  PROVE  s \in Seq(Item) /\ ToSet(s) = S /\ Once(s)
<1>1. PICK n : n = Cardinality(S)
  OBVIOUS
<1>2. /\ n \in Nat /\ s \in [1..n -> S] /\ DOMAIN s = 1..n
      /\ \A i, j \in 1..n : i # j => s[i] # s[j]
  BY <1>1, FS_CardinalityType DEF HeapOrders, SetToSeqs
<1>3. s \in Seq(Item)
  BY <1>2
<1>4. s \in Injection(1..n, S)
  BY <1>2 DEF Injection, IsInjective
<1>5. Cardinality(1..n) = n
  BY <1>2, FS_Interval
<1>6. s \in Surjection(1..n, S)
  BY <1>1, <1>4, <1>5, FS_Injection
<1>7. ToSet(s) = S
  BY <1>2, <1>6 DEF ToSet, Surjection
<1>8. Once(s)
  BY <1>2 DEF Once
<1> QED
  BY <1>3, <1>7, <1>8

-----------------------------------------------------------------------------
(* What waits, place by place. *)

LEMMA WhatWaits ==
  /\ \A a : a \in Waiting <=> a \in heap \/ \E i \in Places : a \in ToSet(slots[i])
  /\ \A a : a \in Waiting' <=> a \in heap' \/ \E i \in Places : a \in ToSet(slots'[i])
BY DEF Waiting, InSlots, Places

LEMMA SlotsTyped ==
  ASSUME TypeOK
  PROVE  /\ slots \in [Places -> Seq(Item)] /\ heap \subseteq Item
         /\ \A i \in Places : slots[i] \in Seq(Item) /\ ToSet(slots[i]) \subseteq Item
         /\ base \in Nat /\ now \in Nat /\ base <= now /\ index \in Places
         /\ cnt \in Nat /\ total \in Nat /\ total <= MaxFlush /\ total <= now - base
<1>1. slots \in [Places -> Seq(Item)] /\ \A i \in Places : slots[i] \in Seq(Item)
  BY DEF TypeOK, Places
<1>2. ASSUME NEW i \in Places PROVE ToSet(slots[i]) \subseteq Item
  <2>1. PICK s : s = slots[i]
    OBVIOUS
  <2>2. s \in Seq(Item)
    BY <1>1, <2>1
  <2>3. \A k \in DOMAIN s : s[k] \in Item
    BY <2>2, ElementOfSeq, LenProperties
  <2> QED
    BY <2>1, <2>3 DEF ToSet
<1> QED
  BY <1>1, <1>2, Bounds DEF TypeOK, Places, Least

(* InPlace for one set of items in one place. *)
Fits(i, S) == \A item \in S : Ahead(item.target) = Ahead0(i) /\ Ahead0(i) >= cnt

(* The timer is put where its time comes, and nothing else moves. *)
LEMMA Placed ==
  ASSUME TypeOK, IsFiniteSet(heap), InPlace, SlotsApart,
         NEW item \in Item, ReserveAt(item), UNCHANGED <<base, index, cnt>>,
         Ahead(item.target) >= cnt, Apart(Waiting, {item})
  PROVE  /\ slots' \in [Places -> Seq(Item)] /\ heap' \subseteq Item /\ IsFiniteSet(heap')
         /\ InPlace' /\ SlotsApart'
         /\ Waiting' = Waiting \cup {item} /\ item \notin Waiting
<1>1. item \notin Waiting
  BY DEF Apart
<1>2. PICK d : d = Ahead(item.target)
  OBVIOUS
<1>3. d \in Nat /\ d >= cnt /\ cnt \in Nat
  BY <1>2, SlotsTyped DEF Item, Ahead
<1>4. CASE d >= Ring
  <2>1. heap' = heap \cup {item} /\ slots' = slots
    BY <1>2, <1>4 DEF ReserveAt
  <2>2. item.target > base
    BY <1>2, <1>4, SlotsTyped, Bounds DEF Item, Ahead
  <2>3. heap' \subseteq Item /\ IsFiniteSet(heap')
    BY <2>1, SlotsTyped, FS_AddElement
  <2>4. InPlace'
    BY <2>1, <2>2 DEF InPlace, Ahead, Ahead0
  <2>5. \A i \in Places : Apart(ToSet(slots[i]), {item})
    BY WhatWaits DEF Apart
  <2>6. Apart(heap, {item})
    BY WhatWaits DEF Apart
  <2>7. SlotsApart'
    BY <2>1, <2>5, <2>6 DEF SlotsApart, Apart
  <2>8. Waiting' = Waiting \cup {item}
    BY <2>1, WhatWaits
  <2> QED
    BY <1>1, <2>1, <2>3, <2>4, <2>7, <2>8, SlotsTyped
<1>5. CASE ~(d >= Ring)
  <2>1. PICK i : i = (d + index) % Ring
    OBVIOUS
  <2>2. d \in Places /\ i \in Places /\ Ahead0(i) = d
    BY <1>3, <1>5, <2>1, PlaceAhead, SlotsTyped, Bounds DEF Places
  <2>3. PICK s, t : s = slots[i] /\ t = Append(s, item)
    OBVIOUS
  <2>4. slots' = [slots EXCEPT ![i] = t] /\ heap' = heap
    BY <1>2, <1>5, <2>1, <2>3 DEF ReserveAt, SlotOf
  <2>5. s \in Seq(Item) /\ slots \in [Places -> Seq(Item)] /\ heap \subseteq Item
    BY <2>2, <2>3, SlotsTyped
  <2>6. t \in Seq(Item) /\ ToSet(t) = ToSet(s) \cup {item}
        /\ (Once(s) /\ Apart(ToSet(s), {item}) => Once(t))
    BY <2>3, <2>5, OneMore
  <2>7. /\ slots' \in [Places -> Seq(Item)] /\ slots'[i] = t
        /\ \A j \in Places \ {i} : slots'[j] = slots[j]
    BY <2>2, <2>4, <2>5, <2>6
  <2>8. /\ \A j \in Places : Apart(ToSet(slots[j]), {item})
        /\ Apart(heap, {item})
    BY WhatWaits DEF Apart
  <2>9. Once(t)
    BY <2>2, <2>3, <2>6, <2>8 DEF SlotsApart
  <2>10. SlotsApart'
    <3>1. \A j \in Places : Once(slots'[j])
      BY <2>7, <2>9 DEF SlotsApart
    <3>2. ASSUME NEW j \in Places, NEW k \in Places, j # k
          PROVE  Apart(ToSet(slots'[j]), ToSet(slots'[k]))
      <4>1. Apart(ToSet(slots[j]), ToSet(slots[k]))
        BY <3>2 DEF SlotsApart
      <4>2. Apart(ToSet(slots[j]), {item}) /\ Apart(ToSet(slots[k]), {item})
        BY <2>8
      <4>3. CASE j = i
        <5>1. slots'[k] = slots[k] /\ ToSet(slots'[j]) = ToSet(slots[j]) \cup {item}
          BY <2>3, <2>6, <2>7, <3>2, <4>3
        <5> QED
          BY <4>1, <4>2, <5>1 DEF Apart
      <4>4. CASE k = i
        <5>1. slots'[j] = slots[j] /\ ToSet(slots'[k]) = ToSet(slots[k]) \cup {item}
          BY <2>3, <2>6, <2>7, <3>2, <4>4
        <5> QED
          BY <4>1, <4>2, <5>1 DEF Apart
      <4>5. CASE j # i /\ k # i
        BY <2>7, <4>1, <4>5
      <4> QED
        BY <4>3, <4>4, <4>5
    <3>3. \A j \in Places : Apart(ToSet(slots'[j]), heap)
      BY <2>3, <2>6, <2>7, <2>8 DEF SlotsApart, Apart
    <3> QED
      BY <2>4, <3>1, <3>2, <3>3 DEF SlotsApart
  <2>11. InPlace'
    <3>1. ASSUME NEW j \in Places PROVE Fits(j, ToSet(slots'[j]))
      BY <1>2, <1>3, <2>2, <2>3, <2>6, <2>7 DEF InPlace, Fits, Places
    <3>2. \A a \in heap' : a.target > base
      BY <2>4 DEF InPlace
    <3> QED
      BY <3>1, <3>2 DEF InPlace, Fits, Ahead, Ahead0, Places
  <2>12. Waiting' = Waiting \cup {item}
    <3>1. \A a : a \in Waiting' <=> a \in Waiting \cup {item}
      BY <2>2, <2>3, <2>4, <2>6, <2>7, WhatWaits
    <3> QED
      BY <3>1
  <2> QED
    BY <1>1, <2>4, <2>5, <2>7, <2>10, <2>11, <2>12
<1> QED
  BY <1>4, <1>5

-----------------------------------------------------------------------------
(* The steps of the wheel: each keeps WheelInv and is a step of Timers, or *)
(* changes neither the clock nor what waits.                               *)

Promised == Promise!Clock \/ Promise!Reserve \/ Promise!Expire \/ UNCHANGED <<now, Waiting>>

LEMMA SameWheel ==
  ASSUME UNCHANGED <<slots, heap>>
  PROVE  Waiting' = Waiting
BY DEF Waiting, InSlots

(* An item of a timer that was nowhere is a reservation. *)
LEMMA Reserved ==
  ASSUME NEW item, Waiting' = Waiting \cup {item}, Apart(Waiting, {item}), UNCHANGED now
  PROVE  Promised
<1>1. \A other \in Waiting : other.timer # item.timer
  BY DEF Apart
<1>2. item \in Waiting' \ Waiting
  BY <1>1
<1> QED
  BY <1>1, <1>2 DEF Promised, Promise!Reserve

LEMMA TickStep ==
  ASSUME WheelInv, Tick
  PROVE  WheelInv' /\ Promised
<1>1. TypeOK /\ now' = now + 1 /\ now' \in 0..MaxTime /\ now \in Nat
      /\ UNCHANGED <<base, index, slots, heap, cursor, cnt, total, running, reserved, cancelled>>
  BY SlotsTyped, Bounds DEF WheelInv, TypeOK, Tick, wheelVars, flushVars
<1>2. Waiting' = Waiting
  BY <1>1, SameWheel
<1>3. TypeOK'
  BY <1>1, SlotsTyped, Bounds DEF TypeOK, Least, Idle
<1>4. CursorInv' /\ InPlace' /\ ReservedInv'
  BY <1>1, <1>2 DEF WheelInv, CursorInv, InPlace, ReservedInv, SlotsApart, Idle, Ahead, Ahead0
<1>5. Promise!Clock
  BY <1>1, <1>2 DEF Promise!Clock
<1> QED
  BY <1>1, <1>3, <1>4, <1>5 DEF WheelInv, Promised

(* A reservation by anyone but the timer itself. *)
LEMMA ReservationStep ==
  ASSUME WheelInv, NEW item \in Item, item.timer \notin reserved, ReserveAt(item),
         Ahead(item.target) >= cnt, reserved' = reserved \cup {item.timer},
         UNCHANGED <<now, base, index, flushVars, cancelled>>
  PROVE  WheelInv' /\ Promised
<1>1. /\ TypeOK /\ IsFiniteSet(heap) /\ InPlace /\ ReservedInv /\ SlotsApart /\ CursorInv
      /\ UNCHANGED <<cursor, cnt, total, running>>
  BY DEF WheelInv, ReservedInv, flushVars
<1>2. Apart(Waiting, {item})
  BY <1>1 DEF Apart, ReservedInv
<1>3. /\ slots' \in [Places -> Seq(Item)] /\ heap' \subseteq Item /\ IsFiniteSet(heap')
      /\ InPlace' /\ SlotsApart'
      /\ Waiting' = Waiting \cup {item}
  BY <1>1, <1>2, Placed
<1>4. TypeOK'
  BY <1>1, <1>3 DEF TypeOK, Idle, Places, Item
<1>5. CursorInv'
  BY <1>1 DEF CursorInv, Idle, Ahead
<1>6. ReservedInv'
  <2>1. running # None => Apart(Waiting', {running}) /\ running.timer \in reserved'
    BY <1>1, <1>3 DEF ReservedInv, Apart
  <2>2. \A a \in Waiting' : a.timer \in reserved'
    BY <1>1, <1>3 DEF ReservedInv
  <2> QED
    BY <1>1, <1>3, <2>1, <2>2 DEF ReservedInv
<1> QED
  BY <1>2, <1>3, <1>4, <1>5, <1>6, Reserved DEF WheelInv

LEMMA ReserveStep ==
  ASSUME WheelInv, NEW t \in OneShots, NEW delay \in Delays, Reserve(t, delay)
  PROVE  WheelInv' /\ Promised
<1>1. PICK item : item = [timer |-> t, target |-> now + delay]
  OBVIOUS
<1>2. TypeOK /\ CursorInv /\ now \in Nat /\ base <= now /\ base \in Nat /\ delay \in Nat
      /\ total <= now - base /\ total \in Nat /\ cnt \in Nat
  BY SlotsTyped, Bounds DEF WheelInv
<1>3. item \in Item /\ item.timer = t /\ item.target = now + delay
  BY <1>1, <1>2 DEF Item, Timer
<1>4. Ahead(item.target) >= cnt
  <2>1. CASE Idle
    BY <1>2, <1>3, <2>1 DEF CursorInv, Ahead
  <2>2. CASE ~Idle
    BY <1>2, <1>3, <2>2 DEF CursorInv, Ahead
  <2> QED
    BY <2>1, <2>2
<1> QED
  BY <1>1, <1>3, <1>4, ReservationStep DEF Reserve

LEMMA ScheduleStep ==
  ASSUME WheelInv, NEW p \in Periodics, Schedule(p)
  PROVE  WheelInv' /\ Promised
<1>1. TypeOK /\ CursorInv /\ now \in Nat /\ base \in Nat /\ Period[p] \in Nat /\ Idle /\ cnt = 0
  BY SlotsTyped, Bounds DEF WheelInv, Schedule, CursorInv
<1>2. PICK created \in 0..now : \E first \in {created, created + Period[p]} :
         ReserveAt([timer |-> p, target |-> first])
  BY DEF Schedule
<1>3. PICK first : first \in Nat /\ ReserveAt([timer |-> p, target |-> first])
  <2>1. PICK first \in {created, created + Period[p]} :
           ReserveAt([timer |-> p, target |-> first])
    BY <1>2
  <2>2. first \in Nat
    BY <1>1, <1>2, <2>1
  <2> QED
    BY <2>1, <2>2
<1>4. PICK item : item = [timer |-> p, target |-> first]
  OBVIOUS
<1>5. item \in Item /\ item.timer = p /\ item.target = first
  BY <1>3, <1>4 DEF Item, Timer
<1>6. Ahead(item.target) >= cnt
  BY <1>1, <1>3, <1>5 DEF Ahead
<1> QED
  BY <1>3, <1>4, <1>5, <1>6, ReservationStep DEF Schedule

LEMMA CancelStep ==
  ASSUME WheelInv, NEW p \in Periodics, Cancel(p)
  PROVE  WheelInv' /\ Promised
<1>1. TypeOK /\ p \in reserved /\ cancelled' = cancelled \cup {p}
      /\ UNCHANGED <<now, base, index, slots, heap, cursor, cnt, total, running, reserved>>
  BY DEF WheelInv, Cancel, wheelVars, flushVars
<1>2. Waiting' = Waiting
  BY <1>1, SameWheel
<1>3. TypeOK'
  BY <1>1 DEF TypeOK, Idle
<1>4. CursorInv' /\ InPlace' /\ ReservedInv'
  BY <1>1, <1>2 DEF WheelInv, CursorInv, InPlace, ReservedInv, SlotsApart, Idle, Ahead, Ahead0
<1> QED
  BY <1>1, <1>2, <1>3, <1>4 DEF WheelInv, Promised

LEMMA BeginFlushStep ==
  ASSUME WheelInv, BeginFlush
  PROVE  WheelInv' /\ Promised
<1>1. /\ TypeOK /\ InPlace /\ Idle /\ cnt = 0 /\ cursor' = index /\ cnt' = 0 /\ total' = FlushCount
      /\ UNCHANGED <<now, base, index, slots, heap, running, reserved, cancelled>>
  BY DEF WheelInv, CursorInv, BeginFlush, wheelVars
<1>2. /\ now \in Nat /\ base \in Nat /\ base <= now /\ index \in Places
  BY <1>1, SlotsTyped
<1>3. FlushCount \in Nat \ {0} /\ FlushCount <= MaxFlush /\ FlushCount <= now - base
  BY <1>2, Bounds DEF FlushCount, Least, BeginFlush
<1>4. Waiting' = Waiting
  BY <1>1, SameWheel
<1>5. running = None
  BY <1>1 DEF TypeOK
<1>6. TypeOK'
  BY <1>1, <1>2, <1>3, <1>5, Bounds DEF TypeOK, Least, Idle, Places
<1>7. CursorInv'
  <2>1. (0 + index) % Ring = index
    BY <1>2, Around, Bounds DEF Places
  <2>2. cursor' # -1
    BY <1>1, <1>2 DEF Places
  <2> QED
    BY <1>1, <1>3, <1>5, <2>1, <2>2 DEF CursorInv, Idle
<1>8. InPlace' /\ ReservedInv'
  BY <1>1, <1>4 DEF WheelInv, InPlace, ReservedInv, SlotsApart, Ahead, Ahead0
<1> QED
  BY <1>1, <1>4, <1>6, <1>7, <1>8 DEF WheelInv, Promised

(* Where Flush is, the times of what waits there have passed. *)
LEMMA AtCursor ==
  ASSUME TypeOK, CursorInv, ~Idle
  PROVE  cursor \in Places /\ Ahead0(cursor) = cnt /\ cnt \in Places /\ cnt < total
<1>1. cnt \in Places /\ cnt < total /\ index \in Places /\ cursor = (cnt + index) % Ring
  BY SlotsTyped, Bounds DEF CursorInv, Places
<1> QED
  BY <1>1, PlaceAhead

LEMMA RunTimerStep ==
  ASSUME WheelInv, RunTimer
  PROVE  WheelInv' /\ Promised
<1>1. /\ TypeOK /\ IsFiniteSet(heap) /\ InPlace /\ ReservedInv /\ SlotsApart /\ CursorInv /\ ~Idle
      /\ running = None /\ slots[cursor] # <<>>
      /\ UNCHANGED <<now, base, index, heap, cursor, cnt, total, reserved, cancelled>>
  BY DEF WheelInv, ReservedInv, RunTimer
<1>2. cursor \in Places /\ Ahead0(cursor) = cnt /\ cnt \in Nat /\ cnt < total
      /\ total <= now - base /\ now \in Nat /\ base \in Nat /\ total \in Nat
  BY <1>1, AtCursor, SlotsTyped DEF Places
<1>3. PICK s, t, item : s = slots[cursor] /\ t = Tail(s) /\ item = Head(s)
  OBVIOUS
<1>4. s \in Seq(Item) /\ slots \in [Places -> Seq(Item)] /\ heap \subseteq Item /\ Once(s)
  BY <1>1, <1>2, <1>3, SlotsTyped DEF SlotsApart
<1>5. item \in Item /\ t \in Seq(Item) /\ ToSet(s) = {item} \cup ToSet(t)
      /\ Once(t) /\ Apart(ToSet(t), {item})
  BY <1>1, <1>3, <1>4, OneLess
<1>6. slots' = [slots EXCEPT ![cursor] = t]
      /\ running' = IF item.timer \in cancelled THEN None ELSE item
  BY <1>3 DEF RunTimer
<1>7. /\ slots' \in [Places -> Seq(Item)] /\ slots'[cursor] = t
      /\ \A j \in Places \ {cursor} : slots'[j] = slots[j]
      /\ \A j \in Places : ToSet(slots'[j]) \subseteq ToSet(slots[j])
  BY <1>2, <1>3, <1>4, <1>5, <1>6
<1>8. item \in Waiting /\ Ahead(item.target) = cnt
  BY <1>1, <1>2, <1>3, <1>5, WhatWaits DEF InPlace, Places
<1>9. item.target < now
  BY <1>2, <1>5, <1>8 DEF Ahead, Item
<1>10. Apart(Waiting', {item})
  <2>1. ASSUME NEW a \in Waiting' PROVE a.timer # item.timer
    <3>1. CASE a \in heap
      BY <1>1, <1>2, <1>3, <1>5, <3>1 DEF SlotsApart, Apart
    <3>2. ASSUME NEW j \in Places, a \in ToSet(slots'[j]) PROVE a.timer # item.timer
      <4>1. CASE j = cursor
        BY <1>5, <1>7, <3>2, <4>1 DEF Apart
      <4>2. CASE j # cursor
        <5>1. Apart(ToSet(slots[j]), ToSet(slots[cursor])) /\ a \in ToSet(slots[j])
          BY <1>1, <1>2, <1>7, <3>2, <4>2 DEF SlotsApart
        <5> QED
          BY <1>3, <1>5, <5>1 DEF Apart
      <4> QED
        BY <4>1, <4>2
    <3> QED
      BY <1>1, <2>1, <3>1, <3>2, WhatWaits
  <2> QED
    BY <2>1 DEF Apart
<1>11. Waiting' = Waiting \ {item}
  <2>1. ASSUME NEW a \in Waiting' PROVE a \in Waiting /\ a # item
    BY <1>1, <1>7, <1>10, <2>1, WhatWaits DEF Apart
  <2>2. ASSUME NEW a \in Waiting, a # item PROVE a \in Waiting'
    <3>1. CASE a \in heap
      BY <1>1, <3>1, WhatWaits
    <3>2. ASSUME NEW j \in Places, a \in ToSet(slots[j]) PROVE a \in ToSet(slots'[j])
      BY <1>3, <1>5, <1>7, <2>2, <3>2
    <3> QED
      BY <2>2, <3>1, <3>2, WhatWaits
  <2> QED
    BY <2>1, <2>2
<1>12. TypeOK'
  BY <1>1, <1>5, <1>6, <1>7 DEF TypeOK, Idle, Places
<1>13. InPlace'
  BY <1>1, <1>7 DEF InPlace, Ahead, Ahead0, Places
<1>14. CursorInv'
  BY <1>1, <1>6, <1>8 DEF CursorInv, Idle, Ahead
<1>15. SlotsApart'
  <2>1. \A i \in Places : Once(slots'[i])
    BY <1>1, <1>5, <1>7 DEF SlotsApart
  <2>2. ASSUME NEW i \in Places, NEW j \in Places, i # j
        PROVE  Apart(ToSet(slots'[i]), ToSet(slots'[j]))
    BY <1>1, <1>7, <2>2 DEF SlotsApart, Apart
  <2>3. \A i \in Places : Apart(ToSet(slots'[i]), heap)
    BY <1>1, <1>7 DEF SlotsApart, Apart
  <2> QED
    BY <1>1, <2>1, <2>2, <2>3 DEF SlotsApart
<1>16. ReservedInv'
  BY <1>1, <1>6, <1>8, <1>10, <1>11, <1>15 DEF ReservedInv, Apart
<1>17. Promised
  BY <1>1, <1>8, <1>9, <1>11 DEF Promised, Promise!Expire
<1> QED
  BY <1>1, <1>12, <1>13, <1>14, <1>16, <1>17 DEF WheelInv

LEMMA BodyDoneStep ==
  ASSUME WheelInv, BodyDone
  PROVE  WheelInv' /\ Promised
<1>1. /\ TypeOK /\ IsFiniteSet(heap) /\ InPlace /\ ReservedInv /\ SlotsApart /\ CursorInv
      /\ running # None /\ running \in Item /\ ~Idle /\ running' = None
      /\ UNCHANGED <<now, base, index, cursor, cnt, total, reserved, cancelled>>
  BY DEF WheelInv, ReservedInv, BodyDone, TypeOK
<1>2. Ahead(running.target) = cnt /\ Apart(Waiting, {running}) /\ running.timer \in reserved
  BY <1>1 DEF CursorInv, ReservedInv
<1>3. CursorInv'
  BY <1>1 DEF CursorInv, Idle
<1>4. CASE running.timer \in Periodics \ cancelled
  <2>1. PICK d : d = Period[running.timer]
    OBVIOUS
  <2>2. d \in Nat \ {0} /\ base \in Nat /\ cnt \in Nat
    BY <1>1, <1>4, <2>1, Bounds, SlotsTyped
  <2>3. PICK item : item = [running EXCEPT !.target = @ + Period[running.timer]]
    OBVIOUS
  <2>4. item \in Item /\ item.timer = running.timer /\ item.target = running.target + d
    BY <1>1, <2>1, <2>2, <2>3 DEF Item
  <2>5. ReserveAt(item)
    BY <1>4, <2>3 DEF BodyDone
  <2>6. Ahead(item.target) >= cnt
    BY <1>1, <1>2, <2>2, <2>4 DEF Ahead, Item
  <2>7. Apart(Waiting, {item})
    BY <1>2, <2>4 DEF Apart
  <2>8. /\ slots' \in [Places -> Seq(Item)] /\ heap' \subseteq Item /\ IsFiniteSet(heap')
        /\ InPlace' /\ SlotsApart'
        /\ Waiting' = Waiting \cup {item}
    BY <1>1, <2>4, <2>5, <2>6, <2>7, Placed
  <2>9. TypeOK'
    BY <1>1, <2>8 DEF TypeOK, Idle, Places
  <2>10. ReservedInv'
    BY <1>1, <1>2, <2>4, <2>8 DEF ReservedInv
  <2>11. Promised
    BY <1>1, <2>7, <2>8, Reserved
  <2> QED
    BY <1>3, <2>8, <2>9, <2>10, <2>11 DEF WheelInv
<1>5. CASE ~(running.timer \in Periodics \ cancelled)
  <2>1. UNCHANGED <<slots, heap>>
    BY <1>5 DEF BodyDone
  <2>2. Waiting' = Waiting
    BY <2>1, SameWheel
  <2>3. TypeOK'
    BY <1>1, <2>1 DEF TypeOK, Idle
  <2>4. InPlace' /\ ReservedInv'
    BY <1>1, <2>1, <2>2 DEF InPlace, ReservedInv, SlotsApart, Ahead, Ahead0
  <2> QED
    BY <1>1, <1>3, <2>1, <2>2, <2>3, <2>4 DEF WheelInv, Promised
<1> QED
  BY <1>4, <1>5

(* What is left, when a slot is empty, lies beyond it. *)
LEMMA Beyond ==
  ASSUME WheelInv, Emptied, NEW i \in Places, NEW item \in ToSet(slots[i])
  PROVE  Ahead(item.target) = Ahead0(i) /\ Ahead0(i) >= cnt + 1
<1>1. TypeOK /\ CursorInv /\ ~Idle /\ slots[cursor] = <<>> /\ index \in Places
  BY SlotsTyped DEF WheelInv, Emptied
<1>2. cursor \in Places /\ Ahead0(cursor) = cnt /\ cnt \in Places
  BY <1>1, AtCursor
<1>3. Ahead(item.target) = Ahead0(i) /\ Ahead0(i) >= cnt
  BY DEF WheelInv, InPlace, Places
<1>4. i # cursor
  BY <1>1, EmptySeq DEF ToSet
<1>5. Ahead0(i) # Ahead0(cursor) /\ Ahead0(i) \in Nat
  BY <1>1, <1>2, <1>4, Distance, Bounds DEF Places
<1> QED
  BY <1>2, <1>3, <1>5 DEF Places

LEMMA NextSlotStep ==
  ASSUME WheelInv, NextSlot
  PROVE  WheelInv' /\ Promised
<1>1. /\ TypeOK /\ InPlace /\ ReservedInv /\ SlotsApart /\ CursorInv /\ Emptied /\ ~Idle
      /\ running = None /\ cnt + 1 < total /\ cnt' = cnt + 1 /\ cursor' = (cursor + 1) % Ring
      /\ UNCHANGED <<now, base, index, slots, heap, total, running, reserved, cancelled>>
  BY DEF WheelInv, ReservedInv, NextSlot, Emptied, wheelVars
<1>2. /\ cnt \in Nat /\ total \in Nat /\ total <= Ring /\ index \in Places
      /\ cursor = (cnt + index) % Ring
  BY <1>1, SlotsTyped, Bounds DEF CursorInv
<1>3. cnt \in Places /\ cnt + 1 \in Places
  BY <1>1, <1>2, Bounds DEF Places
<1>4. /\ cursor = IF cnt + index < Ring THEN cnt + index ELSE cnt + index - Ring
      /\ (cnt + 1 + index) % Ring = IF cnt + 1 + index < Ring THEN cnt + 1 + index
                                                             ELSE cnt + 1 + index - Ring
  BY <1>2, <1>3, Around
<1>5. cursor' = (cnt' + index) % Ring /\ cursor' \in Places
  <2>1. cursor \in Places
    BY <1>2, <1>3, <1>4, Bounds DEF Places
  <2>2. CASE cursor + 1 < Ring
    <3>1. cursor + 1 \in Places
      BY <2>1, <2>2, Bounds DEF Places
    <3>2. (cursor + 1) % Ring = cursor + 1
      BY <3>1, Bounds DEF Places
    <3> QED
      BY <1>1, <1>2, <1>3, <1>4, <2>2, <3>1, <3>2, Bounds DEF Places
  <2>3. CASE ~(cursor + 1 < Ring)
    <3>1. cursor + 1 = 0 + Ring /\ 0 \in Places
      BY <2>1, <2>3, Bounds DEF Places
    <3>2. (0 + Ring) % Ring = 0
      BY <3>1, Bounds DEF Places
    <3> QED
      BY <1>1, <1>2, <1>3, <1>4, <2>3, <3>1, <3>2, Bounds DEF Places
  <2> QED
    BY <2>2, <2>3
<1>6. Waiting' = Waiting
  BY <1>1, SameWheel
<1>7. TypeOK'
  BY <1>1, <1>2, <1>5, Bounds DEF TypeOK, Idle, Places
<1>8. CursorInv'
  BY <1>1, <1>5, Bounds DEF CursorInv, Idle, Places
<1>9. InPlace'
  <2>1. \A i \in Places : \A item \in ToSet(slots[i]) :
           Ahead(item.target) = Ahead0(i) /\ Ahead0(i) >= cnt'
    BY <1>1, Beyond
  <2> QED
    BY <1>1, <2>1 DEF InPlace, Ahead, Ahead0, Places
<1>10. ReservedInv'
  BY <1>1, <1>6 DEF ReservedInv, SlotsApart
<1> QED
  BY <1>1, <1>6, <1>7, <1>8, <1>9, <1>10 DEF WheelInv, Promised

(* tick_base_ and tick_index_ advance together. *)
LEMMA Advance ==
  ASSUME WheelInv, EndFlush, NEW i \in Places
  PROVE  /\ index' \in Places /\ base' = base + total /\ base' \in Nat /\ base' <= now
         /\ total = cnt + 1 /\ total \in Nat /\ total > 0
         /\ Ahead0(i) >= total => Ahead0(i)' = Ahead0(i) - total
         /\ i = index' => Ahead0(i)' = 0
<1>1. /\ TypeOK /\ CursorInv /\ ~Idle /\ total = cnt + 1 /\ index' = (cursor + 1) % Ring
      /\ base' = base + total
  BY DEF WheelInv, EndFlush, Emptied
<1>2. /\ cnt \in Nat /\ total \in Nat /\ total <= Ring /\ total <= now - base
      /\ base \in Nat /\ now \in Nat /\ index \in Places
      /\ cursor = (cnt + index) % Ring
  BY <1>1, SlotsTyped, Bounds DEF CursorInv
<1>3. cnt \in Places
  BY <1>1, <1>2, Bounds DEF Places
<1>4. cursor = IF cnt + index < Ring THEN cnt + index ELSE cnt + index - Ring
  BY <1>2, <1>3, Around
<1>5. cursor \in Places
  BY <1>2, <1>3, <1>4, Bounds DEF Places
<1>6. index' = IF cursor + 1 < Ring THEN cursor + 1 ELSE 0
  <2>1. CASE cursor + 1 < Ring
    <3>1. cursor + 1 \in Places
      BY <1>5, <2>1, Bounds DEF Places
    <3> QED
      BY <1>1, <2>1, <3>1, Bounds DEF Places
  <2>2. CASE ~(cursor + 1 < Ring)
    <3>1. cursor + 1 = 0 + Ring /\ 0 \in Places
      BY <1>5, <2>2, Bounds DEF Places
    <3>2. (0 + Ring) % Ring = 0
      BY <3>1, Bounds DEF Places
    <3> QED
      BY <1>1, <2>2, <3>1, <3>2
  <2> QED
    BY <2>1, <2>2
<1>7. index' \in Places
  BY <1>5, <1>6, Bounds DEF Places
<1>8. Ahead0(i) = IF index <= i THEN i - index ELSE i - index + Ring
  BY <1>2, Distance
<1>9. PICK n, d : n = index' /\ d = Ahead0(i)'
  OBVIOUS
<1>10. n \in Places /\ d = IF n <= i THEN i - n ELSE i - n + Ring
  <2>1. d = (i - n + Ring) % Ring
    BY <1>9 DEF Ahead0
  <2> QED
    BY <1>7, <1>9, <2>1, Between
<1>11. Ahead0(i) >= total => d = Ahead0(i) - total
  BY <1>1, <1>2, <1>3, <1>4, <1>5, <1>6, <1>8, <1>9, <1>10, Bounds DEF Places
<1>12. i = n => d = 0
  BY <1>10, Bounds DEF Places
<1> QED
  BY <1>1, <1>2, <1>7, <1>9, <1>11, <1>12

LEMMA EndFlushStep ==
  ASSUME WheelInv, EndFlush
  PROVE  WheelInv' /\ Promised
<1>1. /\ TypeOK /\ IsFiniteSet(heap) /\ InPlace /\ ReservedInv /\ SlotsApart /\ CursorInv
      /\ Emptied /\ running = None /\ Idle' /\ cnt' = 0 /\ total' = 0
      /\ UNCHANGED <<now, running, reserved, cancelled>>
  BY DEF WheelInv, ReservedInv, EndFlush, Emptied, Idle
<1>2. 0 \in Places
  BY Bounds DEF Places
<1>3. /\ index' \in Places /\ base' = base + total /\ base' \in Nat /\ base' <= now
      /\ total = cnt + 1 /\ total \in Nat /\ total > 0 /\ base \in Nat /\ now \in Nat
  BY <1>1, <1>2, Advance, SlotsTyped
<1>4. PICK i, S : i = index' /\ S = Due(base')
  OBVIOUS
<1>5. PICK s \in HeapOrders(S) : slots' = [slots EXCEPT ![i] = @ \o s] /\ heap' = heap \ S
  BY <1>4 DEF EndFlush, Hotload
<1>6. S \subseteq heap /\ S \subseteq Item /\ IsFiniteSet(S) /\ heap \subseteq Item
      /\ IsFiniteSet(heap')
  BY <1>1, <1>4, <1>5, SlotsTyped, FS_Subset, FS_Difference DEF Due
<1>7. s \in Seq(Item) /\ ToSet(s) = S /\ Once(s)
  BY <1>1, <1>5, <1>6, InOrder DEF SlotsApart
<1>8. PICK u, v : u = slots[i] /\ v = u \o s
  OBVIOUS
<1>9. u \in Seq(Item) /\ slots \in [Places -> Seq(Item)] /\ i \in Places
  BY <1>1, <1>3, <1>4, <1>8, SlotsTyped
<1>10. v \in Seq(Item) /\ ToSet(v) = ToSet(u) \cup S
       /\ (Once(u) /\ Apart(ToSet(u), S) => Once(v))
  BY <1>7, <1>8, <1>9, OneAfterTheOther
<1>11. slots' = [slots EXCEPT ![i] = v]
  BY <1>5, <1>8, <1>9
<1>12. /\ slots' \in [Places -> Seq(Item)] /\ slots'[i] = v
       /\ \A j \in Places \ {i} : slots'[j] = slots[j]
  BY <1>9, <1>10, <1>11
<1>13. Waiting' = Waiting
  <2>1. \A a : a \in Waiting' <=> a \in Waiting
    BY <1>5, <1>6, <1>8, <1>9, <1>10, <1>12, WhatWaits
  <2> QED
    BY <2>1
<1>14. TypeOK'
  BY <1>1, <1>3, <1>5, <1>6, <1>12, Bounds DEF TypeOK, Idle, Places, Least
<1>15. CursorInv'
  BY <1>1 DEF CursorInv
<1>16. InPlace'
  <2>1. ASSUME NEW j \in Places, NEW a \in ToSet(slots[j])
        PROVE  Ahead(a.target)' = Ahead0(j)' /\ Ahead0(j)' >= 0
    <3>1. Ahead(a.target) = Ahead0(j) /\ Ahead0(j) >= total
      BY <1>1, <1>3, <2>1, Beyond
    <3>2. Ahead0(j)' = Ahead0(j) - total
      BY <2>1, <3>1, Advance
    <3>4. Ahead0(j) \in Nat
      <4>1. index \in Places
        BY <1>1, SlotsTyped
      <4>2. Ahead0(j) = IF index <= j THEN j - index ELSE j - index + Ring
        BY <2>1, <4>1, Distance
      <4> QED
        BY <2>1, <4>1, <4>2, Bounds DEF Places
    <3>3. a \in Item
      BY <1>1, <2>1, SlotsTyped
    <3> QED
      BY <1>3, <3>1, <3>2, <3>3, <3>4 DEF Ahead, Item
  <2>2. ASSUME NEW a \in S PROVE Ahead(a.target)' = Ahead0(i)' /\ Ahead0(i)' >= 0
    <3>1. a \in Item /\ a.target <= base'
      BY <1>4, <1>6, <2>2 DEF Due
    <3>2. Ahead0(i)' = 0
      BY <1>4, <1>9, Advance
    <3> QED
      BY <1>3, <3>1, <3>2 DEF Ahead, Item
  <2>3. ASSUME NEW j \in Places, NEW a \in ToSet(slots'[j])
        PROVE  a \in ToSet(slots[j]) \/ (j = i /\ a \in S)
    <3>1. CASE j = i
      BY <1>8, <1>10, <1>12, <2>3, <3>1
    <3>2. CASE j # i
      BY <1>12, <2>3, <3>2
    <3> QED
      BY <3>1, <3>2
  <2>4. \A j \in Places : \A a \in ToSet(slots'[j]) :
           Ahead(a.target)' = Ahead0(j)' /\ Ahead0(j)' >= cnt'
    BY <1>1, <2>1, <2>2, <2>3
  <2>5. \A a \in heap' : a.target > base'
    BY <1>3, <1>4, <1>5, <1>6 DEF Due, Item
  <2> QED
    BY <2>4, <2>5 DEF InPlace, Places, Ahead, Ahead0
<1>17. SlotsApart'
  <2>1. \A j \in Places : Once(slots'[j])
    <3>1. Once(u) /\ Apart(ToSet(u), S)
      BY <1>1, <1>6, <1>8, <1>9 DEF SlotsApart, Apart
    <3> QED
      BY <1>1, <1>10, <1>12, <3>1 DEF SlotsApart
  <2>2. ASSUME NEW j \in Places, NEW k \in Places, j # k
        PROVE  Apart(ToSet(slots'[j]), ToSet(slots'[k]))
    <3>1. Apart(ToSet(slots[j]), ToSet(slots[k]))
      BY <1>1, <2>2 DEF SlotsApart
    <3>2. Apart(ToSet(slots[j]), heap) /\ Apart(ToSet(slots[k]), heap)
      BY <1>1 DEF SlotsApart
    <3>3. CASE j = i
      <4>1. slots'[k] = slots[k] /\ ToSet(slots'[j]) = ToSet(slots[j]) \cup S
        BY <1>8, <1>10, <1>12, <2>2, <3>3
      <4> QED
        BY <1>6, <3>1, <3>2, <4>1 DEF Apart
    <3>4. CASE k = i
      <4>1. slots'[j] = slots[j] /\ ToSet(slots'[k]) = ToSet(slots[k]) \cup S
        BY <1>8, <1>10, <1>12, <2>2, <3>4
      <4> QED
        BY <1>6, <3>1, <3>2, <4>1 DEF Apart
    <3>5. CASE j # i /\ k # i
      BY <1>12, <3>1, <3>5
    <3> QED
      BY <3>3, <3>4, <3>5
  <2>3. ASSUME NEW j \in Places PROVE Apart(ToSet(slots'[j]), heap')
    <3>1. Apart(ToSet(slots[j]), heap)
      BY <1>1 DEF SlotsApart
    <3>2. Apart(S, heap')
      BY <1>1, <1>5, <1>6 DEF SlotsApart, Apart
    <3>3. CASE j = i
      <4>1. ToSet(slots'[j]) = ToSet(slots[j]) \cup S
        BY <1>8, <1>10, <1>12, <3>3
      <4> QED
        BY <1>5, <3>1, <3>2, <4>1 DEF Apart
    <3>4. CASE j # i
      BY <1>5, <1>12, <3>1, <3>4 DEF Apart
    <3> QED
      BY <3>3, <3>4
  <2>4. \A a, b \in heap' : a.timer = b.timer => a = b
    BY <1>1, <1>5 DEF SlotsApart
  <2> QED
    BY <2>1, <2>2, <2>3, <2>4 DEF SlotsApart
<1>18. ReservedInv'
  BY <1>1, <1>13, <1>17 DEF ReservedInv
<1> QED
  BY <1>1, <1>6, <1>13, <1>14, <1>15, <1>16, <1>18 DEF WheelInv, Promised

-----------------------------------------------------------------------------
LEMMA WheelInit == Init => WheelInv /\ Waiting = {}
<1> SUFFICES ASSUME Init PROVE WheelInv /\ Waiting = {}
  OBVIOUS
<1>1. \A i \in Places : slots[i] = <<>> /\ ToSet(slots[i]) = {}
  BY EmptySeq DEF Init, Places, ToSet
<1>2. Waiting = {}
  BY <1>1, WhatWaits DEF Init
<1>3. TypeOK
  <2>1. slots \in [0..(Ring - 1) -> Seq(Item)]
    BY EmptySeq DEF Init
  <2> QED
    BY <2>1, Bounds DEF Init, TypeOK, Least, Idle
<1>4. IsFiniteSet(heap) /\ CursorInv /\ InPlace
  BY <1>1, FS_EmptySet DEF Init, CursorInv, InPlace, Idle, Places
<1>5. ReservedInv
  <2>1. \A i \in Places : Once(slots[i])
    BY <1>1, EmptySeq DEF Once
  <2> QED
    BY <1>1, <1>2, <2>1 DEF Init, ReservedInv, SlotsApart, Apart
<1> QED
  BY <1>2, <1>3, <1>4, <1>5 DEF WheelInv

LEMMA WheelNext ==
  ASSUME WheelInv, [Next]_vars
  PROVE  WheelInv' /\ Promised
<1>1. CASE UNCHANGED vars
  <2>1. UNCHANGED <<now, base, index, slots, heap, cursor, cnt, total, running, reserved, cancelled>>
    BY <1>1 DEF vars, wheelVars, flushVars
  <2>2. Waiting' = Waiting
    BY <2>1, SameWheel
  <2> QED
    BY <2>1, <2>2 DEF Promised, WheelInv, TypeOK, CursorInv, InPlace, ReservedInv, SlotsApart,
                      Idle, Ahead, Ahead0
<1>2. CASE Tick
  BY <1>2, TickStep
<1>3. CASE BeginFlush
  BY <1>3, BeginFlushStep
<1>4. CASE RunTimer
  BY <1>4, RunTimerStep
<1>5. CASE BodyDone
  BY <1>5, BodyDoneStep
<1>6. CASE NextSlot
  BY <1>6, NextSlotStep
<1>7. CASE EndFlush
  BY <1>7, EndFlushStep
<1>8. ASSUME NEW t \in OneShots, NEW delay \in Delays, Reserve(t, delay)
      PROVE  WheelInv' /\ Promised
  BY <1>8, ReserveStep
<1>9. ASSUME NEW p \in Periodics, Schedule(p) PROVE WheelInv' /\ Promised
  BY <1>9, ScheduleStep
<1>10. ASSUME NEW p \in Periodics, Cancel(p) PROVE WheelInv' /\ Promised
  BY <1>10, CancelStep
<1> QED
  BY <1>1, <1>2, <1>3, <1>4, <1>5, <1>6, <1>7, <1>8, <1>9, <1>10 DEF Next, Flush

LEMMA WheelAlways == Spec => []WheelInv
<1>1. Init => WheelInv
  BY WheelInit
<1>2. WheelInv /\ [Next]_vars => WheelInv'
  BY WheelNext
<1> QED
  BY <1>1, <1>2, PTL DEF Spec

(* The variables of a worker's timers keep their types: above all, the     *)
(* base never overtakes the clock (TimerContext.cpp:58).                   *)
THEOREM TimerTypeTheorem == Spec => []TypeOK
<1>1. WheelInv => TypeOK
  BY DEF WheelInv
<1> QED
  BY <1>1, WheelAlways, PTL

(* Whatever Flush lags behind, and whatever is reserved from a body with   *)
(* the old tick_base_ and tick_index_, a timer waits in the slot that is   *)
(* flushed when its time comes (ReserveAt, HotloadFromLongTermQueue).      *)
THEOREM InPlaceTheorem == Spec => []InPlace
<1>1. WheelInv => InPlace
  BY DEF WheelInv
<1> QED
  BY <1>1, WheelAlways, PTL

(* A timer is in one place of the wheel at most, and not while it runs:    *)
(* runs of a periodic timer follow one another (PeriodicTimer.cpp:86).     *)
THEOREM OneReservationTheorem == Spec => []OneReservation
<1>1. ASSUME WheelInv PROVE OneReservation
  <2>1. TypeOK /\ ReservedInv /\ SlotsApart
    BY <1>1 DEF WheelInv, ReservedInv
  <2>2. DOMAIN slots = Places /\ \A i \in Places : \A k \in DOMAIN slots[i] :
           slots[i][k] \in ToSet(slots[i])
    BY <2>1, SlotsTyped DEF ToSet
  <2>3. ASSUME NEW i \in Places, NEW j \in Places, NEW k \in DOMAIN slots[i],
               NEW l \in DOMAIN slots[j], slots[i][k].timer = slots[j][l].timer
        PROVE  i = j /\ k = l
    <3>1. i = j
      BY <2>1, <2>2, <2>3 DEF SlotsApart, Apart
    <3> QED
      BY <2>1, <2>3, <3>1 DEF SlotsApart, Once
  <2>4. ASSUME NEW a \in Waiting, NEW b \in Waiting, a.timer = b.timer PROVE a = b
    <3>1. ASSUME NEW i \in Places, a \in ToSet(slots[i]), NEW j \in Places, b \in ToSet(slots[j])
          PROVE  a = b
      <4>1. PICK k \in DOMAIN slots[i] : a = slots[i][k]
        BY <3>1 DEF ToSet
      <4>2. PICK l \in DOMAIN slots[j] : b = slots[j][l]
        BY <3>1 DEF ToSet
      <4> QED
        BY <2>3, <2>4, <4>1, <4>2
    <3>2. ASSUME NEW i \in Places PROVE /\ ~(a \in ToSet(slots[i]) /\ b \in heap)
                                      /\ ~(b \in ToSet(slots[i]) /\ a \in heap)
      BY <2>1, <2>4 DEF SlotsApart, Apart
    <3>3. a \in heap /\ b \in heap => a = b
      BY <2>1, <2>4 DEF SlotsApart
    <3> QED
      BY <2>4, <3>1, <3>2, <3>3, WhatWaits
  <2>5. running # None => \A a \in Waiting : a.timer # running.timer
    BY <2>1 DEF ReservedInv, Apart
  <2>6. InSlots \cap heap = {}
    BY <2>1 DEF SlotsApart, Apart, InSlots, Places
  <2>7. running \notin Waiting
    <3>1. Waiting \subseteq Item
      BY <2>1, SlotsTyped, WhatWaits
    <3> QED
      BY <2>5, <3>1, Bounds
  <2> QED
    BY <2>2, <2>3, <2>4, <2>5, <2>6, <2>7 DEF OneReservation
<1> QED
  BY <1>1, WheelAlways, PTL

(* The wheel implements Timers: what is reserved stays until its time has  *)
(* passed, whether it waits in the ring or in the heap, and leaves once.   *)
THEOREM ImplementsTimersTheorem == Spec => ImplementsTimers
<1>1. Init => Waiting = {}
  BY WheelInit
<1>2. WheelInv /\ [Next]_vars => [Promise!Clock \/ Promise!Reserve \/ Promise!Expire]_<<now, Waiting>>
  BY WheelNext DEF Promised
<1> QED
  BY <1>1, <1>2, WheelAlways, PTL DEF Spec, ImplementsTimers, Promise!Spec
===============================================================================
