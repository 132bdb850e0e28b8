------------------------------ MODULE TimerWheel ------------------------------
(***************************************************************************)
(* The timers of one worker: System::TimerContext, a ring with one slot    *)
(* for each of the next Ring milliseconds and a heap for what is further   *)
(* away, and the PeriodicTimers reserved in it.  Flush runs in the loop    *)
(* of Scheduler::Run, slot after slot, and gives tick_base_ and            *)
(* tick_index_ their new values only at its end; a timer's body, and a     *)
(* periodic timer after it, reserves with the old ones.                    *)
(*                                                                         *)
(* The clock (std::chrono::steady_clock) may move between any two steps.   *)
(***************************************************************************)
EXTENDS Integers, Sequences, FiniteSets, SequencesExt

CONSTANTS OneShots,      \* what Scheduler::Reserve is called with
          Delays,        \* and the milliseconds it is called with
          Periodics,     \* PeriodicTimerItems
          Period,        \* Period[p]: milliseconds
          Ring,          \* kShortTermQueueLength (300000 in the code)
          MaxFlush,      \* kMaxFlushCount (1000 in the code)
          MaxTime,       \* bound: where the clock stops
          None

Timer == OneShots \cup Periodics
Item == [timer : Timer, target : Nat]

ASSUME TimerAssumption ==
    /\ OneShots \cap Periodics = {} /\ None \notin Item
    /\ Delays \subseteq Nat /\ Period \in [Periodics -> Nat \ {0}]
    /\ Ring \in Nat \ {0} /\ MaxFlush \in 1..Ring /\ MaxTime \in Nat

VARIABLES
    now,          \* Tick::Current() in milliseconds, since the construction
    base, index,  \* tick_base_, tick_index_
    slots,        \* shorterm_queues_, numbered from 0
    heap,         \* longterm_queue_
    cursor,       \* Flush's tick_index, -1 outside of Flush
    cnt, total,   \* its cnt and flush_tick_count
    running,      \* the item whose functor runs, None when there is none
    reserved,     \* timers that were reserved once
    cancelled     \* periodic timers whose is_running is false

flushVars == <<cursor, cnt, total, running>>
wheelVars == <<base, index, slots, heap>>
vars == <<now, wheelVars, flushVars, reserved, cancelled>>

Init ==
    /\ now = 0 /\ base = 0 /\ index = 0
    /\ slots = [i \in 0..(Ring - 1) |-> <<>>] /\ heap = {}
    /\ cursor = -1 /\ cnt = 0 /\ total = 0 /\ running = None
    /\ reserved = {} /\ cancelled = {}

Idle == cursor = -1

-----------------------------------------------------------------------------
Tick ==
    /\ now < MaxTime
    /\ now' = now + 1
    /\ UNCHANGED <<wheelVars, flushVars, reserved, cancelled>>

(* index in ReserveAt: how far in the future, seen from tick_base_. *)
Ahead(target) == IF target > base THEN target - base ELSE 0

(* Mutant: the distance is taken from the clock. *)
SlotFromNow(target) == ((IF target > now THEN target - now ELSE 0) + index) % Ring

SlotOf(target) == (Ahead(target) + index) % Ring

ReserveAt(item) ==
    IF Ahead(item.target) >= Ring
    THEN heap' = heap \cup {item} /\ UNCHANGED slots
    ELSE slots' = [slots EXCEPT ![SlotOf(item.target)] = Append(@, item)] /\ UNCHANGED heap

(* Reserve, from a message or a handler of the worker or from the body of  *)
(* a timer.                                                                *)
Reserve(t, delay) ==
    /\ t \notin reserved
    /\ Idle \/ running # None
    /\ ReserveAt([timer |-> t, target |-> now + delay])
    /\ reserved' = reserved \cup {t}
    /\ UNCHANGED <<now, base, index, flushVars, cancelled>>

(* PeriodicTimer::Schedule takes the first time from the clock, with or    *)
(* without first_launch, and posts the reservation, which a message of     *)
(* some worker makes later.                                                *)
Schedule(p) ==
    /\ p \notin reserved /\ Idle
    /\ \E created \in 0..now : \E first \in {created, created + Period[p]} :
          ReserveAt([timer |-> p, target |-> first])
    /\ reserved' = reserved \cup {p}
    /\ UNCHANGED <<now, base, index, flushVars, cancelled>>

(* Cancel, by the body or by any other thread. *)
Cancel(p) ==
    /\ p \in reserved \ cancelled
    /\ cancelled' = cancelled \cup {p}
    /\ UNCHANGED <<now, wheelVars, flushVars, reserved>>

-----------------------------------------------------------------------------
Least(m, n) == IF m < n THEN m ELSE n

(* Mutant: the slot of the present millisecond is flushed too. *)
FlushCountInclusive == Least(MaxFlush, now - base + 1)

FlushCount == Least(MaxFlush, now - base)

BeginFlush ==
    /\ Idle /\ FlushCount # 0
    /\ cursor' = index /\ cnt' = 0 /\ total' = FlushCount
    /\ UNCHANGED <<now, wheelVars, running, reserved, cancelled>>

(* Dequeue, and the functor up to the body: PeriodicTimerItem::Reserve's   *)
(* runs it only if the timer was not cancelled.                            *)
RunTimer ==
    /\ ~Idle /\ running = None /\ slots[cursor] # <<>>
    /\ LET item == Head(slots[cursor]) IN
          running' = IF item.timer \in cancelled THEN None ELSE item
    /\ slots' = [slots EXCEPT ![cursor] = Tail(@)]
    /\ UNCHANGED <<now, base, index, heap, cursor, cnt, total, reserved, cancelled>>

(* The body returns; PeriodicTimerItem::Execute then reserves the next run *)
(* one period after this one was due, if the timer still is_running.       *)
BodyDone ==
    /\ running # None
    /\ running' = None
    /\ IF running.timer \in Periodics \ cancelled
       THEN ReserveAt([running EXCEPT !.target = @ + Period[running.timer]])
       ELSE UNCHANGED <<slots, heap>>
    /\ UNCHANGED <<now, base, index, cursor, cnt, total, reserved, cancelled>>

Emptied == ~Idle /\ running = None /\ slots[cursor] = <<>>

(* Mutant: tick_index_ follows the cursor while the flush goes on. *)
NextSlotMovesIndex ==
    /\ Emptied /\ cnt + 1 < total
    /\ cursor' = (cursor + 1) % Ring /\ cnt' = cnt + 1
    /\ index' = cursor'
    /\ UNCHANGED <<now, base, slots, heap, total, running, reserved, cancelled>>

NextSlot ==
    /\ Emptied /\ cnt + 1 < total
    /\ cursor' = (cursor + 1) % Ring /\ cnt' = cnt + 1
    /\ UNCHANGED <<now, wheelVars, total, running, reserved, cancelled>>

(* The heap in the order of its pops; equal targets come in any order. *)
HeapOrders(S) ==
    {s \in SetToSeqs(S) : \A i, j \in 1..Len(s) : i < j => s[i].target <= s[j].target}

(* HotloadFromLongTermQueue: what is due by the new base goes to the slot  *)
(* that the next flush takes first.                                        *)
Due(b) == {item \in heap : item.target <= b}

(* Mutant: only what is due at the old base. *)
HotloadStale(b, i) == UNCHANGED <<heap, slots>>

(* Mutant: what was loaded is not popped. *)
HotloadKeeps(b, i) ==
    /\ heap' = heap
    /\ \E s \in HeapOrders(Due(b)) : slots' = [slots EXCEPT ![i] = @ \o s]

Hotload(b, i) ==
    /\ heap' = heap \ Due(b)
    /\ \E s \in HeapOrders(Due(b)) : slots' = [slots EXCEPT ![i] = @ \o s]

EndFlush ==
    /\ Emptied /\ cnt + 1 = total
    /\ index' = (cursor + 1) % Ring /\ base' = base + total
    /\ Hotload(base', index')
    /\ cursor' = -1 /\ cnt' = 0 /\ total' = 0
    /\ UNCHANGED <<now, running, reserved, cancelled>>

Flush == BeginFlush \/ RunTimer \/ BodyDone \/ NextSlot \/ EndFlush

Next ==
    \/ Tick \/ Flush
    \/ \E t \in OneShots : \E delay \in Delays : Reserve(t, delay)
    \/ \E p \in Periodics : Schedule(p) \/ Cancel(p)

Spec == Init /\ [][Next]_vars

(* Time passes, and the worker's loop comes round to Flush and goes on in  *)
(* it.  (That it comes round is what WorkersReturnToIo of ActorScheduler   *)
(* asks; here it is assumed.)                                              *)
FairSpec == Spec /\ WF_vars(Tick) /\ WF_vars(Flush)

-----------------------------------------------------------------------------
InSlots == UNION {ToSet(slots[i]) : i \in 0..(Ring - 1)}
Waiting == InSlots \cup heap

TypeOK ==
    /\ now \in 0..MaxTime /\ base \in 0..now /\ index \in 0..(Ring - 1)
    /\ slots \in [0..(Ring - 1) -> Seq(Item)] /\ heap \subseteq Item
    /\ cursor \in -1..(Ring - 1) /\ cnt \in 0..total
    /\ total \in 0..Least(MaxFlush, now - base)
    /\ running \in Item \cup {None} /\ (running # None => ~Idle)
    /\ cancelled \subseteq reserved /\ reserved \subseteq Timer

(* Where a timer waits, Flush comes to it at the right time: the slot      *)
(* that is k ahead of tick_index_ holds what is due k after tick_base_,    *)
(* the first one also what was due before; nothing was put into a slot     *)
(* that the present flush has already been through; and the heap holds     *)
(* only what is still to come.                                             *)
Ahead0(i) == (i - index + Ring) % Ring

InPlace ==
    /\ \A i \in 0..(Ring - 1) : \A item \in ToSet(slots[i]) :
          /\ Ahead(item.target) = Ahead0(i)
          /\ Ahead0(i) >= cnt
    /\ \A item \in heap : item.target > base

(* No timer is in the wheel twice, at two places or with two times, or     *)
(* waits for its next run while its body still runs: bodies of one timer   *)
(* follow one another.                                                     *)
OneReservation ==
    /\ \A i, j \in DOMAIN slots : \A k \in DOMAIN slots[i], l \in DOMAIN slots[j] :
          slots[i][k].timer = slots[j][l].timer => i = j /\ k = l
    /\ \A a, b \in Waiting \cup ({running} \ {None}) : a.timer = b.timer => a = b
    /\ InSlots \cap heap = {} /\ running \notin Waiting

(* The wheel keeps the promise of Timers: whatever moves from the heap to  *)
(* the ring and whatever Flush lags behind, nothing runs before its time   *)
(* and nothing gets lost between the two.                                  *)
Promise == INSTANCE Timers WITH waiting <- Waiting
ImplementsTimers == Promise!Spec

(* Every timer gets its turn, by a margin of the flush that loads it from  *)
(* the heap: a one-shot timer leaves the wheel, a periodic one advances    *)
(* or is found cancelled, however far behind the clock it started.         *)
Late(t) == \E item \in Waiting \cup ({running} \ {None}) :
              item.timer = t /\ item.target + MaxFlush <= MaxTime

EventuallyRuns == \A t \in Timer : (Late(t) /\ now < MaxTime) ~> ~Late(t)
===============================================================================
