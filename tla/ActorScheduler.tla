--------------------------- MODULE ActorScheduler ---------------------------
(***************************************************************************)
(* The actor runtime: System::Channel, Dispatcher, ExecutionContext and    *)
(* Scheduler.  Any thread pushes messages to a channel; the push that      *)
(* finds the channel's count at zero puts the channel on the dispatcher's  *)
(* ready list; a worker of the pool takes it from there, runs the messages *)
(* until TryPop answers false, and goes back to the list.                  *)
(*                                                                         *)
(* The dispatcher fills its table of channels with copies of one Channel,  *)
(* and a copy shares its State, so every actor of the process shares the   *)
(* one message queue and the one current_context_ modelled here, and the   *)
(* ready list is a number of entries that all name it.                     *)
(*                                                                         *)
(* The queue is MPSCQueue, pushed to by every thread: its variables and    *)
(* its steps are part of this module's, and the steps of the scheduler     *)
(* bear names of their own (SchedulerInit, SchedulerNext, ...).            *)
(***************************************************************************)
EXTENDS MPSCQueue

CONSTANTS External,    \* threads outside the pool: main, gRPC completion, standalone
          Workers      \* the scheduler's thread pool

Threads == External \cup Workers

ASSUME SchedulerAssumption ==
    /\ MPSCAssumption
    /\ Producers = Threads /\ External \cap Workers = {}
    /\ Null \notin Workers

queueVars == vars

VARIABLES
    ready,         \* Dispatcher::ready_channels_: entries on the list
    context,       \* Channel::State::current_context_
    scheduling,    \* threads whose push found zero and that have yet to Schedule
    wpc,           \* wpc[w]: where worker w is in Scheduler::Run
    inlined,       \* threads outside the pool that run a handler themselves
    overlapped,    \* history: two pushes were in progress at once
    rescheduled    \* history: a push found zero while the channel was ready or running

workVars == <<ready, context, wpc>>
schedulerVars == <<queueVars, ready, context, scheduling, wpc, inlined, overlapped, rescheduled>>

(* Where a worker holds the channel it took from the ready list. *)
Inside == {w \in Workers : wpc[w] \notin {"io", "spin"}}
(* Where it is inside the loop's TryPop. *)
Popping == {w \in Workers : wpc[w] \in {"drain", "pop"}}
(* Someone already has the channel, or is about to hand it out. *)
Attended == ready > 0 \/ Inside # {} \/ scheduling # {}
Busy(t) == pc[t] # "idle" \/ t \in scheduling

(* MPSCQueue has one consumer.  Two threads inside TryPop race on _tail    *)
(* and delete nodes under one another: from there the behaviour of the     *)
(* program is undefined, and the model's workers stop.                     *)
Undefined == \E v, w \in Popping : v # w

SchedulerInit ==
    /\ Init
    /\ ready = 0
    /\ context = Null
    /\ scheduling = {}
    /\ wpc = [w \in Workers |-> "io"]
    /\ inlined = {}
    /\ overlapped = FALSE /\ rescheduled = FALSE

-----------------------------------------------------------------------------
(* Channel::Push.  A worker pushes from a completion handler of its        *)
(* io_context or a timer ("io"), or from a message it executes ("exec").   *)

MayPush(t) == t \in External \cup {w \in Workers : wpc[w] \in {"io", "exec"}}

PushExchange(t) ==
    /\ MayPush(t) /\ t \notin scheduling
    /\ Exchange(t)
    /\ overlapped' = (overlapped \/ \E u \in Threads \ {t} : Busy(u))
    /\ UNCHANGED <<workVars, scheduling, rescheduled, inlined>>

PushLink(t) ==
    /\ Link(t)
    /\ UNCHANGED <<workVars, scheduling, overlapped, rescheduled, inlined>>

(* Mutant: the push that makes the count two schedules, not the first. *)
FoundOne == count = 1

(* IncreaseNodeCount(1) == 0 *)
FoundZero == count = 0

PushCount(t) ==
    /\ IncreaseNodeCount(t)
    /\ scheduling' = IF FoundZero THEN scheduling \cup {t} ELSE scheduling
    /\ rescheduled' = (rescheduled \/ (FoundZero /\ Attended))
    /\ UNCHANGED <<workVars, overlapped, inlined>>

(* Mutant: Schedule is called whether or not this push owed it. *)
ScheduleTwice(t) ==
    /\ t \in scheduling
    /\ scheduling' = scheduling \ {t}
    /\ ready' = ready + 2
    /\ UNCHANGED <<queueVars, context, wpc, overlapped, rescheduled, inlined>>

(* Dispatcher::Schedule *)
Schedule(t) ==
    /\ t \in scheduling
    /\ scheduling' = scheduling \ {t}
    /\ ready' = ready + 1
    /\ UNCHANGED <<queueVars, context, wpc, overlapped, rescheduled, inlined>>

(* ActorController::Post compares the channel's context with the caller's; *)
(* outside the pool the caller has none (nullptr), and so has a channel    *)
(* that nobody runs: the handler is then called by the posting thread.     *)
PostInline(t) ==
    /\ t \in External \ inlined /\ ~Busy(t)
    /\ context = Null
    /\ inlined' = inlined \cup {t}
    /\ UNCHANGED <<queueVars, workVars, scheduling, overlapped, rescheduled>>

InlineDone(t) ==
    /\ t \in inlined /\ ~Busy(t)
    /\ inlined' = inlined \ {t}
    /\ UNCHANGED <<queueVars, workVars, scheduling, overlapped, rescheduled>>

-----------------------------------------------------------------------------
(* Scheduler::Run and ExecutionContext::run_for.                           *)

Move(w, from, to) ==
    /\ ~Undefined
    /\ wpc[w] = from
    /\ wpc' = [wpc EXCEPT ![w] = to]

(* The io_context and the timers have had their turn. *)
EnterSlice(w) ==
    /\ ~Busy(w)
    /\ Move(w, "io", "spin")
    /\ UNCHANGED <<queueVars, ready, context, scheduling, overlapped, rescheduled, inlined>>

(* Dispatcher::TryPop; while the list is empty the worker spins, and its   *)
(* time slice does not shrink.                                             *)
TakeChannel(w) ==
    /\ ready > 0
    /\ ready' = ready - 1
    /\ Move(w, "spin", "begin")
    /\ UNCHANGED <<queueVars, context, scheduling, overlapped, rescheduled, inlined>>

BeginContext(w) ==
    /\ Move(w, "begin", "drain")
    /\ context' = w
    /\ UNCHANGED <<queueVars, ready, scheduling, overlapped, rescheduled, inlined>>

PopMessage(w) ==
    /\ Move(w, "drain", "pop")
    /\ PopAdvance
    /\ UNCHANGED <<ready, context, scheduling, overlapped, rescheduled, inlined>>

UncountMessage(w) ==
    /\ ~Undefined /\ wpc[w] = "pop"
    /\ PopUncount
    /\ UNCHANGED <<workVars, scheduling, overlapped, rescheduled, inlined>>

ExecuteMessage(w) ==
    /\ Move(w, "pop", "exec")
    /\ PopFree
    /\ UNCHANGED <<ready, context, scheduling, overlapped, rescheduled, inlined>>

(* Execute() has returned. *)
MessageDone(w) ==
    /\ ~Busy(w)
    /\ Move(w, "exec", "drain")
    /\ UNCHANGED <<queueVars, ready, context, scheduling, overlapped, rescheduled, inlined>>

(* TryPop answered false. *)
LeaveLoop(w) ==
    /\ ~CanPop
    /\ Move(w, "drain", "end")
    /\ UNCHANGED <<queueVars, ready, context, scheduling, overlapped, rescheduled, inlined>>

(* EndContext; the messages may have used up the time slice or not. *)
EndContext(w) ==
    /\ \E to \in {"spin", "io"} : Move(w, "end", to)
    /\ context' = Null
    /\ UNCHANGED <<queueVars, ready, scheduling, overlapped, rescheduled, inlined>>

Push(t) == PushExchange(t) \/ PushLink(t) \/ PushCount(t) \/ Schedule(t)
Inline(t) == PostInline(t) \/ InlineDone(t)

Finish(t) == PushLink(t) \/ PushCount(t) \/ Schedule(t) \/ InlineDone(t)

Work(w) ==
    \/ EnterSlice(w) \/ TakeChannel(w) \/ BeginContext(w)
    \/ PopMessage(w) \/ UncountMessage(w) \/ ExecuteMessage(w) \/ MessageDone(w)
    \/ LeaveLoop(w) \/ EndContext(w)

SchedulerNext ==
    \/ \E t \in Threads : Push(t) \/ Inline(t)
    \/ \E w \in Workers : Work(w)

SchedulerSpec == SchedulerInit /\ [][SchedulerNext]_schedulerVars

(* Threads keep running; no handler, and no thread, is obliged to push. *)
SchedulerFairness ==
    /\ \A t \in Threads : WF_schedulerVars(Finish(t))
    /\ \A w \in Workers : WF_schedulerVars(Work(w))

SchedulerFairSpec == SchedulerSpec /\ SchedulerFairness

-----------------------------------------------------------------------------
SchedulerTypeOK ==
    /\ TypeOK
    /\ ready \in Nat
    /\ context \in Workers \cup {Null}
    /\ scheduling \subseteq Threads
    /\ wpc \in [Workers -> {"io", "spin", "begin", "drain", "pop", "exec", "end"}]
    /\ inlined \subseteq External
    /\ overlapped \in BOOLEAN /\ rescheduled \in BOOLEAN

(* The wake-up protocol of Channel::Push: as long as no push overlapped    *)
(* another one, a message on the queue has someone who will run it: a      *)
(* ready entry, a worker inside, or a push that is about to schedule.      *)
Unattended ==
    /\ CanPop
    /\ ready = 0 /\ Inside = {}
    /\ \A t \in Threads : ~Busy(t)

StrandedOnlyAfterOverlap == Unattended => overlapped

(* One schedule at a time is what keeps a channel to one worker: if no     *)
(* push has found the count at zero behind the back of a worker, at most   *)
(* one worker holds the channel, and the one that executes is the context  *)
(* IsSynchronized compares with.  (A handler that a thread outside the     *)
(* pool runs itself is outside even of that: see PostInline.)              *)
ExclusiveUnlessRescheduled ==
    ~rescheduled =>
        /\ \A v, w \in Inside : v = w
        /\ \A w \in Workers : wpc[w] \in {"drain", "pop", "exec", "end"} => context = w
        /\ Inside = {} => context = Null

(* What DEBUG_ASSERT(IsSynchronized()) states wherever an actor's handler  *)
(* opens with it (Section.cpp:35, Connection.cpp:283).                     *)
HandlersAreSynchronized ==
    /\ \A w \in Workers : wpc[w] = "exec" => context = w
    /\ inlined # {} => context = Null

(* A pushed message is eventually executed, unless the protocol has been   *)
(* defeated by overlapping pushes or by two workers in one channel.        *)
EventuallyExecuted ==
    \A t \in Threads : \A k \in 1..MaxPush :
        sent[t] >= k ~> \/ \E i \in 1..Len(out) : out[i] = <<t, k>>
                        \/ overlapped \/ Undefined

(* Timers are flushed and completions handled only between two calls of    *)
(* run_for, so a worker has to come back from it.                          *)
WorkersReturnToIo == \A w \in Workers : wpc[w] = "spin" ~> wpc[w] = "io"
=============================================================================
