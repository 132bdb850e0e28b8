---------------------------- MODULE SendPipeline ----------------------------
(***************************************************************************)
(* The sending side of Network::Connection: any thread pushes a node on    *)
(* send_stream_->pending_buffers and, when it finds the count at zero,     *)
(* posts FlushSend to the connection's actor; FlushSend serialises the     *)
(* nodes into the chunks of the OutputStream and starts one async_write;   *)
(* each completion advances the front chunk and starts the next write.     *)
(*                                                                         *)
(* A message is a sequence of units, the first of them its header; a chunk *)
(* holds ChunkSize units.  pending_buffers is the queue of MPSCQueue, kept *)
(* here as the sequence it implements, of which TryPop sees the part whose *)
(* links have been stored.  The actor runs its mailbox one entry at a time *)
(* (what ActorScheduler gives as long as a channel is not rescheduled);    *)
(* Self stands for the handlers it runs, whose Post calls FlushSend at     *)
(* once instead of queueing it.                                            *)
(***************************************************************************)
EXTENDS Integers, Sequences, FiniteSets, SequencesExt

CONSTANTS Senders,     \* threads that call Connection::Send
          Self,        \* the one that is running the connection's actor
          MaxSend,     \* bound: sends of one thread
          Sizes,       \* Sizes[k]: units of the k-th message of a thread
          ChunkSize    \* units of a send buffer (4096 bytes in the code)

ASSUME SendAssumption ==
    /\ Self \in Senders
    /\ MaxSend \in Nat /\ ChunkSize \in Nat \ {0}
    /\ Sizes \in [1..MaxSend -> Nat \ {0}]

Message == Senders \X (1..MaxSend)
Unit == Message \X (Nat \ {0})
Chunk == [start : Nat, data : Seq(Unit)]
Entry == [op : {"flush", "error"}] \cup [op : {"sent"}, n : Nat \ {0}]
Units(m) == [i \in 1..Sizes[m[2]] |-> <<m, i>>]

VARIABLES
    pc, sent,      \* per sender: where it is in Send, nodes it has pushed
    pending,       \* pending_buffers, oldest first
    count,         \* its _count, signed
    mailbox,       \* what has been posted to the connection's actor
    flushing,      \* the actor is inside FlushSend
    popped,        \* FlushSend's local node_count
    drained,       \* FlushSend's loop is over: a TryPop of it has failed
    unwritten,     \* what WriteRaw has still to write of the node just popped
    chunks,        \* OutputStream::buffers_: [start, data], end_pos = Len(data)
    sending,       \* is_sending_
    writes,        \* async_writes outstanding, oldest first
    open,          \* Socket::IsOpen
    asserted,      \* RELEASE_ASSERT(false) was reached
    wire,          \* history: units the peer's side of the socket has taken
    stream, taken, \* history: the messages FlushSend has popped, units and number
    overlapped     \* history: two pushes were in progress at once

senderVars == <<pc, sent>>
queueVars == <<pending, count>>
streamVars == <<unwritten, chunks, sending, writes, open, asserted>>
peerVars == <<wire, stream, taken>>
vars == <<pc, sent, pending, count, mailbox, flushing, popped, drained, unwritten, chunks,
          sending, writes, open, asserted, wire, stream, taken, overlapped>>

(* The state BeginConnection leaves behind. *)
Init ==
    /\ pc = [t \in Senders |-> "idle"] /\ sent = [t \in Senders |-> 0]
    /\ pending = <<>> /\ count = 0
    /\ mailbox = <<>> /\ flushing = FALSE /\ popped = 0 /\ drained = FALSE
    /\ unwritten = <<>> /\ chunks = <<>> /\ sending = FALSE /\ writes = <<>>
    /\ open = TRUE /\ asserted = FALSE
    /\ wire = <<>> /\ stream = <<>> /\ taken = 0 /\ overlapped = FALSE

-----------------------------------------------------------------------------
(* Connection::Send: exchange, link, IncreaseNodeCount. *)

(* The actor is between two mailbox entries. *)
Free == ~flushing /\ pc[Self] = "idle"

SendPush(t) ==
    /\ pc[t] = "idle" /\ sent[t] < MaxSend
    /\ t = Self => Free
    /\ sent' = [sent EXCEPT ![t] = @ + 1]
    /\ pending' = Append(pending, <<t, sent[t] + 1>>)
    /\ pc' = [pc EXCEPT ![t] = "link"]
    /\ overlapped' = (overlapped \/ \E u \in Senders \ {t} : pc[u] # "idle")
    /\ UNCHANGED <<count, mailbox, flushing, popped, drained, streamVars, peerVars>>

SendLink(t) ==
    /\ pc[t] = "link"
    /\ pc' = [pc EXCEPT ![t] = "count"]
    /\ UNCHANGED <<sent, queueVars, mailbox, flushing, popped, drained, streamVars,
                   peerVars, overlapped>>

(* ActorController::Post: a call, or a mailbox entry. *)
PostFlush(t, due) ==
    /\ IF due /\ t = Self THEN flushing' = TRUE /\ popped' = 0
                         ELSE UNCHANGED <<flushing, popped>>
    /\ mailbox' = IF due /\ t # Self THEN Append(mailbox, [op |-> "flush"]) ELSE mailbox

(* Mutant: the second of two sends posts the flush, not the first. *)
SendCountLate(t) ==
    /\ pc[t] = "count"
    /\ count' = count + 1
    /\ PostFlush(t, count = 1)
    /\ pc' = [pc EXCEPT ![t] = "idle"]
    /\ UNCHANGED <<sent, pending, drained, streamVars, peerVars, overlapped>>

SendCount(t) ==
    /\ pc[t] = "count"
    /\ count' = count + 1
    /\ PostFlush(t, count = 0)
    /\ pc' = [pc EXCEPT ![t] = "idle"]
    /\ UNCHANGED <<sent, pending, drained, streamVars, peerVars, overlapped>>

(* What TryPop can reach: the oldest node, if its link has been stored. *)
Linked(m) == ~(pc[m[1]] = "link" /\ m[2] = sent[m[1]])
CanPop == pending # <<>> /\ Linked(Head(pending))

-----------------------------------------------------------------------------
(* OutputStream.  Next opens a chunk when there is none with room; BackUp  *)
(* gives back what a turn of WriteRaw did not fill.                        *)

Least(m, n) == IF m < n THEN m ELSE n

Full(c) == Len(c.data) = ChunkSize

(* Mutant: the view starts at the buffer, not at start_pos. *)
UnsentFromZero(c) == c.data

Unsent(c) == SubSeq(c.data, c.start + 1, Len(c.data))

Opened(bufs) ==
    IF bufs = <<>> \/ Full(Last(bufs)) THEN Append(bufs, [start |-> 0, data |-> <<>>]) ELSE bufs

(* One turn of WriteRaw's loop: what fits in the last chunk. *)
WriteSize(bufs) == Least(ChunkSize - Len(Last(bufs).data), Len(unwritten))

WriteRaw(bufs) ==
    [bufs EXCEPT ![Len(bufs)].data = @ \o SubSeq(unwritten, 1, WriteSize(bufs))]

(* NextBuffer drops the front chunks that are full and wholly sent.        *)
(* Mutant: a full chunk is dropped before it is wholly sent. *)
FullIsDrained(c) == Full(c)

Drained(c) == Full(c) /\ c.start = Len(c.data)
DropDrained(bufs) ==
    LET keep == {i \in 1..Len(bufs) : ~Drained(bufs[i])}
    IN  IF keep = {} THEN <<>>
        ELSE SubSeq(bufs, CHOOSE i \in keep : \A j \in keep : i <= j, Len(bufs))

HasBuffer(bufs) == bufs # <<>> /\ Head(bufs).start < Len(Head(bufs).data)

(* NextBuffer and, if it has a view, SendImpl. *)
StartWrite(bufs) ==
    /\ chunks' = DropDrained(bufs)
    /\ HasBuffer(chunks')
    /\ writes' = Append(writes, Unsent(Head(chunks')))

NothingToWrite(bufs) ==
    /\ chunks' = DropDrained(bufs)
    /\ ~HasBuffer(chunks')
    /\ UNCHANGED writes

-----------------------------------------------------------------------------
(* The actor. *)

RunFlush ==
    /\ Free /\ mailbox # <<>> /\ Head(mailbox).op = "flush"
    /\ mailbox' = Tail(mailbox)
    /\ flushing' = TRUE /\ popped' = 0
    /\ UNCHANGED <<senderVars, queueVars, drained, streamVars, peerVars, overlapped>>

(* One turn of FlushSend's loop; TryPop takes one off the count.  No other *)
(* thread can tell when the node went, only when the count fell.           *)
FlushPop ==
    /\ flushing /\ ~drained /\ unwritten = <<>> /\ CanPop
    /\ pending' = Tail(pending)
    /\ count' = count - 1
    /\ popped' = popped + 1
    /\ unwritten' = Units(Head(pending))
    /\ stream' = stream \o unwritten' /\ taken' = taken + 1
    /\ UNCHANGED <<senderVars, mailbox, flushing, drained, chunks, sending, writes, open,
                   asserted, wire, overlapped>>

FlushWrite ==
    /\ unwritten # <<>>
    /\ chunks' = WriteRaw(Opened(chunks))
    /\ unwritten' = SubSeq(unwritten, WriteSize(Opened(chunks)) + 1, Len(unwritten))
    /\ UNCHANGED <<senderVars, queueVars, mailbox, flushing, popped, drained, sending, writes,
                   open, asserted, peerVars, overlapped>>

(* The TryPop that ends the loop.  A node linked from here on waits for    *)
(* another flush, while the count still stands as the loop left it.        *)
FlushDrained ==
    /\ flushing /\ ~drained /\ unwritten = <<>> /\ ~CanPop
    /\ drained' = TRUE
    /\ UNCHANGED <<senderVars, queueVars, mailbox, flushing, popped, streamVars, peerVars,
                   overlapped>>

(* Mutant: a flush during a write starts another one. *)
FlushEndIgnoresSending ==
    /\ flushing /\ drained
    /\ count' = count - popped
    /\ flushing' = FALSE /\ drained' = FALSE
    /\ \/ StartWrite(chunks) /\ sending' = TRUE /\ UNCHANGED <<open, asserted>>
       \/ NothingToWrite(chunks) /\ UNCHANGED <<sending, open, asserted>>
    /\ UNCHANGED <<senderVars, pending, mailbox, popped, unwritten, peerVars, overlapped>>

(* After the loop: the nodes popped are taken off the count again.         *)
FlushEnd ==
    /\ flushing /\ drained
    /\ count' = count - popped
    /\ flushing' = FALSE /\ drained' = FALSE
    /\ \/ sending /\ UNCHANGED streamVars
       \/ ~sending /\ StartWrite(chunks) /\ sending' = TRUE /\ UNCHANGED <<open, asserted>>
       \/ /\ ~sending /\ NothingToWrite(chunks)
          /\ asserted' = (asserted \/ popped > 0)
          /\ UNCHANGED <<sending, open>>
    /\ UNCHANGED <<senderVars, pending, mailbox, popped, unwritten, peerVars, overlapped>>

(* Mutant: the position moves one past what was transferred. *)
AdvancedTooFar(n) == [chunks EXCEPT ![1].start = @ + n + 1]

Advanced(n) == [chunks EXCEPT ![1].start = @ + n]

OnSendCompleted ==
    /\ Free /\ mailbox # <<>> /\ Head(mailbox).op = "sent"
    /\ mailbox' = Tail(mailbox)
    /\ \/ /\ StartWrite(Advanced(Head(mailbox).n))
          /\ UNCHANGED <<sending, flushing, popped>>
       \/ /\ NothingToWrite(Advanced(Head(mailbox).n))
          /\ sending' = FALSE
          /\ flushing' = TRUE /\ popped' = 0
    /\ UNCHANGED <<senderVars, queueVars, drained, unwritten, open, asserted, peerVars,
                   overlapped>>

(* The error branch: Disconnect, and is_sending_ stays as it is. *)
OnSendFailed ==
    /\ Free /\ mailbox # <<>> /\ Head(mailbox).op = "error"
    /\ mailbox' = Tail(mailbox)
    /\ open' = FALSE
    /\ UNCHANGED <<senderVars, queueVars, flushing, popped, drained, unwritten, chunks,
                   sending, writes, asserted, peerVars, overlapped>>

(* Disconnect, called by another handler of the actor: a bad packet, or    *)
(* the session's user.                                                     *)
Disconnect ==
    /\ Free /\ open
    /\ open' = FALSE
    /\ UNCHANGED <<senderVars, queueVars, mailbox, flushing, popped, drained, unwritten,
                   chunks, sending, writes, asserted, peerVars, overlapped>>

-----------------------------------------------------------------------------
(* The socket: async_write takes the whole view, or fails after some of it *)
(* (when the connection breaks, or was closed under it).                   *)

WriteDone ==
    /\ writes # <<>> /\ open
    /\ wire' = wire \o Head(writes)
    /\ mailbox' = Append(mailbox, [op |-> "sent", n |-> Len(Head(writes))])
    /\ writes' = Tail(writes)
    /\ UNCHANGED <<senderVars, queueVars, flushing, popped, drained, unwritten, chunks,
                   sending, open, asserted, stream, taken, overlapped>>

WriteFails ==
    /\ writes # <<>>
    /\ \E n \in 0..(Len(Head(writes)) - 1) : wire' = wire \o SubSeq(Head(writes), 1, n)
    /\ mailbox' = Append(mailbox, [op |-> "error"])
    /\ writes' = Tail(writes)
    /\ UNCHANGED <<senderVars, queueVars, flushing, popped, drained, unwritten, chunks,
                   sending, open, asserted, stream, taken, overlapped>>

Send(t) == SendPush(t) \/ SendLink(t) \/ SendCount(t)
Actor == \/ RunFlush \/ FlushPop \/ FlushWrite \/ FlushDrained \/ FlushEnd
         \/ OnSendCompleted \/ OnSendFailed
Socket == WriteDone \/ WriteFails

Next == (\E t \in Senders : Send(t)) \/ Actor \/ Disconnect \/ Socket

Spec == Init /\ [][Next]_vars

-----------------------------------------------------------------------------
TypeOK ==
    /\ pc \in [Senders -> {"idle", "link", "count"}]
    /\ sent \in [Senders -> 0..MaxSend]
    /\ pending \in Seq(Message)
    /\ count \in Int
    /\ mailbox \in Seq(Entry)
    /\ flushing \in BOOLEAN /\ popped \in Nat /\ drained \in BOOLEAN
    /\ unwritten \in Seq(Unit) /\ stream \in Seq(Unit) /\ wire \in Seq(Unit) /\ taken \in Nat
    /\ chunks \in Seq(Chunk) /\ \A i \in DOMAIN chunks :
          /\ Len(chunks[i].data) \in 1..ChunkSize
          /\ chunks[i].start \in 0..Len(chunks[i].data)
    /\ writes \in Seq(Seq(Unit) \ {<<>>})
    /\ sending \in BOOLEAN /\ open \in BOOLEAN /\ asserted \in BOOLEAN
    /\ overlapped \in BOOLEAN

(* The peer receives the messages whole, one after the other, in the order *)
(* FlushSend popped them, which is each sender's order: appending to a     *)
(* chunk whose front part is being written disturbs nothing.               *)
WireIsPrefix == IsPrefix(wire, stream)

(* At most one async_write is outstanding, and is_sending_ says whether    *)
(* one is, until an error leaves it set for good.                          *)
Answers == {i \in DOMAIN mailbox : mailbox[i].op # "flush"}

SingleWrite ==
    LET outstanding == Len(writes) + Cardinality(Answers)
    IN  /\ outstanding <= 1
        /\ outstanding = 1 => sending
        /\ sending /\ open => outstanding = 1

(* When is_sending_ is clear and no flush runs, everything serialised has  *)
(* been sent: NextBuffer's "no data" is the truth, wherever the writes and *)
(* the appends to their chunks met.  A flush that comes to have nothing to *)
(* send does so without the RELEASE_ASSERT of Connection.cpp:306.          *)
NothingForgotten ==
    /\ ~flushing /\ ~sending => wire = stream
    /\ ~asserted

(* FlushSend takes every node off the count twice, so the count no longer  *)
(* returns to zero and a Send may post no flush.  How far that goes: when  *)
(* all is at rest, what waits unsent is never more than what was sent.     *)
AtRest == mailbox = <<>> /\ Free /\ writes = <<>> /\ \A t \in Senders : pc[t] = "idle"
BacklogBound == AtRest /\ ~overlapped => Len(pending) <= taken
=============================================================================
