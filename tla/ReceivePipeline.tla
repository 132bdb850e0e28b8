--------------------------- MODULE ReceivePipeline ---------------------------
(***************************************************************************)
(* The receiving side of Network::Connection and Network::Session: reads   *)
(* of any length are cut into packets (ReceiveImpl), each packet goes to   *)
(* the Protocol, and at the end of a read with a packet in it the session  *)
(* drains the protocol's queue.  A session and its connection share their  *)
(* channel (see ActorScheduler), so a Post between the two is a call.      *)
(*                                                                         *)
(* The peer's bytes are units <<i, k>>, the k-th unit of its i-th packet,  *)
(* whose first HeaderSize units are the header.  Reading a header is       *)
(* reading i off its first unit.  The kind of a packet is what its id and  *)
(* body make of it: "good" has a handler, "unhandled" has none, "ignored"  *)
(* is internal or does not parse, "unknown" has an id outside the protocol.*)
(***************************************************************************)
EXTENDS Integers, Sequences, SequencesExt

CONSTANTS Kinds,        \* the kinds of packet the peer sends
          MaxPackets,   \* bound: packets of the peer
          Bodies,       \* lengths a body can have
          HeaderSize,   \* units of a header (16 bytes in the code)
          ReadSize      \* units of the receive buffer

ASSUME ReceiveAssumption ==
    /\ Kinds \subseteq {"good", "unhandled", "ignored", "unknown"}
    /\ MaxPackets \in Nat /\ Bodies \subseteq Nat
    /\ HeaderSize \in Nat \ {0} /\ ReadSize \in Nat \ {0}

Packet == [kind : Kinds, body : Bodies]

VARIABLES
    script,       \* the packets the peer sends, fixed at the start
    arrived,      \* units the socket has handed over
    reading,      \* an async_read is outstanding
    mailbox,      \* its completion: <<n>> with n units, <<0>> for an error
    open,         \* Socket::IsOpen
    stage,        \* the actor's handler: "idle", "framing", "handling"
    buffer, done, \* recv_stream_->buffer and processing_data_size
    completed,    \* has_any_completion_packets
    pending,      \* the PendingStream's dataBuffer, empty when there is none
    header,       \* the PendingStream's header: its packet, 0 before it is read
    queue,        \* packet_messages_
    connected,    \* Session::connection_ is set
    announced,    \* Session::OnDisconnected has run
    framed,       \* history: the segments handed to OnDataReceived
    handled,      \* history: the packets whose handler ran
    refused       \* history: ReceiveImpl returned false

readVars == <<arrived, reading, mailbox>>
frameVars == <<stage, buffer, done, completed, pending, header, framed, refused>>
sessionVars == <<queue, connected, announced, handled>>
vars == <<script, arrived, reading, mailbox, open, stage, buffer, done, completed,
          pending, header, queue, connected, announced, framed, handled, refused>>

Size(i) == HeaderSize + script[i].body
Units(i) == [k \in 1..Size(i) |-> <<i, k>>]
Stream == FlattenSeq([i \in 1..Len(script) |-> Units(i)])

(* After BeginConnection and OnConnectedInternal. *)
Init ==
    /\ script \in UNION {[1..n -> Packet] : n \in 0..MaxPackets}
    /\ arrived = 0 /\ reading = TRUE /\ mailbox = <<>> /\ open = TRUE
    /\ stage = "idle" /\ buffer = <<>> /\ done = 0 /\ completed = FALSE
    /\ pending = <<>> /\ header = 0
    /\ queue = <<>> /\ connected = TRUE /\ announced = FALSE
    /\ framed = <<>> /\ handled = <<>> /\ refused = FALSE

-----------------------------------------------------------------------------
(* The socket: async_read answers with what there is, at least one unit,   *)
(* or fails because the peer or this side has closed.                      *)

Least(a, b) == IF a <= b THEN a ELSE b

ReadCompletes ==
    /\ reading /\ open
    /\ \E n \in 1..Least(ReadSize, Len(Stream) - arrived) :
          /\ buffer' = SubSeq(Stream, arrived + 1, arrived + n)
          /\ arrived' = arrived + n
          /\ mailbox' = <<n>>
    /\ reading' = FALSE
    /\ UNCHANGED <<script, open, stage, done, completed, pending, header, framed,
                   refused, sessionVars>>

ReadFails ==
    /\ reading
    /\ reading' = FALSE
    /\ mailbox' = <<0>>
    /\ UNCHANGED <<script, arrived, open, frameVars, sessionVars>>

-----------------------------------------------------------------------------
(* Connection::OnReceived. *)

(* OnDisconnected: the session's OnDisconnectedInternal, then Close. *)
ReceiveError ==
    /\ stage = "idle" /\ mailbox = <<0>>
    /\ mailbox' = <<>>
    /\ connected' = FALSE /\ announced' = TRUE
    /\ open' = FALSE
    /\ UNCHANGED <<script, arrived, reading, frameVars, queue, handled>>

BeginFraming ==
    /\ stage = "idle" /\ mailbox # <<>> /\ mailbox # <<0>>
    /\ mailbox' = <<>>
    /\ stage' = "framing" /\ done' = 0 /\ completed' = FALSE
    /\ UNCHANGED <<script, arrived, reading, open, buffer, pending, header, framed,
                   refused, sessionVars>>

(* One turn of ReceiveImpl's loop. *)
Looping == stage = "framing" /\ done < Len(buffer)
Remaining == Len(buffer) - done
Rest(n) == SubSeq(buffer, done + 1, done + n)

(* Connection::OnDataReceived and ProcessReceiveData. *)
Accepts(i) == script[i].kind # "unknown"
Queued(i) == IF script[i].kind \in {"good", "unhandled"} THEN <<i>> ELSE <<>>

HandOver(segment) ==
    /\ framed' = Append(framed, segment)
    /\ queue' = queue \o Queued(segment[1][1])
    /\ completed' = (completed \/ Accepts(segment[1][1]))

(* What the pending stream takes of this read, once its header is i's: the *)
(* rest of the header first, then the rest of the body.                    *)
Taken(i) == Least(Remaining, Size(i) - Len(pending))

(* The header, when the pending stream and this read have it whole. *)
PendingHeader ==
    IF Len(pending) >= HeaderSize THEN header
    ELSE IF Len(pending) + Remaining >= HeaderSize THEN (pending \o Rest(Remaining))[1][1]
    ELSE 0

(* Mutant: the loop is left as soon as the header is there. *)
AppendHeaderOnly ==
    /\ Looping /\ pending # <<>>
    /\ LET i == PendingHeader
           n == Least(Remaining, HeaderSize - Len(pending))
       IN  /\ i = 0 \/ Remaining < Size(i) - Len(pending)
           /\ pending' = pending \o Rest(n)
           /\ header' = i
           /\ done' = Len(buffer)
    /\ UNCHANGED <<script, readVars, open, stage, buffer, completed, framed, refused,
                   sessionVars>>

AppendPending ==
    /\ Looping /\ pending # <<>>
    /\ LET i == PendingHeader
       IN  /\ i = 0 \/ Remaining < Size(i) - Len(pending)
           /\ pending' = pending \o Rest(Remaining)
           /\ header' = i
           /\ done' = Len(buffer)
    /\ UNCHANGED <<script, readVars, open, stage, buffer, completed, framed, refused,
                   sessionVars>>

(* Mutant: a packet that ends a pending stream does not set the flag. *)
CompletePendingSilent ==
    /\ Looping /\ pending # <<>>
    /\ LET i == PendingHeader
       IN  /\ i # 0 /\ Accepts(i)
           /\ Remaining >= Size(i) - Len(pending)
           /\ framed' = Append(framed, pending \o Rest(Taken(i)))
           /\ queue' = queue \o Queued(i)
           /\ done' = done + Taken(i)
    /\ pending' = <<>> /\ header' = 0
    /\ UNCHANGED <<script, readVars, open, stage, buffer, completed, refused, connected,
                   announced, handled>>

CompletePending ==
    /\ Looping /\ pending # <<>>
    /\ LET i == PendingHeader
       IN  /\ i # 0 /\ Accepts(i)
           /\ Remaining >= Size(i) - Len(pending)
           /\ HandOver(pending \o Rest(Taken(i)))
           /\ done' = done + Taken(i)
    /\ pending' = <<>> /\ header' = 0
    /\ UNCHANGED <<script, readVars, open, stage, buffer, refused, connected, announced,
                   handled>>

(* A split packet the protocol does not know: ReceiveImpl returns false,   *)
(* the pending stream stays, and OnReceived closes the socket without      *)
(* another read and without a word to the session.                         *)
RefusePending ==
    /\ Looping /\ pending # <<>>
    /\ LET i == PendingHeader
       IN  /\ i # 0 /\ ~Accepts(i)
           /\ Remaining >= Size(i) - Len(pending)
           /\ HandOver(pending \o Rest(Taken(i)))
           /\ pending' = pending \o Rest(Taken(i)) /\ header' = i
           /\ done' = done + Taken(i)
    /\ refused' = TRUE /\ open' = FALSE /\ stage' = "idle"
    /\ UNCHANGED <<script, readVars, buffer, connected, announced, handled>>

(* No pending stream: a part of a packet, less or more than its header ... *)
KeepRest ==
    /\ Looping /\ pending = <<>>
    /\ LET i == buffer[done + 1][1]
       IN  /\ Remaining < Size(i)
           /\ header' = IF Remaining < HeaderSize THEN 0 ELSE i
    /\ pending' = Rest(Remaining)
    /\ done' = Len(buffer)
    /\ UNCHANGED <<script, readVars, open, stage, buffer, completed, framed, refused,
                   sessionVars>>

(* Mutant: the loop advances by the segment and its header. *)
WholePacketTooFar ==
    /\ Looping /\ pending = <<>>
    /\ LET i == buffer[done + 1][1]
       IN  /\ Remaining >= Size(i)
           /\ HandOver(Rest(Size(i)))
           /\ done' = done + Size(i) + HeaderSize
    /\ UNCHANGED <<script, readVars, open, stage, buffer, pending, header, refused,
                   connected, announced, handled>>

(* ... or a whole one, which is only logged when the protocol refuses it.  *)
WholePacket ==
    /\ Looping /\ pending = <<>>
    /\ LET i == buffer[done + 1][1]
       IN  /\ Remaining >= Size(i)
           /\ HandOver(Rest(Size(i)))
           /\ done' = done + Size(i)
    /\ UNCHANGED <<script, readVars, open, stage, buffer, pending, header, refused,
                   connected, announced, handled>>

-----------------------------------------------------------------------------
(* After the loop: the session's OnProcessPacket, then BeginReceive.       *)

EndFraming ==
    /\ stage = "framing" /\ done = Len(buffer)
    /\ stage' = IF completed /\ connected THEN "handling" ELSE "rearm"
    /\ UNCHANGED <<script, readVars, open, buffer, done, completed, pending, header,
                   framed, refused, sessionVars>>

(* ProcessMessage hands a packet to its handler, which may disconnect.     *)
HandlePacket ==
    /\ stage = "handling" /\ queue # <<>>
    /\ script[Head(queue)].kind = "good"
    /\ queue' = Tail(queue)
    /\ handled' = Append(handled, Head(queue))
    /\ \/ UNCHANGED <<open, connected>>
       \/ open' = FALSE /\ connected' = FALSE
    /\ UNCHANGED <<script, readVars, frameVars, announced>>

(* No handler: ProcessMessage returns false and the session disconnects.   *)
UnhandledPacket ==
    /\ stage = "handling" /\ queue # <<>>
    /\ script[Head(queue)].kind = "unhandled"
    /\ queue' = Tail(queue)
    /\ open' = FALSE /\ connected' = FALSE
    /\ stage' = "rearm"
    /\ UNCHANGED <<script, readVars, buffer, done, completed, pending, header, framed,
                   refused, announced, handled>>

EndHandling ==
    /\ stage = "handling" /\ queue = <<>>
    /\ stage' = "rearm"
    /\ UNCHANGED <<script, readVars, open, buffer, done, completed, pending, header,
                   framed, refused, sessionVars>>


BeginReceive ==
    /\ stage = "rearm"
    /\ stage' = "idle"
    /\ reading' = TRUE
    /\ UNCHANGED <<script, arrived, mailbox, open, buffer, done, completed, pending,
                   header, framed, refused, sessionVars>>

(* Session::Disconnect from elsewhere: another session's handler, a timer. *)
Disconnect ==
    /\ stage = "idle" /\ connected
    /\ connected' = FALSE /\ open' = FALSE
    /\ UNCHANGED <<script, readVars, frameVars, queue, announced, handled>>

Socket == ReadCompletes \/ ReadFails

Receive ==
    \/ ReceiveError \/ BeginFraming
    \/ AppendPending \/ CompletePending \/ RefusePending \/ KeepRest \/ WholePacket
    \/ EndFraming \/ HandlePacket \/ UnhandledPacket \/ EndHandling \/ BeginReceive

Next == Socket \/ Receive \/ Disconnect

Spec == Init /\ [][Next]_vars

(* The actor is scheduled, what the peer has sent arrives, and a read of a *)
(* closed socket fails.                                                    *)
Fairness ==
    /\ WF_vars(Receive) /\ WF_vars(ReadCompletes)
    /\ WF_vars(ReadFails /\ ~open)

FairSpec == Spec /\ Fairness

-----------------------------------------------------------------------------
TypeOK ==
    /\ script \in Seq(Packet)
    /\ arrived \in 0..Len(Stream)
    /\ reading \in BOOLEAN /\ open \in BOOLEAN
    /\ mailbox \in {<<>>} \cup {<<n>> : n \in 0..ReadSize}
    /\ reading => mailbox = <<>> /\ stage = "idle"
    /\ stage \in {"idle", "framing", "handling", "rearm"}
    /\ Len(buffer) <= ReadSize /\ done \in 0..ReadSize
    /\ stage = "framing" => done <= Len(buffer)
    /\ header \in 0..Len(script)
    /\ completed \in BOOLEAN /\ connected \in BOOLEAN
    /\ announced \in BOOLEAN /\ refused \in BOOLEAN

(* However the peer's bytes are cut into reads, the segments given to the  *)
(* protocol are its packets, whole and in order.  Between the turns of the *)
(* loop every unit that was processed is either in a packet handed over or *)
(* in the pending stream, and the pending stream knows its header exactly  *)
(* when it holds one.                                                      *)
Unprocessed == IF stage = "idle" /\ mailbox = <<>> THEN 0
               ELSE IF stage = "idle" THEN Len(buffer) ELSE Remaining

Framing ==
    /\ \A j \in 1..Len(framed) : framed[j] = Units(j)
    /\ ~refused /\ mailbox # <<0>> =>
          /\ FlattenSeq(framed) \o pending = SubSeq(Stream, 1, arrived - Unprocessed)
          /\ header = IF Len(pending) < HeaderSize THEN 0 ELSE pending[1][1]

(* The handlers see the queued packets in the order of the stream, and     *)
(* none waits for a later read: a live session between two reads has       *)
(* handled everything that was framed, whatever else the read contained.   *)
QueuedOf == FlattenSeq([j \in 1..Len(framed) |-> Queued(framed[j][1][1])])

NoPacketWaits ==
    /\ IsPrefix(handled, QueuedOf)
    /\ stage = "idle" /\ connected /\ ~refused => handled = QueuedOf

=============================================================================
