-------------------------- MODULE SendPipelineProofs --------------------------
(***************************************************************************)
(* Proofs about SendPipeline, for any number of senders and messages of    *)
(* any size in chunks of any size: the wire carries what was popped, in    *)
(* order and complete, through one write at a time.                        *)
(***************************************************************************)
EXTENDS SendPipeline, SequenceTheorems, FiniteSetTheorems, TLAPS

(* A piece s of the stream st, which begins after p units of it. *)
Lies(s, st, p) ==
    /\ s \in Seq(Unit) /\ st \in Seq(Unit) /\ p \in Nat
    /\ p + Len(s) <= Len(st)
    /\ \A i \in 1..Len(s) : s[i] = st[p + i]

(* Chunks that hold the stream up to w, the k-th of them from off[k] on:   *)
(* all but the last are full, and only the first has been sent in part.    *)
Laid(b, off, st, w) ==
    /\ b \in Seq(Chunk) /\ off \in [DOMAIN b -> Nat]
    /\ st \in Seq(Unit) /\ w \in 0..Len(st)
    /\ \A k \in DOMAIN b : /\ Lies(b[k].data, st, off[k])
                           /\ b[k].start <= Len(b[k].data)
                           /\ Len(b[k].data) <= ChunkSize
                           /\ k > 1 => b[k].start = 0
                           /\ k < Len(b) => /\ Len(b[k].data) = ChunkSize
                                            /\ off[k + 1] = off[k] + ChunkSize
    /\ b # <<>> => off[Len(b)] + Len(b[Len(b)].data) = w

Solid(b) == \A k \in DOMAIN b : Len(b[k].data) > 0

(* Up to where the stream has been sent. *)
SentUpTo(b, off, w) == IF b = <<>> THEN w ELSE off[1] + b[1].start

(* What is sent next, or has been, ends within the first chunk. *)
InFirst(b, off, w, n) == b # <<>> /\ SentUpTo(b, off, w) + n <= off[1] + Len(b[1].data)

Written == Len(stream) - Len(unwritten)

(* The wire carries the stream up to where the first chunk says, or, when  *)
(* a write is outstanding or answered, is about to say.                    *)
Placed(off) ==
    LET upTo == SentUpTo(chunks, off, Written) IN
    /\ Laid(chunks, off, stream, Written) /\ Solid(chunks)
    /\ \A i \in DOMAIN writes : /\ Len(wire) = upTo
                                /\ Lies(writes[i], stream, upTo)
                                /\ InFirst(chunks, off, Written, Len(writes[i]))
    /\ \A i \in DOMAIN mailbox : mailbox[i].op = "sent" =>
          /\ Len(wire) = upTo + mailbox[i].n
          /\ InFirst(chunks, off, Written, mailbox[i].n)
    /\ ~sending => Len(wire) = upTo

WireInv ==
    /\ Lies(wire, stream, 0)
    /\ Lies(unwritten, stream, Written)
    /\ ~flushing \/ drained => unwritten = <<>>
    /\ \E off : Placed(off)
    /\ ~sending /\ ~flushing => Len(wire) = Len(stream)
    /\ ~sending /\ flushing /\ popped > 0 => Len(wire) < Len(stream)
    /\ ~asserted

(* One write is outstanding or answered, or none. *)
OneWrite ==
    /\ Len(writes) <= 1
    /\ \A i, j \in Answers : i = j
    /\ writes # <<>> => Answers = {}
    /\ writes # <<>> \/ Answers # {} => sending
    /\ sending /\ open => writes # <<>> \/ Answers # {}

(* While no two pushes are in progress at once, at most one node is not    *)
(* linked, the last, and the count is what waits less what was sent.  Only *)
(* a flush whose loop is not over yet will find a node linked now: before  *)
(* its last subtraction the count may stand above zero for one that is.    *)
Mid == IF \A t \in Senders : pc[t] = "idle" THEN 0 ELSE 1
Uncounted == IF flushing THEN popped ELSE 0
FlushDue == (flushing /\ ~drained) \/ \E i \in DOMAIN mailbox : mailbox[i].op = "flush"
Orderly ==
    /\ \A t, u \in Senders : pc[t] # "idle" /\ pc[u] # "idle" => t = u
    /\ \A i \in DOMAIN pending : ~Linked(pending[i]) => i = Len(pending)
    /\ count = Len(pending) - taken - Mid + Uncounted
    /\ count > 0 => FlushDue

CountInv ==
    /\ pc[Self] # "idle" => ~flushing
    /\ drained => flushing
    /\ flushing => popped <= taken
    /\ \A i \in DOMAIN pending : pending[i][2] <= sent[pending[i][1]]
    /\ ~overlapped => Orderly

SendInv == TypeOK /\ OneWrite /\ WireInv /\ CountInv

-----------------------------------------------------------------------------
(* Pieces of the stream. *)

LEMMA Bounds ==
  /\ Self \in Senders /\ MaxSend \in Nat /\ ChunkSize \in Nat /\ ChunkSize > 0
  /\ \A k \in 1..MaxSend : Sizes[k] \in Nat /\ Sizes[k] > 0
BY SendAssumption

LEMMA LiesLater ==
  ASSUME NEW s, NEW st, NEW p, Lies(s, st, p), NEW t \in Seq(Unit)
  PROVE  Lies(s, st \o t, p) /\ Len(st \o t) = Len(st) + Len(t) /\ st \o t \in Seq(Unit)
<1>1. PICK u : u = st \o t
  OBVIOUS
<1>2. /\ s \in Seq(Unit) /\ st \in Seq(Unit) /\ p \in Nat /\ p + Len(s) <= Len(st)
      /\ Len(s) \in Nat /\ Len(st) \in Nat /\ Len(t) \in Nat
      /\ \A i \in 1..Len(s) : s[i] = st[p + i]
  BY LenProperties DEF Lies
<1>3. /\ u \in Seq(Unit) /\ Len(u) = Len(st) + Len(t)
      /\ \A i \in 1..Len(st) : u[i] = st[i]
  BY <1>1, <1>2, ConcatProperties
<1>4. ASSUME NEW i \in 1..Len(s) PROVE s[i] = u[p + i]
  <2>1. p + i \in 1..Len(st)
    BY <1>2, <1>4
  <2> QED
    BY <1>2, <1>3, <2>1
<1> QED
  BY <1>1, <1>2, <1>3, <1>4 DEF Lies

LEMMA LiesNew ==
  ASSUME NEW st \in Seq(Unit), NEW t \in Seq(Unit)
  PROVE  Lies(t, st \o t, Len(st))
<1>1. PICK u : u = st \o t
  OBVIOUS
<1>2. Len(st) \in Nat /\ Len(t) \in Nat
  BY LenProperties
<1>3. /\ u \in Seq(Unit) /\ Len(u) = Len(st) + Len(t)
      /\ \A i \in 1..(Len(st) + Len(t)) : u[i] = IF i <= Len(st) THEN st[i] ELSE t[i - Len(st)]
  BY <1>1, ConcatProperties
<1>4. ASSUME NEW i \in 1..Len(t) PROVE t[i] = u[Len(st) + i]
  BY <1>2, <1>3, <1>4
<1> QED
  BY <1>1, <1>2, <1>3, <1>4 DEF Lies

LEMMA LiesOn ==
  ASSUME NEW s, NEW st, NEW p, NEW t, Lies(s, st, p), Lies(t, st, p + Len(s))
  PROVE  Lies(s \o t, st, p) /\ Len(s \o t) = Len(s) + Len(t)
<1>1. PICK u : u = s \o t
  OBVIOUS
<1>2. /\ s \in Seq(Unit) /\ st \in Seq(Unit) /\ t \in Seq(Unit) /\ p \in Nat
      /\ Len(s) \in Nat /\ Len(st) \in Nat /\ Len(t) \in Nat
      /\ p + Len(s) + Len(t) <= Len(st)
      /\ \A i \in 1..Len(s) : s[i] = st[p + i]
      /\ \A i \in 1..Len(t) : t[i] = st[p + Len(s) + i]
  BY LenProperties DEF Lies
<1>3. /\ u \in Seq(Unit) /\ Len(u) = Len(s) + Len(t)
      /\ \A i \in 1..(Len(s) + Len(t)) : u[i] = IF i <= Len(s) THEN s[i] ELSE t[i - Len(s)]
  BY <1>1, <1>2, ConcatProperties
<1>4. ASSUME NEW i \in 1..Len(u) PROVE u[i] = st[p + i]
  <2>1. CASE i <= Len(s)
    BY <1>2, <1>3, <1>4, <2>1
  <2>2. CASE ~(i <= Len(s))
    <3>1. i - Len(s) \in 1..Len(t) /\ p + Len(s) + (i - Len(s)) = p + i
      BY <1>2, <1>3, <1>4, <2>2
    <3> QED
      BY <1>2, <1>3, <1>4, <2>2, <3>1
  <2> QED
    BY <2>1, <2>2
<1> QED
  BY <1>1, <1>2, <1>3, <1>4 DEF Lies

LEMMA LiesWithin ==
  ASSUME NEW s, NEW st, NEW p, Lies(s, st, p), NEW m \in 1..(Len(s) + 1), NEW n \in (m - 1)..Len(s)
  PROVE  Lies(SubSeq(s, m, n), st, p + m - 1) /\ Len(SubSeq(s, m, n)) = n - m + 1
<1>1. PICK u : u = SubSeq(s, m, n)
  OBVIOUS
<1>2. /\ s \in Seq(Unit) /\ st \in Seq(Unit) /\ p \in Nat /\ p + Len(s) <= Len(st)
      /\ Len(s) \in Nat /\ Len(st) \in Nat /\ m \in Nat /\ n \in Nat /\ m > 0
      /\ n <= Len(s) /\ m <= n + 1
      /\ \A i \in 1..Len(s) : s[i] = st[p + i]
  <2>1. /\ s \in Seq(Unit) /\ st \in Seq(Unit) /\ p \in Nat /\ p + Len(s) <= Len(st)
        /\ \A i \in 1..Len(s) : s[i] = st[p + i]
    BY DEF Lies
  <2>2. Len(s) \in Nat /\ Len(st) \in Nat
    BY <2>1, LenProperties
  <2>3. m \in Nat /\ m > 0
    BY <2>2
  <2>4. n \in Nat /\ n <= Len(s) /\ m <= n + 1
    BY <2>2, <2>3
  <2> QED
    BY <2>1, <2>2, <2>3, <2>4
<1>3. \A i \in m..n : s[i] \in Unit
  BY <1>2, ElementOfSeq
<1>4. /\ u \in Seq(Unit) /\ Len(u) = n - m + 1
      /\ \A i \in 1..(n - m + 1) : u[i] = s[m + i - 1]
  BY <1>1, <1>2, <1>3, SubSeqProperties
<1>5. ASSUME NEW i \in 1..Len(u) PROVE u[i] = st[p + m - 1 + i]
  <2>1. m + i - 1 \in 1..Len(s) /\ p + (m + i - 1) = p + m - 1 + i
    <3>1. i \in 1..(n - m + 1)
      BY <1>4, <1>5
    <3>2. i \in Nat /\ i > 0 /\ i <= n - m + 1
      BY <1>2, <3>1
    <3>3. PICK a \in Nat : a = Len(s)
      BY <1>2
    <3>4. n <= a /\ m \in Nat /\ n \in Nat /\ m > 0 /\ p \in Nat
      BY <1>2, <3>3
    <3>5. m + i - 1 \in 1..a /\ p + (m + i - 1) = p + m - 1 + i
      BY <3>2, <3>4
    <3> QED
      BY <3>3, <3>5
  <2> QED
    BY <1>2, <1>4, <1>5, <2>1
<1>6. p + m - 1 \in Nat /\ p + m - 1 + Len(u) <= Len(st)
  BY <1>2, <1>4
<1> QED
  BY <1>1, <1>2, <1>4, <1>5, <1>6 DEF Lies

LEMMA LiesFromStart ==
  ASSUME NEW s, NEW st, Lies(s, st, 0)
  PROVE  IsPrefix(s, st) /\ (Len(s) = Len(st) => s = st)
<1>1. /\ s \in Seq(Unit) /\ st \in Seq(Unit) /\ Len(s) \in Nat /\ Len(st) \in Nat
      /\ Len(s) <= Len(st) /\ \A i \in 1..Len(s) : s[i] = st[i]
  BY LenProperties DEF Lies
<1>2. PICK u : u = SubSeq(st, 1, Len(s))
  OBVIOUS
<1>3. \A i \in 1..Len(s) : st[i] \in Unit
  BY <1>1, ElementOfSeq
<1>4. u \in Seq(Unit) /\ Len(u) = Len(s) /\ \A i \in 1..Len(s) : u[i] = st[1 + i - 1]
  BY <1>1, <1>2, <1>3, SubSeqProperties
<1>5. \A i \in 1..Len(s) : u[i] = s[i]
  BY <1>1, <1>4
<1>6. u = s
  BY <1>1, <1>4, <1>5, SeqEqual
<1>7. SubSeq(s, 1, Len(s)) = s
  BY <1>1, SubSeqFull
<1>8. Len(s) = Len(st) => s = st
  BY <1>1, SeqEqual
<1> QED
  BY <1>1, <1>2, <1>6, <1>7, <1>8 DEF IsPrefix

LEMMA LiesNothing ==
  ASSUME NEW st \in Seq(Unit), NEW p \in 0..Len(st)
  PROVE  Lies(<<>>, st, p)
<1>1. Len(st) \in Nat
  BY LenProperties
<1> QED
  BY <1>1, EmptySeq DEF Lies

-----------------------------------------------------------------------------
(* Chunks, a value at a time. *)

LEMMA ChunkFields ==
  ASSUME NEW c \in Chunk
  PROVE  c.start \in Nat /\ c.data \in Seq(Unit) /\ Len(c.data) \in Nat
BY LenProperties DEF Chunk

LEMMA OtherData ==
  ASSUME NEW c \in Chunk, NEW d \in Seq(Unit), NEW y, y = [c EXCEPT !.data = d]
  PROVE  y \in Chunk /\ y.start = c.start /\ y.data = d
BY DEF Chunk

LEMMA OtherStart ==
  ASSUME NEW c \in Chunk, NEW e \in Nat, NEW y, y = [c EXCEPT !.start = e]
  PROVE  y \in Chunk /\ y.start = e /\ y.data = c.data
BY DEF Chunk

LEMMA LaidFacts ==
  ASSUME NEW b, NEW off, NEW st, NEW w, Laid(b, off, st, w)
  PROVE  /\ b \in Seq(Chunk) /\ Len(b) \in Nat /\ DOMAIN b = 1..Len(b) /\ w \in Nat
         /\ st \in Seq(Unit) /\ Len(st) \in Nat /\ w <= Len(st)
         /\ b # <<>> => Len(b) > 0
         /\ \A k \in 1..Len(b) :
               /\ b[k] \in Chunk /\ b[k].start \in Nat /\ b[k].data \in Seq(Unit)
               /\ Len(b[k].data) \in Nat /\ Len(b[k].data) <= ChunkSize
               /\ b[k].start <= Len(b[k].data) /\ off[k] \in Nat /\ (k > 1 => b[k].start = 0)
               /\ Lies(b[k].data, st, off[k])
<1>1. /\ b \in Seq(Chunk) /\ Len(b) \in Nat /\ DOMAIN b = 1..Len(b)
      /\ st \in Seq(Unit) /\ Len(st) \in Nat /\ (b # <<>> => Len(b) > 0)
  BY LenProperties, EmptySeq DEF Laid
<1>2. ASSUME NEW k \in 1..Len(b)
      PROVE  b[k] \in Chunk /\ b[k].start \in Nat /\ b[k].data \in Seq(Unit) /\ Len(b[k].data) \in Nat
  BY <1>1, <1>2, ElementOfSeq, ChunkFields
<1> QED
  BY <1>1, <1>2 DEF Laid

(* When the stream grows, the chunks are where they were. *)
LEMMA LaidLater ==
  ASSUME NEW b, NEW off, NEW st, NEW w, Laid(b, off, st, w), NEW t \in Seq(Unit)
  PROVE  Laid(b, off, st \o t, w)
<1>1. PICK u : u = st \o t
  OBVIOUS
<1>2. st \in Seq(Unit) /\ Len(st) \in Nat /\ Len(t) \in Nat
  BY LaidFacts, LenProperties
<1>3. u \in Seq(Unit) /\ Len(u) = Len(st) + Len(t)
  BY <1>1, <1>2, ConcatProperties
<1>4. \A k \in DOMAIN b : Lies(b[k].data, u, off[k])
  BY <1>1, LiesLater DEF Laid
<1>5. w \in 0..Len(u)
  BY <1>2, <1>3 DEF Laid
<1> QED
  BY <1>1, <1>3, <1>4, <1>5 DEF Laid

(* Next gives a chunk with room, behind the others. *)
RoomBehind(b, off, st, w, y) ==
    \E new : /\ Laid(y, new, st, w) /\ y # <<>>
             /\ Len(Last(y).data) < ChunkSize
             /\ \A k \in 1..(Len(y) - 1) : Len(y[k].data) > 0
             /\ SentUpTo(y, new, w) = SentUpTo(b, off, w)
             /\ b # <<>> => new[1] = off[1] /\ y[1] = b[1]

LEMMA LaidOpened ==
  ASSUME NEW b, NEW off, NEW st, NEW w, Laid(b, off, st, w), Solid(b)
  PROVE  RoomBehind(b, off, st, w, Opened(b))
<1>1. /\ b \in Seq(Chunk) /\ Len(b) \in Nat /\ DOMAIN b = 1..Len(b) /\ w \in Nat
      /\ st \in Seq(Unit) /\ Len(st) \in Nat /\ w <= Len(st) /\ (b # <<>> => Len(b) > 0)
      /\ ChunkSize \in Nat /\ ChunkSize > 0
  BY LaidFacts, Bounds
<1>2. CASE ~(b = <<>> \/ Full(Last(b)))
  <2>1. Opened(b) = b /\ Len(b) \in 1..Len(b)
    BY <1>1, <1>2 DEF Opened
  <2>2. Len(b[Len(b)].data) < ChunkSize
    <3>1. Len(b[Len(b)].data) \in Nat /\ Len(b[Len(b)].data) <= ChunkSize
      BY <2>1, LaidFacts
    <3> QED
      BY <1>1, <1>2, <3>1 DEF Full, Last
  <2> QED
    BY <1>1, <1>2, <2>1, <2>2 DEF RoomBehind, Solid, Last
<1>3. CASE b = <<>> \/ Full(Last(b))
  <2>1. PICK e : e = [start |-> 0, data |-> <<>>]
    OBVIOUS
  <2>2. e \in Chunk /\ e.start = 0 /\ e.data = <<>> /\ Len(e.data) = 0
    BY <2>1, EmptySeq DEF Chunk
  <2>3. PICK y, n : y = Append(b, e) /\ n = Len(b) + 1
    OBVIOUS
  <2>4. /\ Opened(b) = y /\ y \in Seq(Chunk) /\ y # <<>> /\ Len(y) = n /\ n \in Nat /\ n > 0
        /\ DOMAIN y = 1..n
        /\ \A k \in 1..Len(b) : y[k] = b[k]
        /\ y[n] = e
    BY <1>1, <1>3, <2>1, <2>2, <2>3, AppendProperties, LenProperties DEF Opened
  <2>5. PICK new : new = [k \in 1..n |-> IF k = n THEN w ELSE off[k]]
    OBVIOUS
  <2>6. /\ new \in [1..n -> Nat] /\ new[n] = w
        /\ \A k \in 1..Len(b) : new[k] = off[k]
    BY <1>1, <2>3, <2>4, <2>5, LaidFacts
  <2>7. Lies(e.data, st, w)
    BY <1>1, <2>2, LiesNothing
  <2>8. ASSUME NEW k \in 1..n
        PROVE  /\ Lies(y[k].data, st, new[k])
               /\ y[k].start <= Len(y[k].data)
               /\ Len(y[k].data) <= ChunkSize
               /\ k > 1 => y[k].start = 0
               /\ k < n => /\ Len(y[k].data) = ChunkSize /\ Len(y[k].data) > 0
                           /\ new[k + 1] = new[k] + ChunkSize
    <3>1. CASE k = n
      BY <1>1, <2>2, <2>4, <2>6, <2>7, <3>1
    <3>2. CASE k # n
      <4>1. k \in 1..Len(b) /\ k \in DOMAIN b /\ y[k] = b[k] /\ new[k] = off[k] /\ b # <<>>
        BY <1>1, <2>3, <2>4, <2>6, <2>8, <3>2, EmptySeq
      <4>2. CASE k = Len(b)
        <5>1. Len(b[k].data) = ChunkSize /\ off[k] + Len(b[k].data) = w /\ k + 1 = n
          BY <1>3, <2>3, <4>1, <4>2 DEF Laid, Full, Last
        <5> QED
          BY <1>1, <2>6, <4>1, <5>1 DEF Laid
      <4>3. CASE k # Len(b)
        <5>1. k \in 1..Len(b) /\ Len(b) \in Nat
          BY <1>1, <4>1
        <5>2. k < Len(b) /\ k + 1 \in 1..Len(b)
          BY <4>3, <5>1
        <5>3. /\ Lies(b[k].data, st, off[k])
              /\ b[k].start <= Len(b[k].data)
              /\ Len(b[k].data) <= ChunkSize
              /\ k > 1 => b[k].start = 0
              /\ Len(b[k].data) = ChunkSize
              /\ off[k + 1] = off[k] + ChunkSize
          BY <4>1, <5>2 DEF Laid
        <5>4. new[k + 1] = off[k + 1]
          BY <2>6, <5>2
        <5> QED
          BY <1>1, <4>1, <5>3, <5>4
      <4> QED
        BY <4>2, <4>3
    <3> QED
      BY <3>1, <3>2
  <2>9. Laid(y, new, st, w)
    <3>1. new[n] + Len(y[n].data) = w /\ w \in 0..Len(st)
      BY <1>1, <2>2, <2>4, <2>6
    <3> QED
      BY <1>1, <2>4, <2>6, <2>8, <3>1 DEF Laid
  <2>10. ASSUME NEW k \in 1..(Len(y) - 1) PROVE Len(y[k].data) > 0
    <3>1. k \in 1..n /\ k < n
      BY <2>4, <2>10
    <3> QED
      BY <2>8, <3>1
  <2>11. SentUpTo(y, new, w) = SentUpTo(b, off, w)
    <3>1. CASE b = <<>>
      <4>1. n = 1
        BY <2>3, <3>1, EmptySeq
      <4> QED
        BY <1>1, <2>2, <2>4, <2>6, <3>1, <4>1 DEF SentUpTo
    <3>2. CASE b # <<>>
      BY <1>1, <2>4, <2>6, <3>2 DEF SentUpTo
    <3> QED
      BY <3>1, <3>2
  <2>12. b # <<>> => new[1] = off[1] /\ y[1] = b[1]
    BY <1>1, <2>4, <2>6
  <2>13. Len(Last(y).data) < ChunkSize
    BY <1>1, <2>2, <2>4 DEF Last
  <2> QED
    BY <2>4, <2>9, <2>10, <2>11, <2>12, <2>13 DEF RoomBehind
<1> QED
  BY <1>2, <1>3

(* A turn of WriteRaw fills the last chunk, or writes all that is left. *)
LEMMA LaidWritten ==
  ASSUME NEW b, NEW off, NEW st, NEW w, Laid(b, off, st, w), b # <<>>,
         Len(Last(b).data) < ChunkSize, \A k \in 1..(Len(b) - 1) : Len(b[k].data) > 0,
         Lies(unwritten, st, w), Len(unwritten) > 0
  PROVE  \E n \in 1..Len(unwritten) :
           /\ n = WriteSize(b)
           /\ Laid(WriteRaw(b), off, st, w + n) /\ Solid(WriteRaw(b)) /\ WriteRaw(b) # <<>>
           /\ Lies(SubSeq(unwritten, n + 1, Len(unwritten)), st, w + n)
           /\ Len(SubSeq(unwritten, n + 1, Len(unwritten))) = Len(unwritten) - n
           /\ WriteRaw(b)[1].start = b[1].start /\ Len(b[1].data) <= Len(WriteRaw(b)[1].data)
<1>1. PICK m, c, n : m = Len(b) /\ c = b[m] /\ n = WriteSize(b)
  OBVIOUS
<1>2. /\ b \in Seq(Chunk) /\ m \in Nat /\ m > 0 /\ DOMAIN b = 1..m /\ w \in Nat
      /\ st \in Seq(Unit) /\ Len(st) \in Nat /\ w <= Len(st)
      /\ ChunkSize \in Nat /\ Last(b) = c /\ m \in 1..m
  <2>1. /\ b \in Seq(Chunk) /\ m \in Nat /\ m > 0 /\ DOMAIN b = 1..m /\ w \in Nat
        /\ st \in Seq(Unit) /\ Len(st) \in Nat /\ w <= Len(st)
    BY <1>1, LaidFacts
  <2>2. m \in 1..m
    BY <2>1
  <2> QED
    BY <1>1, <2>1, <2>2, Bounds DEF Last
<1>3. /\ c \in Chunk /\ c.start \in Nat /\ c.data \in Seq(Unit) /\ Len(c.data) \in Nat
      /\ c.start <= Len(c.data) /\ (m > 1 => c.start = 0) /\ off[m] \in Nat
      /\ Lies(c.data, st, off[m]) /\ off[m] + Len(c.data) = w
  <2>1. \A k \in 1..Len(b) :
               /\ b[k] \in Chunk /\ b[k].start \in Nat /\ b[k].data \in Seq(Unit)
               /\ Len(b[k].data) \in Nat
               /\ b[k].start <= Len(b[k].data) /\ off[k] \in Nat /\ (k > 1 => b[k].start = 0)
               /\ Lies(b[k].data, st, off[k])
    BY LaidFacts
  <2>2. off[m] + Len(c.data) = w
    BY <1>1 DEF Laid
  <2> QED
    BY <1>1, <1>2, <2>1, <2>2
<1>4. PICK l : l = Len(unwritten)
  OBVIOUS
<1>5. l \in Nat /\ l > 0
  BY <1>4, LenProperties DEF Lies
<1>6. n \in 1..l /\ Len(c.data) + n <= ChunkSize
      /\ (n < l => Len(c.data) + n = ChunkSize)
  <2>1. n = Least(ChunkSize - Len(c.data), l)
    BY <1>1, <1>2, <1>4 DEF WriteSize
  <2>2. Len(c.data) < ChunkSize
    BY <1>2
  <2>3. PICK d : d = Len(c.data)
    OBVIOUS
  <2>4. d \in Nat /\ ChunkSize \in Nat /\ d < ChunkSize /\ n = Least(ChunkSize - d, l)
    BY <1>2, <1>3, <2>1, <2>2, <2>3
  <2>5. n \in 1..l /\ d + n <= ChunkSize /\ (n < l => d + n = ChunkSize)
    BY <1>5, <2>4 DEF Least
  <2> QED
    BY <2>3, <2>5
<1>7. PICK v, r : v = SubSeq(unwritten, 1, n) /\ r = SubSeq(unwritten, n + 1, l)
  OBVIOUS
<1>8. Lies(v, st, w) /\ Len(v) = n
  <2>1. 1 \in 1..(l + 1) /\ n \in (1 - 1)..l /\ w + 1 - 1 = w /\ n - 1 + 1 = n
    BY <1>2, <1>5, <1>6
  <2> QED
    BY <1>4, <1>7, <2>1, LiesWithin
<1>9. Lies(r, st, w + n) /\ Len(r) = l - n
  <2>1. n + 1 \in 1..(l + 1) /\ l \in ((n + 1) - 1)..l /\ w + (n + 1) - 1 = w + n
        /\ l - (n + 1) + 1 = l - n
    BY <1>2, <1>5, <1>6
  <2> QED
    BY <1>4, <1>7, <2>1, LiesWithin
<1>10. PICK d : d = c.data \o v
  OBVIOUS
<1>11. Lies(d, st, off[m]) /\ Len(d) = Len(c.data) + n /\ d \in Seq(Unit)
  <2>1. Lies(v, st, off[m] + Len(c.data))
    BY <1>3, <1>8
  <2>2. Lies(c.data \o v, st, off[m]) /\ Len(c.data \o v) = Len(c.data) + Len(v)
    BY <1>3, <2>1, LiesOn
  <2>3. Lies(d, st, off[m]) /\ Len(d) = Len(c.data) + n
    BY <1>8, <1>10, <2>2
  <2> QED
    BY <2>3 DEF Lies
<1>12. PICK e : e = [c EXCEPT !.data = d]
  OBVIOUS
<1>13. e \in Chunk /\ e.start = c.start /\ e.data = d
  BY <1>3, <1>11, <1>12, OtherData
<1>14. PICK y : y = WriteRaw(b)
  OBVIOUS
<1>15. y = [b EXCEPT ![m] = e]
  BY <1>1, <1>2, <1>7, <1>10, <1>12, <1>14 DEF WriteRaw
<1>16. /\ y \in Seq(Chunk) /\ Len(y) = m /\ DOMAIN y = 1..m /\ y[m] = e /\ y # <<>>
       /\ \A k \in 1..m : k # m => y[k] = b[k]
  BY <1>1, <1>2, <1>13, <1>15, ExceptSeq, LenProperties, EmptySeq
<1>17. w + n \in 0..Len(st) /\ off \in [1..m -> Nat]
  <2>1. w + n <= Len(st)
    BY <1>8 DEF Lies
  <2>2. off \in [1..m -> Nat]
    BY <1>2 DEF Laid
  <2> QED
    BY <1>2, <1>6, <2>1, <2>2
<1>18. ASSUME NEW k \in 1..m
       PROVE  /\ Lies(y[k].data, st, off[k])
              /\ y[k].start <= Len(y[k].data)
              /\ Len(y[k].data) <= ChunkSize
              /\ k > 1 => y[k].start = 0
              /\ k < m => Len(y[k].data) = ChunkSize /\ off[k + 1] = off[k] + ChunkSize
              /\ Len(y[k].data) > 0
              /\ y[k].start = b[k].start /\ Len(b[k].data) <= Len(y[k].data)
  <2>1. CASE k = m
    <3>1. /\ y[k].data = d /\ y[k].start = c.start /\ b[k] = c
          /\ Lies(y[k].data, st, off[k]) /\ (k > 1 => y[k].start = 0)
      BY <1>1, <1>3, <1>11, <1>13, <1>16, <2>1
    <3>2. /\ c.start <= Len(d) /\ Len(d) <= ChunkSize /\ Len(d) > 0 /\ Len(c.data) <= Len(d)
      <4>1. n \in Nat /\ n > 0
        BY <1>5, <1>6
      <4> QED
        BY <1>2, <1>3, <1>6, <1>11, <4>1
    <3>3. ~(k < m)
      BY <1>2, <2>1
    <3> QED
      BY <3>1, <3>2, <3>3
  <2>2. CASE k # m
    <3>1. k \in DOMAIN b /\ k < m /\ k \in 1..(m - 1) /\ y[k] = b[k]
      BY <1>2, <1>16, <1>18, <2>2
    <3>2. Len(b[k].data) \in Nat
      BY <1>1, <1>18, LaidFacts
    <3> QED
      BY <1>1, <3>1, <3>2 DEF Laid
  <2> QED
    BY <2>1, <2>2
<1>19. off[m] + Len(y[m].data) = w + n
  <2>1. Len(y[m].data) = Len(c.data) + n
    BY <1>11, <1>13, <1>16
  <2>2. n \in Nat
    BY <1>5, <1>6
  <2> QED
    BY <1>3, <2>1, <2>2
<1>20. Laid(y, off, st, w + n)
  BY <1>2, <1>16, <1>17, <1>18, <1>19 DEF Laid
<1>21. Solid(y) /\ y[1].start = b[1].start /\ Len(b[1].data) <= Len(y[1].data)
  <2>1. 1 \in 1..m
    BY <1>2
  <2> QED
    BY <1>16, <1>18, <2>1 DEF Solid
<1> QED
  BY <1>1, <1>4, <1>6, <1>7, <1>9, <1>14, <1>16, <1>20, <1>21

LEMMA LeastOf ==
  ASSUME NEW S, NEW m \in S, \A j \in S : m <= j /\ j \in Nat
  PROVE  (CHOOSE i \in S : \A j \in S : i <= j) = m
<1>1. PICK x : x = CHOOSE i \in S : \A j \in S : i <= j
  OBVIOUS
<1>2. x \in S /\ \A j \in S : x <= j
  BY <1>1
<1>3. x <= m /\ m <= x /\ x \in Nat /\ m \in Nat
  BY <1>2
<1>4. x = m
  BY <1>3
<1> QED
  BY <1>1, <1>4

(* NextBuffer drops the first chunk or none: those behind it have not been *)
(* sent at all.                                                            *)
LEMMA DropsFirst ==
  ASSUME NEW b, NEW off, NEW st, NEW w, Laid(b, off, st, w), Solid(b)
  PROVE  DropDrained(b) = IF b # <<>> /\ Drained(b[1]) THEN Tail(b) ELSE b
<1>1. /\ b \in Seq(Chunk) /\ Len(b) \in Nat /\ DOMAIN b = 1..Len(b) /\ (b # <<>> => Len(b) > 0)
      /\ (b = <<>> => Len(b) = 0)
  BY LaidFacts, EmptySeq
<1>2. PICK keep : keep = {i \in 1..Len(b) : ~Drained(b[i])}
  OBVIOUS
<1>3. \A k \in 1..Len(b) : k > 1 => k \in keep
  <2>1. ASSUME NEW k \in 1..Len(b), k > 1 PROVE b[k].start = 0 /\ Len(b[k].data) > 0 /\ Len(b[k].data) \in Nat
    BY <1>1, <2>1, LaidFacts DEF Solid
  <2>2. ASSUME NEW k \in 1..Len(b), k > 1 PROVE b[k].start # Len(b[k].data)
    BY <2>1, <2>2
  <2> QED
    BY <1>2, <2>2 DEF Drained
<1>4. CASE b = <<>>
  BY <1>1, <1>2, <1>4 DEF DropDrained
<1>5. CASE b # <<>> /\ ~Drained(b[1])
  <2>1. 1 \in keep /\ keep \subseteq 1..Len(b)
    BY <1>1, <1>2, <1>5
  <2>2. (CHOOSE i \in keep : \A j \in keep : i <= j) = 1
    <3>1. 1 \in keep /\ \A j \in keep : 1 <= j /\ j \in Nat
      BY <1>1, <2>1
    <3> QED
      BY <3>1, LeastOf
  <2>3. DropDrained(b) = SubSeq(b, 1, Len(b))
    BY <1>2, <2>1, <2>2 DEF DropDrained
  <2> QED
    BY <1>1, <1>5, <2>3, SubSeqFull
<1>6. CASE b # <<>> /\ Drained(b[1])
  <2>1. 1 \notin keep /\ Tail(b) = SubSeq(b, 2, Len(b))
    BY <1>1, <1>2, <1>6, TailIsSubSeq
  <2>2. CASE Len(b) = 1
    <3>1. keep = {}
      BY <1>1, <1>2, <2>1, <2>2
    <3>2. SubSeq(b, 2, Len(b)) = <<>>
      BY <2>2, SubSeqEmpty
    <3>3. DropDrained(b) = <<>>
      BY <1>2, <3>1 DEF DropDrained
    <3> QED
      BY <1>6, <2>1, <3>2, <3>3
  <2>3. CASE Len(b) # 1
    <3>1. 2 \in keep /\ \A j \in keep : 2 <= j /\ j \in Nat
      <4>1. 2 \in 1..Len(b)
        BY <1>1, <1>6, <2>3
      <4> QED
        BY <1>1, <1>2, <1>3, <2>1, <4>1
    <3>2. (CHOOSE i \in keep : \A j \in keep : i <= j) = 2
      BY <3>1, LeastOf
    <3>3. DropDrained(b) = SubSeq(b, 2, Len(b))
      BY <1>2, <3>1, <3>2 DEF DropDrained
    <3> QED
      BY <1>6, <2>1, <3>3
  <2> QED
    BY <2>2, <2>3
<1> QED
  BY <1>4, <1>5, <1>6

(* Chunks y hold what b holds, from the same place on. *)
LeftOf(b, off, st, w, y) ==
    \E new : /\ Laid(y, new, st, w) /\ Solid(y)
             /\ SentUpTo(y, new, w) = SentUpTo(b, off, w)
             /\ y # <<>> => ~Drained(y[1])

LEMMA LaidTail ==
  ASSUME NEW b, NEW off, NEW st, NEW w, Laid(b, off, st, w), Solid(b), b # <<>>, Drained(b[1])
  PROVE  LeftOf(b, off, st, w, Tail(b))
<1>1. PICK m : m = Len(b)
  OBVIOUS
<1>2. /\ b \in Seq(Chunk) /\ m \in Nat /\ m > 0 /\ DOMAIN b = 1..m
      /\ w \in Nat /\ st \in Seq(Unit) /\ ChunkSize \in Nat
  BY <1>1, LaidFacts, Bounds
<1>3. PICK t : t = Tail(b)
  OBVIOUS
<1>4. /\ t \in Seq(Chunk) /\ Len(t) = m - 1 /\ m - 1 \in Nat /\ DOMAIN t = 1..(m - 1)
      /\ \A k \in 1..(m - 1) : t[k] = b[k + 1]
  BY <1>1, <1>2, <1>3, HeadTailProperties, LenProperties
<1>5. PICK new : new = [k \in 1..(m - 1) |-> off[k + 1]]
  OBVIOUS
<1>6. \A k \in 1..(m - 1) : /\ k + 1 \in 1..m /\ k + 1 > 1 /\ new[k] = off[k + 1]
                            /\ t[k] = b[k + 1] /\ off[k + 1] \in Nat
                            /\ Len(b[k + 1].data) \in Nat /\ Len(b[k + 1].data) > 0
  <2>1. ASSUME NEW k \in 1..(m - 1) PROVE k + 1 \in 1..m /\ k + 1 > 1
    BY <1>2
  <2>2. \A k \in 1..m : off[k] \in Nat /\ Len(b[k].data) \in Nat /\ Len(b[k].data) > 0
    BY <1>1, <1>2, LaidFacts DEF Solid
  <2> QED
    BY <1>4, <1>5, <2>1, <2>2
<1>7. new \in [1..(m - 1) -> Nat]
  BY <1>5, <1>6
<1>8. ASSUME NEW k \in 1..(m - 1)
      PROVE  /\ Lies(t[k].data, st, new[k])
             /\ t[k].start <= Len(t[k].data)
             /\ Len(t[k].data) <= ChunkSize
             /\ t[k].start = 0
             /\ k < m - 1 => Len(t[k].data) = ChunkSize /\ new[k + 1] = new[k] + ChunkSize
  <2>1. PICK j : j = k + 1
    OBVIOUS
  <2>2. j \in 1..m /\ j > 1 /\ new[k] = off[j] /\ t[k] = b[j] /\ j \in DOMAIN b
    BY <1>2, <1>6, <2>1
  <2>3. /\ Lies(b[j].data, st, off[j]) /\ b[j].start <= Len(b[j].data)
        /\ Len(b[j].data) <= ChunkSize /\ b[j].start = 0
        /\ j < m => Len(b[j].data) = ChunkSize /\ off[j + 1] = off[j] + ChunkSize
    BY <1>1, <2>2 DEF Laid
  <2>4. ASSUME k < m - 1 PROVE j < m /\ new[k + 1] = off[j + 1]
    <3>1. k + 1 \in 1..(m - 1) /\ j < m
      BY <1>2, <1>8, <2>1, <2>4
    <3> QED
      BY <1>6, <2>1, <3>1
  <2> QED
    BY <2>2, <2>3, <2>4
<1>9. t # <<>> => m - 1 > 0
  BY <1>4, EmptySeq
<1>10. t # <<>> => new[m - 1] + Len(t[m - 1].data) = w
  <2>1. off[m] + Len(b[m].data) = w
    BY <1>1 DEF Laid
  <2>2. ASSUME t # <<>> PROVE m - 1 \in 1..(m - 1) /\ (m - 1) + 1 = m
    BY <1>2, <1>9, <2>2
  <2> QED
    BY <1>6, <2>1, <2>2
<1>11. Laid(t, new, st, w)
  <2>1. w \in 0..Len(st)
    BY DEF Laid
  <2> QED
    BY <1>2, <1>4, <1>7, <1>8, <1>10, <2>1 DEF Laid
<1>12. Solid(t)
  BY <1>4, <1>6 DEF Solid
<1>13. t # <<>> => ~Drained(t[1])
  <2>1. ASSUME t # <<>> PROVE t[1].start = 0 /\ Len(t[1].data) > 0 /\ Len(t[1].data) \in Nat
    <3>1. 1 \in 1..(m - 1)
      BY <1>2, <1>9, <2>1
    <3> QED
      BY <1>6, <1>8, <3>1
  <2> QED
    BY <2>1 DEF Drained
<1>14. SentUpTo(t, new, w) = SentUpTo(b, off, w)
  <2>1. /\ b[1].start = Len(b[1].data) /\ Len(b[1].data) = ChunkSize
        /\ SentUpTo(b, off, w) = off[1] + Len(b[1].data)
    BY DEF SentUpTo, Drained, Full
  <2>2. CASE t = <<>>
    <3>1. m = 1
      BY <1>2, <1>4, <2>2, EmptySeq
    <3>2. off[1] + Len(b[1].data) = w
      BY <1>1, <3>1 DEF Laid
    <3> QED
      BY <2>1, <2>2, <3>2 DEF SentUpTo
  <2>3. CASE t # <<>>
    <3>1. 1 \in 1..(m - 1) /\ 1 < m /\ 1 \in DOMAIN b /\ 1 + 1 = 2
      BY <1>2, <1>9, <2>3
    <3>2. new[1] = off[2] /\ t[1].start = 0
      BY <1>6, <1>8, <3>1
    <3>3. off[2] = off[1] + ChunkSize
      BY <1>1, <3>1 DEF Laid
    <3>4. new[1] \in Nat
      BY <1>7, <3>1
    <3> QED
      BY <2>1, <2>3, <3>2, <3>3, <3>4 DEF SentUpTo
  <2> QED
    BY <2>2, <2>3
<1> QED
  BY <1>3, <1>11, <1>12, <1>13, <1>14 DEF LeftOf

(* What the view of the first chunk shows: the stream from where it has    *)
(* been sent to the end of the chunk, or nothing, and then all is sent.    *)
LEMMA FirstView ==
  ASSUME NEW b, NEW off, NEW st, NEW w, Laid(b, off, st, w), Solid(b),
         b # <<>> => ~Drained(b[1])
  PROVE  /\ ~HasBuffer(b) => SentUpTo(b, off, w) = w
         /\ HasBuffer(b) => /\ Lies(Unsent(Head(b)), st, SentUpTo(b, off, w))
                            /\ Unsent(Head(b)) # <<>>
                            /\ InFirst(b, off, w, Len(Unsent(Head(b))))
<1>1. CASE b = <<>>
  BY <1>1 DEF SentUpTo, HasBuffer
<1>2. CASE b # <<>>
  <2>1. 1 \in 1..Len(b) /\ 1 \in DOMAIN b /\ Head(b) = b[1] /\ ChunkSize \in Nat
    <3>1. b \in Seq(Chunk) /\ Len(b) \in Nat /\ DOMAIN b = 1..Len(b) /\ Len(b) > 0
      BY <1>2, LaidFacts
    <3> QED
      BY <1>2, <3>1, Bounds
  <2>2. PICK c, p : c = b[1] /\ p = off[1]
    OBVIOUS
  <2>3. /\ c.start \in Nat /\ c.data \in Seq(Unit) /\ Len(c.data) \in Nat /\ p \in Nat
        /\ c.start <= Len(c.data) /\ Len(c.data) <= ChunkSize /\ Lies(c.data, st, p)
    BY <2>1, <2>2, LaidFacts
  <2>4. SentUpTo(b, off, w) = p + c.start
    BY <1>2, <2>2 DEF SentUpTo
  <2>5. CASE ~HasBuffer(b)
    <3>1. c.start = Len(c.data)
      BY <1>2, <2>1, <2>2, <2>3, <2>5 DEF HasBuffer
    <3>2. Len(c.data) # ChunkSize
      BY <1>2, <2>2, <3>1 DEF Drained, Full
    <3>3. 1 = Len(b)
      <4>1. ~(1 < Len(b))
        BY <2>1, <2>2, <3>2 DEF Laid
      <4>2. Len(b) \in Nat
        BY LaidFacts
      <4> QED
        BY <2>1, <4>1, <4>2
    <3>4. p + Len(c.data) = w
      BY <1>2, <2>2, <3>3 DEF Laid
    <3> QED
      BY <2>4, <2>5, <3>1, <3>4
  <2>6. CASE HasBuffer(b)
    <3>1. c.start < Len(c.data)
      BY <2>1, <2>2, <2>6 DEF HasBuffer
    <3>2. PICK v : v = SubSeq(c.data, c.start + 1, Len(c.data))
      OBVIOUS
    <3>3. /\ c.start + 1 \in 1..(Len(c.data) + 1) /\ Len(c.data) \in ((c.start + 1) - 1)..Len(c.data)
          /\ p + (c.start + 1) - 1 = p + c.start
          /\ Len(c.data) - (c.start + 1) + 1 = Len(c.data) - c.start
      BY <2>3, <3>1
    <3>4. Lies(v, st, p + c.start) /\ Len(v) = Len(c.data) - c.start
      <4>1. PICK d, i, l : d = c.data /\ i = c.start + 1 /\ l = Len(d)
        OBVIOUS
      <4>2. Lies(d, st, p) /\ i \in 1..(Len(d) + 1) /\ l \in (i - 1)..Len(d)
        BY <2>3, <3>3, <4>1
      <4>3. Lies(SubSeq(d, i, l), st, p + i - 1) /\ Len(SubSeq(d, i, l)) = l - i + 1
        BY <4>2, LiesWithin
      <4> QED
        BY <3>2, <3>3, <4>1, <4>3
    <3>5. Unsent(Head(b)) = v
      BY <2>1, <2>2, <3>2 DEF Unsent
    <3>6. v # <<>>
      BY <2>3, <3>1, <3>4, EmptySeq
    <3>7. InFirst(b, off, w, Len(v))
      <4>1. (p + c.start) + Len(v) <= p + Len(c.data)
        BY <2>3, <3>4
      <4> QED
        BY <1>2, <2>2, <2>4, <4>1 DEF InFirst
    <3> QED
      BY <2>4, <2>6, <3>4, <3>5, <3>6, <3>7
  <2> QED
    BY <2>5, <2>6
<1> QED
  BY <1>1, <1>2

(* Chunks y hold what b holds, from the same place on, and their first     *)
(* view shows it.                                                          *)
NextView(b, off, st, w, y) ==
    \E new :
       /\ Laid(y, new, st, w) /\ Solid(y)
       /\ SentUpTo(y, new, w) = SentUpTo(b, off, w)
       /\ ~HasBuffer(y) => SentUpTo(b, off, w) = w
       /\ HasBuffer(y) => /\ Lies(Unsent(Head(y)), st, SentUpTo(b, off, w))
                          /\ Unsent(Head(y)) # <<>>
                          /\ InFirst(y, new, w, Len(Unsent(Head(y))))

LEMMA LaidDropped ==
  ASSUME NEW b, NEW off, NEW st, NEW w, Laid(b, off, st, w), Solid(b)
  PROVE  NextView(b, off, st, w, DropDrained(b))
<1>1. PICK y : y = DropDrained(b)
  OBVIOUS
<1>2. \E new : /\ Laid(y, new, st, w) /\ Solid(y)
               /\ SentUpTo(y, new, w) = SentUpTo(b, off, w)
               /\ y # <<>> => ~Drained(y[1])
  <2>1. CASE b # <<>> /\ Drained(b[1])
    <3>1. y = Tail(b)
      BY <1>1, <2>1, DropsFirst
    <3>2. b # <<>> /\ Drained(b[1])
      BY <2>1
    <3>3. LeftOf(b, off, st, w, Tail(b))
      BY <3>2, LaidTail
    <3> QED
      BY <3>1, <3>3 DEF LeftOf
  <2>2. CASE ~(b # <<>> /\ Drained(b[1]))
    <3>1. y = b
      BY <1>1, <2>2, DropsFirst
    <3> QED
      BY <2>2, <3>1
  <2> QED
    BY <2>1, <2>2
<1>3. PICK new : /\ Laid(y, new, st, w) /\ Solid(y)
                 /\ SentUpTo(y, new, w) = SentUpTo(b, off, w)
                 /\ y # <<>> => ~Drained(y[1])
  BY <1>2
<1>4. /\ ~HasBuffer(y) => SentUpTo(y, new, w) = w
      /\ HasBuffer(y) => /\ Lies(Unsent(Head(y)), st, SentUpTo(y, new, w))
                         /\ Unsent(Head(y)) # <<>>
                         /\ InFirst(y, new, w, Len(Unsent(Head(y))))
  BY <1>3, FirstView
<1> QED
  BY <1>1, <1>3, <1>4 DEF NextView

(* OnSendCompleted moves the start of the first chunk. *)
LEMMA LaidAdvanced ==
  ASSUME NEW off, NEW st, NEW w, Laid(chunks, off, st, w), Solid(chunks), NEW n \in Nat,
         InFirst(chunks, off, w, n)
  PROVE  /\ Laid(Advanced(n), off, st, w) /\ Solid(Advanced(n))
         /\ SentUpTo(Advanced(n), off, w) = SentUpTo(chunks, off, w) + n
<1>1. PICK b, m, c, e : b = chunks /\ m = Len(b) /\ c = b[1] /\ e = [c EXCEPT !.start = c.start + n]
  OBVIOUS
<1>2. /\ b \in Seq(Chunk) /\ m \in Nat /\ m > 0 /\ DOMAIN b = 1..m /\ b # <<>> /\ 1 \in 1..m
      /\ st \in Seq(Unit) /\ w \in 0..Len(st) /\ off \in [1..m -> Nat]
  <2>1. b # <<>>
    BY <1>1 DEF InFirst
  <2>2. b \in Seq(Chunk) /\ m \in Nat /\ m > 0 /\ DOMAIN b = 1..m
    BY <1>1, <2>1, LaidFacts
  <2>3. 1 \in 1..m
    BY <2>2
  <2>4. st \in Seq(Unit) /\ w \in 0..Len(st) /\ off \in [1..m -> Nat]
    BY <1>1, <2>2 DEF Laid
  <2> QED
    BY <2>1, <2>2, <2>3, <2>4
<1>3. /\ c \in Chunk /\ c.start \in Nat /\ c.data \in Seq(Unit) /\ Len(c.data) \in Nat
      /\ off[1] \in Nat
  BY <1>1, <1>2, LaidFacts
<1>4. SentUpTo(b, off, w) = off[1] + c.start /\ c.start + n <= Len(c.data)
  <2>1. SentUpTo(b, off, w) = off[1] + c.start
    BY <1>1, <1>2 DEF SentUpTo
  <2>2. off[1] + c.start + n <= off[1] + Len(c.data)
    BY <1>1, <2>1 DEF InFirst
  <2> QED
    BY <1>3, <2>1, <2>2
<1>5. e \in Chunk /\ e.start = c.start + n /\ e.data = c.data
  <2>1. c.start + n \in Nat
    BY <1>3
  <2> QED
    BY <1>1, <1>3, <2>1, OtherStart
<1>6. PICK y : y = Advanced(n)
  OBVIOUS
<1>7. y = [b EXCEPT ![1] = e]
  BY <1>1, <1>2, <1>6 DEF Advanced
<1>8. /\ y \in Seq(Chunk) /\ Len(y) = m /\ DOMAIN y = 1..m /\ y[1] = e /\ y # <<>>
      /\ \A k \in 1..m : k # 1 => y[k] = b[k]
  <2>1. y \in Seq(Chunk) /\ Len(y) = m
    BY <1>1, <1>2, <1>5, <1>7, ExceptSeq
  <2>2. y[1] = e /\ \A k \in 1..m : k # 1 => y[k] = b[k]
    BY <1>2, <1>7
  <2>3. DOMAIN y = 1..m /\ y # <<>>
    BY <1>2, <2>1, LenProperties, EmptySeq
  <2> QED
    BY <2>1, <2>2, <2>3
<1>9. ASSUME NEW k \in 1..m
      PROVE  /\ Lies(y[k].data, st, off[k])
             /\ y[k].start <= Len(y[k].data)
             /\ Len(y[k].data) <= ChunkSize
             /\ k > 1 => y[k].start = 0
             /\ k < m => Len(y[k].data) = ChunkSize /\ off[k + 1] = off[k] + ChunkSize
             /\ y[k].data = b[k].data
  <2>1. /\ Lies(b[k].data, st, off[k]) /\ b[k].start <= Len(b[k].data)
        /\ Len(b[k].data) <= ChunkSize /\ (k > 1 => b[k].start = 0)
        /\ k < m => Len(b[k].data) = ChunkSize /\ off[k + 1] = off[k] + ChunkSize
    BY <1>1, <1>2 DEF Laid
  <2>2. CASE k = 1
    <3>1. y[k] = e /\ b[k] = c /\ e.data = c.data /\ e.start <= Len(c.data)
      BY <1>1, <1>4, <1>5, <1>8, <2>2
    <3>2. ~(k > 1)
      BY <2>2
    <3> QED
      BY <2>1, <3>1, <3>2
  <2>3. CASE k # 1
    BY <1>8, <2>1, <2>3
  <2> QED
    BY <2>2, <2>3
<1>10. off[m] + Len(y[m].data) = w
  <2>1. off[m] + Len(b[m].data) = w /\ m \in 1..m
    BY <1>1, <1>2 DEF Laid
  <2> QED
    BY <1>9, <2>1
<1>11. Laid(y, off, st, w)
  BY <1>2, <1>8, <1>9, <1>10 DEF Laid
<1>12. Solid(y)
  <2>1. \A k \in 1..m : Len(b[k].data) > 0
    BY <1>1, <1>2 DEF Solid
  <2> QED
    BY <1>8, <1>9, <2>1 DEF Solid
<1>13. SentUpTo(y, off, w) = SentUpTo(b, off, w) + n
  BY <1>3, <1>4, <1>5, <1>8 DEF SentUpTo
<1> QED
  BY <1>1, <1>6, <1>11, <1>12, <1>13

-----------------------------------------------------------------------------
(* The mailbox, a value at a time. *)

AnswersOf(q) == {i \in DOMAIN q : q[i].op # "flush"}

LEMMA EntryFacts ==
  /\ \A e \in Entry : e.op \in {"flush", "error", "sent"} /\ (e.op = "sent" => e.n \in Nat \ {0})
  /\ [op |-> "flush"] \in Entry /\ [op |-> "error"] \in Entry
  /\ \A n \in Nat \ {0} : [op |-> "sent", n |-> n] \in Entry
BY DEF Entry

LEMMA AnswersAppend ==
  ASSUME NEW q \in Seq(Entry), NEW e \in Entry
  PROVE  /\ Append(q, e) \in Seq(Entry) /\ Append(q, e) # <<>>
         /\ DOMAIN Append(q, e) = 1..(Len(q) + 1) /\ DOMAIN q = 1..Len(q)
         /\ Append(q, e)[Len(q) + 1] = e
         /\ \A i \in 1..Len(q) : Append(q, e)[i] = q[i]
         /\ e.op = "flush" => AnswersOf(Append(q, e)) = AnswersOf(q)
         /\ e.op # "flush" => AnswersOf(Append(q, e)) = AnswersOf(q) \cup {Len(q) + 1}
<1>1. PICK y, n : y = Append(q, e) /\ n = Len(q)
  OBVIOUS
<1>2. /\ y \in Seq(Entry) /\ y # <<>> /\ Len(y) = n + 1 /\ n \in Nat
      /\ y[n + 1] = e /\ \A i \in 1..n : y[i] = q[i]
  BY <1>1, AppendProperties, LenProperties
<1>3. DOMAIN y = 1..(n + 1) /\ DOMAIN q = 1..n
  BY <1>1, <1>2, LenProperties
<1>4. 1..(n + 1) = (1..n) \cup {n + 1} /\ n + 1 \notin 1..n
  BY <1>2
<1>5. e.op = "flush" => AnswersOf(y) = AnswersOf(q)
  BY <1>2, <1>3, <1>4 DEF AnswersOf
<1>6. e.op # "flush" => AnswersOf(y) = AnswersOf(q) \cup {n + 1}
  BY <1>2, <1>3, <1>4 DEF AnswersOf
<1> QED
  BY <1>1, <1>2, <1>3, <1>5, <1>6

LEMMA AnswersTail ==
  ASSUME NEW q \in Seq(Entry), q # <<>>, \A i, j \in AnswersOf(q) : i = j
  PROVE  /\ Tail(q) \in Seq(Entry) /\ Head(q) \in Entry /\ Head(q) = q[1] /\ 1 \in DOMAIN q
         /\ \A i \in DOMAIN Tail(q) : i + 1 \in DOMAIN q /\ Tail(q)[i] = q[i + 1]
         /\ \A i \in DOMAIN q : i # 1 => i - 1 \in DOMAIN Tail(q) /\ Tail(q)[i - 1] = q[i]
         /\ \A i, j \in AnswersOf(Tail(q)) : i = j
         /\ Head(q).op = "flush" => (AnswersOf(Tail(q)) = {} <=> AnswersOf(q) = {})
         /\ Head(q).op # "flush" => AnswersOf(Tail(q)) = {} /\ 1 \in AnswersOf(q)
<1>1. PICK y, n : y = Tail(q) /\ n = Len(q)
  OBVIOUS
<1>2. /\ y \in Seq(Entry) /\ n \in Nat /\ n > 0 /\ DOMAIN q = 1..n /\ Len(y) = n - 1
      /\ Head(q) \in Entry /\ Head(q) = q[1]
      /\ \A i \in 1..Len(y) : y[i] = q[i + 1]
  BY <1>1, HeadTailProperties, LenProperties, EmptySeq
<1>3. DOMAIN y = 1..(n - 1)
  BY <1>2, LenProperties
<1>4. 1 \in DOMAIN q
  BY <1>2
<1>5. ASSUME NEW i \in DOMAIN y PROVE i + 1 \in DOMAIN q /\ y[i] = q[i + 1] /\ i + 1 # 1 /\ i \in Int
  BY <1>2, <1>3
<1>6. ASSUME NEW i \in DOMAIN q, i # 1 PROVE i - 1 \in DOMAIN y /\ (i - 1) + 1 = i /\ y[i - 1] = q[i]
  <2>1. i - 1 \in 1..(n - 1) /\ (i - 1) + 1 = i
    BY <1>2, <1>6
  <2> QED
    BY <1>5, <1>3, <2>1
<1>7. ASSUME NEW i \in AnswersOf(y) PROVE i + 1 \in AnswersOf(q) /\ i + 1 # 1 /\ i \in Int
  BY <1>5 DEF AnswersOf
<1>8. ASSUME NEW i \in AnswersOf(y), NEW j \in AnswersOf(y) PROVE i = j
  <2>1. i + 1 = j + 1
    BY <1>7
  <2> QED
    BY <1>7, <2>1
<1>9. ASSUME q[1].op = "flush" PROVE AnswersOf(y) = {} <=> AnswersOf(q) = {}
  <2>1. ASSUME NEW i \in AnswersOf(q) PROVE i - 1 \in AnswersOf(y)
    BY <1>6, <1>9 DEF AnswersOf
  <2> QED
    BY <1>7, <2>1
<1>10. ASSUME q[1].op # "flush" PROVE AnswersOf(y) = {} /\ 1 \in AnswersOf(q)
  <2>1. 1 \in AnswersOf(q)
    BY <1>4, <1>10 DEF AnswersOf
  <2> QED
    BY <1>7, <2>1
<1> QED
  BY <1>1, <1>2, <1>4, <1>5, <1>6, <1>8, <1>9, <1>10

LEMMA AnswersHere == Answers = AnswersOf(mailbox)
BY DEF Answers, AnswersOf

-----------------------------------------------------------------------------
(* Each step keeps the invariant. *)

LEMMA SendInitial == Init => SendInv
<1> SUFFICES ASSUME Init PROVE SendInv
  OBVIOUS
<1>1. TypeOK
  <2>1. /\ <<>> \in Seq(Message) /\ <<>> \in Seq(Entry) /\ <<>> \in Seq(Unit)
        /\ <<>> \in Seq(Chunk) /\ <<>> \in Seq(Seq(Unit) \ {<<>>}) /\ DOMAIN <<>> = {}
    BY EmptySeq
  <2>2. 0 \in 0..MaxSend
    BY Bounds
  <2>3. sent \in [Senders -> 0..MaxSend] /\ pc \in [Senders -> {"idle", "link", "count"}]
    BY <2>2 DEF Init
  <2>4. /\ pending \in Seq(Message) /\ mailbox \in Seq(Entry)
        /\ unwritten \in Seq(Unit) /\ stream \in Seq(Unit) /\ wire \in Seq(Unit)
        /\ chunks \in Seq(Chunk) /\ DOMAIN chunks = {} /\ writes \in Seq(Seq(Unit) \ {<<>>})
    <3>1. PICK e : e = <<>>
      OBVIOUS
    <3>2. /\ pending = e /\ mailbox = e /\ unwritten = e /\ stream = e /\ wire = e
          /\ chunks = e /\ writes = e
      BY <3>1 DEF Init
    <3>3. /\ e \in Seq(Message) /\ e \in Seq(Entry) /\ e \in Seq(Unit)
          /\ e \in Seq(Chunk) /\ DOMAIN e = {}
      BY <2>1, <3>1
    <3>4. PICK S : S = Seq(Unit) \ {<<>>}
      OBVIOUS
    <3>5. e \in Seq(S)
      BY <3>1, EmptySeq
    <3> QED
      BY <3>2, <3>3, <3>4, <3>5
  <2>5. count \in Int /\ taken \in Nat /\ popped \in Nat
    BY SMT DEF Init
  <2>6. /\ flushing \in BOOLEAN /\ sending \in BOOLEAN /\ open \in BOOLEAN
        /\ asserted \in BOOLEAN /\ overlapped \in BOOLEAN /\ drained \in BOOLEAN
    BY Zenon DEF Init
  <2> QED
    BY <2>3, <2>4, <2>5, <2>6 DEF TypeOK
<1>2. <<>> \in Seq(Unit) /\ Len(<<>>) = 0 /\ DOMAIN <<>> = {}
  BY EmptySeq
<1>3. Answers = {} /\ Written = 0
  BY <1>2 DEF Init, Answers, Written
<1>4. OneWrite
  BY <1>2, <1>3 DEF Init, OneWrite
<1>5. Lies(<<>>, <<>>, 0)
  <2>1. 0 \in 0..Len(<<>>)
    BY <1>2
  <2> QED
    BY <1>2, <2>1, LiesNothing
<1>6. WireInv
  <2>1. PICK off : off = [k \in {} |-> 0]
    OBVIOUS
  <2>2. off \in [{} -> Nat] /\ <<>> \in Seq(Chunk) /\ 0 \in 0..0
    BY <2>1, EmptySeq
  <2>3. Laid(<<>>, off, <<>>, 0)
    BY <1>2, <2>2 DEF Laid
  <2>4. Solid(<<>>) /\ SentUpTo(<<>>, off, 0) = 0
    BY <1>2 DEF Solid, SentUpTo
  <2>5. Placed(off)
    BY <1>2, <1>3, <2>3, <2>4 DEF Init, Placed
  <2> QED
    BY <1>2, <1>3, <1>5, <2>5 DEF Init, WireInv
<1>7. CountInv
  <2>1. Mid = 0 /\ Uncounted = 0
    BY DEF Init, Mid, Uncounted
  <2> QED
    BY <1>2, <2>1, Bounds DEF Init, CountInv, Orderly
<1> QED
  BY <1>1, <1>4, <1>6, <1>7 DEF SendInv

(* WireInv and OneWrite are about the actor, the socket and what has been  *)
(* posted: the pushes leave them alone.                                    *)
LEMMA WireElsewhere ==
  ASSUME WireInv, OneWrite,
         UNCHANGED <<mailbox, flushing, popped, drained, streamVars, peerVars>>
  PROVE  WireInv' /\ OneWrite'
<1>1. Written' = Written /\ Answers' = Answers
  BY DEF Written, Answers, streamVars, peerVars
<1>2. OneWrite'
  BY <1>1 DEF OneWrite, streamVars, peerVars
<1>3. ASSUME NEW off, Placed(off) PROVE Placed(off)'
  BY <1>1, <1>3 DEF Placed, streamVars, peerVars
<1>4. WireInv'
  BY <1>1, <1>3 DEF WireInv, streamVars, peerVars
<1> QED
  BY <1>2, <1>4

LEMMA SendPushKeeps ==
  ASSUME SendInv, NEW t \in Senders, SendPush(t)
  PROVE  SendInv'
<1>1. /\ pc[t] = "idle" /\ sent[t] < MaxSend /\ (t = Self => ~flushing)
      /\ sent' = [sent EXCEPT ![t] = @ + 1]
      /\ pending' = Append(pending, <<t, sent[t] + 1>>)
      /\ pc' = [pc EXCEPT ![t] = "link"]
      /\ overlapped' = (overlapped \/ \E u \in Senders \ {t} : pc[u] # "idle")
      /\ UNCHANGED <<count, mailbox, flushing, popped, drained, streamVars, peerVars>>
  BY DEF SendPush, Free
<1>2. PICK n, k : n = Len(pending) /\ k = sent[t] + 1
  OBVIOUS
<1>3. /\ pc \in [Senders -> {"idle", "link", "count"}] /\ sent \in [Senders -> 0..MaxSend]
      /\ pending \in Seq(Message) /\ n \in Nat /\ DOMAIN pending = 1..n /\ MaxSend \in Nat
  BY <1>2, LenProperties, Bounds DEF SendInv, TypeOK
<1>4. sent[t] \in 0..MaxSend /\ k \in 1..MaxSend /\ k \in 0..MaxSend
  BY <1>1, <1>2, <1>3
<1>5. <<t, k>> \in Message
  BY <1>4 DEF Message
<1>6. PICK q, m : q = Append(pending, m) /\ m = <<t, k>>
  OBVIOUS
<1>7. /\ pending' = q /\ q \in Seq(Message) /\ Len(q) = n + 1 /\ DOMAIN q = 1..(n + 1)
      /\ q[n + 1] = m /\ \A i \in 1..n : q[i] = pending[i]
  BY <1>1, <1>2, <1>3, <1>5, <1>6, AppendProperties, LenProperties
<1>8. /\ pc' \in [Senders -> {"idle", "link", "count"}] /\ sent' \in [Senders -> 0..MaxSend]
      /\ pc'[t] = "link" /\ sent'[t] = k
      /\ \A u \in Senders : u # t => pc'[u] = pc[u] /\ sent'[u] = sent[u]
  BY <1>1, <1>2, <1>3, <1>4
<1>9. TypeOK'
  <2>1. overlapped' \in BOOLEAN
    BY <1>1
  <2> QED
    BY <1>1, <1>7, <1>8, <2>1 DEF SendInv, TypeOK, streamVars, peerVars
<1>10. WireInv' /\ OneWrite'
  <2>1. UNCHANGED <<mailbox, flushing, popped, drained, streamVars, peerVars>>
    BY <1>1
  <2> QED
    BY <2>1, WireElsewhere DEF SendInv
<1>11. \A i \in 1..n : pending[i] \in Message /\ pending[i][1] \in Senders /\ pending[i][2] \in Nat
  <2>1. \A i \in 1..n : pending[i] \in Message
    BY <1>2, <1>3, ElementOfSeq
  <2> QED
    BY <1>3, <2>1 DEF Message
<1>12. \A i \in 1..n : pending[i][2] <= sent[pending[i][1]]
  BY <1>3 DEF SendInv, CountInv
<1>13. ASSUME NEW i \in 1..(n + 1) PROVE q[i][2] <= sent'[q[i][1]]
  <2>1. CASE i = n + 1
    BY <1>4, <1>6, <1>7, <1>8, <2>1
  <2>2. CASE i # n + 1
    <3>1. i \in 1..n
      BY <1>3, <2>2
    <3>2. PICK u, j : u = pending[i][1] /\ j = pending[i][2]
      OBVIOUS
    <3>3. u \in Senders /\ j \in Nat /\ j <= sent[u] /\ q[i] = pending[i] /\ sent[u] \in Nat
      BY <1>3, <1>7, <1>11, <1>12, <3>1, <3>2
    <3>4. j <= sent'[u]
      <4>1. CASE u = t
        <5>1. sent'[u] = sent[u] + 1
          BY <1>2, <1>8, <4>1
        <5> QED
          BY <3>3, <5>1
      <4>2. CASE u # t
        BY <1>8, <3>3, <4>2
      <4> QED
        BY <4>1, <4>2
    <3> QED
      BY <3>2, <3>3, <3>4
  <2> QED
    BY <2>1, <2>2
<1>14. ASSUME ~overlapped' PROVE Orderly'
  <2>1. /\ \A u \in Senders : pc[u] = "idle"
        /\ Orderly
    BY <1>1, <1>14 DEF SendInv, CountInv
  <2>2. \A u \in Senders : pc'[u] # "idle" => u = t
    BY <1>8, <2>1
  <2>3. ASSUME NEW i \in 1..(n + 1), ~Linked(q[i])' PROVE i = n + 1
    <3>1. SUFFICES ASSUME i # n + 1 PROVE FALSE
      OBVIOUS
    <3>2. i \in 1..n
      BY <1>3, <3>1
    <3>3. PICK u, j : u = pending[i][1] /\ j = pending[i][2]
      OBVIOUS
    <3>4. u \in Senders /\ j \in Nat /\ j <= sent[u] /\ q[i] = pending[i]
      BY <1>7, <1>11, <1>12, <3>2, <3>3
    <3>5. pc'[u] = "link" /\ j = sent'[u]
      BY <2>3, <3>3, <3>4 DEF Linked
    <3>6. u = t
      BY <2>2, <3>4, <3>5
    <3> QED
      BY <1>2, <1>4, <1>8, <3>4, <3>5, <3>6
  <2>4. Mid = 0 /\ Mid' = 1 /\ Uncounted' = Uncounted /\ (FlushDue' <=> FlushDue)
    <3>1. Mid = 0
      BY <2>1 DEF Mid
    <3>2. Mid' = 1
      BY <1>8 DEF Mid
    <3> QED
      BY <1>1, <3>1, <3>2 DEF Uncounted, FlushDue
  <2>5. count' = Len(q) - taken' - Mid' + Uncounted'
    <3>1. count \in Int /\ taken \in Nat /\ Uncounted \in Nat /\ Uncounted' = Uncounted
      BY <2>4 DEF SendInv, TypeOK, Uncounted
    <3>2. count = n - taken - 0 + Uncounted /\ count' = count /\ taken' = taken
      BY <1>1, <1>2, <2>1, <2>4 DEF Orderly, peerVars
    <3> QED
      BY <1>3, <1>7, <2>4, <3>1, <3>2
  <2>6. count' > 0 => FlushDue'
    BY <1>1, <2>1, <2>4 DEF Orderly
  <2> QED
    BY <1>7, <2>2, <2>3, <2>5, <2>6 DEF Orderly
<1>15. CountInv'
  <2>1. pc'[Self] # "idle" => ~flushing'
    BY <1>1, <1>8, Bounds DEF SendInv, CountInv
  <2>2. (drained' => flushing') /\ (flushing' => popped' <= taken')
    BY <1>1 DEF SendInv, CountInv, peerVars
  <2> QED
    BY <1>7, <1>13, <1>14, <2>1, <2>2 DEF CountInv
<1> QED
  BY <1>9, <1>10, <1>15 DEF SendInv

LEMMA SendLinkKeeps ==
  ASSUME SendInv, NEW t \in Senders, SendLink(t)
  PROVE  SendInv'
<1>1. /\ pc[t] = "link" /\ pc' = [pc EXCEPT ![t] = "count"]
      /\ UNCHANGED <<sent, queueVars, mailbox, flushing, popped, drained, streamVars, peerVars,
                     overlapped>>
  BY DEF SendLink
<1>2. pc \in [Senders -> {"idle", "link", "count"}]
  BY DEF SendInv, TypeOK
<1>3. /\ pc' \in [Senders -> {"idle", "link", "count"}] /\ pc'[t] = "count"
      /\ \A u \in Senders : u # t => pc'[u] = pc[u]
      /\ \A u \in Senders : pc'[u] # "idle" <=> pc[u] # "idle"
      /\ \A u \in Senders : pc'[u] = "link" => pc[u] = "link"
  BY <1>1, <1>2
<1>4. TypeOK'
  BY <1>1, <1>3 DEF SendInv, TypeOK, queueVars, streamVars, peerVars
<1>5. WireInv' /\ OneWrite'
  <2>1. UNCHANGED <<mailbox, flushing, popped, drained, streamVars, peerVars>>
    BY <1>1
  <2> QED
    BY <2>1, WireElsewhere DEF SendInv
<1>6. ASSUME NEW i \in DOMAIN pending, Linked(pending[i]) PROVE Linked(pending[i])'
  <2>1. PICK m : m = pending[i]
    OBVIOUS
  <2>2. m[1] \in Senders
    <3>1. pending \in Seq(Message) /\ DOMAIN pending = 1..Len(pending)
      BY LenProperties DEF SendInv, TypeOK
    <3>2. m \in Message
      BY <2>1, <3>1, ElementOfSeq
    <3> QED
      BY <3>2 DEF Message
  <2>3. ~(pc'[m[1]] = "link" /\ m[2] = sent[m[1]])
    BY <1>3, <1>6, <2>1, <2>2 DEF Linked
  <2> QED
    BY <1>1, <2>1, <2>3 DEF Linked, queueVars
<1>7. Mid' = Mid /\ Uncounted' = Uncounted /\ (FlushDue' <=> FlushDue)
  <2>1. Mid' = Mid
    BY <1>3 DEF Mid
  <2> QED
    BY <1>1, <2>1 DEF Uncounted, FlushDue
<1>8. Orderly => Orderly'
  <2> SUFFICES ASSUME Orderly PROVE Orderly'
    OBVIOUS
  <2>1. \A u, v \in Senders : pc'[u] # "idle" /\ pc'[v] # "idle" => u = v
    BY <1>3 DEF Orderly
  <2>2. \A i \in DOMAIN pending : ~Linked(pending[i])' => i = Len(pending)
    BY <1>6 DEF Orderly
  <2>3. count' = Len(pending') - taken' - Mid' + Uncounted' /\ (count' > 0 => FlushDue')
    BY <1>1, <1>7 DEF Orderly, queueVars, peerVars
  <2> QED
    BY <1>1, <2>1, <2>2, <2>3 DEF Orderly, queueVars
<1>9. CountInv'
  BY <1>1, <1>3, <1>8, Bounds DEF SendInv, CountInv, queueVars, peerVars
<1> QED
  BY <1>4, <1>5, <1>9 DEF SendInv

(* What is posted or taken from the mailbox, save a completion, moves no   *)
(* unit.                                                                   *)
LEMMA WireAsPosted ==
  ASSUME WireInv, UNCHANGED <<drained, unwritten, chunks, sending, writes, asserted, peerVars>>,
         \/ flushing' = flushing /\ popped' = popped
         \/ flushing' /\ popped' = 0,
         \A i \in DOMAIN mailbox' : mailbox'[i].op = "sent" =>
            \E j \in DOMAIN mailbox : mailbox[j] = mailbox'[i]
  PROVE  WireInv'
<1>1. Written' = Written
  BY DEF Written, peerVars
<1>2. ASSUME NEW off, Placed(off) PROVE Placed(off)'
  <2>1. PICK p, w : p = SentUpTo(chunks, off, Written) /\ w = Written
    OBVIOUS
  <2>2. SentUpTo(chunks, off, Written)' = p
    BY <1>1, <2>1 DEF SentUpTo
  <2>3. ASSUME NEW i \in DOMAIN mailbox', mailbox'[i].op = "sent"
        PROVE  Len(wire) = p + mailbox'[i].n /\ InFirst(chunks, off, w, mailbox'[i].n)
    <3>1. PICK j \in DOMAIN mailbox : mailbox[j] = mailbox'[i]
      BY <2>3
    <3>2. Len(wire) = p + mailbox[j].n /\ InFirst(chunks, off, w, mailbox[j].n)
      BY <1>2, <2>1, <2>3, <3>1 DEF Placed
    <3> QED
      BY <3>1, <3>2
  <2>4. /\ chunks' = chunks /\ stream' = stream /\ wire' = wire /\ writes' = writes
        /\ sending' = sending
    BY DEF peerVars
  <2>5. /\ Laid(chunks, off, stream, w) /\ Solid(chunks)
        /\ \A i \in DOMAIN writes : /\ Len(wire) = p
                                    /\ Lies(writes[i], stream, p)
                                    /\ InFirst(chunks, off, w, Len(writes[i]))
        /\ ~sending => Len(wire) = p
    BY <1>2, <2>1 DEF Placed
  <2>6. InFirst(chunks, off, Written, 0)' <=> InFirst(chunks, off, w, 0)
    BY <1>1, <2>1, <2>4
  <2> QED
    BY <1>1, <2>1, <2>2, <2>3, <2>4, <2>5 DEF Placed
<1>3. PICK off : Placed(off)
  BY DEF WireInv
<1>4. Placed(off)'
  BY <1>2, <1>3
<1> QED
  BY <1>1, <1>4 DEF WireInv, peerVars

LEMMA SendCountKeeps ==
  ASSUME SendInv, NEW t \in Senders, SendCount(t)
  PROVE  SendInv'
<1>1. /\ pc[t] = "count" /\ count' = count + 1 /\ PostFlush(t, count = 0)
      /\ pc' = [pc EXCEPT ![t] = "idle"]
      /\ UNCHANGED <<sent, pending, drained, streamVars, peerVars, overlapped>>
  BY DEF SendCount
<1>2. /\ pc \in [Senders -> {"idle", "link", "count"}] /\ mailbox \in Seq(Entry)
      /\ count \in Int /\ popped \in Nat /\ flushing \in BOOLEAN
      /\ t = Self => ~flushing
  BY <1>1 DEF SendInv, TypeOK, CountInv
<1>3. /\ pc' \in [Senders -> {"idle", "link", "count"}] /\ pc'[t] = "idle"
      /\ \A u \in Senders : u # t => pc'[u] = pc[u]
      /\ \A u \in Senders : pc'[u] = "link" => pc[u] = "link"
  BY <1>1, <1>2
<1>4. PICK e : e = [op |-> "flush"]
  OBVIOUS
<1>5. e \in Entry /\ e.op = "flush"
  BY <1>4, EntryFacts
<1>6. PICK q : q = mailbox'
  OBVIOUS
<1>7. \/ q = mailbox /\ flushing' = flushing /\ popped' = popped /\ count # 0
      \/ q = mailbox /\ flushing' = TRUE /\ popped' = 0 /\ t = Self
      \/ q = Append(mailbox, e) /\ flushing' = flushing /\ popped' = popped
  BY <1>1, <1>4, <1>6 DEF PostFlush
<1>8. /\ q \in Seq(Entry) /\ AnswersOf(q) = AnswersOf(mailbox)
      /\ \A i \in DOMAIN q : q[i].op = "sent" => i \in DOMAIN mailbox /\ mailbox[i] = q[i]
      /\ \A i \in DOMAIN mailbox : i \in DOMAIN q /\ mailbox[i] = q[i]
      /\ q # mailbox => \E i \in DOMAIN q : q[i].op = "flush"
  <2>1. CASE q = mailbox
    BY <1>2, <2>1
  <2>2. CASE q = Append(mailbox, e)
    <3>1. /\ q \in Seq(Entry) /\ AnswersOf(q) = AnswersOf(mailbox)
          /\ DOMAIN q = 1..(Len(mailbox) + 1) /\ DOMAIN mailbox = 1..Len(mailbox)
          /\ q[Len(mailbox) + 1] = e /\ \A i \in 1..Len(mailbox) : q[i] = mailbox[i]
      BY <1>2, <1>5, <2>2, AnswersAppend
    <3>2. Len(mailbox) \in Nat
      BY <1>2, LenProperties
    <3>3. 1..(Len(mailbox) + 1) = (1..Len(mailbox)) \cup {Len(mailbox) + 1}
      BY <3>2
    <3> QED
      BY <1>5, <3>1, <3>3
  <2> QED
    BY <1>7, <2>1, <2>2
<1>9. TypeOK'
  <2>1. popped' \in Nat /\ count' \in Int
    BY <1>1, <1>2, <1>7
  <2>2. flushing' \in BOOLEAN
    BY <1>2, <1>7, Zenon
  <2> QED
    BY <1>1, <1>3, <1>6, <1>8, <2>1, <2>2 DEF SendInv, TypeOK, streamVars, peerVars
<1>10. WireInv'
  <2>1. UNCHANGED <<drained, unwritten, chunks, sending, writes, asserted, peerVars>>
    BY <1>1 DEF streamVars
  <2>2. (flushing' = flushing /\ popped' = popped) \/ (flushing' /\ popped' = 0)
    BY <1>7
  <2>3. \A i \in DOMAIN mailbox' : mailbox'[i].op = "sent" =>
           \E j \in DOMAIN mailbox : mailbox[j] = mailbox'[i]
    BY <1>6, <1>8
  <2> QED
    BY <2>1, <2>2, <2>3, WireAsPosted DEF SendInv
<1>11. OneWrite'
  <2>1. Answers' = Answers
    BY <1>6, <1>8 DEF Answers, AnswersOf
  <2> QED
    BY <1>1, <2>1 DEF SendInv, OneWrite, streamVars
<1>12. ASSUME Orderly PROVE Orderly'
  <2>1. \A u \in Senders : pc'[u] = "idle"
    BY <1>1, <1>3, <1>12 DEF Orderly
  <2>2. \A i \in DOMAIN pending : Linked(pending[i])'
    <3>1. \A i \in DOMAIN pending : pending[i][1] \in Senders
      <4>1. pending \in Seq(Message) /\ DOMAIN pending = 1..Len(pending)
        BY LenProperties DEF SendInv, TypeOK
      <4>2. \A i \in DOMAIN pending : pending[i] \in Message
        BY <4>1, ElementOfSeq
      <4> QED
        BY <4>2 DEF Message
    <3> QED
      BY <1>1, <2>1, <3>1 DEF Linked
  <2>3. Mid = 1 /\ Mid' = 0
    BY <1>1, <2>1 DEF Mid
  <2>4. Uncounted' = Uncounted
    <3>1. t = Self => Uncounted = 0
      BY <1>2 DEF Uncounted
    <3> QED
      BY <1>7, <3>1 DEF Uncounted
  <2>5. count' = Len(pending') - taken' - Mid' + Uncounted'
    <3>1. taken \in Nat /\ Len(pending) \in Nat /\ Uncounted \in Nat
      BY <1>2, LenProperties DEF SendInv, TypeOK, Uncounted
    <3>2. count = Len(pending) - taken - 1 + Uncounted
      BY <1>12, <2>3 DEF Orderly
    <3>3. taken' = taken /\ Len(pending') = Len(pending)
      BY <1>1 DEF peerVars
    <3> QED
      BY <1>1, <2>3, <2>4, <3>1, <3>2, <3>3
  <2>6. count' > 0 => FlushDue'
    <3>1. CASE q = mailbox /\ flushing' = flushing /\ count # 0
      <4>1. count > 0 => FlushDue
        BY <1>12 DEF Orderly
      <4>2. FlushDue' <=> FlushDue
        BY <1>1, <1>6, <3>1 DEF FlushDue
      <4> QED
        BY <1>1, <1>2, <3>1, <4>1, <4>2
    <3>2. CASE flushing' /\ t = Self
      <4>1. ~drained'
        BY <1>1, <1>2, <3>2 DEF SendInv, CountInv
      <4> QED
        BY <3>2, <4>1 DEF FlushDue
    <3>3. CASE q # mailbox
      BY <1>6, <1>8, <3>3 DEF FlushDue
    <3> QED
      BY <1>7, <3>1, <3>2, <3>3
  <2> QED
    BY <1>1, <2>1, <2>2, <2>5, <2>6 DEF Orderly
<1>13. CountInv'
  <2>1. pc'[Self] # "idle" => ~flushing'
    BY <1>3, <1>7, Bounds DEF SendInv, CountInv
  <2>2. drained' => flushing'
    <3>1. drained' = drained /\ (drained => flushing)
      BY <1>1 DEF SendInv, CountInv
    <3>2. flushing' = flushing \/ flushing' = TRUE
      BY <1>7
    <3> QED
      BY <3>1, <3>2, Zenon
  <2>3. flushing' => popped' <= taken'
    <3>1. taken \in Nat /\ taken' = taken /\ (flushing => popped <= taken)
      BY <1>1 DEF SendInv, TypeOK, CountInv, peerVars
    <3>2. CASE flushing' = flushing /\ popped' = popped
      BY <3>1, <3>2
    <3>3. CASE popped' = 0
      BY <3>1, <3>3
    <3> QED
      BY <1>7, <3>1, <3>2, <3>3
  <2> QED
    BY <1>1, <1>12, <2>1, <2>2, <2>3 DEF SendInv, CountInv
<1> QED
  BY <1>9, <1>10, <1>11, <1>13 DEF SendInv

LEMMA CountElsewhere ==
  ASSUME CountInv, UNCHANGED <<senderVars, queueVars, taken, overlapped>>,
         Uncounted' = Uncounted, FlushDue => FlushDue', pc[Self] # "idle" => ~flushing',
         drained' = drained,
         \/ flushing' = flushing /\ popped' = popped
         \/ ~flushing /\ flushing' /\ popped' = 0 /\ taken \in Nat
  PROVE  CountInv'
<1>1. /\ pc' = pc /\ sent' = sent /\ pending' = pending /\ count' = count
      /\ taken' = taken /\ overlapped' = overlapped
  BY DEF senderVars, queueVars
<1>2. \A i \in DOMAIN pending : Linked(pending[i])' <=> Linked(pending[i])
  BY <1>1 DEF Linked
<1>3. Mid' = Mid
  BY <1>1 DEF Mid
<1>4. Orderly => Orderly'
  BY <1>1, <1>2, <1>3 DEF Orderly
<1>5. (drained' => flushing') /\ (flushing' => popped' <= taken')
  BY <1>1 DEF CountInv
<1> QED
  BY <1>1, <1>4, <1>5 DEF CountInv

LEMMA RunFlushKeeps ==
  ASSUME SendInv, RunFlush
  PROVE  SendInv'
<1>1. /\ ~flushing /\ pc[Self] = "idle" /\ mailbox # <<>> /\ Head(mailbox).op = "flush"
      /\ mailbox' = Tail(mailbox) /\ flushing' = TRUE /\ popped' = 0
      /\ UNCHANGED <<senderVars, queueVars, drained, streamVars, peerVars, overlapped>>
  BY DEF RunFlush, Free
<1>2. PICK q : q = Tail(mailbox)
  OBVIOUS
<1>3. mailbox \in Seq(Entry) /\ \A i, j \in AnswersOf(mailbox) : i = j
  BY AnswersHere DEF SendInv, TypeOK, OneWrite
<1>4. /\ q \in Seq(Entry) /\ mailbox' = q
      /\ \A i \in DOMAIN q : i + 1 \in DOMAIN mailbox /\ q[i] = mailbox[i + 1]
      /\ \A i, j \in AnswersOf(q) : i = j
      /\ AnswersOf(q) = {} <=> AnswersOf(mailbox) = {}
  BY <1>1, <1>2, <1>3, AnswersTail
<1>5. TypeOK'
  <2>1. popped' \in Nat
    BY <1>1
  <2>2. flushing' \in BOOLEAN
    BY <1>1, Zenon
  <2> QED
    BY <1>1, <1>4, <2>1, <2>2 DEF SendInv, TypeOK, senderVars, queueVars, streamVars, peerVars
<1>6. WireInv'
  <2>1. UNCHANGED <<drained, unwritten, chunks, sending, writes, asserted, peerVars>>
    BY <1>1 DEF streamVars
  <2>2. \A i \in DOMAIN mailbox' : \E j \in DOMAIN mailbox : mailbox[j] = mailbox'[i]
    BY <1>4
  <2> QED
    BY <1>1, <2>1, <2>2, WireAsPosted DEF SendInv
<1>7. OneWrite'
  <2>1. Answers' = AnswersOf(q)
    BY <1>4 DEF Answers, AnswersOf
  <2> QED
    BY <1>1, <1>4, <2>1, AnswersHere DEF SendInv, OneWrite, streamVars
<1>8. CountInv'
  <2>1. Uncounted' = Uncounted /\ FlushDue'
    <3>1. ~drained'
      BY <1>1 DEF SendInv, CountInv
    <3> QED
      BY <1>1, <3>1 DEF Uncounted, FlushDue
  <2>2. UNCHANGED <<senderVars, queueVars, taken, overlapped>> /\ taken \in Nat
    BY <1>1 DEF SendInv, TypeOK, peerVars
  <2> QED
    BY <1>1, <2>1, <2>2, CountElsewhere DEF SendInv
<1> QED
  BY <1>5, <1>6, <1>7, <1>8 DEF SendInv

LEMMA OnSendFailedKeeps ==
  ASSUME SendInv, OnSendFailed
  PROVE  SendInv'
<1>1. /\ mailbox # <<>> /\ Head(mailbox).op = "error"
      /\ mailbox' = Tail(mailbox) /\ open' = FALSE
      /\ UNCHANGED <<senderVars, queueVars, flushing, popped, drained, unwritten, chunks,
                     sending, writes, asserted, peerVars, overlapped>>
  BY DEF OnSendFailed
<1>2. PICK q : q = Tail(mailbox)
  OBVIOUS
<1>3. mailbox \in Seq(Entry) /\ \A i, j \in AnswersOf(mailbox) : i = j
  BY AnswersHere DEF SendInv, TypeOK, OneWrite
<1>4. /\ q \in Seq(Entry) /\ mailbox' = q
      /\ \A i \in DOMAIN q : i + 1 \in DOMAIN mailbox /\ q[i] = mailbox[i + 1]
      /\ \A i \in DOMAIN mailbox : i # 1 => i - 1 \in DOMAIN q /\ q[i - 1] = mailbox[i]
      /\ mailbox[1].op = "error"
      /\ AnswersOf(q) = {} /\ 1 \in AnswersOf(mailbox)
  BY <1>1, <1>2, <1>3, AnswersTail
<1>5. TypeOK'
  <2>1. open' \in BOOLEAN
    BY <1>1, Zenon
  <2> QED
    BY <1>1, <1>4, <2>1 DEF SendInv, TypeOK, senderVars, queueVars, peerVars
<1>6. WireInv'
  <2>1. UNCHANGED <<drained, unwritten, chunks, sending, writes, asserted, peerVars>>
    BY <1>1
  <2>2. \A i \in DOMAIN mailbox' : \E j \in DOMAIN mailbox : mailbox[j] = mailbox'[i]
    BY <1>4
  <2> QED
    BY <1>1, <2>1, <2>2, WireAsPosted DEF SendInv
<1>7. OneWrite'
  <2>1. Answers' = AnswersOf(q)
    BY <1>4 DEF Answers, AnswersOf
  <2>2. Answers # {} /\ writes = <<>> /\ sending
    BY <1>4, AnswersHere DEF SendInv, OneWrite
  <2> QED
    BY <1>1, <1>4, <2>1, <2>2 DEF SendInv, OneWrite
<1>8. CountInv'
  <2>1. FlushDue => FlushDue'
    <3>1. ASSUME NEW i \in DOMAIN mailbox, mailbox[i].op = "flush"
          PROVE  \E j \in DOMAIN q : q[j].op = "flush"
      BY <1>4, <3>1
    <3> QED
      BY <1>1, <1>4, <3>1 DEF FlushDue
  <2>2. Uncounted' = Uncounted
    BY <1>1 DEF Uncounted
  <2>3. pc[Self] # "idle" => ~flushing'
    BY <1>1 DEF SendInv, CountInv
  <2>4. UNCHANGED <<senderVars, queueVars, taken, overlapped>>
    BY <1>1 DEF peerVars
  <2> QED
    BY <1>1, <2>1, <2>2, <2>3, <2>4, CountElsewhere DEF SendInv
<1> QED
  BY <1>5, <1>6, <1>7, <1>8 DEF SendInv

LEMMA DisconnectKeeps ==
  ASSUME SendInv, Disconnect
  PROVE  SendInv'
<1>1. /\ open' = FALSE
      /\ UNCHANGED <<senderVars, queueVars, mailbox, flushing, popped, drained, unwritten,
                     chunks, sending, writes, asserted, peerVars, overlapped>>
  BY DEF Disconnect
<1>2. TypeOK'
  <2>1. open' \in BOOLEAN
    BY <1>1, Zenon
  <2> QED
    BY <1>1, <2>1 DEF SendInv, TypeOK, senderVars, queueVars, peerVars
<1>3. WireInv'
  <2>1. UNCHANGED <<drained, unwritten, chunks, sending, writes, asserted, peerVars>>
    BY <1>1
  <2>2. \A i \in DOMAIN mailbox' : \E j \in DOMAIN mailbox : mailbox[j] = mailbox'[i]
    BY <1>1
  <2> QED
    BY <1>1, <2>1, <2>2, WireAsPosted DEF SendInv
<1>4. OneWrite'
  <2>1. Answers' = Answers
    BY <1>1 DEF Answers
  <2> QED
    BY <1>1, <2>1 DEF SendInv, OneWrite
<1>5. CountInv'
  <2>1. Uncounted' = Uncounted /\ (FlushDue => FlushDue')
    BY <1>1 DEF Uncounted, FlushDue
  <2>2. pc[Self] # "idle" => ~flushing'
    BY <1>1 DEF SendInv, CountInv
  <2>3. UNCHANGED <<senderVars, queueVars, taken, overlapped>>
    BY <1>1 DEF peerVars
  <2> QED
    BY <1>1, <2>1, <2>2, <2>3, CountElsewhere DEF SendInv
<1> QED
  BY <1>2, <1>3, <1>4, <1>5 DEF SendInv

LEMMA UnitsOf ==
  ASSUME NEW m \in Message
  PROVE  Units(m) \in Seq(Unit) /\ Len(Units(m)) \in Nat /\ Len(Units(m)) > 0
<1>1. PICK n : n = Sizes[m[2]]
  OBVIOUS
<1>2. n \in Nat /\ n > 0
  BY <1>1, Bounds DEF Message
<1>3. Units(m) = [i \in 1..n |-> <<m, i>>]
  BY <1>1 DEF Units
<1>4. \A i \in 1..n : <<m, i>> \in Unit
  BY <1>2 DEF Unit
<1>5. Units(m) \in [1..n -> Unit]
  BY <1>3, <1>4
<1>6. Units(m) \in Seq(Unit)
  BY <1>2, <1>5, SeqDef
<1>7. DOMAIN Units(m) = 1..n /\ DOMAIN Units(m) = 1..Len(Units(m)) /\ Len(Units(m)) \in Nat
  BY <1>5, <1>6, LenProperties
<1>8. Len(Units(m)) > 0
  <2>1. PICK l : l = Len(Units(m))
    OBVIOUS
  <2>2. l \in Nat /\ 1..n = 1..l
    BY <1>7, <2>1
  <2>3. 1 \in 1..l
    BY <1>2, <2>2
  <2>4. l > 0
    BY <2>2, <2>3
  <2> QED
    BY <2>1, <2>4
<1> QED
  BY <1>6, <1>7, <1>8

LEMMA FlushPopKeeps ==
  ASSUME SendInv, FlushPop
  PROVE  SendInv'
<1>1. /\ flushing /\ ~drained /\ unwritten = <<>> /\ pending # <<>>
      /\ pending' = Tail(pending) /\ count' = count - 1 /\ popped' = popped + 1
      /\ unwritten' = Units(Head(pending)) /\ stream' = stream \o unwritten'
      /\ taken' = taken + 1
      /\ UNCHANGED <<senderVars, mailbox, flushing, drained, chunks, sending, writes, open,
                     asserted, wire, overlapped>>
  BY DEF FlushPop, CanPop
<1>2. PICK u, n : u = Units(Head(pending)) /\ n = Len(pending)
  OBVIOUS
<1>3. /\ pending \in Seq(Message) /\ stream \in Seq(Unit) /\ wire \in Seq(Unit)
      /\ count \in Int /\ popped \in Nat /\ taken \in Nat /\ flushing \in BOOLEAN
      /\ Len(stream) \in Nat
  BY LenProperties DEF SendInv, TypeOK
<1>4. PICK q : q = Tail(pending)
  OBVIOUS
<1>5. /\ Head(pending) \in Message /\ q \in Seq(Message) /\ Len(q) = n - 1 /\ n \in Nat /\ n > 0
      /\ DOMAIN pending = 1..n /\ \A i \in 1..Len(q) : q[i] = pending[i + 1]
  BY <1>1, <1>2, <1>3, <1>4, HeadTailProperties, LenProperties, EmptySeq
<1>6. u \in Seq(Unit) /\ Len(u) \in Nat /\ Len(u) > 0 /\ unwritten' = u /\ stream' = stream \o u
  BY <1>1, <1>2, <1>5, UnitsOf
<1>7. stream' \in Seq(Unit) /\ Len(stream') = Len(stream) + Len(u)
  BY <1>3, <1>6, ConcatProperties
<1>8. Written = Len(stream) /\ Written' = Len(stream)
  <2>1. Len(<<>>) = 0
    BY EmptySeq
  <2> QED
    BY <1>1, <1>3, <1>6, <1>7, <2>1 DEF Written
<1>9. TypeOK'
  <2>1. count' \in Int /\ popped' \in Nat /\ taken' \in Nat
    BY <1>1, <1>3
  <2> QED
    BY <1>1, <1>4, <1>5, <1>6, <1>7, <2>1 DEF SendInv, TypeOK, senderVars
<1>10. ASSUME NEW off, Placed(off) PROVE Placed(off)'
  <2>1. PICK p, w : p = SentUpTo(chunks, off, Written) /\ w = Written
    OBVIOUS
  <2>2. /\ Laid(chunks, off, stream, w) /\ Solid(chunks)
        /\ \A i \in DOMAIN writes : /\ Len(wire) = p
                                    /\ Lies(writes[i], stream, p)
                                    /\ InFirst(chunks, off, w, Len(writes[i]))
        /\ \A i \in DOMAIN mailbox : mailbox[i].op = "sent" =>
              /\ Len(wire) = p + mailbox[i].n
              /\ InFirst(chunks, off, w, mailbox[i].n)
        /\ ~sending => Len(wire) = p
    BY <1>10, <2>1 DEF Placed
  <2>3. Laid(chunks, off, stream \o u, w)
    BY <1>6, <2>2, LaidLater
  <2>4. \A i \in DOMAIN writes : Lies(writes[i], stream \o u, p)
    BY <1>6, <2>2, LiesLater
  <2>5. Written' = w /\ SentUpTo(chunks, off, Written)' = p
    BY <1>1, <1>8, <2>1 DEF SentUpTo
  <2> QED
    BY <1>1, <1>6, <2>1, <2>2, <2>3, <2>4, <2>5 DEF Placed
<1>11. WireInv'
  <2>1. Lies(wire', stream', 0)
    BY <1>1, <1>6, LiesLater DEF SendInv, WireInv
  <2>2. Lies(unwritten', stream', Written')
    BY <1>3, <1>6, <1>8, LiesNew
  <2>3. \E off : Placed(off)'
    BY <1>10 DEF SendInv, WireInv
  <2>4. Len(wire') < Len(stream')
    <3>1. Len(wire) <= Len(stream) /\ Len(wire) \in Nat
      <4>1. Len(wire) \in Nat /\ 0 + Len(wire) <= Len(stream)
        BY <1>3, LenProperties DEF SendInv, WireInv, Lies
      <4> QED
        BY <4>1
    <3> QED
      BY <1>1, <1>3, <1>6, <1>7, <3>1
  <2> QED
    BY <1>1, <2>1, <2>2, <2>3, <2>4 DEF SendInv, WireInv
<1>12. OneWrite'
  <2>1. Answers' = Answers
    BY <1>1 DEF Answers
  <2> QED
    BY <1>1, <2>1 DEF SendInv, OneWrite
<1>13. ASSUME Orderly PROVE Orderly'
  <2>1. pc' = pc /\ sent' = sent
    BY <1>1 DEF senderVars
  <2>2. ASSUME NEW i \in 1..Len(q), ~Linked(q[i])' PROVE i = Len(q)
    <3>1. i + 1 \in 1..n /\ q[i] = pending[i + 1]
      BY <1>5
    <3>2. ~Linked(pending[i + 1])
      BY <2>1, <2>2, <3>1 DEF Linked
    <3>3. i + 1 = n
      BY <1>2, <1>5, <1>13, <3>1, <3>2 DEF Orderly
    <3> QED
      BY <1>5, <3>3
  <2>3. DOMAIN q = 1..Len(q)
    BY <1>5, LenProperties
  <2>4. Mid' = Mid /\ Uncounted' = popped + 1 /\ Uncounted = popped
    BY <1>1, <2>1 DEF Mid, Uncounted
  <2>5. count' = Len(q) - taken' - Mid' + Uncounted'
    <3>1. count = n - taken - Mid + popped /\ Mid \in Nat
      BY <1>2, <1>13, <2>4 DEF Orderly, Mid
    <3> QED
      BY <1>1, <1>3, <1>5, <2>4, <3>1
  <2>6. FlushDue'
    BY <1>1 DEF FlushDue
  <2>7. pending' = q
    BY <1>1, <1>4
  <2> QED
    BY <1>13, <2>1, <2>2, <2>3, <2>5, <2>6, <2>7 DEF Orderly
<1>14. CountInv'
  <2>1. ASSUME NEW i \in DOMAIN q PROVE q[i][2] <= sent[q[i][1]]
    <3>1. DOMAIN q = 1..Len(q)
      BY <1>5, LenProperties
    <3>2. i + 1 \in DOMAIN pending /\ q[i] = pending[i + 1]
      BY <1>5, <2>1, <3>1
    <3> QED
      BY <3>2 DEF SendInv, CountInv
  <2> QED
    BY <1>1, <1>3, <1>4, <1>13, <2>1 DEF SendInv, CountInv, senderVars
<1> QED
  BY <1>9, <1>11, <1>12, <1>14 DEF SendInv

LEMMA LaidTyped ==
  ASSUME NEW b, NEW off, NEW st, NEW w, Laid(b, off, st, w), Solid(b)
  PROVE  /\ b \in Seq(Chunk)
         /\ \A i \in DOMAIN b : /\ Len(b[i].data) \in 1..ChunkSize
                                /\ b[i].start \in 0..Len(b[i].data)
<1>1. DOMAIN b = 1..Len(b) /\ b \in Seq(Chunk) /\ ChunkSize \in Nat
  BY LaidFacts, Bounds
<1>2. ASSUME NEW i \in DOMAIN b
      PROVE  Len(b[i].data) \in 1..ChunkSize /\ b[i].start \in 0..Len(b[i].data)
  <2>1. /\ Len(b[i].data) \in Nat /\ Len(b[i].data) <= ChunkSize /\ b[i].start \in Nat
        /\ b[i].start <= Len(b[i].data)
    BY <1>1, LaidFacts
  <2>2. Len(b[i].data) > 0
    BY DEF Solid
  <2> QED
    BY <1>1, <2>1, <2>2
<1> QED
  BY <1>1, <1>2

(* A turn of WriteRaw adds behind what is being sent: the view of a write  *)
(* in flight stays within the first chunk.                                 *)
LEMMA FlushWriteKeeps ==
  ASSUME SendInv, FlushWrite
  PROVE  SendInv'
<1>1. /\ unwritten # <<>> /\ chunks' = WriteRaw(Opened(chunks))
      /\ unwritten' = SubSeq(unwritten, WriteSize(Opened(chunks)) + 1, Len(unwritten))
      /\ UNCHANGED <<senderVars, queueVars, mailbox, flushing, popped, drained, sending, writes,
                     open, asserted, peerVars, overlapped>>
  BY DEF FlushWrite
<1>2. PICK off, w : Placed(off) /\ w = Written
  BY DEF SendInv, WireInv
<1>3. PICK p : p = SentUpTo(chunks, off, w)
  OBVIOUS
<1>4. /\ Laid(chunks, off, stream, w) /\ Solid(chunks)
      /\ \A i \in DOMAIN writes : /\ Len(wire) = p
                                  /\ Lies(writes[i], stream, p)
                                  /\ InFirst(chunks, off, w, Len(writes[i]))
      /\ \A i \in DOMAIN mailbox : mailbox[i].op = "sent" =>
            /\ Len(wire) = p + mailbox[i].n
            /\ InFirst(chunks, off, w, mailbox[i].n)
      /\ ~sending => Len(wire) = p
  BY <1>2, <1>3 DEF Placed
<1>5. PICK b, y : b = Opened(chunks) /\ y = WriteRaw(b)
  OBVIOUS
<1>6. PICK new : /\ Laid(b, new, stream, w) /\ b # <<>>
                 /\ Len(Last(b).data) < ChunkSize
                 /\ \A k \in 1..(Len(b) - 1) : Len(b[k].data) > 0
                 /\ SentUpTo(b, new, w) = p
                 /\ chunks # <<>> => new[1] = off[1] /\ b[1] = chunks[1]
  <2>1. Laid(chunks, off, stream, w) /\ Solid(chunks)
    BY <1>4
  <2>2. RoomBehind(chunks, off, stream, w, b)
    BY <1>5, <2>1, LaidOpened
  <2> QED
    BY <1>3, <2>2 DEF RoomBehind
<1>7. unwritten \in Seq(Unit) /\ Len(unwritten) \in Nat /\ Len(unwritten) > 0
  BY <1>1, LenProperties, EmptySeq DEF SendInv, TypeOK
<1>8. Lies(unwritten, stream, w)
  BY <1>2 DEF SendInv, WireInv
<1>9. PICK n \in 1..Len(unwritten) :
        /\ n = WriteSize(b)
        /\ Laid(y, new, stream, w + n) /\ Solid(y) /\ y # <<>>
        /\ Lies(SubSeq(unwritten, n + 1, Len(unwritten)), stream, w + n)
        /\ Len(SubSeq(unwritten, n + 1, Len(unwritten))) = Len(unwritten) - n
        /\ y[1].start = b[1].start /\ Len(b[1].data) <= Len(y[1].data)
  BY <1>5, <1>6, <1>7, <1>8, LaidWritten
<1>10. PICK z : z = SubSeq(unwritten, n + 1, Len(unwritten))
  OBVIOUS
<1>11. chunks' = y /\ unwritten' = z /\ stream' = stream /\ wire' = wire /\ taken' = taken
  BY <1>1, <1>5, <1>9, <1>10 DEF peerVars
<1>12. Written' = w + n
  <2>1. Len(stream) \in Nat /\ w = Len(stream) - Len(unwritten) /\ Len(z) = Len(unwritten) - n
    BY <1>2, <1>9, <1>10, LenProperties DEF SendInv, TypeOK, Written
  <2> QED
    BY <1>7, <1>11, <2>1 DEF Written
<1>13. SentUpTo(y, new, w + n) = p
  <2>1. p = new[1] + b[1].start
    BY <1>6 DEF SentUpTo
  <2>2. y # <<>> /\ y[1].start = b[1].start
    BY <1>9
  <2> QED
    BY <2>1, <2>2 DEF SentUpTo
<1>14. ASSUME NEW l \in Nat, InFirst(chunks, off, w, l) PROVE InFirst(y, new, w + n, l)
  <2>1. chunks # <<>> /\ p + l <= off[1] + Len(chunks[1].data)
    BY <1>3, <1>14 DEF InFirst
  <2>2. new[1] = off[1] /\ Len(chunks[1].data) <= Len(y[1].data)
    BY <1>6, <1>9, <2>1
  <2>3. /\ p \in Nat /\ off[1] \in Nat /\ Len(chunks[1].data) \in Nat /\ Len(y[1].data) \in Nat
    <3>1. 1 \in 1..Len(chunks)
      <4>1. Len(chunks) \in Nat /\ Len(chunks) > 0
        BY <1>4, <2>1, LaidFacts
      <4> QED
        BY <4>1
    <3>2. 1 \in 1..Len(y)
      <4>1. Len(y) \in Nat /\ Len(y) > 0
        BY <1>9, LaidFacts
      <4> QED
        BY <4>1
    <3>3. off[1] \in Nat /\ Len(chunks[1].data) \in Nat /\ chunks[1].start \in Nat
      BY <1>4, <3>1, LaidFacts
    <3>4. Len(y[1].data) \in Nat
      BY <1>9, <3>2, LaidFacts
    <3>5. p = off[1] + chunks[1].start
      BY <1>3, <2>1 DEF SentUpTo
    <3> QED
      BY <3>3, <3>4, <3>5
  <2>4. p + l <= new[1] + Len(y[1].data)
    <3>1. PICK a, e, d : a = off[1] /\ e = Len(chunks[1].data) /\ d = Len(y[1].data)
      OBVIOUS
    <3>2. a \in Nat /\ e \in Nat /\ d \in Nat /\ p \in Nat /\ p + l <= a + e /\ e <= d /\ new[1] = a
      BY <2>1, <2>2, <2>3, <3>1
    <3>3. p + l <= a + d
      BY <3>2
    <3> QED
      BY <3>1, <3>2, <3>3
  <2> QED
    BY <1>9, <1>13, <2>4 DEF InFirst
<1>15. Placed(new)'
  <2>1. \A i \in DOMAIN writes : Len(writes[i]) \in Nat
    <3>1. writes \in Seq(Seq(Unit) \ {<<>>}) /\ DOMAIN writes = 1..Len(writes)
      BY LenProperties DEF SendInv, TypeOK
    <3> QED
      BY <3>1, ElementOfSeq, LenProperties
  <2>2. \A i \in DOMAIN mailbox : mailbox[i].op = "sent" => mailbox[i].n \in Nat
    <3>1. mailbox \in Seq(Entry) /\ DOMAIN mailbox = 1..Len(mailbox)
      BY LenProperties DEF SendInv, TypeOK
    <3> QED
      BY <3>1, ElementOfSeq, EntryFacts
  <2>3. /\ \A i \in DOMAIN writes : InFirst(y, new, w + n, Len(writes[i]))
        /\ \A i \in DOMAIN mailbox : mailbox[i].op = "sent" => InFirst(y, new, w + n, mailbox[i].n)
    BY <1>4, <1>14, <2>1, <2>2
  <2>4. writes' = writes /\ mailbox' = mailbox /\ sending' = sending
    BY <1>1
  <2>5. SentUpTo(chunks, new, Written)' = p
    BY <1>11, <1>12, <1>13
  <2>6. PICK v : v = w + n
    OBVIOUS
  <2>7. /\ Laid(y, new, stream, v) /\ Solid(y)
        /\ \A i \in DOMAIN writes : /\ Len(wire) = p
                                    /\ Lies(writes[i], stream, p)
                                    /\ InFirst(y, new, v, Len(writes[i]))
        /\ \A i \in DOMAIN mailbox : mailbox[i].op = "sent" =>
              /\ Len(wire) = p + mailbox[i].n
              /\ InFirst(y, new, v, mailbox[i].n)
        /\ ~sending => Len(wire) = p
    BY <1>4, <1>9, <2>3, <2>6
  <2>8. Written' = v
    BY <1>12, <2>6
  <2> QED
    BY <1>11, <2>4, <2>5, <2>7, <2>8 DEF Placed
<1>16. flushing /\ ~drained /\ drained' = drained
  BY <1>1 DEF SendInv, WireInv
<1>17. WireInv'
  <2>1. Lies(unwritten', stream', Written')
    BY <1>9, <1>10, <1>11, <1>12
  <2>2. flushing' = flushing /\ popped' = popped /\ sending' = sending /\ asserted' = asserted
    BY <1>1
  <2> QED
    BY <1>11, <1>15, <1>16, <2>1, <2>2 DEF SendInv, WireInv
<1>18. TypeOK'
  <2>1. /\ y \in Seq(Chunk)
        /\ \A i \in DOMAIN y : Len(y[i].data) \in 1..ChunkSize /\ y[i].start \in 0..Len(y[i].data)
    BY <1>9, LaidTyped
  <2>2. z \in Seq(Unit)
    BY <1>9, <1>10 DEF Lies
  <2> QED
    BY <1>1, <1>11, <2>1, <2>2 DEF SendInv, TypeOK, senderVars, queueVars
<1>19. OneWrite'
  <2>1. Answers' = Answers
    BY <1>1 DEF Answers
  <2> QED
    BY <1>1, <2>1 DEF SendInv, OneWrite
<1>20. CountInv'
  <2>1. Uncounted' = Uncounted /\ (FlushDue => FlushDue')
    BY <1>1 DEF Uncounted, FlushDue
  <2>2. pc[Self] # "idle" => ~flushing'
    BY <1>1 DEF SendInv, CountInv
  <2>3. UNCHANGED <<senderVars, queueVars, taken, overlapped>>
    BY <1>1 DEF peerVars
  <2> QED
    BY <1>1, <2>1, <2>2, <2>3, CountElsewhere DEF SendInv
<1> QED
  BY <1>17, <1>18, <1>19, <1>20 DEF SendInv

(* NextBuffer and SendImpl, when no write is outstanding and the wire is   *)
(* where the chunks begin.                                                 *)
LEMMA NextWrite ==
  ASSUME NEW b, NEW off, Laid(b, off, stream, Written), Solid(b),
         Len(wire) = SentUpTo(b, off, Written), writes = <<>>,
         UNCHANGED <<unwritten, peerVars>>,
         \A i \in DOMAIN mailbox' : mailbox'[i].op # "sent",
         StartWrite(b), sending'
  PROVE  /\ \E new : Placed(new)'
         /\ chunks' \in Seq(Chunk)
         /\ \A i \in DOMAIN chunks' : /\ Len(chunks'[i].data) \in 1..ChunkSize
                                      /\ chunks'[i].start \in 0..Len(chunks'[i].data)
         /\ writes' \in Seq(Seq(Unit) \ {<<>>}) /\ Len(writes') = 1 /\ writes' # <<>>
<1>1. PICK y, w, p : y = DropDrained(b) /\ w = Written /\ p = SentUpTo(b, off, w)
  OBVIOUS
<1>2. NextView(b, off, stream, w, y)
  <2>1. Laid(b, off, stream, w) /\ Solid(b)
    BY <1>1
  <2> QED
    BY <1>1, <2>1, LaidDropped
<1>3. chunks' = y /\ HasBuffer(y) /\ writes' = Append(writes, Unsent(Head(y)))
  BY <1>1 DEF StartWrite
<1>4. PICK v : v = Unsent(Head(y))
  OBVIOUS
<1>5. PICK new : /\ Laid(y, new, stream, w) /\ Solid(y) /\ SentUpTo(y, new, w) = p
                 /\ Lies(v, stream, p) /\ v # <<>> /\ InFirst(y, new, w, Len(v))
  BY <1>1, <1>2, <1>3, <1>4 DEF NextView
<1>6. v \in Seq(Unit)
  BY <1>5 DEF Lies
<1>7. PICK S : S = Seq(Unit) \ {<<>>}
  OBVIOUS
<1>8. /\ writes' \in Seq(S) /\ Len(writes') = 1 /\ writes' # <<>> /\ writes'[1] = v
      /\ DOMAIN writes' = {1}
  <2>1. v \in S
    BY <1>5, <1>6, <1>7
  <2>2. PICK e, x : e = <<>> /\ x = Append(e, v)
    OBVIOUS
  <2>3. e \in Seq(S) /\ Len(e) = 0
    BY <2>2, EmptySeq
  <2>4. x \in Seq(S) /\ Len(x) = 1 /\ x # <<>> /\ x[1] = v
    BY <2>1, <2>2, <2>3, AppendProperties
  <2>5. DOMAIN x = 1..1
    BY <2>4, LenProperties
  <2>6. writes' = x
    BY <1>3, <1>4, <2>2
  <2> QED
    BY <2>4, <2>5, <2>6
<1>9. Written' = w /\ stream' = stream /\ wire' = wire
  BY <1>1 DEF Written, peerVars
<1>10. SentUpTo(chunks, new, Written)' = p
  BY <1>3, <1>5, <1>9
<1>11. Placed(new)'
  <2>1. Len(wire) = p
    BY <1>1
  <2> QED
    BY <1>3, <1>5, <1>8, <1>9, <1>10, <2>1 DEF Placed
<1>12. /\ y \in Seq(Chunk)
       /\ \A i \in DOMAIN y : Len(y[i].data) \in 1..ChunkSize /\ y[i].start \in 0..Len(y[i].data)
  BY <1>5, LaidTyped
<1> QED
  BY <1>3, <1>7, <1>8, <1>11, <1>12

(* NextBuffer that finds nothing to send: everything written has been.     *)
LEMMA NoNextWrite ==
  ASSUME NEW b, NEW off, Laid(b, off, stream, Written), Solid(b),
         Len(wire) = SentUpTo(b, off, Written), writes = <<>>,
         UNCHANGED <<unwritten, peerVars>>,
         \A i \in DOMAIN mailbox' : mailbox'[i].op # "sent",
         NothingToWrite(b)
  PROVE  /\ \E new : Placed(new)'
         /\ chunks' \in Seq(Chunk)
         /\ \A i \in DOMAIN chunks' : /\ Len(chunks'[i].data) \in 1..ChunkSize
                                      /\ chunks'[i].start \in 0..Len(chunks'[i].data)
         /\ writes' = writes /\ Len(wire) = Written
<1>1. PICK y, w, p : y = DropDrained(b) /\ w = Written /\ p = SentUpTo(b, off, w)
  OBVIOUS
<1>2. NextView(b, off, stream, w, y)
  <2>1. Laid(b, off, stream, w) /\ Solid(b)
    BY <1>1
  <2> QED
    BY <1>1, <2>1, LaidDropped
<1>3. chunks' = y /\ ~HasBuffer(y) /\ writes' = writes
  BY <1>1 DEF NothingToWrite
<1>4. PICK new : /\ Laid(y, new, stream, w) /\ Solid(y) /\ SentUpTo(y, new, w) = p /\ p = w
  BY <1>1, <1>2, <1>3 DEF NextView
<1>5. Written' = w /\ stream' = stream /\ wire' = wire
  BY <1>1 DEF Written, peerVars
<1>6. SentUpTo(chunks, new, Written)' = p
  BY <1>3, <1>4, <1>5
<1>7. DOMAIN writes' = {}
  BY <1>3, EmptySeq
<1>8. Placed(new)'
  <2>1. Len(wire) = p
    BY <1>1
  <2> QED
    BY <1>3, <1>4, <1>5, <1>6, <1>7, <2>1 DEF Placed
<1>9. /\ y \in Seq(Chunk)
      /\ \A i \in DOMAIN y : Len(y[i].data) \in 1..ChunkSize /\ y[i].start \in 0..Len(y[i].data)
  BY <1>4, LaidTyped
<1> QED
  BY <1>1, <1>3, <1>4, <1>8, <1>9

(* When a TryPop fails, at most the node being pushed waits, and the count *)
(* is not above zero: what it is above the nodes, this flush has popped.   *)
LEMMA FlushDrainedCount ==
  ASSUME SendInv, FlushDrained
  PROVE  CountInv'
<1>1. /\ flushing /\ ~CanPop /\ drained' = TRUE /\ flushing' = flushing
      /\ pc' = pc /\ sent' = sent /\ pending' = pending /\ count' = count
      /\ mailbox' = mailbox /\ popped' = popped /\ taken' = taken /\ overlapped' = overlapped
  BY DEF FlushDrained, senderVars, queueVars, peerVars
<1>2. PICK n : n = Len(pending)
  OBVIOUS
<1>3. /\ pending \in Seq(Message) /\ n \in Nat /\ DOMAIN pending = 1..n
      /\ count \in Int /\ popped \in Nat /\ taken \in Nat
  BY <1>2, LenProperties DEF SendInv, TypeOK
<1>4. popped <= taken
  BY <1>1 DEF SendInv, CountInv
<1>5. ASSUME Orderly PROVE Orderly'
  <2>1. Mid' = Mid /\ Uncounted' = popped /\ Uncounted = popped /\ Mid \in {0, 1}
    BY <1>1 DEF Mid, Uncounted
  <2>2. count = n - taken - Mid + popped
    BY <1>2, <1>5, <2>1 DEF Orderly
  <2>3. n - Mid <= 0
    <3>1. CASE pending = <<>>
      <4>1. n = 0
        BY <1>2, <3>1, EmptySeq
      <4> QED
        BY <2>1, <4>1
    <3>2. CASE pending # <<>>
      <4>1. n > 0 /\ Head(pending) = pending[1]
        BY <1>2, <1>3, <3>2, EmptySeq, HeadTailProperties
      <4>2. 1 \in 1..n
        BY <1>3, <4>1
      <4>3. ~Linked(pending[1])
        BY <1>1, <3>2, <4>1 DEF CanPop
      <4>4. 1 = n
        BY <1>2, <1>3, <1>5, <4>2, <4>3 DEF Orderly
      <4>5. pc[pending[1][1]] = "link" /\ pending[1] \in Message
        BY <1>2, <1>3, <4>2, <4>3, ElementOfSeq DEF Linked
      <4>6. pending[1][1] \in Senders
        BY <4>5 DEF Message
      <4>7. Mid = 1
        BY <4>5, <4>6 DEF Mid
      <4> QED
        BY <4>4, <4>7
    <3> QED
      BY <3>1, <3>2
  <2>4. ~(count' > 0)
    BY <1>1, <1>3, <1>4, <2>1, <2>2, <2>3
  <2>5. \A i \in DOMAIN pending : Linked(pending[i])' <=> Linked(pending[i])
    BY <1>1 DEF Linked
  <2>6. count' = Len(pending') - taken' - Mid' + Uncounted'
    BY <1>1, <1>2, <2>1, <2>2
  <2> QED
    BY <1>1, <1>5, <2>4, <2>5, <2>6 DEF Orderly
<1> QED
  BY <1>1, <1>5 DEF SendInv, CountInv

LEMMA FlushDrainedKeeps ==
  ASSUME SendInv, FlushDrained
  PROVE  SendInv'
<1>1. /\ unwritten = <<>> /\ drained' = TRUE
      /\ UNCHANGED <<senderVars, queueVars, mailbox, flushing, popped, streamVars, peerVars,
                     overlapped>>
  BY DEF FlushDrained
<1>2. CountInv'
  BY FlushDrainedCount
<1>3. TypeOK'
  <2>1. drained' \in BOOLEAN
    BY <1>1, Zenon
  <2> QED
    BY <1>1, <2>1 DEF SendInv, TypeOK, senderVars, queueVars, streamVars, peerVars
<1>4. Written' = Written /\ Answers' = Answers
  BY <1>1 DEF Written, Answers, streamVars, peerVars
<1>5. OneWrite'
  BY <1>1, <1>4 DEF SendInv, OneWrite, streamVars
<1>6. ASSUME NEW off, Placed(off) PROVE Placed(off)'
  BY <1>1, <1>4, <1>6 DEF Placed, streamVars, peerVars
<1>7. WireInv'
  BY <1>1, <1>4, <1>6 DEF SendInv, WireInv, streamVars, peerVars
<1> QED
  BY <1>2, <1>3, <1>5, <1>7 DEF SendInv

(* FlushEnd takes the nodes popped off the count again, and posts nothing: *)
(* a node linked behind the loop's end that took the count above zero has  *)
(* had a flush posted for it.                                              *)
LEMMA FlushEndCount ==
  ASSUME SendInv, FlushEnd
  PROVE  CountInv'
<1>1. /\ flushing /\ drained /\ count' = count - popped /\ flushing' = FALSE
      /\ drained' = FALSE /\ pc' = pc /\ sent' = sent /\ pending' = pending
      /\ mailbox' = mailbox /\ popped' = popped /\ taken' = taken /\ overlapped' = overlapped
  BY DEF FlushEnd, senderVars, peerVars
<1>2. PICK n : n = Len(pending)
  OBVIOUS
<1>3. n \in Nat /\ count \in Int /\ popped \in Nat /\ taken \in Nat
  BY <1>2, LenProperties DEF SendInv, TypeOK
<1>4. ASSUME Orderly PROVE Orderly'
  <2>1. Mid' = Mid /\ Uncounted' = 0 /\ Uncounted = popped /\ Mid \in {0, 1}
    BY <1>1 DEF Mid, Uncounted
  <2>2. count = n - taken - Mid + popped
    BY <1>2, <1>4, <2>1 DEF Orderly
  <2>3. count' = Len(pending') - taken' - Mid' + Uncounted'
    BY <1>1, <1>2, <1>3, <2>1, <2>2
  <2>4. ASSUME count' > 0 PROVE FlushDue'
    <3>1. count > 0
      BY <1>1, <1>3, <2>4
    <3>2. \E i \in DOMAIN mailbox : mailbox[i].op = "flush"
      BY <1>1, <1>4, <3>1 DEF Orderly, FlushDue
    <3> QED
      BY <1>1, <3>2 DEF FlushDue
  <2>5. \A i \in DOMAIN pending : Linked(pending[i])' <=> Linked(pending[i])
    BY <1>1 DEF Linked
  <2> QED
    BY <1>1, <1>4, <2>3, <2>4, <2>5 DEF Orderly
<1> QED
  BY <1>1, <1>4 DEF SendInv, CountInv

LEMMA FlushEndKeeps ==
  ASSUME SendInv, FlushEnd
  PROVE  SendInv'
<1>1. /\ flushing /\ unwritten = <<>> /\ count' = count - popped
      /\ flushing' = FALSE /\ drained' = FALSE
      /\ \/ sending /\ UNCHANGED streamVars
         \/ ~sending /\ StartWrite(chunks) /\ sending' = TRUE /\ UNCHANGED <<open, asserted>>
         \/ /\ ~sending /\ NothingToWrite(chunks)
            /\ asserted' = (asserted \/ popped > 0)
            /\ UNCHANGED <<sending, open>>
      /\ UNCHANGED <<senderVars, pending, mailbox, popped, unwritten, peerVars, overlapped>>
  BY DEF FlushEnd, SendInv, WireInv
<1>2. CountInv'
  BY FlushEndCount
<1>3. count' \in Int /\ flushing' \in BOOLEAN /\ drained' \in BOOLEAN
  <2>1. count' \in Int
    BY <1>1 DEF SendInv, TypeOK
  <2>2. flushing' \in BOOLEAN
    BY <1>1, Zenon
  <2>3. drained' \in BOOLEAN
    BY <1>1, Zenon
  <2> QED
    BY <2>1, <2>2, <2>3
<1>4. Answers' = Answers
  BY <1>1 DEF Answers
<1>5. Written' = Written /\ Written = Len(stream) /\ Len(stream) \in Nat /\ stream' = stream /\ wire' = wire
  <2>1. Len(<<>>) = 0 /\ Len(stream) \in Nat
    BY EmptySeq, LenProperties DEF SendInv, TypeOK
  <2> QED
    BY <1>1, <2>1 DEF Written, peerVars
<1>6. /\ Lies(wire', stream', 0) /\ Lies(unwritten', stream', Written') /\ unwritten' = <<>>
  BY <1>1, <1>5 DEF SendInv, WireInv
<1>7. CASE sending /\ UNCHANGED streamVars
  <2>1. /\ chunks' = chunks /\ writes' = writes /\ sending' = sending /\ open' = open
        /\ asserted' = asserted
    BY <1>7 DEF streamVars
  <2>2. TypeOK'
    BY <1>1, <1>3, <2>1 DEF SendInv, TypeOK, senderVars, peerVars
  <2>3. OneWrite'
    BY <1>4, <2>1 DEF SendInv, OneWrite
  <2>4. ASSUME NEW off, Placed(off) PROVE Placed(off)'
    BY <1>1, <1>5, <2>1, <2>4 DEF Placed
  <2>5. WireInv'
    BY <1>1, <1>6, <1>7, <2>1, <2>4 DEF SendInv, WireInv
  <2> QED
    BY <1>2, <2>2, <2>3, <2>5 DEF SendInv
<1>8. ASSUME ~sending
      PROVE  /\ writes = <<>> /\ Answers = {}
             /\ \A i \in DOMAIN mailbox' : mailbox'[i].op # "sent"
  <2>1. writes = <<>> /\ Answers = {}
    BY <1>8 DEF SendInv, OneWrite
  <2> QED
    BY <1>1, <2>1 DEF Answers
<1>9. ASSUME ~sending
      PROVE  \E off : /\ Laid(chunks, off, stream, Written) /\ Solid(chunks)
                      /\ Len(wire) = SentUpTo(chunks, off, Written)
  BY <1>9 DEF SendInv, WireInv, Placed
<1>10. CASE ~sending /\ StartWrite(chunks) /\ sending' = TRUE /\ UNCHANGED <<open, asserted>>
  <2>1. PICK b, off : /\ b = chunks /\ Laid(b, off, stream, Written) /\ Solid(b)
                      /\ Len(wire) = SentUpTo(b, off, Written)
    BY <1>9, <1>10
  <2>2. StartWrite(b) /\ sending' /\ UNCHANGED <<unwritten, peerVars>>
    BY <1>1, <1>10, <2>1
  <2>3. /\ \E new : Placed(new)'
        /\ chunks' \in Seq(Chunk)
        /\ \A i \in DOMAIN chunks' : /\ Len(chunks'[i].data) \in 1..ChunkSize
                                     /\ chunks'[i].start \in 0..Len(chunks'[i].data)
        /\ writes' \in Seq(Seq(Unit) \ {<<>>}) /\ Len(writes') = 1 /\ writes' # <<>>
    BY <1>8, <1>10, <2>1, <2>2, NextWrite
  <2>4. TypeOK'
    <3>1. sending' \in BOOLEAN
      BY <1>10, Zenon
    <3> QED
      BY <1>1, <1>3, <1>10, <2>3, <3>1 DEF SendInv, TypeOK, senderVars, peerVars
  <2>5. OneWrite'
    BY <1>4, <1>8, <1>10, <2>3 DEF OneWrite
  <2>6. WireInv'
    BY <1>1, <1>6, <1>10, <2>3 DEF SendInv, WireInv
  <2> QED
    BY <1>2, <2>4, <2>5, <2>6 DEF SendInv
<1>11. CASE /\ ~sending /\ NothingToWrite(chunks)
            /\ asserted' = (asserted \/ popped > 0)
            /\ UNCHANGED <<sending, open>>
  <2>1. PICK b, off : /\ b = chunks /\ Laid(b, off, stream, Written) /\ Solid(b)
                      /\ Len(wire) = SentUpTo(b, off, Written)
    BY <1>9, <1>11
  <2>2. NothingToWrite(b) /\ UNCHANGED <<unwritten, peerVars>>
    BY <1>1, <1>11, <2>1
  <2>3. /\ \E new : Placed(new)'
        /\ chunks' \in Seq(Chunk)
        /\ \A i \in DOMAIN chunks' : /\ Len(chunks'[i].data) \in 1..ChunkSize
                                     /\ chunks'[i].start \in 0..Len(chunks'[i].data)
        /\ writes' = writes /\ Len(wire) = Written
    BY <1>8, <1>11, <2>1, <2>2, NoNextWrite
  <2>4. Len(wire) = Len(stream)
    BY <1>5, <2>3
  <2>5. ~(popped > 0) /\ ~asserted
    BY <1>1, <1>5, <1>11, <2>4 DEF SendInv, WireInv
  <2>6. asserted' = FALSE
    BY <1>11, <2>5, Zenon
  <2>7. TypeOK'
    <3>1. asserted' \in BOOLEAN
      BY <2>6, Zenon
    <3> QED
      BY <1>1, <1>3, <1>11, <2>3, <3>1 DEF SendInv, TypeOK, senderVars, peerVars
  <2>8. OneWrite'
    BY <1>4, <1>11, <2>3 DEF SendInv, OneWrite
  <2>9. WireInv'
    BY <1>1, <1>5, <1>6, <1>11, <2>3, <2>4, <2>6 DEF WireInv
  <2> QED
    BY <1>2, <2>7, <2>8, <2>9 DEF SendInv
<1> QED
  BY <1>1, <1>7, <1>10, <1>11

(* A completion advances the first chunk to where the wire is.             *)
LEMMA OnSendCompletedKeeps ==
  ASSUME SendInv, OnSendCompleted
  PROVE  SendInv'
<1>1. PICK n : n = Head(mailbox).n
  OBVIOUS
<1>2. /\ ~flushing /\ pc[Self] = "idle" /\ mailbox # <<>> /\ Head(mailbox).op = "sent"
      /\ mailbox' = Tail(mailbox)
      /\ \/ StartWrite(Advanced(n)) /\ UNCHANGED <<sending, flushing, popped>>
         \/ /\ NothingToWrite(Advanced(n)) /\ sending' = FALSE
            /\ flushing' = TRUE /\ popped' = 0
      /\ UNCHANGED <<senderVars, queueVars, drained, unwritten, open, asserted, peerVars, overlapped>>
  BY <1>1 DEF OnSendCompleted, Free
<1>3. PICK q : q = Tail(mailbox)
  OBVIOUS
<1>4. mailbox \in Seq(Entry) /\ \A i, j \in AnswersOf(mailbox) : i = j
  BY AnswersHere DEF SendInv, TypeOK, OneWrite
<1>5. /\ q \in Seq(Entry) /\ mailbox' = q
      /\ \A i \in DOMAIN mailbox : i # 1 => i - 1 \in DOMAIN q /\ q[i - 1] = mailbox[i]
      /\ 1 \in DOMAIN mailbox /\ mailbox[1] \in Entry /\ mailbox[1] = Head(mailbox)
      /\ AnswersOf(q) = {} /\ 1 \in AnswersOf(mailbox)
  BY <1>2, <1>3, <1>4, AnswersTail
<1>6. n \in Nat
  BY <1>1, <1>2, <1>5, EntryFacts
<1>7. writes = <<>> /\ sending /\ Answers' = {}
  <2>1. Answers' = AnswersOf(q)
    BY <1>5 DEF Answers, AnswersOf
  <2> QED
    BY <1>5, <2>1, AnswersHere DEF SendInv, OneWrite
<1>8. \A i \in DOMAIN mailbox' : mailbox'[i].op # "sent"
  BY <1>7 DEF Answers
<1>9. PICK off : Placed(off)
  BY DEF SendInv, WireInv
<1>10. /\ Laid(chunks, off, stream, Written) /\ Solid(chunks)
       /\ Len(wire) = SentUpTo(chunks, off, Written) + n
       /\ InFirst(chunks, off, Written, n)
  BY <1>1, <1>2, <1>5, <1>9 DEF Placed
<1>11. PICK b, w : b = Advanced(n) /\ w = Written
  OBVIOUS
<1>12. Laid(b, off, stream, Written) /\ Solid(b) /\ Len(wire) = SentUpTo(b, off, Written)
  <2>1. Laid(chunks, off, stream, w) /\ InFirst(chunks, off, w, n)
    BY <1>10, <1>11
  <2>2. /\ Laid(b, off, stream, w) /\ Solid(b)
        /\ SentUpTo(b, off, w) = SentUpTo(chunks, off, w) + n
    BY <1>6, <1>10, <1>11, <2>1, LaidAdvanced
  <2> QED
    BY <1>10, <1>11, <2>2
<1>13. Written' = Written /\ Written = Len(stream) /\ stream' = stream /\ wire' = wire /\ unwritten' = <<>>
  <2>1. unwritten = <<>> /\ Len(<<>>) = 0 /\ Len(stream) \in Nat
    BY <1>2, EmptySeq, LenProperties DEF SendInv, TypeOK, WireInv
  <2> QED
    BY <1>2, <2>1 DEF Written, peerVars
<1>14. Lies(wire', stream', 0) /\ Lies(unwritten', stream', Written')
  <2>1. unwritten' = unwritten
    BY <1>2
  <2> QED
    BY <1>13, <2>1 DEF SendInv, WireInv
<1>15. FlushDue => FlushDue'
  <2>1. ASSUME NEW i \in DOMAIN mailbox, mailbox[i].op = "flush"
        PROVE  \E j \in DOMAIN q : q[j].op = "flush"
    BY <1>2, <1>5, <2>1
  <2> QED
    BY <1>2, <1>5, <2>1 DEF FlushDue
<1>16. CountInv'
  <2>1. Uncounted' = Uncounted
    BY <1>2 DEF Uncounted
  <2>2. UNCHANGED <<senderVars, queueVars, taken, overlapped>> /\ taken \in Nat
    BY <1>2 DEF SendInv, TypeOK, peerVars
  <2> QED
    BY <1>2, <1>15, <2>1, <2>2, CountElsewhere DEF SendInv
<1>17. CASE StartWrite(Advanced(n)) /\ UNCHANGED <<sending, flushing, popped>>
  <2>1. StartWrite(b) /\ sending' /\ UNCHANGED <<unwritten, peerVars>>
    BY <1>2, <1>7, <1>11, <1>17
  <2>2. /\ \E new : Placed(new)'
        /\ chunks' \in Seq(Chunk)
        /\ \A i \in DOMAIN chunks' : /\ Len(chunks'[i].data) \in 1..ChunkSize
                                     /\ chunks'[i].start \in 0..Len(chunks'[i].data)
        /\ writes' \in Seq(Seq(Unit) \ {<<>>}) /\ Len(writes') = 1 /\ writes' # <<>>
    BY <1>7, <1>8, <1>12, <2>1, NextWrite
  <2>3. TypeOK'
    BY <1>2, <1>5, <1>17, <2>2 DEF SendInv, TypeOK, senderVars, queueVars, peerVars
  <2>4. OneWrite'
    BY <1>7, <2>1, <2>2 DEF OneWrite
  <2>5. WireInv'
    BY <1>2, <1>13, <1>14, <2>1, <2>2 DEF SendInv, WireInv
  <2> QED
    BY <1>16, <2>3, <2>4, <2>5 DEF SendInv
<1>18. CASE /\ NothingToWrite(Advanced(n)) /\ sending' = FALSE
            /\ flushing' = TRUE /\ popped' = 0
  <2>1. NothingToWrite(b) /\ UNCHANGED <<unwritten, peerVars>>
    BY <1>2, <1>11, <1>18
  <2>2. /\ \E new : Placed(new)'
        /\ chunks' \in Seq(Chunk)
        /\ \A i \in DOMAIN chunks' : /\ Len(chunks'[i].data) \in 1..ChunkSize
                                     /\ chunks'[i].start \in 0..Len(chunks'[i].data)
        /\ writes' = writes /\ Len(wire) = Written
    BY <1>7, <1>8, <1>12, <2>1, NoNextWrite
  <2>3. TypeOK'
    <3>1. sending' \in BOOLEAN /\ flushing' \in BOOLEAN
      BY <1>18, Zenon
    <3>2. popped' \in Nat
      BY <1>18
    <3> QED
      BY <1>2, <1>5, <2>2, <3>1, <3>2 DEF SendInv, TypeOK, senderVars, queueVars, peerVars
  <2>4. OneWrite'
    <3>1. Len(writes') <= 1 /\ writes' = <<>>
      BY <1>7, <2>2, EmptySeq
    <3> QED
      BY <1>7, <1>18, <3>1 DEF OneWrite
  <2>5. WireInv'
    BY <1>2, <1>13, <1>14, <1>18, <2>2 DEF SendInv, WireInv
  <2> QED
    BY <1>16, <2>3, <2>4, <2>5 DEF SendInv
<1> QED
  BY <1>2, <1>17, <1>18

(* The socket answers the one write outstanding. *)
LEMMA WriteDoneKeeps ==
  ASSUME SendInv, WriteDone
  PROVE  SendInv'
<1>1. PICK v, e : v = Head(writes) /\ e = [op |-> "sent", n |-> Len(v)]
  OBVIOUS
<1>2. /\ writes # <<>> /\ wire' = wire \o v /\ mailbox' = Append(mailbox, e)
      /\ writes' = Tail(writes)
      /\ UNCHANGED <<senderVars, queueVars, flushing, popped, drained, unwritten, chunks, sending,
                     open, asserted, stream, taken, overlapped>>
  BY <1>1 DEF WriteDone
<1>3. PICK S : S = Seq(Unit) \ {<<>>}
  OBVIOUS
<1>4. writes \in Seq(S) /\ Len(writes) <= 1 /\ Answers = {} /\ sending
  BY <1>2, <1>3 DEF SendInv, TypeOK, OneWrite
<1>5. /\ v \in S /\ v = writes[1] /\ 1 \in DOMAIN writes /\ Len(writes) = 1
      /\ writes' \in Seq(S) /\ Len(writes') = 0 /\ writes' = <<>>
  <2>1. PICK y : y = Tail(writes)
    OBVIOUS
  <2>2. /\ v \in S /\ v = writes[1] /\ y \in Seq(S) /\ Len(y) = Len(writes) - 1
        /\ Len(writes) \in Nat /\ Len(writes) > 0 /\ DOMAIN writes = 1..Len(writes)
    BY <1>1, <1>2, <1>4, <2>1, HeadTailProperties, LenProperties, EmptySeq
  <2>3. Len(writes) = 1 /\ Len(y) = 0 /\ 1 \in DOMAIN writes
    BY <1>4, <2>2
  <2>4. y = <<>>
    BY <2>2, <2>3, EmptySeq
  <2> QED
    BY <1>2, <2>1, <2>2, <2>3, <2>4
<1>6. v \in Seq(Unit) /\ Len(v) \in Nat /\ Len(v) > 0
  BY <1>3, <1>5, LenProperties, EmptySeq
<1>7. e \in Entry /\ e.op = "sent" /\ e.n = Len(v)
  BY <1>1, <1>6, EntryFacts
<1>8. PICK q, k : q = Append(mailbox, e) /\ k = Len(mailbox)
  OBVIOUS
<1>9. /\ mailbox' = q /\ q \in Seq(Entry) /\ DOMAIN q = 1..(k + 1) /\ DOMAIN mailbox = 1..k
      /\ q[k + 1] = e /\ \A i \in 1..k : q[i] = mailbox[i]
      /\ AnswersOf(q) = {k + 1} /\ k \in Nat
  <2>1. mailbox \in Seq(Entry) /\ k \in Nat /\ AnswersOf(mailbox) = {}
    BY <1>4, <1>8, AnswersHere, LenProperties DEF SendInv, TypeOK
  <2> QED
    BY <1>2, <1>7, <1>8, <2>1, AnswersAppend
<1>10. Answers' = {k + 1}
  BY <1>9 DEF Answers, AnswersOf
<1>11. PICK off, p, w : Placed(off) /\ w = Written /\ p = SentUpTo(chunks, off, w)
  BY DEF SendInv, WireInv
<1>12. /\ Laid(chunks, off, stream, w) /\ Solid(chunks)
       /\ Len(wire) = p /\ Lies(v, stream, p) /\ InFirst(chunks, off, w, Len(v))
  BY <1>5, <1>11 DEF Placed
<1>13. Lies(wire', stream, 0) /\ Len(wire') = p + Len(v)
  <2>1. Lies(wire, stream, 0) /\ 0 + Len(wire) = p
    BY <1>12 DEF SendInv, WireInv, Lies
  <2>2. Lies(v, stream, 0 + Len(wire))
    BY <1>12, <2>1
  <2>3. Lies(wire \o v, stream, 0) /\ Len(wire \o v) = Len(wire) + Len(v)
    BY <2>1, <2>2, LiesOn
  <2> QED
    BY <1>2, <1>12, <2>3
<1>14. Written' = w /\ stream' = stream /\ chunks' = chunks
  BY <1>2, <1>11 DEF Written
<1>15. SentUpTo(chunks, off, Written)' = p
  BY <1>11, <1>14
<1>16. Placed(off)'
  <2>1. DOMAIN writes' = {}
    BY <1>5, EmptySeq
  <2>2. ASSUME NEW i \in DOMAIN q, q[i].op = "sent" PROVE q[i].n = Len(v)
    <3>1. i \in AnswersOf(q)
      BY <2>2 DEF AnswersOf
    <3>2. i = k + 1
      BY <1>9, <3>1
    <3> QED
      BY <1>7, <1>9, <3>2
  <2>3. sending'
    BY <1>2, <1>4
  <2> QED
    BY <1>9, <1>12, <1>13, <1>14, <1>15, <2>1, <2>2, <2>3 DEF Placed
<1>17. WireInv'
  <2>1. Lies(unwritten', stream', Written')
    BY <1>2, <1>11, <1>14 DEF SendInv, WireInv
  <2> QED
    BY <1>2, <1>4, <1>13, <1>14, <1>16, <2>1 DEF SendInv, WireInv
<1>18. TypeOK'
  <2>1. wire' \in Seq(Unit)
    BY <1>13 DEF Lies
  <2> QED
    BY <1>2, <1>3, <1>5, <1>9, <2>1 DEF SendInv, TypeOK, senderVars, queueVars
<1>19. OneWrite'
  <2>1. Answers' # {} /\ \A i, j \in Answers' : i = j
    BY <1>10
  <2> QED
    BY <1>2, <1>4, <1>5, <2>1 DEF OneWrite
<1>20. CountInv'
  <2>1. Uncounted' = Uncounted
    BY <1>2 DEF Uncounted
  <2>2. FlushDue => FlushDue'
    <3>1. \A i \in DOMAIN mailbox : i \in DOMAIN q /\ q[i] = mailbox[i]
      BY <1>9
    <3> QED
      BY <1>2, <1>9, <3>1 DEF FlushDue
  <2>3. pc[Self] # "idle" => ~flushing'
    BY <1>2 DEF SendInv, CountInv
  <2> QED
    BY <1>2, <2>1, <2>2, <2>3, CountElsewhere DEF SendInv
<1> QED
  BY <1>17, <1>18, <1>19, <1>20 DEF SendInv

LEMMA WriteFailsKeeps ==
  ASSUME SendInv, WriteFails
  PROVE  SendInv'
<1>1. PICK v, e : v = Head(writes) /\ e = [op |-> "error"]
  OBVIOUS
<1>2. PICK n \in 0..(Len(v) - 1) : wire' = wire \o SubSeq(v, 1, n)
  BY <1>1 DEF WriteFails
<1>3. /\ writes # <<>> /\ mailbox' = Append(mailbox, e) /\ writes' = Tail(writes)
      /\ UNCHANGED <<senderVars, queueVars, flushing, popped, drained, unwritten, chunks, sending,
                     open, asserted, stream, taken, overlapped>>
  BY <1>1 DEF WriteFails
<1>4. PICK S : S = Seq(Unit) \ {<<>>}
  OBVIOUS
<1>5. writes \in Seq(S) /\ Len(writes) <= 1 /\ Answers = {} /\ sending
  BY <1>3, <1>4 DEF SendInv, TypeOK, OneWrite
<1>6. /\ v \in S /\ v = writes[1] /\ 1 \in DOMAIN writes /\ Len(writes) = 1
      /\ writes' \in Seq(S) /\ Len(writes') = 0 /\ writes' = <<>>
  <2>1. PICK y : y = Tail(writes)
    OBVIOUS
  <2>2. /\ v \in S /\ v = writes[1] /\ y \in Seq(S) /\ Len(y) = Len(writes) - 1
        /\ Len(writes) \in Nat /\ Len(writes) > 0 /\ DOMAIN writes = 1..Len(writes)
    BY <1>1, <1>3, <1>5, <2>1, HeadTailProperties, LenProperties, EmptySeq
  <2>3. Len(writes) = 1 /\ Len(y) = 0 /\ 1 \in DOMAIN writes
    BY <1>5, <2>2
  <2>4. y = <<>>
    BY <2>2, <2>3, EmptySeq
  <2> QED
    BY <1>3, <2>1, <2>2, <2>3, <2>4
<1>7. v \in Seq(Unit) /\ Len(v) \in Nat
  BY <1>4, <1>6, LenProperties
<1>8. e \in Entry /\ e.op = "error"
  BY <1>1, EntryFacts
<1>9. PICK q, k : q = Append(mailbox, e) /\ k = Len(mailbox)
  OBVIOUS
<1>10. /\ mailbox' = q /\ q \in Seq(Entry) /\ DOMAIN q = 1..(k + 1) /\ DOMAIN mailbox = 1..k
       /\ q[k + 1] = e /\ \A i \in 1..k : q[i] = mailbox[i]
       /\ AnswersOf(q) = {k + 1} /\ k \in Nat
  <2>1. mailbox \in Seq(Entry) /\ k \in Nat /\ AnswersOf(mailbox) = {}
    BY <1>5, <1>9, AnswersHere, LenProperties DEF SendInv, TypeOK
  <2> QED
    BY <1>3, <1>8, <1>9, <2>1, AnswersAppend
<1>11. Answers' = {k + 1}
  BY <1>10 DEF Answers, AnswersOf
<1>12. PICK off, p, w : Placed(off) /\ w = Written /\ p = SentUpTo(chunks, off, w)
  BY DEF SendInv, WireInv
<1>13. /\ Laid(chunks, off, stream, w) /\ Solid(chunks)
       /\ Len(wire) = p /\ Lies(v, stream, p)
  BY <1>6, <1>12 DEF Placed
<1>14. Lies(wire', stream, 0)
  <2>1. Lies(wire, stream, 0) /\ 0 + Len(wire) = p
    BY <1>13 DEF SendInv, WireInv, Lies
  <2>2. 1 \in 1..(Len(v) + 1) /\ n \in (1 - 1)..Len(v) /\ p + 1 - 1 = p
    <3>1. p \in Nat
      BY <1>13 DEF Lies
    <3> QED
      BY <1>2, <1>7, <3>1
  <2>3. Lies(SubSeq(v, 1, n), stream, p)
    <3>1. Lies(SubSeq(v, 1, n), stream, p + 1 - 1)
      BY <1>13, <2>2, LiesWithin
    <3> QED
      BY <2>2, <3>1
  <2> QED
    BY <1>2, <2>1, <2>3, LiesOn
<1>15. Written' = w /\ stream' = stream /\ chunks' = chunks
  BY <1>3, <1>12 DEF Written
<1>16. SentUpTo(chunks, off, Written)' = p
  BY <1>12, <1>15
<1>17. Placed(off)'
  <2>1. DOMAIN writes' = {}
    BY <1>6, EmptySeq
  <2>2. ASSUME NEW i \in DOMAIN q PROVE q[i].op # "sent"
    <3>1. CASE i \in AnswersOf(q)
      BY <1>8, <1>10, <3>1
    <3>2. CASE i \notin AnswersOf(q)
      BY <2>2, <3>2 DEF AnswersOf
    <3> QED
      BY <3>1, <3>2
  <2>3. sending'
    BY <1>3, <1>5
  <2> QED
    BY <1>10, <1>13, <1>15, <1>16, <2>1, <2>2, <2>3 DEF Placed
<1>18. WireInv'
  <2>1. Lies(unwritten', stream', Written')
    BY <1>3, <1>12, <1>15 DEF SendInv, WireInv
  <2> QED
    BY <1>3, <1>5, <1>14, <1>15, <1>17, <2>1 DEF SendInv, WireInv
<1>19. TypeOK'
  <2>1. wire' \in Seq(Unit)
    BY <1>14 DEF Lies
  <2> QED
    BY <1>3, <1>4, <1>6, <1>10, <2>1 DEF SendInv, TypeOK, senderVars, queueVars
<1>20. OneWrite'
  <2>1. Answers' # {} /\ \A i, j \in Answers' : i = j
    BY <1>11
  <2> QED
    BY <1>3, <1>5, <1>6, <2>1 DEF OneWrite
<1>21. CountInv'
  <2>1. Uncounted' = Uncounted
    BY <1>3 DEF Uncounted
  <2>2. FlushDue => FlushDue'
    <3>1. \A i \in DOMAIN mailbox : i \in DOMAIN q /\ q[i] = mailbox[i]
      BY <1>10
    <3> QED
      BY <1>3, <1>10, <3>1 DEF FlushDue
  <2>3. pc[Self] # "idle" => ~flushing'
    BY <1>3 DEF SendInv, CountInv
  <2> QED
    BY <1>3, <2>1, <2>2, <2>3, CountElsewhere DEF SendInv
<1> QED
  BY <1>18, <1>19, <1>20, <1>21 DEF SendInv

LEMMA SendStep == SendInv /\ [Next]_vars => SendInv'
<1> SUFFICES ASSUME SendInv, [Next]_vars PROVE SendInv'
  OBVIOUS
<1>1. ASSUME NEW t \in Senders, Send(t) PROVE SendInv'
  BY <1>1, SendPushKeeps, SendLinkKeeps, SendCountKeeps DEF Send
<1>2. ASSUME Actor PROVE SendInv'
  BY <1>2, RunFlushKeeps, FlushPopKeeps, FlushWriteKeeps, FlushDrainedKeeps, FlushEndKeeps,
     OnSendCompletedKeeps, OnSendFailedKeeps DEF Actor
<1>3. ASSUME Disconnect PROVE SendInv'
  BY <1>3, DisconnectKeeps
<1>4. ASSUME Socket PROVE SendInv'
  BY <1>4, WriteDoneKeeps, WriteFailsKeeps DEF Socket
<1>5. ASSUME UNCHANGED vars PROVE SendInv'
  <2>1. TypeOK'
    BY <1>5 DEF SendInv, TypeOK, vars
  <2>2. WireInv' /\ OneWrite'
    <3>1. UNCHANGED <<mailbox, flushing, popped, drained, streamVars, peerVars>>
      BY <1>5 DEF vars, streamVars, peerVars
    <3> QED
      BY <3>1, WireElsewhere DEF SendInv
  <2>3. CountInv'
    <3>1. /\ UNCHANGED <<senderVars, queueVars, taken, overlapped>>
          /\ Uncounted' = Uncounted /\ (FlushDue => FlushDue') /\ flushing' = flushing
          /\ popped' = popped /\ drained' = drained
      BY <1>5 DEF vars, senderVars, queueVars, Uncounted, FlushDue
    <3>2. pc[Self] # "idle" => ~flushing'
      BY <3>1 DEF SendInv, CountInv
    <3> QED
      BY <3>1, <3>2, CountElsewhere DEF SendInv
  <2> QED
    BY <2>1, <2>2, <2>3 DEF SendInv
<1> QED
  BY <1>1, <1>2, <1>3, <1>4, <1>5 DEF Next

LEMMA SendInvariant == Spec => []SendInv
<1>1. Init => SendInv
  BY SendInitial
<1>2. SendInv /\ [Next]_vars => SendInv'
  BY SendStep
<1> QED
  BY <1>1, <1>2, PTL DEF Spec

-----------------------------------------------------------------------------
(* Every variable keeps its type; a chunk is never empty, never longer     *)
(* than ChunkSize, nor sent beyond what it holds.                          *)
THEOREM SendTypeTheorem == Spec => []TypeOK
<1>1. SendInv => TypeOK
  BY DEF SendInv
<1> QED
  BY <1>1, SendInvariant, PTL

(* The peer gets the units of the messages FlushSend popped, in order and  *)
(* without a gap, for any sizes of the messages and of the chunks.         *)
THEOREM WireTheorem == Spec => []WireIsPrefix
<1>1. SendInv => WireIsPrefix
  BY LiesFromStart DEF SendInv, WireInv, WireIsPrefix
<1> QED
  BY <1>1, SendInvariant, PTL

(* is_sending_ keeps it to one async_write: SendImpl is never called while *)
(* another write is outstanding, or its answer waits in the mailbox.       *)
THEOREM SingleWriteTheorem == Spec => []SingleWrite
<1>1. SendInv => SingleWrite
  <2> SUFFICES ASSUME SendInv PROVE SingleWrite
    OBVIOUS
  <2>1. Len(writes) \in Nat /\ (writes # <<>> => Len(writes) > 0) /\ (writes = <<>> => Len(writes) = 0)
    BY LenProperties, EmptySeq DEF SendInv, TypeOK
  <2>2. CASE Answers = {}
    <3>1. Cardinality(Answers) = 0
      BY <2>2, FS_EmptySet
    <3> QED
      BY <2>1, <2>2, <3>1 DEF SendInv, OneWrite, SingleWrite
  <2>3. CASE Answers # {}
    <3>1. PICK i : i \in Answers
      BY <2>3
    <3>2. Answers = {i}
      BY <3>1 DEF SendInv, OneWrite
    <3>3. Cardinality(Answers) = 1
      BY <3>2, FS_Singleton
    <3>4. Len(writes) = 0 /\ sending
      BY <2>1, <2>3 DEF SendInv, OneWrite
    <3> QED
      BY <3>3, <3>4 DEF SingleWrite
  <2> QED
    BY <2>2, <2>3
<1> QED
  BY <1>1, SendInvariant, PTL

(* With is_sending_ clear and no flush running, all that was popped has    *)
(* been sent, and the RELEASE_ASSERT of FlushSend is never reached.        *)
THEOREM NothingForgottenTheorem == Spec => []NothingForgotten
<1>1. SendInv => NothingForgotten
  BY LiesFromStart DEF SendInv, WireInv, NothingForgotten
<1> QED
  BY <1>1, SendInvariant, PTL

(* At rest, while no two pushes were in progress at once, no more waits in *)
(* pending_buffers than has been popped: the cost of counting twice.       *)
THEOREM BacklogTheorem == Spec => []BacklogBound
<1>1. SendInv => BacklogBound
  <2> SUFFICES ASSUME SendInv, AtRest, ~overlapped PROVE Len(pending) <= taken
    BY DEF BacklogBound
  <2>1. Orderly /\ mailbox = <<>> /\ ~flushing /\ \A t \in Senders : pc[t] = "idle"
    BY DEF SendInv, CountInv, AtRest, Free
  <2>2. Len(pending) \in Nat /\ taken \in Nat /\ count \in Int
    BY LenProperties DEF SendInv, TypeOK
  <2>3. Mid = 0 /\ Uncounted = 0
    BY <2>1 DEF Mid, Uncounted
  <2>4. ~FlushDue
    <3>1. DOMAIN mailbox = {}
      BY <2>1, EmptySeq
    <3> QED
      BY <2>1, <3>1 DEF FlushDue
  <2>5. ~(count > 0) /\ count = Len(pending) - taken - 0 + 0
    BY <2>1, <2>3, <2>4 DEF Orderly
  <2> QED
    BY <2>2, <2>5
<1> QED
  BY <1>1, SendInvariant, PTL

-----------------------------------------------------------------------------
(* async_write is given a view into the first chunk, not a copy.  While it *)
(* is outstanding that chunk is there, and the view is what the chunk      *)
(* holds from its start on, whatever flushes write behind it; and what the *)
(* answer moves the start by is still within the chunk.                    *)
Behind(c, n) == c # <<>> /\ Head(c).start + n <= Len(Head(c).data)

ViewHolds ==
    /\ \A i \in DOMAIN writes :
          /\ Behind(chunks, Len(writes[i]))
          /\ \A k \in 1..Len(writes[i]) :
                writes[i][k] = Head(chunks).data[Head(chunks).start + k]
    /\ \A i \in DOMAIN mailbox : mailbox[i].op = "sent" => Behind(chunks, mailbox[i].n)

(* A piece of the stream that ends within the first chunk is there. *)
LEMMA FirstHolds ==
  ASSUME NEW off, NEW w, Laid(chunks, off, stream, w), NEW n \in Nat,
         InFirst(chunks, off, w, n)
  PROVE  /\ Behind(chunks, n)
         /\ \A s : Lies(s, stream, SentUpTo(chunks, off, w)) /\ Len(s) = n =>
               \A k \in 1..n : s[k] = Head(chunks).data[Head(chunks).start + k]
<1>1. chunks # <<>> /\ SentUpTo(chunks, off, w) + n <= off[1] + Len(chunks[1].data)
  BY DEF InFirst
<1>2. 1 \in DOMAIN chunks /\ Head(chunks) = chunks[1] /\ chunks \in Seq(Chunk)
  <2>1. chunks \in Seq(Chunk) /\ Len(chunks) \in Nat /\ DOMAIN chunks = 1..Len(chunks)
    BY LenProperties DEF Laid
  <2>2. Len(chunks) > 0
    BY <1>1, <2>1, EmptySeq
  <2> QED
    BY <1>1, <2>1, <2>2
<1>3. PICK a, d, e : a = off[1] /\ d = chunks[1].data /\ e = chunks[1].start
  OBVIOUS
<1>4. Lies(d, stream, a) /\ a \in Nat /\ e \in Nat /\ Len(d) \in Nat
  <2>1. off[1] \in Nat /\ Len(chunks[1].data) \in Nat /\ chunks[1].start \in Nat
    BY <1>2, LaidFacts
  <2>2. Lies(chunks[1].data, stream, off[1])
    BY <1>2 DEF Laid
  <2> QED
    BY <1>3, <2>1, <2>2
<1>5. SentUpTo(chunks, off, w) = a + e
  BY <1>1, <1>3 DEF SentUpTo
<1>6. e + n <= Len(d)
  <2>1. (a + e) + n <= a + Len(d)
    BY <1>1, <1>3, <1>5
  <2> QED
    BY <1>4, <2>1
<1>7. ASSUME NEW s, Lies(s, stream, a + e), Len(s) = n, NEW k \in 1..n PROVE s[k] = d[e + k]
  <2>1. s[k] = stream[(a + e) + k]
    BY <1>7 DEF Lies
  <2>2. e + k \in 1..Len(d) /\ a + (e + k) = (a + e) + k
    BY <1>4, <1>6, <1>7
  <2>3. d[e + k] = stream[a + (e + k)]
    BY <1>4, <2>2 DEF Lies
  <2> QED
    BY <2>1, <2>2, <2>3
<1> QED
  BY <1>1, <1>2, <1>3, <1>5, <1>6, <1>7 DEF Behind

THEOREM ViewTheorem == Spec => []ViewHolds
<1>1. SendInv => ViewHolds
  <2> SUFFICES ASSUME SendInv PROVE ViewHolds
    OBVIOUS
  <2>1. PICK off, w : Placed(off) /\ w = Written
    BY DEF SendInv, WireInv
  <2>2. /\ Laid(chunks, off, stream, w)
        /\ \A i \in DOMAIN writes : /\ Lies(writes[i], stream, SentUpTo(chunks, off, w))
                                    /\ InFirst(chunks, off, w, Len(writes[i]))
        /\ \A i \in DOMAIN mailbox : mailbox[i].op = "sent" => InFirst(chunks, off, w, mailbox[i].n)
    BY <2>1 DEF Placed
  <2>3. ASSUME NEW i \in DOMAIN writes
        PROVE  /\ Behind(chunks, Len(writes[i]))
               /\ \A k \in 1..Len(writes[i]) :
                     writes[i][k] = Head(chunks).data[Head(chunks).start + k]
    <3>1. PICK s, n : s = writes[i] /\ n = Len(s)
      OBVIOUS
    <3>2. Lies(s, stream, SentUpTo(chunks, off, w)) /\ InFirst(chunks, off, w, n)
      BY <2>2, <2>3, <3>1
    <3>3. n \in Nat
      BY <3>1, <3>2, LenProperties DEF Lies
    <3> QED
      BY <2>2, <3>1, <3>2, <3>3, FirstHolds
  <2>4. ASSUME NEW i \in DOMAIN mailbox, mailbox[i].op = "sent"
        PROVE  Behind(chunks, mailbox[i].n)
    <3>1. mailbox[i].n \in Nat
      <4>1. mailbox \in Seq(Entry) /\ DOMAIN mailbox = 1..Len(mailbox)
        BY LenProperties DEF SendInv, TypeOK
      <4> QED
        BY <2>4, <4>1, ElementOfSeq, EntryFacts
    <3>2. InFirst(chunks, off, w, mailbox[i].n)
      BY <2>2, <2>4
    <3> QED
      BY <2>2, <3>1, <3>2, FirstHolds
  <2> QED
    BY <2>3, <2>4 DEF ViewHolds
<1> QED
  BY <1>1, SendInvariant, PTL

(* WriteRaw comes to its end: each turn of its loop writes at least one    *)
(* unit, since Next gives a chunk with room, and until it has written all  *)
(* nothing else touches the chunks; no answer drops one under it.          *)
WriteAdvances ==
    unwritten # <<>> =>
        \/ UNCHANGED <<unwritten, chunks, flushing, popped, sending>>
        \/ Len(unwritten') < Len(unwritten)

LEMMA FlushWriteAdvances ==
  ASSUME SendInv, FlushWrite
  PROVE  Len(unwritten') < Len(unwritten)
<1>1. /\ unwritten # <<>>
      /\ unwritten' = SubSeq(unwritten, WriteSize(Opened(chunks)) + 1, Len(unwritten))
  BY DEF FlushWrite
<1>2. PICK off, w : Placed(off) /\ w = Written
  BY DEF SendInv, WireInv
<1>3. PICK b : b = Opened(chunks)
  OBVIOUS
<1>4. RoomBehind(chunks, off, stream, w, b)
  <2>1. Laid(chunks, off, stream, w) /\ Solid(chunks)
    BY <1>2 DEF Placed
  <2> QED
    BY <1>3, <2>1, LaidOpened
<1>5. PICK new : /\ Laid(b, new, stream, w) /\ b # <<>> /\ Len(Last(b).data) < ChunkSize
                 /\ \A k \in 1..(Len(b) - 1) : Len(b[k].data) > 0
  BY <1>4 DEF RoomBehind
<1>6. Len(unwritten) \in Nat /\ Len(unwritten) > 0 /\ Lies(unwritten, stream, w)
  BY <1>1, <1>2, LenProperties, EmptySeq DEF SendInv, TypeOK, WireInv
<1>7. PICK n \in 1..Len(unwritten) :
        /\ n = WriteSize(b)
        /\ Len(SubSeq(unwritten, n + 1, Len(unwritten))) = Len(unwritten) - n
  BY <1>5, <1>6, LaidWritten
<1>8. Len(unwritten') = Len(unwritten) - n
  BY <1>1, <1>3, <1>7
<1> QED
  BY <1>6, <1>7, <1>8

LEMMA StepWriteAdvances ==
  ASSUME SendInv, Next
  PROVE  WriteAdvances
<1> SUFFICES ASSUME unwritten # <<>>
             PROVE  \/ UNCHANGED <<unwritten, chunks, flushing, popped, sending>>
                    \/ Len(unwritten') < Len(unwritten)
  BY DEF WriteAdvances
<1> USE DEF streamVars
<1>1. flushing /\ ~drained
  BY DEF SendInv, WireInv
<1>2. pc[Self] = "idle"
  BY <1>1 DEF SendInv, CountInv
<1>3. ASSUME NEW t \in Senders, Send(t) PROVE UNCHANGED <<unwritten, chunks, flushing, popped, sending>>
  <2>1. SendPush(t) \/ SendLink(t) => UNCHANGED <<unwritten, chunks, flushing, popped, sending>>
    BY DEF SendPush, SendLink
  <2>2. ASSUME SendCount(t) PROVE UNCHANGED <<unwritten, chunks, flushing, popped, sending>>
    <3>1. t # Self
      BY <1>2, <2>2 DEF SendCount
    <3> QED
      BY <2>2, <3>1 DEF SendCount, PostFlush
  <2> QED
    BY <1>3, <2>1, <2>2 DEF Send
<1>4. CASE FlushWrite
  BY <1>4, FlushWriteAdvances
<1>5. CASE Actor /\ ~FlushWrite
  BY <1>1, <1>5
  DEF Actor, RunFlush, FlushPop, FlushDrained, FlushEnd, OnSendCompleted, OnSendFailed, Free
<1>6. CASE Disconnect \/ Socket
  BY <1>1, <1>6 DEF Disconnect, Socket, WriteDone, WriteFails, Free
<1> QED
  BY <1>3, <1>4, <1>5, <1>6 DEF Next

THEOREM WriteRawEnds == Spec => [][WriteAdvances]_vars
<1>1. SendInv /\ [Next]_vars => [WriteAdvances]_vars
  BY StepWriteAdvances
<1> QED
  BY <1>1, SendInvariant, PTL DEF Spec
===============================================================================
