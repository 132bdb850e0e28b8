----------------------- MODULE ReceivePipelineProofs -----------------------
(***************************************************************************)
(* Proofs about ReceivePipeline, for any packets with bodies of any length *)
(* and reads of any length: what ReceiveImpl cuts out of the reads are the *)
(* peer's packets, whole, in order and none left over, and the session     *)
(* handles what was cut out of a read before it reads again.               *)
(***************************************************************************)
EXTENDS ReceivePipeline, SequenceTheorems, FiniteSetTheorems, WellFoundedInduction, TLAPS

-----------------------------------------------------------------------------
(* Induction over the naturals, for a set of them: it has no least element *)
(* outside it.                                                             *)
LEMMA NatFrom ==
  ASSUME NEW I \in SUBSET Nat, 0 \in I, \A n \in I : n + 1 \in I
  PROVE  I = Nat
<1> DEFINE T == {1..i : i \in Nat \ I}
<1> SUFFICES ASSUME Nat \ I # {} PROVE FALSE
  OBVIOUS
<1>1. T # {} /\ T \subseteq FiniteSubsetsOf(Nat)
  <2>1. ASSUME NEW i \in Nat PROVE 1..i \in FiniteSubsetsOf(Nat)
    <3>1. i \in Int /\ 1 \in Int /\ 1..i \subseteq Nat
      OBVIOUS
    <3>2. IsFiniteSet(1..i)
      BY <3>1, FS_Interval
    <3> QED
      BY <3>1, <3>2 DEF FiniteSubsetsOf
  <2> QED
    BY <2>1
<1>2. PICK x \in T : \A y \in T : ~(<<y, x>> \in StrictSubsetOrdering(Nat))
  BY <1>1, FS_StrictSubsetOrderingWellFounded, WFMin
<1>3. PICK i \in Nat \ I : x = 1..i
  OBVIOUS
<1>4. i - 1 \in Nat \ I
  <2>1. i # 0
    OBVIOUS
  <2>2. i - 1 \in Nat /\ (i - 1) + 1 = i
    BY <2>1
  <2> QED
    BY <2>2
<1>5. 1..(i - 1) \in T /\ 1..(i - 1) \subseteq 1..i /\ i \in 1..i /\ i \notin 1..(i - 1)
  BY <1>4
<1>6. <<1..(i - 1), x>> \in StrictSubsetOrdering(Nat)
  <2>1. 1..(i - 1) \in SUBSET Nat /\ 1..i \in SUBSET Nat /\ 1..(i - 1) # 1..i
    BY <1>5
  <2> QED
    BY <1>3, <1>5, <2>1 DEF StrictSubsetOrdering
<1> QED
  BY <1>2, <1>5, <1>6

-----------------------------------------------------------------------------
(* FlattenSeq satisfies the equation it is written with.                   *)
Flat(f, s, n) == \A i \in 1..n : f[i] = IF i = 1 THEN s[i] ELSE f[i - 1] \o s[i]

LEMMA FlatThere ==
  ASSUME NEW S, NEW s \in Seq(Seq(S)), NEW n \in 0..Len(s)
  PROVE  \E f \in [1..n -> Seq(S)] : Flat(f, s, n)
<1> DEFINE I == {k \in Nat : k <= Len(s) => \E f \in [1..k -> Seq(S)] : Flat(f, s, k)}
<1>1. 0 \in I
  <2>1. [i \in 1..0 |-> <<>>] \in [1..0 -> Seq(S)] /\ Flat([i \in 1..0 |-> <<>>], s, 0)
    BY DEF Flat
  <2> QED
    BY <2>1
<1>2. ASSUME NEW k \in I PROVE k + 1 \in I
  <2> SUFFICES ASSUME k + 1 <= Len(s) PROVE \E f \in [1..(k + 1) -> Seq(S)] : Flat(f, s, k + 1)
    OBVIOUS
  <2>1. k \in Nat /\ Len(s) \in Nat /\ s[k + 1] \in Seq(S)
    BY LenProperties, ElementOfSeq
  <2>2. PICK f \in [1..k -> Seq(S)] : Flat(f, s, k)
    BY <2>1
  <2>3. PICK last \in Seq(S) : last = IF k = 0 THEN s[k + 1] ELSE f[k] \o s[k + 1]
    <3>1. CASE k = 0
      BY <2>1, <3>1
    <3>2. CASE k # 0
      <4>1. f[k] \in Seq(S)
        BY <2>1, <2>2, <3>2
      <4>2. f[k] \o s[k + 1] \in Seq(S)
        BY <2>1, <4>1, ConcatProperties
      <4> QED
        BY <3>2, <4>2
    <3> QED
      BY <3>1, <3>2
  <2>4. PICK g : g = [i \in 1..(k + 1) |-> IF i <= k THEN f[i] ELSE last]
    OBVIOUS
  <2>5. g \in [1..(k + 1) -> Seq(S)]
    BY <2>1, <2>2, <2>3, <2>4
  <2>6. g[k + 1] = last /\ \A i \in 1..k : g[i] = f[i]
    BY <2>1, <2>4
  <2>7. ASSUME NEW i \in 1..(k + 1)
        PROVE  g[i] = IF i = 1 THEN s[i] ELSE g[i - 1] \o s[i]
    <3>1. CASE i = k + 1
      <4>1. CASE k = 0
        BY <2>3, <2>6, <3>1, <4>1
      <4>2. CASE k # 0
        <5>1. k \in 1..k /\ i # 1 /\ i - 1 = k
          BY <2>1, <3>1, <4>2
        <5> QED
          BY <2>3, <2>6, <3>1, <4>2, <5>1
      <4> QED
        BY <4>1, <4>2
    <3>2. CASE i # k + 1
      <4>1. i \in 1..k /\ (i # 1 => i - 1 \in 1..k)
        BY <2>1, <3>2
      <4> QED
        BY <2>2, <2>6, <4>1 DEF Flat
    <3> QED
      BY <3>1, <3>2
  <2>8. Flat(g, s, k + 1)
    BY <2>7 DEF Flat
  <2> QED
    BY <2>5, <2>8
<1>3. I = Nat
  <2>1. I \in SUBSET Nat /\ \A k \in I : k + 1 \in I
    BY <1>2
  <2> HIDE DEF I
  <2> QED
    BY <1>1, <2>1, NatFrom
<1>4. n \in I /\ n <= Len(s)
  <2>1. n \in Nat /\ n <= Len(s)
    BY LenProperties
  <2> HIDE DEF I
  <2> QED
    BY <1>3, <2>1
<1> QED
  BY <1>4

LEMMA FlatOnce ==
  ASSUME NEW s, NEW n \in Nat, NEW f, NEW g, Flat(f, s, n), Flat(g, s, n)
  PROVE  \A i \in 1..n : f[i] = g[i]
<1> DEFINE I == {k \in Nat : k \in 1..n => f[k] = g[k]}
<1>1. 0 \in I
  OBVIOUS
<1>2. ASSUME NEW k \in I PROVE k + 1 \in I
  <2> SUFFICES ASSUME k + 1 \in 1..n PROVE f[k + 1] = g[k + 1]
    OBVIOUS
  <2>1. CASE k = 0
    BY <2>1 DEF Flat
  <2>2. CASE k # 0
    <3>1. k \in 1..n /\ k + 1 # 1 /\ (k + 1) - 1 = k
      BY <2>2
    <3>2. f[k] = g[k]
      BY <3>1
    <3>3. f[k + 1] = f[k] \o s[k + 1] /\ g[k + 1] = g[k] \o s[k + 1]
      BY <3>1 DEF Flat
    <3> QED
      BY <3>2, <3>3
  <2> QED
    BY <2>1, <2>2
<1>3. I = Nat
  <2>1. I \in SUBSET Nat /\ \A k \in I : k + 1 \in I
    BY <1>2
  <2> HIDE DEF I
  <2> QED
    BY <1>1, <2>1, NatFrom
<1> QED
  BY <1>3

(* So it is the last value of the function that the equation defines.      *)
LEMMA FlattenIs ==
  ASSUME NEW S, NEW s \in Seq(Seq(S)), s # <<>>
  PROVE  \E f \in [1..Len(s) -> Seq(S)] : Flat(f, s, Len(s)) /\ FlattenSeq(s) = f[Len(s)]
<1>1. Len(s) \in Nat /\ Len(s) # 0
  BY LenProperties, EmptySeq
<1>2. PICK h \in [1..Len(s) -> Seq(S)] : Flat(h, s, Len(s))
  BY <1>1, FlatThere, SMTT(40)
<1> DEFINE Equation(f) == f = [i \in 1..Len(s) |-> IF i = 1 THEN s[i] ELSE f[i - 1] \o s[i]]
<1>3. Equation(h)
  BY <1>2 DEF Flat
<1>4. PICK f : f = CHOOSE c : Equation(c)
  OBVIOUS
<1>5. Equation(f)
  BY <1>3, <1>4
<1>6. FlattenSeq(s) = f[Len(s)]
  BY <1>1, <1>4 DEF FlattenSeq
<1>7. Flat(f, s, Len(s))
  BY <1>5 DEF Flat
<1>8. \A i \in 1..Len(s) : f[i] = h[i]
  BY <1>1, <1>2, <1>7, FlatOnce
<1>9. f \in [1..Len(s) -> Seq(S)]
  BY <1>2, <1>5, <1>8
<1> QED
  BY <1>6, <1>7, <1>9

LEMMA FlattenEmpty == FlattenSeq(<<>>) = <<>>
BY DEF FlattenSeq

LEMMA FlattenAppend ==
  ASSUME NEW S, NEW s \in Seq(Seq(S)), NEW x \in Seq(S)
  PROVE  /\ FlattenSeq(s) \in Seq(S)
         /\ FlattenSeq(Append(s, x)) = FlattenSeq(s) \o x
<1>1. PICK t : t = Append(s, x)
  OBVIOUS
<1>2. /\ t \in Seq(Seq(S)) /\ t # <<>> /\ Len(t) = Len(s) + 1 /\ t[Len(s) + 1] = x
      /\ \A i \in 1..Len(s) : t[i] = s[i]
      /\ Len(s) \in Nat
  BY <1>1, AppendProperties, LenProperties
<1>3. PICK g \in [1..Len(t) -> Seq(S)] : Flat(g, t, Len(t)) /\ FlattenSeq(t) = g[Len(t)]
  BY <1>2, FlattenIs
<1>4. CASE s = <<>>
  <2>1. Len(s) = 0 /\ Len(t) = 1 /\ 1 \in 1..Len(t)
    BY <1>2, <1>4
  <2>2. g[1] = x
    BY <1>2, <1>3, <2>1 DEF Flat
  <2>3. FlattenSeq(s) = <<>>
    BY <1>4, FlattenEmpty
  <2>4. <<>> \in Seq(S) /\ <<>> \o x = x
    BY ConcatEmptySeq
  <2> QED
    BY <1>1, <1>3, <2>1, <2>2, <2>3, <2>4
<1>5. CASE s # <<>>
  <2>1. PICK f \in [1..Len(s) -> Seq(S)] : Flat(f, s, Len(s)) /\ FlattenSeq(s) = f[Len(s)]
    BY <1>5, FlattenIs
  <2>2. Len(s) # 0 /\ Len(s) \in 1..Len(s)
    BY <1>2, <1>5, EmptySeq
  <2>3. Flat(g, s, Len(s))
    <3> SUFFICES ASSUME NEW i \in 1..Len(s)
                 PROVE  g[i] = IF i = 1 THEN s[i] ELSE g[i - 1] \o s[i]
      BY DEF Flat
    <3>1. i \in 1..Len(t) /\ t[i] = s[i]
      BY <1>2
    <3>2. g[i] = IF i = 1 THEN t[i] ELSE g[i - 1] \o t[i]
      BY <1>3, <3>1 DEF Flat
    <3> QED
      BY <3>1, <3>2
  <2>4. g[Len(s)] = f[Len(s)]
    <3>1. Len(s) \in Nat /\ Flat(f, s, Len(s)) /\ Flat(g, s, Len(s))
      BY <1>2, <2>1, <2>3
    <3>2. \A i \in 1..Len(s) : f[i] = g[i]
      BY <3>1, FlatOnce
    <3> QED
      BY <2>2, <3>2
  <2>5. g[Len(t)] = g[Len(s)] \o x
    <3>1. Len(t) \in 1..Len(t) /\ Len(t) # 1 /\ Len(t) - 1 = Len(s)
      BY <1>2, <2>2
    <3>2. g[Len(t)] = g[Len(t) - 1] \o t[Len(t)]
      BY <1>3, <3>1 DEF Flat
    <3> QED
      BY <1>2, <3>1, <3>2
  <2>6. FlattenSeq(s) \in Seq(S)
    BY <2>1, <2>2
  <2> QED
    BY <1>1, <1>3, <2>1, <2>4, <2>5, <2>6
<1> QED
  BY <1>4, <1>5

(* Two sequences, end to end.                                              *)
LEMMA ConcatParts ==
  ASSUME NEW S, NEW u \in Seq(S), NEW v \in Seq(S), NEW w, w = u \o v
  PROVE  /\ w \in Seq(S) /\ Len(w) = Len(u) + Len(v)
         /\ Len(u) \in Nat /\ Len(v) \in Nat /\ Len(w) \in Nat
         /\ \A k \in 1..Len(u) : w[k] = u[k]
         /\ \A k \in 1..Len(v) : w[Len(u) + k] = v[k]
<1>1. Len(u) \in Nat /\ Len(v) \in Nat
  BY LenProperties
<1>2. /\ w \in Seq(S) /\ Len(w) = Len(u) + Len(v)
      /\ \A k \in 1..(Len(u) + Len(v)) : w[k] = IF k <= Len(u) THEN u[k] ELSE v[k - Len(u)]
  BY ConcatProperties
<1>3. ASSUME NEW k \in 1..Len(v) PROVE w[Len(u) + k] = v[k]
  BY <1>1, <1>2
<1> QED
  BY <1>1, <1>2, <1>3

(* The first n of some sequences, end to end.                              *)
Joined(c, n) == FlattenSeq([i \in 1..n |-> c[i]])

Piece(b, d, t) == SubSeq(b, d + 1, d + t)

LEMMA PieceIs ==
  ASSUME NEW S, NEW b \in Seq(S), NEW d \in Nat, NEW t \in Nat, d + t <= Len(b)
  PROVE  /\ Piece(b, d, t) \in Seq(S) /\ Len(Piece(b, d, t)) = t
         /\ \A k \in 1..t : Piece(b, d, t)[k] = b[d + k]
<1>1. Len(b) \in Nat
  BY LenProperties
<1>2. PICK x, y : x = d + 1 /\ y = d + t
  OBVIOUS
<1>3. x \in Int /\ y \in Int /\ \A k \in x..y : k \in 1..Len(b)
  BY <1>1, <1>2
<1>4. \A k \in x..y : b[k] \in S
  BY <1>3, ElementOfSeq
<1>5. /\ SubSeq(b, x, y) \in Seq(S)
      /\ Len(SubSeq(b, x, y)) = IF x <= y THEN y - x + 1 ELSE 0
      /\ \A k \in 1..(y - x + 1) : SubSeq(b, x, y)[k] = b[x + k - 1]
  BY <1>3, <1>4, SubSeqProperties
<1>6. Piece(b, d, t) = SubSeq(b, x, y)
  BY <1>2 DEF Piece
<1>7. (IF x <= y THEN y - x + 1 ELSE 0) = t /\ y - x + 1 = t
  BY <1>2
<1>8. \A k \in 1..t : x + k - 1 = d + k
  BY <1>2
<1> QED
  BY <1>5, <1>6, <1>7, <1>8

LEMMA JoinedZero == \A c : Joined(c, 0) = <<>>
BY FlattenEmpty DEF Joined

LEMMA JoinedNext ==
  ASSUME NEW S, NEW m \in Nat, NEW c \in [1..m -> Seq(S)], NEW n \in 0..(m - 1)
  PROVE  /\ Joined(c, n) \in Seq(S) /\ Joined(c, n + 1) \in Seq(S)
         /\ Joined(c, n + 1) = Joined(c, n) \o c[n + 1]
<1>1. PICK s : s = [i \in 1..n |-> c[i]]
  OBVIOUS
<1>2. s \in Seq(Seq(S)) /\ Len(s) = n /\ \A i \in 1..n : s[i] = c[i]
  <2>1. n \in Nat /\ 1..n \subseteq 1..m
    OBVIOUS
  <2>2. s \in [1..n -> Seq(S)]
    BY <1>1, <2>1
  <2> QED
    BY <1>1, <2>1, <2>2, SeqDef, LenProperties
<1>3. c[n + 1] \in Seq(S)
  OBVIOUS
<1>4. [i \in 1..(n + 1) |-> c[i]] = Append(s, c[n + 1])
  <2>1. PICK t : t = Append(s, c[n + 1])
    OBVIOUS
  <2>2. /\ t \in Seq(Seq(S)) /\ Len(t) = n + 1 /\ t[n + 1] = c[n + 1]
        /\ \A i \in 1..n : t[i] = s[i]
    BY <1>2, <1>3, <2>1, AppendProperties
  <2>3. t = [i \in 1..(n + 1) |-> t[i]]
    BY <2>2, LenProperties
  <2>4. \A i \in 1..(n + 1) : t[i] = c[i]
    BY <1>2, <2>2
  <2> QED
    BY <2>1, <2>3, <2>4
<1>5. FlattenSeq(s) \in Seq(S) /\ FlattenSeq(Append(s, c[n + 1])) = FlattenSeq(s) \o c[n + 1]
  BY <1>2, <1>3, FlattenAppend
<1>6. FlattenSeq(s) \o c[n + 1] \in Seq(S)
  BY <1>3, <1>5, ConcatProperties
<1> QED
  BY <1>1, <1>4, <1>5, <1>6 DEF Joined

(* Joining more of them leaves what is there. *)
Parts(S, m, c) == m \in Nat /\ c \in [1..m -> Seq(S)]

LEMMA PartsNext ==
  ASSUME NEW S, NEW m, NEW c, Parts(S, m, c)
  PROVE  \A n \in 0..(m - 1) : /\ Joined(c, n) \in Seq(S)
                              /\ Joined(c, n + 1) = Joined(c, n) \o c[n + 1]
<1>1. m \in Nat /\ c \in [1..m -> Seq(S)]
  BY DEF Parts
<1>2. ASSUME NEW n \in 0..(m - 1)
      PROVE  Joined(c, n) \in Seq(S) /\ Joined(c, n + 1) = Joined(c, n) \o c[n + 1]
  BY <1>1, JoinedNext
<1> QED
  BY <1>2

LEMMA JoinedPrefix ==
  ASSUME NEW S, NEW m \in Nat, NEW c \in [1..m -> Seq(S)], NEW n \in 0..m
  PROVE  /\ Joined(c, n) \in Seq(S) /\ Joined(c, m) \in Seq(S)
         /\ Len(Joined(c, n)) \in Nat /\ Len(Joined(c, m)) \in Nat
         /\ Len(Joined(c, n)) <= Len(Joined(c, m))
         /\ \A k \in 1..Len(Joined(c, n)) : Joined(c, m)[k] = Joined(c, n)[k]
<1>0. ASSUME NEW j \in 0..(m - 1)
      PROVE  Joined(c, j) \in Seq(S) /\ Joined(c, j + 1) = Joined(c, j) \o c[j + 1]
  BY JoinedNext
<1> DEFINE Longer(j) == /\ Joined(c, j) \in Seq(S)
                        /\ Len(Joined(c, n)) <= Len(Joined(c, j))
                        /\ \A k \in 1..Len(Joined(c, n)) : Joined(c, j)[k] = Joined(c, n)[k]
           I == {d \in Nat : n + d <= m => Longer(n + d)}
<1>1. Joined(c, n) \in Seq(S) /\ Len(Joined(c, n)) \in Nat
  <2>1. CASE n = 0
    <3>1. <<>> \in Seq(S) /\ Len(<<>>) = 0
      OBVIOUS
    <3>2. Joined(c, n) = <<>>
      BY <2>1, JoinedZero
    <3> QED
      BY <3>1, <3>2
  <2>2. CASE n # 0
    <3>1. n - 1 \in 0..(m - 1) /\ (n - 1) + 1 = n
      BY <2>2
    <3>2. Joined(c, (n - 1) + 1) \in Seq(S)
      BY <3>1, JoinedNext
    <3> QED
      BY <3>1, <3>2, LenProperties
  <2> QED
    BY <2>1, <2>2
<1>2. 0 \in I
  <2>1. Longer(n)
    BY <1>1
  <2>2. n + 0 = n
    OBVIOUS
  <2> QED
    BY <2>1, <2>2
<1>3. ASSUME NEW d \in I PROVE d + 1 \in I
  <2> SUFFICES ASSUME n + (d + 1) <= m PROVE Longer(n + (d + 1))
    OBVIOUS
  <2>1. PICK j \in Nat : j = n + d
    OBVIOUS
  <2>2. j \in 0..(m - 1) /\ n + (d + 1) = j + 1 /\ n + d <= m
    BY <2>1
  <2>3. Longer(j)
    BY <2>1, <2>2
  <2>4. PICK u, v, w : u = Joined(c, j) /\ v = c[j + 1] /\ w = Joined(c, j + 1)
    OBVIOUS
  <2>5. u \in Seq(S) /\ v \in Seq(S) /\ w = u \o v
    <3>1. c[j + 1] \in Seq(S)
      BY <2>2
    <3>2. Joined(c, j) \in Seq(S) /\ Joined(c, j + 1) = Joined(c, j) \o c[j + 1]
      BY <1>0, <2>2
    <3> QED
      BY <2>4, <3>1, <3>2
  <2>6. /\ w \in Seq(S)
        /\ Len(w) = Len(u) + Len(v) /\ Len(u) \in Nat /\ Len(v) \in Nat
        /\ \A k \in 1..Len(u) : w[k] = u[k]
    BY <2>5, ConcatParts, SMTT(30)
  <2>7. Longer(j + 1)
    <3>1. Len(Joined(c, n)) <= Len(u)
      BY <2>3, <2>4
    <3>2. ASSUME NEW k \in 1..Len(Joined(c, n)) PROVE w[k] = Joined(c, n)[k]
      <4>1. k \in 1..Len(u)
        BY <1>1, <2>6, <3>1
      <4>2. u[k] = Joined(c, n)[k]
        BY <2>3, <2>4
      <4> QED
        BY <2>6, <4>1, <4>2
    <3> QED
      BY <1>1, <2>4, <2>6, <3>1, <3>2
  <2> QED
    BY <2>2, <2>7
<1>4. I = Nat
  <2>1. I \in SUBSET Nat /\ \A d \in I : d + 1 \in I
    BY <1>3
  <2> HIDE DEF I
  <2> QED
    BY <1>2, <2>1, NatFrom
<1>5. Longer(m)
  <2>1. m - n \in Nat /\ n + (m - n) = m
    OBVIOUS
  <2>2. m - n \in I
    <3> HIDE DEF I
    <3> QED
      BY <1>4, <2>1
  <2> QED
    BY <2>1, <2>2
<1> QED
  BY <1>1, <1>5, LenProperties

-----------------------------------------------------------------------------
(* The peer's stream: packet after packet.                                 *)
Unit == Nat \X Nat

Long(p, i) == HeaderSize + p[i].body
Cut(p, i) == [k \in 1..Long(p, i) |-> <<i, k>>]
Packets(p) == [i \in 1..Len(p) |-> Cut(p, i)]
Flow(p) == FlattenSeq(Packets(p))

(* Where the packets after the first n of them begin.                      *)
At(p, n) == Len(Joined(Packets(p), n))

LEMMA ConcatUnits ==
  \A u \in Seq(Unit), v \in Seq(Unit) :
     /\ u \o v \in Seq(Unit) /\ Len(u \o v) = Len(u) + Len(v)
     /\ \A k \in 1..Len(u) : (u \o v)[k] = u[k]
     /\ \A k \in 1..Len(v) : (u \o v)[Len(u) + k] = v[k]
<1>1. ASSUME NEW u \in Seq(Unit), NEW v \in Seq(Unit)
      PROVE  /\ u \o v \in Seq(Unit) /\ Len(u \o v) = Len(u) + Len(v)
             /\ \A k \in 1..Len(u) : (u \o v)[k] = u[k]
             /\ \A k \in 1..Len(v) : (u \o v)[Len(u) + k] = v[k]
  <2>1. PICK w : w = u \o v
    OBVIOUS
  <2> QED
    BY <2>1, ConcatParts
<1> QED
  BY <1>1

LEMMA CutIs ==
  ASSUME NEW p \in Seq(Packet), NEW i \in 1..Len(p)
  PROVE  /\ Long(p, i) \in Nat /\ Long(p, i) >= HeaderSize
         /\ HeaderSize \in Nat /\ HeaderSize > 0
         /\ Cut(p, i) \in Seq(Unit) /\ Len(Cut(p, i)) = Long(p, i)
         /\ \A k \in 1..Long(p, i) : Cut(p, i)[k] = <<i, k>>
<1>1. p[i] \in Packet /\ i \in Nat
  BY ElementOfSeq, LenProperties
<1>2. p[i].body \in Nat /\ HeaderSize \in Nat /\ HeaderSize > 0
  <2>1. p[i].body \in Bodies
    BY <1>1 DEF Packet
  <2> QED
    <3>1. Bodies \subseteq Nat /\ HeaderSize \in Nat \ {0}
      BY ReceiveAssumption, Zenon
    <3>2. p[i].body \in Nat
      BY <2>1, <3>1
    <3>3. HeaderSize \in Nat /\ HeaderSize > 0
      BY <3>1
    <3> QED
      BY <3>2, <3>3
<1>3. PICK n : n = Long(p, i)
  OBVIOUS
<1>4. n \in Nat /\ n >= HeaderSize
  BY <1>2, <1>3 DEF Long
<1>5. [k \in 1..n |-> <<i, k>>] \in [1..n -> Unit]
  BY <1>1, <1>4 DEF Unit
<1>6. Cut(p, i) \in Seq(Unit) /\ Len(Cut(p, i)) = n
  BY <1>3, <1>4, <1>5, SeqDef, LenProperties DEF Cut
<1> QED
  BY <1>2, <1>3, <1>4, <1>6 DEF Cut

LEMMA FlowAt ==
  ASSUME NEW p \in Seq(Packet), NEW n \in 0..Len(p)
  PROVE  /\ Flow(p) \in Seq(Unit) /\ Len(Flow(p)) \in Nat
         /\ At(p, n) \in 0..Len(Flow(p))
         /\ n = 0 => At(p, n) = 0
         /\ n = Len(p) => At(p, n) = Len(Flow(p))
         /\ Joined(Packets(p), n) = SubSeq(Flow(p), 1, At(p, n))
         /\ n < Len(p) =>
               /\ At(p, n + 1) = At(p, n) + Long(p, n + 1)
               /\ At(p, n + 1) <= Len(Flow(p))
               /\ \A k \in 1..Long(p, n + 1) : Flow(p)[At(p, n) + k] = <<n + 1, k>>
<1>1. PICK m, c : m = Len(p) /\ c = Packets(p)
  OBVIOUS
<1>2. m \in Nat /\ n \in 0..m /\ c \in [1..m -> Seq(Unit)] /\ \A i \in 1..m : c[i] = Cut(p, i)
  BY <1>1, LenProperties, CutIs DEF Packets
<1>3. Flow(p) = Joined(c, m)
  <2>1. c = [i \in 1..m |-> c[i]]
    BY <1>2
  <2> QED
    BY <1>1, <2>1 DEF Flow, Joined
<1>4. PICK u, f : u = Joined(c, n) /\ f = Flow(p)
  OBVIOUS
<1>5. /\ u \in Seq(Unit) /\ f \in Seq(Unit) /\ Len(u) \in Nat /\ Len(f) \in Nat
      /\ Len(u) <= Len(f) /\ At(p, n) = Len(u)
      /\ \A k \in 1..Len(u) : f[k] = u[k]
  <2>1. At(p, n) = Len(u)
    BY <1>1, <1>4 DEF At
  <2>2. /\ Joined(c, n) \in Seq(Unit) /\ Joined(c, m) \in Seq(Unit)
        /\ Len(Joined(c, n)) \in Nat /\ Len(Joined(c, m)) \in Nat
        /\ Len(Joined(c, n)) <= Len(Joined(c, m))
        /\ \A k \in 1..Len(Joined(c, n)) : Joined(c, m)[k] = Joined(c, n)[k]
    BY <1>2, JoinedPrefix
  <2>3. u = Joined(c, n) /\ f = Joined(c, m)
    BY <1>3, <1>4
  <2> QED
    BY <2>1, <2>2, <2>3
<1>6. u = SubSeq(f, 1, Len(u))
  <2>1. PICK v : v = SubSeq(f, 1, Len(u))
    OBVIOUS
  <2>2. /\ v \in Seq(Unit) /\ Len(v) = Len(u)
        /\ \A k \in 1..Len(u) : v[k] = f[k]
    BY <1>5, <2>1, SubSeqProperties
  <2> QED
    BY <1>5, <2>1, <2>2, SeqEqual
<1>7. n = 0 => Len(u) = 0
  BY <1>4, JoinedZero
<1>8. n = m => Len(u) = Len(f)
  BY <1>3, <1>4
<1>9. ASSUME n < m
      PROVE  /\ At(p, n + 1) = Len(u) + Long(p, n + 1)
             /\ At(p, n + 1) <= Len(f)
             /\ \A k \in 1..Long(p, n + 1) : f[Len(u) + k] = <<n + 1, k>>
  <2>1. n + 1 \in 1..m /\ n + 1 \in 0..m /\ n \in 0..(m - 1)
    BY <1>2, <1>9
  <2>2. PICK x, w : x = Cut(p, n + 1) /\ w = Joined(c, n + 1)
    OBVIOUS
  <2>3. /\ x \in Seq(Unit) /\ Len(x) = Long(p, n + 1) /\ Len(x) \in Nat
        /\ \A k \in 1..Len(x) : x[k] = <<n + 1, k>>
    BY <1>1, <2>1, <2>2, CutIs
  <2>4. w = u \o x
    <3>1. c[n + 1] = x
      BY <1>2, <2>1, <2>2
    <3>2. Joined(c, n + 1) = Joined(c, n) \o c[n + 1]
      BY <1>2, <2>1, JoinedNext, ZenonT(50)
    <3> QED
      BY <1>4, <2>2, <3>1, <3>2
  <2>5. /\ Len(w) = Len(u) + Len(x)
        /\ \A k \in 1..Len(x) : w[Len(u) + k] = x[k]
    <3>1. u \in Seq(Unit) /\ x \in Seq(Unit) /\ w = u \o x
      BY <1>5, <2>3, <2>4
    <3> QED
      BY <3>1, ConcatParts
  <2>6. Len(w) <= Len(f) /\ \A k \in 1..Len(w) : f[k] = w[k]
    <3>1. /\ Len(Joined(c, n + 1)) <= Len(Joined(c, m))
          /\ \A k \in 1..Len(Joined(c, n + 1)) : Joined(c, m)[k] = Joined(c, n + 1)[k]
      BY <1>2, <2>1, JoinedPrefix, ZenonT(40)
    <3>2. f = Joined(c, m)
      BY <1>3, <1>4
    <3> QED
      BY <2>2, <3>1, <3>2
  <2>7. ASSUME NEW k \in 1..Len(x) PROVE f[Len(u) + k] = <<n + 1, k>>
    <3>1. Len(u) + k \in 1..Len(w)
      BY <1>5, <2>3, <2>5
    <3> QED
      BY <2>3, <2>5, <2>6, <3>1
  <2> QED
    BY <1>1, <2>2, <2>3, <2>5, <2>6, <2>7 DEF At
<1> QED
  BY <1>1, <1>4, <1>5, <1>6, <1>7, <1>8, <1>9
-----------------------------------------------------------------------------
(* ReceiveImpl, a turn of its loop at a time.                              *)

(* What was handed over: the first packets, whole. *)
Framed(p, fr) ==
    /\ fr \in Seq(Seq(Unit)) /\ Len(fr) <= Len(p)
    /\ \A j \in 1..Len(fr) : fr[j] = Cut(p, j)

(* n packets have been handed over, of the units that arrived the last     *)
(* left ones are at the end of the buffer, and the pending stream is what  *)
(* lies between: the start of the next packet, never the whole of it.      *)
Placed(p, n, pend, hd, ar, buf, left) ==
    /\ n \in 0..Len(p) /\ ar \in 0..Len(Flow(p))
    /\ pend \in Seq(Unit) /\ buf \in Seq(Unit) /\ left \in 0..Len(buf)
    /\ At(p, n) + Len(pend) + left = ar
    /\ \A k \in 1..Len(pend) : pend[k] = Flow(p)[At(p, n) + k]
    /\ \A k \in 1..left : buf[Len(buf) - left + k] = Flow(p)[ar - left + k]
    /\ pend # <<>> => n < Len(p) /\ Len(pend) < Long(p, n + 1)
    /\ hd = IF Len(pend) < HeaderSize THEN 0 ELSE n + 1

LEMMA FramedNext ==
  ASSUME NEW p \in Seq(Packet), NEW fr, Framed(p, fr), Len(fr) < Len(p),
         NEW x, x = Cut(p, Len(fr) + 1)
  PROVE  /\ Framed(p, Append(fr, x)) /\ Len(Append(fr, x)) = Len(fr) + 1
         /\ x \in Seq(Unit) /\ x[1] = <<Len(fr) + 1, 1>>
<1>1. fr \in Seq(Seq(Unit)) /\ Len(fr) \in Nat /\ Len(p) \in Nat
  BY LenProperties DEF Framed
<1>2. Len(fr) + 1 \in 1..Len(p)
  BY <1>1
<1>3. x \in Seq(Unit) /\ x[1] = <<Len(fr) + 1, 1>>
  <2>1. /\ x \in Seq(Unit) /\ Long(p, Len(fr) + 1) \in Nat /\ Long(p, Len(fr) + 1) >= HeaderSize
        /\ HeaderSize \in Nat /\ HeaderSize > 0
        /\ \A k \in 1..Long(p, Len(fr) + 1) : x[k] = <<Len(fr) + 1, k>>
    BY <1>2, CutIs
  <2>2. 1 \in 1..Long(p, Len(fr) + 1)
    BY <2>1
  <2> QED
    BY <2>1, <2>2
<1>4. PICK gr : gr = Append(fr, x)
  OBVIOUS
<1>5. /\ gr \in Seq(Seq(Unit)) /\ Len(gr) = Len(fr) + 1 /\ gr[Len(fr) + 1] = x
      /\ \A j \in 1..Len(fr) : gr[j] = fr[j]
  BY <1>1, <1>3, <1>4, AppendProperties
<1>6. ASSUME NEW j \in 1..Len(gr) PROVE gr[j] = Cut(p, j)
  <2>1. CASE j = Len(fr) + 1
    BY <1>5, <2>1
  <2>2. CASE j # Len(fr) + 1
    <3>1. j \in 1..Len(fr)
      BY <1>1, <1>5, <2>2
    <3> QED
      BY <1>5, <3>1 DEF Framed
  <2> QED
    BY <2>1, <2>2
<1>7. Framed(p, gr)
  <2>1. Len(gr) <= Len(p)
    BY <1>1, <1>5
  <2> QED
    BY <1>5, <1>6, <2>1 DEF Framed
<1> QED
  BY <1>3, <1>4, <1>5, <1>7

LEMMA FramedFlat ==
  ASSUME NEW p \in Seq(Packet), NEW fr, Framed(p, fr)
  PROVE  FlattenSeq(fr) = Joined(Packets(p), Len(fr))
<1>1. fr \in Seq(Seq(Unit)) /\ Len(fr) \in Nat /\ Len(p) \in Nat /\ Len(fr) <= Len(p)
  BY LenProperties DEF Framed
<1>2. \A j \in 1..Len(fr) : fr[j] = Packets(p)[j]
  <2>1. ASSUME NEW j \in 1..Len(fr) PROVE fr[j] = Packets(p)[j]
    <3>1. j \in 1..Len(p)
      BY <1>1
    <3>2. fr[j] = Cut(p, j)
      BY DEF Framed
    <3> QED
      BY <3>1, <3>2 DEF Packets
  <2> QED
    BY <2>1
<1>3. fr = [j \in 1..Len(fr) |-> fr[j]]
  BY <1>1, LenProperties
<1>4. fr = [j \in 1..Len(fr) |-> Packets(p)[j]]
  BY <1>2, <1>3
<1> QED
  BY <1>4 DEF Joined

LEMMA PlacedNumbers ==
  ASSUME NEW p \in Seq(Packet), NEW n, NEW pend, NEW hd, NEW ar, NEW buf, NEW left,
         Placed(p, n, pend, hd, ar, buf, left)
  PROVE  /\ n \in Nat /\ n \in 0..Len(p) /\ Len(p) \in Nat /\ ar \in Nat /\ left \in Nat
         /\ Len(pend) \in Nat /\ Len(buf) \in Nat /\ left <= Len(buf)
         /\ Len(Flow(p)) \in Nat /\ Flow(p) \in Seq(Unit) /\ ar <= Len(Flow(p))
         /\ At(p, n) \in Nat /\ At(p, n) <= Len(Flow(p))
         /\ left > 0 => n < Len(p)
<1>1. /\ n \in 0..Len(p) /\ ar \in 0..Len(Flow(p))
      /\ pend \in Seq(Unit) /\ buf \in Seq(Unit) /\ left \in 0..Len(buf)
      /\ At(p, n) + Len(pend) + left = ar
  BY DEF Placed
<1>2. Len(p) \in Nat /\ Len(pend) \in Nat /\ Len(buf) \in Nat
  BY <1>1, LenProperties
<1>3. /\ Flow(p) \in Seq(Unit) /\ Len(Flow(p)) \in Nat /\ At(p, n) \in 0..Len(Flow(p))
      /\ n = Len(p) => At(p, n) = Len(Flow(p))
  BY <1>1, FlowAt
<1>4. ASSUME left > 0 PROVE n < Len(p)
  <2>1. At(p, n) < Len(Flow(p))
    BY <1>1, <1>2, <1>3, <1>4
  <2>2. n # Len(p)
    BY <1>3, <2>1
  <2> QED
    BY <1>1, <1>2, <2>2
<1> QED
  BY <1>1, <1>2, <1>3, <1>4

(* The pending stream with the next t units of the buffer. *)
Takes(p, n, pend, hd, ar, buf, left, t, q) ==
    /\ p \in Seq(Packet) /\ Placed(p, n, pend, hd, ar, buf, left)
    /\ t \in 1..left /\ q = pend \o Piece(buf, Len(buf) - left, t)

LEMMA TakesNumbers ==
  ASSUME NEW p, NEW n, NEW pend, NEW hd, NEW ar, NEW buf, NEW left, NEW t, NEW q,
         Takes(p, n, pend, hd, ar, buf, left, t, q)
  PROVE  /\ n \in Nat /\ Len(p) \in Nat /\ ar \in Nat /\ left \in Nat /\ n < Len(p)
         /\ Len(pend) \in Nat /\ Len(buf) \in Nat /\ left <= Len(buf) /\ At(p, n) \in Nat
         /\ t \in Nat /\ t >= 1 /\ t <= left /\ ar <= Len(Flow(p)) /\ Len(Flow(p)) \in Nat
         /\ p \in Seq(Packet) /\ pend \in Seq(Unit) /\ buf \in Seq(Unit)
         /\ At(p, n) + Len(pend) + left = ar
<1>1. p \in Seq(Packet) /\ Placed(p, n, pend, hd, ar, buf, left) /\ t \in 1..left
  BY DEF Takes
<1>2. /\ n \in Nat /\ Len(p) \in Nat /\ ar \in Nat /\ left \in Nat
      /\ Len(pend) \in Nat /\ Len(buf) \in Nat /\ left <= Len(buf) /\ At(p, n) \in Nat
      /\ ar <= Len(Flow(p)) /\ Len(Flow(p)) \in Nat
      /\ left > 0 => n < Len(p)
  BY <1>1, PlacedNumbers
<1>3. t \in Nat /\ t >= 1 /\ t <= left /\ left > 0
  BY <1>1, <1>2
<1>4. pend \in Seq(Unit) /\ buf \in Seq(Unit) /\ At(p, n) + Len(pend) + left = ar
  BY <1>1 DEF Placed
<1> QED
  BY <1>1, <1>2, <1>3, <1>4

LEMMA TakesPiece ==
  ASSUME NEW p, NEW n, NEW pend, NEW hd, NEW ar, NEW buf, NEW left, NEW t, NEW q,
         Takes(p, n, pend, hd, ar, buf, left, t, q)
  PROVE  /\ q \in Seq(Unit) /\ Len(q) = Len(pend) + t /\ n < Len(p) /\ n + 1 \in 1..Len(p)
         /\ \A k \in 1..Len(q) : q[k] = Flow(p)[At(p, n) + k]
         /\ \A k \in 1..Len(q) : k <= Long(p, n + 1) => q[k] = <<n + 1, k>>
         /\ q[1] = <<n + 1, 1>>
         /\ Long(p, n + 1) \in Nat /\ Long(p, n + 1) >= HeaderSize
         /\ HeaderSize \in Nat /\ HeaderSize > 0
<1>1. /\ n \in Nat /\ Len(p) \in Nat /\ ar \in Nat /\ left \in Nat /\ n < Len(p)
      /\ Len(pend) \in Nat /\ Len(buf) \in Nat /\ left <= Len(buf) /\ At(p, n) \in Nat
      /\ t \in Nat /\ t >= 1 /\ t <= left
      /\ p \in Seq(Packet) /\ pend \in Seq(Unit) /\ buf \in Seq(Unit)
  BY TakesNumbers, Zenon
<1>0. At(p, n) + Len(pend) + left = ar
  BY TakesNumbers
<1>2. /\ \A k \in 1..Len(pend) : pend[k] = Flow(p)[At(p, n) + k]
      /\ \A k \in 1..left : buf[Len(buf) - left + k] = Flow(p)[ar - left + k]
  BY DEF Takes, Placed
<1>4. PICK d \in Nat : d = Len(buf) - left
  <2>1. Len(buf) - left \in Nat
    BY <1>1
  <2> QED
    BY <2>1
<1>5. PICK r : r = Piece(buf, d, t) /\ q = pend \o r
  BY <1>4 DEF Takes
<1>3. r \in Seq(Unit) /\ Len(r) = t /\ \A k \in 1..t : r[k] = buf[Len(buf) - left + k]
  <2>1. d + t <= Len(buf)
    BY <1>1, <1>4
  <2>2. buf \in Seq(Unit) /\ d \in Nat /\ t \in Nat
    BY <1>1
  <2>3. /\ Piece(buf, d, t) \in Seq(Unit) /\ Len(Piece(buf, d, t)) = t
        /\ \A k \in 1..t : Piece(buf, d, t)[k] = buf[d + k]
    BY <2>1, <2>2, PieceIs
  <2>4. r \in Seq(Unit) /\ Len(r) = t /\ \A k \in 1..t : r[k] = buf[d + k]
    BY <1>5, <2>3
  <2> QED
    BY <1>4, <2>4
<1>6. /\ q \in Seq(Unit) /\ Len(q) = Len(pend) + t
      /\ \A k \in 1..Len(pend) : q[k] = pend[k]
      /\ \A k \in 1..t : q[Len(pend) + k] = r[k]
  <2>1. pend \in Seq(Unit) /\ r \in Seq(Unit) /\ q = pend \o r
    BY <1>1, <1>3, <1>5
  <2>2. /\ q \in Seq(Unit) /\ Len(q) = Len(pend) + Len(r)
        /\ \A k \in 1..Len(pend) : q[k] = pend[k]
        /\ \A k \in 1..Len(r) : q[Len(pend) + k] = r[k]
    BY <2>1, ConcatParts
  <2> QED
    BY <1>3, <2>2
<1>7. ASSUME NEW k \in 1..Len(q) PROVE q[k] = Flow(p)[At(p, n) + k]
  <2>1. CASE k <= Len(pend)
    <3>1. k \in 1..Len(pend)
      BY <1>1, <1>6, <2>1
    <3> QED
      BY <1>2, <1>6, <3>1
  <2>2. CASE k > Len(pend)
    <3>1. PICK j \in Nat : j = k - Len(pend)
      <4>1. k - Len(pend) \in Nat
        BY <1>1, <1>6, <2>2
      <4> QED
        BY <4>1
    <3>2. j \in 1..t /\ j \in 1..left /\ k = Len(pend) + j
      BY <1>1, <1>6, <2>2, <3>1
    <3>3. ar - left + j = At(p, n) + k
      <4>1. PICK a \in Nat, b \in Nat : a = At(p, n) /\ b = Len(pend)
        BY <1>1
      <4>2. a + b + left = ar /\ k = b + j
        BY <1>0, <3>2, <4>1
      <4>3. left \in Nat /\ ar \in Nat /\ k \in Nat
        BY <1>1, <3>2
      <4>4. ar - left + j = a + k
        BY <4>2, <4>3
      <4> QED
        BY <4>1, <4>4
    <3>4. r[j] = Flow(p)[ar - left + j]
      BY <1>2, <1>3, <3>2
    <3> QED
      BY <1>6, <3>2, <3>3, <3>4
  <2> QED
    BY <1>1, <1>6, <2>1, <2>2
<1>8. n + 1 \in 1..Len(p) /\ n \in 0..Len(p)
  BY <1>1
<1>9. /\ Long(p, n + 1) \in Nat /\ Long(p, n + 1) >= HeaderSize
      /\ HeaderSize \in Nat /\ HeaderSize > 0
  <2>1. PICK m \in 1..Len(p) : m = n + 1
    BY <1>8
  <2>2. /\ Long(p, m) \in Nat /\ Long(p, m) >= HeaderSize
        /\ HeaderSize \in Nat /\ HeaderSize > 0
    BY <1>1, CutIs
  <2> QED
    BY <2>1, <2>2
<1>10. ASSUME NEW k \in 1..Len(q), k <= Long(p, n + 1) PROVE q[k] = <<n + 1, k>>
  <2>1. k \in 1..Long(p, n + 1)
    BY <1>1, <1>6, <1>9, <1>10
  <2>2. Flow(p)[At(p, n) + k] = <<n + 1, k>>
    BY <1>1, <1>8, <2>1, FlowAt
  <2> QED
    BY <1>7, <2>2
<1>11. q[1] = <<n + 1, 1>>
  <2>1. 1 \in 1..Len(q) /\ 1 <= Long(p, n + 1)
    BY <1>1, <1>6, <1>9
  <2> QED
    BY <1>10, <2>1
<1> QED
  BY <1>1, <1>6, <1>7, <1>8, <1>9, <1>10, <1>11

LEMMA TakesFirst ==
  ASSUME NEW p, NEW n, NEW pend, NEW hd, NEW ar, NEW buf, NEW left, NEW t, NEW q,
         Takes(p, n, pend, hd, ar, buf, left, t, q)
  PROVE  q[1][1] = n + 1
<1>1. q[1] = <<n + 1, 1>>
  BY TakesPiece
<1> QED
  BY <1>1

(* A turn that leaves the next packet unfinished ...                       *)
LEMMA TakePart ==
  ASSUME NEW p, NEW n, NEW pend, NEW hd, NEW ar, NEW buf, NEW left, NEW t, NEW q,
         Takes(p, n, pend, hd, ar, buf, left, t, q),
         Len(pend) + t < Long(p, n + 1),
         NEW h, h = IF Len(q) < HeaderSize THEN 0 ELSE n + 1
  PROVE  Placed(p, n, q, h, ar, buf, left - t)
<1>1. /\ q \in Seq(Unit) /\ Len(q) = Len(pend) + t /\ n < Len(p)
      /\ \A k \in 1..Len(q) : q[k] = Flow(p)[At(p, n) + k]
  BY TakesPiece
<1>2. /\ n \in 0..Len(p) /\ ar \in 0..Len(Flow(p)) /\ buf \in Seq(Unit)
      /\ \A k \in 1..left : buf[Len(buf) - left + k] = Flow(p)[ar - left + k]
  BY DEF Takes, Placed
<1>3. /\ left \in Nat /\ ar \in Nat /\ Len(pend) \in Nat /\ Len(buf) \in Nat
      /\ left <= Len(buf) /\ At(p, n) \in Nat /\ t \in Nat /\ t >= 1 /\ t <= left
      /\ At(p, n) + Len(pend) + left = ar
  BY TakesNumbers
<1>4. PICK l : l = left - t
  OBVIOUS
<1>5. l \in 0..Len(buf) /\ At(p, n) + Len(q) + l = ar
  <2>1. Len(q) = Len(pend) + t
    BY <1>1
  <2> QED
    BY <1>3, <1>4, <2>1
<1>6. ASSUME NEW k \in 1..l PROVE buf[Len(buf) - l + k] = Flow(p)[ar - l + k]
  <2>1. /\ t + k \in 1..left /\ Len(buf) - left + (t + k) = Len(buf) - l + k
        /\ ar - left + (t + k) = ar - l + k
    BY <1>3, <1>4
  <2> QED
    BY <1>2, <2>1
<1> QED
  BY <1>1, <1>2, <1>4, <1>5, <1>6 DEF Placed

(* ... and one that completes it. *)
LEMMA TakeWhole ==
  ASSUME NEW p, NEW n, NEW pend, NEW hd, NEW ar, NEW buf, NEW left, NEW t, NEW q,
         Takes(p, n, pend, hd, ar, buf, left, t, q),
         Len(pend) + t = Long(p, n + 1)
  PROVE  q = Cut(p, n + 1) /\ Placed(p, n + 1, <<>>, 0, ar, buf, left - t)
<1>1. /\ q \in Seq(Unit) /\ Len(q) = Len(pend) + t /\ n < Len(p) /\ n + 1 \in 1..Len(p)
      /\ \A k \in 1..Len(q) : k <= Long(p, n + 1) => q[k] = <<n + 1, k>>
      /\ HeaderSize \in Nat /\ HeaderSize > 0
  BY TakesPiece
<1>2. /\ n \in 0..Len(p) /\ ar \in 0..Len(Flow(p)) /\ buf \in Seq(Unit)
      /\ \A k \in 1..left : buf[Len(buf) - left + k] = Flow(p)[ar - left + k]
  BY DEF Takes, Placed
<1>3. /\ n \in Nat /\ left \in Nat /\ ar \in Nat /\ Len(pend) \in Nat /\ Len(buf) \in Nat
      /\ left <= Len(buf) /\ At(p, n) \in Nat /\ Len(p) \in Nat
      /\ t \in Nat /\ t >= 1 /\ t <= left /\ At(p, n) + Len(pend) + left = ar
      /\ p \in Seq(Packet)
  BY TakesNumbers
<1>4. PICK l, e, m : l = left - t /\ e = <<>> /\ m = n + 1
  OBVIOUS
<1>5. q = Cut(p, m)
  <2>1. /\ Cut(p, m) \in Seq(Unit) /\ Len(Cut(p, m)) = Long(p, m)
        /\ \A k \in 1..Long(p, m) : Cut(p, m)[k] = <<m, k>>
    BY <1>1, <1>3, <1>4, CutIs
  <2>3. Len(q) = Long(p, m) /\ Len(q) \in Nat
    BY <1>1, <1>3, <1>4
  <2>2. ASSUME NEW k \in 1..Len(q) PROVE q[k] = Cut(p, m)[k]
    <3>1. k \in 1..Long(p, m) /\ k <= Long(p, m)
      BY <2>3
    <3>2. q[k] = <<m, k>>
      BY <1>1, <1>4, <3>1
    <3> QED
      BY <2>1, <3>1, <3>2
  <2> QED
    BY <1>1, <2>1, <2>2, <2>3, SeqEqual
<1>6. At(p, m) = At(p, n) + Long(p, m)
  BY <1>1, <1>2, <1>3, <1>4, FlowAt
<1>7. e \in Seq(Unit) /\ Len(e) = 0
  BY <1>4
<1>8. l \in 0..Len(buf) /\ At(p, m) + Len(e) + l = ar
  <2>1. l \in 0..Len(buf)
    BY <1>3, <1>4
  <2>2. PICK a, b, c : a = At(p, n) /\ b = Len(pend) /\ c = Long(p, m)
    OBVIOUS
  <2>3. /\ c = b + t /\ a + b + left = ar /\ l = left - t
        /\ a \in Nat /\ b \in Nat
    BY <1>3, <1>4, <2>2
  <2>4. a + c + 0 + l = ar
    BY <1>3, <2>3
  <2> QED
    BY <1>6, <1>7, <2>1, <2>2, <2>4
<1>9. ASSUME NEW k \in 1..l PROVE buf[Len(buf) - l + k] = Flow(p)[ar - l + k]
  <2>1. /\ t + k \in 1..left /\ Len(buf) - left + (t + k) = Len(buf) - l + k
        /\ ar - left + (t + k) = ar - l + k
    BY <1>3, <1>4
  <2> QED
    BY <1>2, <2>1
<1>10. Placed(p, m, e, 0, ar, buf, l)
  <2>1. m \in 0..Len(p) /\ Len(e) < HeaderSize
    BY <1>1, <1>3, <1>4, <1>7
  <2>2. \A k \in 1..Len(e) : e[k] = Flow(p)[At(p, m) + k]
    BY <1>7
  <2> QED
    BY <1>2, <1>4, <1>7, <1>8, <1>9, <2>1, <2>2 DEF Placed
<1> QED
  BY <1>4, <1>5, <1>10

(* A read, when the buffer was used up. *)
LEMMA ReadMore ==
  ASSUME NEW p \in Seq(Packet), NEW n, NEW pend, NEW hd, NEW ar, NEW buf,
         Placed(p, n, pend, hd, ar, buf, 0),
         NEW m \in 1..(Len(Flow(p)) - ar), NEW b, b = Piece(Flow(p), ar, m)
  PROVE  Placed(p, n, pend, hd, ar + m, b, m) /\ Len(b) = m
<1>1. /\ Len(Flow(p)) \in Nat /\ Flow(p) \in Seq(Unit) /\ ar \in Nat /\ ar <= Len(Flow(p))
      /\ At(p, n) \in Nat /\ Len(pend) \in Nat
  BY PlacedNumbers
<1>2. m \in Nat /\ m >= 1 /\ ar + m <= Len(Flow(p))
  BY <1>1
<1>3. b \in Seq(Unit) /\ Len(b) = m /\ \A k \in 1..m : b[k] = Flow(p)[ar + k]
  <2>1. Flow(p) \in Seq(Unit) /\ ar \in Nat /\ m \in Nat /\ ar + m <= Len(Flow(p))
    BY <1>1, <1>2
  <2>2. /\ Piece(Flow(p), ar, m) \in Seq(Unit) /\ Len(Piece(Flow(p), ar, m)) = m
        /\ \A k \in 1..m : Piece(Flow(p), ar, m)[k] = Flow(p)[ar + k]
    BY <2>1, PieceIs
  <2> QED
    BY <2>2
<1>4. /\ n \in 0..Len(p) /\ pend \in Seq(Unit)
      /\ At(p, n) + Len(pend) + 0 = ar
      /\ \A k \in 1..Len(pend) : pend[k] = Flow(p)[At(p, n) + k]
      /\ pend # <<>> => n < Len(p) /\ Len(pend) < Long(p, n + 1)
      /\ hd = IF Len(pend) < HeaderSize THEN 0 ELSE n + 1
  BY DEF Placed
<1>5. PICK a : a = ar + m
  OBVIOUS
<1>6. a \in 0..Len(Flow(p)) /\ At(p, n) + Len(pend) + m = a /\ m \in 0..Len(b)
  BY <1>1, <1>2, <1>3, <1>4, <1>5, SMTT(30)
<1>7. ASSUME NEW k \in 1..m PROVE b[Len(b) - m + k] = Flow(p)[a - m + k]
  <2>1. Len(b) - m + k = k /\ a - m + k = ar + k
    BY <1>1, <1>2, <1>3, <1>5
  <2> QED
    BY <1>3, <2>1
<1>8. Placed(p, n, pend, hd, a, b, m)
  BY <1>3, <1>4, <1>6, <1>7 DEF Placed
<1> QED
  BY <1>3, <1>5, <1>8

-----------------------------------------------------------------------------
(* The packets the session gets of them, in order.                         *)

Kept(p, i) == IF p[i].kind \in {"good", "unhandled"} THEN <<i>> ELSE <<>>
Due(p) == FlattenSeq([i \in 1..Len(p) |-> Kept(p, i)])
Given(p, fr) == FlattenSeq([j \in 1..Len(fr) |-> Kept(p, fr[j][1][1])])

Leads(u, v) ==
    /\ u \in Seq(Nat) /\ v \in Seq(Nat) /\ Len(u) <= Len(v)
    /\ \A k \in 1..Len(u) : v[k] = u[k]

LEMMA LeadsPrefix ==
  ASSUME NEW u, NEW v, Leads(u, v)
  PROVE  IsPrefix(u, v)
<1>1. /\ u \in Seq(Nat) /\ v \in Seq(Nat) /\ Len(u) \in Nat /\ Len(v) \in Nat
      /\ Len(u) <= Len(v) /\ \A k \in 1..Len(u) : v[k] = u[k]
  BY LenProperties DEF Leads
<1>2. PICK l, s, t : l = Len(u) /\ s = Piece(u, 0, l) /\ t = Piece(v, 0, l)
  OBVIOUS
<1>3. s \in Seq(Nat) /\ Len(s) = l /\ \A k \in 1..l : s[k] = u[0 + k]
  <2>1. /\ 0 \in Nat /\ 0 + l <= Len(u) /\ l \in Nat /\ u \in Seq(Nat)
    BY <1>1, <1>2
  <2>2. /\ Piece(u, 0, l) \in Seq(Nat) /\ Len(Piece(u, 0, l)) = l
        /\ \A k \in 1..l : Piece(u, 0, l)[k] = u[0 + k]
    BY <2>1, PieceIs
  <2> QED
    BY <1>2, <2>2
<1>4. t \in Seq(Nat) /\ Len(t) = l /\ \A k \in 1..l : t[k] = v[0 + k]
  <2>1. /\ 0 \in Nat /\ 0 + l <= Len(v) /\ l \in Nat /\ v \in Seq(Nat)
    BY <1>1, <1>2
  <2>2. /\ Piece(v, 0, l) \in Seq(Nat) /\ Len(Piece(v, 0, l)) = l
        /\ \A k \in 1..l : Piece(v, 0, l)[k] = v[0 + k]
    BY <2>1, PieceIs
  <2> QED
    BY <1>2, <2>2
<1>5. \A k \in 1..l : 0 + k = k
  OBVIOUS
<1>6. s = t
  <2>1. \A k \in 1..Len(s) : s[k] = t[k]
    BY <1>1, <1>2, <1>3, <1>4, <1>5
  <2> QED
    BY <1>3, <1>4, <2>1, SeqEqual
<1>7. SubSeq(u, 1, Len(u)) = SubSeq(v, 1, Len(u))
  <2>1. 0 + 1 = 1 /\ 0 + l = l
    BY <1>2
  <2> QED
    BY <1>2, <1>6, <2>1 DEF Piece
<1> QED
  BY <1>1, <1>7 DEF IsPrefix

LEMMA LeadsOn ==
  ASSUME NEW u, NEW v, Leads(u, v), NEW w \in Seq(Nat), NEW x, x = v \o w
  PROVE  Leads(u, x)
<1>1. /\ u \in Seq(Nat) /\ v \in Seq(Nat) /\ Len(u) \in Nat /\ Len(v) \in Nat
      /\ Len(u) <= Len(v) /\ \A k \in 1..Len(u) : v[k] = u[k]
  BY LenProperties DEF Leads
<1>2. /\ x \in Seq(Nat) /\ Len(x) = Len(v) + Len(w) /\ Len(w) \in Nat
      /\ \A k \in 1..Len(v) : x[k] = v[k]
  BY <1>1, ConcatParts
<1>3. \A k \in 1..Len(u) : k \in 1..Len(v)
  BY <1>1
<1>4. \A k \in 1..Len(u) : x[k] = u[k]
  BY <1>1, <1>2, <1>3
<1>5. Len(u) <= Len(x)
  BY <1>1, <1>2
<1> QED
  BY <1>1, <1>2, <1>4, <1>5 DEF Leads

LEMMA LeadsFirst ==
  ASSUME NEW u \in Seq(Nat), NEW w \in Seq(Nat), NEW v, v = u \o w
  PROVE  Leads(u, v)
<1>1. Len(u) \in Nat
  BY LenProperties
<1>2. Leads(u, u)
  BY <1>1 DEF Leads
<1> QED
  BY <1>2, LeadsOn

LEMMA LeadsTrans ==
  ASSUME NEW u, NEW v, NEW x, Leads(u, v), Leads(v, x)
  PROVE  Leads(u, x)
<1>1. /\ u \in Seq(Nat) /\ v \in Seq(Nat) /\ Len(u) \in Nat /\ Len(v) \in Nat
      /\ Len(u) <= Len(v) /\ \A k \in 1..Len(u) : v[k] = u[k]
  BY LenProperties DEF Leads
<1>2. /\ x \in Seq(Nat) /\ Len(v) <= Len(x) /\ Len(x) \in Nat
      /\ \A k \in 1..Len(v) : x[k] = v[k]
  BY LenProperties DEF Leads
<1>3. \A k \in 1..Len(u) : k \in 1..Len(v)
  BY <1>1
<1>4. \A k \in 1..Len(u) : x[k] = u[k]
  BY <1>1, <1>2, <1>3
<1>5. Len(u) <= Len(x)
  BY <1>1, <1>2
<1> QED
  BY <1>1, <1>2, <1>4, <1>5 DEF Leads

Orders(p) == [i \in 1..Len(p) |-> Kept(p, i)]

LEMMA OrdersAre ==
  ASSUME NEW p \in Seq(Packet)
  PROVE  /\ Orders(p) \in [1..Len(p) -> Seq(Nat)] /\ Len(p) \in Nat
         /\ \A i \in 1..Len(p) : Orders(p)[i] = Kept(p, i) /\ Kept(p, i) \in Seq(Nat)
<1>1. Len(p) \in Nat
  BY LenProperties
<1>2. ASSUME NEW i \in 1..Len(p) PROVE Kept(p, i) \in Seq(Nat)
  <2>1. i \in Nat
    BY <1>1
  <2>2. <<i>> \in Seq(Nat) /\ <<>> \in Seq(Nat)
    BY <2>1
  <2> QED
    BY <2>2 DEF Kept
<1> QED
  BY <1>1, <1>2 DEF Orders

LEMMA OrdersNext ==
  ASSUME NEW p \in Seq(Packet), NEW n \in 0..(Len(p) - 1)
  PROVE  /\ Joined(Orders(p), n) \in Seq(Nat)
         /\ Joined(Orders(p), n + 1) = Joined(Orders(p), n) \o Orders(p)[n + 1]
<1>1. Parts(Nat, Len(p), Orders(p)) /\ n \in 0..(Len(p) - 1)
  BY OrdersAre DEF Parts
<1> QED
  BY <1>1, PartsNext

LEMMA GivenIs ==
  ASSUME NEW p \in Seq(Packet), NEW fr, Framed(p, fr)
  PROVE  Given(p, fr) = Joined(Orders(p), Len(fr))
<1>1. fr \in Seq(Seq(Unit)) /\ Len(fr) \in Nat /\ Len(p) \in Nat /\ Len(fr) <= Len(p)
  BY LenProperties DEF Framed
<1>2. ASSUME NEW j \in 1..Len(fr) PROVE Kept(p, fr[j][1][1]) = Orders(p)[j]
  <2>1. j \in 1..Len(p)
    BY <1>1
  <2>2. fr[j] = Cut(p, j)
    BY DEF Framed
  <2>3. Cut(p, j)[1] = <<j, 1>>
    <3>1. /\ Long(p, j) \in Nat /\ Long(p, j) >= HeaderSize
          /\ HeaderSize \in Nat /\ HeaderSize > 0
          /\ \A k \in 1..Long(p, j) : Cut(p, j)[k] = <<j, k>>
      BY <2>1, CutIs
    <3>2. 1 \in 1..Long(p, j)
      BY <3>1
    <3> QED
      BY <3>1, <3>2
  <2>4. fr[j][1][1] = j
    BY <2>2, <2>3
  <2> QED
    BY <2>1, <2>4, OrdersAre
<1>3. [j \in 1..Len(fr) |-> Kept(p, fr[j][1][1])] = [j \in 1..Len(fr) |-> Orders(p)[j]]
  BY <1>2
<1> QED
  BY <1>3 DEF Given, Joined

LEMMA GivenNext ==
  ASSUME NEW p \in Seq(Packet), NEW fr, Framed(p, fr), Len(fr) < Len(p),
         NEW m, m = Len(fr) + 1, NEW gr, gr = Append(fr, Cut(p, m))
  PROVE  /\ Given(p, fr) \in Seq(Nat) /\ Kept(p, m) \in Seq(Nat)
         /\ Given(p, gr) = Given(p, fr) \o Kept(p, m)
<1>1. Len(fr) \in Nat /\ Len(p) \in Nat
  BY LenProperties DEF Framed
<1>2. m \in 1..Len(p) /\ Len(fr) \in 0..(Len(p) - 1)
  BY <1>1
<1>3. Framed(p, gr) /\ Len(gr) = m
  <2>1. PICK x : x = Cut(p, Len(fr) + 1)
    OBVIOUS
  <2>2. Framed(p, Append(fr, x)) /\ Len(Append(fr, x)) = Len(fr) + 1
    BY <2>1, FramedNext
  <2> QED
    BY <2>1, <2>2
<1>4. Given(p, gr) = Joined(Orders(p), m) /\ Given(p, fr) = Joined(Orders(p), Len(fr))
  BY <1>3, GivenIs
<1>5. /\ Orders(p) \in [1..Len(p) -> Seq(Nat)]
      /\ Orders(p)[m] = Kept(p, m) /\ Kept(p, m) \in Seq(Nat)
  BY <1>2, OrdersAre
<1>6. /\ Joined(Orders(p), Len(fr)) \in Seq(Nat)
      /\ Joined(Orders(p), Len(fr) + 1) = Joined(Orders(p), Len(fr)) \o Orders(p)[Len(fr) + 1]
  BY <1>2, OrdersNext
<1> QED
  BY <1>4, <1>5, <1>6

LEMMA GivenDue ==
  ASSUME NEW p \in Seq(Packet), NEW fr, Framed(p, fr)
  PROVE  Leads(Given(p, fr), Due(p))
<1>1. Len(fr) \in Nat /\ Len(p) \in Nat /\ Len(fr) <= Len(p)
  BY LenProperties DEF Framed
<1>2. PICK c, l, n : c = Orders(p) /\ l = Len(p) /\ n = Len(fr)
  OBVIOUS
<1>3. c \in [1..l -> Seq(Nat)] /\ n \in 0..l /\ l \in Nat
  <2>1. n \in 0..l
    BY <1>1, <1>2
  <2>2. c \in [1..l -> Seq(Nat)]
    BY <1>2, OrdersAre
  <2> QED
    BY <1>1, <1>2, <2>1, <2>2
<1>4. Given(p, fr) = Joined(c, n)
  BY <1>2, GivenIs
<1>5. Due(p) = Joined(c, l)
  <2>1. \A i \in 1..l : c[i] = Kept(p, i)
    BY <1>2, OrdersAre
  <2>2. [i \in 1..l |-> c[i]] = [i \in 1..l |-> Kept(p, i)]
    BY <2>1
  <2> QED
    BY <1>2, <2>2 DEF Due, Joined
<1>6. /\ Joined(c, n) \in Seq(Nat) /\ Joined(c, l) \in Seq(Nat)
      /\ Len(Joined(c, n)) <= Len(Joined(c, l))
      /\ \A k \in 1..Len(Joined(c, n)) : Joined(c, l)[k] = Joined(c, n)[k]
  BY <1>3, JoinedPrefix, ZenonT(50)
<1> QED
  BY <1>4, <1>5, <1>6 DEF Leads

-----------------------------------------------------------------------------
(* The inductive invariant.                                                *)

(* The units of this connection's reads that are in no packet handed over  *)
(* and not in the pending stream.                                          *)
Left == IF stage = "framing" THEN Remaining
        ELSE IF mailbox \in {<<>>, <<0>>} THEN 0 ELSE Len(buffer)

DataInv ==
    /\ script \in Seq(Packet) /\ arrived \in 0..Len(Flow(script))
    /\ buffer \in Seq(Unit) /\ Len(buffer) <= ReadSize /\ done \in 0..ReadSize
    /\ header \in 0..Len(script)
    /\ stage = "framing" => done <= Len(buffer)
    /\ stage \in {"handling", "rearm"} => done = Len(buffer)

FlagInv ==
    /\ reading \in BOOLEAN /\ open \in BOOLEAN /\ completed \in BOOLEAN
    /\ connected \in BOOLEAN /\ announced \in BOOLEAN /\ refused \in BOOLEAN
    /\ mailbox \in {<<>>} \cup {<<n>> : n \in 0..ReadSize}
    /\ stage \in {"idle", "framing", "handling", "rearm"}

(* A connection has a read outstanding, or its answer in the mailbox, or   *)
(* its handler at work, and never two of these, until its end has been     *)
(* announced or a packet refused; a closed one has, too.                   *)
Busy == reading \/ mailbox # <<>> \/ stage # "idle"

FlowInv ==
    /\ mailbox # <<>> => stage = "idle"
    /\ reading => mailbox = <<>> /\ stage = "idle"
    /\ Busy <=> ~announced /\ ~refused
    /\ ~(announced /\ refused)
    /\ announced => ~open /\ ~connected
    /\ open => connected

FramesInv ==
    /\ Framed(script, framed)
    /\ ~refused => Placed(script, Len(framed), pending, header, arrived, buffer, Left)

OrderInv ==
    /\ queue \in Seq(Nat) /\ handled \in Seq(Nat) /\ Leads(handled, Given(script, framed))
    /\ connected \/ stage = "handling" => Given(script, framed) = handled \o queue
    /\ connected /\ stage \in {"idle", "rearm"} /\ ~refused => queue = <<>>
    /\ connected /\ stage = "framing" /\ ~completed => queue = <<>>

PipelineInv == DataInv /\ FlagInv /\ FlowInv /\ FramesInv /\ OrderInv

(* The definitions of the model in the terms of the ones above. *)
LEMMA Same ==
  /\ \A i : Units(i) = Cut(script, i) /\ Size(i) = Long(script, i)
  /\ \A i : Queued(i) = Kept(script, i)
  /\ Stream = Flow(script) /\ QueuedOf = Given(script, framed)
  /\ \A n : Rest(n) = Piece(buffer, done, n)
<1>1. \A i : Units(i) = Cut(script, i) /\ Size(i) = Long(script, i)
  BY DEF Units, Cut, Size, Long
<1>2. \A i : Queued(i) = Kept(script, i)
  BY DEF Queued, Kept
<1>3. [i \in 1..Len(script) |-> Units(i)] = Packets(script)
  BY <1>1 DEF Packets
<1>4. Stream = Flow(script)
  BY <1>3 DEF Stream, Flow
<1>5. [j \in 1..Len(framed) |-> Queued(framed[j][1][1])]
        = [j \in 1..Len(framed) |-> Kept(script, framed[j][1][1])]
  BY <1>2
<1>6. QueuedOf = Given(script, framed)
  BY <1>5 DEF QueuedOf, Given
<1>7. \A n : Rest(n) = Piece(buffer, done, n)
  BY DEF Rest, Piece
<1> QED
  BY <1>1, <1>2, <1>4, <1>6, <1>7

LEMMA InitInv == Init => PipelineInv
<1> SUFFICES ASSUME Init PROVE PipelineInv
  OBVIOUS
<1> USE DEF Init
<1>1. script \in Seq(Packet)
  <2>1. PICK n \in 0..MaxPackets : script \in [1..n -> Packet]
    OBVIOUS
  <2>2. MaxPackets \in Nat
    BY ReceiveAssumption, Zenon DEF ReceiveAssumption
  <2>3. n \in Nat
    BY <2>2
  <2> QED
    BY <2>1, <2>3, SeqDef
<1>2. Flow(script) \in Seq(Unit) /\ Len(Flow(script)) \in Nat /\ Len(script) \in Nat
      /\ At(script, 0) = 0
  <2>1. Len(script) \in Nat
    BY <1>1, LenProperties
  <2>2. 0 \in 0..Len(script)
    BY <2>1
  <2> QED
    BY <1>1, <2>1, <2>2, FlowAt
<1>3. HeaderSize \in Nat /\ HeaderSize > 0 /\ ReadSize \in Nat /\ ReadSize > 0
  <2>1. HeaderSize \in Nat \ {0} /\ ReadSize \in Nat \ {0}
    BY ReceiveAssumption, Zenon DEF ReceiveAssumption
  <2> QED
    BY <2>1
<1>4. \A S : <<>> \in Seq(S) /\ Len(<<>>) = 0
  OBVIOUS
<1>5. DataInv
  BY <1>1, <1>2, <1>3, <1>4 DEF DataInv
<1>6. FlagInv
  BY DEF FlagInv
<1>7. FlowInv
  BY DEF FlowInv, Busy
<1>8. Framed(script, framed) /\ Len(framed) = 0
  BY <1>2, <1>4 DEF Framed
<1>9. Left = 0
  BY DEF Left
<1>10. Placed(script, 0, pending, header, arrived, buffer, 0)
  BY <1>1, <1>2, <1>3, <1>4 DEF Placed
<1>11. FramesInv
  BY <1>8, <1>9, <1>10 DEF FramesInv
<1>12. OrderInv
  <2>1. Given(script, framed) = <<>>
    <3>1. Given(script, framed) = Joined(Orders(script), 0)
      BY <1>1, <1>8, GivenIs
    <3> QED
      BY <3>1, JoinedZero
  <2>2. <<>> \in Seq(Nat) /\ <<>> \o <<>> = <<>> /\ Len(<<>>) = 0
    OBVIOUS
  <2>3. Leads(<<>>, <<>>)
    BY <2>2 DEF Leads
  <2> QED
    BY <2>1, <2>2, <2>3 DEF OrderInv
<1> QED
  BY <1>5, <1>6, <1>7, <1>11, <1>12 DEF PipelineInv

-----------------------------------------------------------------------------
(* The steps outside the loop.                                             *)

LEMMA FramesKept ==
  ASSUME FramesInv,
         script' = script, framed' = framed, pending' = pending, header' = header,
         arrived' = arrived, buffer' = buffer, refused' = refused, Left' = Left
  PROVE  FramesInv'
BY Zenon DEF FramesInv

(* Nothing is queued or handled, and the session is in no new place where  *)
(* its queue has to be empty.                                              *)
LEMMA OrderKept ==
  ASSUME OrderInv,
         script' = script, framed' = framed, queue' = queue, handled' = handled,
         connected' \/ stage' = "handling" => connected \/ stage = "handling",
         connected' /\ stage' \in {"idle", "rearm"} /\ ~refused' => queue = <<>>,
         connected' /\ stage' = "framing" /\ ~completed' => queue = <<>>
  PROVE  OrderInv'
BY Zenon DEF OrderInv

LEMMA ReadCompletesInv ==
  ASSUME PipelineInv, ReadCompletes
  PROVE  PipelineInv'
<1> USE DEF PipelineInv
<1>1. PICK n \in 1..Least(ReadSize, Len(Stream) - arrived) :
         /\ buffer' = SubSeq(Stream, arrived + 1, arrived + n)
         /\ arrived' = arrived + n
         /\ mailbox' = <<n>>
  BY Zenon DEF ReadCompletes
<1>2. /\ reading /\ open /\ reading' = FALSE /\ script' = script /\ open' = open
      /\ stage' = stage /\ done' = done /\ completed' = completed /\ pending' = pending
      /\ header' = header /\ framed' = framed /\ refused' = refused /\ queue' = queue
      /\ connected' = connected /\ announced' = announced /\ handled' = handled
  BY Zenon DEF ReadCompletes, sessionVars
<1>3. ReadSize \in Nat
  <2>1. ReadSize \in Nat \ {0}
    BY ReceiveAssumption, Zenon DEF ReceiveAssumption
  <2> QED
    BY <2>1
<1>4. PICK f : f = Flow(script)
  OBVIOUS
<1>5. script \in Seq(Packet) /\ arrived \in 0..Len(f) /\ Stream = f
  BY <1>4, Same DEF DataInv
<1>6. f \in Seq(Unit) /\ Len(f) \in Nat
  <2>1. 0 \in 0..Len(script)
    BY <1>5, LenProperties
  <2> QED
    BY <1>4, <1>5, <2>1, FlowAt
<1>7. n \in Nat /\ n >= 1 /\ n <= ReadSize /\ n <= Len(f) - arrived
  BY <1>1, <1>3, <1>5, <1>6 DEF Least
<1>8. /\ stage = "idle" /\ mailbox = <<>> /\ ~refused /\ ~announced
  BY <1>2 DEF FlowInv, Busy
<1>9. Left = 0 /\ buffer' = Piece(f, arrived, n)
  <2>1. Left = 0
    BY <1>8 DEF Left
  <2> QED
    BY <1>1, <1>5, <2>1 DEF Piece
<1>10. Placed(script, Len(framed), pending, header, arrived + n, buffer', n) /\ Len(buffer') = n
  <2>1. Placed(script, Len(framed), pending, header, arrived, buffer, 0)
    BY <1>8, <1>9 DEF FramesInv
  <2>2. n \in 1..(Len(Flow(script)) - arrived) /\ buffer' = Piece(Flow(script), arrived, n)
    BY <1>4, <1>5, <1>6, <1>7, <1>9
  <2> QED
    BY <1>5, <2>1, <2>2, ReadMore
<1>11. mailbox' # <<>> /\ mailbox' # <<0>>
  BY <1>1, <1>7
<1>12. Left' = n
  BY <1>2, <1>8, <1>10, <1>11 DEF Left
<1>13. buffer' \in Seq(Unit) /\ arrived' \in 0..Len(f)
  <2>1. buffer' \in Seq(Unit)
    BY <1>10 DEF Placed
  <2>2. arrived + n \in 0..Len(f)
    BY <1>5, <1>6, <1>7
  <2> QED
    BY <1>1, <2>1, <2>2
<1>14. DataInv'
  <2>1. Len(buffer') <= ReadSize
    BY <1>7, <1>10
  <2> QED
    BY <1>2, <1>4, <1>8, <1>13, <2>1 DEF DataInv
<1>15. FlagInv'
  <2>1. mailbox' \in {<<>>} \cup {<<k>> : k \in 0..ReadSize}
    BY <1>1, <1>3, <1>7
  <2> QED
    BY <1>2, <2>1 DEF FlagInv
<1>16. FlowInv'
  BY <1>2, <1>8, <1>11 DEF FlowInv, Busy
<1>17. FramesInv'
  BY <1>1, <1>2, <1>10, <1>12 DEF FramesInv
<1>18. OrderInv'
  <2>1. OrderInv
    OBVIOUS
  <2>2. connected' \/ stage' = "handling" => connected \/ stage = "handling"
    BY <1>2
  <2>3. connected' /\ stage' \in {"idle", "rearm"} /\ ~refused' => queue = <<>>
    BY <1>2 DEF OrderInv
  <2>4. connected' /\ stage' = "framing" /\ ~completed' => queue = <<>>
    BY <1>2 DEF OrderInv
  <2> QED
    BY <1>2, <2>1, <2>2, <2>3, <2>4, OrderKept
<1> QED
  BY <1>14, <1>15, <1>16, <1>17, <1>18

(* The steps that leave the reads and the packets as they are. *)
Quiet ==
    /\ script' = script /\ arrived' = arrived /\ buffer' = buffer /\ pending' = pending
    /\ header' = header /\ framed' = framed /\ refused' = refused

LEMMA QuietInv ==
  ASSUME PipelineInv, Quiet, Left' = Left, FlagInv', FlowInv', OrderInv',
         done' \in 0..ReadSize,
         stage' = "framing" => done' <= Len(buffer),
         stage' \in {"handling", "rearm"} => done' = Len(buffer)
  PROVE  PipelineInv'
<1>1. DataInv'
  BY Zenon DEF PipelineInv, DataInv, Quiet
<1>2. FramesInv'
  BY FramesKept DEF PipelineInv, Quiet
<1> QED
  BY <1>1, <1>2 DEF PipelineInv

LEMMA ReadFailsInv ==
  ASSUME PipelineInv, ReadFails
  PROVE  PipelineInv'
<1>1. /\ reading /\ reading' = FALSE /\ mailbox' = <<0>> /\ Quiet
      /\ stage' = stage /\ done' = done /\ completed' = completed /\ open' = open
      /\ queue' = queue /\ connected' = connected /\ announced' = announced
      /\ handled' = handled
  BY DEF ReadFails, frameVars, sessionVars, Quiet
<1>2. /\ stage = "idle" /\ mailbox = <<>> /\ mailbox' # <<>>
      /\ FlowInv /\ FlagInv /\ OrderInv /\ DataInv
  BY <1>1 DEF PipelineInv, FlowInv
<1>3. Left' = Left
  BY <1>1, <1>2 DEF Left
<1>4. FlagInv'
  <2>1. ReadSize \in Nat
    <3>1. ReadSize \in Nat \ {0}
      BY ReceiveAssumption, Zenon DEF ReceiveAssumption
    <3> QED
      BY <3>1
  <2>2. <<0>> \in {<<k>> : k \in 0..ReadSize}
    BY <2>1
  <2> QED
    BY <1>1, <1>2, <2>2 DEF FlagInv, Quiet
<1>5. FlowInv'
  BY <1>1, <1>2 DEF FlowInv, Busy, Quiet
<1>6. OrderInv'
  BY <1>1, <1>2, OrderKept DEF OrderInv, Quiet
<1> QED
  BY <1>1, <1>2, <1>3, <1>4, <1>5, <1>6, QuietInv DEF DataInv

LEMMA ReceiveErrorInv ==
  ASSUME PipelineInv, ReceiveError
  PROVE  PipelineInv'
<1>1. /\ stage = "idle" /\ mailbox = <<0>> /\ mailbox' = <<>> /\ Quiet
      /\ connected' = FALSE /\ announced' = TRUE /\ open' = FALSE /\ reading' = reading
      /\ stage' = stage /\ done' = done /\ completed' = completed
      /\ queue' = queue /\ handled' = handled
  BY DEF ReceiveError, frameVars, Quiet
<1>2. mailbox # <<>> /\ FlowInv /\ FlagInv /\ OrderInv /\ DataInv
  BY <1>1 DEF PipelineInv
<1>3. Left' = Left
  <2>1. Left = 0
    BY <1>1 DEF Left
  <2>2. Left' = 0
    BY <1>1 DEF Left
  <2> QED
    BY <2>1, <2>2
<1>4. FlagInv'
  BY <1>1, <1>2 DEF FlagInv, Quiet
<1>5. FlowInv'
  BY <1>1, <1>2 DEF FlowInv, Busy, Quiet
<1>6. OrderInv'
  BY <1>1, <1>2, OrderKept DEF Quiet
<1> QED
  BY <1>1, <1>2, <1>3, <1>4, <1>5, <1>6, QuietInv DEF DataInv

LEMMA BeginFramingInv ==
  ASSUME PipelineInv, BeginFraming
  PROVE  PipelineInv'
<1>1. /\ stage = "idle" /\ mailbox # <<>> /\ mailbox # <<0>> /\ mailbox' = <<>> /\ Quiet
      /\ stage' = "framing" /\ done' = 0 /\ completed' = FALSE
      /\ reading' = reading /\ open' = open
      /\ queue' = queue /\ connected' = connected /\ announced' = announced
      /\ handled' = handled
  BY DEF BeginFraming, sessionVars, Quiet
<1>2. FlowInv /\ FlagInv /\ OrderInv /\ DataInv /\ ~reading /\ ~refused
  BY <1>1 DEF PipelineInv, FlowInv, Busy
<1>3. Len(buffer) \in Nat /\ ReadSize \in Nat
  <2>1. ReadSize \in Nat \ {0}
    BY ReceiveAssumption, Zenon DEF ReceiveAssumption
  <2> QED
    BY <1>2, <2>1, LenProperties DEF DataInv
<1>4. Left' = Left
  <2>1. Left = Len(buffer)
    BY <1>1 DEF Left
  <2>2. Left' = Len(buffer) - 0
    BY <1>1 DEF Left, Remaining, Quiet
  <2> QED
    BY <1>3, <2>1, <2>2
<1>5. FlagInv'
  BY <1>1, <1>2 DEF FlagInv, Quiet
<1>6. FlowInv'
  BY <1>1, <1>2 DEF FlowInv, Busy, Quiet
<1>7. OrderInv'
  <2>1. connected => queue = <<>>
    BY <1>1, <1>2 DEF OrderInv
  <2> QED
    BY <1>1, <1>2, <2>1, OrderKept DEF Quiet
<1>8. 0 \in 0..ReadSize /\ 0 <= Len(buffer)
  BY <1>3
<1> QED
  BY <1>1, <1>4, <1>5, <1>6, <1>7, <1>8, QuietInv

LEMMA EndFramingInv ==
  ASSUME PipelineInv, EndFraming
  PROVE  PipelineInv'
<1>1. /\ stage = "framing" /\ done = Len(buffer) /\ Quiet
      /\ stage' = (IF completed /\ connected THEN "handling" ELSE "rearm")
      /\ mailbox' = mailbox /\ done' = done /\ completed' = completed
      /\ reading' = reading /\ open' = open
      /\ queue' = queue /\ connected' = connected /\ announced' = announced
      /\ handled' = handled
  BY DEF EndFraming, sessionVars, readVars, Quiet
<1>2. /\ FlowInv /\ FlagInv /\ OrderInv /\ DataInv
      /\ mailbox = <<>> /\ ~reading /\ ~refused /\ ~announced
  BY <1>1 DEF PipelineInv, FlowInv, Busy
<1>3. stage' \in {"handling", "rearm"} /\ (stage' = "handling" <=> completed /\ connected)
  BY <1>1
<1>4. Left' = Left
  <2>1. Len(buffer) \in Nat
    BY <1>2, LenProperties DEF DataInv
  <2>2. Left = 0
    BY <1>1, <2>1 DEF Left, Remaining
  <2>3. Left' = 0
    BY <1>1, <1>2, <1>3 DEF Left
  <2> QED
    BY <2>2, <2>3
<1>5. FlagInv'
  BY <1>1, <1>2, <1>3 DEF FlagInv, Quiet
<1>6. FlowInv'
  BY <1>1, <1>2, <1>3 DEF FlowInv, Busy, Quiet
<1>7. OrderInv'
  <2>1. connected /\ ~completed => queue = <<>>
    BY <1>1, <1>2 DEF OrderInv
  <2>2. stage' # "framing" /\ stage' # "idle"
    BY <1>3
  <2>3. stage' = "rearm" /\ connected => ~completed
    BY <1>3
  <2> QED
    BY <1>1, <1>2, <1>3, <2>1, <2>2, <2>3, OrderKept DEF Quiet
<1> QED
  BY <1>1, <1>2, <1>3, <1>4, <1>5, <1>6, <1>7, QuietInv DEF DataInv

LEMMA EndHandlingInv ==
  ASSUME PipelineInv, EndHandling
  PROVE  PipelineInv'
<1>1. /\ stage = "handling" /\ queue = <<>> /\ stage' = "rearm" /\ Quiet
      /\ mailbox' = mailbox /\ done' = done /\ completed' = completed
      /\ reading' = reading /\ open' = open
      /\ queue' = queue /\ connected' = connected /\ announced' = announced
      /\ handled' = handled
  BY DEF EndHandling, sessionVars, readVars, Quiet
<1>2. /\ FlowInv /\ FlagInv /\ OrderInv /\ DataInv
      /\ mailbox = <<>> /\ ~reading /\ ~refused /\ ~announced
  BY <1>1 DEF PipelineInv, FlowInv, Busy
<1>3. Left' = Left
  BY <1>1, <1>2 DEF Left
<1>4. FlagInv'
  BY <1>1, <1>2 DEF FlagInv, Quiet
<1>5. FlowInv'
  BY <1>1, <1>2 DEF FlowInv, Busy, Quiet
<1>6. OrderInv'
  BY <1>1, <1>2, OrderKept DEF Quiet
<1>7. done = Len(buffer) /\ done \in 0..ReadSize
  BY <1>1, <1>2 DEF DataInv
<1> QED
  BY <1>1, <1>3, <1>4, <1>5, <1>6, <1>7, QuietInv

LEMMA BeginReceiveInv ==
  ASSUME PipelineInv, BeginReceive
  PROVE  PipelineInv'
<1>1. /\ stage = "rearm" /\ stage' = "idle" /\ reading' = TRUE /\ Quiet
      /\ mailbox' = mailbox /\ done' = done /\ completed' = completed
      /\ open' = open
      /\ queue' = queue /\ connected' = connected /\ announced' = announced
      /\ handled' = handled
  BY DEF BeginReceive, sessionVars, Quiet
<1>2. /\ FlowInv /\ FlagInv /\ OrderInv /\ DataInv
      /\ mailbox = <<>> /\ ~reading /\ ~refused /\ ~announced
  BY <1>1 DEF PipelineInv, FlowInv, Busy
<1>3. Left' = Left
  BY <1>1, <1>2 DEF Left
<1>4. FlagInv'
  BY <1>1, <1>2 DEF FlagInv, Quiet
<1>5. FlowInv'
  BY <1>1, <1>2 DEF FlowInv, Busy, Quiet
<1>6. OrderInv'
  <2>1. connected => queue = <<>>
    BY <1>1, <1>2 DEF OrderInv
  <2> QED
    BY <1>1, <1>2, <2>1, OrderKept DEF Quiet
<1>7. done \in 0..ReadSize
  BY <1>2 DEF DataInv
<1> QED
  BY <1>1, <1>3, <1>4, <1>5, <1>6, <1>7, QuietInv

LEMMA DisconnectInv ==
  ASSUME PipelineInv, Disconnect
  PROVE  PipelineInv'
<1>1. /\ stage = "idle" /\ stage' = stage /\ reading' = reading /\ Quiet
      /\ mailbox' = mailbox /\ done' = done /\ completed' = completed
      /\ connected /\ connected' = FALSE /\ open' = FALSE
      /\ queue' = queue /\ announced' = announced /\ handled' = handled
  BY DEF Disconnect, readVars, frameVars, Quiet
<1>2. FlowInv /\ FlagInv /\ OrderInv /\ DataInv
  BY DEF PipelineInv
<1>3. Left' = Left
  BY <1>1 DEF Left, Quiet
<1>4. FlagInv'
  BY <1>1, <1>2 DEF FlagInv, Quiet
<1>5. FlowInv'
  BY <1>1, <1>2 DEF FlowInv, Busy, Quiet
<1>6. OrderInv'
  BY <1>1, <1>2, OrderKept DEF Quiet
<1>7. done \in 0..ReadSize
  BY <1>2 DEF DataInv
<1> QED
  BY <1>1, <1>3, <1>4, <1>5, <1>6, <1>7, QuietInv

-----------------------------------------------------------------------------
(* The session's handlers.                                                 *)

LEMMA ConcatThree ==
  \A u \in Seq(Nat), v \in Seq(Nat), w \in Seq(Nat) : (u \o v) \o w = u \o (v \o w)
BY ConcatAssociative, SMTT(40)

LEMMA QueuesMove ==
  ASSUME NEW h \in Seq(Nat), NEW q \in Seq(Nat), q # <<>>, NEW g, g = h \o q
  PROVE  /\ Append(h, Head(q)) \in Seq(Nat) /\ Tail(q) \in Seq(Nat)
         /\ g = Append(h, Head(q)) \o Tail(q)
         /\ Leads(Append(h, Head(q)), g)
         /\ Leads(h, g)
<1>1. PICK x, y : x = Head(q) /\ y = Tail(q)
  OBVIOUS
<1>2. x \in Nat /\ y \in Seq(Nat)
  BY <1>1, HeadTailProperties
<1>3. q = <<x>> \o y
  <2>1. PICK z : z = <<x>> \o y
    OBVIOUS
  <2>2. /\ z \in Seq(Nat) /\ Len(z) = Len(<<x>>) + Len(y)
        /\ \A k \in 1..Len(<<x>>) : z[k] = <<x>>[k]
        /\ \A k \in 1..Len(y) : z[Len(<<x>>) + k] = y[k]
    BY <1>2, <2>1, ConcatParts, SMTT(30)
  <2>3. Len(<<x>>) = 1 /\ <<x>>[1] = x
    OBVIOUS
  <2>4. /\ Len(y) = Len(q) - 1 /\ q[1] = x /\ Len(q) \in Nat
        /\ \A k \in 1..Len(y) : y[k] = q[k + 1]
    BY <1>1, HeadTailProperties, LenProperties
  <2>5. Len(z) = Len(q)
    BY <2>2, <2>3, <2>4
  <2>6. ASSUME NEW k \in 1..Len(z) PROVE z[k] = q[k]
    <3>1. CASE k = 1
      BY <2>2, <2>3, <2>4, <3>1
    <3>2. CASE k # 1
      <4>1. PICK j \in 1..Len(y) : k = 1 + j
        <5>1. k - 1 \in 1..Len(y) /\ k = 1 + (k - 1)
          BY <2>4, <2>5, <3>2
        <5> QED
          BY <5>1
      <4>2. j + 1 = 1 + j
        BY <2>4
      <4> QED
        BY <2>2, <2>3, <2>4, <4>1, <4>2
    <3> QED
      BY <3>1, <3>2
  <2> QED
    BY <2>1, <2>2, <2>5, <2>6, SeqEqual
<1>4. Append(h, x) = h \o <<x>> /\ Append(h, x) \in Seq(Nat) /\ <<x>> \in Seq(Nat)
  BY <1>2, AppendIsConcat, AppendProperties
<1>5. (h \o <<x>>) \o y = h \o (<<x>> \o y)
  BY <1>2, <1>4, ConcatThree
<1>6. g = Append(h, x) \o y
  BY <1>3, <1>4, <1>5
<1>7. Leads(Append(h, x), g) /\ Leads(h, g)
  BY <1>2, <1>4, <1>6, LeadsFirst
<1> QED
  BY <1>1, <1>2, <1>4, <1>6, <1>7

LEMMA HandlesInv ==
  ASSUME PipelineInv, stage = "handling", queue # <<>>, Quiet,
         queue' = Tail(queue), handled' = handled \/ handled' = Append(handled, Head(queue)),
         stage' = "handling" => handled' = Append(handled, Head(queue)),
         stage' \in {"handling", "rearm"}, connected' \in BOOLEAN, connected' => stage' = "handling",
         open' = connected' \/ (connected' = connected /\ open' = open),
         mailbox' = mailbox, done' = done, completed' = completed, reading' = reading,
         announced' = announced
  PROVE  PipelineInv'
<1>1. /\ FlowInv /\ FlagInv /\ OrderInv /\ DataInv
      /\ mailbox = <<>> /\ ~reading /\ ~refused /\ ~announced
  BY DEF PipelineInv, FlowInv, Busy
<1>2. Left' = Left
  BY <1>1 DEF Left
<1>3. open' \in BOOLEAN /\ (open' => connected')
  BY <1>1 DEF FlagInv, FlowInv
<1>4. FlagInv'
  BY <1>1, <1>3 DEF FlagInv, Quiet
<1>5. FlowInv'
  BY <1>1, <1>3 DEF FlowInv, Busy, Quiet
<1>6. OrderInv'
  <2>1. PICK g : g = Given(script, framed)
    OBVIOUS
  <2>2. queue \in Seq(Nat) /\ handled \in Seq(Nat) /\ g = handled \o queue
    BY <1>1, <2>1 DEF OrderInv
  <2>3. /\ Append(handled, Head(queue)) \in Seq(Nat) /\ Tail(queue) \in Seq(Nat)
        /\ g = Append(handled, Head(queue)) \o Tail(queue)
        /\ Leads(Append(handled, Head(queue)), g)
        /\ Leads(handled, g)
    BY <2>2, QueuesMove
  <2>4. /\ queue' \in Seq(Nat) /\ handled' \in Seq(Nat) /\ Leads(handled', g)
        /\ stage' = "handling" => g = handled' \o queue'
    BY <2>2, <2>3
  <2>5. Given(script, framed)' = g
    BY <2>1 DEF Quiet
  <2>6. stage' # "idle" /\ stage' # "framing" /\ (stage' = "rearm" => ~connected')
    OBVIOUS
  <2> QED
    BY <2>4, <2>5, <2>6 DEF OrderInv
<1>7. done = Len(buffer) /\ done \in 0..ReadSize
  BY <1>1 DEF DataInv
<1> QED
  BY <1>2, <1>4, <1>5, <1>6, <1>7, QuietInv

LEMMA HandlePacketInv ==
  ASSUME PipelineInv, HandlePacket
  PROVE  PipelineInv'
<1>1. /\ stage = "handling" /\ queue # <<>> /\ Quiet
      /\ queue' = Tail(queue) /\ handled' = Append(handled, Head(queue))
      /\ stage' = stage /\ mailbox' = mailbox /\ done' = done /\ completed' = completed
      /\ reading' = reading /\ announced' = announced
  BY DEF HandlePacket, readVars, frameVars, Quiet
<1>2. \/ connected' = connected /\ open' = open
      \/ connected' = FALSE /\ open' = FALSE
  BY DEF HandlePacket
<1>3. connected' \in BOOLEAN
  BY <1>2 DEF PipelineInv, FlagInv
<1>4. open' = connected' \/ (connected' = connected /\ open' = open)
  BY <1>2
<1> QED
  BY <1>1, <1>3, <1>4, HandlesInv

LEMMA UnhandledPacketInv ==
  ASSUME PipelineInv, UnhandledPacket
  PROVE  PipelineInv'
<1>1. /\ stage = "handling" /\ queue # <<>> /\ Quiet
      /\ queue' = Tail(queue) /\ handled' = handled
      /\ stage' = "rearm" /\ mailbox' = mailbox /\ done' = done /\ completed' = completed
      /\ reading' = reading /\ announced' = announced
      /\ connected' = FALSE /\ open' = FALSE
  BY DEF UnhandledPacket, readVars, Quiet
<1> QED
  BY <1>1, HandlesInv

-----------------------------------------------------------------------------
(* The turns of ReceiveImpl's loop.                                        *)

(* What a turn starts from: a part of the next packet in the pending       *)
(* stream, and more of the buffer.                                         *)
LEMMA Turn ==
  ASSUME PipelineInv, Looping
  PROVE  /\ script \in Seq(Packet) /\ Framed(script, framed) /\ Len(framed) \in Nat
         /\ Placed(script, Len(framed), pending, header, arrived, buffer, Remaining)
         /\ Remaining \in Nat /\ Remaining >= 1 /\ done \in Nat
         /\ done = Len(buffer) - Remaining /\ Len(buffer) \in Nat
         /\ stage = "framing" /\ mailbox = <<>> /\ ~reading /\ ~refused /\ ~announced
         /\ Len(buffer) <= ReadSize /\ ReadSize \in Nat
<1>1. stage = "framing" /\ done < Len(buffer)
  BY DEF Looping
<1>2. mailbox = <<>> /\ ~reading /\ ~refused /\ ~announced
  BY <1>1 DEF PipelineInv, FlowInv, Busy
<1>3. Left = Remaining
  BY <1>1 DEF Left
<1>4. /\ Framed(script, framed)
      /\ Placed(script, Len(framed), pending, header, arrived, buffer, Remaining)
  BY <1>2, <1>3 DEF PipelineInv, FramesInv
<1>5. ReadSize \in Nat
  <2>1. ReadSize \in Nat \ {0}
    BY ReceiveAssumption, Zenon DEF ReceiveAssumption
  <2> QED
    BY <2>1
<1>6. /\ script \in Seq(Packet) /\ buffer \in Seq(Unit) /\ done \in Nat
      /\ Len(buffer) <= ReadSize
  BY <1>5 DEF PipelineInv, DataInv
<1>7. Len(buffer) \in Nat /\ Len(framed) \in Nat
  BY <1>4, <1>6, LenProperties DEF Framed
<1>8. Remaining \in Nat /\ Remaining >= 1 /\ done = Len(buffer) - Remaining
  BY <1>1, <1>6, <1>7 DEF Remaining
<1> QED
  BY <1>1, <1>2, <1>4, <1>5, <1>6, <1>7, <1>8

(* t units of the buffer go into the pending stream. *)
Turned(t, q) ==
    Takes(script, Len(framed), pending, header, arrived, buffer, Remaining, t, q)

LEMMA TurnTakes ==
  ASSUME PipelineInv, Looping
  PROVE  \A t \in 1..Remaining : Turned(t, pending \o Rest(t))
<1>1. /\ script \in Seq(Packet) /\ Remaining \in Nat /\ done = Len(buffer) - Remaining
      /\ Placed(script, Len(framed), pending, header, arrived, buffer, Remaining)
  BY Turn
<1>2. ASSUME NEW t \in 1..Remaining PROVE Turned(t, pending \o Rest(t))
  <2>1. Rest(t) = Piece(buffer, Len(buffer) - Remaining, t)
    BY <1>1, Same
  <2> QED
    BY <1>1, <2>1 DEF Turned, Takes
<1> QED
  BY <1>2

LEMMA TurnFirst ==
  ASSUME PipelineInv, Looping
  PROVE  \A t \in 1..Remaining : (pending \o Rest(t))[1][1] = Len(framed) + 1
<1>1. ASSUME NEW t \in 1..Remaining PROVE (pending \o Rest(t))[1][1] = Len(framed) + 1
  <2>1. PICK s, q : s = t /\ q = pending \o Rest(t)
    OBVIOUS
  <2>2. Takes(script, Len(framed), pending, header, arrived, buffer, Remaining, s, q)
    BY <2>1, TurnTakes DEF Turned
  <2>3. q[1][1] = Len(framed) + 1
    BY <2>2, TakesFirst
  <2> QED
    BY <2>1, <2>3
<1> QED
  BY <1>1

LEMMA TurnNumbers ==
  ASSUME PipelineInv, Looping
  PROVE  /\ Len(framed) < Len(script) /\ Len(framed) + 1 \in 1..Len(script)
         /\ Len(script) \in Nat /\ Len(pending) \in Nat /\ pending \in Seq(Unit)
         /\ Len(framed) + 1 # 0 /\ HeaderSize \in Nat /\ HeaderSize > 0
         /\ Long(script, Len(framed) + 1) \in Nat
         /\ Long(script, Len(framed) + 1) >= HeaderSize
<1>2. Remaining \in Nat /\ Remaining >= 1 /\ Len(framed) \in Nat
  BY Turn
<1>3. PICK t, q : t = 1 /\ q = pending \o Rest(t)
  OBVIOUS
<1>4. Takes(script, Len(framed), pending, header, arrived, buffer, Remaining, t, q)
  <2>1. t \in 1..Remaining
    BY <1>2, <1>3
  <2> QED
    BY <1>3, <2>1, TurnTakes DEF Turned
<1>5. /\ Len(framed) < Len(script) /\ Len(script) \in Nat /\ Len(pending) \in Nat
      /\ pending \in Seq(Unit)
  BY <1>4, TakesNumbers
<1>6. /\ Len(framed) + 1 \in 1..Len(script)
      /\ Long(script, Len(framed) + 1) \in Nat
      /\ Long(script, Len(framed) + 1) >= HeaderSize
      /\ HeaderSize \in Nat /\ HeaderSize > 0
  BY <1>4, TakesPiece
<1>7. Len(framed) + 1 # 0
  BY <1>2
<1> QED
  BY <1>5, <1>6, <1>7

LEMMA PendingHeaderIs ==
  ASSUME PipelineInv, Looping, pending # <<>>
  PROVE  PendingHeader = IF Len(pending) + Remaining < HeaderSize THEN 0 ELSE Len(framed) + 1
<1>1. /\ Remaining \in Nat /\ Remaining >= 1 /\ Len(pending) \in Nat
      /\ HeaderSize \in Nat /\ HeaderSize > 0
  BY Turn, TurnNumbers
<1>2. CASE Len(pending) >= HeaderSize
  <2>1. PendingHeader = header
    BY <1>2 DEF PendingHeader
  <2>2. header = IF Len(pending) < HeaderSize THEN 0 ELSE Len(framed) + 1
    BY Turn DEF Placed
  <2>3. ~(Len(pending) < HeaderSize) /\ ~(Len(pending) + Remaining < HeaderSize)
    BY <1>1, <1>2
  <2> QED
    BY <2>1, <2>2, <2>3
<1>3. CASE ~(Len(pending) >= HeaderSize) /\ Len(pending) + Remaining >= HeaderSize
  <2>1. PICK t, q : t = Remaining /\ q = pending \o Rest(t)
    OBVIOUS
  <2>2. Takes(script, Len(framed), pending, header, arrived, buffer, Remaining, t, q)
    <3>1. t \in 1..Remaining
      BY <1>1, <2>1
    <3> QED
      BY <2>1, <3>1, TurnTakes DEF Turned
  <2>3. q[1] = <<Len(framed) + 1, 1>>
    BY <2>2, TakesPiece
  <2>4. q[1][1] = Len(framed) + 1
    BY <2>3
  <2>5. PendingHeader = q[1][1]
    BY <1>3, <2>1 DEF PendingHeader
  <2>6. ~(Len(pending) + Remaining < HeaderSize)
    BY <1>1, <1>3
  <2> QED
    BY <2>4, <2>5, <2>6
<1>4. CASE ~(Len(pending) >= HeaderSize) /\ ~(Len(pending) + Remaining >= HeaderSize)
  <2>1. PendingHeader = 0
    BY <1>4 DEF PendingHeader
  <2>2. Len(pending) + Remaining < HeaderSize
    BY <1>1, <1>4
  <2> QED
    BY <2>1, <2>2
<1> QED
  BY <1>2, <1>3, <1>4

(* No pending stream: the buffer goes on with a header. *)
LEMMA BufferHeaderIs ==
  ASSUME PipelineInv, Looping, pending = <<>>
  PROVE  buffer[done + 1][1] = Len(framed) + 1
<1>1. PICK t, q : t = 1 /\ q = pending \o Rest(t)
  OBVIOUS
<1>2. /\ Remaining \in Nat /\ Remaining >= 1 /\ done \in Nat /\ Len(buffer) \in Nat
      /\ done = Len(buffer) - Remaining
  BY Turn
<1>3. Takes(script, Len(framed), pending, header, arrived, buffer, Remaining, t, q)
  <2>1. t \in 1..Remaining
    BY <1>1, <1>2
  <2> QED
    BY <1>1, <2>1, TurnTakes DEF Turned
<1>4. q[1] = <<Len(framed) + 1, 1>> /\ buffer \in Seq(Unit)
  <2>1. q[1] = <<Len(framed) + 1, 1>>
    BY <1>3, TakesPiece
  <2>2. buffer \in Seq(Unit)
    BY <1>3, TakesNumbers
  <2> QED
    BY <2>1, <2>2
<1>5. q[1] = buffer[done + 1]
  <2>1. done + t <= Len(buffer) /\ t \in Nat
    BY <1>1, <1>2
  <2>2. /\ Piece(buffer, done, t) \in Seq(Unit) /\ Len(Piece(buffer, done, t)) = t
        /\ \A k \in 1..t : Piece(buffer, done, t)[k] = buffer[done + k]
    BY <1>2, <1>4, <2>1, PieceIs, SMTT(50)
  <2>3. q = Piece(buffer, done, t)
    <3>1. q = <<>> \o Piece(buffer, done, t)
      BY <1>1, Same
    <3> QED
      BY <2>2, <3>1, ConcatEmptySeq
  <2>4. 1 \in 1..t
    BY <1>1
  <2> QED
    BY <2>2, <2>3, <2>4
<1> QED
  BY <1>4, <1>5

(* A turn that leaves the next packet unfinished uses the buffer up. *)
LEMMA PartTurnInv ==
  ASSUME PipelineInv, Looping,
         pending' = pending \o Rest(Remaining), done' = Len(buffer),
         header' = IF Len(pending) + Remaining < HeaderSize THEN 0 ELSE Len(framed) + 1,
         Len(pending) + Remaining < Long(script, Len(framed) + 1),
         UNCHANGED <<script, readVars, open, stage, buffer, completed, framed, refused,
                     sessionVars>>
  PROVE  PipelineInv'
<1>1. /\ script' = script /\ arrived' = arrived /\ reading' = reading /\ mailbox' = mailbox
      /\ open' = open /\ stage' = stage /\ buffer' = buffer /\ completed' = completed
      /\ framed' = framed /\ refused' = refused /\ queue' = queue /\ connected' = connected
      /\ announced' = announced /\ handled' = handled
  BY DEF readVars, sessionVars
<1>2. /\ Remaining \in Nat /\ Remaining >= 1 /\ stage = "framing" /\ Len(buffer) \in Nat
      /\ Len(buffer) <= ReadSize /\ ReadSize \in Nat /\ Framed(script, framed)
      /\ script \in Seq(Packet)
  BY Turn
<1>3. PICK n, q, t, h : n = Len(framed) /\ q = pending \o Rest(Remaining) /\ t = Remaining
                        /\ h = IF Len(q) < HeaderSize THEN 0 ELSE n + 1
  OBVIOUS
<1>4. Takes(script, n, pending, header, arrived, buffer, Remaining, t, q)
  <2>1. Remaining \in 1..Remaining
    BY <1>2
  <2> QED
    BY <1>3, <2>1, TurnTakes DEF Turned
<1>5. Len(q) = Len(pending) + t
  BY <1>4, TakesPiece
<1>6. Placed(script, n, q, h, arrived, buffer, Remaining - t)
  <2>1. Len(pending) + t < Long(script, n + 1)
    BY <1>3
  <2> QED
    BY <1>3, <1>4, <2>1, TakePart
<1>7. Remaining - t = 0
  BY <1>2, <1>3
<1>8. header' = h
  BY <1>3, <1>5
<1>9. Left' = 0
  <2>1. Remaining' = 0
    BY <1>1, <1>2 DEF Remaining
  <2> QED
    BY <1>1, <1>2, <2>1 DEF Left
<1>10. FramesInv'
  <2>1. Placed(script, n, q, h, arrived, buffer, 0)
    BY <1>6, <1>7
  <2> QED
    BY <1>1, <1>2, <1>3, <1>8, <1>9, <2>1 DEF FramesInv
<1>11. header' \in 0..Len(script)
  <2>1. Len(framed) + 1 \in 1..Len(script) /\ Len(script) \in Nat
    BY TurnNumbers
  <2> QED
    BY <2>1
<1>12. DataInv'
  <2>1. DataInv
    BY DEF PipelineInv
  <2>2. done' \in 0..ReadSize /\ done' <= Len(buffer)
    BY <1>2
  <2> QED
    BY <1>1, <1>2, <1>11, <2>1, <2>2 DEF DataInv
<1>13. FlagInv'
  BY <1>1 DEF PipelineInv, FlagInv
<1>14. FlowInv'
  BY <1>1 DEF PipelineInv, FlowInv, Busy
<1>15. OrderInv'
  <2>1. OrderInv
    BY DEF PipelineInv
  <2>2. connected /\ ~completed => queue = <<>>
    BY <1>2, <2>1 DEF OrderInv
  <2> QED
    BY <1>1, <1>2, <2>1, <2>2, OrderKept
<1> QED
  BY <1>10, <1>12, <1>13, <1>14, <1>15 DEF PipelineInv

(* One that has the whole of it hands it over, and nothing else. *)
LEMMA WholeSegment ==
  ASSUME PipelineInv, Looping
  PROVE  \A t \in 1..Remaining :
            Len(pending) + t = Long(script, Len(framed) + 1) =>
               /\ pending \o Rest(t) = Cut(script, Len(framed) + 1)
               /\ (pending \o Rest(t))[1][1] = Len(framed) + 1
               /\ Placed(script, Len(framed) + 1, <<>>, 0, arrived, buffer, Remaining - t)
<1>1. ASSUME NEW t \in 1..Remaining, Len(pending) + t = Long(script, Len(framed) + 1)
      PROVE  /\ pending \o Rest(t) = Cut(script, Len(framed) + 1)
             /\ (pending \o Rest(t))[1][1] = Len(framed) + 1
             /\ Placed(script, Len(framed) + 1, <<>>, 0, arrived, buffer, Remaining - t)
  <2>1. PICK s, q : s = t /\ q = pending \o Rest(t)
    OBVIOUS
  <2>2. Takes(script, Len(framed), pending, header, arrived, buffer, Remaining, s, q)
    BY <2>1, TurnTakes DEF Turned
  <2>3. Len(pending) + s = Long(script, Len(framed) + 1)
    BY <1>1, <2>1
  <2>4. /\ q = Cut(script, Len(framed) + 1)
        /\ Placed(script, Len(framed) + 1, <<>>, 0, arrived, buffer, Remaining - s)
    BY <2>2, <2>3, TakeWhole
  <2> QED
    BY <2>1, <2>4, TurnFirst
<1> QED
  BY <1>1

HandedOver ==
    /\ framed' = Append(framed, Cut(script, Len(framed) + 1))
    /\ queue' = queue \o Kept(script, Len(framed) + 1)
    /\ completed' = (completed \/ Accepts(Len(framed) + 1))
    /\ script' = script /\ handled' = handled

LEMMA HandedOverIs ==
  ASSUME PipelineInv, Looping, HandedOver
  PROVE  /\ Framed(script', framed') /\ Len(framed') = Len(framed) + 1
         /\ queue' \in Seq(Nat) /\ handled' \in Seq(Nat)
         /\ Leads(handled', Given(script', framed'))
         /\ connected => Given(script', framed') = handled' \o queue'
         /\ connected /\ ~completed' => queue' = <<>>
         /\ completed' \in BOOLEAN
<1>1. /\ script \in Seq(Packet) /\ Framed(script, framed) /\ stage = "framing"
      /\ Len(framed) < Len(script)
  BY Turn, TurnNumbers
<1>2. PICK m, x, gr : m = Len(framed) + 1 /\ x = Cut(script, m) /\ gr = Append(framed, x)
  OBVIOUS
<1>3. Framed(script, gr) /\ Len(gr) = Len(framed) + 1
  <2>1. x = Cut(script, Len(framed) + 1)
    BY <1>2
  <2> QED
    BY <1>1, <1>2, <2>1, FramedNext
<1>4. /\ Given(script, framed) \in Seq(Nat) /\ Kept(script, m) \in Seq(Nat)
      /\ Given(script, gr) = Given(script, framed) \o Kept(script, m)
  <2>1. gr = Append(framed, Cut(script, m))
    BY <1>2
  <2> QED
    BY <1>1, <1>2, <2>1, GivenNext
<1>5. /\ queue \in Seq(Nat) /\ handled \in Seq(Nat)
      /\ Leads(handled, Given(script, framed))
      /\ connected => Given(script, framed) = handled \o queue
      /\ connected /\ ~completed => queue = <<>>
  BY <1>1 DEF PipelineInv, OrderInv
<1>6. framed' = gr /\ queue' = queue \o Kept(script, m) /\ script' = script /\ handled' = handled
      /\ completed' = (completed \/ Accepts(m))
  BY <1>2 DEF HandedOver
<1>7. PICK k, g : k = Kept(script, m) /\ g = Given(script, framed)
  OBVIOUS
<1>8. queue' \in Seq(Nat)
  BY <1>4, <1>5, <1>6, <1>7, ConcatProperties
<1>9. Leads(handled, Given(script, gr))
  BY <1>4, <1>5, LeadsOn
<1>10. ASSUME connected PROVE Given(script, gr) = handled \o queue'
  <2>1. Given(script, gr) = (handled \o queue) \o k
    BY <1>4, <1>5, <1>7, <1>10
  <2>2. (handled \o queue) \o k = handled \o (queue \o k)
    <3>1. handled \in Seq(Nat) /\ queue \in Seq(Nat) /\ k \in Seq(Nat)
      BY <1>4, <1>5, <1>7
    <3> QED
      BY <3>1, ConcatThree
  <2> QED
    BY <1>6, <1>7, <2>1, <2>2
<1>11. ASSUME connected, ~completed' PROVE queue' = <<>>
  <2>1. ~completed /\ ~Accepts(m)
    <3>1. completed \in BOOLEAN
      BY DEF PipelineInv, FlagInv
    <3> QED
      BY <1>6, <1>11, <3>1, Zenon
  <2>2. k = <<>>
    BY <1>7, <2>1 DEF Accepts, Kept
  <2>3. queue = <<>>
    BY <1>5, <1>11, <2>1
  <2> QED
    BY <1>6, <1>7, <2>2, <2>3
<1>12. completed' \in BOOLEAN
  <2>1. completed \in BOOLEAN /\ Accepts(m) \in BOOLEAN
    BY DEF PipelineInv, FlagInv, Accepts
  <2> QED
    BY <1>6, <2>1, Zenon
<1> QED
  BY <1>3, <1>5, <1>6, <1>8, <1>9, <1>10, <1>11, <1>12

LEMMA WholeTurnInv ==
  ASSUME PipelineInv, Looping, NEW t \in 1..Remaining, HandedOver,
         Placed(script, Len(framed) + 1, <<>>, 0, arrived, buffer, Remaining - t),
         done' = done + t, pending' = <<>>, header' = 0,
         UNCHANGED <<script, readVars, open, stage, buffer, refused, connected, announced,
                     handled>>
  PROVE  PipelineInv'
<1>1. /\ script' = script /\ arrived' = arrived /\ reading' = reading /\ mailbox' = mailbox
      /\ open' = open /\ stage' = stage /\ buffer' = buffer /\ refused' = refused
      /\ connected' = connected /\ announced' = announced /\ handled' = handled
  BY DEF readVars
<1>2. /\ Remaining \in Nat /\ done \in Nat /\ done = Len(buffer) - Remaining
      /\ Len(buffer) \in Nat /\ stage = "framing"
      /\ Len(buffer) <= ReadSize /\ ReadSize \in Nat
  BY Turn
<1>3. /\ Framed(script', framed') /\ Len(framed') = Len(framed) + 1
      /\ queue' \in Seq(Nat) /\ handled' \in Seq(Nat)
      /\ Leads(handled', Given(script', framed'))
      /\ connected => Given(script', framed') = handled' \o queue'
      /\ connected /\ ~completed' => queue' = <<>>
      /\ completed' \in BOOLEAN
  BY HandedOverIs
<1>4. t \in Nat /\ t <= Remaining
  BY <1>2
<1>5. done' \in 0..ReadSize /\ done' <= Len(buffer)
  BY <1>2, <1>4
<1>6. Left' = Remaining - t
  <2>1. Left' = Len(buffer) - done'
    BY <1>1, <1>2 DEF Left, Remaining
  <2> QED
    BY <1>2, <1>4, <2>1
<1>7. FramesInv'
  BY <1>1, <1>3, <1>6 DEF FramesInv
<1>8. DataInv'
  <2>1. DataInv /\ Len(script) \in Nat
    BY TurnNumbers DEF PipelineInv
  <2>2. 0 \in 0..Len(script)
    BY <2>1
  <2> QED
    BY <1>1, <1>2, <1>5, <2>1, <2>2 DEF DataInv
<1>9. FlagInv'
  BY <1>1, <1>3 DEF PipelineInv, FlagInv
<1>10. FlowInv'
  BY <1>1 DEF PipelineInv, FlowInv, Busy
<1>11. OrderInv'
  BY <1>1, <1>2, <1>3 DEF OrderInv
<1> QED
  BY <1>7, <1>8, <1>9, <1>10, <1>11 DEF PipelineInv

LEMMA RefusedTurnInv ==
  ASSUME PipelineInv, Looping, NEW t \in 1..Remaining, HandedOver,
         done' = done + t, header' = Len(framed) + 1,
         refused' = TRUE, open' = FALSE, stage' = "idle",
         UNCHANGED <<script, readVars, buffer, connected, announced, handled>>
  PROVE  PipelineInv'
<1>1. /\ script' = script /\ arrived' = arrived /\ reading' = reading /\ mailbox' = mailbox
      /\ buffer' = buffer /\ connected' = connected /\ announced' = announced
      /\ handled' = handled
  BY DEF readVars
<1>2. /\ Remaining \in Nat /\ done \in Nat /\ done = Len(buffer) - Remaining
      /\ Len(buffer) \in Nat /\ mailbox = <<>> /\ ~reading /\ ~announced
      /\ Len(buffer) <= ReadSize /\ ReadSize \in Nat
  BY Turn
<1>3. /\ Framed(script', framed')
      /\ queue' \in Seq(Nat) /\ handled' \in Seq(Nat)
      /\ Leads(handled', Given(script', framed'))
      /\ connected => Given(script', framed') = handled' \o queue'
      /\ completed' \in BOOLEAN
  BY HandedOverIs
<1>4. t \in Nat /\ t <= Remaining
  BY <1>2
<1>5. done' \in 0..ReadSize
  BY <1>2, <1>4
<1>6. header' \in 0..Len(script)
  <2>1. Len(framed) + 1 \in 1..Len(script) /\ Len(script) \in Nat
    BY TurnNumbers
  <2> QED
    BY <2>1
<1>7. FramesInv'
  BY <1>3 DEF FramesInv
<1>8. DataInv'
  <2>1. DataInv
    BY DEF PipelineInv
  <2> QED
    BY <1>1, <1>2, <1>5, <1>6, <2>1 DEF DataInv
<1>9. FlagInv'
  BY <1>1, <1>3 DEF PipelineInv, FlagInv
<1>10. FlowInv'
  BY <1>1, <1>2 DEF PipelineInv, FlowInv, Busy
<1>11. OrderInv'
  BY <1>1, <1>3 DEF OrderInv
<1> QED
  BY <1>7, <1>8, <1>9, <1>10, <1>11 DEF PipelineInv

(* The actions of the loop are such turns. *)
LEMMA AppendPendingInv ==
  ASSUME PipelineInv, AppendPending
  PROVE  PipelineInv'
<1>1. /\ Looping /\ pending # <<>>
      /\ PendingHeader = 0 \/ Remaining < Size(PendingHeader) - Len(pending)
      /\ pending' = pending \o Rest(Remaining) /\ header' = PendingHeader
      /\ done' = Len(buffer)
      /\ UNCHANGED <<script, readVars, open, stage, buffer, completed, framed, refused,
                     sessionVars>>
  BY DEF AppendPending
<1>2. PICK m, l, b, r, z : m = Len(framed) + 1 /\ l = Long(script, m) /\ b = Len(pending)
                           /\ r = Remaining /\ z = HeaderSize
  OBVIOUS
<1>3. /\ m # 0 /\ l \in Nat /\ l >= z /\ b \in Nat /\ z \in Nat /\ r \in Nat
  BY <1>1, <1>2, Turn, TurnNumbers
<1>4. PendingHeader = IF b + r < z THEN 0 ELSE m
  BY <1>1, <1>2, PendingHeaderIs
<1>5. b + r < l
  <2>1. CASE b + r < z
    BY <1>3, <2>1
  <2>2. CASE ~(b + r < z)
    <3>1. PendingHeader = m
      BY <1>4, <2>2
    <3>2. Remaining < Size(PendingHeader) - Len(pending)
      BY <1>1, <1>3, <3>1
    <3>3. Size(PendingHeader) = l
      BY <1>2, <3>1, Same
    <3>4. r < l - b
      BY <1>2, <3>2, <3>3
    <3> QED
      BY <1>3, <3>4
  <2> QED
    BY <2>1, <2>2
<1>6. /\ Len(pending) + Remaining < Long(script, Len(framed) + 1)
      /\ header' = IF Len(pending) + Remaining < HeaderSize THEN 0 ELSE Len(framed) + 1
  BY <1>1, <1>2, <1>4, <1>5
<1> QED
  BY <1>1, <1>6, PartTurnInv

LEMMA EmptyBefore ==
  ASSUME PipelineInv, Looping, pending = <<>>
  PROVE  \A t \in 1..Remaining : pending \o Rest(t) = Rest(t)
<1>1. ASSUME NEW t \in 1..Remaining PROVE pending \o Rest(t) = Rest(t)
  <2>1. PICK r : r = Piece(buffer, done, t)
    OBVIOUS
  <2>2. r \in Seq(Unit)
    <3>1. /\ done \in Nat /\ Remaining \in Nat /\ Len(buffer) \in Nat
          /\ done = Len(buffer) - Remaining
      BY Turn
    <3>2. t \in Nat /\ done + t <= Len(buffer) /\ buffer \in Seq(Unit)
      BY <3>1 DEF PipelineInv, DataInv
    <3> QED
      BY <2>1, <3>1, <3>2, PieceIs
  <2>3. <<>> \o r = r
    BY <2>2, ConcatEmptySeq
  <2> QED
    BY <2>1, <2>3, Same
<1> QED
  BY <1>1

LEMMA KeepRestInv ==
  ASSUME PipelineInv, KeepRest
  PROVE  PipelineInv'
<1>1. /\ Looping /\ pending = <<>>
      /\ Remaining < Size(buffer[done + 1][1])
      /\ header' = IF Remaining < HeaderSize THEN 0 ELSE buffer[done + 1][1]
      /\ pending' = Rest(Remaining) /\ done' = Len(buffer)
      /\ UNCHANGED <<script, readVars, open, stage, buffer, completed, framed, refused,
                     sessionVars>>
  BY DEF KeepRest
<1>2. buffer[done + 1][1] = Len(framed) + 1
  BY <1>1, BufferHeaderIs
<1>3. Len(pending) + Remaining = Remaining
  <2>1. Len(pending) = 0 /\ Remaining \in Nat
    BY <1>1, Turn
  <2> QED
    BY <2>1
<1>4. Remaining < Long(script, Len(framed) + 1)
  BY <1>1, <1>2, Same
<1>5. pending' = pending \o Rest(Remaining)
  BY <1>1, EmptyBefore
<1>6. /\ Len(pending) + Remaining < Long(script, Len(framed) + 1)
      /\ header' = IF Len(pending) + Remaining < HeaderSize THEN 0 ELSE Len(framed) + 1
  BY <1>1, <1>2, <1>3, <1>4
<1> QED
  BY <1>1, <1>5, <1>6, PartTurnInv

(* What the pending stream takes to complete its packet. *)
LEMMA TakenIs ==
  ASSUME PipelineInv, Looping, pending # <<>>, PendingHeader # 0,
         Remaining >= Size(PendingHeader) - Len(pending)
  PROVE  /\ PendingHeader = Len(framed) + 1
         /\ Taken(PendingHeader) \in 1..Remaining
         /\ Len(pending) + Taken(PendingHeader) = Long(script, Len(framed) + 1)
<1>1. PICK m, l, b, r : m = Len(framed) + 1 /\ l = Long(script, m) /\ b = Len(pending)
                        /\ r = Remaining
  OBVIOUS
<1>2. m # 0 /\ l \in Nat /\ b \in Nat /\ r \in Nat
  BY <1>1, Turn, TurnNumbers
<1>3. PendingHeader = m
  <2>1. PendingHeader = IF b + r < HeaderSize THEN 0 ELSE m
    BY <1>1, PendingHeaderIs
  <2> QED
    BY <2>1
<1>4. Size(PendingHeader) = l
  BY <1>1, <1>3, Same
<1>5. b < l
  <2>1. Placed(script, Len(framed), pending, header, arrived, buffer, Remaining)
    BY Turn
  <2> QED
    BY <1>1, <2>1 DEF Placed
<1>6. r >= l - b
  BY <1>1, <1>4
<1>7. Taken(PendingHeader) = l - b
  <2>1. Taken(PendingHeader) = Least(r, l - b)
    BY <1>1, <1>4 DEF Taken
  <2> QED
    BY <1>2, <1>6, <2>1 DEF Least
<1>8. l - b \in 1..r /\ b + (l - b) = l
  BY <1>2, <1>5, <1>6
<1> QED
  BY <1>1, <1>3, <1>7, <1>8

LEMMA HandOverIs ==
  ASSUME PipelineInv, Looping, NEW t \in 1..Remaining,
         Len(pending) + t = Long(script, Len(framed) + 1),
         NEW q, q = pending \o Rest(t), HandOver(q), script' = script, handled' = handled
  PROVE  /\ HandedOver
         /\ Placed(script, Len(framed) + 1, <<>>, 0, arrived, buffer, Remaining - t)
<1>1. /\ q = Cut(script, Len(framed) + 1) /\ q[1][1] = Len(framed) + 1
      /\ Placed(script, Len(framed) + 1, <<>>, 0, arrived, buffer, Remaining - t)
  BY WholeSegment
<1>2. Queued(q[1][1]) = Kept(script, Len(framed) + 1)
  BY <1>1, Same
<1>3. /\ framed' = Append(framed, q)
      /\ queue' = queue \o Queued(q[1][1])
      /\ completed' = (completed \/ Accepts(q[1][1]))
  BY DEF HandOver
<1> QED
  BY <1>1, <1>2, <1>3 DEF HandedOver

LEMMA CompletePendingInv ==
  ASSUME PipelineInv, CompletePending
  PROVE  PipelineInv'
<1>1. /\ Looping /\ pending # <<>>
      /\ PendingHeader # 0
      /\ Remaining >= Size(PendingHeader) - Len(pending)
      /\ HandOver(pending \o Rest(Taken(PendingHeader)))
      /\ done' = done + Taken(PendingHeader)
      /\ pending' = <<>> /\ header' = 0
      /\ UNCHANGED <<script, readVars, open, stage, buffer, refused, connected, announced,
                     handled>>
  BY DEF CompletePending
<1>2. PICK t, q : t = Taken(PendingHeader) /\ q = pending \o Rest(t)
  OBVIOUS
<1>3. t \in 1..Remaining /\ Len(pending) + t = Long(script, Len(framed) + 1)
  BY <1>1, <1>2, TakenIs
<1>4. HandOver(q) /\ script' = script /\ handled' = handled
  BY <1>1, <1>2
<1>5. /\ HandedOver
      /\ Placed(script, Len(framed) + 1, <<>>, 0, arrived, buffer, Remaining - t)
  BY <1>1, <1>2, <1>3, <1>4, HandOverIs
<1>6. done' = done + t
  BY <1>1, <1>2
<1> QED
  BY <1>1, <1>3, <1>5, <1>6, WholeTurnInv

LEMMA WholePacketInv ==
  ASSUME PipelineInv, WholePacket
  PROVE  PipelineInv'
<1>1. /\ Looping /\ pending = <<>>
      /\ Remaining >= Size(buffer[done + 1][1])
      /\ HandOver(Rest(Size(buffer[done + 1][1])))
      /\ done' = done + Size(buffer[done + 1][1])
      /\ UNCHANGED <<script, readVars, open, stage, buffer, pending, header, refused,
                     connected, announced, handled>>
  BY DEF WholePacket
<1>2. PICK m, t : m = Len(framed) + 1 /\ t = Long(script, m)
  OBVIOUS
<1>3. Size(buffer[done + 1][1]) = t
  BY <1>1, <1>2, BufferHeaderIs, Same
<1>4. t \in 1..Remaining /\ Len(pending) + t = t
  <2>1. t \in Nat /\ t >= HeaderSize /\ HeaderSize \in Nat /\ HeaderSize > 0
    BY <1>1, <1>2, TurnNumbers
  <2>2. Remaining \in Nat /\ Remaining >= t /\ Len(pending) = 0
    BY <1>1, <1>3, Turn
  <2> QED
    BY <2>1, <2>2
<1>5. PICK q : q = pending \o Rest(t)
  OBVIOUS
<1>6. q = Rest(t)
  BY <1>1, <1>4, <1>5, EmptyBefore
<1>7. HandOver(q) /\ script' = script /\ handled' = handled
  BY <1>1, <1>3, <1>6
<1>8. Len(pending) + t = Long(script, Len(framed) + 1)
  BY <1>2, <1>4
<1>9. /\ HandedOver
      /\ Placed(script, Len(framed) + 1, <<>>, 0, arrived, buffer, Remaining - t)
  BY <1>1, <1>4, <1>5, <1>7, <1>8, HandOverIs
<1>10. done' = done + t /\ pending' = <<>>
  BY <1>1, <1>3
<1>11. header' = 0
  <2>1. Placed(script, Len(framed), pending, header, arrived, buffer, Remaining)
    BY <1>1, Turn
  <2>2. Len(pending) = 0 /\ HeaderSize \in Nat /\ HeaderSize > 0
    BY <1>1, TurnNumbers
  <2>3. Len(pending) < HeaderSize
    BY <2>2
  <2>4. header = 0
    BY <2>1, <2>3 DEF Placed
  <2> QED
    BY <1>1, <2>4
<1> QED
  BY <1>1, <1>4, <1>9, <1>10, <1>11, WholeTurnInv

LEMMA RefusePendingInv ==
  ASSUME PipelineInv, RefusePending
  PROVE  PipelineInv'
<1>1. /\ Looping /\ pending # <<>>
      /\ PendingHeader # 0
      /\ Remaining >= Size(PendingHeader) - Len(pending)
      /\ HandOver(pending \o Rest(Taken(PendingHeader)))
      /\ header' = PendingHeader
      /\ done' = done + Taken(PendingHeader)
      /\ refused' = TRUE /\ open' = FALSE /\ stage' = "idle"
      /\ UNCHANGED <<script, readVars, buffer, connected, announced, handled>>
  BY DEF RefusePending
<1>2. PICK t, q : t = Taken(PendingHeader) /\ q = pending \o Rest(t)
  OBVIOUS
<1>3. t \in 1..Remaining /\ Len(pending) + t = Long(script, Len(framed) + 1)
  BY <1>1, <1>2, TakenIs
<1>4. HandOver(q) /\ script' = script /\ handled' = handled
  BY <1>1, <1>2
<1>5. HandedOver
  BY <1>1, <1>2, <1>3, <1>4, HandOverIs
<1>6. done' = done + t /\ header' = Len(framed) + 1
  BY <1>1, <1>2, TakenIs
<1> QED
  BY <1>1, <1>3, <1>5, <1>6, RefusedTurnInv

LEMMA StepInv == PipelineInv /\ [Next]_vars => PipelineInv'
<1> SUFFICES ASSUME PipelineInv, [Next]_vars PROVE PipelineInv'
  OBVIOUS
<1>1. CASE ReadCompletes BY <1>1, ReadCompletesInv
<1>2. CASE ReadFails BY <1>2, ReadFailsInv
<1>3. CASE ReceiveError BY <1>3, ReceiveErrorInv
<1>4. CASE BeginFraming BY <1>4, BeginFramingInv
<1>5. CASE AppendPending BY <1>5, AppendPendingInv
<1>6. CASE CompletePending BY <1>6, CompletePendingInv
<1>7. CASE RefusePending BY <1>7, RefusePendingInv
<1>8. CASE KeepRest BY <1>8, KeepRestInv
<1>9. CASE WholePacket BY <1>9, WholePacketInv
<1>10. CASE EndFraming BY <1>10, EndFramingInv
<1>11. CASE HandlePacket BY <1>11, HandlePacketInv
<1>12. CASE UnhandledPacket BY <1>12, UnhandledPacketInv
<1>13. CASE EndHandling BY <1>13, EndHandlingInv
<1>14. CASE BeginReceive BY <1>14, BeginReceiveInv
<1>15. CASE Disconnect BY <1>15, DisconnectInv
<1>16. CASE UNCHANGED vars
  <2>1. DataInv /\ FlagInv /\ FlowInv /\ FramesInv /\ OrderInv
    BY DEF PipelineInv
  <2>2. Left' = Left
    BY <1>16 DEF vars, Left, Remaining
  <2>3. DataInv'
    BY <1>16, <2>1 DEF vars, DataInv
  <2>4. FlagInv'
    BY <1>16, <2>1 DEF vars, FlagInv
  <2>5. FlowInv'
    BY <1>16, <2>1 DEF vars, FlowInv, Busy
  <2>6. FramesInv'
    BY <1>16, <2>1, <2>2, FramesKept DEF vars
  <2>7. OrderInv'
    BY <1>16, <2>1 DEF vars, OrderInv
  <2> QED
    BY <2>3, <2>4, <2>5, <2>6, <2>7 DEF PipelineInv
<1> QED
  BY <1>1, <1>2, <1>3, <1>4, <1>5, <1>6, <1>7, <1>8, <1>9, <1>10, <1>11, <1>12, <1>13,
     <1>14, <1>15, <1>16, Zenon DEF Next, Socket, Receive

-----------------------------------------------------------------------------
(* The invariant holds of the specification. *)
LEMMA PipelineInvariant == Spec => []PipelineInv
<1>1. Init => PipelineInv
  BY InitInv
<1>2. PipelineInv /\ [Next]_vars => PipelineInv'
  BY StepInv
<1> QED
  BY <1>1, <1>2, PTL DEF Spec

(* The variables of the connection and of its session have their types:    *)
(* ReceiveImpl never reads beyond the buffer (done <= Len(buffer)), and a  *)
(* read is outstanding only while the actor's handler rests.               *)
THEOREM ReceiveTypes == Spec => []TypeOK
<1>1. PipelineInv => TypeOK
  <2> SUFFICES ASSUME PipelineInv PROVE TypeOK
    OBVIOUS
  <2>1. DataInv /\ FlagInv /\ FlowInv /\ Stream = Flow(script)
    BY Same DEF PipelineInv
  <2>2. /\ script \in Seq(Packet) /\ arrived \in 0..Len(Stream)
        /\ Len(buffer) <= ReadSize /\ done \in 0..ReadSize
        /\ stage = "framing" => done <= Len(buffer)
    BY <2>1 DEF DataInv
  <2>3. header \in 0..Len(script)
    BY <2>1 DEF DataInv
  <2>4. reading => mailbox = <<>> /\ stage = "idle"
    BY <2>1 DEF FlowInv
  <2> QED
    BY <2>1, <2>2, <2>3, <2>4 DEF TypeOK, FlagInv
<1> QED
  BY <1>1, PipelineInvariant, PTL

(* What is framed and pending is what the stream begins with. *)
Received(p, fr, pend, hd, ar, buf, left, cut) ==
    /\ p \in Seq(Packet) /\ Framed(p, fr) /\ Placed(p, Len(fr), pend, hd, ar, buf, left)
    /\ cut = ar - left

LEMMA FramedStream ==
  ASSUME NEW p, NEW fr, NEW pend, NEW hd, NEW ar, NEW buf, NEW left,
         NEW cut, Received(p, fr, pend, hd, ar, buf, left, cut)
  PROVE  FlattenSeq(fr) \o pend = SubSeq(Flow(p), 1, cut)
<1>0. PICK n : n = Len(fr)
  OBVIOUS
<1>14. /\ p \in Seq(Packet) /\ Framed(p, fr) /\ Placed(p, n, pend, hd, ar, buf, left)
       /\ cut = ar - left
  BY <1>0 DEF Received
<1>1. PICK f, a, u : f = Flow(p) /\ a = At(p, n) /\ u = FlattenSeq(fr)
  OBVIOUS
<1>2. /\ n \in 0..Len(p) /\ a \in Nat /\ Len(pend) \in Nat /\ left \in Nat /\ ar \in Nat
      /\ f \in Seq(Unit) /\ Len(f) \in Nat /\ ar <= Len(f)
  BY <1>1, <1>14, PlacedNumbers
<1>3. /\ pend \in Seq(Unit) /\ a + Len(pend) + left = ar
      /\ \A k \in 1..Len(pend) : pend[k] = f[a + k]
  BY <1>1, <1>14 DEF Placed
<1>4. u = SubSeq(f, 1, a) /\ a <= Len(f)
  BY <1>0, <1>1, <1>2, <1>14, FlowAt, FramedFlat
<1>5. PICK l \in Nat : l = a + Len(pend)
  BY <1>2
<1>6. l = cut /\ l <= Len(f)
  BY <1>2, <1>3, <1>5, <1>14
<1>7. u \in Seq(Unit) /\ Len(u) = a /\ \A k \in 1..a : u[k] = f[k]
  <2>1. u = Piece(f, 0, a)
    <3>1. 0 + 1 = 1 /\ 0 + a = a
      BY <1>2
    <3> QED
      BY <1>4, <3>1 DEF Piece
  <2>2. 0 \in Nat /\ 0 + a <= Len(f) /\ f \in Seq(Unit) /\ a \in Nat
    BY <1>2, <1>4
  <2>3. /\ Piece(f, 0, a) \in Seq(Unit) /\ Len(Piece(f, 0, a)) = a
        /\ \A k \in 1..a : Piece(f, 0, a)[k] = f[0 + k]
    BY <2>2, PieceIs
  <2>4. \A k \in 1..a : 0 + k = k
    OBVIOUS
  <2> QED
    BY <2>1, <2>3, <2>4
<1>8. PICK v, w : v = Piece(f, 0, l) /\ w = u \o pend
  OBVIOUS
<1>9. v \in Seq(Unit) /\ Len(v) = l /\ \A k \in 1..l : v[k] = f[k]
  <2>1. 0 \in Nat /\ 0 + l <= Len(f) /\ f \in Seq(Unit)
    BY <1>2, <1>6
  <2>2. /\ Piece(f, 0, l) \in Seq(Unit) /\ Len(Piece(f, 0, l)) = l
        /\ \A k \in 1..l : Piece(f, 0, l)[k] = f[0 + k]
    BY <2>1, PieceIs
  <2>3. \A k \in 1..l : 0 + k = k
    OBVIOUS
  <2> QED
    BY <1>8, <2>2, <2>3
<1>10. /\ w \in Seq(Unit) /\ Len(w) = a + Len(pend)
       /\ \A k \in 1..a : w[k] = u[k]
       /\ \A k \in 1..Len(pend) : w[a + k] = pend[k]
  <2>1. /\ w \in Seq(Unit) /\ Len(w) = Len(u) + Len(pend)
        /\ \A k \in 1..Len(u) : w[k] = u[k]
        /\ \A k \in 1..Len(pend) : w[Len(u) + k] = pend[k]
    BY <1>3, <1>7, <1>8, ConcatUnits
  <2> QED
    BY <1>7, <2>1
<1>11. ASSUME NEW k \in 1..Len(w) PROVE w[k] = v[k]
  <2>1. k \in 1..l
    BY <1>5, <1>10
  <2>2. CASE k <= a
    <3>1. k \in 1..a
      BY <1>2, <2>1, <2>2
    <3> QED
      BY <1>7, <1>9, <1>10, <2>1, <3>1
  <2>3. CASE k > a
    <3>1. PICK j \in Nat : j = k - a
      <4>1. k - a \in Nat
        BY <1>2, <2>1, <2>3
      <4> QED
        BY <4>1
    <3>2. j \in 1..Len(pend) /\ k = a + j
      BY <1>2, <1>5, <2>1, <2>3, <3>1
    <3> QED
      BY <1>3, <1>9, <1>10, <2>1, <3>2
  <2> QED
    BY <1>2, <2>1, <2>2, <2>3
<1>12. w = v
  <2>1. Len(w) = Len(v)
    BY <1>5, <1>9, <1>10
  <2> QED
    BY <1>9, <1>10, <1>11, <2>1, SeqEqual
<1>13. v = SubSeq(f, 1, cut)
  <2>1. 0 + 1 = 1 /\ 0 + l = cut
    BY <1>6
  <2> QED
    BY <1>8, <2>1 DEF Piece
<1> QED
  BY <1>1, <1>8, <1>12, <1>13

(* The pending stream knows its header when it holds one. *)
LEMMA PlacedHeader ==
  ASSUME NEW p \in Seq(Packet), NEW n, NEW pend, NEW hd, NEW ar, NEW buf, NEW left,
         Placed(p, n, pend, hd, ar, buf, left)
  PROVE  hd = IF Len(pend) < HeaderSize THEN 0 ELSE pend[1][1]
<1>1. hd = IF Len(pend) < HeaderSize THEN 0 ELSE n + 1
  BY DEF Placed
<1>2. ASSUME ~(Len(pend) < HeaderSize) PROVE pend[1][1] = n + 1
  <2>1. HeaderSize \in Nat /\ HeaderSize > 0
    <3>1. HeaderSize \in Nat \ {0}
      BY ReceiveAssumption, Zenon DEF ReceiveAssumption
    <3> QED
      BY <3>1
  <2>2. Len(pend) \in Nat /\ n \in Nat /\ Len(p) \in Nat /\ n \in 0..Len(p)
    BY PlacedNumbers
  <2>3. Len(pend) >= 1 /\ pend # <<>>
    BY <1>2, <2>1, <2>2
  <2>4. n < Len(p) /\ Len(pend) < Long(p, n + 1) /\ pend[1] = Flow(p)[At(p, n) + 1]
    <3>1. 1 \in 1..Len(pend)
      BY <2>2, <2>3
    <3> QED
      BY <2>3, <3>1 DEF Placed
  <2>5. PICK m : m = n + 1
    OBVIOUS
  <2>6. m \in 1..Len(p) /\ Long(p, m) \in Nat
    <3>1. m \in 1..Len(p)
      BY <2>2, <2>4, <2>5
    <3> QED
      BY <3>1, CutIs
  <2>7. 1 \in 1..Long(p, m)
    BY <2>2, <2>3, <2>4, <2>5, <2>6
  <2>8. \A k \in 1..Long(p, n + 1) : Flow(p)[At(p, n) + k] = <<n + 1, k>>
    BY <2>2, <2>4, FlowAt
  <2>9. pend[1] = <<m, 1>>
    BY <2>4, <2>5, <2>7, <2>8
  <2> QED
    BY <2>5, <2>9
<1> QED
  BY <1>1, <1>2

(* However the peer's stream is cut into reads, the segments handed to     *)
(* OnDataReceived are its packets, whole and in order; every unit that     *)
(* ReceiveImpl processed is in one of them or in the pending stream, whose *)
(* header is known exactly when it holds one.                              *)
THEOREM ReceiveFraming == Spec => []Framing
<1>1. PipelineInv => Framing
  <2> SUFFICES ASSUME PipelineInv PROVE Framing
    OBVIOUS
  <2>1. Framed(script, framed) /\ script \in Seq(Packet)
    BY DEF PipelineInv, FramesInv, DataInv
  <2>2. \A j \in 1..Len(framed) : framed[j] = Units(j)
    BY <2>1, Same DEF Framed
  <2>3. ASSUME ~refused, mailbox # << 0 >>
        PROVE  /\ FlattenSeq(framed) \o pending = SubSeq(Stream, 1, arrived - Unprocessed)
               /\ header = IF Len(pending) < HeaderSize THEN 0 ELSE pending[1][1]
    <3>1. Placed(script, Len(framed), pending, header, arrived, buffer, Left)
      BY <2>3 DEF PipelineInv, FramesInv
    <3>2. Unprocessed = Left
      <4>1. /\ mailbox # <<>> => stage = "idle"
            /\ stage \in {"idle", "framing", "handling", "rearm"}
            /\ stage \in {"handling", "rearm"} => done = Len(buffer)
            /\ Len(buffer) \in Nat
        BY LenProperties DEF PipelineInv, FlowInv, FlagInv, DataInv
      <4>2. CASE stage = "framing"
        BY <4>2 DEF Unprocessed, Left
      <4>3. CASE stage = "idle"
        BY <2>3, <4>3 DEF Unprocessed, Left
      <4>4. CASE stage \in {"handling", "rearm"}
        <5>1. Left = 0 /\ Unprocessed = Remaining
          BY <4>1, <4>4 DEF Unprocessed, Left
        <5>2. Remaining = 0
          BY <4>1, <4>4 DEF Remaining
        <5> QED
          BY <5>1, <5>2
      <4> QED
        BY <4>1, <4>2, <4>3, <4>4
    <3>3. FlattenSeq(framed) \o pending = SubSeq(Flow(script), 1, arrived - Left)
      <4>1. PICK cut : cut = arrived - Left
        OBVIOUS
      <4>2. Received(script, framed, pending, header, arrived, buffer, Left, cut)
        BY <2>1, <3>1, <4>1 DEF Received
      <4> QED
        BY <4>1, <4>2, FramedStream
    <3>4. header = IF Len(pending) < HeaderSize THEN 0 ELSE pending[1][1]
      BY <2>1, <3>1, PlacedHeader
    <3> QED
      BY <3>2, <3>3, <3>4, Same
  <2> QED
    BY <2>2, <2>3 DEF Framing
<1> QED
  BY <1>1, PipelineInvariant, PTL

(* The handlers see the packets in the order of the stream, and a live     *)
(* session between two reads has handled all that was framed.              *)
THEOREM ReceiveNoPacketWaits == Spec => []NoPacketWaits
<1>1. PipelineInv => NoPacketWaits
  <2> SUFFICES ASSUME PipelineInv PROVE NoPacketWaits
    OBVIOUS
  <2>1. OrderInv /\ QueuedOf = Given(script, framed)
    BY Same DEF PipelineInv
  <2>2. IsPrefix(handled, QueuedOf)
    BY <2>1, LeadsPrefix DEF OrderInv
  <2>3. ASSUME stage = "idle", connected, ~refused PROVE handled = QueuedOf
    <3>1. handled \in Seq(Nat) /\ queue = <<>> /\ QueuedOf = handled \o queue
      BY <2>1, <2>3 DEF OrderInv
    <3> QED
      BY <3>1, ConcatEmptySeq
  <2> QED
    BY <2>2, <2>3 DEF NoPacketWaits
<1> QED
  BY <1>1, PipelineInvariant, PTL

(* End to end: what the handlers have seen is the beginning of the packets *)
(* the peer sends for a handler, in its order, none missed and none twice. *)
InOrder == IsPrefix(handled, FlattenSeq([i \in 1..Len(script) |-> Queued(i)]))

THEOREM ReceiveInOrder == Spec => []InOrder
<1>1. PipelineInv => InOrder
  <2> SUFFICES ASSUME PipelineInv PROVE InOrder
    OBVIOUS
  <2>1. /\ script \in Seq(Packet) /\ Framed(script, framed)
        /\ Leads(handled, Given(script, framed))
    BY DEF PipelineInv, DataInv, FramesInv, OrderInv
  <2>2. Leads(Given(script, framed), Due(script))
    BY <2>1, GivenDue
  <2>3. IsPrefix(handled, Due(script))
    BY <2>1, <2>2, LeadsTrans, LeadsPrefix
  <2>4. [i \in 1..Len(script) |-> Queued(i)] = [i \in 1..Len(script) |-> Kept(script, i)]
    BY Same
  <2> QED
    BY <2>3, <2>4 DEF InOrder, Due
<1> QED
  BY <1>1, PipelineInvariant, PTL

(* A connection whose end is neither announced nor a refused packet has    *)
(* exactly one thing under way, from which its next step comes: a read,    *)
(* its answer in the mailbox, or the handler.  So a socket that is closed  *)
(* while it lasts is found closed by a read that is made or outstanding,   *)
(* and never by two of them.  A refused connection is never announced.     *)
OneTurn ==
    /\ ~announced /\ ~refused <=> Busy
    /\ ~(reading /\ mailbox # <<>>)
    /\ ~(stage # "idle" /\ (reading \/ mailbox # <<>>))
    /\ ~(announced /\ refused)

THEOREM ReceiveOneTurn == Spec => []OneTurn
<1>1. PipelineInv => OneTurn
  BY DEF PipelineInv, FlowInv, OneTurn
<1> QED
  BY <1>1, PipelineInvariant, PTL

-----------------------------------------------------------------------------
(* OnReceived comes to its end, whatever the read contained: a turn of     *)
(* ReceiveImpl's loop takes at least one unit and never more than the      *)
(* buffer holds, a packet handled is one fewer in a queue that nothing is  *)
(* added to, and after the loop come the handlers and then the next read.  *)
(* While it works no step of another actor or of the socket comes between  *)
(* that changes its buffer, its position or its queue.                     *)
HandlerAdvances ==
    /\ Looping => done' \in (done + 1)..Len(buffer) /\ buffer' = buffer
    /\ stage = "framing" /\ ~Looping => stage' \in {"handling", "rearm"}
    /\ stage = "handling" => \/ stage' = "rearm"
                             \/ stage' = "handling" /\ queue # <<>> /\ queue' = Tail(queue)
    /\ stage = "rearm" => stage' = "idle" /\ reading'

LEMMA TurnAdvances ==
  ASSUME PipelineInv, Looping, NEW t \in 1..Remaining, done' = done + t
  PROVE  done' \in (done + 1)..Len(buffer)
<1>1. /\ Remaining \in Nat /\ done \in Nat /\ Len(buffer) \in Nat
      /\ done = Len(buffer) - Remaining
  BY Turn
<1> QED
  BY <1>1

(* A turn that uses the buffer up. *)
LEMMA LastTurnAdvances ==
  ASSUME PipelineInv, Looping, done' = Len(buffer)
  PROVE  done' \in (done + 1)..Len(buffer)
<1>1. /\ Remaining \in Nat /\ Remaining >= 1 /\ done \in Nat /\ Len(buffer) \in Nat
      /\ done = Len(buffer) - Remaining
  BY Turn
<1> QED
  BY <1>1

LEMMA StepAdvances ==
  ASSUME PipelineInv, Next
  PROVE  HandlerAdvances
<1> USE DEF Looping
<1>1. reading => stage = "idle"
  BY DEF PipelineInv, FlowInv
<1>2. CASE Socket \/ ReceiveError \/ BeginFraming \/ Disconnect
  BY <1>1, <1>2
  DEF Socket, ReadCompletes, ReadFails, ReceiveError, BeginFraming, Disconnect, HandlerAdvances
<1>3. CASE AppendPending
  <2>1. Looping /\ done' = Len(buffer) /\ buffer' = buffer /\ stage = "framing"
    BY <1>3 DEF AppendPending
  <2> QED
    BY <2>1, LastTurnAdvances DEF HandlerAdvances
<1>4. CASE KeepRest
  <2>1. Looping /\ done' = Len(buffer) /\ buffer' = buffer /\ stage = "framing"
    BY <1>4 DEF KeepRest
  <2> QED
    BY <2>1, LastTurnAdvances DEF HandlerAdvances
<1>5. CASE CompletePending \/ RefusePending
  <2>1. /\ Looping /\ pending # <<>> /\ PendingHeader # 0
        /\ Remaining >= Size(PendingHeader) - Len(pending)
        /\ done' = done + Taken(PendingHeader) /\ buffer' = buffer /\ stage = "framing"
    BY <1>5 DEF CompletePending, RefusePending
  <2>2. Taken(PendingHeader) \in 1..Remaining
    BY <2>1, TakenIs
  <2> QED
    BY <2>1, <2>2, TurnAdvances DEF HandlerAdvances
<1>6. CASE WholePacket
  <2>1. /\ Looping /\ pending = <<>> /\ Remaining >= Size(buffer[done + 1][1])
        /\ done' = done + Size(buffer[done + 1][1]) /\ buffer' = buffer
        /\ stage = "framing"
    BY <1>6 DEF WholePacket
  <2>2. PICK t : t = Size(buffer[done + 1][1])
    OBVIOUS
  <2>3. t = Long(script, Len(framed) + 1)
    BY <2>1, <2>2, BufferHeaderIs, Same
  <2>4. t \in 1..Remaining
    <3>1. t \in Nat /\ t >= HeaderSize /\ HeaderSize \in Nat /\ HeaderSize > 0
      BY <2>1, <2>3, TurnNumbers
    <3>2. Remaining \in Nat /\ Remaining >= t
      BY <2>1, <2>2, Turn
    <3> QED
      BY <3>1, <3>2
  <2> QED
    BY <2>1, <2>2, <2>4, TurnAdvances DEF HandlerAdvances
<1>7. CASE EndFraming
  <2>1. stage = "framing" /\ done = Len(buffer) /\ stage' \in {"handling", "rearm"}
    BY <1>7 DEF EndFraming
  <2>2. ~Looping
    <3>1. Len(buffer) \in Nat
      BY LenProperties DEF PipelineInv, DataInv
    <3> QED
      BY <2>1, <3>1
  <2> QED
    BY <2>1, <2>2 DEF HandlerAdvances
<1>8. CASE HandlePacket \/ UnhandledPacket \/ EndHandling \/ BeginReceive
  BY <1>8
  DEF HandlePacket, UnhandledPacket, EndHandling, BeginReceive, HandlerAdvances, frameVars
<1> QED
  BY <1>2, <1>3, <1>4, <1>5, <1>6, <1>7, <1>8 DEF Next, Receive

THEOREM ReceiveEnds == Spec => [][HandlerAdvances]_vars
<1>1. PipelineInv /\ [Next]_vars => [HandlerAdvances]_vars
  BY StepAdvances
<1> QED
  BY <1>1, PipelineInvariant, PTL DEF Spec
=============================================================================
