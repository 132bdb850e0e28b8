------------------------- MODULE WorldSectionProofs -------------------------
(***************************************************************************)
(* Proofs about WorldSection, for any number of sessions, maps, characters *)
(* and slots: type correctness, the bookkeeping of a section, whom its     *)
(* slots hold, what a session that is gone leaves behind, and what the     *)
(* players of a section are shown of each other.                           *)
(***************************************************************************)
EXTENDS WorldSection, SequenceTheorems, FiniteSetTheorems, WellFoundedInduction, TLAPS

Slots == 1..SlotCount

(* What a section is in itself. *)
Fit(x) ==
    /\ x \in Section
    /\ x.count = SlotCount - Cardinality(SlotsOf(x, None))
    /\ x.owner \in Members(x) \cup {None}

Twice(x, s) == \E i, j \in Slots : i # j /\ x.slots[i] = s /\ x.slots[j] = s

(* The sections, and who sits in them. A section is dropped when one       *)
(* player is left in it, and then nobody enters.                           *)
SeatsInv ==
    /\ \A n \in Instances : LET x == created[n] IN
          /\ Fit(x)
          /\ x.owner = None => Members(x) \subseteq again
          /\ ~Live(n) => x.count <= 1
          /\ \A s \in Sessions : Twice(x, s) => s \in again
    /\ MembershipAgrees

SectionInv == TypeOK /\ SeatsInv /\ GhostsHaveACause

(* While nobody has left a live section, its members fill the first slots, *)
(* as Multicast has it, and its Pcs are those of its members' characters.  *)
Filled(x) ==
    /\ \A i \in Slots : x.slots[i] # None <=> i <= x.count
    /\ x.objects = Members(x)

Shown(x, V) == \A c \in Characters : x.pcs[c] # None <=> c \in V

Views(n) ==
    /\ \A t \in Members(created[n]) : view[t] = Seen(n)
    /\ Live(n) => Filled(created[n]) /\ Shown(created[n], Seen(n))

ViewsInv == again = {} => \A n \in Instances \ left : Views(n)

-----------------------------------------------------------------------------
(* The least of some naturals, by the well-founded order of finite sets.   *)
LEMMA LowestIn ==
  ASSUME NEW I \in SUBSET Nat, I # {}
  PROVE  Lowest(I) \in I /\ \A i \in I : Lowest(I) <= i
<1> DEFINE T == {1..i : i \in I}
<1>1. T # {} /\ T \subseteq FiniteSubsetsOf(Nat)
  <2>1. ASSUME NEW i \in I PROVE 1..i \in FiniteSubsetsOf(Nat)
    <3>1. i \in Int /\ 1 \in Int /\ 1..i \subseteq Nat
      OBVIOUS
    <3>2. IsFiniteSet(1..i)
      BY <3>1, FS_Interval
    <3> QED
      BY <3>1, <3>2 DEF FiniteSubsetsOf
  <2> QED
    BY <2>1
<1>2. PICK x \in T : \A y \in T : ~(<<y, x>> \in StrictSubsetOrdering(Nat))
  BY <1>1, FS_StrictSubsetOrderingWellFounded, WFMin
<1>3. PICK i \in I : x = 1..i
  OBVIOUS
<1>4. ASSUME NEW j \in I, j < i PROVE FALSE
  <2>1. 1..j \in T /\ 1..j \subseteq 1..i /\ i \in 1..i /\ i \notin 1..j
    BY <1>4
  <2>2. <<1..j, x>> \in StrictSubsetOrdering(Nat)
    BY <1>3, <2>1 DEF StrictSubsetOrdering
  <2> QED
    BY <1>2, <2>1, <2>2
<1>5. \A j \in I : i <= j
  BY <1>4
<1> QED
  BY <1>5 DEF Lowest

(* How many slots hold somebody. *)
LEMMA SlotSets ==
  ASSUME NEW x \in Section, NEW s
  PROVE  /\ SlotsOf(x, s) \subseteq Slots /\ SlotsOf(x, s) \subseteq Nat
         /\ IsFiniteSet(SlotsOf(x, s)) /\ Cardinality(SlotsOf(x, s)) \in 0..SlotCount
         /\ SlotCount \in Nat \ {0}
<1>1. IsFiniteSet(Slots) /\ Cardinality(Slots) = SlotCount /\ SlotCount \in Nat \ {0}
  BY FS_Interval, SectionAssumption DEF Slots
<1>2. SlotsOf(x, s) \subseteq Slots
  BY DEF SlotsOf, Slots
<1>3. IsFiniteSet(SlotsOf(x, s)) /\ Cardinality(SlotsOf(x, s)) <= SlotCount
  BY <1>1, <1>2, FS_Subset
<1>4. Cardinality(SlotsOf(x, s)) \in Nat
  BY <1>3, FS_CardinalityType
<1> QED
  BY <1>1, <1>2, <1>3, <1>4, SectionAssumption DEF Slots

LEMMA SectionFields ==
  ASSUME NEW x \in Section
  PROVE  /\ x = [map |-> x.map, slots |-> x.slots, count |-> x.count, owner |-> x.owner,
                 objects |-> x.objects, pcs |-> x.pcs]
         /\ x.map \in Maps /\ x.slots \in [Slots -> Sessions \cup {None}]
         /\ x.count \in 0..SlotCount /\ x.owner \in Sessions \cup {None}
         /\ x.objects \in SUBSET Sessions
         /\ x.pcs \in [Characters \cup {None} -> Sessions \cup {None}]
BY DEF Section, Slots

LEMMA SectionOf ==
  ASSUME NEW m \in Maps, NEW a \in [Slots -> Sessions \cup {None}], NEW k \in 0..SlotCount,
         NEW o \in Sessions \cup {None}, NEW g \in SUBSET Sessions,
         NEW p \in [Characters \cup {None} -> Sessions \cup {None}]
  PROVE  [map |-> m, slots |-> a, count |-> k, owner |-> o, objects |-> g, pcs |-> p] \in Section
BY DEF Section, Slots

(* A section with the same slots, count and owner is as fit.               *)
LEMMA FitSame ==
  ASSUME NEW x, Fit(x), NEW y \in Section, y.slots = x.slots, y.count = x.count, y.owner = x.owner
  PROVE  Fit(y)
BY DEF Fit, SlotsOf, Members

LEMMA SpawnKeeps ==
  ASSUME NEW x \in Section, NEW s \in Sessions, NEW c \in Characters \cup {None}
  PROVE  /\ SpawnPc(x, s, c) \in Section /\ DespawnPc(x, s, c) \in Section /\ Destroyed(x) \in Section
         /\ \A y \in {SpawnPc(x, s, c), DespawnPc(x, s, c), Destroyed(x)} :
               /\ y.slots = x.slots /\ y.count = x.count
               /\ y.owner = x.owner /\ y.map = x.map
<1> USE SectionFields
<1>1. SpawnPc(x, s, c) \in Section
  BY DEF SpawnPc, Section
<1>2. DespawnPc(x, s, c) \in Section
  BY DEF DespawnPc, Section
<1>3. Destroyed(x) \in Section
  BY DEF Destroyed, Section
<1> QED
  BY <1>1, <1>2, <1>3 DEF SpawnPc, DespawnPc, Destroyed

LEMMA NewFit ==
  ASSUME NEW m \in Maps
  PROVE  /\ Fit(NewSection(m)) /\ NewSection(m).map = m
         /\ \A i \in Slots : NewSection(m).slots[i] = None
         /\ SlotsOf(NewSection(m), None) = Slots /\ Slots # {}
<1>1. SlotCount \in Nat \ {0} /\ Cardinality(Slots) = SlotCount
  BY FS_Interval, SectionAssumption DEF Slots
<1>2. NewSection(m) \in Section
  BY <1>1 DEF NewSection, Section
<1>3. SlotsOf(NewSection(m), None) = Slots
  BY DEF NewSection, SlotsOf, Slots
<1>4. 1 \in Slots
  BY <1>1 DEF Slots
<1> QED
  BY <1>1, <1>2, <1>3, <1>4 DEF Fit, NewSection, Slots

(* Who is in a section, slot by slot, and whom Multicast reaches.          *)
LEMMA MemberSlots ==
  ASSUME NEW x, NEW t
  PROVE  t \in Members(x) <=> t # None /\ \E i \in Slots : x.slots[i] = t
BY DEF Members, Slots

LEMMA AddressedMembers ==
  ASSUME NEW x \in Section, NEW s
  PROVE  Addressed(x, s) \subseteq Members(x) \ {s}
<1>1. 1..x.count \subseteq 1..SlotCount
  BY SectionFields, SectionAssumption
<1> QED
  BY <1>1 DEF Addressed, Members

LEMMA SeatIs ==
  ASSUME NEW x \in Section, NEW s \in Sessions, SlotsOf(x, None) # {}
  PROVE  LET y == Seat(x, s)
             i == Lowest(SlotsOf(x, None))
         IN  /\ i \in Slots /\ x.slots[i] = None /\ \A j \in SlotsOf(x, None) : i <= j
             /\ y.slots = [x.slots EXCEPT ![i] = s] /\ y.count = x.count + 1 /\ y.map = x.map
             /\ y.owner = IF x.owner = None THEN s ELSE x.owner
             /\ y.objects = x.objects /\ y.pcs = x.pcs
             /\ y = [map |-> x.map, slots |-> [x.slots EXCEPT ![i] = s], count |-> x.count + 1,
                     owner |-> IF x.owner = None THEN s ELSE x.owner, objects |-> x.objects,
                     pcs |-> x.pcs]
<1> DEFINE y == Seat(x, s)
<1>1. x \in Section
  OBVIOUS
<1>2. PICK i : i = Lowest(SlotsOf(x, None))
  OBVIOUS
<1>3. i \in SlotsOf(x, None) /\ i \in Slots /\ x.slots[i] = None /\ \A j \in SlotsOf(x, None) : i <= j
  BY <1>1, <1>2, SlotSets, LowestIn DEF SlotsOf, Slots
<1>4. /\ y.slots = [x.slots EXCEPT ![i] = s] /\ y.count = x.count + 1 /\ y.map = x.map
      /\ y.owner = IF x.owner = None THEN s ELSE x.owner
      /\ y.objects = x.objects /\ y.pcs = x.pcs
      /\ y = [map |-> x.map, slots |-> [x.slots EXCEPT ![i] = s], count |-> x.count + 1,
              owner |-> IF x.owner = None THEN s ELSE x.owner, objects |-> x.objects, pcs |-> x.pcs]
  <2>1. PICK m, a, k, o, g, p :
           /\ x = [map |-> m, slots |-> a, count |-> k, owner |-> o, objects |-> g, pcs |-> p]
           /\ m = x.map /\ a = x.slots /\ k = x.count /\ o = x.owner /\ g = x.objects /\ p = x.pcs
    BY <1>1, SectionFields
  <2>2. y = [map |-> m, slots |-> [a EXCEPT ![i] = s], count |-> k + 1,
             owner |-> IF o = None THEN s ELSE o, objects |-> g, pcs |-> p]
    <3>1. PICK w : w = IF o = None THEN s ELSE o
      OBVIOUS
    <3>2. y = [x EXCEPT !.slots = [a EXCEPT ![i] = s], !.count = k + 1, !.owner = w]
      BY <1>2, <2>1, <3>1 DEF Seat
    <3> HIDE DEF y
    <3> QED
      BY <2>1, <3>1, <3>2
  <2> HIDE DEF y
  <2> QED
    BY <2>1, <2>2
<1> HIDE DEF y
<1> QED
  BY <1>2, <1>3, <1>4 DEF y

(* Section::EnterSession takes a free slot. *)
LEMMA SeatFit ==
  ASSUME NEW x, Fit(x), NEW s \in Sessions, SlotsOf(x, None) # {}
  PROVE  /\ Fit(Seat(x, s)) /\ Seat(x, s).owner # None /\ Seat(x, s).map = x.map
         /\ \E i \in Slots : x.slots[i] = None /\ Seat(x, s).slots = [x.slots EXCEPT ![i] = s]
<1> DEFINE y == Seat(x, s)
<1>1. x \in Section /\ s # None
  BY SectionAssumption DEF Fit
<1>2. PICK i : i = Lowest(SlotsOf(x, None))
  OBVIOUS
<1>3. i \in SlotsOf(x, None) /\ i \in Slots /\ x.slots[i] = None
  BY <1>1, <1>2, SlotSets, LowestIn DEF SlotsOf, Slots
<1>4. /\ y.slots = [x.slots EXCEPT ![i] = s] /\ y.count = x.count + 1 /\ y.map = x.map
      /\ y.owner = IF x.owner = None THEN s ELSE x.owner
      /\ y.objects = x.objects /\ y.pcs = x.pcs
      /\ y = [map |-> x.map, slots |-> [x.slots EXCEPT ![i] = s], count |-> x.count + 1,
              owner |-> IF x.owner = None THEN s ELSE x.owner, objects |-> x.objects, pcs |-> x.pcs]
  BY <1>1, <1>2, SeatIs
<1> HIDE DEF y
<1>5. x.slots \in [Slots -> Sessions \cup {None}] /\ y.slots \in [Slots -> Sessions \cup {None}]
  BY <1>1, <1>3, <1>4, SectionFields
<1>6. SlotsOf(y, None) = SlotsOf(x, None) \ {i}
  BY <1>1, <1>3, <1>4, <1>5 DEF SlotsOf, Slots
<1>7. Cardinality(SlotsOf(y, None)) = Cardinality(SlotsOf(x, None)) - 1
      /\ Cardinality(SlotsOf(x, None)) \in 1..SlotCount
  <2>1. IsFiniteSet(SlotsOf(x, None)) /\ Cardinality(SlotsOf(x, None)) \in 0..SlotCount
    BY <1>1, SlotSets
  <2>2. Cardinality(SlotsOf(x, None)) # 0
    BY <1>3, <2>1, FS_EmptySet
  <2>3. Cardinality(SlotsOf(y, None)) = Cardinality(SlotsOf(x, None)) - 1
    BY <1>3, <1>6, <2>1, FS_RemoveElement
  <2> QED
    BY <2>1, <2>2, <2>3, SectionAssumption
<1>8. x.count = SlotCount - Cardinality(SlotsOf(x, None))
  BY DEF Fit
<1>9. y.count \in 0..SlotCount /\ y.count = SlotCount - Cardinality(SlotsOf(y, None))
  BY <1>4, <1>7, <1>8, SectionAssumption
<1>10. y.owner \in Members(y) /\ y.owner # None
  <2>1. CASE x.owner = None
    BY <1>1, <1>3, <1>4, <1>5, <2>1 DEF Members, Slots
  <2>2. CASE x.owner # None
    <3>1. PICK j \in Slots : x.slots[j] = x.owner
      BY <2>2 DEF Fit, Members, Slots
    <3>2. y.slots[j] = x.owner
      BY <1>3, <1>4, <1>5, <2>2, <3>1
    <3> QED
      BY <1>4, <2>2, <3>2 DEF Members, Slots
  <2> QED
    BY <2>1, <2>2
<1>11. y \in Section
  <2>1. y.owner \in Sessions \cup {None}
    BY <1>1, <1>4, SectionFields
  <2> QED
    BY <1>1, <1>4, <1>5, <1>9, <2>1, SectionFields, SectionOf
<1>12. Fit(y)
  BY <1>9, <1>10, <1>11 DEF Fit
<1> QED
  BY <1>3, <1>4, <1>10, <1>12 DEF y

(* Section::LeaveSession frees one. *)
LEMMA UnseatFit ==
  ASSUME NEW x, Fit(x), NEW s \in Sessions, SlotsOf(x, s) # {}
  PROVE  /\ Fit(Unseat(x, s)) /\ Unseat(x, s).map = x.map
         /\ \E i \in Slots : x.slots[i] = s /\ Unseat(x, s).slots = [x.slots EXCEPT ![i] = None]
<1> DEFINE y == Unseat(x, s)
<1>1. x \in Section /\ s # None
  BY SectionAssumption DEF Fit
<1>2. PICK i : i = Lowest(SlotsOf(x, s))
  OBVIOUS
<1>3. i \in SlotsOf(x, s) /\ i \in Slots /\ x.slots[i] = s
  BY <1>1, <1>2, SlotSets, LowestIn DEF SlotsOf, Slots
<1>4. /\ y.slots = [x.slots EXCEPT ![i] = None] /\ y.count = x.count - 1 /\ y.map = x.map
      /\ y.owner = IF x.owner = s THEN None ELSE x.owner
      /\ y.objects = x.objects /\ y.pcs = x.pcs
      /\ y = [map |-> x.map, slots |-> [x.slots EXCEPT ![i] = None], count |-> x.count - 1,
              owner |-> IF x.owner = s THEN None ELSE x.owner, objects |-> x.objects, pcs |-> x.pcs]
  <2>1. PICK m, a, k, o, g, p :
           /\ x = [map |-> m, slots |-> a, count |-> k, owner |-> o, objects |-> g, pcs |-> p]
           /\ m = x.map /\ a = x.slots /\ k = x.count /\ o = x.owner /\ g = x.objects /\ p = x.pcs
    BY <1>1, SectionFields
  <2>2. y = [map |-> m, slots |-> [a EXCEPT ![i] = None], count |-> k - 1,
             owner |-> IF o = s THEN None ELSE o, objects |-> g, pcs |-> p]
    BY <1>2, <2>1 DEF Unseat
  <2> HIDE DEF y
  <2> QED
    BY <2>1, <2>2
<1> HIDE DEF y
<1>5. x.slots \in [Slots -> Sessions \cup {None}] /\ y.slots \in [Slots -> Sessions \cup {None}]
  BY <1>1, <1>3, <1>4, SectionFields
<1>6. SlotsOf(y, None) = SlotsOf(x, None) \cup {i} /\ i \notin SlotsOf(x, None)
  BY <1>1, <1>3, <1>4, <1>5 DEF SlotsOf, Slots
<1>7. Cardinality(SlotsOf(y, None)) = Cardinality(SlotsOf(x, None)) + 1
      /\ Cardinality(SlotsOf(x, None)) \in 0..SlotCount
  <2>1. IsFiniteSet(SlotsOf(x, None)) /\ Cardinality(SlotsOf(x, None)) \in 0..SlotCount
    BY <1>1, SlotSets
  <2> QED
    BY <1>6, <2>1, FS_AddElement
<1>8. x.count = SlotCount - Cardinality(SlotsOf(x, None))
  BY DEF Fit
<1>9. y.count \in 0..SlotCount /\ y.count = SlotCount - Cardinality(SlotsOf(y, None))
  <2>2. Cardinality(SlotsOf(y, None)) <= SlotCount
    <3>1. SlotsOf(y, None) \subseteq Slots
      BY DEF SlotsOf, Slots
    <3>2. IsFiniteSet(Slots) /\ Cardinality(Slots) = SlotCount
      BY FS_Interval, SectionAssumption DEF Slots
    <3> QED
      BY <3>1, <3>2, FS_Subset
  <2> QED
    BY <1>4, <1>7, <1>8, <2>2, SectionAssumption
<1>10. y.owner \in Members(y) \cup {None}
  <2>1. CASE x.owner \notin {None, s}
    <3>1. PICK j \in Slots : x.slots[j] = x.owner
      BY <2>1 DEF Fit, Members, Slots
    <3>2. y.slots[j] = x.owner
      BY <1>3, <1>4, <1>5, <2>1, <3>1
    <3> QED
      BY <1>4, <2>1, <3>2 DEF Members, Slots
  <2>2. CASE x.owner \in {None, s}
    BY <1>4, <2>2
  <2> QED
    BY <2>1, <2>2
<1>11. y \in Section
  <2>1. y.owner \in Sessions \cup {None}
    BY <1>1, <1>4, SectionFields
  <2> QED
    BY <1>1, <1>4, <1>5, <1>9, <2>1, SectionFields, SectionOf
<1>12. Fit(y)
  BY <1>9, <1>10, <1>11 DEF Fit
<1> QED
  BY <1>3, <1>4, <1>12 DEF y

LEMMA PassFit ==
  ASSUME NEW x, Fit(x), NEW s \in Sessions
  PROVE  LET y == PassOwnership(x, s) IN
         /\ Fit(y) /\ y.slots = x.slots /\ y.map = x.map /\ y.count = x.count
         /\ y.objects = x.objects /\ y.pcs = x.pcs
         /\ y.owner = None => Members(y) \subseteq {s}
<1> DEFINE others == {i \in Slots : x.slots[i] \notin {None, s}}
<1> DEFINE y == PassOwnership(x, s)
<1>1. x \in Section
  BY DEF Fit
<1>2. y = IF x.owner # None \/ others = {} THEN x ELSE [x EXCEPT !.owner = x.slots[Lowest(others)]]
  BY DEF PassOwnership, Slots
<1> HIDE DEF y
<1>3. CASE x.owner # None \/ others = {}
  <2>1. y = x
    BY <1>2, <1>3
  <2>2. others = {} => Members(x) \subseteq {s}
    BY DEF Members, Slots
  <2> HIDE DEF others
  <2> QED
    BY <1>3, <2>1, <2>2 DEF y
<1>4. CASE x.owner = None /\ others # {}
  <2>1. PICK i : i = Lowest(others)
    OBVIOUS
  <2>2. others \subseteq Nat
    BY SectionAssumption DEF Slots
  <2>3. i \in others
    <3> HIDE DEF others
    <3> QED
      BY <1>4, <2>1, <2>2, LowestIn
  <2>4. i \in Slots /\ x.slots[i] \notin {None, s} /\ x.slots[i] \in Sessions
    BY <1>1, <2>3, SectionFields
  <2>5. y = [x EXCEPT !.owner = x.slots[i]]
    BY <1>2, <1>4, <2>1
  <2>6. y.slots = x.slots /\ y.count = x.count /\ y.map = x.map /\ y.owner = x.slots[i]
        /\ y.objects = x.objects /\ y.pcs = x.pcs
        /\ y = [map |-> y.map, slots |-> y.slots, count |-> y.count, owner |-> y.owner,
                objects |-> y.objects, pcs |-> y.pcs]
    BY <1>1, <2>5, SectionFields
  <2>7. y \in Section
    <3>1. /\ y.map \in Maps /\ y.slots \in [Slots -> Sessions \cup {None}]
          /\ y.count \in 0..SlotCount /\ y.owner \in Sessions \cup {None}
          /\ y.objects \in SUBSET Sessions
          /\ y.pcs \in [Characters \cup {None} -> Sessions \cup {None}]
      BY <1>1, <2>4, <2>6, SectionFields
    <3>2. PICK m, a, k, o, g, p :
             /\ y = [map |-> m, slots |-> a, count |-> k, owner |-> o, objects |-> g, pcs |-> p]
             /\ m = y.map /\ a = y.slots /\ k = y.count /\ o = y.owner /\ g = y.objects /\ p = y.pcs
      BY <2>6
    <3>3. [map |-> m, slots |-> a, count |-> k, owner |-> o, objects |-> g, pcs |-> p] \in Section
      BY <3>1, <3>2, SectionOf
    <3> QED
      BY <3>2, <3>3
  <2>8. y.owner \in Members(y)
    BY <2>4, <2>6 DEF Members, Slots
  <2>9. SlotsOf(y, None) = SlotsOf(x, None)
    BY <2>6 DEF SlotsOf
  <2> QED
    BY <2>4, <2>6, <2>7, <2>8, <2>9 DEF Fit, y
<1> QED
  BY <1>3, <1>4

(* Section::EnterSession: a free slot is taken, or nothing happens.        *)
LEMMA EnterFit ==
  ASSUME NEW x, Fit(x), NEW s \in Sessions, NEW c \in Characters \cup {None}
  PROVE  LET y == EnterSession(x, s, c) IN
         /\ Fit(y) /\ y.map = x.map
         /\ \/ SlotsOf(x, None) = {} /\ y = x
            \/ /\ SlotsOf(x, None) # {} /\ y.owner # None
               /\ \E i \in Slots : x.slots[i] = None /\ y.slots = [x.slots EXCEPT ![i] = s]
<1>1. CASE SlotsOf(x, None) = {}
  BY <1>1 DEF EnterSession
<1>2. CASE SlotsOf(x, None) # {}
  <2>1. PICK z : z = Seat(x, s)
    OBVIOUS
  <2>2. /\ Fit(z) /\ z.owner # None /\ z.map = x.map
        /\ \E i \in Slots : x.slots[i] = None /\ z.slots = [x.slots EXCEPT ![i] = s]
    BY <1>2, <2>1, SeatFit
  <2>3. PICK y : y = SpawnPc(z, s, c)
    OBVIOUS
  <2>4. y \in Section /\ y.slots = z.slots /\ y.count = z.count /\ y.owner = z.owner /\ y.map = z.map
    BY <2>2, <2>3, SpawnKeeps DEF Fit
  <2>5. Fit(y)
    BY <2>2, <2>4, FitSame
  <2>6. y = EnterSession(x, s, c)
    BY <1>2, <2>1, <2>3 DEF EnterSession
  <2> QED
    BY <1>2, <2>2, <2>4, <2>5, <2>6
<1> QED
  BY <1>1, <1>2

LEMMA SpawnIs ==
  ASSUME NEW x \in Section, NEW s \in Sessions, NEW c \in Characters \cup {None}, s \notin x.objects
  PROVE  LET y == SpawnPc(x, s, c) IN
         /\ y.slots = x.slots /\ y.count = x.count /\ y.objects = x.objects \cup {s}
         /\ y.pcs = [x.pcs EXCEPT ![c] = IF x.pcs[c] = None THEN s ELSE x.pcs[c]]
<1>1. PICK m, a, k, o, g, p :
         /\ x = [map |-> m, slots |-> a, count |-> k, owner |-> o, objects |-> g, pcs |-> p]
         /\ m = x.map /\ a = x.slots /\ k = x.count /\ o = x.owner /\ g = x.objects /\ p = x.pcs
  BY SectionFields
<1>2. PICK q : q = IF p[c] = None THEN s ELSE p[c]
  OBVIOUS
<1>3. SpawnPc(x, s, c) = [x EXCEPT !.objects = g \cup {s}, !.pcs = [p EXCEPT ![c] = q]]
  BY <1>1, <1>2 DEF SpawnPc
<1> QED
  BY <1>1, <1>2, <1>3

(* A session that enters takes the slot after the taken ones, so Multicast *)
(* reaches all the others, and shows its character if it is not there yet. *)
LEMMA EnterShown ==
  ASSUME NEW x, Fit(x), Filled(x), NEW s \in Sessions, NEW c \in Characters \cup {None},
         s \notin Members(x), SlotsOf(x, None) # {}, NEW V, Shown(x, V)
  PROVE  LET y == EnterSession(x, s, c)
             W == V \cup ({c} \ {None})
         IN  /\ Filled(y) /\ Members(y) = Members(x) \cup {s} /\ Shown(y, W)
             /\ Addressed(Seat(x, s), s) = Members(x)
             /\ Spawns(Seat(x, s), s, c) <=> x.pcs[c] = None
<1>1. /\ x \in Section /\ None \notin Sessions /\ s # None
      /\ x.slots \in [Slots -> Sessions \cup {None}] /\ x.count \in 0..SlotCount
      /\ x.pcs \in [Characters \cup {None} -> Sessions \cup {None}]
  BY SectionAssumption, SectionFields DEF Fit
<1>2. PICK z, i : z = Seat(x, s) /\ i = Lowest(SlotsOf(x, None))
  OBVIOUS
<1>3. /\ i \in Slots /\ x.slots[i] = None /\ \A j \in SlotsOf(x, None) : i <= j
      /\ z.slots = [x.slots EXCEPT ![i] = s] /\ z.count = x.count + 1
      /\ z.objects = x.objects /\ z.pcs = x.pcs
  BY <1>1, <1>2, SeatIs
<1>4. i = x.count + 1
  <2>0. SlotCount \in Nat /\ i \in Nat /\ i <= SlotCount /\ x.count \in Nat
    BY <1>1, <1>3, SectionAssumption DEF Slots
  <2>1. i > x.count
    BY <1>3, <2>0 DEF Filled
  <2>2. x.count + 1 \in Slots
    BY <2>0, <2>1 DEF Slots
  <2>3. x.slots[x.count + 1] = None
    BY <1>1, <2>2 DEF Filled
  <2>4. x.count + 1 \in SlotsOf(x, None)
    BY <2>2, <2>3 DEF SlotsOf, Slots
  <2> QED
    BY <1>1, <1>3, <2>1, <2>4 DEF Slots
<1>5. z.slots[i] = s /\ \A j \in Slots \ {i} : z.slots[j] = x.slots[j]
  BY <1>1, <1>3
<1>6. Fit(z) /\ z \in Section
  BY <1>2, SeatFit DEF Fit
<1>7. \A j \in Slots : z.slots[j] # None <=> j <= z.count
  <2> SUFFICES ASSUME NEW j \in Slots PROVE z.slots[j] # None <=> j <= x.count + 1
    BY <1>3
  <2>1. CASE j = i
    BY <1>1, <1>4, <1>5, <2>1
  <2>2. CASE j # i
    <3>1. z.slots[j] # None <=> j <= x.count
      BY <1>5, <2>2 DEF Filled
    <3>2. j <= x.count <=> j <= x.count + 1
      BY <1>1, <1>4, <2>2 DEF Slots
    <3> QED
      BY <3>1, <3>2
  <2> QED
    BY <2>1, <2>2
<1>8. Members(z) = Members(x) \cup {s}
  <2>1. ASSUME NEW t, t \in Members(z) PROVE t \in Members(x) \cup {s}
    <3>1. PICK j \in Slots : z.slots[j] = t /\ t # None
      BY <2>1, MemberSlots
    <3> QED
      BY <1>5, <3>1, MemberSlots
  <2>2. ASSUME NEW t, t \in Members(x) PROVE t \in Members(z)
    <3>1. PICK j \in Slots : x.slots[j] = t /\ t # None
      BY <2>2, MemberSlots
    <3>2. j # i
      BY <1>3, <3>1
    <3> QED
      BY <1>5, <3>1, <3>2, MemberSlots
  <2>3. s \in Members(z)
    BY <1>1, <1>3, <1>5, MemberSlots
  <2> QED
    BY <2>1, <2>2, <2>3
<1>9. Addressed(z, s) = Members(x)
  <2>1. ASSUME NEW t, t \in Addressed(z, s) PROVE t \in Members(x)
    BY <1>8, <2>1, AddressedMembers, <1>6
  <2>2. ASSUME NEW t, t \in Members(x) PROVE t \in Addressed(z, s)
    <3>1. PICK j \in Slots : x.slots[j] = t /\ t # None
      BY <2>2, MemberSlots
    <3>2. j # i /\ t # s /\ z.slots[j] = t
      BY <1>3, <1>5, <2>2, <3>1
    <3>3. j <= z.count /\ j \in 1..z.count
      BY <1>1, <1>3, <1>7, <3>1, <3>2 DEF Slots
    <3> QED
      BY <3>1, <3>2, <3>3 DEF Addressed
  <2> QED
    BY <2>1, <2>2
<1>10. s \notin z.objects /\ (Spawns(z, s, c) <=> x.pcs[c] = None)
  BY <1>3 DEF Filled, Spawns
<1>11. PICK y : y = SpawnPc(z, s, c)
  OBVIOUS
<1>12. y = EnterSession(x, s, c)
  BY <1>2, <1>11 DEF EnterSession
<1>13. /\ y.slots = z.slots /\ y.count = z.count /\ y.objects = z.objects \cup {s}
       /\ y.pcs = [x.pcs EXCEPT ![c] = IF x.pcs[c] = None THEN s ELSE x.pcs[c]]
  BY <1>3, <1>6, <1>10, <1>11, SpawnIs
<1>14. Members(y) = Members(x) \cup {s}
  BY <1>8, <1>13 DEF Members
<1>15. Filled(y)
  BY <1>3, <1>7, <1>13, <1>14 DEF Filled
<1>16. Shown(y, V \cup ({c} \ {None}))
  <2> SUFFICES ASSUME NEW d \in Characters
               PROVE  y.pcs[d] # None <=> d \in V \cup ({c} \ {None})
    BY DEF Shown
  <2>0. None \notin Characters
    BY SectionAssumption
  <2>1. CASE d = c
    <3>1. y.pcs[d] # None
      BY <1>1, <1>13, <2>1
    <3> QED
      BY <2>0, <2>1, <3>1
  <2>2. CASE d # c
    <3>1. y.pcs[d] = x.pcs[d]
      BY <1>1, <1>13, <2>2
    <3> QED
      BY <2>2, <3>1 DEF Shown
  <2> QED
    BY <2>1, <2>2
<1> QED
  BY <1>2, <1>9, <1>10, <1>12, <1>14, <1>15, <1>16

(* Section::LeaveSession: a slot of the session is freed, or it has none.  *)
LEMMA LeaveFit ==
  ASSUME NEW x, Fit(x), NEW s \in Sessions, NEW c \in Characters \cup {None},
         NEW y, y = LeaveSession(x, s, c)
  PROVE  /\ Fit(y) /\ y.map = x.map
         /\ y.owner = None => Members(y) \subseteq {s}
         /\ \/ SlotsOf(x, s) = {} /\ y.slots = x.slots
            \/ \E i \in Slots : x.slots[i] = s /\ y.slots = [x.slots EXCEPT ![i] = None]
<1>1. PICK z : z = IF SlotsOf(x, s) = {} THEN x ELSE DespawnPc(Unseat(x, s), s, c)
  OBVIOUS
<1>2. /\ Fit(z) /\ z.map = x.map
      /\ \/ SlotsOf(x, s) = {} /\ z.slots = x.slots
         \/ \E i \in Slots : x.slots[i] = s /\ z.slots = [x.slots EXCEPT ![i] = None]
  <2>1. CASE SlotsOf(x, s) = {}
    BY <1>1, <2>1
  <2>2. CASE SlotsOf(x, s) # {}
    <3>1. PICK w : w = Unseat(x, s)
      OBVIOUS
    <3>2. /\ Fit(w) /\ w.map = x.map
          /\ \E i \in Slots : x.slots[i] = s /\ w.slots = [x.slots EXCEPT ![i] = None]
      <4>1. /\ Fit(Unseat(x, s)) /\ Unseat(x, s).map = x.map
            /\ \E i \in Slots : x.slots[i] = s /\ Unseat(x, s).slots = [x.slots EXCEPT ![i] = None]
        BY <2>2, UnseatFit
      <4> QED
        BY <3>1, <4>1
    <3>3. z = DespawnPc(w, s, c)
      BY <1>1, <2>2, <3>1
    <3>4. z \in Section /\ z.slots = w.slots /\ z.count = w.count /\ z.owner = w.owner /\ z.map = w.map
      BY <3>2, <3>3, SpawnKeeps DEF Fit
    <3>5. Fit(z)
      BY <3>2, <3>4, FitSame
    <3> QED
      BY <3>2, <3>4, <3>5
  <2> QED
    BY <2>1, <2>2
<1>3. y = PassOwnership(z, s)
  BY <1>1 DEF LeaveSession
<1>4. /\ Fit(y) /\ y.slots = z.slots /\ y.map = z.map
      /\ y.owner = None => Members(y) \subseteq {s}
  BY <1>2, <1>3, PassFit
<1> QED
  BY <1>2, <1>4

(* A count of one or none means what it says. *)
LEMMA FewMembers ==
  ASSUME NEW x, Fit(x), x.count <= 1
  PROVE  Cardinality(Members(x)) <= 1
<1>1. x \in Section /\ IsFiniteSet(Slots) /\ Cardinality(Slots) = SlotCount /\ SlotCount \in Nat
  BY FS_Interval, SectionAssumption DEF Fit, Slots
<1>2. PICK taken : taken = Slots \ SlotsOf(x, None)
  OBVIOUS
<1>3. IsFiniteSet(taken) /\ Cardinality(taken) = SlotCount - Cardinality(SlotsOf(x, None))
  <2>1. Slots \cap SlotsOf(x, None) = SlotsOf(x, None)
    BY DEF SlotsOf, Slots
  <2> QED
    BY <1>1, <1>2, <2>1, FS_Difference
<1>4. Cardinality(taken) <= 1
  BY <1>3 DEF Fit
<1>5. \A i, j \in taken : i = j
  <2> SUFFICES ASSUME NEW i \in taken, NEW j \in taken, i # j PROVE FALSE
    OBVIOUS
  <2>1. {i, j} \subseteq taken /\ IsFiniteSet({j}) /\ Cardinality({j}) = 1 /\ i \notin {j}
    BY FS_Singleton
  <2>2. Cardinality({j} \cup {i}) = 2 /\ IsFiniteSet({j} \cup {i})
    <3>1. PICK T : T = {j}
      OBVIOUS
    <3>2. IsFiniteSet(T) /\ Cardinality(T) = 1 /\ i \notin T
      BY <2>1, <3>1
    <3>3. IsFiniteSet(T \cup {i}) /\ Cardinality(T \cup {i}) = 2
      BY <3>2, FS_AddElement
    <3> QED
      BY <3>1, <3>3
  <2>3. {j} \cup {i} \subseteq taken
    BY <2>1
  <2>4. Cardinality({j} \cup {i}) <= Cardinality(taken)
    BY <1>3, <2>3, FS_Subset
  <2>5. Cardinality(taken) \in Nat
    BY <1>3, FS_CardinalityType
  <2> QED
    BY <1>4, <2>2, <2>4, <2>5
<1>6. \A a \in Members(x) : \E i \in taken : x.slots[i] = a
  BY <1>1, <1>2, SectionFields DEF Members, SlotsOf, Slots
<1>7. \A a, b \in Members(x) : a = b
  BY <1>5, <1>6
<1>8. CASE Members(x) = {}
  BY <1>8, FS_EmptySet
<1>9. ASSUME NEW a \in Members(x) PROVE Cardinality(Members(x)) <= 1
  <2>1. Members(x) = {a}
    BY <1>7
  <2>2. Cardinality({a}) = 1
    BY FS_Singleton
  <2> QED
    BY <2>1, <2>2
<1> QED
  BY <1>8, <1>9

-----------------------------------------------------------------------------
LEMMA InstanceFacts ==
  ASSUME TypeOK
  PROVE  /\ Len(created) \in Nat /\ DOMAIN created = Instances
         /\ \A n \in Instances : created[n] \in Section /\ n \in Nat \ {0}
         /\ \A m \in Maps : repo[m] # 0 => repo[m] \in Instances /\ Live(repo[m])
         /\ \A n \in Instances : Live(n) => repo[created[n].map] = n
<1>1. created \in Seq(Section)
  BY DEF TypeOK
<1>2. Len(created) \in Nat /\ DOMAIN created = Instances
  BY <1>1, LenProperties DEF Instances
<1>3. \A n \in Instances : created[n] \in Section /\ n \in Nat \ {0}
  BY <1>1, <1>2, ElementOfSeq DEF Instances
<1>4. ASSUME NEW m \in Maps, repo[m] # 0 PROVE repo[m] \in Instances /\ Live(repo[m])
  <2>1. repo[m] \in 0..Len(created)
    BY DEF TypeOK
  <2> QED
    BY <1>2, <1>4, <2>1 DEF Instances, Live
<1>5. ASSUME NEW n \in Instances, Live(n) PROVE repo[created[n].map] = n
  <2>1. PICK m \in Maps : repo[m] = n
    BY <1>5 DEF Live
  <2> QED
    BY <1>3, <2>1 DEF TypeOK
<1> QED
  BY <1>2, <1>3, <1>4, <1>5

(* What RunEnter does to the sections. *)
Enters(s, n, x, y) ==
    /\ s \in Sessions /\ n \in Nat \ {0} /\ n \in Instances'
    /\ Fit(x) /\ Fit(y) /\ created'[n] = y
    /\ Instances' = Instances \cup {n}
    /\ \A k \in Instances \ {n} : created'[k] = created[k]
    /\ \A k \in Instances \ {n} : Live(k)' <=> Live(k)
    /\ Live(n)'
    /\ \/ n \in Instances /\ x = created[n] /\ Live(n)
       \/ n \notin Instances /\ \A i \in Slots : x.slots[i] = None
    /\ \/ y = x /\ s \in crowded'
       \/ /\ y.owner # None
          /\ \E i \in Slots : x.slots[i] = None /\ y.slots = [x.slots EXCEPT ![i] = s]
    /\ section' = [section EXCEPT ![s] = n]
    /\ again' = IF section[s] # 0 THEN again \cup {s} ELSE again
    /\ late' = IF s \notin alive THEN late \cup {s} ELSE late
    /\ crowded \subseteq crowded' /\ UNCHANGED <<alive, ticking>>

(* What it tells the players. *)
Told(s, n, x, y) ==
    /\ Entering(s, n, x) /\ y = EnterSession(x, s, character[s])
    /\ n \notin Instances => \E m \in Maps : x = NewSection(m)
    /\ UNCHANGED left

LEMMA EnteringStep ==
  ASSUME SectionInv, NEW s \in Sessions, NEW m \in Maps, NEW n, NEW x, Entering(s, n, x),
         Fit(x), x.map = m,
         \/ n = repo[m] /\ repo[m] # 0 /\ x = created[n] /\ UNCHANGED repo
         \/ /\ n = Len(created) + 1 /\ repo[m] = 0 /\ repo' = [repo EXCEPT ![m] = n]
            /\ x = NewSection(m),
         mailbox' \in Seq([s : Sessions, map : Maps]),
         UNCHANGED <<alive, character, ticking, requests, left>>
  PROVE  TypeOK' /\ \E y : Enters(s, n, x, y) /\ Told(s, n, x, y)
<1>1. /\ TypeOK /\ Len(created) \in Nat /\ DOMAIN created = Instances
      /\ \A k \in Instances : created[k] \in Section /\ k \in Nat \ {0}
      /\ \A k \in Maps : repo[k] # 0 => repo[k] \in Instances /\ Live(repo[k])
  BY InstanceFacts DEF SectionInv
<1>2. character[s] \in Characters \cup {None} /\ repo \in [Maps -> 0..Len(created)]
      /\ section \in [Sessions -> 0..Len(created)]
  BY <1>1 DEF TypeOK
<1>3. PICK y : y = EnterSession(x, s, character[s])
  OBVIOUS
<1>4. /\ Fit(y) /\ y.map = x.map
      /\ \/ SlotsOf(x, None) = {} /\ y = x
         \/ /\ SlotsOf(x, None) # {} /\ y.owner # None
            /\ \E i \in Slots : x.slots[i] = None /\ y.slots = [x.slots EXCEPT ![i] = s]
  BY <1>2, <1>3, EnterFit
<1>5. /\ created' = [k \in DOMAIN created \cup {n} |-> IF k = n THEN y ELSE created[k]]
      /\ section' = [section EXCEPT ![s] = n]
      /\ again' = IF section[s] # 0 THEN again \cup {s} ELSE again
      /\ late' = IF s \notin alive THEN late \cup {s} ELSE late
      /\ crowded' = IF SlotsOf(x, None) = {} THEN crowded \cup {s} ELSE crowded
      /\ pcCharacter' = [pcCharacter EXCEPT ![s] = character[s]]
  BY <1>3 DEF Entering
<1>6. n \in 1..(Len(created) + 1) /\ Instances \cup {n} = 1..(IF n \in Instances THEN Len(created) ELSE n)
      /\ (n \in Instances \/ n = Len(created) + 1)
  BY <1>1 DEF Instances
<1>7. PICK N \in Nat : Instances \cup {n} = 1..N /\ N >= Len(created) /\ n <= N
  BY <1>1, <1>6 DEF Instances
<1>8. created' \in [1..N -> Section]
  BY <1>1, <1>4, <1>5, <1>7 DEF Fit
<1>9. created' \in Seq(Section) /\ Len(created') = N /\ Instances' = Instances \cup {n}
  BY <1>7, <1>8 DEF Instances
<1>10. created'[n] = y /\ \A k \in Instances \ {n} : created'[k] = created[k]
  BY <1>1, <1>5
<1>11. n \in Instances => n = repo[m] /\ x = created[n] /\ repo' = repo /\ Live(n)
  BY <1>1 DEF Instances
<1>12. n \notin Instances => /\ repo' = [repo EXCEPT ![m] = n] /\ repo[m] = 0
                             /\ \A i \in Slots : x.slots[i] = None
  BY <1>1, NewFit
<1>13. (\A k \in Instances \ {n} : Live(k)' <=> Live(k)) /\ Live(n)'
  <2>1. CASE n \in Instances
    BY <1>11, <2>1 DEF Live
  <2>2. CASE n \notin Instances
    <3>1. repo'[m] = n /\ repo[m] = 0 /\ \A k \in Maps \ {m} : repo'[k] = repo[k]
      BY <1>2, <1>12, <2>2
    <3> QED
      BY <1>1, <3>1 DEF Live
  <2> QED
    BY <2>1, <2>2
<1>14. TypeOK'
  <2>1. repo' \in [Maps -> 0..N] /\ \A k \in Maps : repo'[k] # 0 => created'[repo'[k]].map = k
    <3>1. CASE n \in Instances
      <4>1. repo' = repo /\ repo' \in [Maps -> 0..N]
        BY <1>1, <1>2, <1>7, <1>11, <3>1
      <4>2. ASSUME NEW k \in Maps, repo[k] # 0 PROVE created'[repo[k]].map = k
        <5>1. repo[k] \in Instances /\ created[repo[k]].map = k
          BY <1>1, <4>2 DEF TypeOK
        <5> QED
          BY <1>4, <1>10, <1>11, <3>1, <5>1
      <4> QED
        BY <4>1, <4>2
    <3>2. CASE n \notin Instances
      <4>1. repo'[m] = n /\ repo' \in [Maps -> 0..N] /\ \A k \in Maps \ {m} : repo'[k] = repo[k]
        BY <1>1, <1>2, <1>7, <1>12, <3>2
      <4>2. ASSUME NEW k \in Maps \ {m}, repo[k] # 0 PROVE created'[repo[k]].map = k
        <5>1. repo[k] \in Instances /\ created[repo[k]].map = k
          BY <1>1, <4>2 DEF TypeOK
        <5> QED
          BY <1>10, <3>2, <5>1
      <4> QED
        BY <1>4, <1>10, <4>1, <4>2
    <3> QED
      BY <3>1, <3>2
  <2>2. section' \in [Sessions -> 0..N]
    BY <1>1, <1>2, <1>5, <1>7
  <2>3. view' \in [Sessions -> SUBSET Characters]
    <3>1. Present(y) \subseteq Characters
      BY DEF Present
    <3>2. \E told, gains : /\ view' = [t \in Sessions |-> IF t = s THEN Present(y)
                                                     ELSE IF t \in told THEN view[t] \cup gains
                                                     ELSE view[t]]
                          /\ gains = {character[s]} \ {None}
      BY <1>3, Zenon DEF Entering
    <3> PICK told, gains : /\ view' = [t \in Sessions |-> IF t = s THEN Present(y)
                                                      ELSE IF t \in told THEN view[t] \cup gains
                                                      ELSE view[t]]
                           /\ gains = {character[s]} \ {None}
      BY <3>2
    <3>3. gains \subseteq Characters /\ view \in [Sessions -> SUBSET Characters]
      BY <1>1, <1>2, <3>2 DEF TypeOK
    <3> QED
      BY <3>1, <3>2, <3>3
  <2>4. pcCharacter' \in [Sessions -> Characters \cup {None}]
    BY <1>1, <1>2, <1>5 DEF TypeOK
  <2> QED
    BY <1>1, <1>9, <2>1, <2>2, <2>3, <2>4 DEF TypeOK
<1>15. \/ y = x /\ s \in crowded'
       \/ /\ y.owner # None
          /\ \E i \in Slots : x.slots[i] = None /\ y.slots = [x.slots EXCEPT ![i] = s]
  BY <1>4, <1>5
<1>16. n \in Nat \ {0} /\ n \in Instances' /\ crowded \subseteq crowded'
  BY <1>1, <1>5, <1>6, <1>9
<1>17. \/ n \in Instances /\ x = created[n] /\ Live(n)
       \/ n \notin Instances /\ \A i \in Slots : x.slots[i] = None
  BY <1>11, <1>12
<1>18. Enters(s, n, x, y)
  BY <1>4, <1>5, <1>9, <1>10, <1>13, <1>15, <1>16, <1>17 DEF Enters
<1>19. n \notin Instances => \E k \in Maps : x = NewSection(k)
  BY <1>1 DEF Instances
<1>20. Told(s, n, x, y)
  BY <1>3, <1>19 DEF Told
<1> QED
  BY <1>14, <1>18, <1>20

LEMMA RunEnterStep ==
  ASSUME SectionInv, RunEnter
  PROVE  TypeOK' /\ \E s, n, x, y : Enters(s, n, x, y) /\ Told(s, n, x, y)
<1>1. PICK s, m : s = Head(mailbox).s /\ m = Head(mailbox).map
  OBVIOUS
<1>2. s \in Sessions /\ m \in Maps /\ mailbox' \in Seq([s : Sessions, map : Maps])
  <2>1. mailbox \in Seq([s : Sessions, map : Maps]) /\ mailbox # <<>> /\ mailbox' = Tail(mailbox)
    BY DEF SectionInv, TypeOK, RunEnter
  <2>2. Head(mailbox) \in [s : Sessions, map : Maps] /\ Tail(mailbox) \in Seq([s : Sessions, map : Maps])
    BY <2>1, HeadTailProperties
  <2> QED
    BY <1>1, <2>1, <2>2
<1>3. UNCHANGED <<alive, character, ticking, requests, left>>
  BY DEF RunEnter
<1>4. CASE repo[m] # 0 /\ Entering(s, repo[m], created[repo[m]]) /\ UNCHANGED repo
  <2>1. PICK n, x : n = repo[m] /\ x = created[n]
    OBVIOUS
  <2>2. n \in Instances
    BY <1>2, <1>4, <2>1, InstanceFacts DEF SectionInv
  <2>3. Fit(x) /\ x.map = m /\ Entering(s, n, x)
    BY <1>2, <1>4, <2>1, <2>2 DEF SectionInv, SeatsInv, TypeOK
  <2> QED
    BY <1>2, <1>3, <1>4, <2>1, <2>3, EnteringStep
<1>5. CASE /\ repo[m] = 0 /\ Entering(s, Len(created) + 1, NewSection(m))
           /\ repo' = [repo EXCEPT ![m] = Len(created) + 1]
  <2>1. PICK n, x : n = Len(created) + 1 /\ x = NewSection(m)
    OBVIOUS
  <2>2. Fit(x) /\ x.map = m /\ Entering(s, n, x)
    BY <1>2, <1>5, <2>1, NewFit
  <2> QED
    BY <1>2, <1>3, <1>5, <2>1, <2>2, EnteringStep
<1> QED
  BY <1>1, <1>4, <1>5 DEF RunEnter

(* Whom the section that is entered held before. *)
LEMMA EnteredFacts ==
  ASSUME SectionInv, NEW s, NEW n, NEW x, NEW y, Enters(s, n, x, y)
  PROVE  /\ x.owner = None => Members(x) \subseteq again
         /\ \A t \in Sessions : /\ Twice(x, t) => t \in again
                                /\ t \in Members(x) => section[t] = n \/ t \in again
                                /\ t \in Members(x) => n \in Instances
                                /\ section[t] = n => t \in Members(x) \/ t \in again \cup crowded
         /\ s \in Members(x) => s \in again'
         /\ again \subseteq again' /\ late \subseteq late'
<1>1. /\ TypeOK /\ \A k \in Instances : k \in Nat \ {0}
  BY InstanceFacts DEF SectionInv
<1>2. None \notin Sessions /\ s \in Sessions
  BY SectionAssumption DEF Enters
<1>3. \A t \in Sessions : section[t] = 0 \/ section[t] \in Instances
  BY <1>1 DEF TypeOK, Instances
<1>4. /\ x.owner = None => Members(x) \subseteq again
      /\ \A t \in Sessions : /\ Twice(x, t) => t \in again
                             /\ t \in Members(x) => section[t] = n \/ t \in again
                             /\ t \in Members(x) => n \in Instances
                             /\ section[t] = n => t \in Members(x) \/ t \in again \cup crowded
  <2>1. CASE n \in Instances /\ x = created[n]
    BY <2>1 DEF SectionInv, SeatsInv, MembershipAgrees
  <2>2. CASE n \notin Instances /\ \A i \in Slots : x.slots[i] = None
    <3>1. Members(x) = {} /\ \A t \in Sessions : ~Twice(x, t)
      BY <1>2, <2>2 DEF Members, Slots, Twice
    <3>2. \A t \in Sessions : section[t] # n
      BY <1>3, <2>2 DEF Enters
    <3> QED
      BY <3>1, <3>2
  <2> QED
    BY <2>1, <2>2 DEF Enters
<1>5. again \subseteq again' /\ late \subseteq late'
  BY DEF Enters
<1>6. s \in Members(x) => s \in again'
  BY <1>2, <1>4, <1>5 DEF Enters
<1> QED
  BY <1>4, <1>5, <1>6

LEMMA EnterSeats ==
  ASSUME SectionInv, TypeOK', NEW s, NEW n, NEW x, NEW y, Enters(s, n, x, y)
  PROVE  SectionInv'
<1> USE DEF Enters
<1>1. /\ TypeOK /\ \A k \in Instances : k \in Nat \ {0} /\ created[k] \in Section
  BY InstanceFacts DEF SectionInv
<1>2. None \notin Sessions /\ s \in Sessions /\ n \in Nat \ {0}
  BY SectionAssumption
<1>3. /\ x.owner = None => Members(x) \subseteq again
      /\ \A t \in Sessions : /\ Twice(x, t) => t \in again
                             /\ t \in Members(x) => section[t] = n \/ t \in again
                             /\ t \in Members(x) => n \in Instances
                             /\ section[t] = n => t \in Members(x) \/ t \in again \cup crowded
      /\ s \in Members(x) => s \in again'
      /\ again \subseteq again' /\ late \subseteq late'
  BY EnteredFacts
<1>4. section'[s] = n /\ \A t \in Sessions \ {s} : section'[t] = section[t]
  BY <1>1, <1>2 DEF TypeOK
<1>5. x.slots \in [Slots -> Sessions \cup {None}]
  BY SectionFields DEF Fit
<1>6. /\ \A t \in Sessions \ {s} : t \in Members(y) <=> t \in Members(x)
      /\ \A t \in Sessions : Twice(y, t) => Twice(x, t) \/ (t = s /\ s \in Members(x))
      /\ s \in Members(y) \/ s \in crowded'
      /\ y.owner = None => Members(y) \subseteq again'
  <2>1. CASE y = x /\ s \in crowded'
    BY <1>3, <2>1
  <2>2. CASE /\ y.owner # None
             /\ \E i \in Slots : x.slots[i] = None /\ y.slots = [x.slots EXCEPT ![i] = s]
    <3>1. PICK i \in Slots : x.slots[i] = None /\ y.slots = [x.slots EXCEPT ![i] = s]
      BY <2>2
    <3>2. y.slots[i] = s /\ \A j \in Slots \ {i} : y.slots[j] = x.slots[j]
      BY <1>5, <3>1
    <3>3. ASSUME NEW t \in Sessions \ {s} PROVE t \in Members(y) <=> t \in Members(x)
      <4>1. ASSUME NEW j \in Slots, y.slots[j] = t PROVE x.slots[j] = t
        BY <3>2, <4>1
      <4>2. ASSUME NEW j \in Slots, x.slots[j] = t PROVE y.slots[j] = t
        BY <1>2, <3>1, <3>2, <4>2
      <4> QED
        BY <4>1, <4>2, MemberSlots
    <3>4. s \in Members(y)
      BY <1>2, <3>2, MemberSlots
    <3>5. ASSUME NEW t \in Sessions, Twice(y, t) PROVE Twice(x, t) \/ (t = s /\ s \in Members(x))
      <4>1. PICK j, k \in Slots : j # k /\ y.slots[j] = t /\ y.slots[k] = t
        BY <3>5 DEF Twice
      <4>2. CASE t # s
        BY <3>2, <4>1, <4>2 DEF Twice
      <4>3. CASE t = s
        <5>1. PICK l \in {j, k} : l # i
          BY <4>1
        <5>2. l \in Slots /\ x.slots[l] = s
          BY <3>2, <4>1, <4>3, <5>1
        <5> QED
          BY <1>2, <4>3, <5>2, MemberSlots
      <4> QED
        BY <4>2, <4>3
    <3> QED
      BY <2>2, <3>3, <3>4, <3>5
  <2> QED
    BY <2>1, <2>2
<1>7. ASSUME NEW k \in Instances'
      PROVE  /\ Fit(created'[k])
             /\ created'[k].owner = None => Members(created'[k]) \subseteq again'
             /\ ~Live(k)' => created'[k].count <= 1
             /\ \A t \in Sessions : Twice(created'[k], t) => t \in again'
             /\ \A t \in Sessions : t \in Members(created'[k]) => section'[t] = k \/ t \in again'
             /\ \A t \in Sessions : section'[t] = k => t \in Members(created'[k]) \/ t \in again' \cup crowded'
             /\ \A t \in Sessions \ alive : Live(k)' /\ t \in Members(created'[k]) => t \in late' \cup again'
  <2>1. CASE k = n
    <3>1. created'[k] = y /\ Live(k)' /\ Fit(y)
      BY <2>1
    <3>2. \A t \in Sessions : Twice(y, t) => t \in again'
      BY <1>3, <1>6
    <3>3. \A t \in Sessions : t \in Members(y) => section'[t] = k \/ t \in again'
      BY <1>3, <1>4, <1>6, <2>1
    <3>4. \A t \in Sessions : section'[t] = k => t \in Members(y) \/ t \in again' \cup crowded'
      BY <1>3, <1>4, <1>6, <2>1
    <3>5. ASSUME NEW t \in Sessions \ alive, t \in Members(y) PROVE t \in late' \cup again'
      <4>1. CASE t = s
        BY <3>5, <4>1
      <4>2. CASE t # s
        <5>1. t \in Members(x) /\ n \in Instances
          BY <1>3, <1>6, <3>5, <4>2
        <5>2. t \in late \cup again
          BY <5>1 DEF SectionInv, GhostsHaveACause
        <5> QED
          BY <1>3, <5>2
      <4> QED
        BY <4>1, <4>2
    <3> QED
      BY <1>6, <3>1, <3>2, <3>3, <3>4, <3>5
  <2>2. CASE k # n
    <3>1. k \in Instances /\ created'[k] = created[k] /\ (Live(k)' <=> Live(k))
      BY <2>2
    <3>2. /\ Fit(created[k])
          /\ created[k].owner = None => Members(created[k]) \subseteq again
          /\ ~Live(k) => created[k].count <= 1
          /\ \A t \in Sessions : Twice(created[k], t) => t \in again
      BY <3>1 DEF SectionInv, SeatsInv
    <3>3. \A t \in Sessions : /\ t \in Members(created[k]) => section[t] = k \/ t \in again
                              /\ section[t] = k => t \in Members(created[k]) \/ t \in again \cup crowded
      BY <3>1 DEF SectionInv, SeatsInv, MembershipAgrees
    <3>4. section[s] = k => s \in again'
      BY <1>1, <3>1
    <3>5. \A t \in Sessions \ alive : Live(k) /\ t \in Members(created[k]) => t \in late \cup again
      BY <3>1 DEF SectionInv, GhostsHaveACause
    <3> QED
      BY <1>3, <1>4, <2>2, <3>1, <3>2, <3>3, <3>4, <3>5
  <2> QED
    BY <2>1, <2>2
<1>8. \A t \in Sessions \ alive : t \in ticking => t \in late'
  BY <1>3 DEF SectionInv, GhostsHaveACause
<1>9. SeatsInv'
  BY <1>7 DEF SeatsInv, MembershipAgrees
<1>10. GhostsHaveACause'
  BY <1>7, <1>8 DEF GhostsHaveACause
<1> QED
  BY <1>9, <1>10 DEF SectionInv

(* What a disconnected session that is found does, to itself (Goes) and to *)
(* the sections (Leaves).                                                  *)
Goes(s, n) ==
    /\ section[s] = n => section' = [section EXCEPT ![s] = 0]
    /\ section[s] # n => section' = section
    /\ alive' = alive \ {s} /\ ticking' = ticking \ {s}
    /\ UNCHANGED <<again, late, crowded>>

Leaves(s, n, x, z) ==
    /\ Goes(s, n)
    /\ s \in Sessions /\ n \in Instances /\ Live(n) /\ x = created[n]
    /\ created'[n] = z /\ Fit(z) /\ Instances' = Instances
    /\ \A k \in Instances \ {n} : created'[k] = created[k] /\ (Live(k)' <=> Live(k))
    /\ \A k \in Instances \ {n} : section[s] = k => ~Live(k)
    /\ ~Live(n)' => z.count <= 1
    /\ z.owner = None => Members(z) \subseteq {s}
    /\ \/ s \notin Members(x) /\ z.slots = x.slots
       \/ \E i \in Slots : x.slots[i] = s /\ z.slots = [x.slots EXCEPT ![i] = None]

LEMMA LeavingStep ==
  ASSUME SectionInv, NEW s \in Sessions, OnDisconnected(s), Found(s) # 0, Leaving(s, Found(s))
  PROVE  TypeOK' /\ \E n, x, z : Leaves(s, n, x, z) /\ Leaving(s, n)
<1>1. /\ TypeOK /\ Len(created) \in Nat /\ DOMAIN created = Instances
      /\ \A k \in Instances : created[k] \in Section /\ k \in Nat \ {0}
      /\ \A k \in Maps : repo[k] # 0 => repo[k] \in Instances /\ Live(repo[k])
      /\ \A k \in Instances : Live(k) => repo[created[k].map] = k
  BY InstanceFacts DEF SectionInv
<1>2. PICK n, x : n = Found(s) /\ x = created[n]
  OBVIOUS
<1>3. PICK m : m = created[section[s]].map
  OBVIOUS
<1>4. section[s] \in Instances /\ m \in Maps /\ n = repo[m]
  <2>1. section[s] # 0 /\ n = repo[m] /\ section[s] \in 0..Len(created)
    BY <1>1, <1>2, <1>3 DEF Found, TypeOK
  <2>2. section[s] \in Instances
    BY <1>1, <2>1 DEF Instances
  <2> QED
    BY <1>1, <1>3, <2>1, <2>2, SectionFields
<1>5. n \in Instances /\ Live(n) /\ x \in Section /\ Fit(x) /\ x.map = m
  <2>1. n \in Instances /\ Live(n)
    BY <1>1, <1>2, <1>4
  <2> QED
    BY <1>1, <1>2, <1>4, <2>1 DEF SectionInv, SeatsInv, TypeOK
<1>6. /\ repo \in [Maps -> 0..Len(created)] /\ created \in Seq(Section)
      /\ section \in [Sessions -> 0..Len(created)]
      /\ pcCharacter \in [Sessions -> Characters \cup {None}]
      /\ view \in [Sessions -> SUBSET Characters]
  BY <1>1 DEF TypeOK
<1>7. PICK y : y = LeaveSession(x, s, pcCharacter[s])
  OBVIOUS
<1>8. /\ Fit(y) /\ y.map = m /\ y \in Section
      /\ y.owner = None => Members(y) \subseteq {s}
      /\ \/ SlotsOf(x, s) = {} /\ y.slots = x.slots
         \/ \E i \in Slots : x.slots[i] = s /\ y.slots = [x.slots EXCEPT ![i] = None]
  <2>1. pcCharacter[s] \in Characters \cup {None}
    BY <1>6
  <2> QED
    BY <1>5, <1>7, <2>1, LeaveFit DEF Fit
<1>9. \E z : /\ z \in {y, Destroyed(y)} /\ created' = [created EXCEPT ![n] = z]
             /\ \/ repo' = [repo EXCEPT ![m] = 0] /\ z.count <= 1
                \/ repo' = repo
  <2>1. CASE /\ y.count <= 1 /\ repo' = [repo EXCEPT ![x.map] = 0]
             /\ created' = [created EXCEPT ![n] = Destroyed(y)]
    <3>1. Destroyed(y).count = y.count
      BY <1>8, SpawnKeeps
    <3> QED
      BY <1>5, <2>1, <3>1
  <2>2. CASE created' = [created EXCEPT ![n] = y] /\ UNCHANGED repo
    BY <2>2
  <2> QED
    BY <1>2, <1>7, <2>1, <2>2 DEF Leaving
<1>10. PICK z : /\ z \in {y, Destroyed(y)} /\ created' = [created EXCEPT ![n] = z]
                /\ \/ repo' = [repo EXCEPT ![m] = 0] /\ z.count <= 1
                   \/ repo' = repo
  BY <1>9
<1>11. z \in Section /\ z.slots = y.slots /\ z.count = y.count /\ z.owner = y.owner /\ z.map = m
  <2>1. None \in Characters \cup {None}
    OBVIOUS
  <2> QED
    BY <1>8, <1>10, <2>1, SpawnKeeps
<1>12. Fit(z) /\ (z.owner = None => Members(z) \subseteq {s})
  BY <1>8, <1>11, FitSame DEF Members
<1>13. /\ created' \in Seq(Section) /\ Len(created') = Len(created) /\ Instances' = Instances
       /\ created'[n] = z /\ \A k \in Instances \ {n} : created'[k] = created[k]
  <2>1. created' \in Seq(Section) /\ Len(created') = Len(created)
    BY <1>5, <1>6, <1>10, <1>11 DEF Instances
  <2> QED
    BY <1>1, <1>5, <1>10, <2>1 DEF Instances
<1>14. /\ \A k \in Instances \ {n} : Live(k)' <=> Live(k)
       /\ ~Live(n)' => z.count <= 1
  <2>1. CASE repo' = [repo EXCEPT ![m] = 0] /\ z.count <= 1
    <3>1. repo'[m] = 0 /\ \A j \in Maps \ {m} : repo'[j] = repo[j]
      BY <1>4, <1>6, <2>1
    <3> QED
      BY <1>1, <1>4, <2>1, <3>1 DEF Live
  <2>2. CASE repo' = repo
    BY <1>5, <2>2 DEF Live
  <2> QED
    BY <1>10, <2>1, <2>2
<1>15. ASSUME NEW k \in Instances \ {n}, section[s] = k PROVE ~Live(k)
  BY <1>1, <1>3, <1>4, <1>15
<1>16. \/ s \notin Members(x) /\ z.slots = x.slots
       \/ \E i \in Slots : x.slots[i] = s /\ z.slots = [x.slots EXCEPT ![i] = None]
  <2>1. SlotsOf(x, s) = {} => s \notin Members(x)
    BY MemberSlots DEF SlotsOf, Slots
  <2> QED
    BY <1>8, <1>11, <2>1
<1>17. /\ section' = IF section[s] = n THEN [section EXCEPT ![s] = 0] ELSE section
       /\ pcCharacter' = IF section[s] = n THEN [pcCharacter EXCEPT ![s] = None] ELSE pcCharacter
  BY <1>2 DEF Leaving
<1>18. /\ alive' = alive \ {s} /\ ticking' = ticking \ {s}
       /\ UNCHANGED <<mailbox, character, requests, again, late, crowded>>
  BY DEF OnDisconnected
<1>19. Leaves(s, n, x, z)
  <2>1. /\ s \in Sessions /\ n \in Instances /\ Live(n) /\ x = created[n]
        /\ created'[n] = z /\ Fit(z) /\ Instances' = Instances
        /\ \A k \in Instances \ {n} : created'[k] = created[k] /\ (Live(k)' <=> Live(k))
        /\ \A k \in Instances \ {n} : section[s] = k => ~Live(k)
    BY <1>2, <1>5, <1>12, <1>13, <1>14, <1>15
  <2>2. (~Live(n)' => z.count <= 1) /\ (z.owner = None => Members(z) \subseteq {s})
    BY <1>12, <1>14
  <2>3. Goes(s, n)
    BY <1>17, <1>18 DEF Goes
  <2> QED
    BY <1>16, <2>1, <2>2, <2>3 DEF Leaves
<1>20. TypeOK'
  <2>1. repo' \in [Maps -> 0..Len(created)] /\ \A j \in Maps : repo'[j] \in {0, repo[j]}
    <3>1. PICK N \in Nat : N = Len(created) /\ 0 \in 0..N
      BY <1>1
    <3>2. repo \in [Maps -> 0..N] /\ repo' \in {repo, [repo EXCEPT ![m] = 0]}
      BY <1>6, <1>10, <3>1
    <3>3. repo' \in [Maps -> 0..N] /\ \A j \in Maps : repo'[j] \in {0, repo[j]}
      BY <3>1, <3>2
    <3> QED
      BY <3>1, <3>3
  <2>2. ASSUME NEW j \in Maps, repo'[j] # 0 PROVE created'[repo'[j]].map = j
    <3>1. repo'[j] = repo[j] /\ repo[j] \in Instances /\ created[repo[j]].map = j
      BY <1>1, <2>1, <2>2 DEF TypeOK
    <3>2. CASE repo[j] = n
      BY <1>2, <1>5, <1>11, <1>13, <3>1, <3>2
    <3>3. CASE repo[j] # n
      BY <1>13, <3>1, <3>3
    <3> QED
      BY <3>2, <3>3
  <2>3. section' \in [Sessions -> 0..Len(created)]
    BY <1>1, <1>6, <1>17
  <2>4. pcCharacter' \in [Sessions -> Characters \cup {None}]
    BY <1>6, <1>17
  <2>5. view' \in [Sessions -> SUBSET Characters]
    <3>0. PICK told, first, gone :
             /\ told = Addressed(y, s)
             /\ first = IF SlotsOf(x, s) # {} /\ Despawns(x, s, pcCharacter[s])
                        THEN {pcCharacter[s]} ELSE {}
             /\ gone = (first \cup IF section[s] = n THEN {character[s]} ELSE {}) \ {None}
      OBVIOUS
    <3>1. view' = [t \in Sessions |-> IF t \in told THEN view[t] \ gone ELSE view[t]]
      BY <1>2, <1>7, <3>0 DEF Leaving
    <3> QED
      BY <1>6, <3>1
  <2> QED
    BY <1>1, <1>13, <1>18, <2>1, <2>2, <2>3, <2>4, <2>5 DEF TypeOK
<1> QED
  BY <1>2, <1>19, <1>20

LEMMA LeaveSeats ==
  ASSUME SectionInv, TypeOK', NEW s, NEW n, NEW x, NEW z, Leaves(s, n, x, z)
  PROVE  SectionInv'
<1> USE DEF Leaves, Goes
<1>1. /\ TypeOK /\ \A k \in Instances : k \in Nat \ {0} /\ created[k] \in Section
  BY InstanceFacts DEF SectionInv
<1>2. None \notin Sessions /\ s \in Sessions /\ n \in Nat \ {0}
  BY <1>1, SectionAssumption
<1>3. /\ x.owner = None => Members(x) \subseteq again
      /\ \A t \in Sessions : /\ Twice(x, t) => t \in again
                             /\ t \in Members(x) => section[t] = n \/ t \in again
                             /\ section[t] = n => t \in Members(x) \/ t \in again \cup crowded
                             /\ t \notin alive /\ t \in Members(x) => t \in late \cup again
  BY DEF SectionInv, SeatsInv, MembershipAgrees, GhostsHaveACause
<1>4. section'[s] # n /\ (\A k \in Instances : section'[s] = k => section[s] = k)
      /\ \A t \in Sessions \ {s} : section'[t] = section[t]
  <2>1. section \in [Sessions -> 0..Len(created)]
    BY <1>1 DEF TypeOK
  <2>2. CASE section[s] = n
    <3>1. section' = [section EXCEPT ![s] = 0]
      BY <2>2
    <3>2. section'[s] = 0 /\ \A t \in Sessions \ {s} : section'[t] = section[t]
      BY <1>2, <2>1, <3>1
    <3> QED
      BY <1>1, <1>2, <3>2
  <2>3. CASE section[s] # n
    BY <2>3
  <2> QED
    BY <2>2, <2>3
<1>5. x.slots \in [Slots -> Sessions \cup {None}]
  BY <1>1, SectionFields
<1>6. /\ \A t \in Sessions \ {s} : t \in Members(z) <=> t \in Members(x)
      /\ \A t \in Sessions : Twice(z, t) => Twice(x, t)
      /\ s \in Members(z) => s \in again
  <2>1. CASE s \notin Members(x) /\ z.slots = x.slots
    BY <2>1 DEF Members, Twice
  <2>2. CASE \E i \in Slots : x.slots[i] = s /\ z.slots = [x.slots EXCEPT ![i] = None]
    <3>1. PICK i \in Slots : x.slots[i] = s /\ z.slots = [x.slots EXCEPT ![i] = None]
      BY <2>2
    <3>2. z.slots[i] = None /\ \A j \in Slots \ {i} : z.slots[j] = x.slots[j]
      BY <1>5, <3>1
    <3>3. ASSUME NEW t \in Sessions \ {s} PROVE t \in Members(z) <=> t \in Members(x)
      <4>1. ASSUME NEW j \in Slots, z.slots[j] = t PROVE x.slots[j] = t
        BY <1>2, <3>2, <4>1
      <4>2. ASSUME NEW j \in Slots, x.slots[j] = t PROVE z.slots[j] = t
        BY <3>1, <3>2, <4>2
      <4> QED
        BY <4>1, <4>2, MemberSlots
    <3>4. ASSUME NEW t \in Sessions, NEW j \in Slots, z.slots[j] = t PROVE x.slots[j] = t /\ j # i
      BY <1>2, <3>2, <3>4
    <3>5. \A t \in Sessions : Twice(z, t) => Twice(x, t)
      BY <3>4 DEF Twice
    <3>6. ASSUME s \in Members(z) PROVE s \in again
      <4>1. PICK j \in Slots : z.slots[j] = s
        BY <3>6, MemberSlots
      <4>2. x.slots[j] = s /\ j # i
        BY <1>2, <3>4, <4>1
      <4> QED
        BY <1>2, <1>3, <3>1, <4>2 DEF Twice
    <3> QED
      BY <3>3, <3>5, <3>6
  <2> QED
    BY <2>1, <2>2
<1>7. ASSUME NEW k \in Instances'
      PROVE  /\ Fit(created'[k])
             /\ created'[k].owner = None => Members(created'[k]) \subseteq again'
             /\ ~Live(k)' => created'[k].count <= 1
             /\ \A t \in Sessions : Twice(created'[k], t) => t \in again'
             /\ \A t \in Sessions : t \in Members(created'[k]) => section'[t] = k \/ t \in again'
             /\ \A t \in Sessions : section'[t] = k => t \in Members(created'[k]) \/ t \in again' \cup crowded'
             /\ \A t \in Sessions \ alive' : Live(k)' /\ t \in Members(created'[k]) => t \in late' \cup again'
  <2>1. CASE k = n
    <3>1. created'[k] = z /\ Fit(z) /\ (~Live(k)' => z.count <= 1)
      BY <2>1
    <3>2. z.owner = None => Members(z) \subseteq again'
      BY <1>6
    <3>3. \A t \in Sessions : Twice(z, t) => t \in again'
      BY <1>3, <1>6
    <3>4. \A t \in Sessions : t \in Members(z) => section'[t] = k \/ t \in again'
      BY <1>3, <1>4, <1>6, <2>1
    <3>5. \A t \in Sessions : section'[t] = k => t \in Members(z) \/ t \in again' \cup crowded'
      BY <1>3, <1>4, <1>6, <2>1
    <3>6. \A t \in Sessions \ alive' : t \in Members(z) => t \in late' \cup again'
      BY <1>3, <1>6
    <3> QED
      BY <3>1, <3>2, <3>3, <3>4, <3>5, <3>6
  <2>2. CASE k # n
    <3>1. k \in Instances /\ created'[k] = created[k] /\ (Live(k)' <=> Live(k))
      BY <2>2
    <3>2. /\ Fit(created[k])
          /\ created[k].owner = None => Members(created[k]) \subseteq again
          /\ ~Live(k) => created[k].count <= 1
          /\ \A t \in Sessions : Twice(created[k], t) => t \in again
      BY <3>1 DEF SectionInv, SeatsInv
    <3>3. \A t \in Sessions : /\ t \in Members(created[k]) => section[t] = k \/ t \in again
                              /\ section[t] = k => t \in Members(created[k]) \/ t \in again \cup crowded
      BY <3>1 DEF SectionInv, SeatsInv, MembershipAgrees
    <3>4. ASSUME s \in Members(created[k]) PROVE section'[s] = k \/ s \in again
      <4>1. section[s] = k => section'[s] = k
        BY <2>2
      <4> QED
        BY <1>2, <3>3, <3>4, <4>1
    <3>5. ASSUME NEW t \in Sessions \ alive', Live(k), t \in Members(created[k])
          PROVE  t \in late \cup again
      <4>1. CASE t = s
        BY <1>2, <2>2, <3>1, <3>3, <3>5, <4>1
      <4>2. CASE t # s
        BY <3>1, <3>5, <4>2 DEF SectionInv, GhostsHaveACause
      <4> QED
        BY <4>1, <4>2
    <3>6. \A t \in Sessions : t \in Members(created[k]) => section'[t] = k \/ t \in again
      BY <1>4, <3>3, <3>4
    <3>7. \A t \in Sessions : section'[t] = k => t \in Members(created[k]) \/ t \in again \cup crowded
      BY <1>4, <3>1, <3>3
    <3> QED
      BY <3>1, <3>2, <3>5, <3>6, <3>7
  <2> QED
    BY <2>1, <2>2
<1>8. \A t \in Sessions \ alive' : t \in ticking' => t \in late'
  BY DEF SectionInv, GhostsHaveACause
<1>9. SeatsInv'
  BY <1>7 DEF SeatsInv, MembershipAgrees
<1>10. GhostsHaveACause'
  BY <1>7, <1>8 DEF GhostsHaveACause
<1> QED
  BY <1>9, <1>10 DEF SectionInv

LEMMA DisconnectedStep ==
  ASSUME SectionInv, NEW s \in Sessions, OnDisconnected(s)
  PROVE  SectionInv'
<1>1. CASE Found(s) # 0 /\ Leaving(s, Found(s))
  BY <1>1, LeavingStep, LeaveSeats
<1>2. CASE Found(s) = 0 /\ UNCHANGED <<created, repo, section, pcCharacter, view, left>>
  <2>1. /\ TypeOK /\ SeatsInv /\ alive' = alive \ {s} /\ ticking' = ticking \ {s}
        /\ UNCHANGED <<mailbox, character, requests, early, again, late, crowded>>
    BY DEF SectionInv, OnDisconnected
  <2>2. TypeOK'
    BY <1>2, <2>1 DEF TypeOK
  <2>3. Instances' = Instances /\ \A n \in Instances : Live(n)' <=> Live(n)
    BY <1>2 DEF Instances, Live
  <2>4. SeatsInv'
    BY <1>2, <2>1, <2>3 DEF SeatsInv, MembershipAgrees
  <2>5. ASSUME NEW n \in Instances, Live(n), s \in Members(created[n]) PROVE s \in again
    <3>1. section[s] = n \/ s \in again
      BY <2>1, <2>5 DEF SeatsInv, MembershipAgrees
    <3>2. ASSUME section[s] = n PROVE FALSE
      BY <1>2, <2>1, <2>5, <3>2, InstanceFacts DEF Found
    <3> QED
      BY <3>1, <3>2
  <2>6. GhostsHaveACause'
    BY <1>2, <2>1, <2>3, <2>5 DEF SectionInv, GhostsHaveACause
  <2> QED
    BY <2>2, <2>4, <2>6 DEF SectionInv
<1> QED
  BY <1>1, <1>2 DEF OnDisconnected

LEMMA AnsweredStep ==
  ASSUME SectionInv, NEW s \in Sessions, LoginAnswered(s)
  PROVE  SectionInv'
<1>1. /\ TypeOK /\ SeatsInv /\ ticking' = ticking \cup {s}
      /\ late' = IF s \in alive THEN late ELSE late \cup {s}
      /\ UNCHANGED <<mailbox, created, repo, alive, section, pcCharacter, view, requests, again, crowded>>
  BY DEF SectionInv, LoginAnswered
<1>2. PICK c \in Plays[s] : character' = [character EXCEPT ![s] = c]
  BY DEF LoginAnswered
<1>3. TypeOK'
  <2>1. c \in Characters
    BY SectionAssumption
  <2>2. character' \in [Sessions -> Characters \cup {None}]
    BY <1>1, <1>2, <2>1 DEF TypeOK
  <2> QED
    BY <1>1, <2>2 DEF TypeOK
<1>4. Instances' = Instances /\ \A n \in Instances : Live(n)' <=> Live(n)
  BY <1>1 DEF Instances, Live
<1>5. SeatsInv'
  BY <1>1, <1>4 DEF SeatsInv, MembershipAgrees
<1>6. GhostsHaveACause'
  BY <1>1, <1>4 DEF SectionInv, GhostsHaveACause
<1> QED
  BY <1>3, <1>5, <1>6 DEF SectionInv

LEMMA AskedStep ==
  ASSUME SectionInv, NEW s \in Sessions, NEW m \in Maps, EnterMapReq(s, m)
  PROVE  SectionInv'
<1>1. /\ TypeOK /\ SeatsInv /\ requests < MaxRequests /\ requests' = requests + 1
      /\ mailbox' = Append(mailbox, [s |-> s, map |-> m])
      /\ UNCHANGED <<created, repo, alive, character, section, pcCharacter, ticking, view, again,
                     late, crowded>>
  BY DEF SectionInv, EnterMapReq, historyVars
<1>2. TypeOK'
  <2>1. mailbox' \in Seq([s : Sessions, map : Maps])
    BY <1>1, AppendProperties DEF TypeOK
  <2>2. requests' \in 0..MaxRequests
    BY <1>1, SectionAssumption DEF TypeOK
  <2> QED
    BY <1>1, <2>1, <2>2 DEF TypeOK
<1>3. Instances' = Instances /\ \A n \in Instances : Live(n)' <=> Live(n)
  BY <1>1 DEF Instances, Live
<1>4. SeatsInv'
  BY <1>1, <1>3 DEF SeatsInv, MembershipAgrees
<1>5. GhostsHaveACause'
  BY <1>1, <1>3 DEF SectionInv, GhostsHaveACause
<1> QED
  BY <1>2, <1>4, <1>5 DEF SectionInv

LEMMA SectionInit == Init => SectionInv
<1> SUFFICES ASSUME Init PROVE SectionInv
  OBVIOUS
<1>1. Len(created) = 0 /\ created \in Seq(Section) /\ mailbox \in Seq([s : Sessions, map : Maps])
  BY EmptySeq DEF Init
<1>2. Instances = {}
  BY <1>1 DEF Instances
<1>3. TypeOK
  BY <1>1, SectionAssumption DEF Init, TypeOK
<1> QED
  BY <1>2, <1>3 DEF Init, SectionInv, SeatsInv, MembershipAgrees, GhostsHaveACause

LEMMA SectionNext == SectionInv /\ [Next]_vars => SectionInv'
<1> SUFFICES ASSUME SectionInv, [Next]_vars PROVE SectionInv'
  OBVIOUS
<1>1. CASE RunEnter
  BY <1>1, RunEnterStep, EnterSeats
<1>2. CASE \E s \in Sessions : LoginAnswered(s) \/ OnDisconnected(s)
  BY <1>2, AnsweredStep, DisconnectedStep
<1>3. CASE \E s \in Sessions, m \in Maps : EnterMapReq(s, m)
  BY <1>3, AskedStep
<1>4. CASE UNCHANGED vars
  <2>1. UNCHANGED <<mailbox, created, repo, alive, character, section, pcCharacter, ticking, view,
                    requests, again, late, crowded>>
    BY <1>4 DEF vars, sessionVars, historyVars
  <2>2. Instances' = Instances /\ \A n \in Instances : Live(n)' <=> Live(n)
    BY <2>1 DEF Instances, Live
  <2>3. TypeOK'
    BY <2>1 DEF SectionInv, TypeOK
  <2>4. SeatsInv'
    BY <2>1, <2>2 DEF SectionInv, SeatsInv, MembershipAgrees
  <2>5. GhostsHaveACause'
    BY <2>1, <2>2 DEF SectionInv, GhostsHaveACause
  <2> QED
    BY <2>3, <2>4, <2>5 DEF SectionInv
<1> QED
  BY <1>1, <1>2, <1>3, <1>4 DEF Next

LEMMA SectionAlways == Spec => []SectionInv
BY SectionInit, SectionNext, PTL DEF Spec

-----------------------------------------------------------------------------
(* What the players know. *)

LEMMA Seated ==
  ASSUME SectionInv, again = {}, NEW k \in Instances, NEW t \in Members(created[k])
  PROVE  t \in Sessions /\ section[t] = k
<1>1. created[k] \in Section
  BY InstanceFacts DEF SectionInv
<1>2. t \in Sessions
  BY <1>1, SectionFields, MemberSlots
<1> QED
  BY <1>2 DEF SectionInv, SeatsInv, MembershipAgrees

(* A section of which nothing was said is seen as before. *)
LEMMA ViewsFrame ==
  ASSUME NEW k \in Instances, Views(k), created'[k] = created[k], Live(k)' => Live(k),
         \A t \in Members(created[k]) : view'[t] = view[t] /\ pcCharacter'[t] = pcCharacter[t]
  PROVE  Views(k)'
<1>1. Members(created[k])' = Members(created[k])
  BY DEF Members
<1>2. Seen(k)' = Seen(k)
  BY <1>1 DEF Seen
<1> QED
  BY <1>1, <1>2 DEF Views, Filled, Shown, Members

LEMMA ViewsSame ==
  ASSUME ViewsInv, UNCHANGED <<created, repo, view, pcCharacter, left, again>>
  PROVE  ViewsInv'
<1> SUFFICES ASSUME again' = {}, NEW k \in Instances' \ left' PROVE Views(k)'
  BY DEF ViewsInv
<1>1. k \in Instances /\ Views(k)
  BY DEF ViewsInv, Instances
<1> QED
  BY <1>1, ViewsFrame DEF Live

(* What Entering does to the views: the session itself gets the list of    *)
(* the section's Pcs, and the others that are told get its character.      *)
LEMMA EnteringViews ==
  ASSUME SectionInv, NEW s, NEW n, NEW x, NEW y, Enters(s, n, x, y), Told(s, n, x, y)
  PROVE  \E told :
            /\ told = IF SlotsOf(x, None) # {} /\ Spawns(Seat(x, s), s, character[s])
                      THEN Addressed(Seat(x, s), s) ELSE {}
            /\ view'[s] = Present(y)
            /\ \A t \in Sessions \ {s} :
                  /\ t \in told => view'[t] = view[t] \cup ({character[s]} \ {None})
                  /\ t \notin told => view'[t] = view[t]
                  /\ pcCharacter'[t] = pcCharacter[t]
            /\ pcCharacter'[s] = character[s]
<1>1. PICK told : told = IF SlotsOf(x, None) # {} /\ Spawns(Seat(x, s), s, character[s])
                        THEN Addressed(Seat(x, s), s) ELSE {}
  OBVIOUS
<1>2. Entering(s, n, x) /\ y = EnterSession(x, s, character[s]) /\ s \in Sessions
  BY DEF Told, Enters
<1>3. /\ view' = [t \in Sessions |-> IF t = s THEN Present(y)
                                     ELSE IF t \in told THEN view[t] \cup ({character[s]} \ {None})
                                     ELSE view[t]]
      /\ pcCharacter' = [pcCharacter EXCEPT ![s] = character[s]]
  BY <1>1, <1>2, Zenon DEF Entering
<1>4. pcCharacter \in [Sessions -> Characters \cup {None}]
  BY DEF SectionInv, TypeOK
<1> QED
  BY <1>1, <1>2, <1>3, <1>4

(* Another section than the one that is entered. *)
LEMMA EnterElsewhere ==
  ASSUME SectionInv, ViewsInv, NEW s, NEW n, NEW x, NEW y, Enters(s, n, x, y), Told(s, n, x, y),
         again' = {}, NEW k \in Instances' \ left', k # n
  PROVE  Views(k)'
<1>1. /\ again = {} /\ section[s] = 0 /\ s \in Sessions /\ k \in Instances /\ left' = left
      /\ created'[k] = created[k] /\ (Live(k)' <=> Live(k)) /\ Fit(x)
      /\ \/ n \in Instances /\ x = created[n]
         \/ \A i \in Slots : x.slots[i] = None
  BY DEF Enters, Told
<1>2. Views(k) /\ k # 0
  BY <1>1, InstanceFacts DEF ViewsInv, SectionInv
<1>3. PICK told :
         /\ told = IF SlotsOf(x, None) # {} /\ Spawns(Seat(x, s), s, character[s])
                   THEN Addressed(Seat(x, s), s) ELSE {}
         /\ \A t \in Sessions \ {s} : /\ t \notin told => view'[t] = view[t]
                                      /\ pcCharacter'[t] = pcCharacter[t]
  BY EnteringViews
<1>4. ASSUME NEW t, t \in told PROVE t \in Members(x)
  <2>1. SlotsOf(x, None) # {} /\ t \in Addressed(Seat(x, s), s)
    BY <1>3, <1>4
  <2>2. PICK z : z = Seat(x, s)
    OBVIOUS
  <2>3. Fit(z) /\ \E i \in Slots : x.slots[i] = None /\ z.slots = [x.slots EXCEPT ![i] = s]
    BY <1>1, <2>1, <2>2, SeatFit
  <2>4. t \in Members(z) /\ t # s
    BY <2>1, <2>2, <2>3, AddressedMembers DEF Fit
  <2>5. PICK i \in Slots : x.slots[i] = None /\ z.slots = [x.slots EXCEPT ![i] = s]
    BY <2>3
  <2>6. PICK j \in Slots : z.slots[j] = t /\ t # None
    BY <2>4, MemberSlots
  <2>7. x.slots \in [Slots -> Sessions \cup {None}]
    BY <1>1, SectionFields DEF Fit
  <2>8. x.slots[j] = t
    BY <2>4, <2>5, <2>6, <2>7
  <2> QED
    BY <2>6, <2>8, MemberSlots
<1>5. ASSUME NEW t \in Members(created[k])
      PROVE  view'[t] = view[t] /\ pcCharacter'[t] = pcCharacter[t]
  <2>1. t \in Sessions /\ section[t] = k /\ t # s
    BY <1>1, <1>2, Seated
  <2>2. t \notin told
    <3> SUFFICES ASSUME t \in told PROVE FALSE
      OBVIOUS
    <3>1. t \in Members(x)
      BY <1>4
    <3>2. n \in Instances /\ x = created[n]
      BY <1>1, <3>1, MemberSlots
    <3> QED
      BY <1>1, <2>1, <3>1, <3>2, Seated
  <2> QED
    BY <1>3, <2>1, <2>2
<1> QED
  BY <1>1, <1>2, <1>5, ViewsFrame

(* The section that is entered. *)
LEMMA EnteredViews ==
  ASSUME SectionInv, ViewsInv, NEW s, NEW n, NEW x, NEW y, Enters(s, n, x, y), Told(s, n, x, y),
         again' = {}, n \notin left'
  PROVE  Views(n)'
<1>1. /\ again = {} /\ section[s] = 0 /\ s \in Sessions /\ left' = left /\ n # 0
      /\ created'[n] = y /\ Live(n)' /\ Fit(x) /\ y = EnterSession(x, s, character[s])
      /\ \/ n \in Instances /\ x = created[n] /\ Live(n)
         \/ n \notin Instances /\ \E m \in Maps : x = NewSection(m)
  BY DEF Enters, Told
<1>2. PICK V : V = {pcCharacter[t] : t \in Members(x)} \ {None}
  OBVIOUS
<1>3. /\ Filled(x) /\ Shown(x, V) /\ s \notin Members(x) /\ Members(x) \subseteq Sessions
      /\ \A t \in Members(x) : view[t] = V
  <2>1. CASE n \in Instances /\ x = created[n] /\ Live(n)
    <3>1. Views(n) /\ Seen(n) = V
      BY <1>1, <1>2, <2>1 DEF ViewsInv, Seen
    <3>2. \A t \in Members(x) : t \in Sessions /\ section[t] = n
      BY <1>1, <2>1, Seated
    <3> QED
      BY <1>1, <2>1, <3>1, <3>2 DEF Views
  <2>2. CASE n \notin Instances /\ \E m \in Maps : x = NewSection(m)
    <3>1. PICK m \in Maps : x = NewSection(m)
      BY <2>2
    <3>2. \A i \in Slots : x.slots[i] = None
      BY <3>1, NewFit
    <3>3. Members(x) = {} /\ V = {}
      BY <1>2, <3>2, MemberSlots
    <3>4. /\ x.count = 0 /\ x.objects = {} /\ \A c \in Characters : x.pcs[c] = None
      BY <3>1 DEF NewSection
    <3>5. \A i \in Slots : ~(i <= 0)
      BY SectionAssumption DEF Slots
    <3> QED
      BY <3>2, <3>3, <3>4, <3>5 DEF Filled, Shown
  <2> QED
    BY <1>1, <2>1, <2>2
<1>4. PICK c \in Characters \cup {None} : c = character[s]
  BY <1>1 DEF SectionInv, TypeOK
<1>5. PICK told :
         /\ told = IF SlotsOf(x, None) # {} /\ Spawns(Seat(x, s), s, c)
                   THEN Addressed(Seat(x, s), s) ELSE {}
         /\ view'[s] = Present(y)
         /\ \A t \in Sessions \ {s} :
               /\ t \in told => view'[t] = view[t] \cup ({c} \ {None})
               /\ t \notin told => view'[t] = view[t]
               /\ pcCharacter'[t] = pcCharacter[t]
         /\ pcCharacter'[s] = c
  BY <1>4, EnteringViews
<1>6. CASE SlotsOf(x, None) = {}
  <2>1. n \in Instances /\ x = created[n] /\ Live(n)
    BY <1>1, <1>6, NewFit
  <2>2. y = x /\ told = {}
    BY <1>1, <1>5, <1>6 DEF EnterSession
  <2>3. \A t \in Members(x) : view'[t] = view[t] /\ pcCharacter'[t] = pcCharacter[t]
    BY <1>3, <1>5, <2>2
  <2>4. Views(n)
    BY <1>1, <2>1 DEF ViewsInv
  <2> QED
    BY <1>1, <2>1, <2>2, <2>3, <2>4, ViewsFrame
<1>7. CASE SlotsOf(x, None) # {}
  <2>1. PICK W : W = V \cup ({c} \ {None})
    OBVIOUS
  <2>2. /\ Filled(y) /\ Members(y) = Members(x) \cup {s} /\ Shown(y, W)
        /\ Addressed(Seat(x, s), s) = Members(x)
        /\ Spawns(Seat(x, s), s, c) <=> x.pcs[c] = None
    BY <1>1, <1>3, <1>4, <1>7, <2>1, EnterShown
  <2>3. Seen(n)' = W
    <3>1. Seen(n)' = {pcCharacter'[t] : t \in Members(y)} \ {None}
      BY <1>1 DEF Seen, Members
    <3>2. {pcCharacter'[t] : t \in Members(y)} = {pcCharacter[t] : t \in Members(x)} \cup {c}
      BY <1>3, <1>5, <2>2
    <3> QED
      BY <1>2, <2>1, <3>1, <3>2
  <2>4. Present(y) = W
    <3>1. W \subseteq Characters
      <4>1. pcCharacter \in [Sessions -> Characters \cup {None}]
        BY DEF SectionInv, TypeOK
      <4> QED
        BY <1>2, <1>3, <2>1, <4>1
    <3> QED
      BY <2>2, <3>1 DEF Present, Shown
  <2>5. ASSUME NEW t \in Members(x) PROVE view'[t] = W
    <3>0. t \in Sessions \ {s} /\ view[t] = V
      BY <1>3
    <3>1. CASE x.pcs[c] = None
      <4>1. t \in told
        BY <1>5, <1>7, <2>2, <3>1
      <4> QED
        BY <1>5, <2>1, <3>0, <4>1
    <3>2. CASE x.pcs[c] # None
      <4>1. t \notin told
        BY <1>5, <2>2, <3>2
      <4>2. c \in Characters => c \in V
        BY <1>3, <3>2 DEF Shown
      <4>3. W = V
        BY <1>4, <2>1, <4>2
      <4> QED
        BY <1>5, <3>0, <4>1, <4>3
    <3> QED
      BY <3>1, <3>2
  <2>6. \A t \in Members(y) : view'[t] = W
    BY <1>5, <2>2, <2>4, <2>5
  <2>7. Members(created[n])' = Members(y)
    BY <1>1 DEF Members
  <2>8. Filled(created[n])' /\ Shown(created[n], Seen(n))'
    BY <1>1, <2>2, <2>3 DEF Filled, Shown, Members
  <2> QED
    BY <2>3, <2>6, <2>7, <2>8 DEF Views
<1> QED
  BY <1>6, <1>7

LEMMA ViewsEnter ==
  ASSUME SectionInv, ViewsInv, NEW s, NEW n, NEW x, NEW y, Enters(s, n, x, y), Told(s, n, x, y)
  PROVE  ViewsInv'
<1> SUFFICES ASSUME again' = {}, NEW k \in Instances' \ left' PROVE Views(k)'
  BY DEF ViewsInv
<1>1. CASE k = n
  BY <1>1, EnteredViews
<1>2. CASE k # n
  BY <1>2, EnterElsewhere
<1> QED
  BY <1>1, <1>2

(* What Leaving does to the views.  A session that is found in the section *)
(* its map has now, but neither sits there nor points to it, changes       *)
(* nothing there but the owner, or the section is dropped.                 *)
LEMMA LeavingViews ==
  ASSUME SectionInv, TypeOK', NEW s \in Sessions, NEW n \in Instances, Leaving(s, n)
  PROVE  LET x == created[n] IN
         /\ \A t \in Sessions \ {s} :
               /\ t \notin Members(x) => view'[t] = view[t]
               /\ pcCharacter'[t] = pcCharacter[t]
         /\ SlotsOf(x, s) # {} \/ section[s] = n => left' = left \cup {n}
         /\ SlotsOf(x, s) = {} /\ section[s] # n =>
               /\ left' = left /\ view' = view /\ pcCharacter' = pcCharacter
               /\ created'[n].slots = x.slots
               /\ Live(n)' => created'[n].count = x.count /\ created'[n].objects = x.objects
                              /\ created'[n].pcs = x.pcs
<1>1. PICK x : x = created[n]
  OBVIOUS
<1>2. PICK y, first, gone :
         /\ y = LeaveSession(x, s, pcCharacter[s])
         /\ first = IF SlotsOf(x, s) # {} /\ Despawns(x, s, pcCharacter[s])
                    THEN {pcCharacter[s]} ELSE {}
         /\ gone = (first \cup IF section[s] = n THEN {character[s]} ELSE {}) \ {None}
  OBVIOUS
<1>3. /\ view' = [t \in Sessions |-> IF t \in Addressed(y, s) THEN view[t] \ gone ELSE view[t]]
      /\ pcCharacter' = IF section[s] = n THEN [pcCharacter EXCEPT ![s] = None] ELSE pcCharacter
      /\ left' = IF SlotsOf(x, s) # {} \/ section[s] = n THEN left \cup {n} ELSE left
      /\ \/ /\ repo' = [repo EXCEPT ![x.map] = 0] /\ created' = [created EXCEPT ![n] = Destroyed(y)]
         \/ created' = [created EXCEPT ![n] = y]
  BY <1>1, <1>2 DEF Leaving
<1>4. /\ TypeOK /\ Fit(x) /\ x \in Section /\ DOMAIN created = Instances
      /\ pcCharacter \in [Sessions -> Characters \cup {None}] /\ view \in [Sessions -> SUBSET Characters]
      /\ repo \in [Maps -> 0..Len(created)] /\ x.map \in Maps /\ n # 0
  <2>1. TypeOK /\ Fit(x)
    BY <1>1 DEF SectionInv, SeatsInv
  <2>2. x \in Section /\ x.map \in Maps /\ n # 0 /\ DOMAIN created = Instances
    BY <1>1, <2>1, InstanceFacts, SectionFields
  <2> QED
    BY <2>1, <2>2 DEF TypeOK
<1>5. /\ Fit(y) /\ y \in Section /\ y.map = x.map
      /\ \/ SlotsOf(x, s) = {} /\ y.slots = x.slots
         \/ \E i \in Slots : x.slots[i] = s /\ y.slots = [x.slots EXCEPT ![i] = None]
  <2>1. PICK c \in Characters \cup {None} : c = pcCharacter[s]
    BY <1>4
  <2>2. y = LeaveSession(x, s, c)
    BY <1>2, <2>1
  <2>3. Fit(x)
    BY <1>4
  <2>4. /\ Fit(y) /\ y.map = x.map
        /\ \/ SlotsOf(x, s) = {} /\ y.slots = x.slots
           \/ \E i \in Slots : x.slots[i] = s /\ y.slots = [x.slots EXCEPT ![i] = None]
    BY <2>2, <2>3, LeaveFit
  <2> QED
    BY <2>4 DEF Fit
<1>6. ASSUME NEW t \in Sessions \ {s}, t \notin Members(x)
      PROVE  view'[t] = view[t]
  <2>1. t \notin Members(y)
    <3> SUFFICES ASSUME t \in Members(y) PROVE FALSE
      OBVIOUS
    <3>1. PICK j \in Slots : y.slots[j] = t /\ t # None
      BY MemberSlots
    <3>2. x.slots \in [Slots -> Sessions \cup {None}]
      BY <1>4, SectionFields
    <3>3. x.slots[j] = t
      BY <1>5, <3>1, <3>2
    <3> QED
      BY <1>6, <3>1, <3>3, MemberSlots
  <2>2. t \notin Addressed(y, s)
    BY <1>5, <2>1, AddressedMembers
  <2> QED
    BY <1>3, <2>2
<1>7. \A t \in Sessions \ {s} : pcCharacter'[t] = pcCharacter[t]
  BY <1>3, <1>4
<1>8. ASSUME SlotsOf(x, s) = {}, section[s] # n
      PROVE  /\ left' = left /\ view' = view /\ pcCharacter' = pcCharacter
             /\ created'[n].slots = x.slots
             /\ Live(n)' => created'[n].count = x.count /\ created'[n].objects = x.objects
                            /\ created'[n].pcs = x.pcs
  <2>1. gone = {}
    BY <1>2, <1>8
  <2>2. view' = view
    BY <1>3, <1>4, <2>1
  <2>3. y = PassOwnership(x, s)
    BY <1>2, <1>8 DEF LeaveSession
  <2>4. /\ y.slots = x.slots /\ y.count = x.count /\ y.objects = x.objects /\ y.pcs = x.pcs
    BY <1>4, <2>3, PassFit
  <2>5. CASE created' = [created EXCEPT ![n] = y]
    <3>1. created'[n] = y
      BY <1>4, <2>5
    <3> QED
      BY <1>3, <1>8, <2>2, <2>4, <3>1
  <2>6. CASE repo' = [repo EXCEPT ![x.map] = 0] /\ created' = [created EXCEPT ![n] = Destroyed(y)]
    <3>1. created'[n] = Destroyed(y) /\ repo'[x.map] = 0
      BY <1>4, <2>6
    <3>2. Destroyed(y).slots = y.slots /\ Destroyed(y).map = x.map
      BY <1>5, SpawnKeeps
    <3>3. ~Live(n)'
      <4> SUFFICES ASSUME Live(n)' PROVE FALSE
        OBVIOUS
      <4>1. PICK m \in Maps : repo'[m] = n
        BY DEF Live
      <4>2. created'[n].map = m
        BY <1>4, <4>1 DEF TypeOK
      <4> QED
        BY <1>4, <3>1, <3>2, <4>1, <4>2
    <3> QED
      BY <1>3, <1>8, <2>2, <2>4, <3>1, <3>2, <3>3
  <2> QED
    BY <1>3, <2>5, <2>6
<1> QED
  BY <1>1, <1>3, <1>6, <1>7, <1>8

LEMMA ViewsLeave ==
  ASSUME SectionInv, TypeOK', ViewsInv, NEW s, NEW n, NEW x, NEW z, Leaves(s, n, x, z), Leaving(s, n)
  PROVE  ViewsInv'
<1> SUFFICES ASSUME again' = {}, NEW k \in Instances' \ left' PROVE Views(k)'
  BY DEF ViewsInv
<1>1. /\ again = {} /\ s \in Sessions /\ n \in Instances /\ Live(n) /\ x = created[n]
      /\ k \in Instances /\ created'[n] = z
      /\ k # n => created'[k] = created[k] /\ (Live(k)' <=> Live(k))
  BY DEF Leaves, Goes
<1>2. /\ \A t \in Sessions \ {s} : /\ t \notin Members(x) => view'[t] = view[t]
                                  /\ pcCharacter'[t] = pcCharacter[t]
      /\ SlotsOf(x, s) # {} \/ section[s] = n => left' = left \cup {n}
      /\ SlotsOf(x, s) = {} /\ section[s] # n =>
            /\ left' = left /\ view' = view /\ pcCharacter' = pcCharacter
            /\ created'[n].slots = x.slots
            /\ Live(n)' => created'[n].count = x.count /\ created'[n].objects = x.objects
                           /\ created'[n].pcs = x.pcs
  BY <1>1, LeavingViews
<1>3. k \notin left /\ Views(k)
  BY <1>1, <1>2 DEF ViewsInv
<1>4. CASE k # n
  <2>1. ASSUME NEW t \in Members(created[k])
        PROVE  view'[t] = view[t] /\ pcCharacter'[t] = pcCharacter[t]
    <3>1. t \in Sessions /\ section[t] = k /\ t \notin Members(x)
      <4>1. t \in Sessions /\ section[t] = k
        BY <1>1, Seated
      <4>2. t \in Members(created[n]) => section[t] = n
        BY <1>1, Seated
      <4> QED
        BY <1>1, <1>4, <4>1, <4>2
    <3>2. CASE t # s
      BY <1>2, <3>1, <3>2
    <3>3. CASE t = s
      <4>1. SlotsOf(x, s) = {}
        BY <1>1, <3>1, <3>3, SectionAssumption, MemberSlots DEF SlotsOf, Slots
      <4> QED
        BY <1>2, <1>4, <3>1, <3>3, <4>1
    <3> QED
      BY <3>2, <3>3
  <2> QED
    BY <1>1, <1>3, <1>4, <2>1, ViewsFrame
<1>5. CASE k = n
  <2>1. SlotsOf(x, s) = {} /\ section[s] # n
    BY <1>2, <1>5
  <2>2. /\ view' = view /\ pcCharacter' = pcCharacter /\ z.slots = x.slots
        /\ Live(n)' => z.count = x.count /\ z.objects = x.objects /\ z.pcs = x.pcs
    BY <1>1, <1>2, <2>1
  <2>3. Members(created[n])' = Members(x)
    BY <1>1, <2>2 DEF Members
  <2>4. Seen(n)' = Seen(n)
    BY <1>1, <2>2, <2>3 DEF Seen
  <2>5. /\ \A t \in Members(x) : view[t] = Seen(n)
        /\ Filled(x) /\ Shown(x, Seen(n))
    BY <1>1, <1>3, <1>5 DEF Views
  <2>6. ASSUME Live(n)' PROVE Filled(created[n])' /\ Shown(created[n], Seen(n))'
    BY <1>1, <2>2, <2>4, <2>5, <2>6 DEF Filled, Shown, Members
  <2> QED
    BY <1>5, <2>2, <2>3, <2>4, <2>5, <2>6 DEF Views
<1> QED
  BY <1>4, <1>5

LEMMA ViewsNext == SectionInv /\ ViewsInv /\ [Next]_vars => ViewsInv'
<1> SUFFICES ASSUME SectionInv, ViewsInv, [Next]_vars PROVE ViewsInv'
  OBVIOUS
<1>1. CASE RunEnter
  BY <1>1, RunEnterStep, ViewsEnter
<1>2. ASSUME NEW s \in Sessions, OnDisconnected(s) PROVE ViewsInv'
  <2>1. CASE Found(s) # 0 /\ Leaving(s, Found(s))
    BY <1>2, <2>1, LeavingStep, ViewsLeave
  <2>2. CASE UNCHANGED <<created, repo, section, pcCharacter, view, left>>
    <3>1. UNCHANGED again
      BY <1>2 DEF OnDisconnected
    <3> QED
      BY <2>2, <3>1, ViewsSame
  <2> QED
    BY <1>2, <2>1, <2>2 DEF OnDisconnected
<1>3. ASSUME NEW s \in Sessions, LoginAnswered(s) PROVE ViewsInv'
  BY <1>3, ViewsSame DEF LoginAnswered
<1>4. ASSUME NEW s \in Sessions, NEW m \in Maps, EnterMapReq(s, m) PROVE ViewsInv'
  BY <1>4, ViewsSame DEF EnterMapReq, historyVars
<1>5. CASE UNCHANGED vars
  BY <1>5, ViewsSame DEF vars, sessionVars, historyVars
<1> QED
  BY <1>1, <1>2, <1>3, <1>4, <1>5 DEF Next

-----------------------------------------------------------------------------
(* Type correctness: instances, slots, counts and the repository's map of  *)
(* sections stay what SectionRepository and Section make of them.          *)
THEOREM SectionTypeTheorem == Spec => []TypeOK
<1>1. SectionInv => TypeOK
  BY DEF SectionInv
<1> QED
  BY <1>1, SectionAlways, PTL

(* A section's count is its number of taken slots, its owner sits in one,  *)
(* players have an owner, and nobody's company is lost with the section:   *)
(* what EnterSession and LeaveSession keep about _session_count,           *)
(* world_sessions_arr_ and owner_session_, for any number of slots.        *)
THEOREM BookkeepingTheorem == Spec => []Bookkeeping
<1>1. SectionInv => Bookkeeping
  <2> SUFFICES ASSUME SectionInv, NEW n \in Instances
               PROVE  /\ created[n].count = SlotCount - Cardinality(SlotsOf(created[n], None))
                      /\ created[n].owner \in Members(created[n]) \cup {None}
                      /\ created[n].owner = None => Members(created[n]) \subseteq again
                      /\ ~Live(n) => Cardinality(Members(created[n])) <= 1
    BY DEF Bookkeeping
  <2>1. /\ Fit(created[n]) /\ (created[n].owner = None => Members(created[n]) \subseteq again)
        /\ ~Live(n) => created[n].count <= 1
    BY DEF SectionInv, SeatsInv
  <2> QED
    BY <2>1, FewMembers DEF Fit
<1> QED
  BY <1>1, SectionAlways, PTL

(* section_ of a session and the slots of the sections agree, but for the  *)
(* session whose second request overtook the answer to the first and the   *)
(* one that found its section full, whatever the order of requests.        *)
THEOREM MembershipTheorem == Spec => []MembershipAgrees
<1>1. SectionInv => MembershipAgrees
  BY DEF SectionInv, SeatsInv
<1> QED
  BY <1>1, SectionAlways, PTL

(* A disconnected session is in no live section and not in PlayerTick,     *)
(* unless a message ran for it after its OnDisconnected or it had entered  *)
(* twice.                                                                  *)
THEOREM GhostsTheorem == Spec => []GhostsHaveACause
<1>1. SectionInv => GhostsHaveACause
  BY DEF SectionInv
<1> QED
  BY <1>1, SectionAlways, PTL

(* Until a section tells of a leave, its players know exactly who is there *)
(* although each learns it in its own way, from the section's list when it *)
(* enters or from a notification: EnterSession takes the slots in order,   *)
(* so that Multicast, which goes over the first _session_count of them,    *)
(* reaches everybody as long as nobody has left.                           *)
THEOREM ViewsTheorem == Spec => []ViewsAgree
<1>1. Init => ViewsInv
  <2> SUFFICES ASSUME Init PROVE Instances = {}
    BY DEF ViewsInv
  <2>1. Len(created) = 0
    BY DEF Init
  <2> QED
    BY <2>1 DEF Instances
<1>2. SectionInv /\ ViewsInv /\ [Next]_vars => ViewsInv'
  BY ViewsNext
<1>3. ViewsInv => ViewsAgree
  BY DEF ViewsInv, Views, ViewsAgree
<1> QED
  BY <1>1, <1>2, <1>3, SectionAlways, PTL DEF Spec

-----------------------------------------------------------------------------
(* What becomes of a section's owner.                                      *)

LEMMA EnterOwner ==
  ASSUME NEW x, Fit(x), NEW s \in Sessions, NEW c \in Characters \cup {None}, x.owner # None
  PROVE  EnterSession(x, s, c).owner = x.owner
<1>1. CASE SlotsOf(x, None) = {}
  BY <1>1 DEF EnterSession
<1>2. CASE SlotsOf(x, None) # {}
  <2>1. PICK z : z = Seat(x, s)
    OBVIOUS
  <2>2. z \in Section /\ z.owner = x.owner
    BY <1>2, <2>1, SeatFit, SeatIs DEF Fit
  <2>3. SpawnPc(z, s, c).owner = z.owner
    BY <2>2, SpawnKeeps
  <2> QED
    BY <1>2, <2>1, <2>2, <2>3 DEF EnterSession
<1> QED
  BY <1>1, <1>2

LEMMA LeaveOwner ==
  ASSUME NEW x, Fit(x), NEW s \in Sessions, NEW c \in Characters \cup {None},
         x.owner # None, LeaveSession(x, s, c).owner # x.owner
  PROVE  /\ x.owner = s
         /\ LeaveSession(x, s, c).owner \in Members(x) \cup {None}
<1>1. PICK y : y = LeaveSession(x, s, c)
  OBVIOUS
<1>2. SlotsOf(x, s) # {}
  BY DEF LeaveSession, PassOwnership
<1>3. PICK z, w : z = Unseat(x, s) /\ w = DespawnPc(z, s, c)
  OBVIOUS
<1>4. z \in Section /\ z.owner = IF x.owner = s THEN None ELSE x.owner
  <2>1. x \in Section /\ z \in Section
    BY <1>2, <1>3, UnseatFit DEF Fit
  <2> QED
    BY <1>2, <1>3, <2>1, SectionFields DEF Unseat
<1>5. w.owner = z.owner /\ y = PassOwnership(w, s)
  BY <1>1, <1>2, <1>3, <1>4, SpawnKeeps DEF LeaveSession
<1>6. x.owner = s
  <2> SUFFICES ASSUME x.owner # s PROVE FALSE
    OBVIOUS
  <2>1. w.owner = x.owner /\ w.owner # None
    BY <1>4, <1>5
  <2> QED
    BY <1>1, <1>5, <2>1 DEF PassOwnership
<1>7. Fit(y) /\ (y.slots = x.slots \/ \E i \in Slots : y.slots = [x.slots EXCEPT ![i] = None])
  BY <1>1, LeaveFit
<1>8. Members(y) \subseteq Members(x)
  <2>1. x.slots \in [Slots -> Sessions \cup {None}]
    BY SectionFields DEF Fit
  <2> QED
    BY <1>7, <2>1 DEF Members, Slots
<1> QED
  BY <1>1, <1>6, <1>7, <1>8 DEF Fit

(* What a step may do to a section: once dropped it is never changed and   *)
(* never comes back, and the ownership moves only when the owner itself    *)
(* disconnects, to another member if there is one.                         *)
SectionsEvolve ==
    \A n \in Instances :
        /\ ~Live(n) => created'[n] = created[n] /\ ~(Live(n))'
        /\ LET was == created[n].owner
               is == created'[n].owner
           IN  was # None /\ is # was => /\ was \in alive \ alive'
                                         /\ is # None => is \in Members(created[n])

LEMMA StepSections == SectionInv /\ [Next]_vars => SectionsEvolve
<1> SUFFICES ASSUME SectionInv, [Next]_vars PROVE SectionsEvolve
  OBVIOUS
<1>1. /\ TypeOK /\ DOMAIN created = Instances
      /\ \A k \in Instances : Fit(created[k])
  BY InstanceFacts DEF SectionInv, SeatsInv
<1>2. ASSUME UNCHANGED <<created, repo>> PROVE SectionsEvolve
  BY <1>2 DEF SectionsEvolve, Live
<1>3. CASE RunEnter
  <2>1. PICK s, n, x, y : Enters(s, n, x, y) /\ Told(s, n, x, y)
    BY <1>3, RunEnterStep
  <2>2. ASSUME NEW k \in Instances, k # n
        PROVE  created'[k] = created[k] /\ (Live(k)' <=> Live(k))
    BY <2>1, <2>2 DEF Enters
  <2>3. ASSUME n \in Instances, created[n].owner # None
        PROVE  created'[n].owner = created[n].owner
    <3>1. x = created[n] /\ created'[n] = y /\ Fit(x) /\ s \in Sessions
      BY <2>1, <2>3 DEF Enters
    <3>2. y = EnterSession(x, s, character[s]) /\ character[s] \in Characters \cup {None}
      BY <1>1, <2>1, <3>1 DEF Told, TypeOK
    <3> QED
      BY <2>3, <3>1, <3>2, EnterOwner
  <2>4. n \in Instances => Live(n)
    BY <2>1 DEF Enters
  <2> QED
    BY <2>2, <2>3, <2>4 DEF SectionsEvolve
<1>4. ASSUME NEW s \in Sessions, OnDisconnected(s) PROVE SectionsEvolve
  <2>1. CASE Found(s) # 0 /\ Leaving(s, Found(s))
    <3>1. PICK n, x, z : Leaves(s, n, x, z) /\ Leaving(s, n)
      BY <1>4, <2>1, LeavingStep
    <3>2. ASSUME NEW k \in Instances, k # n
          PROVE  created'[k] = created[k] /\ (Live(k)' <=> Live(k))
      BY <3>1, <3>2 DEF Leaves
    <3>3. /\ n \in Instances /\ Live(n) /\ x = created[n] /\ Fit(x)
          /\ s \in alive \ alive'
      BY <1>1, <1>4, <3>1 DEF Leaves, OnDisconnected
    <3>4. PICK c \in Characters \cup {None} : c = pcCharacter[s]
      BY <1>1 DEF TypeOK
    <3>5. PICK y : y = LeaveSession(x, s, c)
      OBVIOUS
    <3>6. created'[n].owner = y.owner
      <4>1. y \in Section /\ Destroyed(y).owner = y.owner
        BY <3>3, <3>4, <3>5, LeaveFit, SpawnKeeps DEF Fit
      <4>2. created'[n] \in {y, Destroyed(y)}
        BY <1>1, <3>1, <3>3, <3>4, <3>5 DEF Leaving
      <4> QED
        BY <4>1, <4>2
    <3>7. ASSUME x.owner # None, y.owner # x.owner
          PROVE  x.owner = s /\ y.owner \in Members(x) \cup {None}
      BY <3>3, <3>4, <3>5, <3>7, LeaveOwner
    <3> QED
      BY <3>2, <3>3, <3>6, <3>7 DEF SectionsEvolve
  <2>2. CASE UNCHANGED <<created, repo>>
    BY <1>2, <2>2
  <2> QED
    BY <1>4, <2>1, <2>2 DEF OnDisconnected
<1>5. ASSUME NEW s \in Sessions, LoginAnswered(s) PROVE SectionsEvolve
  BY <1>2, <1>5 DEF LoginAnswered
<1>6. ASSUME NEW s \in Sessions, NEW m \in Maps, EnterMapReq(s, m) PROVE SectionsEvolve
  BY <1>2, <1>6 DEF EnterMapReq
<1>7. CASE UNCHANGED vars
  BY <1>2, <1>7 DEF vars
<1> QED
  BY <1>3, <1>4, <1>5, <1>6, <1>7 DEF Next

(* For SectionRepository::LeaveSection and Section::LeaveSession: what the *)
(* repository dropped is out of every later message's reach, although      *)
(* sessions still point to it, and owner_session_ is never taken from a    *)
(* session that stays.                                                     *)
THEOREM SectionsEvolveTheorem == Spec => [][SectionsEvolve]_vars
<1>1. SectionInv /\ [Next]_vars => [SectionsEvolve]_vars
  BY StepSections
<1> QED
  BY <1>1, SectionAlways, PTL DEF Spec
=============================================================================
