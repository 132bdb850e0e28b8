------------------------ MODULE SectionObjectsProofs ------------------------
(***************************************************************************)
(* Proofs about SectionObjects, for any number of Npcs, projectiles and    *)
(* sections and any clock: the structures of a section agree, the spawn    *)
(* count counts, the dead leave and what is spent stays spent.             *)
(***************************************************************************)
EXTENDS SectionObjects, SequenceTheorems, FiniteSetTheorems, TLAPS

(* A section in itself. *)
Fit(x) ==
    /\ x \in Section
    /\ x.objects = x.npcs \cup x.projectiles
    /\ x.objects = x.all \cup x.await /\ x.all \cap x.await = {}
    /\ x.objects = x.colliders
    /\ x.contacts \subseteq x.projectiles \X x.npcs
    /\ x.count >= Cardinality(x.npcs) /\ x.count < MaxSpawnCount + MaxBatch

Exact(x) == x.count = Cardinality(x.npcs)

(* Nothing in it that is not in its map of objects. *)
Within(x) ==
    /\ x \in Section
    /\ UNION {x.npcs, x.projectiles, x.all, x.await, x.colliders} \subseteq x.objects
    /\ x.contacts \subseteq x.projectiles \X x.npcs

(* Ids are given out once: what a section holds was issued, no two hold    *)
(* the same, and the id of an action that waits is in none. The actions    *)
(* that wait are in the order in which they expire.                        *)
Fresh ==
    /\ \A k \in Sections : made[k].objects \subseteq issued
    /\ \A j, k \in Sections : j # k => made[j].objects \cap made[k].objects = {}
    /\ \A i \in DOMAIN actions : /\ actions[i].id \in issued
                                 /\ \A k \in Sections : actions[i].id \notin made[k].objects
                                 /\ actions[i].expire <= now + ActionLife
    /\ \A i, j \in DOMAIN actions :
          i < j => actions[i].id # actions[j].id /\ actions[i].expire <= actions[j].expire

(* A hit posted by a tick is of an Npc of the present section, or of one   *)
(* that is gone; so whatever section it was queued for is the present one  *)
(* as long as the Npc is there.                                            *)
Aimed(h) ==
    /\ h.npc \in issued
    /\ h.section <= Len(made)
    /\ h.section # 0 => h.outside
    /\ h.outside => \A k \in Sections : h.npc \in made[k].npcs => k = repo /\ h.section \in {0, k}

ObjectsInv ==
    /\ TypeOK
    /\ \A k \in Sections : Fit(made[k]) /\ (k = repo => Exact(made[k]))
    /\ Fresh
    /\ \A i \in DOMAIN mailbox : Aimed(mailbox[i])
    /\ DeadAreGone

-----------------------------------------------------------------------------
(* Sections, a value at a time. *)

LEMMA Bounds ==
  /\ Npcs \cap Shots = {} /\ IsFiniteSet(Npcs) /\ IsFiniteSet(Shots)
  /\ Hp \in Nat \ {0} /\ Damage \in Nat \ {0} /\ MaxSpawnCount \in Nat \ {0} /\ ActionLife \in Nat \ {0}
  /\ SpawnDuration \in Nat /\ MaxBatch \in Nat /\ MaxMail \in Nat /\ MaxSections \in Nat
  /\ MaxTime \in Nat
<1>1. IsFiniteSet(Npcs) /\ IsFiniteSet(Shots)
  BY ObjectsAssumption, FS_Subset
<1> QED
  BY <1>1, ObjectsAssumption

(* A record has its fields and no others. *)
Whole(x) ==
    x = [objects |-> x.objects, all |-> x.all, await |-> x.await, colliders |-> x.colliders,
         contacts |-> x.contacts, npcs |-> x.npcs, projectiles |-> x.projectiles,
         count |-> x.count, spawned |-> x.spawned]

LEMMA SectionFields ==
  ASSUME NEW x \in Section
  PROVE  /\ Whole(x)
         /\ x.objects \subseteq Npcs \cup Shots /\ x.all \subseteq Npcs \cup Shots
         /\ x.await \subseteq Npcs \cup Shots /\ x.colliders \subseteq Npcs \cup Shots
         /\ x.contacts \subseteq Shots \X Npcs /\ x.npcs \subseteq Npcs
         /\ x.projectiles \subseteq Shots /\ x.count \in Nat /\ x.spawned \in Int
BY DEF Section, Whole

LEMMA SectionOf ==
  ASSUME NEW x, Whole(x), x.objects \subseteq Npcs \cup Shots, x.all \subseteq Npcs \cup Shots,
         x.await \subseteq Npcs \cup Shots, x.colliders \subseteq Npcs \cup Shots,
         x.contacts \subseteq Shots \X Npcs, x.npcs \subseteq Npcs,
         x.projectiles \subseteq Shots, x.count \in Nat, x.spawned \in Int
  PROVE  x \in Section
<1>1. PICK o, a, w, c, t, n, p, k, d :
         /\ x = [objects |-> o, all |-> a, await |-> w, colliders |-> c, contacts |-> t, npcs |-> n,
                 projectiles |-> p, count |-> k, spawned |-> d]
         /\ o = x.objects /\ a = x.all /\ w = x.await /\ c = x.colliders /\ t = x.contacts
         /\ n = x.npcs /\ p = x.projectiles /\ k = x.count /\ d = x.spawned
  BY DEF Whole
<1>2. [objects |-> o, all |-> a, await |-> w, colliders |-> c, contacts |-> t, npcs |-> n,
       projectiles |-> p, count |-> k, spawned |-> d] \in Section
  BY <1>1 DEF Section
<1> QED
  BY <1>1, <1>2

LEMMA FewNpcs ==
  ASSUME NEW S \in SUBSET Npcs, NEW T
  PROVE  /\ IsFiniteSet(S) /\ Cardinality(S) \in Nat /\ Cardinality(S \cap T) \in Nat
         /\ Cardinality(S \ T) = Cardinality(S) - Cardinality(S \cap T)
<1>1. IsFiniteSet(S)
  BY Bounds, FS_Subset
<1>2. IsFiniteSet(S \cap T)
  BY <1>1, FS_Subset
<1> QED
  BY <1>1, <1>2, FS_CardinalityType, FS_Difference

Without(contacts, S) == {e \in contacts : e[1] \notin S /\ e[2] \notin S}

(* DespawnObject, field by field. *)
LEMMA DespawnIs ==
  ASSUME NEW x, Within(x), NEW S, NEW y, y = Despawn(x, S)
  PROVE  /\ y.objects = x.objects \ S /\ y.all = x.all \ S /\ y.await = x.await \ S
         /\ y.colliders = x.colliders \ S /\ y.npcs = x.npcs \ S /\ y.projectiles = x.projectiles \ S
         /\ y.contacts = Without(x.contacts, S)
         /\ y.count = x.count - Cardinality(x.npcs \cap S) /\ y.spawned = x.spawned
         /\ Whole(y)
<1>1. PICK T : T = S \cap x.objects
  OBVIOUS
<1>2. PICK o, a, w, c, t, n, p, k, d :
         /\ x = [objects |-> o, all |-> a, await |-> w, colliders |-> c, contacts |-> t, npcs |-> n,
                 projectiles |-> p, count |-> k, spawned |-> d]
         /\ o = x.objects /\ a = x.all /\ w = x.await /\ c = x.colliders /\ t = x.contacts
         /\ n = x.npcs /\ p = x.projectiles /\ k = x.count /\ d = x.spawned
  BY SectionFields DEF Within, Whole
<1>3. PICK x1 : x1 = OutOfTick([x EXCEPT !.objects = @ \ T], T)
  OBVIOUS
<1>4. x1 = [objects |-> o \ T, all |-> a \ T, await |-> w \ T, colliders |-> c, contacts |-> t,
            npcs |-> n, projectiles |-> p, count |-> k, spawned |-> d]
  BY <1>2, <1>3 DEF OutOfTick
<1>5. PICK x2 : x2 = OutOfSpawn(x1, T)
  OBVIOUS
<1>6. x2 = [objects |-> o \ T, all |-> a \ T, await |-> w \ T, colliders |-> c, contacts |-> t,
            npcs |-> n \ T, projectiles |-> p \ T, count |-> k - Cardinality(n \cap T), spawned |-> d]
  BY <1>4, <1>5 DEF OutOfSpawn
<1>7. PICK u : u = Without(t, T)
  OBVIOUS
<1>8. OutOfCollision(x2, T) =
         [objects |-> o \ T, all |-> a \ T, await |-> w \ T, colliders |-> c \ T, contacts |-> u,
          npcs |-> n \ T, projectiles |-> p \ T, count |-> k - Cardinality(n \cap T), spawned |-> d]
  <2>1. x2.colliders = c /\ x2.contacts = t
    BY <1>6
  <2>2. OutOfCollision(x2, T) = [x2 EXCEPT !.colliders = c \ T, !.contacts = u]
    BY <1>7, <2>1 DEF OutOfCollision, Without
  <2> QED
    BY <1>6, <2>2
<1>9. Despawn(x, S) = OutOfCollision(x2, T)
  BY <1>1, <1>3, <1>5 DEF Despawn
<1>10. /\ o \ T = o \ S /\ a \ T = a \ S /\ w \ T = w \ S /\ c \ T = c \ S /\ n \ T = n \ S
       /\ p \ T = p \ S /\ n \cap T = n \cap S
  BY <1>1, <1>2 DEF Within
<1>11. u = Without(t, S)
  <2>1. \A e \in t : e[1] \in o /\ e[2] \in o
    BY <1>2 DEF Within
  <2> QED
    BY <1>1, <1>2, <1>7, <2>1 DEF Without
<1>12. y = [objects |-> o \ S, all |-> a \ S, await |-> w \ S, colliders |-> c \ S, contacts |-> u,
            npcs |-> n \ S, projectiles |-> p \ S, count |-> k - Cardinality(n \cap S), spawned |-> d]
  BY <1>8, <1>9, <1>10
<1> QED
  BY <1>2, <1>11, <1>12 DEF Whole

LEMMA DespawnFit ==
  ASSUME NEW x, Fit(x), NEW S
  PROVE  Fit(Despawn(x, S)) /\ (Exact(x) => Exact(Despawn(x, S)))
<1>1. PICK y : y = Despawn(x, S)
  OBVIOUS
<1>2. /\ y.objects = x.objects \ S /\ y.all = x.all \ S /\ y.await = x.await \ S
      /\ y.colliders = x.colliders \ S /\ y.npcs = x.npcs \ S /\ y.projectiles = x.projectiles \ S
      /\ y.contacts = Without(x.contacts, S)
      /\ y.count = x.count - Cardinality(x.npcs \cap S) /\ y.spawned = x.spawned
      /\ Whole(y)
  <2>1. Within(x)
    BY DEF Fit, Within
  <2> QED
    BY <1>1, <2>1, DespawnIs
<1>3. /\ x \in Section /\ x.count \in Nat /\ x.npcs \subseteq Npcs
      /\ x.count >= Cardinality(x.npcs) /\ x.count < MaxSpawnCount + MaxBatch
  BY SectionFields DEF Fit
<1>4. /\ Cardinality(x.npcs) \in Nat /\ Cardinality(x.npcs \cap S) \in Nat
      /\ Cardinality(y.npcs) \in Nat
      /\ Cardinality(y.npcs) = Cardinality(x.npcs) - Cardinality(x.npcs \cap S)
  <2>1. y.npcs \subseteq Npcs
    BY <1>2, <1>3
  <2> QED
    BY <1>2, <1>3, <2>1, FewNpcs
<1>5. y.count \in Nat /\ y.count >= Cardinality(y.npcs) /\ y.count < MaxSpawnCount + MaxBatch
      /\ (x.count = Cardinality(x.npcs) => y.count = Cardinality(y.npcs))
  BY <1>2, <1>3, <1>4, Bounds
<1>6. y \in Section
  <2>1. /\ y.objects \subseteq Npcs \cup Shots /\ y.all \subseteq Npcs \cup Shots
        /\ y.await \subseteq Npcs \cup Shots /\ y.colliders \subseteq Npcs \cup Shots
        /\ y.contacts \subseteq Shots \X Npcs /\ y.npcs \subseteq Npcs
        /\ y.projectiles \subseteq Shots /\ y.spawned \in Int
    <3>1. Without(x.contacts, S) \subseteq x.contacts
      BY DEF Without
    <3> QED
      BY <1>2, <1>3, <3>1, SectionFields
  <2> QED
    BY <1>2, <1>5, <2>1, SectionOf
<1>7. /\ y.objects = y.npcs \cup y.projectiles /\ y.objects = y.all \cup y.await
      /\ y.all \cap y.await = {} /\ y.objects = y.colliders
  BY <1>2 DEF Fit
<1>8. y.contacts \subseteq y.projectiles \X y.npcs
  BY <1>2 DEF Fit, Without
<1> QED
  BY <1>1, <1>5, <1>6, <1>7, <1>8 DEF Fit, Exact

LEMMA EmptyFit == Fit(Empty) /\ Exact(Empty)
<1>1. Empty \in Section
  BY Bounds DEF Empty, Section
<1> QED
  BY <1>1, Bounds, FS_EmptySet DEF Fit, Exact, Empty

LEMMA DestroyedFit ==
  ASSUME NEW x, Fit(x)
  PROVE  Fit(OnDestroyed(x)) /\ OnDestroyed(x).objects = {} /\ OnDestroyed(x).npcs = {}
<1>1. PICK y : y = OnDestroyed(x)
  OBVIOUS
<1>2. y = [objects |-> {}, all |-> {}, await |-> {}, colliders |-> {}, contacts |-> {},
           npcs |-> {}, projectiles |-> {}, count |-> x.count, spawned |-> x.spawned]
  BY <1>1 DEF OnDestroyed, Empty
<1>3. x.count \in Nat /\ x.spawned \in Int /\ x.count < MaxSpawnCount + MaxBatch
  BY SectionFields DEF Fit
<1>4. y \in Section
  BY <1>2, <1>3 DEF Section
<1> QED
  BY <1>1, <1>2, <1>3, <1>4, FS_EmptySet DEF Fit

(* The sections that SpawnNpcs, SpawnProjectile and OnTick write. *)
WithNpcs(x, B, t) ==
    [Add(x, B) EXCEPT !.npcs = @ \cup B, !.count = @ + Cardinality(B), !.spawned = t]
WithProjectile(x, s) == [Add(x, {s}) EXCEPT !.projectiles = @ \cup {s}]
Moved(x, S) == [x EXCEPT !.all = (@ \cup x.await) \ S, !.await = {}]
Touching(x, T) == [x EXCEPT !.contacts = T]

LEMMA AddIs ==
  ASSUME NEW x, Whole(x), NEW B, NEW y, y = Add(x, B)
  PROVE  /\ y.objects = x.objects \cup B /\ y.all = x.all /\ y.await = x.await \cup B
         /\ y.colliders = x.colliders \cup B /\ y.contacts = x.contacts /\ y.npcs = x.npcs
         /\ y.projectiles = x.projectiles /\ y.count = x.count /\ y.spawned = x.spawned
         /\ Whole(y)
<1>1. PICK o, a, w, c, ct, n, p, k, d :
         /\ x = [objects |-> o, all |-> a, await |-> w, colliders |-> c, contacts |-> ct, npcs |-> n,
                 projectiles |-> p, count |-> k, spawned |-> d]
         /\ o = x.objects /\ a = x.all /\ w = x.await /\ c = x.colliders /\ ct = x.contacts
         /\ n = x.npcs /\ p = x.projectiles /\ k = x.count /\ d = x.spawned
  BY DEF Whole
<1>2. PICK oo, ww, cc : oo = o \cup B /\ ww = w \cup B /\ cc = c \cup B
  OBVIOUS
<1>3. y = [x EXCEPT !.objects = oo, !.await = ww, !.colliders = cc]
  BY <1>1, <1>2 DEF Add
<1>4. y = [objects |-> oo, all |-> a, await |-> ww, colliders |-> cc, contacts |-> ct, npcs |-> n,
           projectiles |-> p, count |-> k, spawned |-> d]
  BY <1>1, <1>3
<1>5. /\ y.objects = oo /\ y.all = a /\ y.await = ww /\ y.colliders = cc /\ y.contacts = ct
      /\ y.npcs = n /\ y.projectiles = p /\ y.count = k /\ y.spawned = d
  BY <1>4
<1>6. Whole(y)
  BY <1>4, <1>5 DEF Whole
<1> QED
  BY <1>1, <1>2, <1>5, <1>6

LEMMA NpcsIs ==
  ASSUME NEW x, Whole(x), NEW B, NEW t, NEW y, y = WithNpcs(x, B, t)
  PROVE  /\ y.objects = x.objects \cup B /\ y.all = x.all /\ y.await = x.await \cup B
         /\ y.colliders = x.colliders \cup B /\ y.contacts = x.contacts
         /\ y.npcs = x.npcs \cup B /\ y.projectiles = x.projectiles
         /\ y.count = x.count + Cardinality(B) /\ y.spawned = t /\ Whole(y)
<1>1. PICK z : z = Add(x, B)
  OBVIOUS
<1>2. /\ z.objects = x.objects \cup B /\ z.all = x.all /\ z.await = x.await \cup B
      /\ z.colliders = x.colliders \cup B /\ z.contacts = x.contacts /\ z.npcs = x.npcs
      /\ z.projectiles = x.projectiles /\ z.count = x.count /\ Whole(z)
  BY <1>1, AddIs
<1>3. PICK o, a, w, c, ct, n, p, k, d :
         /\ z = [objects |-> o, all |-> a, await |-> w, colliders |-> c, contacts |-> ct, npcs |-> n,
                 projectiles |-> p, count |-> k, spawned |-> d]
         /\ o = z.objects /\ a = z.all /\ w = z.await /\ c = z.colliders /\ ct = z.contacts
         /\ n = z.npcs /\ p = z.projectiles /\ k = z.count /\ d = z.spawned
  BY <1>2 DEF Whole
<1>4. PICK nn, kk : nn = n \cup B /\ kk = k + Cardinality(B)
  OBVIOUS
<1>5. y = [z EXCEPT !.npcs = nn, !.count = kk, !.spawned = t]
  BY <1>1, <1>3, <1>4 DEF WithNpcs
<1>6. y = [objects |-> o, all |-> a, await |-> w, colliders |-> c, contacts |-> ct, npcs |-> nn,
           projectiles |-> p, count |-> kk, spawned |-> t]
  BY <1>3, <1>5
<1>7. /\ y.objects = o /\ y.all = a /\ y.await = w /\ y.colliders = c /\ y.contacts = ct
      /\ y.npcs = nn /\ y.projectiles = p /\ y.count = kk /\ y.spawned = t
  BY <1>6
<1>8. Whole(y)
  BY <1>6, <1>7 DEF Whole
<1> QED
  BY <1>2, <1>3, <1>4, <1>7, <1>8

LEMMA ProjectileIs ==
  ASSUME NEW x, Whole(x), NEW s, NEW y, y = WithProjectile(x, s)
  PROVE  /\ y.objects = x.objects \cup {s} /\ y.all = x.all /\ y.await = x.await \cup {s}
         /\ y.colliders = x.colliders \cup {s} /\ y.contacts = x.contacts
         /\ y.npcs = x.npcs /\ y.projectiles = x.projectiles \cup {s}
         /\ y.count = x.count /\ y.spawned = x.spawned /\ Whole(y)
<1>1. PICK z : z = Add(x, {s})
  OBVIOUS
<1>2. /\ z.objects = x.objects \cup {s} /\ z.all = x.all /\ z.await = x.await \cup {s}
      /\ z.colliders = x.colliders \cup {s} /\ z.contacts = x.contacts /\ z.npcs = x.npcs
      /\ z.projectiles = x.projectiles /\ z.count = x.count /\ z.spawned = x.spawned /\ Whole(z)
  BY <1>1, AddIs
<1>3. PICK o, a, w, c, ct, n, p, k, d :
         /\ z = [objects |-> o, all |-> a, await |-> w, colliders |-> c, contacts |-> ct, npcs |-> n,
                 projectiles |-> p, count |-> k, spawned |-> d]
         /\ o = z.objects /\ a = z.all /\ w = z.await /\ c = z.colliders /\ ct = z.contacts
         /\ n = z.npcs /\ p = z.projectiles /\ k = z.count /\ d = z.spawned
  BY <1>2 DEF Whole
<1>4. PICK pp : pp = p \cup {s}
  OBVIOUS
<1>5. y = [z EXCEPT !.projectiles = pp]
  BY <1>1, <1>3, <1>4 DEF WithProjectile
<1>6. y = [objects |-> o, all |-> a, await |-> w, colliders |-> c, contacts |-> ct, npcs |-> n,
           projectiles |-> pp, count |-> k, spawned |-> d]
  BY <1>3, <1>5
<1>7. /\ y.objects = o /\ y.all = a /\ y.await = w /\ y.colliders = c /\ y.contacts = ct
      /\ y.npcs = n /\ y.projectiles = pp /\ y.count = k /\ y.spawned = d
  BY <1>6
<1>8. Whole(y)
  BY <1>6, <1>7 DEF Whole
<1> QED
  BY <1>2, <1>3, <1>4, <1>7, <1>8

LEMMA MovedIs ==
  ASSUME NEW x, Whole(x), NEW S, NEW y, y = Moved(x, S)
  PROVE  /\ y.objects = x.objects /\ y.all = (x.all \cup x.await) \ S /\ y.await = {}
         /\ y.colliders = x.colliders /\ y.contacts = x.contacts
         /\ y.npcs = x.npcs /\ y.projectiles = x.projectiles
         /\ y.count = x.count /\ y.spawned = x.spawned /\ Whole(y)
<1>1. PICK o, a, w, c, ct, n, p, k, d :
         /\ x = [objects |-> o, all |-> a, await |-> w, colliders |-> c, contacts |-> ct, npcs |-> n,
                 projectiles |-> p, count |-> k, spawned |-> d]
         /\ o = x.objects /\ a = x.all /\ w = x.await /\ c = x.colliders /\ ct = x.contacts
         /\ n = x.npcs /\ p = x.projectiles /\ k = x.count /\ d = x.spawned
  BY DEF Whole
<1>2. PICK aa : aa = (a \cup w) \ S
  OBVIOUS
<1>3. y = [x EXCEPT !.all = aa, !.await = {}]
  BY <1>1, <1>2 DEF Moved
<1>4. y = [objects |-> o, all |-> aa, await |-> {}, colliders |-> c, contacts |-> ct, npcs |-> n,
           projectiles |-> p, count |-> k, spawned |-> d]
  BY <1>1, <1>3
<1> QED
  BY <1>1, <1>2, <1>4 DEF Whole

LEMMA TouchingIs ==
  ASSUME NEW x, Whole(x), NEW T, NEW y, y = Touching(x, T)
  PROVE  /\ y.objects = x.objects /\ y.all = x.all /\ y.await = x.await
         /\ y.colliders = x.colliders /\ y.contacts = T
         /\ y.npcs = x.npcs /\ y.projectiles = x.projectiles
         /\ y.count = x.count /\ y.spawned = x.spawned /\ Whole(y)
<1>1. PICK o, a, w, c, ct, n, p, k, d :
         /\ x = [objects |-> o, all |-> a, await |-> w, colliders |-> c, contacts |-> ct, npcs |-> n,
                 projectiles |-> p, count |-> k, spawned |-> d]
         /\ o = x.objects /\ a = x.all /\ w = x.await /\ c = x.colliders /\ ct = x.contacts
         /\ n = x.npcs /\ p = x.projectiles /\ k = x.count /\ d = x.spawned
  BY DEF Whole
<1>4. y = [objects |-> o, all |-> a, await |-> w, colliders |-> c, contacts |-> T, npcs |-> n,
           projectiles |-> p, count |-> k, spawned |-> d]
  <2>1. y = [x EXCEPT !.contacts = T]
    BY DEF Touching
  <2> QED
    BY <1>1, <2>1
<1>5. /\ y.objects = o /\ y.all = a /\ y.await = w /\ y.colliders = c /\ y.contacts = T
      /\ y.npcs = n /\ y.projectiles = p /\ y.count = k /\ y.spawned = d
  BY <1>4
<1>6. Whole(y)
  BY <1>4 DEF Whole
<1> QED
  BY <1>1, <1>5, <1>6

(* Npcs are added all at once, and a projectile. *)
LEMMA NpcsFit ==
  ASSUME NEW x, Fit(x), NEW B \in SUBSET Npcs, B \cap x.objects = {}, NEW t \in Int,
         Cardinality(B) <= MaxBatch, x.count < MaxSpawnCount, NEW y,
         y = WithNpcs(x, B, t)
  PROVE  /\ Fit(y) /\ (Exact(x) => Exact(y))
         /\ y.objects = x.objects \cup B /\ y.npcs = x.npcs \cup B
         /\ y.projectiles = x.projectiles
<1>1. /\ x \in Section /\ x.objects \subseteq Npcs \cup Shots /\ x.all \subseteq Npcs \cup Shots
      /\ x.await \subseteq Npcs \cup Shots /\ x.colliders \subseteq Npcs \cup Shots
      /\ x.contacts \subseteq Shots \X Npcs /\ x.npcs \subseteq Npcs
      /\ x.projectiles \subseteq Shots /\ x.count \in Nat /\ x.spawned \in Int /\ Whole(x)
  BY SectionFields DEF Fit
<1>2. /\ y.objects = x.objects \cup B /\ y.all = x.all /\ y.await = x.await \cup B
      /\ y.colliders = x.colliders \cup B /\ y.contacts = x.contacts
      /\ y.npcs = x.npcs \cup B /\ y.projectiles = x.projectiles
      /\ y.count = x.count + Cardinality(B) /\ y.spawned = t /\ Whole(y)
  BY <1>1, NpcsIs
<1>3. /\ x.objects = x.npcs \cup x.projectiles
      /\ x.objects = x.all \cup x.await /\ x.all \cap x.await = {}
      /\ x.objects = x.colliders /\ x.contacts \subseteq x.projectiles \X x.npcs
      /\ x.count >= Cardinality(x.npcs) /\ x.count < MaxSpawnCount + MaxBatch
  BY DEF Fit
<1>4. /\ y.count \in Nat /\ y.count >= Cardinality(y.npcs) /\ y.count < MaxSpawnCount + MaxBatch
      /\ (x.count = Cardinality(x.npcs) => y.count = Cardinality(y.npcs))
  <2>1. x.npcs \cap B = {}
    BY <1>3
  <2>2. IsFiniteSet(x.npcs) /\ IsFiniteSet(B) /\ Cardinality(x.npcs) \in Nat /\ Cardinality(B) \in Nat
    BY <1>1, FewNpcs
  <2>3. Cardinality(y.npcs) = Cardinality(x.npcs) + Cardinality(B) - Cardinality(x.npcs \cap B)
    BY <1>2, <2>2, FS_Union
  <2>4. Cardinality(x.npcs \cap B) = 0
    BY <2>1, FS_EmptySet
  <2> QED
    BY <1>1, <1>2, <1>3, <2>2, <2>3, <2>4, Bounds
<1>5. y \in Section
  <2>1. /\ y.objects \subseteq Npcs \cup Shots /\ y.all \subseteq Npcs \cup Shots
        /\ y.await \subseteq Npcs \cup Shots /\ y.colliders \subseteq Npcs \cup Shots
        /\ y.contacts \subseteq Shots \X Npcs /\ y.npcs \subseteq Npcs
        /\ y.projectiles \subseteq Shots /\ y.spawned \in Int
    BY <1>1, <1>2
  <2> QED
    BY <1>2, <1>4, <2>1, SectionOf
<1>6. /\ y.objects = y.npcs \cup y.projectiles
      /\ y.objects = y.all \cup y.await /\ y.all \cap y.await = {}
      /\ y.objects = y.colliders /\ y.contacts \subseteq y.projectiles \X y.npcs
  BY <1>2, <1>3
<1> QED
  BY <1>2, <1>4, <1>5, <1>6 DEF Fit, Exact

LEMMA ProjectileFit ==
  ASSUME NEW x, Fit(x), NEW s \in Shots, s \notin x.objects, NEW y, y = WithProjectile(x, s)
  PROVE  /\ Fit(y) /\ (Exact(x) => Exact(y))
         /\ y.objects = x.objects \cup {s} /\ y.npcs = x.npcs
         /\ y.projectiles = x.projectiles \cup {s}
<1>1. /\ x \in Section /\ x.objects \subseteq Npcs \cup Shots /\ x.all \subseteq Npcs \cup Shots
      /\ x.await \subseteq Npcs \cup Shots /\ x.colliders \subseteq Npcs \cup Shots
      /\ x.contacts \subseteq Shots \X Npcs /\ x.npcs \subseteq Npcs
      /\ x.projectiles \subseteq Shots /\ x.count \in Nat /\ x.spawned \in Int /\ Whole(x)
  BY SectionFields DEF Fit
<1>2. /\ y.objects = x.objects \cup {s} /\ y.all = x.all /\ y.await = x.await \cup {s}
      /\ y.colliders = x.colliders \cup {s} /\ y.contacts = x.contacts
      /\ y.npcs = x.npcs /\ y.projectiles = x.projectiles \cup {s}
      /\ y.count = x.count /\ y.spawned = x.spawned /\ Whole(y)
  BY <1>1, ProjectileIs
<1>3. /\ x.objects = x.npcs \cup x.projectiles
      /\ x.objects = x.all \cup x.await /\ x.all \cap x.await = {}
      /\ x.objects = x.colliders /\ x.contacts \subseteq x.projectiles \X x.npcs
      /\ x.count >= Cardinality(x.npcs) /\ x.count < MaxSpawnCount + MaxBatch
  BY DEF Fit
<1>5. y \in Section
  <2>1. /\ y.objects \subseteq Npcs \cup Shots /\ y.all \subseteq Npcs \cup Shots
        /\ y.await \subseteq Npcs \cup Shots /\ y.colliders \subseteq Npcs \cup Shots
        /\ y.contacts \subseteq Shots \X Npcs /\ y.npcs \subseteq Npcs
        /\ y.projectiles \subseteq Shots /\ y.spawned \in Int /\ y.count \in Nat
    BY <1>1, <1>2
  <2> QED
    BY <1>2, <2>1, SectionOf
<1>6. /\ y.objects = y.npcs \cup y.projectiles
      /\ y.objects = y.all \cup y.await /\ y.all \cap y.await = {}
      /\ y.objects = y.colliders /\ y.contacts \subseteq y.projectiles \X y.npcs
  BY <1>2, <1>3
<1> QED
  BY <1>2, <1>3, <1>5, <1>6 DEF Fit, Exact

(* A tick leaves a section with what had not expired. *)
LEMMA TickFit ==
  ASSUME NEW x, Fit(x), NEW S \in SUBSET x.projectiles, NEW y, NEW touching, NEW z,
         y = Despawn(Moved(x, S), S),
         touching \in SUBSET ((y.colliders \cap Shots) \X (y.colliders \cap Npcs)),
         z = Touching(y, touching)
  PROVE  /\ Fit(z) /\ (Exact(x) => Exact(z))
         /\ z.objects \subseteq x.objects /\ z.npcs = x.npcs
         /\ touching \cup y.contacts \subseteq z.projectiles \X z.npcs
<1>1. /\ x \in Section /\ x.objects \subseteq Npcs \cup Shots /\ x.all \subseteq Npcs \cup Shots
      /\ x.await \subseteq Npcs \cup Shots /\ x.colliders \subseteq Npcs \cup Shots
      /\ x.contacts \subseteq Shots \X Npcs /\ x.npcs \subseteq Npcs
      /\ x.projectiles \subseteq Shots /\ x.count \in Nat /\ x.spawned \in Int /\ Whole(x)
  BY SectionFields DEF Fit
<1>2. /\ x.objects = x.npcs \cup x.projectiles
      /\ x.objects = x.all \cup x.await /\ x.all \cap x.await = {}
      /\ x.objects = x.colliders /\ x.contacts \subseteq x.projectiles \X x.npcs
      /\ x.count >= Cardinality(x.npcs) /\ x.count < MaxSpawnCount + MaxBatch
  BY DEF Fit
<1>3. PICK m : m = Moved(x, S)
  OBVIOUS
<1>4. /\ m.objects = x.objects /\ m.all = (x.all \cup x.await) \ S /\ m.await = {}
      /\ m.colliders = x.colliders /\ m.contacts = x.contacts
      /\ m.npcs = x.npcs /\ m.projectiles = x.projectiles
      /\ m.count = x.count /\ m.spawned = x.spawned /\ Whole(m)
  BY <1>1, <1>3, MovedIs
<1>5. Within(m)
  <2>1. m \in Section
    <3>1. m.all \subseteq Npcs \cup Shots /\ m.await \subseteq Npcs \cup Shots
      BY <1>1, <1>4
    <3> QED
      BY <1>1, <1>4, <3>1, SectionOf
  <2> QED
    BY <1>2, <1>4, <2>1 DEF Within
<1>6. /\ y.objects = m.objects \ S /\ y.all = m.all \ S /\ y.await = m.await \ S
      /\ y.colliders = m.colliders \ S /\ y.npcs = m.npcs \ S /\ y.projectiles = m.projectiles \ S
      /\ y.contacts = Without(m.contacts, S) /\ y.count = m.count - Cardinality(m.npcs \cap S)
      /\ y.spawned = m.spawned /\ Whole(y)
  <2>1. y = Despawn(m, S)
    BY <1>3
  <2> QED
    BY <1>5, <2>1, DespawnIs
<1>7. m.npcs \cap S = {} /\ m.npcs \ S = x.npcs
  BY <1>1, <1>4, Bounds
<1>8. Cardinality(m.npcs \cap S) = 0
  BY <1>7, FS_EmptySet
<1>9. /\ z.objects = y.objects /\ z.all = y.all /\ z.await = y.await
      /\ z.colliders = y.colliders /\ z.contacts = touching
      /\ z.npcs = y.npcs /\ z.projectiles = y.projectiles
      /\ z.count = y.count /\ z.spawned = y.spawned /\ Whole(z)
  BY <1>6, TouchingIs
<1>10. /\ z.objects = x.objects \ S /\ z.all = x.objects \ S /\ z.await = {}
       /\ z.colliders = x.objects \ S /\ z.npcs = x.npcs /\ z.projectiles = x.projectiles \ S
       /\ z.count = x.count /\ z.spawned = x.spawned
  BY <1>1, <1>2, <1>4, <1>6, <1>7, <1>8, <1>9
<1>11. z.contacts = touching /\ touching \subseteq z.projectiles \X z.npcs
  <2>1. y.colliders \cap Shots \subseteq z.projectiles /\ y.colliders \cap Npcs \subseteq z.npcs
    BY <1>1, <1>2, <1>9, <1>10, Bounds
  <2> QED
    BY <1>9, <2>1
<1>12. y.contacts \subseteq z.projectiles \X z.npcs
  <2>1. \A e \in y.contacts : e \in x.contacts /\ e[1] \notin S
    BY <1>4, <1>6 DEF Without
  <2> QED
    BY <1>2, <1>10, <2>1
<1>13. z \in Section
  <2>1. /\ z.objects \subseteq Npcs \cup Shots /\ z.all \subseteq Npcs \cup Shots
        /\ z.await \subseteq Npcs \cup Shots /\ z.colliders \subseteq Npcs \cup Shots
        /\ z.npcs \subseteq Npcs /\ z.projectiles \subseteq Shots /\ z.spawned \in Int /\ z.count \in Nat
    BY <1>1, <1>10
  <2>2. z.contacts \subseteq Shots \X Npcs
    BY <1>11, <2>1
  <2> QED
    BY <1>9, <2>1, <2>2, SectionOf
<1>14. /\ z.objects = z.npcs \cup z.projectiles
       /\ z.objects = z.all \cup z.await /\ z.all \cap z.await = {} /\ z.objects = z.colliders
  BY <1>1, <1>2, <1>4, <1>7, <1>10
<1> QED
  BY <1>2, <1>10, <1>11, <1>12, <1>13, <1>14 DEF Fit, Exact

-----------------------------------------------------------------------------
(* One section changes; what holds of the others.                          *)

Kept == \A k \in Sections : Fit(made[k]) /\ (k = repo => Exact(made[k]))

LEMMA MadeFacts ==
  ASSUME ObjectsInv
  PROVE  /\ made \in Seq(Section) /\ Len(made) \in Nat /\ DOMAIN made = Sections
         /\ Len(made) <= MaxSections /\ repo \in 0..Len(made)
         /\ \A k \in Sections : k \in Nat \ {0} /\ made[k] \in Section /\ Fit(made[k])
         /\ repo # 0 => repo \in Sections
<1>1. TypeOK /\ \A k \in Sections : Fit(made[k])
  BY DEF ObjectsInv
<1>2. made \in Seq(Section) /\ Len(made) \in Nat /\ DOMAIN made = Sections
  BY <1>1, LenProperties DEF TypeOK, Sections
<1>3. \A k \in Sections : k \in Nat \ {0} /\ made[k] \in Section
  BY <1>1, <1>2 DEF Fit, Sections
<1> QED
  BY <1>1, <1>2, <1>3 DEF TypeOK, Sections

LEMMA QueueFacts ==
  ASSUME TypeOK
  PROVE  /\ Len(actions) \in Nat /\ DOMAIN actions = 1..Len(actions)
         /\ \A i \in DOMAIN actions : actions[i].id \in Shots /\ actions[i].expire \in Nat
         /\ Len(mailbox) \in Nat /\ DOMAIN mailbox = 1..Len(mailbox)
         /\ \A i \in DOMAIN mailbox : mailbox[i] \in Hit /\ mailbox[i].section \in Nat
<1>1. actions \in Seq([id : Shots, expire : Nat]) /\ mailbox \in Seq(Hit)
  BY DEF TypeOK
<1>2. /\ Len(actions) \in Nat /\ DOMAIN actions = 1..Len(actions)
      /\ Len(mailbox) \in Nat /\ DOMAIN mailbox = 1..Len(mailbox)
  BY <1>1, LenProperties
<1>3. ASSUME NEW i \in DOMAIN actions PROVE actions[i] \in [id : Shots, expire : Nat]
  BY <1>1, <1>2, <1>3, ElementOfSeq
<1>4. ASSUME NEW i \in DOMAIN mailbox PROVE mailbox[i] \in Hit
  BY <1>1, <1>2, <1>4, ElementOfSeq
<1>5. \A h \in Hit : h.section \in Nat
  BY Bounds DEF Hit
<1> QED
  BY <1>2, <1>3, <1>4, <1>5

LEMMA ChangeKeeps ==
  ASSUME ObjectsInv, NEW k \in Sections, NEW y, Fit(y), k = repo => Exact(y), Change(k, y),
         repo' = repo
  PROVE  /\ made' \in Seq(Section) /\ Len(made') = Len(made) /\ Sections' = Sections
         /\ made'[k] = y /\ \A j \in Sections \ {k} : made'[j] = made[j]
         /\ Kept'
<1>1. /\ made \in Seq(Section) /\ Len(made) \in Nat /\ DOMAIN made = Sections
      /\ k \in Nat \ {0}
  BY MadeFacts
<1>2. made' = [made EXCEPT ![k] = y] /\ y \in Section
  BY DEF Change, Fit
<1>3. made' \in Seq(Section) /\ Len(made') = Len(made)
  BY <1>1, <1>2 DEF Sections
<1>4. Sections' = Sections /\ made'[k] = y /\ \A j \in Sections \ {k} : made'[j] = made[j]
  BY <1>1, <1>2, <1>3 DEF Sections
<1>5. ASSUME NEW j \in Sections PROVE Fit(made'[j]) /\ (j = repo => Exact(made'[j]))
  BY <1>4 DEF ObjectsInv
<1> QED
  BY <1>3, <1>4, <1>5 DEF Kept

(* A section only loses objects. *)
LEMMA ShrinkKeeps ==
  ASSUME ObjectsInv, NEW k \in Sections, NEW y, Fit(y), k = repo => Exact(y), Change(k, y),
         y.objects \subseteq made[k].objects, y.npcs \subseteq made[k].npcs,
         UNCHANGED <<now, repo, issued, actions>>
  PROVE  Fresh' /\ \A h : Aimed(h) => Aimed(h)'
<1>1. /\ Sections' = Sections /\ Len(made') = Len(made)
      /\ made'[k] = y /\ \A j \in Sections \ {k} : made'[j] = made[j]
  BY ChangeKeeps
<1>2. \A j \in Sections : /\ made'[j].objects \subseteq made[j].objects
                          /\ made'[j].npcs \subseteq made[j].npcs
  BY <1>1
<1>3. Fresh'
  BY <1>1, <1>2 DEF ObjectsInv, Fresh
<1>4. ASSUME NEW h, Aimed(h) PROVE Aimed(h)'
  BY <1>1, <1>2, <1>4 DEF Aimed
<1> QED
  BY <1>3, <1>4

LEMMA ClockStep ==
  ASSUME ObjectsInv, Clock
  PROVE  ObjectsInv'
<1>1. /\ TypeOK /\ now < MaxTime /\ now' = now + 1
      /\ UNCHANGED <<made, repo, issued, hp, born, actions, mailbox>>
  BY DEF ObjectsInv, Clock, objectVars
<1>2. now \in 0..MaxTime /\ now' \in 0..MaxTime /\ 0..now \subseteq 0..now'
  BY <1>1, Bounds DEF TypeOK
<1>3. TypeOK'
  BY <1>1, <1>2 DEF TypeOK
<1>4. Sections' = Sections
  BY <1>1 DEF Sections
<1>5. Fresh'
  <2>1. \A i \in DOMAIN actions : actions[i].expire \in Nat
    BY <1>1, QueueFacts
  <2> QED
    BY <1>1, <1>2, <1>4, <2>1, Bounds DEF ObjectsInv, Fresh
<1>6. (\A i \in DOMAIN mailbox : Aimed(mailbox[i]))'
  BY <1>1, <1>4 DEF ObjectsInv, Aimed
<1>7. DeadAreGone'
  BY <1>1 DEF ObjectsInv, DeadAreGone
<1> QED
  BY <1>1, <1>3, <1>4, <1>5, <1>6, <1>7 DEF ObjectsInv

LEMMA CreateStep ==
  ASSUME ObjectsInv, CreateSection
  PROVE  ObjectsInv'
<1>1. /\ TypeOK /\ Fresh /\ repo = 0 /\ Len(made) < MaxSections
      /\ made' = Append(made, Empty) /\ repo' = Len(made')
      /\ UNCHANGED <<now, issued, hp, born, actions, mailbox>>
  BY DEF ObjectsInv, CreateSection, objectVars
<1>2. made \in Seq(Section) /\ Len(made) \in Nat /\ Empty \in Section
  BY MadeFacts, EmptyFit DEF Fit
<1>3. PICK n : n = Len(made) + 1
  OBVIOUS
<1>4. /\ made' \in Seq(Section) /\ Len(made') = n /\ repo' = n /\ made'[n] = Empty
      /\ \A k \in Sections : made'[k] = made[k]
  BY <1>1, <1>2, <1>3, AppendProperties DEF Sections
<1>5. Sections' = Sections \cup {n} /\ n \notin Sections /\ n # 0
  BY <1>2, <1>3, <1>4 DEF Sections
<1>6. \A k \in Sections' : Fit(made'[k]) /\ (k = repo' => Exact(made'[k]))
  BY <1>4, <1>5, EmptyFit DEF ObjectsInv
<1>7. Empty.objects = {} /\ Empty.npcs = {}
  BY DEF Empty
<1>8. TypeOK'
  BY <1>1, <1>2, <1>3, <1>4, Bounds DEF TypeOK
<1>9. Fresh'
  <2>1. \A k \in Sections' : made'[k].objects = IF k = n THEN {} ELSE made[k].objects
    BY <1>4, <1>5, <1>7
  <2> QED
    BY <1>1, <1>5, <2>1 DEF Fresh
<1>10. ASSUME NEW i \in DOMAIN mailbox PROVE Aimed(mailbox[i])'
  <2>1. Aimed(mailbox[i]) /\ mailbox[i].section \in Nat
    BY <1>1, <1>10, QueueFacts DEF ObjectsInv
  <2>2. \A k \in Sections : k # 0
    BY MadeFacts
  <2>3. \A k \in Sections' : made'[k].npcs = IF k = n THEN {} ELSE made[k].npcs
    BY <1>4, <1>5, <1>7
  <2>4. mailbox[i].section <= Len(made')
    BY <1>2, <1>3, <1>4, <2>1 DEF Aimed
  <2> QED
    BY <1>1, <1>5, <2>1, <2>2, <2>3, <2>4 DEF Aimed
<1>11. DeadAreGone'
  BY <1>4, <1>7 DEF DeadAreGone
<1> QED
  BY <1>1, <1>6, <1>8, <1>9, <1>10, <1>11 DEF ObjectsInv

LEMMA DropStep ==
  ASSUME ObjectsInv, DropSection
  PROVE  ObjectsInv'
<1>1. /\ TypeOK /\ Fresh /\ repo # 0 /\ made' = [made EXCEPT ![repo] = OnDestroyed(@)] /\ repo' = 0
      /\ UNCHANGED <<now, issued, hp, born, actions, mailbox>>
  BY DEF ObjectsInv, DropSection, objectVars
<1>2. /\ made \in Seq(Section) /\ Len(made) \in Nat /\ DOMAIN made = Sections /\ repo \in Sections
      /\ \A k \in Sections : k # 0 /\ Fit(made[k])
  BY <1>1, MadeFacts
<1>3. PICK y : y = OnDestroyed(made[repo])
  OBVIOUS
<1>4. Fit(y) /\ y.objects = {} /\ y.npcs = {} /\ y \in Section
  BY <1>2, <1>3, DestroyedFit DEF Fit
<1>5. made' = [made EXCEPT ![repo] = y]
  BY <1>1, <1>3
<1>6. made' \in Seq(Section) /\ Len(made') = Len(made)
  BY <1>2, <1>4, <1>5 DEF Sections
<1>7. Sections' = Sections /\ made'[repo] = y /\ \A k \in Sections \ {repo} : made'[k] = made[k]
  BY <1>2, <1>5, <1>6 DEF Sections
<1>8. \A k \in Sections' : Fit(made'[k]) /\ k # repo'
  BY <1>1, <1>2, <1>4, <1>7
<1>9. TypeOK'
  BY <1>1, <1>2, <1>6 DEF TypeOK
<1>10. Fresh'
  BY <1>1, <1>4, <1>7 DEF Fresh
<1>11. ASSUME NEW h, Aimed(h) PROVE Aimed(h)'
  BY <1>1, <1>4, <1>6, <1>7, <1>11 DEF Aimed
<1>12. DeadAreGone'
  BY <1>1 DEF DeadAreGone
<1> QED
  BY <1>1, <1>8, <1>9, <1>10, <1>11, <1>12 DEF ObjectsInv

LEMMA SpawnNpcsStep ==
  ASSUME ObjectsInv, NEW k \in Sections, SpawnNpcs(k)
  PROVE  ObjectsInv'
<1>1. TypeOK /\ Fresh /\ Fit(made[k]) /\ made[k].count < MaxSpawnCount
      /\ UNCHANGED <<now, repo, born, actions, mailbox>>
  BY DEF ObjectsInv, SpawnNpcs
<1>2. PICK batch \in SUBSET (Npcs \ issued) :
         /\ Cardinality(batch) <= MaxBatch /\ issued' = issued \cup batch
         /\ hp' = [n \in Npcs |-> IF n \in batch THEN Hp ELSE hp[n]]
         /\ Change(k, WithNpcs(made[k], batch, now))
  BY DEF SpawnNpcs, WithNpcs
<1>3. PICK y : y = WithNpcs(made[k], batch, now)
  OBVIOUS
<1>4. now \in Int /\ batch \cap made[k].objects = {} /\ batch \in SUBSET Npcs
  BY <1>1, <1>2, Bounds DEF Fresh, TypeOK
<1>5. /\ Fit(y) /\ (Exact(made[k]) => Exact(y))
      /\ y.objects = made[k].objects \cup batch /\ y.npcs = made[k].npcs \cup batch
  BY <1>1, <1>2, <1>3, <1>4, NpcsFit
<1>6. /\ made' \in Seq(Section) /\ Len(made') = Len(made) /\ Sections' = Sections
      /\ made'[k] = y /\ \A j \in Sections \ {k} : made'[j] = made[j]
      /\ Kept'
  BY <1>1, <1>2, <1>3, <1>5, ChangeKeeps DEF ObjectsInv
<1>7. \A j \in Sections : /\ made'[j].objects = IF j = k THEN made[j].objects \cup batch ELSE made[j].objects
                          /\ made'[j].npcs = IF j = k THEN made[j].npcs \cup batch ELSE made[j].npcs
  BY <1>5, <1>6
<1>8. hp' \in [Npcs -> 0..Hp]
  BY <1>1, <1>2, Bounds DEF TypeOK
<1>9. TypeOK'
  BY <1>1, <1>2, <1>6, <1>8 DEF TypeOK
<1>10. Fresh'
  <2>1. \A j \in Sections : made[j].objects \subseteq issued /\ made[j].objects \cap batch = {}
    BY <1>1, <1>2 DEF Fresh
  <2>2. \A j \in Sections' : made'[j].objects \subseteq issued'
    BY <1>2, <1>6, <1>7, <2>1
  <2>3. \A j, l \in Sections' : j # l => made'[j].objects \cap made'[l].objects = {}
    BY <1>1, <1>6, <1>7, <2>1 DEF Fresh
  <2>4. \A i \in DOMAIN actions : /\ actions[i].id \in issued' /\ actions[i].id \notin batch
                                  /\ \A j \in Sections' : actions[i].id \notin made'[j].objects
    BY <1>1, <1>2, <1>6, <1>7 DEF Fresh
  <2> QED
    BY <1>1, <2>2, <2>3, <2>4 DEF Fresh
<1>11. ASSUME NEW i \in DOMAIN mailbox PROVE Aimed(mailbox[i])'
  <2>1. Aimed(mailbox[i])
    BY <1>11 DEF ObjectsInv
  <2>2. mailbox[i].npc \notin batch
    BY <1>2, <2>1 DEF Aimed
  <2>3. \A j \in Sections : mailbox[i].npc \in made'[j].npcs => mailbox[i].npc \in made[j].npcs
    BY <1>7, <2>2
  <2> QED
    BY <1>1, <1>2, <1>6, <2>1, <2>3 DEF Aimed
<1>12. DeadAreGone'
  <2> SUFFICES ASSUME repo # 0, NEW n \in made'[repo].npcs PROVE hp'[n] > 0
    BY <1>1 DEF DeadAreGone
  <2>1. repo \in Sections
    BY MadeFacts
  <2>2. n \in Npcs
    BY <1>6, <2>1, SectionFields DEF Kept, Fit
  <2>3. n \in made[repo].npcs \/ n \in batch
    BY <1>7, <2>1
  <2>4. CASE n \in batch
    BY <1>2, <2>2, <2>4, Bounds
  <2>5. CASE n \notin batch /\ n \in made[repo].npcs
    BY <1>2, <2>2, <2>5 DEF ObjectsInv, DeadAreGone
  <2> QED
    BY <2>3, <2>4, <2>5
<1> QED
  BY <1>1, <1>6, <1>9, <1>10, <1>11, <1>12 DEF ObjectsInv, Kept

LEMMA SpawnProjectileStep ==
  ASSUME ObjectsInv, NEW k \in Sections, SpawnProjectile(k)
  PROVE  ObjectsInv'
<1>1. TypeOK /\ Fresh /\ Fit(made[k]) /\ actions # <<>> /\ actions' = Tail(actions)
      /\ UNCHANGED <<now, repo, issued, hp, mailbox>>
  BY DEF ObjectsInv, SpawnProjectile
<1>2. PICK s : s = Head(actions).id
  OBVIOUS
<1>3. born' = [born EXCEPT ![s] = now] /\ Change(k, WithProjectile(made[k], s))
  BY <1>2 DEF SpawnProjectile, WithProjectile
<1>4. PICK y : y = WithProjectile(made[k], s)
  OBVIOUS
<1>5. /\ actions \in Seq([id : Shots, expire : Nat]) /\ actions' \in Seq([id : Shots, expire : Nat])
      /\ Len(actions) \in Nat \ {0} /\ Head(actions) = actions[1]
      /\ DOMAIN actions = 1..Len(actions) /\ DOMAIN actions' = 1..(Len(actions) - 1)
      /\ \A i \in DOMAIN actions' : actions'[i] = actions[i + 1] /\ i + 1 \in DOMAIN actions
      /\ 1 \in DOMAIN actions
  <2>1. actions \in Seq([id : Shots, expire : Nat]) /\ actions # <<>>
    BY <1>1 DEF TypeOK
  <2>2. /\ Len(actions) \in Nat \ {0} /\ Head(actions) = actions[1] /\ DOMAIN actions = 1..Len(actions)
        /\ Tail(actions) \in Seq([id : Shots, expire : Nat])
        /\ Len(Tail(actions)) = Len(actions) - 1
        /\ DOMAIN Tail(actions) = 1..(Len(actions) - 1)
        /\ \A i \in 1..(Len(actions) - 1) : Tail(actions)[i] = actions[i + 1]
    BY <2>1, LenProperties, HeadTailProperties, EmptySeq
  <2> QED
    BY <1>1, <2>1, <2>2
<1>6. s = actions[1].id /\ s \in Shots /\ s \in issued /\ \A j \in Sections : s \notin made[j].objects
  BY <1>1, <1>2, <1>5, QueueFacts DEF Fresh
<1>7. /\ Fit(y) /\ (Exact(made[k]) => Exact(y))
      /\ y.objects = made[k].objects \cup {s} /\ y.npcs = made[k].npcs
  BY <1>1, <1>4, <1>6, ProjectileFit
<1>8. /\ made' \in Seq(Section) /\ Len(made') = Len(made) /\ Sections' = Sections
      /\ made'[k] = y /\ \A j \in Sections \ {k} : made'[j] = made[j]
      /\ Kept'
  BY <1>1, <1>3, <1>4, <1>7, ChangeKeeps DEF ObjectsInv
<1>9. \A j \in Sections : /\ made'[j].objects = IF j = k THEN made[j].objects \cup {s} ELSE made[j].objects
                          /\ made'[j].npcs = made[j].npcs
  BY <1>7, <1>8
<1>10. TypeOK'
  <2>1. born' \in [Shots -> 0..now] /\ now \in 0..MaxTime
    BY <1>1, <1>3, <1>6, Bounds DEF TypeOK
  <2> QED
    BY <1>1, <1>5, <1>8, <2>1 DEF TypeOK
<1>11. Fresh'
  <2>2. \A j \in Sections' : made'[j].objects \subseteq issued'
    BY <1>1, <1>6, <1>8, <1>9 DEF Fresh
  <2>3. ASSUME NEW j \in Sections, NEW l \in Sections, j # l
        PROVE  made'[j].objects \cap made'[l].objects = {}
    <3>1. /\ made[j].objects \cap made[l].objects = {}
          /\ s \notin made[j].objects /\ s \notin made[l].objects
      BY <1>1, <1>6, <2>3 DEF Fresh
    <3> QED
      BY <1>9, <2>3, <3>1
  <2>4. ASSUME NEW i \in DOMAIN actions'
        PROVE  /\ actions'[i].id \in issued' /\ actions'[i].expire <= now' + ActionLife
               /\ \A j \in Sections' : actions'[i].id \notin made'[j].objects
    <3>1. i + 1 \in DOMAIN actions /\ 1 < i + 1 /\ actions'[i] = actions[i + 1]
      BY <1>5, <2>4
    <3>2. actions[i + 1].id # s
      BY <1>1, <1>5, <1>6, <3>1 DEF Fresh
    <3>3. /\ actions[i + 1].id \in issued /\ actions[i + 1].expire <= now + ActionLife
          /\ \A j \in Sections : actions[i + 1].id \notin made[j].objects
      BY <1>1, <3>1 DEF Fresh
    <3>4. \A j \in Sections : actions[i + 1].id \notin made'[j].objects
      BY <1>9, <3>2, <3>3
    <3> QED
      BY <1>1, <1>8, <3>1, <3>3, <3>4
  <2>5. ASSUME NEW i \in DOMAIN actions', NEW j \in DOMAIN actions', i < j
        PROVE  actions'[i].id # actions'[j].id /\ actions'[i].expire <= actions'[j].expire
    <3>1. i + 1 < j + 1 /\ i + 1 \in DOMAIN actions /\ j + 1 \in DOMAIN actions
          /\ actions'[i] = actions[i + 1] /\ actions'[j] = actions[j + 1]
      BY <1>5, <2>5
    <3> QED
      BY <1>1, <3>1 DEF Fresh
  <2> QED
    BY <1>8, <2>2, <2>3, <2>4, <2>5 DEF Fresh
<1>12. ASSUME NEW i \in DOMAIN mailbox PROVE Aimed(mailbox[i])'
  BY <1>1, <1>8, <1>9, <1>12 DEF ObjectsInv, Aimed
<1>13. DeadAreGone'
  BY <1>1, <1>9, MadeFacts DEF ObjectsInv, DeadAreGone
<1> QED
  BY <1>1, <1>8, <1>10, <1>11, <1>12, <1>13 DEF ObjectsInv, Kept

LEMMA ClientActionStep ==
  ASSUME ObjectsInv, ClientAction
  PROVE  ObjectsInv'
<1>1. TypeOK /\ Fresh /\ UNCHANGED <<now, made, repo, hp, born, mailbox>>
  BY DEF ObjectsInv, ClientAction
<1>2. PICK s \in Shots \ issued : /\ issued' = issued \cup {s}
                                  /\ actions' = Append(actions, [id |-> s, expire |-> now + ActionLife])
  BY DEF ClientAction
<1>3. PICK a : a = [id |-> s, expire |-> now + ActionLife]
  OBVIOUS
<1>4. a \in [id : Shots, expire : Nat] /\ a.id = s /\ a.expire = now + ActionLife /\ now \in Nat
  BY <1>1, <1>3, Bounds DEF TypeOK
<1>5. /\ actions' \in Seq([id : Shots, expire : Nat]) /\ Len(actions') = Len(actions) + 1
      /\ Len(actions) \in Nat /\ DOMAIN actions = 1..Len(actions)
      /\ DOMAIN actions' = 1..(Len(actions) + 1)
      /\ actions'[Len(actions) + 1] = a /\ \A i \in DOMAIN actions : actions'[i] = actions[i]
  <2>1. actions \in Seq([id : Shots, expire : Nat]) /\ actions' = Append(actions, a)
    BY <1>1, <1>2, <1>3 DEF TypeOK
  <2> QED
    BY <1>4, <2>1, AppendProperties, LenProperties
<1>6. TypeOK'
  BY <1>1, <1>2, <1>5 DEF TypeOK
<1>7. Sections' = Sections
  BY <1>1 DEF Sections
<1>8. Fresh'
  <2>1. \A i \in DOMAIN actions : actions[i].id \in issued /\ actions[i].expire \in Nat
                                  /\ actions[i].expire <= now + ActionLife
    BY <1>1, QueueFacts DEF Fresh
  <2>2. \A j \in Sections : made[j].objects \subseteq issued' /\ s \notin made[j].objects
    BY <1>1, <1>2 DEF Fresh
  <2>3. ASSUME NEW i \in DOMAIN actions'
        PROVE  /\ actions'[i].id \in issued' /\ actions'[i].expire <= now + ActionLife
               /\ \A j \in Sections : actions'[i].id \notin made[j].objects
    <3>1. CASE i = Len(actions) + 1
      BY <1>2, <1>4, <1>5, <2>2, <3>1, Bounds
    <3>2. CASE i \in DOMAIN actions
      BY <1>1, <1>2, <1>5, <2>1, <3>2 DEF Fresh
    <3> QED
      BY <1>5, <2>3, <3>1, <3>2
  <2>4. ASSUME NEW i \in DOMAIN actions', NEW j \in DOMAIN actions', i < j
        PROVE  actions'[i].id # actions'[j].id /\ actions'[i].expire <= actions'[j].expire
    <3>1. i \in DOMAIN actions /\ (j \in DOMAIN actions \/ j = Len(actions) + 1)
      BY <1>5, <2>4
    <3>2. CASE j \in DOMAIN actions
      BY <1>1, <1>5, <2>4, <3>1, <3>2 DEF Fresh
    <3>3. CASE j = Len(actions) + 1
      BY <1>2, <1>4, <1>5, <2>1, <3>1, <3>3
    <3> QED
      BY <3>1, <3>2, <3>3
  <2> QED
    BY <1>1, <1>7, <2>2, <2>3, <2>4 DEF Fresh
<1>9. (\A i \in DOMAIN mailbox : Aimed(mailbox[i]))'
  BY <1>1, <1>2, <1>7 DEF ObjectsInv, Aimed
<1>10. DeadAreGone'
  BY <1>1 DEF ObjectsInv, DeadAreGone
<1> QED
  BY <1>1, <1>6, <1>7, <1>8, <1>9, <1>10 DEF ObjectsInv

LEMMA SectionTickStep ==
  ASSUME ObjectsInv, OnSectionTick
  PROVE  ObjectsInv'
<1>1. TypeOK /\ Fresh /\ UNCHANGED <<now, made, repo, issued, hp, born, mailbox>>
  BY DEF ObjectsInv, OnSectionTick
<1>2. PICK k \in DOMAIN actions : actions' = SubSeq(actions, k + 1, Len(actions))
  BY DEF OnSectionTick
<1>3. /\ actions' \in Seq([id : Shots, expire : Nat])
      /\ \A i \in DOMAIN actions' : i + k \in DOMAIN actions /\ actions'[i] = actions[i + k]
      /\ k \in Nat /\ \A i \in DOMAIN actions' : i \in Nat
  <2>1. /\ actions \in Seq([id : Shots, expire : Nat])
        /\ Len(actions) \in Nat /\ DOMAIN actions = 1..Len(actions)
    BY <1>1, QueueFacts DEF TypeOK
  <2>2. /\ k + 1 \in 1..(Len(actions) + 1) /\ Len(actions) \in k..Len(actions)
        /\ \A i \in (k + 1)..Len(actions) : i \in 1..Len(actions)
    BY <2>1
  <2>3. /\ actions' \in Seq([id : Shots, expire : Nat])
        /\ Len(actions') = Len(actions) - k
        /\ DOMAIN actions' = 1..(Len(actions) - k)
        /\ \A i \in 1..(Len(actions) - k) : actions'[i] = actions[i + k]
    <3>1. PICK S, m, n : S = [id : Shots, expire : Nat] /\ m = k + 1 /\ n = Len(actions)
      OBVIOUS
    <3>2. m \in Int /\ n \in Int /\ \A i \in m..n : actions[i] \in S
      <4>1. m \in Int /\ n \in Int /\ \A i \in m..n : i \in 1..Len(actions)
        BY <2>1, <2>2, <3>1
      <4>2. \A i \in 1..Len(actions) : actions[i] \in S
        BY <2>1, <3>1, ElementOfSeq
      <4> QED
        BY <4>1, <4>2
    <3>3. /\ SubSeq(actions, m, n) \in Seq(S)
          /\ Len(SubSeq(actions, m, n)) = IF m <= n THEN n - m + 1 ELSE 0
          /\ \A i \in 1..(n - m + 1) : SubSeq(actions, m, n)[i] = actions[m + i - 1]
      BY <3>2, SubSeqProperties
    <3>4. actions' \in Seq(S) /\ Len(actions') = Len(actions) - k
      BY <1>2, <2>1, <2>2, <3>1, <3>3
    <3>5. DOMAIN actions' = 1..(Len(actions) - k)
      BY <3>4, LenProperties
    <3>6. ASSUME NEW i \in 1..(Len(actions) - k) PROVE actions'[i] = actions[i + k]
      <4>1. i \in 1..(n - m + 1) /\ m + i - 1 = i + k
        <5>1. k \in Int /\ i \in Int /\ n \in Int /\ Len(actions) = n /\ m = k + 1
          BY <2>1, <3>1
        <5>2. m + i - 1 = i + k /\ n - m + 1 = n - k
          BY <5>1
        <5> QED
          BY <5>1, <5>2
      <4>2. actions' = SubSeq(actions, m, n)
        BY <1>2, <3>1
      <4>3. actions'[i] = actions[m + i - 1]
        BY <3>3, <4>1, <4>2
      <4> QED
        BY <4>1, <4>3
    <3> QED
      BY <3>1, <3>4, <3>5, <3>6
  <2> QED
    BY <2>1, <2>3
<1>4. TypeOK'
  BY <1>1, <1>3 DEF TypeOK
<1>5. Sections' = Sections
  BY <1>1 DEF Sections
<1>6. Fresh'
  <2>1. ASSUME NEW i \in DOMAIN actions', NEW j \in DOMAIN actions', i < j
        PROVE  actions'[i].id # actions'[j].id /\ actions'[i].expire <= actions'[j].expire
    <3>1. i + k < j + k
      BY <1>3, <2>1
    <3> QED
      BY <1>1, <1>3, <3>1 DEF Fresh
  <2> QED
    BY <1>1, <1>3, <1>5, <2>1 DEF Fresh
<1>7. (\A i \in DOMAIN mailbox : Aimed(mailbox[i]))'
  BY <1>1, <1>5 DEF ObjectsInv, Aimed
<1>8. DeadAreGone'
  BY <1>1 DEF ObjectsInv, DeadAreGone
<1> QED
  BY <1>1, <1>4, <1>5, <1>6, <1>7, <1>8 DEF ObjectsInv

-----------------------------------------------------------------------------
(* The hits of a projectile in a queue.                                    *)

HitsIn(q, s) == {i \in DOMAIN q : q[i].projectile = s}

LEMMA FewHits ==
  ASSUME NEW q \in Seq(Hit), NEW s
  PROVE  /\ HitsIn(q, s) \subseteq 1..Len(q) /\ IsFiniteSet(HitsIn(q, s))
         /\ Cardinality(HitsIn(q, s)) \in Nat
<1>1. Len(q) \in Nat /\ DOMAIN q = 1..Len(q)
  BY LenProperties
<1>2. IsFiniteSet(1..Len(q))
  BY <1>1, FS_Interval
<1> QED
  BY <1>1, <1>2, FS_Subset, FS_CardinalityType DEF HitsIn

LEMMA TailHits ==
  ASSUME NEW q \in Seq(Hit), q # <<>>, NEW s
  PROVE  /\ Cardinality(HitsIn(Tail(q), s)) <= Cardinality(HitsIn(q, s))
         /\ Head(q).projectile = s =>
               Cardinality(HitsIn(Tail(q), s)) < Cardinality(HitsIn(q, s))
<1>1. PICK r : r = Tail(q)
  OBVIOUS
<1>2. /\ r \in Seq(Hit) /\ Len(r) = Len(q) - 1 /\ Len(q) \in Nat \ {0}
      /\ DOMAIN q = 1..Len(q) /\ DOMAIN r = 1..Len(r) /\ Head(q) = q[1]
      /\ \A i \in 1..Len(r) : r[i] = q[i + 1]
  BY <1>1, HeadTailProperties, LenProperties, EmptySeq
<1>3. PICK A, B : A = HitsIn(r, s) /\ B = HitsIn(q, s) \ {1}
  OBVIOUS
<1>4. IsFiniteSet(HitsIn(q, s)) /\ IsFiniteSet(B) /\ Cardinality(HitsIn(q, s)) \in Nat
  BY <1>3, FewHits, FS_Subset
<1>5. PICK f : f = [i \in A |-> i + 1]
  OBVIOUS
<1>6. f \in Injection(A, B)
  <2>1. ASSUME NEW i \in A PROVE i \in Nat /\ i + 1 \in B
    BY <1>2, <1>3 DEF HitsIn
  <2>2. f \in [A -> B]
    BY <1>5, <2>1
  <2>3. ASSUME NEW i \in A, NEW j \in A, f[i] = f[j] PROVE i = j
    <3>1. i \in Nat /\ j \in Nat /\ i + 1 = j + 1
      BY <1>5, <2>1, <2>3
    <3> QED
      BY <3>1
  <2> QED
    BY <2>2, <2>3 DEF Injection, IsInjective
<1>7. Cardinality(A) <= Cardinality(B)
  BY <1>4, <1>6, FS_Injection
<1>8. Cardinality(A) \in Nat
  BY <1>2, <1>3, FewHits
<1>9. /\ Cardinality(B) <= Cardinality(HitsIn(q, s)) /\ Cardinality(B) \in Nat
      /\ 1 \in HitsIn(q, s) => Cardinality(B) = Cardinality(HitsIn(q, s)) - 1
  BY <1>3, <1>4, FS_Subset, FS_RemoveElement, FS_CardinalityType
<1>10. Head(q).projectile = s => 1 \in HitsIn(q, s)
  BY <1>2 DEF HitsIn
<1>11. /\ Cardinality(A) <= Cardinality(HitsIn(q, s))
       /\ Head(q).projectile = s => Cardinality(A) < Cardinality(HitsIn(q, s))
  BY <1>4, <1>7, <1>8, <1>9, <1>10
<1> QED
  BY <1>1, <1>3, <1>11

LEMMA AppendHits ==
  ASSUME NEW q \in Seq(Hit), NEW h \in Hit, NEW s
  PROVE  /\ h.projectile # s => HitsIn(Append(q, h), s) = HitsIn(q, s)
         /\ Cardinality(HitsIn(Append(q, h), s)) <= Cardinality(HitsIn(q, s)) + 1
<1>1. PICK r : r = Append(q, h)
  OBVIOUS
<1>2. /\ r \in Seq(Hit) /\ Len(r) = Len(q) + 1 /\ Len(q) \in Nat
      /\ DOMAIN q = 1..Len(q) /\ DOMAIN r = 1..Len(r) /\ r[Len(q) + 1] = h
      /\ \A i \in 1..Len(q) : r[i] = q[i]
  BY <1>1, AppendProperties, LenProperties
<1>3. h.projectile # s => HitsIn(r, s) = HitsIn(q, s)
  BY <1>2 DEF HitsIn
<1>4. h.projectile = s => HitsIn(r, s) = HitsIn(q, s) \cup {Len(q) + 1}
  BY <1>2 DEF HitsIn
<1>5. /\ Len(q) + 1 \notin HitsIn(q, s) /\ IsFiniteSet(HitsIn(q, s))
      /\ Cardinality(HitsIn(q, s)) \in Nat
  <2>1. IsFiniteSet(HitsIn(q, s)) /\ Cardinality(HitsIn(q, s)) \in Nat
        /\ HitsIn(q, s) \subseteq 1..Len(q)
    BY FewHits
  <2> QED
    BY <1>2, <2>1
<1>6. Cardinality(HitsIn(q, s) \cup {Len(q) + 1}) = Cardinality(HitsIn(q, s)) + 1
  <2>1. PICK A, e : A = HitsIn(q, s) /\ e = Len(q) + 1
    OBVIOUS
  <2>2. Cardinality(A \cup {e}) = Cardinality(A) + 1
    BY <1>5, <2>1, FS_AddElement
  <2> QED
    BY <2>1, <2>2
<1>7. Cardinality(HitsIn(r, s)) <= Cardinality(HitsIn(q, s)) + 1
  <2>1. HitsIn(r, s) = HitsIn(q, s) \/ HitsIn(r, s) = HitsIn(q, s) \cup {Len(q) + 1}
    BY <1>3, <1>4
  <2>2. Cardinality(HitsIn(r, s)) \in {Cardinality(HitsIn(q, s)), Cardinality(HitsIn(q, s)) + 1}
    BY <1>6, <2>1
  <2> QED
    BY <1>5, <2>2
<1> QED
  BY <1>1, <1>3, <1>7

LEMMA ConcatHits ==
  ASSUME NEW q \in Seq(Hit), NEW r \in Seq(Hit), NEW s,
         \A i \in DOMAIN r : r[i].projectile # s
  PROVE  HitsIn(q \o r, s) = HitsIn(q, s)
<1>1. /\ Len(q) \in Nat /\ Len(r) \in Nat /\ DOMAIN q = 1..Len(q) /\ DOMAIN r = 1..Len(r)
      /\ q \o r \in Seq(Hit) /\ Len(q \o r) = Len(q) + Len(r)
      /\ DOMAIN (q \o r) = 1..(Len(q) + Len(r))
      /\ \A i \in 1..(Len(q) + Len(r)) : (q \o r)[i] = IF i <= Len(q) THEN q[i] ELSE r[i - Len(q)]
  BY ConcatProperties, LenProperties
<1>2. ASSUME NEW i \in HitsIn(q \o r, s) PROVE i \in HitsIn(q, s)
  <2>1. i \in 1..(Len(q) + Len(r)) /\ (q \o r)[i].projectile = s
    BY <1>1 DEF HitsIn
  <2>2. CASE i <= Len(q)
    BY <1>1, <2>1, <2>2 DEF HitsIn
  <2>3. CASE ~(i <= Len(q))
    <3>1. i - Len(q) \in 1..Len(r)
      BY <1>1, <2>1, <2>3
    <3> QED
      BY <1>1, <2>1, <2>3, <3>1
  <2> QED
    BY <2>2, <2>3
<1>3. ASSUME NEW i \in HitsIn(q, s) PROVE i \in HitsIn(q \o r, s)
  <2>1. i \in 1..Len(q) /\ q[i].projectile = s /\ i \in 1..(Len(q) + Len(r)) /\ i <= Len(q)
    BY <1>1 DEF HitsIn
  <2> QED
    BY <1>1, <2>1 DEF HitsIn
<1> QED
  BY <1>2, <1>3

(* Something is a function. *)
AFunction(f) == f = [i \in DOMAIN f |-> f[i]]

(* A hit for each of some things, in any order, behind those in the queue. *)
LEMMA Posted ==
  ASSUME NEW q \in Seq(Hit), NEW T, IsFiniteSet(T), NEW order \in SetToSeqs(T), NEW f,
         DOMAIN f = DOMAIN order, \A i \in DOMAIN order : order[i] \in T => f[i] \in Hit,
         AFunction(f)
  PROVE  /\ \A i \in DOMAIN f : order[i] \in T
         /\ f \in Seq(Hit) /\ q \o f \in Seq(Hit) /\ Len(q \o f) = Len(q) + Len(order)
         /\ \A i \in DOMAIN (q \o f) : \/ i \in DOMAIN q /\ (q \o f)[i] = q[i]
                                       \/ \E j \in DOMAIN f : (q \o f)[i] = f[j]
<1>1. PICK n : n = Cardinality(T)
  OBVIOUS
<1>2. n \in Nat /\ order \in [1..n -> T] /\ DOMAIN order = 1..n
  BY <1>1, FS_CardinalityType DEF SetToSeqs
<1>3. \A i \in DOMAIN f : order[i] \in T
  BY <1>2
<1>4. f \in [1..n -> Hit]
  BY <1>2, <1>3 DEF AFunction
<1>5. f \in Seq(Hit) /\ Len(f) = n /\ DOMAIN f = 1..n /\ Len(order) = n
  BY <1>2, <1>4
<1>6. /\ Len(q) \in Nat /\ DOMAIN q = 1..Len(q) /\ q \o f \in Seq(Hit)
      /\ Len(q \o f) = Len(q) + n /\ DOMAIN (q \o f) = 1..(Len(q) + n)
      /\ \A i \in 1..(Len(q) + n) : (q \o f)[i] = IF i <= Len(q) THEN q[i] ELSE f[i - Len(q)]
  BY <1>2, <1>5, ConcatProperties, LenProperties
<1>7. ASSUME NEW i \in DOMAIN (q \o f)
      PROVE  \/ i \in DOMAIN q /\ (q \o f)[i] = q[i]
             \/ \E j \in DOMAIN f : (q \o f)[i] = f[j]
  <2>1. CASE i <= Len(q)
    BY <1>6, <1>7, <2>1
  <2>2. CASE ~(i <= Len(q))
    <3>1. i - Len(q) \in 1..n
      BY <1>2, <1>6, <1>7, <2>2
    <3> QED
      BY <1>5, <1>6, <1>7, <2>2, <3>1
  <2> QED
    BY <2>1, <2>2
<1> QED
  BY <1>3, <1>5, <1>6, <1>7

-----------------------------------------------------------------------------
(* The hits. *)

SpentNow == \A s \in Shots : s \notin Flying' =>
               Cardinality(HitsIn(mailbox', s)) <= Cardinality(HitsIn(mailbox, s))

(* Nothing is posted. *)
LEMMA SameHits ==
  ASSUME TypeOK, mailbox' = mailbox
  PROVE  SpentNow
<1>1. mailbox \in Seq(Hit)
  BY DEF TypeOK
<1>2. \A s \in Shots : Cardinality(HitsIn(mailbox, s)) \in Nat
  BY <1>1, FewHits
<1> QED
  BY <1>2 DEF SpentNow

LEMMA Removed ==
  ASSUME NEW x, Fit(x), NEW S, NEW y, y = Despawn(x, S)
  PROVE  /\ Fit(y) /\ (Exact(x) => Exact(y)) /\ y.objects = x.objects \ S
         /\ y.npcs = x.npcs \ S /\ y.projectiles = x.projectiles \ S
<1>1. Within(x)
  BY DEF Fit, Within
<1>2. /\ y.objects = x.objects \ S /\ y.all = x.all \ S /\ y.await = x.await \ S
      /\ y.colliders = x.colliders \ S /\ y.npcs = x.npcs \ S /\ y.projectiles = x.projectiles \ S
      /\ y.contacts = Without(x.contacts, S)
      /\ y.count = x.count - Cardinality(x.npcs \cap S) /\ y.spawned = x.spawned /\ Whole(y)
  BY <1>1, DespawnIs
<1>3. Fit(y) /\ (Exact(x) => Exact(y))
  BY DespawnFit
<1> QED
  BY <1>2, <1>3

LEMMA HitReqStep ==
  ASSUME ObjectsInv, NEW k \in Sections, HitReq(k)
  PROVE  ObjectsInv' /\ SpentNow
<1>1. TypeOK /\ Fresh /\ Fit(made[k]) /\ Len(mailbox) < MaxMail
      /\ UNCHANGED <<now, made, repo, issued, hp, born, actions>>
  BY DEF ObjectsInv, HitReq, objectVars
<1>2. PICK s \in made[k].projectiles, n \in made[k].npcs :
         mailbox' = Append(mailbox, NewHit(s, n, FALSE))
  BY DEF HitReq
<1>3. PICK h : h = NewHit(s, n, FALSE)
  OBVIOUS
<1>4. s \in Shots /\ n \in Npcs /\ n \in issued
  BY <1>1, SectionFields DEF Fit, Fresh
<1>5. h \in Hit /\ h.projectile = s /\ h.npc = n /\ h.outside = FALSE /\ h.section = 0
  BY <1>3, <1>4, Bounds DEF NewHit, Hit
<1>6. /\ mailbox \in Seq(Hit) /\ mailbox' \in Seq(Hit) /\ Len(mailbox') = Len(mailbox) + 1
      /\ Len(mailbox) \in Nat /\ DOMAIN mailbox = 1..Len(mailbox)
      /\ DOMAIN mailbox' = 1..(Len(mailbox) + 1) /\ mailbox'[Len(mailbox) + 1] = h
      /\ \A i \in DOMAIN mailbox : mailbox'[i] = mailbox[i]
  <2>1. mailbox \in Seq(Hit) /\ mailbox' = Append(mailbox, h)
    BY <1>1, <1>2, <1>3 DEF TypeOK
  <2> QED
    BY <1>5, <2>1, AppendProperties, LenProperties
<1>7. Sections' = Sections
  BY <1>1 DEF Sections
<1>8. TypeOK'
  BY <1>1, <1>6, Bounds DEF TypeOK
<1>9. Fresh'
  BY <1>1, <1>7 DEF Fresh
<1>10. ASSUME NEW i \in DOMAIN mailbox' PROVE Aimed(mailbox[i])'
  <2>1. CASE i \in DOMAIN mailbox
    BY <1>1, <1>6, <1>7, <2>1 DEF ObjectsInv, Aimed
  <2>2. CASE i = Len(mailbox) + 1
    BY <1>1, <1>4, <1>5, <1>6, <1>7, <2>2, MadeFacts DEF Aimed
  <2> QED
    BY <1>6, <1>10, <2>1, <2>2
<1>11. DeadAreGone'
  BY <1>1 DEF ObjectsInv, DeadAreGone
<1>12. ObjectsInv'
  BY <1>1, <1>7, <1>8, <1>9, <1>10, <1>11 DEF ObjectsInv
<1>13. s \in Flying'
  BY <1>1, <1>2, <1>7 DEF Flying
<1>14. SpentNow
  <2> SUFFICES ASSUME NEW t \in Shots, t \notin Flying'
               PROVE  Cardinality(HitsIn(mailbox', t)) <= Cardinality(HitsIn(mailbox, t))
    BY DEF SpentNow
  <2>1. HitsIn(mailbox', t) = HitsIn(mailbox, t)
    BY <1>2, <1>3, <1>5, <1>6, <1>13, AppendHits
  <2>2. Cardinality(HitsIn(mailbox, t)) \in Nat
    BY <1>6, FewHits
  <2> QED
    BY <2>1, <2>2
<1> QED
  BY <1>12, <1>14

(* HitObject's work, in the section k. The hits that follow in the channel *)
(* are those in rest.                                                      *)
LEMMA ApplyStep ==
  ASSUME ObjectsInv, NEW k \in Sections, NEW hit \in Hit, Aimed(hit),
         repo # 0 /\ hit.npc \in made[repo].npcs => k = repo,
         NEW rest \in Seq(Hit), Len(rest) <= MaxMail,
         \A i \in DOMAIN rest : Aimed(rest[i]),
         ApplyHit(k, hit, rest), UNCHANGED <<now, repo>>
  PROVE  /\ ObjectsInv'
         /\ \A s \in Shots : s \notin Flying' => HitsIn(mailbox', s) = HitsIn(rest, s)
<1>1. PICK s, n, x, z : /\ s = hit.projectile /\ n = hit.npc
                        /\ x = Despawn(made[k], {s}) /\ z = Despawn(x, {n})
  OBVIOUS
<1>2. s \in Shots /\ n \in Npcs /\ n \in issued /\ s # n
  BY <1>1, Bounds DEF Hit, Aimed
<1>3. TypeOK /\ Fresh /\ Fit(made[k]) /\ (k = repo => Exact(made[k]))
      /\ UNCHANGED <<now, repo, issued, born, actions>>
  BY DEF ObjectsInv, ApplyHit
<1>4. PICK points : points = hp[n] - Damage
  OBVIOUS
<1>5. /\ hp' = [hp EXCEPT ![n] = Points(points)]
      /\ \/ ~Dies(points) /\ Change(k, x) /\ mailbox' = rest
         \/ /\ Dies(points) /\ Change(k, z)
            /\ \E told \in Told(x, n) : \E order \in SetToSeqs(told) :
                  /\ Len(rest) + Len(order) <= MaxMail
                  /\ mailbox' = rest \o [i \in DOMAIN order |-> NewHit(order[i], n, FALSE)]
  BY <1>1, <1>4 DEF ApplyHit
<1>6. /\ Fit(x) /\ (Exact(made[k]) => Exact(x)) /\ x.objects = made[k].objects \ {s}
      /\ x.npcs = made[k].npcs \ {s} /\ x.projectiles = made[k].projectiles \ {s}
  <2>1. x = Despawn(made[k], {s})
    BY <1>1
  <2> QED
    BY <1>3, <2>1, Removed
<1>7. /\ Fit(z) /\ (Exact(x) => Exact(z)) /\ z.objects = x.objects \ {n}
      /\ z.npcs = x.npcs \ {n} /\ z.projectiles = x.projectiles \ {n}
  <2>1. z = Despawn(x, {n})
    BY <1>1
  <2> QED
    BY <1>6, <2>1, Removed
<1>8. z.projectiles = x.projectiles
  <2>1. x.projectiles \subseteq Shots
    BY <1>6, SectionFields DEF Fit
  <2> QED
    BY <1>2, <1>7, <2>1, Bounds
<1>9. PICK y : y \in {x, z} /\ Change(k, y) /\ (Dies(points) => y = z)
  BY <1>5
<1>10. /\ Fit(y) /\ (k = repo => Exact(y)) /\ y.objects \subseteq made[k].objects
       /\ y.npcs \subseteq made[k].npcs /\ y.projectiles = x.projectiles
  BY <1>3, <1>6, <1>7, <1>8, <1>9
<1>11. /\ made' \in Seq(Section) /\ Len(made') = Len(made) /\ Sections' = Sections
       /\ made'[k] = y /\ \A j \in Sections \ {k} : made'[j] = made[j]
       /\ Kept'
  BY <1>3, <1>9, <1>10, ChangeKeeps
<1>12. Fresh' /\ \A h : Aimed(h) => Aimed(h)'
  BY <1>3, <1>9, <1>10, ShrinkKeeps
<1>13. hp[n] \in 0..Hp /\ points \in Int /\ Points(points) \in 0..Hp /\ (~Dies(points) => Points(points) > 0)
       /\ hp' \in [Npcs -> 0..Hp] /\ hp'[n] = Points(points) /\ \A m \in Npcs \ {n} : hp'[m] = hp[m]
  <2>1. hp \in [Npcs -> 0..Hp] /\ hp[n] \in 0..Hp
    BY <1>2, <1>3 DEF TypeOK
  <2>2. points \in Int /\ Points(points) \in 0..Hp /\ (~Dies(points) => Points(points) > 0)
    BY <1>4, <2>1, Bounds DEF Points, Dies
  <2> QED
    BY <1>2, <1>5, <2>1, <2>2
<1>14. /\ mailbox' \in Seq(Hit) /\ Len(mailbox') <= MaxMail
       /\ \A i \in DOMAIN mailbox' : Aimed(mailbox'[i])
       /\ \A t \in Shots : t \notin Flying' => HitsIn(mailbox', t) = HitsIn(rest, t)
  <2>1. CASE mailbox' = rest
    BY <2>1
  <2>2. ASSUME NEW told \in Told(x, n), NEW order \in SetToSeqs(told),
               Len(rest) + Len(order) <= MaxMail,
               mailbox' = rest \o [i \in DOMAIN order |-> NewHit(order[i], n, FALSE)]
        PROVE  /\ mailbox' \in Seq(Hit) /\ Len(mailbox') <= MaxMail
               /\ \A i \in DOMAIN mailbox' : Aimed(mailbox'[i])
               /\ \A t \in Shots : t \notin Flying' => HitsIn(mailbox', t) = HitsIn(rest, t)
    <3>1. PICK f : f = [i \in DOMAIN order |-> NewHit(order[i], n, FALSE)]
      OBVIOUS
    <3>2. told \subseteq x.projectiles /\ told \subseteq Shots /\ IsFiniteSet(told)
      <4>1. told \subseteq x.projectiles
        BY DEF Told
      <4>2. x.projectiles \subseteq Shots
        BY <1>6, SectionFields DEF Fit
      <4> QED
        BY <4>1, <4>2, Bounds, FS_Subset
    <3>3. \A i \in DOMAIN order : order[i] \in told =>
             /\ f[i] \in Hit /\ f[i].projectile = order[i] /\ f[i].npc = n
             /\ f[i].outside = FALSE /\ f[i].section = 0
      <4>1. ASSUME NEW i \in DOMAIN order, order[i] \in told
            PROVE  /\ f[i] \in Hit /\ f[i].projectile = order[i] /\ f[i].npc = n
                   /\ f[i].outside = FALSE /\ f[i].section = 0
        <5>1. order[i] \in Shots
          BY <3>2, <4>1
        <5>2. f[i] = NewHit(order[i], n, FALSE)
          BY <3>1
        <5>3. PICK p, h : p = order[i] /\ h = NewHit(p, n, FALSE)
          OBVIOUS
        <5>4. p \in Shots /\ f[i] = h
          BY <5>1, <5>2, <5>3
        <5>5. h \in Hit /\ h.projectile = p /\ h.npc = n /\ h.outside = FALSE /\ h.section = 0
          BY <1>2, <5>3, <5>4, Bounds DEF NewHit, Hit
        <5> QED
          BY <5>3, <5>4, <5>5
      <4> QED
        BY <4>1
    <3>4. DOMAIN f = DOMAIN order /\ AFunction(f)
      <4> DEFINE g == [i \in DOMAIN order |-> NewHit(order[i], n, FALSE)]
      <4>1. DOMAIN g = DOMAIN order /\ g = [i \in DOMAIN g |-> g[i]]
        OBVIOUS
      <4> QED
        BY <3>1, <4>1 DEF AFunction
    <3>5. /\ \A i \in DOMAIN f : order[i] \in told
          /\ f \in Seq(Hit) /\ rest \o f \in Seq(Hit) /\ Len(rest \o f) = Len(rest) + Len(order)
          /\ \A i \in DOMAIN (rest \o f) : \/ i \in DOMAIN rest /\ (rest \o f)[i] = rest[i]
                                           \/ \E j \in DOMAIN f : (rest \o f)[i] = f[j]
      BY <3>2, <3>3, <3>4, Posted
    <3>6. ASSUME NEW i \in DOMAIN f PROVE Aimed(f[i])
      BY <1>2, <3>3, <3>4, <3>5, <3>6, MadeFacts DEF Aimed
    <3>7. mailbox' = rest \o f
      BY <2>2, <3>1
    <3>8. \A i \in DOMAIN (rest \o f) : Aimed((rest \o f)[i])
      BY <3>5, <3>6
    <3>9. ASSUME NEW t \in Shots, t \notin Flying' PROVE HitsIn(rest \o f, t) = HitsIn(rest, t)
      <4>1. made'[k].projectiles \subseteq Flying'
        BY <1>11 DEF Flying
      <4>2. t \notin told
        BY <1>10, <1>11, <3>2, <3>9, <4>1
      <4>3. \A i \in DOMAIN f : f[i].projectile # t
        BY <3>3, <3>4, <3>5, <4>2
      <4> QED
        BY <3>5, <4>3, ConcatHits
    <3> QED
      BY <2>2, <3>5, <3>7, <3>8, <3>9
  <2> QED
    BY <1>5, <2>1, <2>2
<1>15. TypeOK'
  BY <1>3, <1>11, <1>13, <1>14 DEF TypeOK
<1>16. (\A i \in DOMAIN mailbox : Aimed(mailbox[i]))'
  BY <1>12, <1>14 DEF Aimed
<1>17. DeadAreGone'
  <2> SUFFICES ASSUME repo # 0, NEW m \in made'[repo].npcs PROVE hp'[m] > 0
    BY <1>3 DEF DeadAreGone
  <2>1. repo \in Sections
    BY MadeFacts
  <2>2. m \in made[repo].npcs /\ m \in Npcs
    <3>1. made'[repo].npcs \subseteq made[repo].npcs
      BY <1>10, <1>11, <2>1
    <3> QED
      BY <2>1, <3>1, MadeFacts, SectionFields
  <2>3. CASE m # n
    BY <1>13, <2>2, <2>3 DEF ObjectsInv, DeadAreGone
  <2>4. CASE m = n
    <3>1. k = repo
      BY <1>1, <2>2, <2>4
    <3>2. ASSUME Dies(points) PROVE FALSE
      BY <1>7, <1>9, <1>11, <2>4, <3>1, <3>2
    <3> QED
      BY <1>13, <2>4, <3>2
  <2> QED
    BY <2>3, <2>4
<1>18. ObjectsInv'
  BY <1>3, <1>11, <1>12, <1>15, <1>16, <1>17 DEF ObjectsInv, Kept
<1> QED
  BY <1>14, <1>18

LEMMA RunHitStep ==
  ASSUME ObjectsInv, RunHit
  PROVE  ObjectsInv' /\ SpentNow
<1>1. PICK hit, rest : hit = Head(mailbox) /\ rest = Tail(mailbox)
  OBVIOUS
<1>2. /\ TypeOK /\ Fresh /\ mailbox \in Seq(Hit) /\ mailbox # <<>> /\ Len(mailbox) <= MaxMail
      /\ UNCHANGED <<now, repo>>
  BY DEF ObjectsInv, TypeOK, RunHit
<1>3. /\ hit \in Hit /\ hit = mailbox[1] /\ 1 \in DOMAIN mailbox
      /\ rest \in Seq(Hit) /\ Len(rest) = Len(mailbox) - 1 /\ Len(mailbox) \in Nat
      /\ DOMAIN rest = 1..Len(rest)
      /\ \A i \in DOMAIN rest : i + 1 \in DOMAIN mailbox /\ rest[i] = mailbox[i + 1]
  <2>1. /\ Len(mailbox) \in Nat \ {0} /\ DOMAIN mailbox = 1..Len(mailbox) /\ Head(mailbox) = mailbox[1]
        /\ Head(mailbox) \in Hit /\ rest \in Seq(Hit) /\ Len(rest) = Len(mailbox) - 1
        /\ \A i \in 1..Len(rest) : rest[i] = mailbox[i + 1]
    BY <1>1, <1>2, HeadTailProperties, LenProperties, EmptySeq
  <2>2. DOMAIN rest = 1..Len(rest)
    BY <2>1, LenProperties
  <2> QED
    BY <1>1, <2>1, <2>2
<1>4. Aimed(hit) /\ \A i \in DOMAIN rest : Aimed(rest[i])
  BY <1>3 DEF ObjectsInv
<1>5. Len(rest) <= MaxMail /\ Len(rest) \in Nat
  BY <1>2, <1>3, Bounds
<1>6. ASSUME NEW s
      PROVE  /\ Cardinality(HitsIn(rest, s)) <= Cardinality(HitsIn(mailbox, s))
             /\ hit.projectile = s => Cardinality(HitsIn(rest, s)) < Cardinality(HitsIn(mailbox, s))
             /\ Cardinality(HitsIn(rest, s)) \in Nat /\ Cardinality(HitsIn(mailbox, s)) \in Nat
  BY <1>1, <1>2, <1>3, TailHits, FewHits
<1>7. ASSUME NEW k \in Sections, ApplyHit(k, hit, rest),
             repo # 0 /\ hit.npc \in made[repo].npcs => k = repo
      PROVE  ObjectsInv' /\ SpentNow
  <2>1. ObjectsInv' /\ \A s \in Shots : s \notin Flying' => HitsIn(mailbox', s) = HitsIn(rest, s)
    BY <1>2, <1>3, <1>4, <1>5, <1>7, ApplyStep
  <2> QED
    BY <1>6, <2>1 DEF SpentNow
<1>8. CASE hit.section # 0 /\ ApplyHit(hit.section, hit, rest)
  <2>1. PICK k : k = hit.section
    OBVIOUS
  <2>2. k \in Sections
    BY <1>3, <1>4, <1>8, <2>1, MadeFacts DEF Aimed, Hit, Sections
  <2>3. repo # 0 /\ hit.npc \in made[repo].npcs => k = repo
    BY <1>4, <1>8, <2>1, MadeFacts DEF Aimed
  <2> QED
    BY <1>7, <1>8, <2>1, <2>2, <2>3
<1>9. CASE repo # 0 /\ ApplyHit(repo, hit, rest)
  BY <1>7, <1>9, MadeFacts
<1>10. CASE UNCHANGED <<made, objectVars>> /\ \/ mailbox' = rest
                                              \/ /\ repo # 0 /\ hit.outside
                                                 /\ mailbox' = Append(rest, [hit EXCEPT !.section = repo])
  <2>1. UNCHANGED <<made, issued, hp, born, actions>> /\ Sections' = Sections
    BY <1>10 DEF objectVars, Sections
  <2>2. \A h : Aimed(h) => Aimed(h)'
    BY <1>2, <2>1 DEF Aimed
  <2>3. /\ mailbox' \in Seq(Hit) /\ Len(mailbox') <= MaxMail
        /\ \A i \in DOMAIN mailbox' : Aimed(mailbox'[i])
        /\ \A s : Cardinality(HitsIn(mailbox', s)) <= Cardinality(HitsIn(mailbox, s))
    <3>1. CASE mailbox' = rest
      BY <1>3, <1>4, <1>5, <1>6, <3>1
    <3>2. CASE /\ repo # 0 /\ hit.outside /\ mailbox' = Append(rest, [hit EXCEPT !.section = repo])
      <4>1. PICK h : h = [hit EXCEPT !.section = repo]
        OBVIOUS
      <4>2. repo \in 0..MaxSections /\ repo <= Len(made) /\ Len(made) \in Nat
        BY MadeFacts, Bounds
      <4>3. h \in Hit /\ h.projectile = hit.projectile /\ h.npc = hit.npc
            /\ h.outside = hit.outside /\ h.section = repo
        BY <1>3, <4>1, <4>2 DEF Hit
      <4>4. Aimed(h)
        BY <1>4, <3>2, <4>2, <4>3 DEF Aimed
      <4>5. /\ mailbox' \in Seq(Hit) /\ Len(mailbox') = Len(rest) + 1
            /\ DOMAIN mailbox' = 1..(Len(rest) + 1) /\ mailbox'[Len(rest) + 1] = h
            /\ \A i \in 1..Len(rest) : mailbox'[i] = rest[i]
        BY <1>3, <1>5, <3>2, <4>1, <4>3, AppendProperties, LenProperties
      <4>6. \A i \in DOMAIN mailbox' : Aimed(mailbox'[i])
        BY <1>3, <1>4, <1>5, <4>4, <4>5
      <4>7. ASSUME NEW s PROVE Cardinality(HitsIn(mailbox', s)) <= Cardinality(HitsIn(mailbox, s))
        <5>1. mailbox' = Append(rest, h)
          BY <3>2, <4>1
        <5>2. Cardinality(HitsIn(mailbox', s)) \in Nat
          BY <4>5, FewHits
        <5>3. CASE hit.projectile # s
          <6>1. HitsIn(mailbox', s) = HitsIn(rest, s)
            BY <1>3, <4>3, <5>1, <5>3, AppendHits
          <6> QED
            BY <1>6, <6>1
        <5>4. CASE hit.projectile = s
          <6>1. Cardinality(HitsIn(mailbox', s)) <= Cardinality(HitsIn(rest, s)) + 1
            BY <1>3, <4>3, <5>1, AppendHits
          <6>2. Cardinality(HitsIn(rest, s)) < Cardinality(HitsIn(mailbox, s))
            BY <1>6, <5>4
          <6>3. Cardinality(HitsIn(rest, s)) \in Nat /\ Cardinality(HitsIn(mailbox, s)) \in Nat
            BY <1>6
          <6> QED
            BY <5>2, <6>1, <6>2, <6>3
        <5> QED
          BY <5>3, <5>4
      <4> QED
        BY <1>2, <1>3, <4>5, <4>6, <4>7, Bounds
    <3> QED
      BY <1>10, <3>1, <3>2
  <2>4. TypeOK'
    BY <1>2, <2>1, <2>3 DEF TypeOK
  <2>5. Fresh'
    BY <1>2, <2>1 DEF Fresh
  <2>6. (\A i \in DOMAIN mailbox : Aimed(mailbox[i]))'
    BY <2>2, <2>3 DEF Aimed
  <2>7. DeadAreGone'
    BY <1>2, <2>1 DEF ObjectsInv, DeadAreGone
  <2>8. SpentNow
    BY <2>3 DEF SpentNow
  <2> QED
    BY <1>2, <2>1, <2>4, <2>5, <2>6, <2>7, <2>8 DEF ObjectsInv
<1> QED
  BY <1>1, <1>8, <1>9, <1>10 DEF RunHit

LEMMA TickStep ==
  ASSUME ObjectsInv, OnTick
  PROVE  ObjectsInv' /\ SpentNow
<1>1. /\ TypeOK /\ Fresh /\ repo # 0 /\ repo \in Sections /\ Fit(made[repo]) /\ Exact(made[repo])
      /\ UNCHANGED <<now, repo, issued, hp, born, actions>>
  BY MadeFacts DEF ObjectsInv, OnTick, objectVars
<1>2. PICK x, S, y : x = made[repo] /\ S = Expired(x) /\ y = Despawn(Moved(x, S), S)
  OBVIOUS
<1>3. PICK touching :
         /\ touching \in SUBSET ((y.colliders \cap Shots) \X (y.colliders \cap Npcs))
         /\ Change(repo, Touching(y, touching))
         /\ \E order \in SetToSeqs(touching \cup y.contacts) :
               /\ Len(mailbox) + Len(order) <= MaxMail
               /\ mailbox' = mailbox \o [i \in DOMAIN order |->
                                            NewHit(order[i][1], order[i][2], TRUE)]
  BY <1>2 DEF OnTick, Moved, Touching
<1>4. PICK order :
         /\ order \in SetToSeqs(touching \cup y.contacts)
         /\ Len(mailbox) + Len(order) <= MaxMail
         /\ mailbox' = mailbox \o [i \in DOMAIN order |-> NewHit(order[i][1], order[i][2], TRUE)]
  BY <1>3
<1>5. PICK z, T : z = Touching(y, touching) /\ T = touching \cup y.contacts
  OBVIOUS
<1>6. S \subseteq x.projectiles
  BY <1>2 DEF Expired
<1>7. /\ Fit(z) /\ (Exact(x) => Exact(z))
      /\ z.objects \subseteq x.objects /\ z.npcs = x.npcs
      /\ T \subseteq z.projectiles \X z.npcs
  BY <1>1, <1>2, <1>3, <1>5, <1>6, TickFit
<1>8. /\ made' \in Seq(Section) /\ Len(made') = Len(made) /\ Sections' = Sections
      /\ made'[repo] = z /\ \A j \in Sections \ {repo} : made'[j] = made[j]
      /\ Kept'
  BY <1>1, <1>2, <1>3, <1>5, <1>7, ChangeKeeps
<1>9. Fresh' /\ \A h : Aimed(h) => Aimed(h)'
  BY <1>1, <1>2, <1>3, <1>5, <1>7, ShrinkKeeps
<1>10. z.projectiles \subseteq Shots /\ z.npcs \subseteq Npcs /\ z.npcs \subseteq issued
       /\ z.projectiles \subseteq Flying'
  BY <1>1, <1>2, <1>7, <1>8, SectionFields DEF Fit, Fresh, Flying
<1>11. IsFiniteSet(T)
  <2>1. IsFiniteSet(Shots \X Npcs) /\ T \subseteq Shots \X Npcs
    BY <1>7, <1>10, Bounds, FS_Product
  <2> QED
    BY <2>1, FS_Subset
<1>12. PICK f : f = [i \in DOMAIN order |-> NewHit(order[i][1], order[i][2], TRUE)]
  OBVIOUS
<1>13. \A i \in DOMAIN order : order[i] \in T =>
          /\ f[i] \in Hit /\ f[i].projectile \in z.projectiles /\ f[i].npc \in z.npcs
          /\ f[i].outside = TRUE /\ f[i].section = 0
  <2>1. ASSUME NEW i \in DOMAIN order, order[i] \in T
        PROVE  /\ f[i] \in Hit /\ f[i].projectile \in z.projectiles /\ f[i].npc \in z.npcs
               /\ f[i].outside = TRUE /\ f[i].section = 0
    <3>1. PICK p, n, h : p = order[i][1] /\ n = order[i][2] /\ h = NewHit(p, n, TRUE)
      OBVIOUS
    <3>2. f[i] = h
      BY <1>12, <3>1
    <3>3. p \in z.projectiles /\ n \in z.npcs /\ p \in Shots /\ n \in Npcs
      BY <1>7, <1>10, <2>1, <3>1
    <3>4. h \in Hit /\ h.projectile = p /\ h.npc = n /\ h.outside = TRUE /\ h.section = 0
      BY <3>1, <3>3, Bounds DEF NewHit, Hit
    <3> QED
      BY <3>2, <3>3, <3>4
  <2> QED
    BY <2>1
<1>14. DOMAIN f = DOMAIN order /\ AFunction(f)
  <2> DEFINE g == [i \in DOMAIN order |-> NewHit(order[i][1], order[i][2], TRUE)]
  <2>1. DOMAIN g = DOMAIN order /\ g = [i \in DOMAIN g |-> g[i]]
    OBVIOUS
  <2> QED
    BY <1>12, <2>1 DEF AFunction
<1>15. mailbox \in Seq(Hit) /\ order \in SetToSeqs(T) /\ mailbox' = mailbox \o f
  BY <1>1, <1>4, <1>5, <1>12 DEF TypeOK
<1>16. /\ \A i \in DOMAIN f : order[i] \in T
       /\ f \in Seq(Hit) /\ mailbox' \in Seq(Hit) /\ Len(mailbox') = Len(mailbox) + Len(order)
       /\ \A i \in DOMAIN mailbox' : \/ i \in DOMAIN mailbox /\ mailbox'[i] = mailbox[i]
                                     \/ \E j \in DOMAIN f : mailbox'[i] = f[j]
  <2>1. \A i \in DOMAIN order : order[i] \in T => f[i] \in Hit
    BY <1>13
  <2>2. DOMAIN f = DOMAIN order /\ AFunction(f)
    BY <1>14
  <2>3. PICK q : q = mailbox
    OBVIOUS
  <2>4. q \in Seq(Hit) /\ order \in SetToSeqs(T) /\ mailbox' = q \o f
    BY <1>15, <2>3
  <2>5. /\ \A i \in DOMAIN f : order[i] \in T
        /\ f \in Seq(Hit) /\ q \o f \in Seq(Hit) /\ Len(q \o f) = Len(q) + Len(order)
        /\ \A i \in DOMAIN (q \o f) : \/ i \in DOMAIN q /\ (q \o f)[i] = q[i]
                                      \/ \E j \in DOMAIN f : (q \o f)[i] = f[j]
    BY <1>11, <2>1, <2>2, <2>4, Posted
  <2> QED
    BY <2>3, <2>4, <2>5
<1>17. ASSUME NEW i \in DOMAIN f PROVE Aimed(f[i])
  <2>1. f[i].npc \in made[repo].npcs /\ f[i].npc \in issued /\ f[i].section = 0
    BY <1>2, <1>7, <1>10, <1>13, <1>14, <1>16, <1>17
  <2>2. ASSUME NEW j \in Sections, f[i].npc \in made[j].npcs PROVE j = repo
    <3>1. f[i].npc \in made[j].objects /\ f[i].npc \in made[repo].objects
      BY <1>1, <2>1, <2>2, MadeFacts DEF Fit
    <3> QED
      BY <1>1, <3>1 DEF Fresh
  <2> QED
    BY <2>1, <2>2, MadeFacts DEF Aimed
<1>18. (\A i \in DOMAIN mailbox : Aimed(mailbox[i]))'
  <2>1. \A i \in DOMAIN mailbox' : Aimed(mailbox'[i])
    BY <1>16, <1>17 DEF ObjectsInv
  <2> QED
    BY <1>9, <2>1 DEF Aimed
<1>19. TypeOK'
  BY <1>1, <1>4, <1>8, <1>16 DEF TypeOK
<1>20. DeadAreGone'
  BY <1>1, <1>2, <1>7, <1>8 DEF ObjectsInv, DeadAreGone
<1>21. SpentNow
  <2> SUFFICES ASSUME NEW t \in Shots, t \notin Flying'
               PROVE  Cardinality(HitsIn(mailbox', t)) <= Cardinality(HitsIn(mailbox, t))
    BY DEF SpentNow
  <2>1. \A i \in DOMAIN f : f[i].projectile # t
    BY <1>10, <1>13, <1>14, <1>16
  <2>2. HitsIn(mailbox', t) = HitsIn(mailbox, t)
    BY <1>15, <1>16, <2>1, ConcatHits
  <2>3. Cardinality(HitsIn(mailbox, t)) \in Nat
    BY <1>15, FewHits
  <2> QED
    BY <2>2, <2>3
<1>22. ObjectsInv'
  BY <1>1, <1>8, <1>9, <1>18, <1>19, <1>20 DEF ObjectsInv, Kept
<1> QED
  BY <1>21, <1>22

-----------------------------------------------------------------------------
LEMMA ObjectsInit == Init => ObjectsInv
<1> SUFFICES ASSUME Init PROVE ObjectsInv
  OBVIOUS
<1>1. /\ Len(made) = 0 /\ made \in Seq(Section) /\ DOMAIN actions = {} /\ DOMAIN mailbox = {}
      /\ actions \in Seq([id : Shots, expire : Nat]) /\ mailbox \in Seq(Hit) /\ Len(mailbox) = 0
  BY EmptySeq DEF Init
<1>2. Sections = {}
  BY <1>1 DEF Sections
<1>3. TypeOK
  BY <1>1, Bounds DEF Init, TypeOK
<1> QED
  BY <1>1, <1>2, <1>3 DEF Init, ObjectsInv, Fresh, DeadAreGone

LEMMA ObjectsNext == ObjectsInv /\ [Next]_vars => ObjectsInv' /\ SpentNow
<1> SUFFICES ASSUME ObjectsInv, [Next]_vars PROVE ObjectsInv' /\ SpentNow
  OBVIOUS
<1>0. TypeOK
  BY DEF ObjectsInv
<1>1. CASE Clock
  BY <1>0, <1>1, ClockStep, SameHits DEF Clock
<1>2. CASE CreateSection
  BY <1>0, <1>2, CreateStep, SameHits DEF CreateSection
<1>3. CASE DropSection
  BY <1>0, <1>3, DropStep, SameHits DEF DropSection
<1>4. ASSUME NEW k \in Sections, SpawnNpcs(k) PROVE ObjectsInv' /\ SpentNow
  BY <1>0, <1>4, SpawnNpcsStep, SameHits DEF SpawnNpcs
<1>5. ASSUME NEW k \in Sections, SpawnProjectile(k) PROVE ObjectsInv' /\ SpentNow
  BY <1>0, <1>5, SpawnProjectileStep, SameHits DEF SpawnProjectile
<1>6. ASSUME NEW k \in Sections, HitReq(k) PROVE ObjectsInv' /\ SpentNow
  BY <1>6, HitReqStep
<1>7. CASE ClientAction
  BY <1>0, <1>7, ClientActionStep, SameHits DEF ClientAction
<1>8. CASE OnSectionTick
  BY <1>0, <1>8, SectionTickStep, SameHits DEF OnSectionTick
<1>9. CASE RunHit
  BY <1>9, RunHitStep
<1>10. CASE OnTick
  BY <1>10, TickStep
<1>11. CASE UNCHANGED vars
  <2>1. UNCHANGED <<now, made, repo, issued, hp, born, actions, mailbox>> /\ Sections' = Sections
    BY <1>11 DEF vars, objectVars, Sections
  <2>2. TypeOK'
    BY <1>0, <2>1 DEF TypeOK
  <2>3. Fresh' /\ DeadAreGone'
    BY <2>1 DEF ObjectsInv, Fresh, DeadAreGone
  <2>4. (\A i \in DOMAIN mailbox : Aimed(mailbox[i]))'
    BY <2>1 DEF ObjectsInv, Aimed
  <2>5. SpentNow
    BY <1>0, <2>1, SameHits
  <2> QED
    BY <2>1, <2>2, <2>3, <2>4, <2>5 DEF ObjectsInv
<1> QED
  BY <1>1, <1>2, <1>3, <1>4, <1>5, <1>6, <1>7, <1>8, <1>9, <1>10, <1>11 DEF Next

LEMMA ObjectsAlways == Spec => []ObjectsInv
<1>1. ObjectsInv /\ [Next]_vars => ObjectsInv'
  BY ObjectsNext
<1> QED
  BY <1>1, ObjectsInit, PTL DEF Spec

-----------------------------------------------------------------------------
(* Type correctness of the sections, the clocks, the hit points and the    *)
(* queues of SpawnSystem, CollisionSystem and Section.                     *)
THEOREM ObjectsTypeTheorem == Spec => []TypeOK
<1>1. ObjectsInv => TypeOK
  BY DEF ObjectsInv
<1> QED
  BY <1>1, ObjectsAlways, PTL

(* The map of objects, the tick lists, the spawn system and the collision  *)
(* system of a section know the same objects after any sequence of spawns, *)
(* hits, ticks and drops (AddGameObject, RemoveGameObject, OnDestroyed).   *)
THEOREM RegisteredTheorem == Spec => []Registered
<1>1. ObjectsInv => Registered
  BY DEF ObjectsInv, Registered, Fit
<1> QED
  BY <1>1, ObjectsAlways, PTL

(* The spawn count of the present section is the number of its Npcs, that  *)
(* of any section is no smaller, and it passes maxSpawnCount by less than  *)
(* a request.                                                              *)
THEOREM CensusTheorem == Spec => []Census
<1>1. ObjectsInv => Census
  BY DEF ObjectsInv, Census, Fit, Exact
<1> QED
  BY <1>1, ObjectsAlways, PTL

(* No Npc of the present section is without points: HitObject despawns it  *)
(* in the section where it is, though the section of a hit was found       *)
(* before others were created and dropped.                                 *)
THEOREM DeadAreGoneTheorem == Spec => []DeadAreGone
<1>1. ObjectsInv => DeadAreGone
  BY DEF ObjectsInv
<1> QED
  BY <1>1, ObjectsAlways, PTL

(* A projectile in no section gets no new hit in the channel, by any step. *)
THEOREM SpentTheorem == Spec => SpentStaysSpent
<1>1. SpentNow => \A s \in Shots \ Flying' : Cardinality(HitsOf(s)') <= Cardinality(HitsOf(s))
  BY DEF SpentNow, HitsOf, HitsIn
<1>2. ObjectsInv /\ [Next]_vars =>
         [\A s \in Shots \ Flying' : Cardinality(HitsOf(s)') <= Cardinality(HitsOf(s))]_vars
  BY <1>1, ObjectsNext
<1> QED
  BY <1>2, ObjectsAlways, PTL DEF Spec, SpentStaysSpent
=============================================================================
