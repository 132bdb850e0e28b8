---------------------------- MODULE SectionObjects ----------------------------
(***************************************************************************)
(* What lives in the sections of one map: Npcs, which the owner's client   *)
(* asks for, and the projectiles that clients shoot, with the tick that    *)
(* ages and collides them and the hits that take effect later.             *)
(*                                                                         *)
(* Requests are handlers on the shared channel, so each is one step (see   *)
(* WorldSection).  A hit is not: HitObject asks the repository for the     *)
(* section (FindSection, an Async) and does its work in what follows.      *)
(*                                                                         *)
(* Section::OnTick runs in a timer, on a worker that need not hold the     *)
(* channel, and changes the same vectors and maps as the handlers.  Where  *)
(* the two overlap they race and nothing is defined; this module is about  *)
(* the runs in which they do not, and a tick is one step.                  *)
(*                                                                         *)
(* A section may be asked for objects after the repository has dropped it, *)
(* by the sessions that still point to it.                                 *)
(***************************************************************************)
EXTENDS Integers, Sequences, FiniteSets, SequencesExt

CONSTANTS Npcs, Shots,     \* object ids that are issued to each
          Hp, Damage,      \* 100 and 20 in the code
          Lifetime,        \* of a projectile (30 s)
          ActionLife,      \* of a verified attack (50 s)
          SpawnDuration,   \* the spawner's spawnDurationSeconds
          MaxSpawnCount,   \* and its maxSpawnCount
          MaxBatch,        \* bound: Npcs in a request
          MaxMail,         \* bound: hits under way
          MaxSections,     \* bound: sections created
          MaxTime          \* bound: where the clock stops

ASSUME ObjectsAssumption ==
    /\ Npcs \cap Shots = {} /\ IsFiniteSet(Npcs \cup Shots)
    /\ {Hp, Damage, Lifetime, ActionLife, SpawnDuration, MaxSpawnCount} \subseteq Nat \ {0}
    /\ {MaxBatch, MaxMail, MaxSections, MaxTime} \subseteq Nat

Section == [objects : SUBSET (Npcs \cup Shots),      \* game_objects_
            all : SUBSET (Npcs \cup Shots),          \* all_tick_objects_
            await : SUBSET (Npcs \cup Shots),        \* await_first_tick_objects_
            colliders : SUBSET (Npcs \cup Shots),    \* queryable_colliders_
            contacts : SUBSET (Shots \X Npcs),       \* collision_states_ of their components
            npcs : SUBSET Npcs,
            projectiles : SUBSET Shots,
            count : Nat,                             \* spawn_counts_ of the map's spawner
            spawned : Int]                           \* last_spawn_tick_

VARIABLES
    now,       \* Tick::Current()
    made,      \* the Sections created so far, in order
    repo,      \* the one in the repository's sections_, 0 if there is none
    issued,    \* ids of UniqueId that were given out
    hp,        \* hp_ of the Npcs
    born,      \* created_tick_ of the projectiles
    actions,   \* action_queue_ of the session that shoots
    mailbox    \* the hits on the shared channel

objectVars == <<issued, hp, born, actions>>
vars == <<now, made, repo, objectVars, mailbox>>

(* A hit waits for the section at first; one that HitObject posted outside *)
(* of the channel may then be queued again, for the section found.         *)
Hit == [projectile : Shots, npc : Npcs, outside : BOOLEAN, section : 0..MaxSections]

Init ==
    /\ now = 0 /\ made = <<>> /\ repo = 0 /\ issued = {}
    /\ hp = [n \in Npcs |-> 0] /\ born = [s \in Shots |-> 0]
    /\ actions = <<>> /\ mailbox = <<>>

Sections == 1..Len(made)

Clock ==
    /\ now < MaxTime
    /\ now' = now + 1
    /\ UNCHANGED <<made, repo, objectVars, mailbox>>

-----------------------------------------------------------------------------
(* EnterSection makes the section that is not there; LeaveSection drops it *)
(* and has it cleared, all but its spawn counts.                           *)

Empty == [objects |-> {}, all |-> {}, await |-> {}, colliders |-> {}, contacts |-> {},
          npcs |-> {}, projectiles |-> {}, count |-> 0, spawned |-> -SpawnDuration]

CreateSection ==
    /\ repo = 0 /\ Len(made) < MaxSections
    /\ made' = Append(made, Empty) /\ repo' = Len(made')
    /\ UNCHANGED <<now, objectVars, mailbox>>

OnDestroyed(x) == [Empty EXCEPT !.count = x.count, !.spawned = x.spawned]

DropSection ==
    /\ repo # 0
    /\ made' = [made EXCEPT ![repo] = OnDestroyed(@)] /\ repo' = 0
    /\ UNCHANGED <<now, objectVars, mailbox>>

-----------------------------------------------------------------------------
(* AddGameObject and SpawnMany, without what is particular to the kind. *)
Add(x, S) == [x EXCEPT !.objects = @ \cup S, !.await = @ \cup S, !.colliders = @ \cup S]

(* Mutant: an object that never ticked stays in the list of those. *)
OutOfAll(x, S) == [x EXCEPT !.all = @ \ S]

OutOfTick(x, S) == [x EXCEPT !.all = @ \ S, !.await = @ \ S]

(* Mutant: an Npc that is despawned still counts. *)
OutUncounted(x, S) == [x EXCEPT !.npcs = @ \ S, !.projectiles = @ \ S]

OutOfSpawn(x, S) ==
    [x EXCEPT !.npcs = @ \ S, !.projectiles = @ \ S, !.count = @ - Cardinality(x.npcs \cap S)]

(* Mutant: the collision system keeps the object. *)
OutOfContacts(x, S) == [x EXCEPT !.contacts = {c \in @ : c[1] \notin S /\ c[2] \notin S}]

(* What a component remembers of an object that is gone is never asked for *)
(* again, as ids are issued once; contacts forgets it at once.             *)
OutOfCollision(x, S) ==
    [x EXCEPT !.colliders = @ \ S, !.contacts = {c \in @ : c[1] \notin S /\ c[2] \notin S}]

(* DespawnObject of the objects S: nothing for those that have gone.       *)
Despawn(x, S) ==
    LET T == S \cap x.objects
    IN  OutOfCollision(OutOfSpawn(OutOfTick([x EXCEPT !.objects = @ \ T], T), T), T)

Change(k, x) == made' = [made EXCEPT ![k] = x]

(* OnRecvSpawnNpcOnSectionReq, from the owner of section k: the count is   *)
(* looked at before the request's Npcs are added to it.                    *)
SpawnNpcs(k) ==
    /\ now - made[k].spawned >= SpawnDuration
    /\ made[k].count < MaxSpawnCount
    /\ \E batch \in SUBSET (Npcs \ issued) :
          /\ Cardinality(batch) <= MaxBatch
          /\ issued' = issued \cup batch
          /\ hp' = [n \in Npcs |-> IF n \in batch THEN Hp ELSE hp[n]]
          /\ Change(k, [Add(made[k], batch) EXCEPT
                           !.npcs = @ \cup batch, !.count = @ + Cardinality(batch),
                           !.spawned = now])
    /\ UNCHANGED <<now, repo, born, actions, mailbox>>

(* OnRecvClientActionReq: an attack outside its cooldown. *)
ClientAction ==
    /\ made # <<>>
    /\ \E s \in Shots \ issued :
          /\ issued' = issued \cup {s}
          /\ actions' = Append(actions, [id |-> s, expire |-> now + ActionLife])
    /\ UNCHANGED <<now, made, repo, hp, born, mailbox>>

(* What a tick posts to the sessions of its section: the expired actions   *)
(* are erased, which are the first ones as all live equally long.          *)
OnSectionTick ==
    /\ \E k \in DOMAIN actions :
          /\ \A i \in DOMAIN actions : actions[i].expire <= now <=> i <= k
          /\ actions' = SubSeq(actions, k + 1, Len(actions))
    /\ UNCHANGED <<now, made, repo, issued, hp, born, mailbox>>

(* OnRecvSpawnProjectileOnSectionReq: ConsumeAction's id is the object's.  *)
SpawnProjectile(k) ==
    /\ actions # <<>>
    /\ LET s == Head(actions).id IN
          /\ born' = [born EXCEPT ![s] = now]
          /\ Change(k, [Add(made[k], {s}) EXCEPT !.projectiles = @ \cup {s}])
    /\ actions' = Tail(actions)
    /\ UNCHANGED <<now, repo, issued, hp, mailbox>>

-----------------------------------------------------------------------------
NewHit(s, n, outside) == [projectile |-> s, npc |-> n, outside |-> outside, section |-> 0]

(* OnRecvHitObjectByProjectileReq, when it finds both in its section. *)
HitReq(k) ==
    /\ Len(mailbox) < MaxMail
    /\ \E s \in made[k].projectiles, n \in made[k].npcs :
          mailbox' = Append(mailbox, NewHit(s, n, FALSE))
    /\ UNCHANGED <<now, made, repo, objectVars>>

(* The projectiles that OnGameObjectRemoved tells of an Npc's leave, each  *)
(* of which takes that for a hit.  It stops at the Npc itself: those       *)
(* behind it in the unordered map hear nothing.                            *)
Told(x, n) == SUBSET {s \in x.projectiles : <<s, n>> \in x.contacts /\ n \in x.objects}

(* Mutant: the points left are written as they are. *)
AnyPoints(points) == points

Points(points) == IF points > 0 THEN points ELSE 0

(* Mutant: an Npc dies when its points are below zero. *)
DiesBelowZero(points) == points < 0

Dies(points) == points <= 0

(* What HitObject posts: the projectile goes, the Npc loses points or      *)
(* dies, in whatever section of the map the repository had.                *)
ApplyHit(k, hit, rest) ==
    LET s == hit.projectile
        n == hit.npc
        points == hp[n] - Damage
        x == Despawn(made[k], {s})
    IN  /\ hp' = [hp EXCEPT ![n] = Points(points)]
        /\ \/ /\ ~Dies(points)
              /\ Change(k, x) /\ mailbox' = rest
           \/ /\ Dies(points)
              /\ Change(k, Despawn(x, {n}))
              /\ \E told \in Told(x, n) : \E order \in SetToSeqs(told) :
                    /\ Len(rest) + Len(order) <= MaxMail
                    /\ mailbox' = rest \o [i \in DOMAIN order |-> NewHit(order[i], n, FALSE)]
        /\ UNCHANGED <<issued, born, actions>>

RunHit ==
    /\ mailbox # <<>>
    /\ LET hit == Head(mailbox)
           rest == Tail(mailbox)
       IN  \/ /\ hit.section # 0
              /\ ApplyHit(hit.section, hit, rest)
           \/ /\ hit.section = 0 /\ repo # 0
              /\ ApplyHit(repo, hit, rest)
           \/ /\ hit.section = 0 /\ repo # 0 /\ hit.outside
              /\ mailbox' = Append(rest, [hit EXCEPT !.section = repo])
              /\ UNCHANGED <<made, objectVars>>
           \/ /\ hit.section = 0 /\ repo = 0    \* ActorNullException
              /\ mailbox' = rest
              /\ UNCHANGED <<made, objectVars>>
    /\ UNCHANGED <<now, repo>>

-----------------------------------------------------------------------------
(* SectionRepositoryImpl's timer, and the OnTick it calls. *)

Expired(x) == {s \in x.projectiles \cap (x.all \cup x.await) : now - born[s] >= Lifetime}

(* The expired go; the rest moves on, and is where the clients and the     *)
(* simulation brought it: any projectile may touch any Npc.  A hit is      *)
(* posted for each contact, whether it begins, lasts or ends.              *)
OnTick ==
    /\ repo # 0
    /\ LET x == made[repo]
           y == Despawn([x EXCEPT !.all = (@ \cup x.await) \ Expired(x), !.await = {}], Expired(x))
       IN  \E touching \in SUBSET ((y.colliders \cap Shots) \X (y.colliders \cap Npcs)) :
              /\ Change(repo, [y EXCEPT !.contacts = touching])
              /\ \E order \in SetToSeqs(touching \cup y.contacts) :
                    /\ Len(mailbox) + Len(order) <= MaxMail
                    /\ mailbox' = mailbox \o [i \in DOMAIN order |->
                                                 NewHit(order[i][1], order[i][2], TRUE)]
    /\ UNCHANGED <<now, repo, objectVars>>

Next ==
    \/ Clock \/ CreateSection \/ DropSection
    \/ \E k \in Sections : SpawnNpcs(k) \/ SpawnProjectile(k) \/ HitReq(k)
    \/ ClientAction \/ OnSectionTick \/ RunHit \/ OnTick

Spec == Init /\ [][Next]_vars

-----------------------------------------------------------------------------
TypeOK ==
    /\ now \in 0..MaxTime /\ made \in Seq(Section) /\ Len(made) <= MaxSections
    /\ repo \in 0..Len(made)
    /\ issued \subseteq Npcs \cup Shots
    /\ hp \in [Npcs -> 0..Hp] /\ born \in [Shots -> 0..now]
    /\ actions \in Seq([id : Shots, expire : Nat])
    /\ mailbox \in Seq(Hit) /\ Len(mailbox) <= MaxMail

(* The structures that know a section's objects know the same ones: the    *)
(* map of objects, the two tick lists (one or the other), the maps of the  *)
(* spawn system and of the collision system, and the components' states.   *)
Registered ==
    \A k \in Sections : LET x == made[k] IN
        /\ x.objects = x.npcs \cup x.projectiles
        /\ x.objects = x.all \cup x.await /\ x.all \cap x.await = {}
        /\ x.objects = x.colliders
        /\ x.contacts \subseteq x.projectiles \X x.npcs

(* The spawn count of a section in the repository is the number of its     *)
(* Npcs; a request may exceed maxSpawnCount, by its own size less one.     *)
(* A section that was dropped counts at least the Npcs made since.         *)
Census ==
    \A k \in Sections :
        /\ made[k].count >= Cardinality(made[k].npcs)
        /\ k = repo => made[k].count = Cardinality(made[k].npcs)
        /\ made[k].count < MaxSpawnCount + MaxBatch

(* No Npc of the present section is without points: whoever takes the last *)
(* ones despawns it, though hits of several projectiles, and of one that   *)
(* touched twice, are under way together and may be served by the section  *)
(* that came before.                                                       *)
DeadAreGone == repo # 0 => \A n \in made[repo].npcs : hp[n] > 0

(* A projectile that is in no section hits nothing but what it hit before  *)
(* it went: no new hit of it comes up, from a request, from a tick, or     *)
(* from the leave of the Npc it killed.                                    *)
HitsOf(s) == {i \in DOMAIN mailbox : mailbox[i].projectile = s}
Flying == UNION {made[k].projectiles : k \in Sections}

SpentStaysSpent ==
    [][\A s \in Shots \ Flying' : Cardinality(HitsOf(s)') <= Cardinality(HitsOf(s))]_vars
===============================================================================
