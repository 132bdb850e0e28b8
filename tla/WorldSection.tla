---------------------------- MODULE WorldSection ----------------------------
(***************************************************************************)
(* Players in the sections (maps) of the world server: WorldSession,       *)
(* SectionRepository and Section, with the Pcs of the SpawnSystem.         *)
(*                                                                         *)
(* The actors share one channel (see ActorScheduler), so inside a handler  *)
(* every Post is a call and a handler is one step; what crosses the queue  *)
(* is the Async of EnterSection, and the Post of a login answer from the   *)
(* gRPC thread.  A request may be handled at any moment its session is     *)
(* alive, so requests are not queued here.                                 *)
(*                                                                         *)
(* A Section is an instance: the repository keeps at most one per map, and *)
(* an instance it has dropped lives on in the sessions that point to it.   *)
(***************************************************************************)
EXTENDS Integers, Sequences, FiniteSets

CONSTANTS Sessions,     \* connections of clients, each accepted once
          Maps,
          Characters,
          Plays,        \* Plays[s]: the characters that s may name in a hello
          SlotCount,    \* slots of a section (1024 in the code)
          MaxRequests,  \* bound: map requests of all sessions
          MaxSections,  \* bound: sections created
          None

ASSUME SectionAssumption ==
    /\ Plays \in [Sessions -> SUBSET Characters]
    /\ None \notin Sessions \cup Characters
    /\ SlotCount \in Nat \ {0} /\ MaxRequests \in Nat /\ MaxSections \in Nat

Section == [map : Maps,
            slots : [1..SlotCount -> Sessions \cup {None}],  \* world_sessions_arr_
            count : 0..SlotCount,                            \* _session_count
            owner : Sessions \cup {None},                    \* owner_session_
            objects : SUBSET Sessions,                       \* game_objects_: the Pcs
            pcs : [Characters \cup {None} -> Sessions \cup {None}]]  \* by character

VARIABLES
    mailbox,     \* the shared channel: [s, map] for each enter
    created,     \* the Sections made so far, in order
    repo,        \* repo[m]: the instance in sections_, 0 if there is none
    alive,       \* sessions whose OnDisconnected has not run
    character,   \* character_id_, None before the login
    section,     \* section_: an instance, 0 for nullptr
    pcCharacter, \* character_id_ of the session's Pc
    ticking,     \* PlayerTick::world_sessions_
    view,        \* view[s]: the characters s has been told are in its section
    requests,    \* map requests made so far
    early,       \* history: sessions that entered before their login
    again,       \* history: sessions that entered while in a section
    late,        \* history: sessions served after their OnDisconnected
    crowded,     \* history: sessions that found no free slot
    left         \* history: sections that told of a leave

sessionVars == <<alive, character, section, pcCharacter, ticking, view, requests>>
historyVars == <<early, again, late, crowded, left>>
vars == <<mailbox, created, repo, sessionVars, historyVars>>

Init ==
    /\ mailbox = <<>> /\ created = <<>>
    /\ repo = [m \in Maps |-> 0]
    /\ alive = Sessions /\ ticking = {}
    /\ character = [s \in Sessions |-> None]
    /\ section = [s \in Sessions |-> 0]
    /\ pcCharacter = [s \in Sessions |-> None]
    /\ view = [s \in Sessions |-> {}]
    /\ requests = 0
    /\ early = {} /\ again = {} /\ late = {} /\ crowded = {} /\ left = {}

Lowest(I) == CHOOSE i \in I : \A j \in I : i <= j

-----------------------------------------------------------------------------
(* Section, a value at a time. *)

NewSection(m) ==
    [map |-> m, slots |-> [i \in 1..SlotCount |-> None], count |-> 0, owner |-> None,
     objects |-> {}, pcs |-> [c \in Characters \cup {None} |-> None]]

SlotsOf(x, s) == {i \in 1..SlotCount : x.slots[i] = s}
Members(x) == {x.slots[i] : i \in 1..SlotCount} \ {None}
Present(x) == {c \in Characters : x.pcs[c] # None}

(* Mutant: the loop starts at the second slot. *)
AddressedButFirst(x, source) == {x.slots[i] : i \in 2..x.count} \ {None, source}

(* Multicast goes over the first _session_count slots. *)
Addressed(x, source) == {x.slots[i] : i \in 1..x.count} \ {None, source}

(* SpawnObject, AddGameObject, SpawnPcOnSection *)
SpawnPc(x, s, c) ==
    IF s \in x.objects THEN x
    ELSE [x EXCEPT !.objects = @ \cup {s}, !.pcs[c] = IF @ = None THEN s ELSE @]

Spawns(x, s, c) == s \notin x.objects /\ x.pcs[c] = None

(* DespawnObject, RemoveGameObject, DespawnPcOnSection *)
DespawnPc(x, s, c) ==
    IF s \notin x.objects THEN x
    ELSE [x EXCEPT !.objects = @ \ {s}, !.pcs[c] = None]

Despawns(x, s, c) == s \in x.objects /\ x.pcs[c] # None

Seat(x, s) ==
    [x EXCEPT !.slots[Lowest(SlotsOf(x, None))] = s, !.count = @ + 1,
              !.owner = IF @ = None THEN s ELSE @]

(* Mutant: a session that finds no slot is counted all the same. *)
CountsAnyEnter(x, s, c) ==
    IF SlotsOf(x, None) = {} THEN [x EXCEPT !.count = @ + 1] ELSE SpawnPc(Seat(x, s), s, c)

EnterSession(x, s, c) ==
    IF SlotsOf(x, None) = {} THEN x ELSE SpawnPc(Seat(x, s), s, c)

(* Mutant: the slot keeps the session that left. *)
KeepsSlot(x, s) ==
    IF SlotsOf(x, s) = {} THEN x
    ELSE [x EXCEPT !.count = @ - 1, !.owner = IF @ = s THEN None ELSE @]

(* The slot is free and the count down before the Pc is despawned. *)
Unseat(x, s) ==
    IF SlotsOf(x, s) = {} THEN x
    ELSE [x EXCEPT !.slots[Lowest(SlotsOf(x, s))] = None, !.count = @ - 1,
                   !.owner = IF @ = s THEN None ELSE @]

(* Mutant: the ownership is not handed on. *)
OwnerGone(x, s) == x

(* The first other session becomes the owner when there is none. *)
PassOwnership(x, s) ==
    LET others == {i \in 1..SlotCount : x.slots[i] \notin {None, s}}
    IN  IF x.owner # None \/ others = {} THEN x
        ELSE [x EXCEPT !.owner = x.slots[Lowest(others)]]

LeaveSession(x, s, c) ==
    PassOwnership(IF SlotsOf(x, s) = {} THEN x ELSE DespawnPc(Unseat(x, s), s, c), s)

Destroyed(x) == [x EXCEPT !.objects = {}, !.pcs = [c \in DOMAIN @ |-> None]]

-----------------------------------------------------------------------------
(* The lobby's answer to OnRecvHelloWorldServer, which a session may have  *)
(* called any number of times while it was alive, also for another         *)
(* character.  Its result is not looked at; a call that fails only closes  *)
(* the connection.  The gRPC thread Posts the answer at a moment of the    *)
(* lobby's choosing, so the way through the channel adds nothing.          *)
LoginAnswered(s) ==
    /\ \E c \in Plays[s] : character' = [character EXCEPT ![s] = c]
    /\ ticking' = ticking \cup {s}
    /\ late' = IF s \in alive THEN late ELSE late \cup {s}
    /\ UNCHANGED <<mailbox, created, repo, alive, section, pcCharacter, view, requests,
                   early, again, crowded, left>>

-----------------------------------------------------------------------------
(* OnRecvClientEnterMapReq: a session without a section asks for one. *)

EnterMapReq(s, m) ==
    /\ s \in alive /\ section[s] = 0 /\ requests < MaxRequests
    /\ requests' = requests + 1
    /\ mailbox' = Append(mailbox, [s |-> s, map |-> m])
    /\ UNCHANGED <<created, repo, alive, character, section, pcCharacter, ticking,
                   view, historyVars>>

(* SectionRepository::EnterSection: find or make the section, then         *)
(* OnSectionEntered, EnterSession and the answer with the section's Pcs.   *)
Entering(s, n, x) ==
    LET y == EnterSession(x, s, character[s])
        told == IF SlotsOf(x, None) # {} /\ Spawns(Seat(x, s), s, character[s])
                THEN Addressed(Seat(x, s), s) ELSE {}
    IN  /\ created' = [k \in DOMAIN created \cup {n} |-> IF k = n THEN y ELSE created[k]]
        /\ view' = [t \in Sessions |->
                       IF t = s THEN Present(y)
                       ELSE IF t \in told THEN view[t] \cup ({character[s]} \ {None})
                       ELSE view[t]]
        /\ section' = [section EXCEPT ![s] = n]
        /\ pcCharacter' = [pcCharacter EXCEPT ![s] = character[s]]
        /\ early' = IF character[s] = None THEN early \cup {s} ELSE early
        /\ again' = IF section[s] # 0 THEN again \cup {s} ELSE again
        /\ late' = IF s \notin alive THEN late \cup {s} ELSE late
        /\ crowded' = IF SlotsOf(x, None) = {} THEN crowded \cup {s} ELSE crowded

RunEnter ==
    /\ mailbox # <<>>
    /\ mailbox' = Tail(mailbox)
    /\ LET s == Head(mailbox).s
           m == Head(mailbox).map
       IN  \/ /\ repo[m] # 0
              /\ Entering(s, repo[m], created[repo[m]])
              /\ UNCHANGED repo
           \/ /\ repo[m] = 0 /\ Len(created) < MaxSections
              /\ Entering(s, Len(created) + 1, NewSection(m))
              /\ repo' = [repo EXCEPT ![m] = Len(created) + 1]
    /\ UNCHANGED <<alive, character, ticking, requests, left>>

-----------------------------------------------------------------------------
(* OnDisconnected, and the LeaveSection it calls with the map of its       *)
(* section: the instance there may be another one, or none.                *)

Leaving(s, n) ==
    LET x == created[n]
        y == LeaveSession(x, s, pcCharacter[s])
        mine == section[s] = n
        first == IF SlotsOf(x, s) # {} /\ Despawns(x, s, pcCharacter[s])
                 THEN {pcCharacter[s]} ELSE {}
        gone == (first \cup IF mine THEN {character[s]} ELSE {}) \ {None}
    IN  /\ view' = [t \in Sessions |->
                       IF t \in Addressed(y, s) THEN view[t] \ gone ELSE view[t]]
        /\ section' = IF mine THEN [section EXCEPT ![s] = 0] ELSE section
        /\ pcCharacter' = IF mine THEN [pcCharacter EXCEPT ![s] = None] ELSE pcCharacter
        /\ left' = IF SlotsOf(x, s) # {} \/ mine THEN left \cup {n} ELSE left
        /\ \/ /\ y.count <= 1
              /\ repo' = [repo EXCEPT ![x.map] = 0]
              /\ created' = [created EXCEPT ![n] = Destroyed(y)]
           \/ /\ y.count > 1
              /\ created' = [created EXCEPT ![n] = y]
              /\ UNCHANGED repo

(* Mutant: only a session that has logged in is taken out. *)
FoundIfLoggedIn(s) ==
    IF section[s] = 0 \/ character[s] = None THEN 0 ELSE repo[created[section[s]].map]

Found(s) == IF section[s] = 0 THEN 0 ELSE repo[created[section[s]].map]

OnDisconnected(s) ==
    /\ s \in alive
    /\ alive' = alive \ {s}
    /\ ticking' = ticking \ {s}
    /\ \/ /\ Found(s) # 0
          /\ Leaving(s, Found(s))
       \/ /\ Found(s) = 0
          /\ UNCHANGED <<created, repo, section, pcCharacter, view, left>>
    /\ UNCHANGED <<mailbox, character, requests, early, again, late, crowded>>

Next ==
    \/ \E s \in Sessions : LoginAnswered(s) \/ OnDisconnected(s)
    \/ \E s \in Sessions, m \in Maps : EnterMapReq(s, m)
    \/ RunEnter

Spec == Init /\ [][Next]_vars

-----------------------------------------------------------------------------
TypeOK ==
    /\ mailbox \in Seq([s : Sessions, map : Maps])
    /\ created \in Seq(Section)
    /\ repo \in [Maps -> 0..Len(created)]
    /\ \A m \in Maps : repo[m] # 0 => created[repo[m]].map = m
    /\ section \in [Sessions -> 0..Len(created)]
    /\ character \in [Sessions -> Characters \cup {None}]
    /\ pcCharacter \in [Sessions -> Characters \cup {None}]
    /\ view \in [Sessions -> SUBSET Characters]
    /\ requests \in 0..MaxRequests
    /\ alive \cup ticking \subseteq Sessions

Instances == 1..Len(created)
Live(n) == \E m \in Maps : repo[m] = n

(* A section's count is the number of its taken slots, its owner sits in   *)
(* one of them, and as long as no session sits there twice a section with  *)
(* players has an owner: LeaveSession hands the ownership on.  A section   *)
(* that the repository has dropped is not always empty, as the comment at  *)
(* SectionRepository.cpp:115 has it, but no two players are stranded in it.*)
Bookkeeping ==
    \A n \in Instances : LET x == created[n] IN
        /\ x.count = SlotCount - Cardinality(SlotsOf(x, None))
        /\ x.owner \in Members(x) \cup {None}
        /\ x.owner = None => Members(x) \subseteq again
        /\ ~Live(n) => Cardinality(Members(x)) <= 1

(* The section a session points to is the one it has a slot in.  The two   *)
(* part only when its second request ran before the answer to the first    *)
(* (OnRecvClientEnterMapReq looks at section_, which is still null), or    *)
(* when the section was full, which EnterSession tells nobody.             *)
MembershipAgrees ==
    \A s \in Sessions : \A n \in Instances :
        /\ s \in Members(created[n]) => section[s] = n \/ s \in again
        /\ section[s] = n => s \in Members(created[n]) \/ s \in again \cup crowded

(* A session that is gone leaves nothing behind in a live section, nor in  *)
(* PlayerTick, unless a message ran for it after its OnDisconnected or it  *)
(* had been in two places.                                                 *)
GhostsHaveACause ==
    \A s \in Sessions \ alive :
        /\ s \in ticking => s \in late
        /\ \A n \in Instances :
              Live(n) /\ s \in Members(created[n]) => s \in late \cup again

(* Until a section tells of a player that leaves it, each player in it has *)
(* been told of exactly the characters that are there, by the section's    *)
(* list when it entered (Section::WriteTo) and by an                       *)
(* OtherClientEnterNotify for each that came later.                        *)
Seen(n) == {pcCharacter[t] : t \in Members(created[n])} \ {None}

ViewsAgree ==
    again = {} => \A n \in Instances \ left : \A s \in Members(created[n]) :
        view[s] = Seen(n)

(* What the comment on DespawnPcOnSection's Multicast says (SpawnSystem    *)
(* .cpp:219): the other clients are notified about the Pc leaving.         *)
LeavesAreSeen ==
    again \cup early = {} =>
        \A n \in Instances : \A s \in Members(created[n]) :
            Live(n) => view[s] \subseteq Seen(n)
=============================================================================
