----------------------------- MODULE LobbyLogin -----------------------------
(***************************************************************************)
(* How a client gets from its password to its character: the token service *)
(* of src/Web, which issues and consumes access tokens in MongoDB; the     *)
(* lobby's sessions, which have a token consumed, load the account and     *)
(* keep a cache of its characters; and CharacterLogin, by which the world  *)
(* server asks the lobby's database who plays a character.                 *)
(*                                                                         *)
(* The token service serves requests concurrently, one database operation  *)
(* a step.  A lobby process runs its handlers one at a time, in the order  *)
(* of its channel; several lobby processes share the token service and the *)
(* database.  How CharacterLogin travels is LobbyCalls.                    *)
(***************************************************************************)
EXTENDS Integers, Sequences, FiniteSets

CONSTANTS Users, Tokens, UserOf,      \* a token is made for one log-in
          Leavers,                    \* bound: users that may be deleted
          Lobbies, Sessions, LobbyOf, Home,   \* Home serves the gRPC calls
          Worlds,                     \* calls of the world server's sessions
          Characters, Owned,          \* Owned: the owners at the start
          MaxHellos, MaxRequests,     \* bounds
          None, Zero                  \* Zero: an account id nobody has set

Account == [user : Users, token : Tokens, id : Users \cup {Zero}]

(* None is a null pointer, an empty token, a character that nobody owns:   *)
(* no value that is there.                                                 *)
ASSUME LoginAssumption ==
    /\ UserOf \in [Tokens -> Users] /\ LobbyOf \in [Sessions -> Lobbies]
    /\ Home \in Lobbies
    /\ {None, Zero} \cap (Users \cup Lobbies \cup Characters) = {} /\ None # Zero
    /\ None \notin Account \cup Tokens
    /\ Owned \in [Characters -> Users \cup {None}]
    /\ MaxHellos \in Nat /\ MaxRequests \in Nat

Hellos == 1..MaxHellos
Idle == [op |-> "idle"]

VARIABLES
    users, documents,   \* MongoDB: users, access_tokens
    logins,      \* the log-in that made each token
    said,        \* hello messages: which session sent which token
    web,         \* the token service's handler for each of them
    mailbox, at, \* of each lobby: its channel, the handler under way
    open, account, cache,      \* of each lobby session
    rows, owner, \* lobby database: Account.AccessToken by user, Character
    acked,       \* hellos that were answered
    requests,    \* counts OnCreateCharacterReq and OnGetCharacterListReq
    world,       \* the world server's calls: asked, answered, let in or out
    gone,        \* history: tokens that were replaced or deleted
    raced, overlapped, again   \* history, see the properties

tokenVars == <<users, documents, logins, raced, gone>>
webVars == <<web, overlapped>>
sessionVars == <<open, account, cache, acked, again>>
dbVars == <<rows, owner>>
lobbyVars == <<sessionVars, dbVars, at>>
vars == <<tokenVars, said, webVars, mailbox, lobbyVars, requests, world>>

Init ==
    /\ users = Users /\ documents = {}
    /\ logins = [t \in Tokens |-> "idle"]
    /\ said = <<>>
    /\ web = [h \in Hellos |-> "none"]
    /\ mailbox = [l \in Lobbies |-> <<>>] /\ at = [l \in Lobbies |-> Idle]
    /\ open = Sessions
    /\ account = [s \in Sessions |-> None] /\ cache = [s \in Sessions |-> {}]
    /\ rows = [u \in Users |-> None] /\ owner = Owned
    /\ acked = {} /\ requests = 0
    /\ world = [w \in Worlds |-> [step |-> "none"]]
    /\ gone = {} /\ raced = {} /\ overlapped = {} /\ again = {}

-----------------------------------------------------------------------------
(* Issuing a token: the user is looked up, and InsertOrUpdateAccessToken   *)
(* finds a document of the user and then updates or inserts one.  A        *)
(* database operation that fails ends the log-in with an error; here it is *)
(* one that is not done.                                                   *)

TokensOf(u) == {d \in documents : d.user = u}
Moves(t, from, to) == logins[t] = from /\ logins' = [logins EXCEPT ![t] = to]

GetUserByUserName(t) ==
    /\ UserOf[t] \in users /\ Moves(t, "idle", "find")
    /\ UNCHANGED <<documents, raced, gone>>

LoginFinds(t) ==
    LET u == UserOf[t] IN
    /\ \/ TokensOf(u) # {} /\ Moves(t, "find", "update") /\ UNCHANGED raced
       \/ /\ TokensOf(u) = {} /\ Moves(t, "find", "insert")
          /\ raced' = raced \cup {v \in {u} : \E o \in Tokens \ {t} :
                                      UserOf[o] = v /\ logins[o] = "insert"}
    /\ UNCHANGED <<documents, gone>>

(* Mutant: MatchedCount is not looked at. *)
LoginUpdatesUnchecked(t) ==
    /\ Moves(t, "update", "answered")
    /\ \/ \E d \in TokensOf(UserOf[t]) :
             /\ documents' = (documents \ {d}) \cup {[d EXCEPT !.token = t]}
             /\ gone' = gone \cup {d.token}
       \/ TokensOf(UserOf[t]) = {} /\ UNCHANGED <<documents, gone>>
    /\ UNCHANGED raced

LoginUpdates(t) ==
    /\ logins[t] = "update"
    /\ \/ \E d \in TokensOf(UserOf[t]) :
             /\ documents' = (documents \ {d}) \cup {[d EXCEPT !.token = t]}
             /\ gone' = gone \cup {d.token}
             /\ Moves(t, "update", "answered")
             /\ UNCHANGED raced
       \/ /\ TokensOf(UserOf[t]) = {}
          /\ Moves(t, "update", "failed")
          /\ UNCHANGED <<documents, raced, gone>>

LoginInserts(t) ==
    /\ documents' = documents \cup {[user |-> UserOf[t], token |-> t]}
    /\ Moves(t, "insert", "answered")
    /\ UNCHANGED <<raced, gone>>

(* The tokens of a deleted user stay; a log-in under way adds another.     *)
DeleteAccountByUserName(u) ==
    /\ u \in users \cap Leavers
    /\ users' = users \ {u}
    /\ UNCHANGED <<documents, logins, raced, gone>>

TokenService ==
    /\ \/ /\ \E t \in Tokens : \/ GetUserByUserName(t) \/ LoginFinds(t)
                              \/ LoginUpdates(t) \/ LoginInserts(t)
          /\ UNCHANGED users
       \/ \E u \in Users : DeleteAccountByUserName(u)
    /\ UNCHANGED <<said, webVars, mailbox, lobbyVars, requests, world>>

-----------------------------------------------------------------------------
(* ConsumeAccessToken: find, delete (whatever that finds), get the user.   *)
(* Here too an operation that fails is one that is not done: the lobby may *)
(* take it for a refusal at any time.                                      *)

Token(h) == said[h].token
Session(h) == said[h].session
Stored(t) == {d \in documents : d.token = t}
Answers(h, answer) == web' = [web EXCEPT ![h] = answer]

FindToken(h) ==
    /\ web[h] = "find"
    /\ Answers(h, IF Stored(Token(h)) # {} THEN "delete" ELSE "invalid")
    /\ overlapped' = overlapped \cup {t \in {Token(h)} : \E o \in Hellos :
                        o # h /\ web[o] = "delete" /\ Token(o) = t}
    /\ UNCHANGED <<documents, gone>>

(* Mutant: the token is looked up and left there. *)
DeleteNothing(h) ==
    /\ web[h] = "delete" /\ Answers(h, "user")
    /\ UNCHANGED <<documents, gone, overlapped>>

DeleteToken(h) ==
    /\ web[h] = "delete"
    /\ documents' = documents \ Stored(Token(h))
    /\ gone' = gone \cup {d.token : d \in Stored(Token(h))}
    /\ Answers(h, "user")
    /\ UNCHANGED overlapped

GetUserByUserId(h) ==
    /\ web[h] = "user"
    /\ Answers(h, IF UserOf[Token(h)] \in users THEN "valid" ELSE "invalid")
    /\ UNCHANGED <<documents, gone, overlapped>>

Validation ==
    /\ \E h \in Hellos : FindToken(h) \/ DeleteToken(h) \/ GetUserByUserId(h)
    /\ UNCHANGED <<users, logins, raced, said, mailbox, lobbyVars, requests, world>>

-----------------------------------------------------------------------------
(* A client sends while it is connected; its messages are handled even if  *)
(* the session is disconnected meanwhile.                                  *)

Post(l, m) == mailbox' = [mailbox EXCEPT ![l] = Append(@, m)]
Quiet == UNCHANGED <<tokenVars, webVars, lobbyVars>>

ClientSaysHello(s, t) ==
    /\ s \in open /\ logins[t] = "answered" /\ Len(said) < MaxHellos
    /\ said' = Append(said, [session |-> s, token |-> t])
    /\ Post(LobbyOf[s], [op |-> "hello", hello |-> Len(said) + 1])
    /\ Quiet /\ UNCHANGED <<requests, world>>

ClientRequests(s) ==
    /\ s \in open /\ requests < MaxRequests
    /\ requests' = requests + 1
    /\ \/ \E c \in Characters : Post(LobbyOf[s], [op |-> "create", session |-> s, character |-> c])
       \/ Post(LobbyOf[s], [op |-> "list", session |-> s])
    /\ Quiet /\ UNCHANGED <<said, world>>

-----------------------------------------------------------------------------
(* The handlers of a lobby.                                                *)

Takes(l, op) ==
    /\ at[l] = Idle /\ mailbox[l] # <<>> /\ Head(mailbox[l]).op = op
Rest(l) == mailbox' = [mailbox EXCEPT ![l] = Tail(@)]
RestAndPost(l, m) == mailbox' = [mailbox EXCEPT ![l] = Append(Tail(@), m)]
Goes(l, to) == at' = [at EXCEPT ![l] = to]
Disconnect(s) == open' = open \ {s}

(* Async posts, even from a handler on the same channel.                   *)
OnHelloServer(l) ==
    /\ Takes(l, "hello")
    /\ RestAndPost(l, [op |-> "consume", hello |-> Head(mailbox[l]).hello])
    /\ UNCHANGED <<webVars, lobbyVars>>

(* ConsumeToken blocks the channel on the HTTP request, at most 10 seconds.*)
ConsumeToken(l) ==
    /\ Takes(l, "consume")
    /\ LET h == Head(mailbox[l]).hello IN
       Answers(h, "find") /\ Goes(l, [op |-> "wait", hello |-> h])
    /\ Rest(l)
    /\ UNCHANGED <<overlapped, sessionVars, dbVars>>

(* Its continuation: load the account, in a message of its own, or refuse, *)
(* when the answer says so, or is lost, or comes too late.                 *)
TokenValidated(l) ==
    /\ at[l].op = "wait" /\ web[at[l].hello] = "valid"
    /\ Goes(l, Idle)
    /\ Post(l, [op |-> "load", hello |-> at[l].hello])
    /\ UNCHANGED <<webVars, sessionVars, dbVars>>

TokenRefused(l) ==
    /\ at[l].op = "wait"
    /\ Goes(l, Idle) /\ Disconnect(Session(at[l].hello))
    /\ UNCHANGED <<webVars, mailbox, account, cache, acked, again, dbVars>>

(* Mutant: usp_UpsertAccount leaves the token of the row as it is. *)
TokenUnwritten(u, t) == rows
TokenWritten(u, t) == [rows EXCEPT ![u] = t]

(* LoadAccount makes account_ and fills it before the database is asked.   *)
(* The account id is that of the row, which here is its user.              *)
UpsertAccount(l) ==
    /\ Takes(l, "load")
    /\ LET h == Head(mailbox[l]).hello
           s == Session(h)
           u == UserOf[Token(h)]
           old == IF account[s] = None THEN Zero ELSE account[s].id
       IN
       /\ again' = IF account[s] = None THEN again ELSE again \cup {s}
       /\ \/ /\ account' = [account EXCEPT ![s] = [user |-> u, token |-> Token(h), id |-> u]]
             /\ rows' = TokenWritten(u, Token(h))
             /\ Goes(l, [op |-> "select", hello |-> h])
             /\ UNCHANGED open
          \/ /\ account' = [account EXCEPT ![s] = [user |-> u, token |-> Token(h), id |-> old]]
             /\ Disconnect(s)
             /\ UNCHANGED <<rows, at>>
    /\ Rest(l)
    /\ UNCHANGED <<webVars, cache, acked, owner>>

(* Mutant: an account that cannot be loaded leaves the session as it is. *)
SelectAccountSilent(l) ==
    /\ at[l].op = "select"
    /\ LET s == Session(at[l].hello) IN
       \/ /\ account' = [account EXCEPT ![s].token = rows[account[s].user]]
          /\ acked' = acked \cup {at[l].hello}
       \/ UNCHANGED <<account, acked>>
    /\ Goes(l, Idle)
    /\ UNCHANGED <<open, webVars, mailbox, cache, again, dbVars>>

(* ... and reads the row back, which another lobby may have written since. *)
(* THEN_POST answers the client, in the same message.                      *)
SelectAccount(l) ==
    /\ at[l].op = "select"
    /\ LET s == Session(at[l].hello) IN
       \/ /\ account' = [account EXCEPT ![s].token = rows[account[s].user]]
          /\ acked' = acked \cup {at[l].hello}
          /\ UNCHANGED open
       \/ Disconnect(s) /\ UNCHANGED <<account, acked>>
    /\ Goes(l, Idle)
    /\ UNCHANGED <<webVars, mailbox, cache, again, dbVars>>

(* A character's name is unique.  A request without an account, with a     *)
(* name that is taken, for a server that is not there, ends here.          *)
OnCreateCharacterReq(l) ==
    /\ Takes(l, "create")
    /\ LET m == Head(mailbox[l]) IN
       \/ /\ account[m.session] # None /\ owner[m.character] = None
          /\ Goes(l, [m EXCEPT !.op = "upsert"])
       \/ UNCHANGED at
    /\ Rest(l)
    /\ UNCHANGED <<webVars, sessionVars, dbVars>>

UpsertCharacter(l) ==
    /\ at[l].op = "upsert"
    /\ LET s == at[l].session
           c == at[l].character
           id == account[s].id
       IN \/ /\ owner[c] \in {None, id}
             /\ owner' = [owner EXCEPT ![c] = id]
             /\ cache' = [cache EXCEPT ![s] = @ \cup {c}]
          \/ UNCHANGED <<owner, cache>>
    /\ Goes(l, Idle)
    /\ UNCHANGED <<webVars, mailbox, open, account, acked, again, rows>>

CharactersOf(id) == {c \in Characters : owner[c] = id}

OnGetCharacterListReq(l) ==
    /\ Takes(l, "list")
    /\ LET s == Head(mailbox[l]).session IN
       \/ /\ account[s] # None
          /\ cache' = [cache EXCEPT ![s] = @ \cup CharactersOf(account[s].id)]
       \/ UNCHANGED cache
    /\ Rest(l)
    /\ UNCHANGED <<webVars, open, account, acked, again, dbVars, at>>

-----------------------------------------------------------------------------
(* A client says hello to the world server with a token and a character:   *)
(* any of them, for nothing there compares them with what a lobby told it. *)
(* A token nobody gave out finds no row, like one that was never consumed. *)
(* The lobby's handler looks for both, and the answer, whatever it says,   *)
(* lets the session in: only a failed call disconnects it.                 *)

OnRecvHelloWorldServer(w, t, c) ==
    /\ world[w].step = "none" /\ logins[t] = "answered"
    /\ world' = [world EXCEPT ![w] = [step |-> "asked", token |-> t, character |-> c]]
    /\ Post(Home, [op |-> "login", world |-> w, token |-> t, character |-> c])
    /\ Quiet /\ UNCHANGED <<said, requests>>

AccountsWith(t) == {u \in Users : rows[u] = t}

(* The answer to a request, unless the call has failed meanwhile. *)
Reply(m, id) ==
    world' = IF world[m.world].step # "asked" THEN world
             ELSE [world EXCEPT ![m.world] = [step |-> "answered", token |-> m.token,
                                              character |-> m.character, account |-> id]]

(* CharacterLogin asks the database twice; an answer without an account is *)
(* a refusal.                                                              *)
LoadByAccessToken(l) ==
    /\ Takes(l, "login")
    /\ LET m == Head(mailbox[l]) IN
       \/ /\ \E u \in AccountsWith(m.token) :
                Goes(l, [op |-> "check", request |-> m, account |-> u])
          /\ UNCHANGED world
       \/ Reply(m, Zero) /\ UNCHANGED at
    /\ Rest(l)
    /\ UNCHANGED <<webVars, sessionVars, dbVars>>

(* Mutant: the character is looked for, whoever owns it. *)
PlaysForAnyone(c, u) == owner[c] # None

PlaysFor(c, u) == owner[c] = u

IsCharacterExists(l) ==
    /\ at[l].op = "check"
    /\ LET m == at[l].request
           u == at[l].account
       IN \/ PlaysFor(m.character, u) /\ Reply(m, u)
          \/ Reply(m, Zero)
    /\ Goes(l, Idle)
    /\ UNCHANGED <<webVars, mailbox, sessionVars, dbVars>>

CharacterLogin(l) == LoadByAccessToken(l) \/ IsCharacterExists(l)

CharacterLoggedIn(w) ==
    /\ world[w].step = "answered"
    /\ world' = [world EXCEPT ![w].step = "in"]
    /\ Quiet /\ UNCHANGED <<said, mailbox, requests>>

CallFailed(w) ==
    /\ world[w].step \in {"asked", "answered"}
    /\ world' = [world EXCEPT ![w] = [step |-> "out"]]
    /\ Quiet /\ UNCHANGED <<said, mailbox, requests>>

-----------------------------------------------------------------------------
Lobby(l) ==
    /\ \/ CharacterLogin(l)
       \/ /\ \/ OnHelloServer(l) \/ ConsumeToken(l) \/ TokenValidated(l) \/ TokenRefused(l)
             \/ UpsertAccount(l) \/ SelectAccount(l)
             \/ OnCreateCharacterReq(l) \/ UpsertCharacter(l) \/ OnGetCharacterListReq(l)
          /\ UNCHANGED world
    /\ UNCHANGED <<tokenVars, said, requests>>

Client ==
    \/ \E s \in Sessions, t \in Tokens : ClientSaysHello(s, t)
    \/ \E s \in Sessions : ClientRequests(s)

World ==
    \/ \E w \in Worlds, t \in Tokens, c \in Characters : OnRecvHelloWorldServer(w, t, c)
    \/ \E w \in Worlds : CharacterLoggedIn(w) \/ CallFailed(w)

Next == TokenService \/ Validation \/ Client \/ (\E l \in Lobbies : Lobby(l)) \/ World

Spec == Init /\ [][Next]_vars

-----------------------------------------------------------------------------
TypeOK ==
    /\ users \subseteq Users
    /\ documents \subseteq [user : Users, token : Tokens]
    /\ logins \in [Tokens -> {"idle", "find", "update", "insert", "answered", "failed"}]
    /\ said \in Seq([session : Sessions, token : Tokens]) /\ Len(said) <= MaxHellos
    /\ web \in [Hellos -> {"none", "find", "delete", "user", "valid", "invalid"}]
    /\ \A l \in Lobbies : at[l].op \in {"idle", "wait", "select", "upsert", "check"}
    /\ open \subseteq Sessions /\ acked \subseteq DOMAIN said
    /\ account \in [Sessions -> Account \cup {None}]
    /\ cache \in [Sessions -> SUBSET Characters]
    /\ rows \in [Users -> Tokens \cup {None}]
    /\ owner \in [Characters -> Users \cup {Zero, None}]

(* A user has at most one token, unless two of its log-ins both found none *)
(* before either inserted (nothing in the database forbids two documents); *)
(* and a token that the service gave out is in the database until it is    *)
(* consumed or a later log-in of its user replaces it, though a validation *)
(* may delete the document between a log-in's find and its update.         *)
OneTokenPerUser ==
    /\ \A u \in Users : Cardinality(TokensOf(u)) <= 1 \/ u \in raced
    /\ \A t \in Tokens : logins[t] = "answered" => Stored(t) # {} \/ t \in gone

(* A token is good for one hello, whatever lobby it is said to and however *)
(* often, and also when the answer to the first comes too late: the        *)
(* exception are validations that both found it before either deleted it.  *)
ConsumedOnce ==
    \A t \in Tokens \ overlapped :
        Cardinality({h \in DOMAIN said : Token(h) = t /\ web[h] \in {"user", "valid"}}) <= 1

(* The characters a lobby session has cached belong to its account, unless *)
(* the session said hello twice (the cache is not cleared); and whatever   *)
(* token and character a client names to the world server, a session that  *)
(* is let in with an account plays one of its characters, with a token of  *)
(* its user that a lobby had validated.  A session without an account is   *)
(* let in too: it is one the lobby's handler refused.                      *)
OwnCharacters ==
    /\ \A s \in Sessions \ again : \A c \in cache[s] :
          account[s] # None /\ owner[c] = account[s].id
    /\ \A w \in Worlds : world[w].step = "in" /\ world[w].account # Zero =>
          /\ owner[world[w].character] = world[w].account
          /\ UserOf[world[w].token] = world[w].account
          /\ \E h \in DOMAIN said : Token(h) = world[w].token /\ web[h] = "valid"

(* Nobody is forgotten: when a lobby has nothing left to do, every hello   *)
(* said to it has been answered or its session disconnected, also when the *)
(* token service or the database failed or said nothing.                   *)
HelloAnswered ==
    \A h \in DOMAIN said : LET l == LobbyOf[Session(h)] IN
        mailbox[l] = <<>> /\ at[l] = Idle => h \in acked \/ Session(h) \notin open
=============================================================================
