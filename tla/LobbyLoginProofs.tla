-------------------------- MODULE LobbyLoginProofs --------------------------
(***************************************************************************)
(* Proofs about LobbyLogin, for any users, tokens, lobbies and sessions:   *)
(* type correctness, and every safety property the model is checked for.   *)
(***************************************************************************)
EXTENDS LobbyLogin, SequenceTheorems, FiniteSetTheorems, TLAPS

(* What a channel holds and what a handler is in the middle of.            *)
Request == [op : {"login"}, world : Worlds, token : Tokens, character : Characters]
Message == [op : {"hello", "consume", "load"}, hello : Hellos]
           \cup [op : {"create"}, session : Sessions, character : Characters]
           \cup [op : {"list"}, session : Sessions]
           \cup Request
Work == {Idle} \cup [op : {"wait", "select"}, hello : Hellos]
        \cup [op : {"upsert"}, session : Sessions, character : Characters]
        \cup [op : {"check"}, request : Request, account : Users]
WorldSession ==
    [step : {"none", "out"}]
    \cup [step : {"asked"}, token : Tokens, character : Characters]
    \cup [step : {"answered", "in"}, token : Tokens, character : Characters,
          account : Users \cup {Zero}]

Greeting(m) == m.op \in {"hello", "consume", "load"}
Elements(q) == {q[i] : i \in DOMAIN q}
Mails(l) == Elements(mailbox[l])

(* A hello is only ever on its way in the lobby it was said to. *)
Belongs(h, l) == h \in DOMAIN said /\ LobbyOf[Session(h)] = l

Typed ==
    /\ TypeOK
    /\ mailbox \in [Lobbies -> Seq(Message)] /\ at \in [Lobbies -> Work]
    /\ world \in [Worlds -> WorldSession]

(* What a handler under way relies on: that of its hello's session, whose  *)
(* account is set and has a row, or that the session has an account.       *)
Underway(l) ==
    /\ \A m \in Mails(l) : Greeting(m) => Belongs(m.hello, l)
    /\ at[l].op \in {"wait", "select"} => Belongs(at[l].hello, l)
    /\ at[l].op = "select" =>
          /\ account[Session(at[l].hello)] # None
          /\ rows[account[Session(at[l].hello)].user] # None
    /\ at[l].op = "upsert" => account[at[l].session] # None

TypeInv == Typed /\ \A l \in Lobbies : Underway(l)

-----------------------------------------------------------------------------
(* Tokens: between its log-in's find and its insert a user that was not    *)
(* raced has no document, and only one log-in is there.                    *)
TokensInv ==
    /\ \A u \in Users \ raced :
          /\ \A d, e \in TokensOf(u) : d = e
          /\ \A t \in Tokens : UserOf[t] = u /\ logins[t] = "insert" => TokensOf(u) = {}
          /\ \A t, o \in Tokens : UserOf[t] = u /\ UserOf[o] = u
                                  /\ logins[t] = "insert" /\ logins[o] = "insert" => t = o
    /\ \A t \in Tokens : logins[t] = "answered" => Stored(t) # {} \/ t \in gone

(* Validations: a token is said after its log-in is over, so nothing puts  *)
(* it back once it was deleted, and whoever finds it is alone until then.  *)
Past(h) == web[h] \in {"delete", "user", "valid"}

ConsumedInv ==
    /\ \A h \in Hellos \ DOMAIN said : web[h] = "none"
    /\ \A h \in DOMAIN said : logins[Token(h)] = "answered"
    /\ \A h \in DOMAIN said : web[h] \in {"user", "valid"} => Stored(Token(h)) = {}
    /\ \A g, h \in DOMAIN said :
          Past(g) /\ Past(h) /\ Token(g) = Token(h) /\ Token(h) \notin overlapped => g = h

(* A hello that waits for its validation has none yet and waits once; one  *)
(* that goes on was found valid.                                           *)
Unconsumed(m) == m.op \in {"hello", "consume"}
Distinct(q) ==
    \A i, j \in DOMAIN q : Unconsumed(q[i]) /\ Unconsumed(q[j]) /\ q[i].hello = q[j].hello => i = j

ValidInv ==
    /\ \A l \in Lobbies :
          /\ Distinct(mailbox[l])
          /\ \A m \in Mails(l) : /\ Unconsumed(m) => web[m.hello] = "none"
                                 /\ m.op = "load" => web[m.hello] = "valid"
          /\ at[l].op = "select" => web[at[l].hello] = "valid"
    /\ \A h \in acked : web[h] = "valid"

Validated(t) == \E h \in DOMAIN said : Token(h) = t /\ web[h] = "valid"

(* An account goes with a token of its user that a lobby had validated:    *)
(* in a row, in a handler that has found the row, and in an answer.        *)
TokenFor(t, u) == UserOf[t] = u /\ Validated(t)

Checked(l) == at[l].op = "check" => TokenFor(at[l].request.token, at[l].account)

Entitled(w) ==
    world[w].step \in {"answered", "in"} /\ world[w].account # Zero =>
        /\ owner[world[w].character] = world[w].account
        /\ TokenFor(world[w].token, world[w].account)

OwnInv ==
    /\ \A s \in Sessions \ again : \A c \in cache[s] :
          account[s] # None /\ owner[c] = account[s].id
    /\ \A u \in Users : rows[u] # None => TokenFor(rows[u], u)
    /\ \A l \in Lobbies : Checked(l)
    /\ \A w \in Worlds : Entitled(w)

(* Where a hello that is not answered is. *)
UnderwayHello(h, l) ==
    \/ \E m \in Mails(l) : Greeting(m) /\ m.hello = h
    \/ at[l].op \in {"wait", "select"} /\ at[l].hello = h

AnsweredInv ==
    \A h \in DOMAIN said :
        \/ h \in acked \/ Session(h) \notin open
        \/ UnderwayHello(h, LobbyOf[Session(h)])
-----------------------------------------------------------------------------
(* What Append and Tail do to the elements of a sequence. *)
LEMMA AppendElements ==
  ASSUME NEW S, NEW q \in Seq(S), NEW m \in S
  PROVE  /\ Append(q, m) \in Seq(S)
         /\ Elements(Append(q, m)) = Elements(q) \cup {m}
<1>1. /\ Append(q, m) \in Seq(S) /\ DOMAIN Append(q, m) = 1..(Len(q) + 1) /\ DOMAIN q = 1..Len(q)
      /\ \A i \in 1..Len(q) : Append(q, m)[i] = q[i]
      /\ Append(q, m)[Len(q) + 1] = m /\ Len(q) \in Nat
  BY AppendProperties, LenProperties
<1>2. 1..(Len(q) + 1) = 1..Len(q) \cup {Len(q) + 1}
  BY <1>1
<1>3. \A i \in DOMAIN Append(q, m) :
         Append(q, m)[i] # m => i \in DOMAIN q /\ Append(q, m)[i] = q[i]
  BY <1>1, <1>2
<1>4. (\A i \in DOMAIN q : i \in DOMAIN Append(q, m) /\ Append(q, m)[i] = q[i])
      /\ Len(q) + 1 \in DOMAIN Append(q, m)
  BY <1>1, <1>2
<1> QED
  BY <1>1, <1>3, <1>4, Zenon DEF Elements

LEMMA TailElements ==
  ASSUME NEW S, NEW q \in Seq(S), q # <<>>
  PROVE  /\ Tail(q) \in Seq(S) /\ Head(q) \in S
         /\ Elements(q) = {Head(q)} \cup Elements(Tail(q))
<1>1. /\ Tail(q) \in Seq(S) /\ Len(q) \in Nat \ {0} /\ Len(Tail(q)) = Len(q) - 1
      /\ \A i \in 1..Len(Tail(q)) : Tail(q)[i] = q[i + 1]
      /\ Head(q) = q[1] /\ Head(q) \in S
      /\ DOMAIN q = 1..Len(q) /\ DOMAIN Tail(q) = 1..Len(Tail(q))
  BY HeadTailProperties, LenProperties, EmptySeq
<1>2. \A i \in 1..Len(q) : i # 1 => i - 1 \in 1..Len(Tail(q)) /\ Tail(q)[i - 1] = q[i]
  BY <1>1
<1>3. \A i \in DOMAIN q : q[i] # Head(q) => \E j \in DOMAIN Tail(q) : Tail(q)[j] = q[i]
  BY <1>1, <1>2
<1>4. (\A j \in DOMAIN Tail(q) : \E i \in DOMAIN q : Tail(q)[j] = q[i]) /\ 1 \in DOMAIN q
  BY <1>1
<1>5. Head(q) \in Elements(q)
  BY <1>1, <1>4 DEF Elements
<1>6. ASSUME NEW x \in Elements(q) PROVE x = Head(q) \/ x \in Elements(Tail(q))
  BY <1>3, <1>6 DEF Elements
<1>7. ASSUME NEW x \in Elements(Tail(q)) PROVE x \in Elements(q)
  BY <1>4, <1>7 DEF Elements
<1> QED
  BY <1>1, <1>5, <1>6, <1>7

(* What a handler can be in the middle of. *)
LEMMA WorkOps ==
  ASSUME NEW x \in Work
  PROVE  /\ x.op \in {"idle", "wait", "select", "upsert", "check"}
         /\ x.op \in {"wait", "select"} => x.hello \in Hellos
         /\ x.op = "upsert" => x.session \in Sessions /\ x.character \in Characters
         /\ x.op = "check" => x.request \in Request /\ x.account \in Users
<1>1. CASE x = Idle
  BY <1>1 DEF Idle
<1>2. CASE x \in [op : {"wait", "select"}, hello : Hellos]
  BY <1>2
<1>3. CASE x \in [op : {"upsert"}, session : Sessions, character : Characters]
  BY <1>3
<1>4. CASE x \in [op : {"check"}, request : Request, account : Users]
  BY <1>4
<1> QED
  BY <1>1, <1>2, <1>3, <1>4 DEF Work

(* What the lobby's ways of handing on a message do to its channel. *)
LEMMA PostMails ==
  ASSUME mailbox \in [Lobbies -> Seq(Message)], NEW k \in Lobbies, NEW m \in Message, Post(k, m)
  PROVE  /\ mailbox' \in [Lobbies -> Seq(Message)]
         /\ Mails(k)' = Mails(k) \cup {m}
         /\ \A l \in Lobbies \ {k} : Mails(l)' = Mails(l)
<1>1. /\ mailbox' = [mailbox EXCEPT ![k] = Append(mailbox[k], m)] /\ mailbox[k] \in Seq(Message)
  BY DEF Post
<1>2. /\ Append(mailbox[k], m) \in Seq(Message)
      /\ Elements(Append(mailbox[k], m)) = Mails(k) \cup {m}
  BY <1>1, AppendElements DEF Mails
<1> QED
  BY <1>1, <1>2 DEF Mails

LEMMA RestMails ==
  ASSUME mailbox \in [Lobbies -> Seq(Message)], NEW k \in Lobbies, mailbox[k] # <<>>, Rest(k)
  PROVE  /\ mailbox' \in [Lobbies -> Seq(Message)] /\ Head(mailbox[k]) \in Message
         /\ Mails(k) = {Head(mailbox[k])} \cup Mails(k)'
         /\ \A l \in Lobbies \ {k} : Mails(l)' = Mails(l)
<1>1. /\ mailbox' = [mailbox EXCEPT ![k] = Tail(mailbox[k])] /\ mailbox[k] \in Seq(Message)
  BY DEF Rest
<1>2. /\ Tail(mailbox[k]) \in Seq(Message) /\ Head(mailbox[k]) \in Message
      /\ Mails(k) = {Head(mailbox[k])} \cup Elements(Tail(mailbox[k]))
  BY <1>1, TailElements DEF Mails
<1> QED
  BY <1>1, <1>2 DEF Mails

LEMMA RestAndPostMails ==
  ASSUME mailbox \in [Lobbies -> Seq(Message)], NEW k \in Lobbies, mailbox[k] # <<>>,
         NEW m \in Message, RestAndPost(k, m)
  PROVE  /\ mailbox' \in [Lobbies -> Seq(Message)] /\ Head(mailbox[k]) \in Message
         /\ Mails(k) \cup {m} = {Head(mailbox[k])} \cup Mails(k)'
         /\ Mails(k)' \subseteq Mails(k) \cup {m} /\ m \in Mails(k)'
         /\ \A l \in Lobbies \ {k} : Mails(l)' = Mails(l)
<1> DEFINE q == Tail(mailbox[k])
<1>1. /\ mailbox' = [mailbox EXCEPT ![k] = Append(q, m)] /\ mailbox[k] \in Seq(Message)
  BY DEF RestAndPost
<1>2. /\ q \in Seq(Message) /\ Head(mailbox[k]) \in Message
      /\ Mails(k) = {Head(mailbox[k])} \cup Elements(q)
  BY <1>1, TailElements DEF Mails
<1> HIDE DEF q
<1>3. /\ Append(q, m) \in Seq(Message)
      /\ Elements(Append(q, m)) = Elements(q) \cup {m}
  BY <1>2, AppendElements
<1>4. mailbox'[k] = Append(q, m) /\ \A l \in Lobbies \ {k} : mailbox'[l] = mailbox[l]
  BY <1>1
<1>5. Mails(k)' = Elements(q) \cup {m}
  BY <1>3, <1>4 DEF Mails
<1>6. \A l \in Lobbies \ {k} : Mails(l)' = Mails(l)
  BY <1>4 DEF Mails
<1>7. mailbox' \in [Lobbies -> Seq(Message)]
  BY <1>1, <1>3
<1> QED
  BY <1>2, <1>5, <1>6, <1>7
-----------------------------------------------------------------------------
(* Type correctness.                                                       *)
LEMMA TypeInit == Init => TypeInv
<1> SUFFICES ASSUME Init PROVE TypeInv
  OBVIOUS
<1>1. \A l \in Lobbies : mailbox[l] = <<>> /\ at[l] = [op |-> "idle"] /\ at[l].op = "idle"
  BY DEF Init, Idle
<1>2. \A l \in Lobbies : Mails(l) = {}
  BY <1>1 DEF Mails, Elements
<1>3. \A l \in Lobbies : Underway(l)
  BY <1>1, <1>2 DEF Underway
<1>4. /\ users \subseteq Users /\ documents \subseteq [user : Users, token : Tokens]
      /\ logins \in [Tokens -> {"idle", "find", "update", "insert", "answered", "failed"}]
      /\ web \in [Hellos -> {"none", "find", "delete", "user", "valid", "invalid"}]
  BY DEF Init
<1>5. said \in Seq([session : Sessions, token : Tokens]) /\ Len(said) <= MaxHellos
  BY LoginAssumption DEF Init
<1>6. /\ open \subseteq Sessions /\ acked \subseteq DOMAIN said
      /\ account \in [Sessions -> Account \cup {None}]
      /\ cache \in [Sessions -> SUBSET Characters]
      /\ rows \in [Users -> Tokens \cup {None}]
      /\ owner \in [Characters -> Users \cup {Zero, None}]
  BY LoginAssumption DEF Init
<1>7. /\ mailbox \in [Lobbies -> Seq(Message)] /\ at \in [Lobbies -> Work]
      /\ world \in [Worlds -> WorldSession]
  BY DEF Init, Work, WorldSession
<1> QED
  BY <1>1, <1>3, <1>4, <1>5, <1>6, <1>7 DEF TypeInv, Typed, TypeOK

(* The token service and the validation change types of their own only. *)
LEMMA WebType ==
  ASSUME TypeInv, TokenService \/ Validation
  PROVE  TypeInv'
<1> USE DEF TypeInv, Typed, TypeOK
<1>1. UNCHANGED <<said, mailbox, lobbyVars, requests, world>>
  BY DEF TokenService, Validation
<1>2. UNCHANGED <<said, mailbox, at, open, account, cache, acked, rows, owner, world>>
  BY <1>1 DEF lobbyVars, sessionVars, dbVars
<1>3. \A l \in Lobbies : Underway(l)'
  BY <1>2 DEF Underway, Mails, Belongs, Session
<1>4. CASE TokenService
  <2>1. web' = web
    BY <1>4 DEF TokenService, webVars
  <2>2. ASSUME NEW t \in Tokens, GetUserByUserName(t) \/ LoginFinds(t)
        PROVE  /\ documents' = documents
               /\ logins' \in [Tokens -> {"idle", "find", "update", "insert", "answered", "failed"}]
    BY <2>2 DEF GetUserByUserName, LoginFinds, Moves
  <2>3. ASSUME NEW t \in Tokens, LoginUpdates(t)
        PROVE  /\ documents' \subseteq [user : Users, token : Tokens]
               /\ logins' \in [Tokens -> {"idle", "find", "update", "insert", "answered", "failed"}]
    BY <2>3 DEF LoginUpdates, Moves, TokensOf
  <2>4. ASSUME NEW t \in Tokens, LoginInserts(t)
        PROVE  /\ documents' \subseteq [user : Users, token : Tokens]
               /\ logins' \in [Tokens -> {"idle", "find", "update", "insert", "answered", "failed"}]
    <3>1. [user |-> UserOf[t], token |-> t] \in [user : Users, token : Tokens]
      BY LoginAssumption
    <3> QED
      BY <2>4, <3>1 DEF LoginInserts, Moves
  <2>5. ASSUME NEW u \in Users, DeleteAccountByUserName(u)
        PROVE  /\ users' \subseteq Users /\ UNCHANGED <<documents, logins>>
    BY <2>5 DEF DeleteAccountByUserName
  <2>6. /\ users' \subseteq Users /\ documents' \subseteq [user : Users, token : Tokens]
        /\ logins' \in [Tokens -> {"idle", "find", "update", "insert", "answered", "failed"}]
    BY <1>4, <2>2, <2>3, <2>4, <2>5 DEF TokenService
  <2> QED
    BY <1>2, <1>3, <2>1, <2>6
<1>5. CASE Validation
  <2>1. users' = users /\ logins' = logins
    BY <1>5 DEF Validation
  <2>2. PICK h \in Hellos : FindToken(h) \/ DeleteToken(h) \/ GetUserByUserId(h)
    BY <1>5 DEF Validation
  <2>3. /\ documents' \subseteq documents
        /\ web' \in [Hellos -> {"none", "find", "delete", "user", "valid", "invalid"}]
    BY <2>2 DEF FindToken, DeleteToken, GetUserByUserId, Answers
  <2> QED
    BY <1>2, <1>3, <2>1, <2>3
<1> QED
  BY <1>4, <1>5

(* A hello that is said is the next one; the others stay as they are. *)
LEMMA SaysHello ==
  ASSUME TypeInv, NEW s \in Sessions, NEW t \in Tokens, ClientSaysHello(s, t)
  PROVE  \E n \in Hellos :
         /\ n = Len(said) + 1 /\ n \notin DOMAIN said /\ DOMAIN said' = DOMAIN said \cup {n}
         /\ \A h \in DOMAIN said : Session(h)' = Session(h) /\ Token(h)' = Token(h)
         /\ Session(n)' = s /\ Token(n)' = t
         /\ said' \in Seq([session : Sessions, token : Tokens]) /\ Len(said') <= MaxHellos
<1> DEFINE m == [session |-> s, token |-> t]
<1>1. said \in Seq([session : Sessions, token : Tokens]) /\ m \in [session : Sessions, token : Tokens]
  BY DEF TypeInv, Typed, TypeOK
<1>2. said' = Append(said, m) /\ Len(said) < MaxHellos
  BY DEF ClientSaysHello
<1> HIDE DEF m
<1>3. /\ Append(said, m) \in Seq([session : Sessions, token : Tokens])
      /\ Len(Append(said, m)) = Len(said) + 1 /\ Len(said) \in Nat
      /\ DOMAIN said = 1..Len(said) /\ DOMAIN Append(said, m) = 1..(Len(said) + 1)
      /\ \A i \in 1..Len(said) : Append(said, m)[i] = said[i]
      /\ Append(said, m)[Len(said) + 1] = m
  BY <1>1, AppendProperties, LenProperties
<1>4. m.session = s /\ m.token = t
  BY DEF m
<1> QED
  BY <1>2, <1>3, <1>4, LoginAssumption DEF Hellos, Session, Token

LEMMA HelloSession ==
  ASSUME TypeInv
  PROVE  /\ DOMAIN said \subseteq Hellos
         /\ \A h \in DOMAIN said : /\ Session(h) \in Sessions /\ Token(h) \in Tokens
                                  /\ LobbyOf[Session(h)] \in Lobbies
<1>1. said \in Seq([session : Sessions, token : Tokens]) /\ Len(said) <= MaxHellos
  BY DEF TypeInv, Typed, TypeOK
<1>2. DOMAIN said = 1..Len(said) /\ Len(said) \in Nat
  BY <1>1, LenProperties
<1>3. \A h \in DOMAIN said : said[h] \in [session : Sessions, token : Tokens]
  BY <1>1, <1>2, ElementOfSeq
<1> QED
  BY <1>1, <1>2, <1>3, LoginAssumption DEF Hellos, Session, Token

LEMMA ClientType ==
  ASSUME TypeInv, Client
  PROVE  TypeInv'
<1> USE DEF TypeInv, Typed, TypeOK
<1>1. UNCHANGED <<users, documents, logins, web, at, open, account, cache, rows, owner, acked, world>>
  BY DEF Client, ClientSaysHello, ClientRequests, Quiet, tokenVars, webVars, lobbyVars,
         sessionVars, dbVars
<1>2. ASSUME NEW s \in Sessions, NEW t \in Tokens, ClientSaysHello(s, t)
      PROVE  TypeInv'
  <2>1. PICK n \in Hellos :
        /\ n = Len(said) + 1 /\ DOMAIN said' = DOMAIN said \cup {n}
        /\ \A h \in DOMAIN said : Session(h)' = Session(h)
        /\ Session(n)' = s
        /\ said' \in Seq([session : Sessions, token : Tokens]) /\ Len(said') <= MaxHellos
    BY <1>2, SaysHello
  <2> DEFINE m == [op |-> "hello", hello |-> n]
  <2>2. m \in Message /\ LobbyOf[s] \in Lobbies
    BY LoginAssumption DEF Message
  <2>3. Post(LobbyOf[s], m)
    BY <1>2, <2>1 DEF ClientSaysHello
  <2>4. m.hello = n
    OBVIOUS
  <2> HIDE DEF m
  <2>5. /\ mailbox' \in [Lobbies -> Seq(Message)]
        /\ \A l \in Lobbies : \A k \in Mails(l)' : k \in Mails(l) \/ (k = m /\ l = LobbyOf[s])
    BY <2>2, <2>3, PostMails
  <2>6. \A h, l : Belongs(h, l) => Belongs(h, l)'
    BY <2>1 DEF Belongs
  <2>7. Belongs(n, LobbyOf[s])'
    BY <2>1 DEF Belongs
  <2>8. ASSUME NEW l \in Lobbies PROVE Underway(l)'
    <3>1. \A k \in Mails(l)' : Greeting(k) => Belongs(k.hello, l)'
      BY <2>4, <2>5, <2>6, <2>7 DEF Underway
    <3>2. at[l].op \in {"wait", "select"} => Belongs(at[l].hello, l) /\ Session(at[l].hello)' = Session(at[l].hello)
      BY <1>1, <2>1 DEF Underway, Belongs
    <3> QED
      BY <1>1, <2>6, <3>1, <3>2 DEF Underway
  <2>9. acked' \subseteq DOMAIN said'
    BY <1>1, <2>1
  <2> QED
    BY <1>1, <2>1, <2>5, <2>8, <2>9
<1>3. ASSUME NEW s \in Sessions, ClientRequests(s)
      PROVE  TypeInv'
  <2>1. PICK m \in [op : {"create"}, session : Sessions, character : Characters]
                   \cup [op : {"list"}, session : Sessions] : Post(LobbyOf[s], m)
    BY <1>3 DEF ClientRequests
  <2>2. m \in Message /\ LobbyOf[s] \in Lobbies /\ m.op \in {"create", "list"}
    BY <2>1, LoginAssumption DEF Message
  <2>3. /\ mailbox' \in [Lobbies -> Seq(Message)]
        /\ \A l \in Lobbies : \A k \in Mails(l)' : k \in Mails(l) \/ k = m
    BY <2>1, <2>2, PostMails
  <2>4. said' = said
    BY <1>3 DEF ClientRequests
  <2>5. ASSUME NEW l \in Lobbies PROVE Underway(l)'
    BY <1>1, <2>2, <2>3, <2>4 DEF Underway, Greeting, Belongs, Session
  <2> QED
    BY <1>1, <2>3, <2>4, <2>5
<1> QED
  BY <1>2, <1>3 DEF Client

(* The message a handler takes. *)
LEMMA TakesMail ==
  ASSUME TypeInv, NEW k \in Lobbies, NEW op, Takes(k, op)
  PROVE  LET m == Head(mailbox[k]) IN
         /\ mailbox[k] # <<>> /\ at[k] = Idle /\ at[k].op = "idle" /\ m.op = op
         /\ m \in Mails(k) /\ m \in Message
         /\ Greeting(m) => m.hello \in Hellos /\ Belongs(m.hello, k)
         /\ op \in {"create", "list"} => m.session \in Sessions
         /\ op = "create" => m.character \in Characters
         /\ op = "login" => m \in Request
<1>1. mailbox[k] # <<>> /\ at[k] = Idle /\ Head(mailbox[k]).op = op
  BY DEF Takes
<1>2. Head(mailbox[k]) \in Mails(k) /\ Head(mailbox[k]) \in Message
  <2>1. mailbox[k] \in Seq(Message)
    BY DEF TypeInv, Typed
  <2> QED
    BY <1>1, <2>1, TailElements DEF Mails
<1>3. at[k].op = "idle"
  BY <1>1 DEF Idle
<1> DEFINE m == Head(mailbox[k])
<1>4. m \in Message /\ m.op = op
  BY <1>1, <1>2
<1>5. Greeting(m) => Belongs(m.hello, k)
  BY <1>2 DEF TypeInv, Underway
<1> HIDE DEF m
<1>6. /\ Greeting(m) => m.hello \in Hellos
      /\ op \in {"create", "list"} => m.session \in Sessions
      /\ op = "create" => m.character \in Characters
      /\ op = "login" => m \in Request
  BY <1>4 DEF Message, Request, Greeting
<1> QED
  BY <1>1, <1>2, <1>3, <1>4, <1>5, <1>6 DEF m

(* What the two steps of CharacterLogin have in common: a request is       *)
(* answered with an account or with none, or its account is found.         *)
LEMMA LoginSteps ==
  ASSUME TypeInv, NEW k \in Lobbies, CharacterLogin(k)
  PROVE  /\ UNCHANGED <<web, overlapped, open, account, cache, acked, again, rows, owner>>
         /\ at' \in [Lobbies -> Work] /\ \A l \in Lobbies \ {k} : at'[l] = at[l]
         /\ at[k].op \in {"idle", "check"} /\ at'[k].op \in {"idle", "check"}
         /\ mailbox' \in [Lobbies -> Seq(Message)]
         /\ \A l \in Lobbies : Mails(l)' \subseteq Mails(l)
         /\ \A l \in Lobbies \ {k} : Mails(l)' = Mails(l)
         /\ \A m \in Mails(k) : m \in Mails(k)' \/ ~Greeting(m)
         /\ \/ Rest(k) /\ mailbox[k] # <<>>
            \/ mailbox' = mailbox
         /\ \E m \in Request, id \in Users \cup {Zero} :
               \/ Reply(m, id) /\ at'[k].op = "idle" /\ (id # Zero => id = at[k].account
                     /\ m = at[k].request /\ at[k].op = "check" /\ PlaysFor(m.character, id))
               \/ /\ world' = world /\ id # Zero /\ rows[id] = m.token
                  /\ at'[k].request = m /\ at'[k].account = id
<1>t. mailbox \in [Lobbies -> Seq(Message)] /\ at \in [Lobbies -> Work]
  BY DEF TypeInv, Typed
<1>i. Idle \in Work /\ Idle.op = "idle"
  BY DEF Work, Idle
<1>1. CASE LoadByAccessToken(k)
  <2>1. UNCHANGED <<web, overlapped, open, account, cache, acked, again, rows, owner>>
    BY <1>1 DEF LoadByAccessToken, webVars, sessionVars, dbVars
  <2>2. PICK m \in Request : /\ m = Head(mailbox[k]) /\ mailbox[k] # <<>> /\ at[k] = Idle
                            /\ ~Greeting(m) /\ Rest(k)
    BY <1>1, TakesMail DEF LoadByAccessToken, Greeting
  <2>3. /\ mailbox' \in [Lobbies -> Seq(Message)] /\ Mails(k) = {m} \cup Mails(k)'
        /\ \A l \in Lobbies \ {k} : Mails(l)' = Mails(l)
    BY <1>t, <2>2, RestMails
  <2>4. CASE Reply(m, Zero) /\ at' = at
    BY <1>t, <1>i, <2>1, <2>2, <2>3, <2>4
  <2>5. ASSUME NEW u \in AccountsWith(m.token), world' = world,
               at' = [at EXCEPT ![k] = [op |-> "check", request |-> m, account |-> u]]
        PROVE  /\ at' \in [Lobbies -> Work] /\ \A l \in Lobbies \ {k} : at'[l] = at[l]
               /\ at'[k].op = "check" /\ at'[k].request = m /\ at'[k].account = u
               /\ u \in Users /\ u # Zero /\ rows[u] = m.token
    <3> DEFINE to == [op |-> "check", request |-> m, account |-> u]
    <3>1. u \in Users /\ u # Zero /\ rows[u] = m.token
      BY LoginAssumption DEF AccountsWith
    <3>2. to \in Work /\ to.op = "check" /\ to.request = m /\ to.account = u
      BY <3>1 DEF Work
    <3>3. at' = [at EXCEPT ![k] = to]
      BY <2>5
    <3> HIDE DEF to
    <3> QED
      BY <1>t, <3>1, <3>2, <3>3
  <2>6. \/ Reply(m, Zero) /\ at' = at
        \/ /\ \E u \in AccountsWith(m.token) :
                 at' = [at EXCEPT ![k] = [op |-> "check", request |-> m, account |-> u]]
           /\ world' = world
    BY <1>1, <2>2 DEF LoadByAccessToken, Goes
  <2>7. CASE \E u \in AccountsWith(m.token) :
               /\ world' = world
               /\ at' = [at EXCEPT ![k] = [op |-> "check", request |-> m, account |-> u]]
    <3>1. PICK u \in Users :
              /\ world' = world /\ u # Zero /\ rows[u] = m.token
              /\ at' \in [Lobbies -> Work] /\ \A l \in Lobbies \ {k} : at'[l] = at[l]
              /\ at'[k].op = "check" /\ at'[k].request = m /\ at'[k].account = u
      BY <2>5, <2>7
    <3>2. \E n \in Request, id \in Users \cup {Zero} :
             /\ world' = world /\ id # Zero /\ rows[id] = n.token
             /\ at'[k].request = n /\ at'[k].account = id
      <4>1. m \in Request /\ u \in Users \cup {Zero}
        OBVIOUS
      <4>2. /\ world' = world /\ u # Zero /\ rows[u] = m.token
            /\ at'[k].request = m /\ at'[k].account = u
        BY <3>1
      <4> WITNESS m \in Request, u \in Users \cup {Zero}
      <4> QED
        BY <4>2
    <3>3. at[k].op \in {"idle", "check"} /\ at'[k].op \in {"idle", "check"}
      <4>1. at[k].op = "idle"
        BY <1>i, <2>2
      <4>2. at'[k].op = "check"
        BY <3>1
      <4> QED
        BY <4>1, <4>2
    <3>4. /\ \A l \in Lobbies : Mails(l)' \subseteq Mails(l)
          /\ \A n \in Mails(k) : n \in Mails(k)' \/ ~Greeting(n)
      BY <2>2, <2>3
    <3> QED
      BY <2>1, <2>2, <2>3, <3>1, <3>2, <3>3, <3>4, Zenon
  <2> QED
    BY <2>4, <2>6, <2>7
<1>2. CASE IsCharacterExists(k)
  <2>1. /\ UNCHANGED <<web, overlapped, open, account, cache, acked, again, rows, owner, mailbox>>
        /\ at[k].op = "check" /\ at' = [at EXCEPT ![k] = Idle]
    BY <1>2 DEF IsCharacterExists, webVars, sessionVars, dbVars, Goes
  <2>2. PICK m \in Request, u \in Users : m = at[k].request /\ u = at[k].account
    BY <1>t, <2>1, WorkOps
  <2>3. \/ PlaysFor(m.character, u) /\ Reply(m, u)
        \/ Reply(m, Zero)
    BY <1>2, <2>2 DEF IsCharacterExists
  <2>4. \A l \in Lobbies : Mails(l)' = Mails(l)
    BY <2>1 DEF Mails
  <2>5. /\ at' \in [Lobbies -> Work] /\ \A l \in Lobbies \ {k} : at'[l] = at[l]
        /\ at'[k].op = "idle"
    BY <1>t, <1>i, <2>1
  <2>6. \E id \in Users \cup {Zero} : Reply(m, id) /\ (id # Zero => id = at[k].account
                     /\ m = at[k].request /\ at[k].op = "check" /\ PlaysFor(m.character, id))
    BY <2>1, <2>2, <2>3
  <2> QED
    BY <1>t, <2>1, <2>4, <2>5, <2>6
<1> QED
  BY <1>1, <1>2 DEF CharacterLogin

LEMMA ReplyType ==
  ASSUME world \in [Worlds -> WorldSession], NEW m \in Request, NEW id \in Users \cup {Zero},
         Reply(m, id)
  PROVE  world' \in [Worlds -> WorldSession]
<1> DEFINE x == [step |-> "answered", token |-> m.token, character |-> m.character,
                 account |-> id]
<1>1. m.world \in Worlds /\ m.token \in Tokens /\ m.character \in Characters
  BY DEF Request
<1>2. x \in WorldSession
  BY <1>1 DEF WorldSession
<1>3. world' = world \/ world' = [world EXCEPT ![m.world] = x]
  BY DEF Reply
<1> HIDE DEF x
<1> QED
  BY <1>1, <1>2, <1>3

(* Handlers post no greeting but those of hellos said to their lobby, and  *)
(* go to a step only when what it relies on is there; other lobbies have   *)
(* other sessions.                                                         *)
LEMMA LobbyType ==
  ASSUME TypeInv, NEW k \in Lobbies, Lobby(k)
  PROVE  TypeInv'
<1> USE DEF Typed, TypeOK
<1> TypeInv
  OBVIOUS
<1> Typed /\ \A l \in Lobbies : Underway(l)
  BY DEF TypeInv
<1>1. UNCHANGED <<users, documents, logins, said>>
  BY DEF Lobby, tokenVars
<1>2. \A h, l : Belongs(h, l)' = Belongs(h, l)
  BY <1>1 DEF Belongs, Session
<1>3. CASE CharacterLogin(k)
  <2>1. /\ UNCHANGED <<web, open, account, cache, acked, rows, owner>>
        /\ at' \in [Lobbies -> Work] /\ \A l \in Lobbies \ {k} : at'[l] = at[l]
        /\ at'[k].op \in {"idle", "check"}
        /\ mailbox' \in [Lobbies -> Seq(Message)] /\ \A l \in Lobbies : Mails(l)' \subseteq Mails(l)
    BY <1>3, LoginSteps
  <2>2. \A l \in Lobbies : Underway(l)'
    BY <1>1, <1>2, <2>1 DEF Underway, Session
  <2>3. world' \in [Worlds -> WorldSession]
    <3>1. \/ world' = world
          \/ \E m \in Request, id \in Users \cup {Zero} : Reply(m, id)
      BY <1>3, LoginSteps
    <3> QED
      BY <3>1, ReplyType
  <2>4. \A l \in Lobbies : at'[l].op \in {"idle", "wait", "select", "upsert", "check"}
    BY <2>1, WorkOps
  <2> QED
    BY <1>1, <2>1, <2>2, <2>3, <2>4 DEF TypeInv
<1>4. ASSUME OnHelloServer(k), world' = world
      PROVE  TypeInv'
  <2> DEFINE m == [op |-> "consume", hello |-> Head(mailbox[k]).hello]
  <2>1. UNCHANGED <<web, at, open, account, cache, rows, owner, acked>> /\ Takes(k, "hello") /\ RestAndPost(k, m)
    BY <1>4 DEF OnHelloServer, webVars, lobbyVars, sessionVars, dbVars
  <2>2. mailbox[k] # <<>> /\ m \in Message /\ Belongs(m.hello, k)
    BY <2>1, TakesMail DEF Greeting, Message
  <2>3. /\ mailbox' \in [Lobbies -> Seq(Message)]
        /\ \A l \in Lobbies : \A n \in Mails(l)' : n \in Mails(l) \/ (l = k /\ n = m)
    BY <2>1, <2>2, RestAndPostMails
  <2>4. \A l \in Lobbies : Underway(l)'
    BY <1>1, <1>2, <2>1, <2>2, <2>3 DEF Underway, Session
  <2> QED
    BY <1>1, <1>4, <2>1, <2>3, <2>4 DEF TypeInv
<1>5. ASSUME ConsumeToken(k), world' = world
      PROVE  TypeInv'
  <2> DEFINE h == Head(mailbox[k]).hello
             to == [op |-> "wait", hello |-> h]
  <2>1. /\ UNCHANGED <<open, account, cache, rows, owner, acked>>
        /\ Takes(k, "consume") /\ Rest(k)
        /\ web' = [web EXCEPT ![h] = "find"] /\ at' = [at EXCEPT ![k] = to]
    BY <1>5 DEF ConsumeToken, sessionVars, dbVars, Answers, Goes
  <2>2. mailbox[k] # <<>> /\ to \in Work /\ Belongs(to.hello, k) /\ to.op = "wait"
    BY <2>1, TakesMail DEF Greeting, Work
  <2> HIDE DEF to
  <2>3. /\ mailbox' \in [Lobbies -> Seq(Message)]
        /\ \A l \in Lobbies : Mails(l)' \subseteq Mails(l)
    BY <2>1, <2>2, RestMails
  <2>4. \A l \in Lobbies : Underway(l)'
    BY <1>1, <1>2, <2>1, <2>2, <2>3 DEF Underway, Session
  <2> QED
    BY <1>1, <1>5, <2>1, <2>2, <2>3, <2>4 DEF TypeInv
<1>6. ASSUME TokenValidated(k), world' = world
      PROVE  TypeInv'
  <2> DEFINE m == [op |-> "load", hello |-> at[k].hello]
  <2>1. /\ UNCHANGED <<web, open, account, cache, rows, owner, acked>>
        /\ at[k].op = "wait" /\ Post(k, m) /\ at' = [at EXCEPT ![k] = Idle]
    BY <1>6 DEF TokenValidated, webVars, sessionVars, dbVars, Goes
  <2>2. m \in Message /\ Belongs(m.hello, k)
    BY <2>1, HelloSession DEF Underway, Belongs, Message
  <2> HIDE DEF m
  <2>3. /\ mailbox' \in [Lobbies -> Seq(Message)]
        /\ \A l \in Lobbies : \A n \in Mails(l)' : n \in Mails(l) \/ (l = k /\ n = m)
    BY <2>1, <2>2, PostMails
  <2>4. Idle \in Work /\ Idle.op = "idle"
    BY DEF Work, Idle
  <2>5. \A l \in Lobbies : Underway(l)'
    BY <1>1, <1>2, <2>1, <2>2, <2>3, <2>4 DEF Underway, Session
  <2> QED
    BY <1>1, <1>6, <2>1, <2>3, <2>4, <2>5 DEF TypeInv
<1>7. ASSUME TokenRefused(k), world' = world
      PROVE  TypeInv'
  <2>1. /\ UNCHANGED <<web, mailbox, account, cache, rows, owner, acked>>
        /\ open' \subseteq open /\ at' = [at EXCEPT ![k] = Idle]
    BY <1>7 DEF TokenRefused, webVars, dbVars, Goes, Disconnect
  <2>2. Idle \in Work /\ Idle.op = "idle"
    BY DEF Work, Idle
  <2>3. \A l \in Lobbies : Underway(l)'
    BY <1>1, <1>2, <2>1, <2>2 DEF Underway, Session, Mails
  <2> QED
    BY <1>1, <1>7, <2>1, <2>2, <2>3 DEF TypeInv
<1>8. ASSUME UpsertAccount(k), world' = world
      PROVE  TypeInv'
  <2>1. Takes(k, "load") /\ Rest(k) /\ UNCHANGED <<web, cache, acked, owner>>
    BY <1>8 DEF UpsertAccount, webVars
  <2>a. PICK h \in DOMAIN said : h = Head(mailbox[k]).hello /\ LobbyOf[Session(h)] = k
    BY <2>1, TakesMail DEF Greeting, Belongs
  <2> DEFINE s == Session(h)
             u == UserOf[Token(h)]
  <2>2. mailbox[k] # <<>> /\ at[k].op = "idle" /\ LobbyOf[s] = k
    BY <2>1, <2>a, TakesMail
  <2>3. /\ s \in Sessions /\ Token(h) \in Tokens /\ u \in Users
        /\ \A l \in Lobbies : at[l].op = "select" =>
              Session(at[l].hello) \in Sessions /\ LobbyOf[Session(at[l].hello)] = l
        /\ \A l \in Lobbies : at[l].op = "upsert" => at[l].session \in Sessions
    <3>1. s \in Sessions /\ Token(h) \in Tokens
      BY HelloSession
    <3>2. u \in Users
      BY <3>1, LoginAssumption
    <3>3. \A l \in Lobbies : at[l].op = "select" =>
             Session(at[l].hello) \in Sessions /\ LobbyOf[Session(at[l].hello)] = l
      BY HelloSession DEF Underway, Belongs
    <3>4. \A l \in Lobbies : at[l].op = "upsert" => at[l].session \in Sessions
      BY WorkOps
    <3> QED
      BY <3>1, <3>2, <3>3, <3>4
  <2>4. PICK id \in Users \cup {Zero} :
           /\ account' = [account EXCEPT ![s] = [user |-> u, token |-> Token(h), id |-> id]]
           /\ \/ /\ rows' = [rows EXCEPT ![u] = Token(h)] /\ open' = open
                 /\ at' = [at EXCEPT ![k] = [op |-> "select", hello |-> h]]
              \/ open' \subseteq open /\ rows' = rows /\ at' = at
    <3>1. account[s] \in Account \cup {None}
      BY <2>3
    <3>2. account[s] # None => account[s].id \in Users \cup {Zero}
      BY <3>1 DEF Account
    <3> QED
      BY <1>8, <2>a, <2>3, <3>2 DEF UpsertAccount, Disconnect, Goes, TokenWritten
  <2> HIDE DEF s, u
  <2>5. [user |-> u, token |-> Token(h), id |-> id] \in Account
    BY <2>3 DEF Account
  <2>6. /\ mailbox' \in [Lobbies -> Seq(Message)]
        /\ \A l \in Lobbies : Mails(l)' \subseteq Mails(l)
    <3>1. /\ mailbox' \in [Lobbies -> Seq(Message)]
          /\ Mails(k) = {Head(mailbox[k])} \cup Mails(k)'
          /\ \A l \in Lobbies \ {k} : Mails(l)' = Mails(l)
      BY <2>1, <2>2, RestMails
    <3> QED
      BY <3>1
  <2>7. [user |-> u, token |-> Token(h), id |-> id] # None
    BY <2>5, LoginAssumption
  <2>8. account' \in [Sessions -> Account \cup {None}] /\ rows' \in [Users -> Tokens \cup {None}]
    BY <2>3, <2>4, <2>5
  <2>9. /\ \A r \in Sessions : account[r] # None => account'[r] # None
        /\ \A r \in Sessions \ {s} : account'[r] = account[r]
        /\ \A v \in Users : rows[v] # None => rows'[v] # None
    BY <2>3, <2>4, <2>7, LoginAssumption
  <2>10. ASSUME NEW l \in Lobbies, l # k PROVE Underway(l)'
    <3>1. at'[l] = at[l] /\ Mails(l)' \subseteq Mails(l)
      BY <2>4, <2>6, <2>10
    <3>2. at[l].op = "select" =>
             /\ account'[Session(at[l].hello)] = account[Session(at[l].hello)]
             /\ account[Session(at[l].hello)].user \in Users
      <4>1. SUFFICES ASSUME at[l].op = "select"
                     PROVE  /\ account'[Session(at[l].hello)] = account[Session(at[l].hello)]
                            /\ account[Session(at[l].hello)].user \in Users
        OBVIOUS
      <4>2. Session(at[l].hello) \in Sessions \ {s} /\ account[Session(at[l].hello)] # None
        BY <2>2, <2>3, <2>10, <4>1 DEF Underway
      <4> QED
        BY <2>9, <4>2 DEF Account
    <3> QED
      BY <1>1, <1>2, <2>3, <2>9, <3>1, <3>2 DEF Underway, Session
  <2>11. Underway(k)' /\ at' \in [Lobbies -> Work]
    <3>1. CASE at' = at /\ rows' = rows
      BY <1>1, <1>2, <2>2, <2>6, <3>1 DEF Underway, Session
    <3>2. CASE at' = [at EXCEPT ![k] = [op |-> "select", hello |-> h]] /\ rows' = [rows EXCEPT ![u] = Token(h)]
      <4>1. at'[k].op = "select" /\ at'[k].hello = h /\ Belongs(h, k)
        BY <2>2, <3>2 DEF Belongs, s
      <4>2. account'[s] # None /\ account'[s].user = u /\ rows'[u] = Token(h) /\ Token(h) # None
        BY <2>3, <2>4, <2>7, <3>2, LoginAssumption
      <4>3. Session(h)' = s
        BY <1>1 DEF s, Session
      <4>4. [op |-> "select", hello |-> h] \in Work
        BY <2>2, HelloSession DEF Work
      <4>5. Session(at[k].hello)' = s
        BY <4>1, <1>1 DEF s, Session
      <4>6. \A m \in Mails(k)' : Greeting(m) => Belongs(m.hello, k)'
        BY <1>2, <2>6 DEF Underway
      <4> QED
        BY <1>2, <3>2, <4>1, <4>2, <4>4, <4>5, <4>6 DEF Underway
    <3> QED
      BY <2>4, <3>1, <3>2
  <2>12. open' \subseteq Sessions /\ \A l \in Lobbies : at'[l].op \in {"idle", "wait", "select", "upsert", "check"}
    BY <2>4, <2>11, WorkOps
  <2> QED
    BY <1>1, <1>8, <2>1, <2>6, <2>8, <2>10, <2>11, <2>12 DEF TypeInv
<1>9. ASSUME SelectAccount(k), world' = world
      PROVE  TypeInv'
  <2>1. /\ UNCHANGED <<web, mailbox, cache, rows, owner>>
        /\ at[k].op = "select" /\ at' = [at EXCEPT ![k] = Idle] /\ open' \subseteq open
    BY <1>9 DEF SelectAccount, webVars, dbVars, Goes, Disconnect
  <2>2. PICK h \in DOMAIN said : h = at[k].hello /\ LobbyOf[Session(h)] = k
    BY <2>1 DEF Underway, Belongs
  <2> DEFINE s == Session(h)
  <2>3. s \in Sessions /\ account[s] # None /\ account[s] \in Account
    BY <2>1, <2>2, HelloSession DEF Underway
  <2>4. account[s].user \in Users /\ rows[account[s].user] \in Tokens
    BY <2>1, <2>2, <2>3 DEF Underway, Account
  <2>5. \/ account' = [account EXCEPT ![s].token = rows[account[s].user]] /\ acked' = acked \cup {h}
        \/ account' = account /\ acked' = acked
    BY <1>9, <2>2 DEF SelectAccount
  <2> HIDE DEF s
  <2>6. [account[s] EXCEPT !.token = rows[account[s].user]] \in Account
    BY <2>3, <2>4 DEF Account
  <2>b. [account[s] EXCEPT !.token = rows[account[s].user]].user = account[s].user
    BY <2>3 DEF Account
  <2> DEFINE new == [account[s] EXCEPT !.token = rows[account[s].user]]
  <2>c. new \in Account /\ new # None /\ new.user = account[s].user
    BY <2>6, <2>b, LoginAssumption
  <2>d. account' = [account EXCEPT ![s] = new] \/ account' = account
    BY <2>5
  <2> HIDE DEF new
  <2>7. /\ account' \in [Sessions -> Account \cup {None}] /\ acked' \subseteq DOMAIN said
        /\ \A r \in Sessions : account[r] # None =>
              account'[r] # None /\ account'[r].user = account[r].user
    BY <2>3, <2>5, <2>c, <2>d
  <2>8. Idle \in Work /\ Idle.op = "idle"
    BY DEF Work, Idle
  <2>9. /\ \A l \in Lobbies : at[l].op = "select" => Session(at[l].hello) \in Sessions
        /\ \A l \in Lobbies : at[l].op = "upsert" => at[l].session \in Sessions
    BY HelloSession, WorkOps DEF Underway, Belongs
  <2>10. ASSUME NEW l \in Lobbies PROVE Underway(l)'
    <3>1. CASE l = k
      BY <1>1, <1>2, <2>1, <2>8, <3>1 DEF Underway, Mails
    <3>2. CASE l # k
      <4>1. at'[l] = at[l] /\ Mails(l)' = Mails(l)
        BY <2>1, <3>2 DEF Mails
      <4>2. Session(at[l].hello)' = Session(at[l].hello)
        BY <1>1, <4>1 DEF Session
      <4>3. at[l].op = "select" => account'[Session(at[l].hello)] # None
                                   /\ rows[account'[Session(at[l].hello)].user] # None
        BY <2>7, <2>9 DEF Underway
      <4>4. at[l].op = "upsert" => account'[at[l].session] # None
        BY <2>7, <2>9 DEF Underway
      <4> QED
        BY <1>2, <2>1, <4>1, <4>2, <4>3, <4>4 DEF Underway
    <3> QED
      BY <3>1, <3>2
  <2> QED
    BY <1>1, <1>9, <2>1, <2>7, <2>8, <2>10 DEF TypeInv
<1>10. ASSUME OnCreateCharacterReq(k), world' = world
       PROVE  TypeInv'
  <2>1. /\ UNCHANGED <<web, open, account, cache, acked, rows, owner>>
        /\ Takes(k, "create") /\ Rest(k)
    BY <1>10 DEF OnCreateCharacterReq, webVars, sessionVars, dbVars
  <2>2. PICK s \in Sessions, c \in Characters :
           /\ s = Head(mailbox[k]).session /\ c = Head(mailbox[k]).character
           /\ mailbox[k] # <<>> /\ at[k].op = "idle"
           /\ Head(mailbox[k]) \in Message /\ Head(mailbox[k]).op = "create"
    BY <2>1, TakesMail
  <2> DEFINE m == Head(mailbox[k])
  <2>3. m = [op |-> "create", session |-> s, character |-> c]
    <3> HIDE DEF m
    <3>1. m \in [op : {"create"}, session : Sessions, character : Characters]
      BY <2>2 DEF m, Message, Request
    <3> QED
      BY <2>2, <3>1 DEF m
  <2>4. \/ account[s] # None /\ at' = [at EXCEPT ![k] = [m EXCEPT !.op = "upsert"]]
        \/ at' = at
    BY <1>10, <2>2 DEF OnCreateCharacterReq, Goes
  <2> DEFINE to == [op |-> "upsert", session |-> s, character |-> c]
  <2>5. [m EXCEPT !.op = "upsert"] = to
    <3> HIDE DEF m
    <3>1. [[op |-> "create", session |-> s, character |-> c] EXCEPT !.op = "upsert"] = to
      OBVIOUS
    <3> QED
      BY <2>3, <3>1
  <2>6. to \in Work /\ to.op = "upsert" /\ to.session = s
    BY DEF Work
  <2> HIDE DEF m, to
  <2>7. /\ mailbox' \in [Lobbies -> Seq(Message)]
        /\ \A l \in Lobbies : Mails(l)' \subseteq Mails(l)
    BY <2>1, <2>2, RestMails
  <2>8. \A l \in Lobbies : Underway(l)'
    BY <1>1, <1>2, <2>1, <2>2, <2>4, <2>5, <2>6, <2>7 DEF Underway, Session
  <2>9. at' \in [Lobbies -> Work] /\ \A l \in Lobbies : at'[l].op \in {"idle", "wait", "select", "upsert", "check"}
    BY <2>4, <2>5, <2>6, WorkOps
  <2> QED
    BY <1>1, <1>10, <2>1, <2>7, <2>8, <2>9 DEF TypeInv
<1>11. ASSUME UpsertCharacter(k), world' = world
       PROVE  TypeInv'
  <2>1. /\ UNCHANGED <<web, mailbox, open, account, acked, rows>>
        /\ at[k].op = "upsert" /\ at' = [at EXCEPT ![k] = Idle]
    BY <1>11 DEF UpsertCharacter, webVars, Goes
  <2>2. at[k].session \in Sessions /\ at[k].character \in Characters
    BY <2>1, WorkOps
  <2>3. account[at[k].session].id \in Users \cup {Zero}
    BY <2>1, <2>2 DEF Underway, Account
  <2>4. /\ owner' \in [Characters -> Users \cup {Zero, None}]
        /\ cache' \in [Sessions -> SUBSET Characters]
    <3>1. PICK s \in Sessions, c \in Characters : s = at[k].session /\ c = at[k].character
      BY <2>2
    <3>2. cache' = cache \/ cache' = [cache EXCEPT ![s] = cache[s] \cup {c}]
      BY <1>11, <3>1 DEF UpsertCharacter
    <3>3. owner' = owner \/ owner' = [owner EXCEPT ![c] = account[s].id]
      BY <1>11, <3>1 DEF UpsertCharacter
    <3>4. cache[s] \cup {c} \in SUBSET Characters /\ account[s].id \in Users \cup {Zero, None}
      BY <2>3, <3>1
    <3>5. cache' \in [Sessions -> SUBSET Characters]
      BY <3>2, <3>4
    <3>6. owner' \in [Characters -> Users \cup {Zero, None}]
      BY <3>3, <3>4
    <3> QED
      BY <3>5, <3>6
  <2>5. Idle \in Work /\ Idle.op = "idle"
    BY DEF Work, Idle
  <2>6. \A l \in Lobbies : Underway(l)'
    BY <1>1, <1>2, <2>1, <2>5 DEF Underway, Mails, Session
  <2> QED
    BY <1>1, <1>11, <2>1, <2>4, <2>5, <2>6 DEF TypeInv
<1>12. ASSUME OnGetCharacterListReq(k), world' = world
       PROVE  TypeInv'
  <2>1. /\ UNCHANGED <<web, open, account, acked, rows, owner, at>>
        /\ Takes(k, "list") /\ Rest(k)
    BY <1>12 DEF OnGetCharacterListReq, webVars, dbVars
  <2>2. mailbox[k] # <<>> /\ Head(mailbox[k]).session \in Sessions
    BY <2>1, TakesMail
  <2>3. cache' \in [Sessions -> SUBSET Characters]
    <3>1. PICK s \in Sessions : s = Head(mailbox[k]).session
      BY <2>2
    <3>2. PICK found \in SUBSET Characters : found = CharactersOf(account[s].id)
      BY DEF CharactersOf
    <3>3. cache' = [cache EXCEPT ![s] = cache[s] \cup found] \/ cache' = cache
      BY <1>12, <3>1, <3>2 DEF OnGetCharacterListReq
    <3> QED
      BY <3>3
  <2>4. /\ mailbox' \in [Lobbies -> Seq(Message)]
        /\ \A l \in Lobbies : Mails(l)' \subseteq Mails(l)
    BY <2>1, <2>2, RestMails
  <2>5. \A l \in Lobbies : Underway(l)'
    BY <1>1, <1>2, <2>1, <2>4 DEF Underway, Session
  <2> QED
    BY <1>1, <1>12, <2>1, <2>3, <2>4, <2>5 DEF TypeInv
<1> QED
  BY <1>3, <1>4, <1>5, <1>6, <1>7, <1>8, <1>9, <1>10, <1>11, <1>12 DEF Lobby

LEMMA WorldType ==
  ASSUME TypeInv, World
  PROVE  TypeInv'
<1> USE DEF Typed, TypeOK
<1> Typed /\ \A l \in Lobbies : Underway(l)
  BY DEF TypeInv
<1>1. UNCHANGED <<users, documents, logins, said, web, at, open, account, cache, acked, rows, owner>>
  BY DEF World, OnRecvHelloWorldServer, CharacterLoggedIn, CallFailed, Quiet, tokenVars,
         webVars, lobbyVars, sessionVars, dbVars
<1>2. \A h, l : Belongs(h, l)' = Belongs(h, l)
  BY <1>1 DEF Belongs, Session
<1>3. ASSUME NEW w \in Worlds, NEW t \in Tokens, NEW c \in Characters,
             OnRecvHelloWorldServer(w, t, c)
      PROVE  TypeInv'
  <2> DEFINE m == [op |-> "login", world |-> w, token |-> t, character |-> c]
             x == [step |-> "asked", token |-> t, character |-> c]
  <2>1. Post(Home, m) /\ world' = [world EXCEPT ![w] = x]
    BY <1>3 DEF OnRecvHelloWorldServer
  <2>2. m \in Message /\ ~Greeting(m) /\ x \in WorldSession
    BY DEF Message, Request, Greeting, WorldSession
  <2> HIDE DEF m, x
  <2>3. /\ mailbox' \in [Lobbies -> Seq(Message)]
        /\ \A l \in Lobbies : \A n \in Mails(l)' : n \in Mails(l) \/ n = m
    <3>1. PICK k \in Lobbies : k = Home
      BY LoginAssumption
    <3>2. Post(k, m) /\ m \in Message /\ mailbox \in [Lobbies -> Seq(Message)]
      BY <2>1, <2>2, <3>1
    <3>3. /\ mailbox' \in [Lobbies -> Seq(Message)] /\ Mails(k)' = Mails(k) \cup {m}
          /\ \A l \in Lobbies \ {k} : Mails(l)' = Mails(l)
      BY <3>2, PostMails
    <3> QED
      BY <3>3
  <2>4. \A l \in Lobbies : Underway(l)'
    BY <1>1, <1>2, <2>2, <2>3 DEF Underway, Session
  <2> QED
    BY <1>1, <2>1, <2>2, <2>3, <2>4 DEF TypeInv
<1>4. ASSUME NEW w \in Worlds, CharacterLoggedIn(w) \/ CallFailed(w)
      PROVE  TypeInv'
  <2>1. /\ mailbox' = mailbox
        /\ \/ world[w].step = "answered" /\ world' = [world EXCEPT ![w].step = "in"]
           \/ world' = [world EXCEPT ![w] = [step |-> "out"]]
    BY <1>4 DEF CharacterLoggedIn, CallFailed
  <2>2. /\ [step |-> "out"] \in WorldSession
        /\ world[w].step = "answered" => [world[w] EXCEPT !.step = "in"] \in WorldSession
    <3>1. world[w] \in WorldSession
      OBVIOUS
    <3>2. world[w].step = "answered" =>
             world[w] \in [step : {"answered", "in"}, token : Tokens, character : Characters,
                           account : Users \cup {Zero}]
      BY <3>1 DEF WorldSession
    <3> QED
      BY <3>2 DEF WorldSession
  <2>3. \A l \in Lobbies : Underway(l)'
    BY <1>1, <1>2, <2>1 DEF Underway, Session, Mails
  <2> QED
    BY <1>1, <2>1, <2>2, <2>3 DEF TypeInv
<1> QED
  BY <1>3, <1>4 DEF World

LEMMA TypeStep == TypeInv /\ [Next]_vars => TypeInv'
<1>1. ASSUME TypeInv, UNCHANGED vars PROVE TypeInv'
  <2>1. UNCHANGED <<users, documents, logins, said, web, mailbox, at, open, account, cache, acked,
                    rows, owner, world>>
    BY <1>1 DEF vars, tokenVars, webVars, lobbyVars, sessionVars, dbVars
  <2>2. \A l \in Lobbies : Underway(l)'
    BY <1>1, <2>1 DEF TypeInv, Underway, Belongs, Session, Mails
  <2> QED
    BY <1>1, <2>1, <2>2 DEF TypeInv, Typed, TypeOK
<1> QED
  BY <1>1, WebType, ClientType, LobbyType, WorldType DEF Next

LEMMA TypeAlways == Spec => []TypeInv
BY TypeInit, TypeStep, PTL DEF Spec

(* Type correctness, for any number of users, lobbies, sessions and hellos. *)
THEOREM LoginTypeTheorem == Spec => []TypeOK
<1>1. TypeInv => TypeOK
  BY DEF TypeInv, Typed
<1> QED
  BY <1>1, TypeAlways, PTL

-----------------------------------------------------------------------------
(* A set whose elements are all the same has at most one.                  *)
LEMMA AtMostOne ==
  ASSUME NEW S, \A x, y \in S : x = y
  PROVE  Cardinality(S) <= 1
<1>1. CASE S = {}
  BY <1>1, FS_EmptySet
<1>2. ASSUME NEW x \in S PROVE Cardinality(S) <= 1
  <2>1. S = {x}
    BY <1>2
  <2> QED
    BY <2>1, FS_Singleton
<1> QED
  BY <1>1, <1>2

(* Only a log-in and a deletion touch the documents. *)
LEMMA TokensFrame ==
  ASSUME TokensInv, UNCHANGED <<documents, logins, raced>>, gone' = gone
  PROVE  TokensInv'
BY DEF TokensInv, TokensOf, Stored

LEMMA LoginTokens ==
  ASSUME TypeInv, TokensInv, TokenService
  PROVE  TokensInv'
<1> USE DEF TokensOf, Stored
<1>t. /\ documents \subseteq [user : Users, token : Tokens]
      /\ logins \in [Tokens -> {"idle", "find", "update", "insert", "answered", "failed"}]
      /\ UserOf \in [Tokens -> Users]
  BY LoginAssumption DEF TypeInv, Typed, TypeOK
<1>u. ASSUME NEW t \in Tokens, GetUserByUserName(t) PROVE TokensInv'
  <2>1. UNCHANGED <<documents, gone, raced>> /\ logins' = [logins EXCEPT ![t] = "find"]
        /\ logins[t] = "idle"
    BY <1>u DEF GetUserByUserName, Moves
  <2>2. \A o \in Tokens : \/ logins'[o] = logins[o]
                          \/ logins[o] = "idle" /\ logins'[o] = "find"
    BY <1>t, <2>1
  <2> QED
    BY <1>t, <2>1, <2>2 DEF TokensInv
<1>1. ASSUME NEW t \in Tokens, LoginFinds(t) PROVE TokensInv'
  <2>1. documents' = documents /\ gone' = gone /\ raced \subseteq raced'
    BY <1>1 DEF LoginFinds
  <2>2. \A o \in Tokens : logins'[o] = "answered" <=> logins[o] = "answered"
    BY <1>1, <1>t DEF LoginFinds, Moves
  <2>3. CASE logins' = [logins EXCEPT ![t] = "update"]
    BY <1>t, <2>1, <2>2, <2>3 DEF TokensInv
  <2>4. CASE /\ logins' = [logins EXCEPT ![t] = "insert"] /\ TokensOf(UserOf[t]) = {}
             /\ raced' = raced \cup {v \in {UserOf[t]} : \E o \in Tokens \ {t} :
                                       UserOf[o] = v /\ logins[o] = "insert"}
    <3>1. \A o \in Tokens \ {t} : logins'[o] = logins[o]
      BY <1>t, <2>4
    <3>2. UserOf[t] \notin raced' => \A o \in Tokens \ {t} : UserOf[o] = UserOf[t] => logins[o] # "insert"
      BY <2>4
    <3> QED
      BY <1>t, <2>1, <2>2, <2>4, <3>1, <3>2 DEF TokensInv
  <2> QED
    BY <1>1, <2>3, <2>4 DEF LoginFinds, Moves
<1>2. ASSUME NEW t \in Tokens, LoginUpdates(t) PROVE TokensInv'
  <2>1. /\ raced' = raced /\ \A o \in Tokens \ {t} : logins'[o] = logins[o]
        /\ logins'[t] \in {"answered", "failed"}
    BY <1>2, <1>t DEF LoginUpdates, Moves
  <2>2. CASE UNCHANGED <<documents, gone>> /\ logins'[t] = "failed"
    BY <1>t, <2>1, <2>2 DEF TokensInv
  <2>3. ASSUME NEW d \in TokensOf(UserOf[t]),
               documents' = (documents \ {d}) \cup {[d EXCEPT !.token = t]},
               gone' = gone \cup {d.token}
        PROVE  TokensInv'
    <3> DEFINE e == [d EXCEPT !.token = t]
    <3>1. d \in [user : Users, token : Tokens] /\ d.user = UserOf[t]
      BY <1>t
    <3>2. e.user = UserOf[t] /\ e.token = t
      BY <3>1
    <3>3. documents' = (documents \ {d}) \cup {e}
      BY <2>3
    <3> HIDE DEF e
    <3>4. ASSUME NEW u \in Users \ raced'
          PROVE  /\ \A x, y \in TokensOf(u)' : x = y
                 /\ \A o \in Tokens : UserOf[o] = u /\ logins'[o] = "insert" => TokensOf(u)' = {}
      <4>1. CASE u = UserOf[t]
        <5>1. \A x \in TokensOf(u) : x = d
          BY <2>1, <2>3, <4>1 DEF TokensInv
        <5>2. TokensOf(u)' = {e}
          BY <3>2, <3>3, <4>1, <5>1
        <5>3. \A o \in Tokens : UserOf[o] = u => logins[o] # "insert"
          BY <2>1, <2>3, <4>1 DEF TokensInv
        <5> QED
          BY <2>1, <5>2, <5>3
      <4>2. CASE u # UserOf[t]
        <5>1. TokensOf(u)' = TokensOf(u)
          BY <3>1, <3>2, <3>3, <4>2
        <5> QED
          BY <2>1, <4>2, <5>1 DEF TokensInv
      <4> QED
        BY <4>1, <4>2
    <3>5. \A u \in Users \ raced' : \A o, p \in Tokens :
             UserOf[o] = u /\ UserOf[p] = u /\ logins'[o] = "insert" /\ logins'[p] = "insert" => o = p
      BY <2>1 DEF TokensInv
    <3>6. ASSUME NEW o \in Tokens, logins'[o] = "answered"
          PROVE  Stored(o)' # {} \/ o \in gone'
      <4>1. CASE o = t
        BY <3>2, <3>3, <4>1
      <4>2. CASE o # t
        <5>1. Stored(o) # {} \/ o \in gone
          BY <2>1, <3>6, <4>2 DEF TokensInv
        <5>2. d \in Stored(o) => o \in gone'
          BY <2>3
        <5>3. d \notin Stored(o) => Stored(o) \subseteq Stored(o)'
          BY <3>3
        <5> QED
          BY <2>3, <5>1, <5>2, <5>3
      <4> QED
        BY <4>1, <4>2
    <3> QED
      BY <3>4, <3>5, <3>6 DEF TokensInv
  <2> QED
    BY <1>2, <1>t, <2>2, <2>3 DEF LoginUpdates, Moves
<1>3. ASSUME NEW t \in Tokens, LoginInserts(t) PROVE TokensInv'
  <2> DEFINE e == [user |-> UserOf[t], token |-> t]
  <2>1. /\ raced' = raced /\ gone' = gone /\ documents' = documents \cup {e}
        /\ logins[t] = "insert" /\ logins' = [logins EXCEPT ![t] = "answered"]
    BY <1>3 DEF LoginInserts, Moves
  <2>2. e.user = UserOf[t] /\ e.token = t
    OBVIOUS
  <2> HIDE DEF e
  <2>3. \A u \in Users : TokensOf(u)' = IF u = UserOf[t] THEN TokensOf(u) \cup {e} ELSE TokensOf(u)
    BY <2>1, <2>2
  <2>4. \A o \in Tokens \ {t} : logins'[o] = logins[o]
    BY <1>t, <2>1
  <2>5. logins'[t] = "answered"
    BY <1>t, <2>1
  <2>6. \A o \in Tokens : Stored(o) \subseteq Stored(o)' /\ e \in Stored(t)'
    BY <2>1, <2>2
  <2>7. ASSUME NEW u \in Users \ raced
        PROVE  /\ \A x, y \in TokensOf(u)' : x = y
               /\ \A o \in Tokens : UserOf[o] = u /\ logins'[o] = "insert" => TokensOf(u)' = {}
    <3>1. CASE u = UserOf[t]
      <4>1. TokensOf(u) = {}
        BY <2>1, <3>1 DEF TokensInv
      <4>2. \A o \in Tokens : UserOf[o] = u /\ logins[o] = "insert" => o = t
        BY <2>1, <2>7, <3>1 DEF TokensInv
      <4> QED
        BY <2>3, <2>4, <2>5, <4>1, <4>2, <3>1
    <3>2. CASE u # UserOf[t]
      BY <2>3, <2>4, <2>7, <3>2 DEF TokensInv
    <3> QED
      BY <3>1, <3>2
  <2>8. \A u \in Users \ raced' : \A o, p \in Tokens :
           UserOf[o] = u /\ UserOf[p] = u /\ logins'[o] = "insert" /\ logins'[p] = "insert" => o = p
    BY <2>1, <2>4, <2>5 DEF TokensInv
  <2>9. \A o \in Tokens : logins'[o] = "answered" => Stored(o)' # {} \/ o \in gone'
    BY <2>1, <2>4, <2>6 DEF TokensInv
  <2> QED
    BY <2>1, <2>7, <2>8, <2>9 DEF TokensInv
<1>4. ASSUME NEW u \in Users, DeleteAccountByUserName(u) PROVE TokensInv'
  BY <1>4, TokensFrame DEF DeleteAccountByUserName
<1> QED
  BY <1>u, <1>1, <1>2, <1>3, <1>4 DEF TokenService

LEMMA TokensStep == TypeInv /\ TokensInv /\ [Next]_vars => TokensInv'
<1>1. ASSUME TokensInv, NEW h \in Hellos, DeleteToken(h), UNCHANGED <<logins, raced>>
      PROVE  TokensInv'
  <2>1. /\ documents' \subseteq documents
        /\ \A t \in Tokens : t = Token(h) \/ Stored(t)' = Stored(t)
        /\ Stored(Token(h)) # {} => Token(h) \in gone'
        /\ gone \subseteq gone'
    BY <1>1 DEF DeleteToken, Stored
  <2>2. \A u \in Users : TokensOf(u)' \subseteq TokensOf(u)
    BY <2>1 DEF TokensOf
  <2>3. \A t \in Tokens : logins'[t] = "answered" => Stored(t)' # {} \/ t \in gone'
    BY <1>1, <2>1 DEF TokensInv
  <2> QED
    BY <1>1, <2>2, <2>3 DEF TokensInv
<1>2. ASSUME TokensInv, Validation PROVE TokensInv'
  BY <1>1, <1>2, TokensFrame DEF Validation, FindToken, GetUserByUserId
<1>3. ASSUME TokensInv, Client \/ World \/ \E l \in Lobbies : Lobby(l) PROVE TokensInv'
  BY <1>3, TokensFrame
     DEF Client, ClientSaysHello, ClientRequests, World, OnRecvHelloWorldServer, CharacterLoggedIn,
         CallFailed, Lobby, Quiet, tokenVars
<1>4. ASSUME TokensInv, UNCHANGED vars PROVE TokensInv'
  BY <1>4, TokensFrame DEF vars, tokenVars
<1> QED
  BY <1>2, <1>3, <1>4, LoginTokens DEF Next

(* A user has one token unless its log-ins raced, and a token is there     *)
(* until it is consumed or replaced: for any number of log-ins of any      *)
(* users, interleaved in any way with each other and with validations.     *)
THEOREM OneTokenTheorem == Spec => []OneTokenPerUser
<1>1. Init => TokensInv
  <2> SUFFICES ASSUME Init PROVE TokensInv
    OBVIOUS
  <2>1. documents = {} /\ \A t \in Tokens : logins[t] = "idle"
    BY DEF Init
  <2> QED
    BY <2>1 DEF TokensInv, TokensOf
<1>2. TokensInv => OneTokenPerUser
  <2>1. ASSUME TokensInv, NEW u \in Users \ raced PROVE Cardinality(TokensOf(u)) <= 1
    BY <2>1, AtMostOne DEF TokensInv
  <2> QED
    BY <2>1 DEF TokensInv, OneTokenPerUser
<1> QED
  BY <1>1, <1>2, TypeAlways, TokensStep, PTL DEF Spec

-----------------------------------------------------------------------------
(* What a lobby does to the validations: it starts one for a hello said to *)
(* it that has none.                                                       *)
LEMMA LobbyWeb ==
  ASSUME TypeInv, ValidInv, NEW k \in Lobbies, Lobby(k)
  PROVE  /\ UNCHANGED <<documents, said, logins, gone, overlapped>>
         /\ \/ web' = web
            \/ \E h \in DOMAIN said : /\ web[h] = "none" /\ web' = [web EXCEPT ![h] = "find"]
                                    /\ ConsumeToken(k) /\ h = Head(mailbox[k]).hello
<1>1. UNCHANGED <<documents, said, logins, gone, overlapped>>
  BY DEF Lobby, tokenVars, CharacterLogin, LoadByAccessToken, IsCharacterExists, webVars, OnHelloServer, ConsumeToken, TokenValidated,
         TokenRefused, UpsertAccount, SelectAccount, OnCreateCharacterReq, UpsertCharacter,
         OnGetCharacterListReq
<1>2. CASE ConsumeToken(k)
  <2> DEFINE m == Head(mailbox[k])
  <2>1. Takes(k, "consume") /\ web' = [web EXCEPT ![m.hello] = "find"]
    BY <1>2 DEF ConsumeToken, Answers
  <2>2. m \in Mails(k) /\ m.op = "consume" /\ m.hello \in DOMAIN said
    BY <2>1, TakesMail DEF Greeting, Belongs
  <2>3. web[m.hello] = "none"
    BY <2>2 DEF ValidInv, Unconsumed
  <2> QED
    BY <1>1, <1>2, <2>1, <2>2, <2>3
<1>3. CASE ~ConsumeToken(k)
  BY <1>1, <1>3 DEF Lobby, CharacterLogin, LoadByAccessToken, IsCharacterExists, webVars,
         OnHelloServer, TokenValidated, TokenRefused,
         UpsertAccount, SelectAccount, OnCreateCharacterReq, UpsertCharacter, OnGetCharacterListReq
<1> QED
  BY <1>2, <1>3

LEMMA ConsumedStep == TypeInv /\ ValidInv /\ ConsumedInv /\ [Next]_vars => ConsumedInv'
<1> SUFFICES ASSUME TypeInv, ValidInv, ConsumedInv, [Next]_vars PROVE ConsumedInv'
  OBVIOUS
<1>t. /\ web \in [Hellos -> {"none", "find", "delete", "user", "valid", "invalid"}]
      /\ DOMAIN said \subseteq Hellos /\ \A h \in DOMAIN said : Token(h) \in Tokens
      /\ logins \in [Tokens -> {"idle", "find", "update", "insert", "answered", "failed"}]
      /\ documents \subseteq [user : Users, token : Tokens]
  BY HelloSession DEF TypeInv, Typed, TypeOK
<1>1. ASSUME UNCHANGED <<said, web, logins>>, overlapped' = overlapped,
             \A t \in Tokens : Stored(t)' \subseteq Stored(t)
      PROVE  ConsumedInv'
  BY <1>t, <1>1 DEF ConsumedInv, Past, Token
<1>2. ASSUME TokenService PROVE ConsumedInv'
  <2>1. UNCHANGED <<said, web, overlapped>>
    BY <1>2 DEF TokenService, webVars
  <2>2. ASSUME NEW t \in Tokens, GetUserByUserName(t) \/ LoginFinds(t) \/ LoginUpdates(t) \/ LoginInserts(t)
        PROVE  /\ logins[t] # "answered" /\ \A o \in Tokens \ {t} : logins'[o] = logins[o]
               /\ \A d \in documents' : d \in documents \/ d.token = t
    BY <1>t, <2>2 DEF GetUserByUserName, LoginFinds, LoginUpdates, LoginInserts, Moves, TokensOf
  <2>3. ASSUME NEW u \in Users, DeleteAccountByUserName(u)
        PROVE  ConsumedInv'
    BY <1>1, <2>1, <2>3 DEF DeleteAccountByUserName, Stored
  <2>4. ASSUME NEW t \in Tokens, GetUserByUserName(t) \/ LoginFinds(t) \/ LoginUpdates(t) \/ LoginInserts(t)
        PROVE  ConsumedInv'
    <3>1. \A h \in DOMAIN said : Token(h) # t /\ logins'[Token(h)] = "answered"
      BY <1>t, <2>2, <2>4 DEF ConsumedInv
    <3>2. \A h \in DOMAIN said : Stored(Token(h))' \subseteq Stored(Token(h))
      BY <2>1, <2>2, <2>4, <3>1 DEF Stored, Token
    <3> QED
      BY <2>1, <3>1, <3>2 DEF ConsumedInv, Past, Token
  <2> QED
    BY <1>2, <2>3, <2>4 DEF TokenService
<1>3. ASSUME Validation PROVE ConsumedInv'
  <2>1. UNCHANGED <<said, logins>>
    BY <1>3 DEF Validation
  <2>2. PICK h \in Hellos : FindToken(h) \/ DeleteToken(h) \/ GetUserByUserId(h)
    BY <1>3 DEF Validation
  <2>3. web[h] # "none" /\ h \in DOMAIN said
    BY <2>2 DEF FindToken, DeleteToken, GetUserByUserId, ConsumedInv
  <2>4. \A g \in DOMAIN said : Token(g)' = Token(g)
    BY <2>1 DEF Token
  <2>5. \A g \in Hellos \ {h} : web'[g] = web[g]
    BY <2>2, <1>t DEF FindToken, DeleteToken, GetUserByUserId, Answers
  <2>6. CASE FindToken(h)
    <3>1. /\ web[h] = "find" /\ documents' = documents
          /\ web'[h] = IF Stored(Token(h)) # {} THEN "delete" ELSE "invalid"
          /\ overlapped' = overlapped \cup {t \in {Token(h)} : \E o \in Hellos :
                        o # h /\ web[o] = "delete" /\ Token(o) = t}
      BY <1>t, <2>6 DEF FindToken, Answers
    <3>2. \A g \in DOMAIN said : Stored(Token(g))' = Stored(Token(g))
      BY <2>4, <3>1 DEF Stored
    <3>3. ASSUME NEW g \in DOMAIN said, g # h, Past(g), Token(g) = Token(h), Past(h)',
                 Token(h) \notin overlapped'
          PROVE  FALSE
      <4>1. Stored(Token(h)) # {}
        BY <3>1, <3>3 DEF Past
      <4>2. web[g] = "delete"
        BY <3>3, <4>1 DEF ConsumedInv, Past
      <4> QED
        BY <1>t, <3>1, <3>3, <4>2
    <3> QED
      BY <1>t, <2>1, <2>3, <2>4, <2>5, <3>1, <3>2, <3>3 DEF ConsumedInv, Past
  <2>7. CASE DeleteToken(h)
    <3>1. /\ web[h] = "delete" /\ web'[h] = "user" /\ overlapped' = overlapped
          /\ documents' = documents \ Stored(Token(h))
      BY <1>t, <2>7 DEF DeleteToken, Answers
    <3>2. Stored(Token(h))' = {} /\ \A g \in DOMAIN said : Stored(Token(g))' \subseteq Stored(Token(g))
      BY <2>3, <2>4, <3>1 DEF Stored
    <3> QED
      BY <1>t, <2>1, <2>3, <2>4, <2>5, <3>1, <3>2 DEF ConsumedInv, Past
  <2>8. CASE GetUserByUserId(h)
    <3>1. /\ web[h] = "user" /\ web'[h] \in {"valid", "invalid"} /\ overlapped' = overlapped
          /\ documents' = documents
      BY <1>t, <2>8 DEF GetUserByUserId, Answers
    <3>2. \A g \in DOMAIN said : Stored(Token(g))' = Stored(Token(g))
      BY <2>4, <3>1 DEF Stored
    <3> QED
      BY <1>t, <2>1, <2>3, <2>4, <2>5, <3>1, <3>2 DEF ConsumedInv, Past
  <2> QED
    BY <2>2, <2>6, <2>7, <2>8
<1>4. ASSUME NEW s \in Sessions, NEW t \in Tokens, ClientSaysHello(s, t) PROVE ConsumedInv'
  <2>1. PICK n \in Hellos :
        /\ n \notin DOMAIN said /\ DOMAIN said' = DOMAIN said \cup {n}
        /\ \A h \in DOMAIN said : Token(h)' = Token(h)
        /\ Token(n)' = t
    BY <1>4, SaysHello
  <2>2. /\ UNCHANGED <<documents, web, logins, overlapped>> /\ logins[t] = "answered"
    BY <1>4 DEF ClientSaysHello, Quiet, tokenVars, webVars
  <2>3. web[n] = "none"
    BY <2>1 DEF ConsumedInv
  <2>4. \A h \in DOMAIN said : Stored(Token(h))' = Stored(Token(h))
    BY <2>1, <2>2 DEF Stored
  <2> QED
    BY <2>1, <2>2, <2>3, <2>4 DEF ConsumedInv, Past
<1>5. ASSUME World \/ \E s \in Sessions : ClientRequests(s) PROVE ConsumedInv'
  BY <1>1, <1>5 DEF World, OnRecvHelloWorldServer, CharacterLoggedIn, CallFailed, ClientRequests,
                    Quiet, tokenVars, webVars, Stored
<1>6. ASSUME NEW k \in Lobbies, Lobby(k) PROVE ConsumedInv'
  <2>1. UNCHANGED <<documents, said, logins, overlapped>>
    BY <1>6, LobbyWeb
  <2>2. \A t : Stored(t)' = Stored(t) /\ \A h \in DOMAIN said : Token(h)' = Token(h)
    BY <2>1 DEF Stored, Token
  <2>3. CASE web' = web
    BY <1>1, <2>1, <2>2, <2>3
  <2>4. ASSUME NEW h \in DOMAIN said, web[h] = "none", web' = [web EXCEPT ![h] = "find"]
        PROVE  ConsumedInv'
    BY <1>t, <2>1, <2>2, <2>4 DEF ConsumedInv, Past
  <2> QED
    BY <1>6, <2>3, <2>4, LobbyWeb
<1>7. CASE UNCHANGED vars
  BY <1>1, <1>7 DEF vars, tokenVars, webVars, Stored
<1> QED
  BY <1>2, <1>3, <1>4, <1>5, <1>6, <1>7 DEF Next, Client

-----------------------------------------------------------------------------
(* Waiting once: what Append and Tail leave of it. *)
LEMMA DistinctAppend ==
  ASSUME NEW q \in Seq(Message), NEW m \in Message, Distinct(q),
         Unconsumed(m) => \A n \in Elements(q) : Unconsumed(n) => n.hello # m.hello
  PROVE  Distinct(Append(q, m))
<1>1. /\ DOMAIN q = 1..Len(q) /\ DOMAIN Append(q, m) = 1..(Len(q) + 1) /\ Len(q) \in Nat
      /\ \A i \in 1..Len(q) : Append(q, m)[i] = q[i]
      /\ Append(q, m)[Len(q) + 1] = m
  BY AppendProperties, LenProperties
<1>2. \A i \in DOMAIN Append(q, m) : i # Len(q) + 1 =>
         i \in DOMAIN q /\ Append(q, m)[i] = q[i] /\ q[i] \in Elements(q)
  BY <1>1 DEF Elements
<1> DEFINE a == Append(q, m)
<1>3. \A i \in DOMAIN a : i # Len(q) + 1 => i \in DOMAIN q /\ a[i] = q[i] /\ q[i] \in Elements(q)
  BY <1>2
<1>4. a[Len(q) + 1] = m
  BY <1>1
<1> HIDE DEF a
<1>5. Distinct(a)
  BY <1>3, <1>4 DEF Distinct
<1> QED
  BY <1>5 DEF a

LEMMA DistinctTail ==
  ASSUME NEW q \in Seq(Message), q # <<>>, Distinct(q)
  PROVE  /\ Distinct(Tail(q))
         /\ Unconsumed(Head(q)) =>
               \A n \in Elements(Tail(q)) : Unconsumed(n) => n.hello # Head(q).hello
<1> DEFINE r == Tail(q)
<1>1. /\ Len(q) \in Nat \ {0} /\ Len(r) = Len(q) - 1
      /\ \A i \in 1..Len(r) : r[i] = q[i + 1]
      /\ Head(q) = q[1]
      /\ DOMAIN q = 1..Len(q) /\ DOMAIN r = 1..Len(r)
  BY HeadTailProperties, LenProperties, EmptySeq
<1>2. \A i \in DOMAIN r : r[i] = q[i + 1] /\ i + 1 \in DOMAIN q /\ i + 1 # 1 /\ i \in Int
  BY <1>1
<1>3. 1 \in DOMAIN q
  BY <1>1
<1> HIDE DEF r
<1>4. Distinct(r)
  <2> SUFFICES ASSUME NEW i \in DOMAIN r, NEW j \in DOMAIN r, Unconsumed(r[i]), Unconsumed(r[j]),
                      r[i].hello = r[j].hello
               PROVE  i = j
    BY DEF Distinct
  <2>1. i + 1 = j + 1
    BY <1>2 DEF Distinct
  <2> QED
    BY <1>2, <2>1
<1>5. ASSUME Unconsumed(Head(q)), NEW n \in Elements(r), Unconsumed(n) PROVE n.hello # Head(q).hello
  <2>1. PICK i \in DOMAIN r : n = r[i]
    BY DEF Elements
  <2>2. n = q[i + 1] /\ i + 1 \in DOMAIN q /\ i + 1 # 1
    BY <1>2, <2>1
  <2> QED
    BY <1>1, <1>3, <1>5, <2>2 DEF Distinct
<1> QED
  BY <1>4, <1>5 DEF r

(* Validations leave those alone that have not begun or were found valid. *)
LEMMA ValidFrom ==
  ASSUME TypeInv, ValidInv,
         \A l \in Lobbies : Distinct(mailbox'[l]),
         \A l \in Lobbies : \A m \in Mails(l)' :
            \/ /\ m \in Mails(l)
               /\ Greeting(m) => web[m.hello] = web'[m.hello]
            \/ /\ Unconsumed(m) => web'[m.hello] = "none"
               /\ m.op = "load" => web'[m.hello] = "valid",
         \A l \in Lobbies : at'[l].op = "select" => web'[at'[l].hello] = "valid",
         \A h \in acked' : web'[h] = "valid"
  PROVE  ValidInv'
BY DEF ValidInv, Greeting, Unconsumed

(* A message that is no greeting, or none at all, is posted. *)
LEMMA ValidFrame ==
  ASSUME TypeInv, ValidInv,
         \A h \in Hellos : web[h] \in {"none", "valid"} => web'[h] = web[h],
         UNCHANGED <<at, acked>>,
         \/ mailbox' = mailbox
         \/ \E k \in Lobbies, m \in Message : ~Greeting(m) /\ Post(k, m)
  PROVE  ValidInv'
<1>1. \A l \in Lobbies : /\ Distinct(mailbox'[l])
                        /\ \A m \in Mails(l)' : m \in Mails(l) \/ ~Greeting(m)
  <2>1. CASE mailbox' = mailbox
    BY <2>1 DEF ValidInv, Mails
  <2>2. ASSUME NEW k \in Lobbies, NEW m \in Message, ~Greeting(m), Post(k, m)
        PROVE  \A l \in Lobbies : /\ Distinct(mailbox'[l])
                                 /\ \A n \in Mails(l)' : n \in Mails(l) \/ ~Greeting(n)
    <3>1. mailbox \in [Lobbies -> Seq(Message)]
      BY DEF TypeInv, Typed
    <3>2. mailbox[k] \in Seq(Message) /\ Distinct(mailbox[k]) /\ ~Unconsumed(m)
      BY <2>2, <3>1 DEF ValidInv, Greeting, Unconsumed
    <3>3. Distinct(Append(mailbox[k], m))
      BY <3>2, DistinctAppend
    <3>4. \A l \in Lobbies : mailbox'[l] = IF l = k THEN Append(mailbox[k], m) ELSE mailbox[l]
      BY <2>2, <3>1 DEF Post
    <3>5. \A l \in Lobbies : \A n \in Mails(l)' : n \in Mails(l) \/ n = m
      BY <2>2, <3>1, PostMails
    <3> QED
      BY <2>2, <3>3, <3>4, <3>5 DEF ValidInv
  <2> QED
    BY <2>1, <2>2
<1>2. \A l \in Lobbies : \A m \in Mails(l) : Greeting(m) => m.hello \in Hellos
  BY HelloSession DEF TypeInv, Underway, Belongs
<1>3. \A l \in Lobbies : at[l].op = "select" => at[l].hello \in Hellos /\ at'[l] = at[l]
  BY HelloSession DEF TypeInv, Underway, Belongs
<1>4. \A h \in acked : h \in Hellos
  BY HelloSession DEF TypeInv, Typed, TypeOK
<1>5. \A l \in Lobbies : \A m \in Mails(l)' :
         \/ /\ m \in Mails(l) 
            /\ Greeting(m) => web[m.hello] = web'[m.hello]
         \/ /\ Unconsumed(m) => web'[m.hello] = "none"
            /\ m.op = "load" => web'[m.hello] = "valid"
  BY <1>1, <1>2 DEF ValidInv, Greeting, Unconsumed
<1>6. \A l \in Lobbies : at'[l].op = "select" => web'[at'[l].hello] = "valid"
  BY <1>3 DEF ValidInv
<1>7. \A h \in acked' : web'[h] = "valid"
  BY <1>4 DEF ValidInv
<1> QED
  BY <1>1, <1>5, <1>6, <1>7, ValidFrom

(* The lobby's steps, one after the other. *)
LEMMA ValidLobby ==
  ASSUME TypeInv, ValidInv, NEW k \in Lobbies, Lobby(k)
  PROVE  ValidInv'
<1>t. /\ mailbox \in [Lobbies -> Seq(Message)] /\ mailbox[k] \in Seq(Message)
      /\ web \in [Hellos -> {"none", "find", "delete", "user", "valid", "invalid"}]
      /\ at \in [Lobbies -> Work] /\ DOMAIN said \subseteq Hellos /\ acked \subseteq DOMAIN said
      /\ \A l \in Lobbies : Underway(l)
  BY HelloSession DEF TypeInv, Typed, TypeOK
<1>d. \A l \in Lobbies : Distinct(mailbox[l])
  BY DEF ValidInv
<1>1. ASSUME Rest(k), mailbox[k] # <<>>, UNCHANGED <<web, acked>>,
             \/ at'[k].op # "select"
             \/ at'[k] = at[k]
             \/ Head(mailbox[k]).op = "load" /\ at'[k].hello = Head(mailbox[k]).hello,
             \A l \in Lobbies \ {k} : at'[l] = at[l]
      PROVE  ValidInv'
  <2>1. /\ Mails(k) = {Head(mailbox[k])} \cup Mails(k)'
        /\ \A l \in Lobbies \ {k} : Mails(l)' = Mails(l)
    BY <1>t, <1>1, RestMails
  <2>2. \A l \in Lobbies : mailbox'[l] = IF l = k THEN Tail(mailbox[k]) ELSE mailbox[l]
    BY <1>t, <1>1 DEF Rest
  <2>3. \A l \in Lobbies : Distinct(mailbox'[l])
    BY <1>t, <1>d, <1>1, <2>2, DistinctTail
  <2>4. Head(mailbox[k]).op = "load" => web[Head(mailbox[k]).hello] = "valid"
    BY <2>1 DEF ValidInv
  <2>5. \A l \in Lobbies : at'[l].op = "select" => web'[at'[l].hello] = "valid"
    BY <1>1, <2>4 DEF ValidInv
  <2>6. \A l \in Lobbies : \A m \in Mails(l)' : m \in Mails(l)
    BY <2>1
  <2>7. \A h \in acked' : web'[h] = "valid"
    BY <1>1 DEF ValidInv
  <2> QED
    BY <1>1, <2>3, <2>5, <2>6, <2>7, ValidFrom
<1>2. ASSUME UNCHANGED <<web, mailbox>>, at' = [at EXCEPT ![k] = Idle],
             \A h \in acked' : h \in acked \/ (at[k].op = "select" /\ h = at[k].hello)
      PROVE  ValidInv'
  <2>1. Idle.op # "select"
    BY DEF Idle
  <2>2. \A l \in Lobbies : at'[l].op = "select" => at'[l] = at[l]
    BY <1>t, <1>2, <2>1
  <2>3. \A l \in Lobbies : at'[l].op = "select" => web'[at'[l].hello] = "valid"
    BY <1>2, <2>2 DEF ValidInv
  <2>4. \A l \in Lobbies : \A m \in Mails(l)' : m \in Mails(l)
    BY <1>2 DEF Mails
  <2>5. \A h \in acked' : web'[h] = "valid"
    BY <1>2 DEF ValidInv
  <2> QED
    BY <1>d, <1>2, <2>3, <2>4, <2>5, ValidFrom
<1>3. CASE OnHelloServer(k)
  <2>1. PICK h \in DOMAIN said : /\ h = Head(mailbox[k]).hello /\ mailbox[k] # <<>>
                                /\ Head(mailbox[k]).op = "hello" /\ Head(mailbox[k]) \in Mails(k)
    BY <1>3, TakesMail DEF OnHelloServer, Greeting, Belongs
  <2> DEFINE m == [op |-> "consume", hello |-> h]
             q == Tail(mailbox[k])
  <2>2. UNCHANGED <<web, at, acked>> /\ RestAndPost(k, m)
    BY <1>3, <2>1 DEF OnHelloServer, webVars, lobbyVars, sessionVars
  <2>3. m \in Message /\ m.hello = h /\ m.op = "consume"
    BY <1>t DEF Message
  <2> HIDE DEF m
  <2>4. /\ q \in Seq(Message) /\ Distinct(q)
        /\ \A n \in Elements(q) : Unconsumed(n) => n.hello # h
    BY <1>t, <1>d, <2>1, DistinctTail, TailElements DEF Unconsumed
  <2> HIDE DEF q
  <2>5. Distinct(Append(q, m))
    BY <2>3, <2>4, DistinctAppend
  <2>6. \A l \in Lobbies : mailbox'[l] = IF l = k THEN Append(q, m) ELSE mailbox[l]
    BY <1>t, <2>2 DEF RestAndPost, q
  <2>7. \A l \in Lobbies : \A n \in Mails(l)' : n \in Mails(l) \/ n = m
    BY <1>t, <2>1, <2>2, <2>3, RestAndPostMails
  <2>8. web[h] = "none"
    BY <2>1 DEF ValidInv, Unconsumed
  <2>9. \A l \in Lobbies : Distinct(mailbox'[l])
    BY <1>d, <2>5, <2>6
  <2>10. \A l \in Lobbies : \A n \in Mails(l)' :
           \/ n \in Mails(l) /\ (Greeting(n) => web[n.hello] = web'[n.hello])
           \/ (Unconsumed(n) => web'[n.hello] = "none") /\ (n.op = "load" => web'[n.hello] = "valid")
    BY <2>2, <2>3, <2>7, <2>8
  <2>11. (\A l \in Lobbies : at'[l].op = "select" => web'[at'[l].hello] = "valid")
         /\ \A g \in acked' : web'[g] = "valid"
    BY <2>2 DEF ValidInv
  <2> QED
    BY <2>9, <2>10, <2>11, ValidFrom
<1>4. CASE ConsumeToken(k)
  <2>1. PICK h \in DOMAIN said : /\ h = Head(mailbox[k]).hello /\ mailbox[k] # <<>>
                                /\ Head(mailbox[k]).op = "consume" /\ Head(mailbox[k]) \in Mails(k)
                                /\ LobbyOf[Session(h)] = k
    BY <1>4, TakesMail DEF ConsumeToken, Greeting, Belongs
  <2>2. /\ web' = [web EXCEPT ![h] = "find"] /\ at' = [at EXCEPT ![k] = [op |-> "wait", hello |-> h]]
        /\ Rest(k) /\ acked' = acked
    BY <1>4, <2>1 DEF ConsumeToken, Answers, Goes, sessionVars
  <2>3. web[h] = "none"
    BY <2>1 DEF ValidInv, Unconsumed
  <2>4. /\ Mails(k)' = Elements(Tail(mailbox[k])) /\ \A l \in Lobbies : Mails(l)' \subseteq Mails(l)
        /\ \A l \in Lobbies : mailbox'[l] = IF l = k THEN Tail(mailbox[k]) ELSE mailbox[l]
    <3>1. \A l \in Lobbies : mailbox'[l] = IF l = k THEN Tail(mailbox[k]) ELSE mailbox[l]
      BY <1>t, <2>2 DEF Rest
    <3> QED
      BY <1>t, <2>1, <2>2, <3>1, RestMails DEF Mails
  <2>5. /\ Distinct(Tail(mailbox[k]))
        /\ \A n \in Mails(k)' : Unconsumed(n) => n.hello # h
    BY <1>t, <1>d, <2>1, <2>4, DistinctTail DEF Unconsumed
  <2>6. \A l \in Lobbies : Distinct(mailbox'[l])
    BY <1>d, <2>4, <2>5
  <2>7. ASSUME NEW l \in Lobbies, NEW n \in Mails(l)', Greeting(n)
        PROVE  n.hello \in Hellos /\ n.hello # h
    <3>1. n \in Mails(l) /\ n.hello \in DOMAIN said /\ LobbyOf[Session(n.hello)] = l
      BY <1>t, <2>4, <2>7 DEF Underway, Belongs
    <3>2. n.op = "load" => web[n.hello] = "valid"
      BY <3>1 DEF ValidInv
    <3> QED
      BY <1>t, <2>1, <2>3, <2>5, <2>7, <3>1, <3>2 DEF Greeting, Unconsumed
  <2>8. \A l \in Lobbies : at'[l].op = "select" =>
           at'[l] = at[l] /\ at[l].hello \in Hellos /\ at[l].hello # h
    <3>1. \A l \in Lobbies : at'[l].op = "select" => l # k /\ at'[l] = at[l]
      BY <1>t, <2>2
    <3>2. \A l \in Lobbies : at[l].op = "select" => at[l].hello \in Hellos /\ web[at[l].hello] = "valid"
      BY <1>t, WorkOps DEF ValidInv
    <3> QED
      BY <2>3, <3>1, <3>2
  <2>9. \A g \in Hellos \ {h} : web'[g] = web[g]
    BY <1>t, <2>2
  <2>10. \A g \in acked' : g \in Hellos /\ web[g] = "valid" /\ g # h
    BY <1>t, <2>2, <2>3 DEF ValidInv
  <2>11. \A l \in Lobbies : \A n \in Mails(l)' :
           n \in Mails(l) /\ (Greeting(n) => web[n.hello] = web'[n.hello])
    BY <2>4, <2>7, <2>9
  <2>12. \A l \in Lobbies : at'[l].op = "select" => web'[at'[l].hello] = "valid"
    BY <2>8, <2>9 DEF ValidInv
  <2>13. \A g \in acked' : web'[g] = "valid"
    BY <2>9, <2>10
  <2> QED
    BY <2>6, <2>11, <2>12, <2>13, ValidFrom
<1>5. CASE TokenValidated(k)
  <2>1. PICK h \in DOMAIN said : h = at[k].hello /\ web[h] = "valid"
    BY <1>t, <1>5 DEF TokenValidated, Underway, Belongs
  <2> DEFINE m == [op |-> "load", hello |-> h]
  <2>2. UNCHANGED <<web, acked>> /\ Post(k, m) /\ at' = [at EXCEPT ![k] = Idle]
    BY <1>5, <2>1 DEF TokenValidated, webVars, sessionVars, Goes
  <2>3. m \in Message /\ m.hello = h /\ m.op = "load" /\ ~Unconsumed(m)
    BY <1>t DEF Message, Unconsumed
  <2> HIDE DEF m
  <2>4. Distinct(Append(mailbox[k], m))
    BY <1>t, <1>d, <2>3, DistinctAppend
  <2>5. \A l \in Lobbies : mailbox'[l] = IF l = k THEN Append(mailbox[k], m) ELSE mailbox[l]
    BY <1>t, <2>2 DEF Post
  <2>6. \A l \in Lobbies : \A n \in Mails(l)' : n \in Mails(l) \/ n = m
    <3>1. Mails(k)' = Mails(k) \cup {m} /\ \A l \in Lobbies \ {k} : Mails(l)' = Mails(l)
      BY <1>t, <2>2, <2>3, PostMails
    <3> QED
      BY <3>1
  <2>7. \A l \in Lobbies : Distinct(mailbox'[l])
    BY <1>d, <2>4, <2>5
  <2>8. \A l \in Lobbies : \A n \in Mails(l)' :
           \/ n \in Mails(l) /\ (Greeting(n) => web[n.hello] = web'[n.hello])
           \/ (Unconsumed(n) => web'[n.hello] = "none") /\ (n.op = "load" => web'[n.hello] = "valid")
    BY <2>1, <2>2, <2>3, <2>6
  <2>9. \A l \in Lobbies : at'[l].op = "select" => at'[l] = at[l]
    BY <1>t, <2>2 DEF Idle
  <2>10. (\A l \in Lobbies : at'[l].op = "select" => web'[at'[l].hello] = "valid")
         /\ \A g \in acked' : web'[g] = "valid"
    BY <2>2, <2>9 DEF ValidInv
  <2> QED
    BY <2>7, <2>8, <2>10, ValidFrom
<1>6. CASE TokenRefused(k) \/ UpsertCharacter(k)
  BY <1>2, <1>6 DEF TokenRefused, UpsertCharacter, webVars, Goes
<1>7. CASE SelectAccount(k)
  BY <1>2, <1>7 DEF SelectAccount, webVars, Goes
<1>8. CASE UpsertAccount(k)
  <2> DEFINE h == Head(mailbox[k]).hello
             to == [op |-> "select", hello |-> h]
  <2>1. /\ Rest(k) /\ mailbox[k] # <<>> /\ UNCHANGED <<web, acked>> /\ Head(mailbox[k]).op = "load"
        /\ at' = at \/ at' = [at EXCEPT ![k] = to]
    BY <1>8 DEF UpsertAccount, webVars, Takes, Goes
  <2>2. to.hello = h
    OBVIOUS
  <2> HIDE DEF to
  <2>3. (at'[k] = at[k] \/ at'[k].hello = h) /\ \A l \in Lobbies \ {k} : at'[l] = at[l]
    BY <1>t, <2>1, <2>2
  <2> QED
    BY <1>1, <2>1, <2>3
<1>9. CASE OnCreateCharacterReq(k)
  <2> DEFINE to == [Head(mailbox[k]) EXCEPT !.op = "upsert"]
  <2>1. /\ Rest(k) /\ mailbox[k] # <<>> /\ UNCHANGED <<web, acked>> /\ Head(mailbox[k]).op = "create"
        /\ at' = at \/ at' = [at EXCEPT ![k] = to]
        /\ Head(mailbox[k]) \in Message
    BY <1>9, TakesMail DEF OnCreateCharacterReq, webVars, sessionVars, Takes, Goes
  <2>2. to.op = "upsert"
    <3>1. \A m \in Message : [m EXCEPT !.op = "upsert"].op = "upsert"
      BY DEF Message
    <3> QED
      BY <2>1, <3>1
  <2> HIDE DEF to
  <2>3. /\ at'[k] = at[k] \/ at'[k].op = "upsert"
        /\ \A l \in Lobbies \ {k} : at'[l] = at[l]
    BY <1>t, <2>1, <2>2
  <2> QED
    BY <1>1, <2>1, <2>3
<1>10. CASE OnGetCharacterListReq(k)
  <2>1. Rest(k) /\ mailbox[k] # <<>> /\ UNCHANGED <<web, acked, at>>
    BY <1>10 DEF OnGetCharacterListReq, webVars, sessionVars, Takes
  <2> QED
    BY <1>1, <2>1
<1>11. CASE CharacterLogin(k)
  <2>1. /\ UNCHANGED <<web, acked>> /\ \A l \in Lobbies \ {k} : at'[l] = at[l]
        /\ at'[k].op # "select" /\ \A l \in Lobbies : Mails(l)' \subseteq Mails(l)
        /\ \/ Rest(k) /\ mailbox[k] # <<>>
           \/ mailbox' = mailbox
    BY <1>11, LoginSteps
  <2>2. CASE Rest(k) /\ mailbox[k] # <<>>
    BY <1>1, <2>1, <2>2
  <2>3. CASE mailbox' = mailbox
    <3>1. (\A l \in Lobbies : at'[l].op = "select" => web'[at'[l].hello] = "valid")
          /\ \A h \in acked' : web'[h] = "valid"
      BY <2>1 DEF ValidInv
    <3> QED
      BY <1>d, <2>1, <2>3, <3>1, ValidFrom
  <2> QED
    BY <2>1, <2>2, <2>3
<1> QED
  BY <1>3, <1>4, <1>5, <1>6, <1>7, <1>8, <1>9, <1>10, <1>11 DEF Lobby

LEMMA ValidStep == TypeInv /\ ConsumedInv /\ ValidInv /\ [Next]_vars => ValidInv'
<1> SUFFICES ASSUME TypeInv, ConsumedInv, ValidInv, [Next]_vars PROVE ValidInv'
  OBVIOUS
<1>1. ASSUME TokenService \/ Validation PROVE ValidInv'
  <2>1. UNCHANGED <<at, acked, mailbox>>
    BY <1>1 DEF TokenService, Validation, lobbyVars, sessionVars
  <2>2. \A h \in Hellos : web[h] \in {"none", "valid"} => web'[h] = web[h]
    <3>1. web \in [Hellos -> {"none", "find", "delete", "user", "valid", "invalid"}]
      BY DEF TypeInv, Typed, TypeOK
    <3> QED
      BY <1>1, <3>1 DEF TokenService, webVars, Validation, FindToken, DeleteToken, GetUserByUserId,
                        Answers
  <2> QED
    BY <2>1, <2>2, ValidFrame
<1>2. ASSUME NEW s \in Sessions, NEW t \in Tokens, ClientSaysHello(s, t) PROVE ValidInv'
  <2>1. PICK n \in Hellos : n \notin DOMAIN said /\ n = Len(said) + 1
    BY <1>2, SaysHello
  <2>2. PICK k \in Lobbies : k = LobbyOf[s]
    BY LoginAssumption
  <2> DEFINE m == [op |-> "hello", hello |-> n]
  <2>3. UNCHANGED <<web, at, acked>> /\ Post(k, m)
    BY <1>2, <2>1, <2>2 DEF ClientSaysHello, Quiet, webVars, lobbyVars, sessionVars
  <2>4. m \in Message /\ m.hello = n /\ m.op = "hello"
    BY DEF Message
  <2> HIDE DEF m
  <2>5. mailbox \in [Lobbies -> Seq(Message)] /\ \A l \in Lobbies : Underway(l) /\ Distinct(mailbox[l])
    BY DEF TypeInv, Typed, ValidInv
  <2>6. \A x \in Elements(mailbox[k]) : Unconsumed(x) => x.hello # m.hello
    BY <2>1, <2>4, <2>5 DEF Underway, Belongs, Mails, Greeting, Unconsumed
  <2>7. Distinct(Append(mailbox[k], m))
    BY <2>4, <2>5, <2>6, DistinctAppend
  <2>8. \A l \in Lobbies : mailbox'[l] = IF l = k THEN Append(mailbox[k], m) ELSE mailbox[l]
    BY <2>3, <2>5 DEF Post
  <2>9. \A l \in Lobbies : \A x \in Mails(l)' : x \in Mails(l) \/ x = m
    <3>1. Mails(k)' = Mails(k) \cup {m} /\ \A l \in Lobbies \ {k} : Mails(l)' = Mails(l)
      BY <2>3, <2>4, <2>5, PostMails
    <3> QED
      BY <3>1
  <2>10. web[n] = "none"
    BY <2>1 DEF ConsumedInv
  <2>11. \A l \in Lobbies : Distinct(mailbox'[l])
    BY <2>5, <2>7, <2>8
  <2>12. \A l \in Lobbies : \A x \in Mails(l)' :
           \/ x \in Mails(l) /\ (Greeting(x) => web[x.hello] = web'[x.hello])
           \/ (Unconsumed(x) => web'[x.hello] = "none") /\ (x.op = "load" => web'[x.hello] = "valid")
    BY <2>3, <2>4, <2>9, <2>10
  <2>13. (\A l \in Lobbies : at'[l].op = "select" => web'[at'[l].hello] = "valid")
         /\ \A g \in acked' : web'[g] = "valid"
    BY <2>3 DEF ValidInv
  <2> QED
    BY <2>11, <2>12, <2>13, ValidFrom
<1>3. ASSUME NEW s \in Sessions, ClientRequests(s) PROVE ValidInv'
  <2>1. UNCHANGED <<web, at, acked>>
    BY <1>3 DEF ClientRequests, Quiet, webVars, lobbyVars, sessionVars
  <2>2. PICK m \in [op : {"create"}, session : Sessions, character : Characters]
                   \cup [op : {"list"}, session : Sessions] : Post(LobbyOf[s], m)
    BY <1>3 DEF ClientRequests
  <2>3. m \in Message /\ ~Greeting(m) /\ LobbyOf[s] \in Lobbies
    BY LoginAssumption DEF Message, Greeting
  <2> QED
    BY <2>1, <2>2, <2>3, ValidFrame
<1>4. ASSUME World PROVE ValidInv'
  <2>1. UNCHANGED <<web, at, acked>>
    BY <1>4 DEF World, OnRecvHelloWorldServer, CharacterLoggedIn, CallFailed, Quiet, webVars,
                lobbyVars, sessionVars
  <2>2. \/ mailbox' = mailbox
        \/ \E m \in Request : Post(Home, m)
    BY <1>4 DEF World, OnRecvHelloWorldServer, CharacterLoggedIn, CallFailed, Request
  <2>3. ASSUME NEW m \in Request, Post(Home, m)
        PROVE  \E k \in Lobbies, n \in Message : ~Greeting(n) /\ Post(k, n)
    <3>1. m \in Message /\ ~Greeting(m) /\ Home \in Lobbies /\ Post(Home, m)
      BY <2>3, LoginAssumption DEF Message, Request, Greeting
    <3> QED
      BY <3>1
  <2> QED
    BY <2>1, <2>2, <2>3, ValidFrame
<1>5. CASE UNCHANGED vars
  BY <1>5, ValidFrame DEF vars, webVars, lobbyVars, sessionVars
<1> QED
  BY <1>1, <1>2, <1>3, <1>4, <1>5, ValidLobby DEF Next, Client

HelloInv == ConsumedInv /\ ValidInv

LEMMA HelloAlways == Spec => [](TypeInv /\ HelloInv)
<1>1. Init => HelloInv
  <2> SUFFICES ASSUME Init PROVE HelloInv
    OBVIOUS
  <2>1. /\ said = <<>> /\ acked = {} /\ \A h \in Hellos : web[h] = "none"
        /\ \A l \in Lobbies : mailbox[l] = <<>> /\ at[l].op = "idle"
    BY DEF Init, Idle
  <2>2. \A l \in Lobbies : Mails(l) = {} /\ Distinct(mailbox[l])
    BY <2>1 DEF Mails, Elements, Distinct
  <2>3. DOMAIN said = {}
    BY <2>1
  <2> QED
    BY <2>1, <2>2, <2>3 DEF HelloInv, ConsumedInv, ValidInv
<1>2. TypeInv /\ HelloInv /\ [Next]_vars => HelloInv'
  BY ConsumedStep, ValidStep DEF HelloInv
<1> QED
  BY <1>1, <1>2, TypeAlways, PTL DEF Spec

(* A token is good for one hello, unless two validations overlapped on it: *)
(* in every order in which the token service serves them, for any number   *)
(* of lobbies, also when a lobby gave up waiting.                          *)
THEOREM ConsumedOnceTheorem == Spec => []ConsumedOnce
<1>1. ConsumedInv => ConsumedOnce
  <2> SUFFICES ASSUME ConsumedInv, NEW t \in Tokens \ overlapped
               PROVE  Cardinality({h \in DOMAIN said : Token(h) = t /\ web[h] \in {"user", "valid"}}) <= 1
    BY DEF ConsumedOnce
  <2> DEFINE S == {h \in DOMAIN said : Token(h) = t /\ web[h] \in {"user", "valid"}}
  <2>1. \A g, h \in S : g = h
    BY DEF ConsumedInv, Past
  <2> HIDE DEF S
  <2>2. Cardinality(S) <= 1
    BY <2>1, AtMostOne
  <2> QED
    BY <2>2 DEF S
<1> QED
  BY <1>1, HelloAlways, PTL DEF HelloInv

-----------------------------------------------------------------------------
(* What stays: who owns a character, what was said and found valid.        *)
LEMMA ValidatedStays ==
  TypeInv /\ HelloInv /\ [Next]_vars => \A t : Validated(t) => Validated(t)'
<1> SUFFICES ASSUME TypeInv, ConsumedInv, ValidInv, [Next]_vars
             PROVE  \A h \in DOMAIN said : web[h] = "valid" =>
                       h \in DOMAIN said' /\ Token(h)' = Token(h) /\ web'[h] = "valid"
  BY DEF Validated, HelloInv
<1>t. /\ web \in [Hellos -> {"none", "find", "delete", "user", "valid", "invalid"}]
      /\ DOMAIN said \subseteq Hellos
  BY HelloSession DEF TypeInv, Typed, TypeOK
<1>1. CASE TokenService \/ Validation
  BY <1>1, <1>t DEF TokenService, webVars, Validation, FindToken, DeleteToken, GetUserByUserId,
                    Answers, Token
<1>2. ASSUME NEW s \in Sessions, NEW t \in Tokens, ClientSaysHello(s, t)
      PROVE  \A h \in DOMAIN said : web'[h] = web[h] /\ h \in DOMAIN said' /\ Token(h)' = Token(h)
  <2>1. web' = web
    BY <1>2 DEF ClientSaysHello, Quiet, webVars
  <2> QED
    BY <1>2, <2>1, SaysHello
<1>3. CASE World \/ \E s \in Sessions : ClientRequests(s)
  BY <1>3 DEF World, OnRecvHelloWorldServer, CharacterLoggedIn, CallFailed, ClientRequests, Quiet,
              webVars, Token
<1>4. ASSUME NEW k \in Lobbies, Lobby(k)
      PROVE  \A h \in DOMAIN said : web[h] = "valid" =>
                h \in DOMAIN said' /\ Token(h)' = Token(h) /\ web'[h] = "valid"
  BY <1>4, <1>t, LobbyWeb DEF Token
<1>5. CASE UNCHANGED vars
  BY <1>5 DEF vars, webVars, Token
<1> QED
  BY <1>1, <1>2, <1>3, <1>4, <1>5 DEF Next, Client

LEMMA OwnFrame ==
  ASSUME OwnInv, UNCHANGED <<account, cache, rows, owner, again, world>>,
         \A l \in Lobbies : at'[l] = at[l] \/ at'[l].op # "check",
         \A t : Validated(t) => Validated(t)'
  PROVE  OwnInv'
BY DEF OwnInv, Entitled, Checked, TokenFor

LEMMA OwnLobby ==
  ASSUME TypeInv, HelloInv, OwnInv, NEW k \in Lobbies, Lobby(k),
         \A t : Validated(t) => Validated(t)'
  PROVE  OwnInv'
<1>t. /\ account \in [Sessions -> Account \cup {None}] /\ cache \in [Sessions -> SUBSET Characters]
      /\ rows \in [Users -> Tokens \cup {None}]
      /\ owner \in [Characters -> Users \cup {Zero, None}]
      /\ world \in [Worlds -> WorldSession] /\ at[k] \in Work
      /\ Underway(k)
  BY DEF TypeInv, Typed, TypeOK
<1>a. \A s \in Sessions : account[s] # None => account[s].id \in Users \cup {Zero}
  BY <1>t DEF Account
<1>0. \A t, u : TokenFor(t, u) => TokenFor(t, u)'
  BY DEF TokenFor
<1>w. ASSUME world' = world, \A c \in Characters : owner[c] # None => owner'[c] = owner[c]
      PROVE  \A w \in Worlds : Entitled(w)'
  <2>1. \A w \in Worlds : world[w].step \in {"answered", "in"} =>
           world[w].character \in Characters /\ world[w].account \in Users \cup {Zero}
    BY <1>t DEF WorldSession
  <2> QED
    BY <1>0, <1>w, <2>1, LoginAssumption DEF OwnInv, Entitled
(* No other handler goes to the second step of CharacterLogin.             *)
<1>k. ASSUME ~CharacterLogin(k)
      PROVE  /\ world' = world
             /\ \A l \in Lobbies : at'[l] = at[l] \/ at'[l].op # "check"
             /\ \A l \in Lobbies : Checked(l)'
  <2>1. at \in [Lobbies -> Work] /\ world' = world
    BY <1>k DEF TypeInv, Typed, Lobby
  <2>2. at' = at \/ \E x : at' = [at EXCEPT ![k] = x]
    BY <1>k DEF Lobby, OnHelloServer, ConsumeToken, TokenValidated, TokenRefused, UpsertAccount,
           SelectAccount, OnCreateCharacterReq, UpsertCharacter, OnGetCharacterListReq, lobbyVars,
           Goes
  <2>3. at'[k] = at[k] \/ at'[k].op # "check"
    <3>1. \A m \in Message : [m EXCEPT !.op = "upsert"].op # "check"
      BY DEF Message, Request
    <3>2. OnCreateCharacterReq(k) => Head(mailbox[k]) \in Message
      BY TakesMail DEF OnCreateCharacterReq
    <3>3. CASE OnCreateCharacterReq(k)
      BY <2>1, <3>1, <3>2, <3>3 DEF OnCreateCharacterReq, Goes
    <3>4. CASE OnHelloServer(k) \/ OnGetCharacterListReq(k)
      BY <3>4 DEF OnHelloServer, OnGetCharacterListReq, lobbyVars
    <3>5. CASE ConsumeToken(k)
      BY <2>1, <3>5 DEF ConsumeToken, Goes
    <3>6. CASE TokenValidated(k) \/ TokenRefused(k) \/ SelectAccount(k) \/ UpsertCharacter(k)
      BY <2>1, <3>6 DEF TokenValidated, TokenRefused, SelectAccount, UpsertCharacter, Goes, Idle
    <3>7. CASE UpsertAccount(k)
      BY <2>1, <3>7 DEF UpsertAccount, Goes
    <3> QED
      BY <1>k, <3>3, <3>4, <3>5, <3>6, <3>7 DEF Lobby
  <2>4. \A l \in Lobbies : at'[l] = at[l] \/ at'[l].op # "check"
    BY <2>1, <2>2, <2>3
  <2> QED
    BY <1>0, <2>1, <2>4 DEF OwnInv, Checked
<1>1. ASSUME ~CharacterLogin(k),
             \/ OnHelloServer(k) \/ ConsumeToken(k) \/ TokenValidated(k) \/ TokenRefused(k)
             \/ OnCreateCharacterReq(k)
      PROVE  OwnInv'
  <2>1. UNCHANGED <<account, cache, rows, owner, again>>
    BY <1>1 DEF OnHelloServer, ConsumeToken, TokenValidated, TokenRefused, OnCreateCharacterReq,
                lobbyVars, sessionVars, dbVars
  <2> QED
    BY <1>1, <1>k, <2>1, OwnFrame
<1>2. ASSUME ~CharacterLogin(k), UpsertAccount(k) PROVE OwnInv'
  <2>1. PICK h \in DOMAIN said : h = Head(mailbox[k]).hello
    BY <1>2, TakesMail DEF UpsertAccount, Greeting, Belongs
  <2> DEFINE s == Session(h)
             u == UserOf[Token(h)]
  <2>2. s \in Sessions /\ Token(h) \in Tokens /\ u \in Users
    BY HelloSession, LoginAssumption
  <2>3. /\ again' = IF account[s] = None THEN again ELSE again \cup {s}
        /\ \E x : account' = [account EXCEPT ![s] = x]
        /\ rows' = rows \/ rows' = [rows EXCEPT ![u] = Token(h)]
        /\ UNCHANGED <<cache, owner>>
    BY <1>2, <2>1 DEF UpsertAccount, TokenWritten
  <2> HIDE DEF s
  <2>4. ASSUME NEW r \in Sessions \ again', NEW c \in cache'[r]
        PROVE  account'[r] # None /\ owner'[c] = account'[r].id
    <3>1. account[r] # None /\ owner[c] = account[r].id
      BY <2>3, <2>4 DEF OwnInv
    <3>2. r # s
      BY <2>3, <2>4, <3>1
    <3> QED
      BY <1>t, <2>3, <3>1, <3>2
  <2>5. TokenFor(Token(h), u)
    <3>1. Head(mailbox[k]) \in Mails(k) /\ Head(mailbox[k]).op = "load"
      BY <1>2, TakesMail DEF UpsertAccount
    <3>2. web[h] = "valid"
      BY <2>1, <3>1 DEF HelloInv, ValidInv
    <3> QED
      BY <3>2 DEF TokenFor, Validated
  <2>6. \A v \in Users : (rows[v] # None => TokenFor(rows[v], v))'
    BY <1>t, <1>0, <2>2, <2>3, <2>5 DEF OwnInv
  <2>7. \A w \in Worlds : Entitled(w)'
    BY <1>2, <1>k, <1>w, <2>3
  <2>8. \A l \in Lobbies : Checked(l)'
    BY <1>2, <1>k
  <2> QED
    BY <2>4, <2>6, <2>7, <2>8 DEF OwnInv
<1>3. ASSUME ~CharacterLogin(k), SelectAccount(k) PROVE OwnInv'
  <2>1. /\ UNCHANGED <<cache, rows, owner, again>> /\ at[k].op = "select"
    BY <1>3 DEF SelectAccount, dbVars
  <2>2. PICK s \in Sessions : s = Session(at[k].hello) /\ account[s] # None
    BY <1>t, <2>1, HelloSession DEF Underway, Belongs
  <2>3. account' = account \/ account' = [account EXCEPT ![s].token = rows[account[s].user]]
    BY <1>3, <2>2 DEF SelectAccount
  <2>4. account[s] \in Account
    BY <1>t, <2>2
  <2> DEFINE new == [account[s] EXCEPT !.token = rows[account[s].user]]
  <2>5. new.id = account[s].id /\ new # None
    <3>1. account[s].user \in Users /\ rows[account[s].user] \in Tokens
      BY <1>t, <2>1, <2>2, <2>4 DEF Underway, Account
    <3>2. new \in Account /\ new.id = account[s].id
      BY <2>4, <3>1 DEF Account
    <3> QED
      BY <3>2, LoginAssumption
  <2>6. account' = account \/ account' = [account EXCEPT ![s] = new]
    BY <2>3
  <2> HIDE DEF new
  <2>7. \A r \in Sessions : account[r] # None => account'[r] # None /\ account'[r].id = account[r].id
    BY <1>t, <2>5, <2>6
  <2>8. \A r \in Sessions \ again' : \A c \in cache'[r] : account'[r] # None /\ owner'[c] = account'[r].id
    BY <2>1, <2>7 DEF OwnInv
  <2> QED
    BY <1>0, <1>3, <1>k, <1>w, <2>1, <2>8 DEF OwnInv
<1>4. ASSUME ~CharacterLogin(k), UpsertCharacter(k) PROVE OwnInv'
  <2>1. UNCHANGED <<account, rows, again>> /\ at[k].op = "upsert"
    BY <1>4 DEF UpsertCharacter
  <2>2. PICK s \in Sessions, c \in Characters :
           s = at[k].session /\ c = at[k].character /\ account[s] # None
    BY <1>t, <2>1, WorkOps DEF Underway
  <2>3. \/ UNCHANGED <<owner, cache>>
        \/ /\ owner[c] \in {None, account[s].id} /\ owner' = [owner EXCEPT ![c] = account[s].id]
           /\ cache' = [cache EXCEPT ![s] = cache[s] \cup {c}]
    BY <1>4, <2>2 DEF UpsertCharacter
  <2>4. \A d \in Characters : owner[d] # None => owner'[d] = owner[d]
    BY <1>t, <2>3
  <2>5. ASSUME NEW r \in Sessions \ again', NEW d \in cache'[r]
        PROVE  account'[r] # None /\ owner'[d] = account'[r].id
    <3>1. CASE d \in cache[r]
      <4>1. d \in Characters /\ account[r] # None /\ owner[d] = account[r].id
        BY <1>t, <2>1, <2>5, <3>1 DEF OwnInv
      <4> QED
        BY <1>a, <2>1, <2>4, <4>1, LoginAssumption
    <3>2. CASE d \notin cache[r]
      <4>1. r = s /\ d = c /\ owner' = [owner EXCEPT ![c] = account[s].id]
        BY <1>t, <2>2, <2>3, <2>5, <3>2
      <4> QED
        BY <1>t, <2>1, <2>2, <4>1
    <3> QED
      BY <3>1, <3>2
  <2> QED
    BY <1>0, <1>4, <1>k, <1>w, <2>1, <2>4, <2>5 DEF OwnInv
<1>5. ASSUME ~CharacterLogin(k), OnGetCharacterListReq(k) PROVE OwnInv'
  <2>1. UNCHANGED <<account, rows, owner, again>>
    BY <1>5 DEF OnGetCharacterListReq, dbVars
  <2>2. PICK s \in Sessions : s = Head(mailbox[k]).session
    BY <1>5, TakesMail DEF OnGetCharacterListReq
  <2>3. \/ cache' = cache
        \/ account[s] # None /\ cache' = [cache EXCEPT ![s] = cache[s] \cup CharactersOf(account[s].id)]
    BY <1>5, <2>2 DEF OnGetCharacterListReq
  <2>4. \A d \in CharactersOf(account[s].id) : owner[d] = account[s].id
    BY DEF CharactersOf
  <2>5. ASSUME NEW r \in Sessions \ again', NEW d \in cache'[r]
        PROVE  account'[r] # None /\ owner'[d] = account'[r].id
    <3>1. d \in cache[r] \/ (r = s /\ account[s] # None /\ d \in CharactersOf(account[s].id))
      BY <1>t, <2>2, <2>3, <2>5
    <3> QED
      BY <2>1, <2>4, <2>5, <3>1 DEF OwnInv
  <2> QED
    BY <1>0, <1>5, <1>k, <1>w, <2>1, <2>5 DEF OwnInv
<1>6. CASE CharacterLogin(k)
  <2>1. /\ UNCHANGED <<account, cache, rows, owner, again>>
        /\ \A l \in Lobbies \ {k} : at'[l] = at[l]
    BY <1>6, LoginSteps
  <2>2. PICK m \in Request, id \in Users \cup {Zero} :
          \/ Reply(m, id) /\ at'[k].op = "idle" /\ (id # Zero => id = at[k].account
                /\ m = at[k].request /\ at[k].op = "check" /\ PlaysFor(m.character, id))
          \/ /\ world' = world /\ id # Zero /\ rows[id] = m.token
             /\ at'[k].request = m /\ at'[k].account = id
    BY <1>6, LoginSteps
  <2>3. ASSUME Checked(k)', \A w \in Worlds : Entitled(w)'
        PROVE  OwnInv'
    BY <1>0, <2>1, <2>3 DEF OwnInv, Checked
  <2>4. CASE /\ world' = world /\ id # Zero /\ rows[id] = m.token
             /\ at'[k].request = m /\ at'[k].account = id
    <3>1. id \in Users /\ m.token # None
      BY <2>4, LoginAssumption DEF Request
    <3>2. TokenFor(m.token, id)
      BY <2>4, <3>1 DEF OwnInv
    <3>3. Checked(k)'
      BY <1>0, <2>4, <3>2 DEF Checked
    <3>4. \A w \in Worlds : Entitled(w)'
      BY <1>w, <2>1, <2>4
    <3> QED
      BY <2>3, <3>3, <3>4
  <2>5. CASE Reply(m, id) /\ at'[k].op = "idle" /\ (id # Zero => id = at[k].account
                /\ m = at[k].request /\ at[k].op = "check" /\ PlaysFor(m.character, id))
    <3> DEFINE x == [step |-> "answered", token |-> m.token, character |-> m.character,
                     account |-> id]
    <3>1. Checked(k)'
      BY <2>5 DEF Checked
    <3>2. id # Zero => owner[m.character] = id /\ TokenFor(m.token, id)
      BY <2>5 DEF OwnInv, Checked, PlaysFor
    <3>3. x.step = "answered" /\ x.token = m.token /\ x.character = m.character /\ x.account = id
      OBVIOUS
    <3>4. world' = world \/ world' = [world EXCEPT ![m.world] = x]
      BY <2>5 DEF Reply
    <3> HIDE DEF x
    <3>5. ASSUME NEW w \in Worlds PROVE Entitled(w)'
      <4>1. world'[w] = world[w] \/ world'[w] = x
        BY <1>t, <3>4
      <4>2. CASE world'[w] = world[w]
        BY <1>0, <2>1, <4>2 DEF OwnInv, Entitled
      <4>3. CASE world'[w] = x
        BY <1>0, <2>1, <3>2, <3>3, <4>3 DEF Entitled
      <4> QED
        BY <4>1, <4>2, <4>3
    <3> QED
      BY <2>3, <3>1, <3>5
  <2> QED
    BY <2>2, <2>4, <2>5
<1> QED
  BY <1>1, <1>2, <1>3, <1>4, <1>5, <1>6 DEF Lobby

LEMMA OwnWorld ==
  ASSUME TypeInv, OwnInv, World, \A t : Validated(t) => Validated(t)'
  PROVE  OwnInv'
<1>t. world \in [Worlds -> WorldSession]
  BY DEF TypeInv, Typed, TypeOK
<1>0. \A t, u : TokenFor(t, u) => TokenFor(t, u)'
  BY DEF TokenFor
<1>1. UNCHANGED <<account, cache, rows, owner, again, at>>
  BY DEF World, OnRecvHelloWorldServer, CharacterLoggedIn, CallFailed, Quiet, lobbyVars,
         sessionVars, dbVars
<1>2. ASSUME NEW w \in Worlds, NEW x, world' = [world EXCEPT ![w] = x],
             x.step \in {"answered", "in"} /\ x.account # Zero =>
                owner[x.character] = x.account /\ TokenFor(x.token, x.account)
      PROVE  OwnInv'
  <2>1. \A v \in Worlds : world'[v] = IF v = w THEN x ELSE world[v]
    BY <1>t, <1>2
  <2>2. ASSUME NEW v \in Worlds PROVE Entitled(v)'
    <3>1. CASE v = w
      BY <1>0, <1>1, <1>2, <2>1, <3>1 DEF Entitled
    <3>2. CASE v # w
      BY <1>0, <1>1, <2>1, <3>2 DEF OwnInv, Entitled
    <3> QED
      BY <3>1, <3>2
  <2> QED
    BY <1>0, <1>1, <2>2 DEF OwnInv, Checked
<1>3. ASSUME NEW w \in Worlds, NEW t \in Tokens, NEW c \in Characters, OnRecvHelloWorldServer(w, t, c)
      PROVE  OwnInv'
  <2> DEFINE x == [step |-> "asked", token |-> t, character |-> c]
  <2>1. world' = [world EXCEPT ![w] = x] /\ x.step = "asked"
    BY <1>3 DEF OnRecvHelloWorldServer
  <2> HIDE DEF x
  <2> QED
    BY <1>2, <2>1
<1>4. ASSUME NEW w \in Worlds, CharacterLoggedIn(w) PROVE OwnInv'
  <2> DEFINE x == [world[w] EXCEPT !.step = "in"]
  <2>1. world' = [world EXCEPT ![w] = x] /\ world[w].step = "answered"
    BY <1>4 DEF CharacterLoggedIn
  <2>2. world[w] \in [step : {"answered", "in"}, token : Tokens, character : Characters,
                      account : Users \cup {Zero}]
    BY <1>t, <2>1 DEF WorldSession
  <2>3. /\ x.token = world[w].token
        /\ x.character = world[w].character /\ x.account = world[w].account
    BY <2>2
  <2> HIDE DEF x
  <2>4. x.account # Zero => owner[x.character] = x.account /\ TokenFor(x.token, x.account)
    BY <2>1, <2>3 DEF OwnInv, Entitled
  <2> QED
    BY <1>2, <2>1, <2>4
<1>5. ASSUME NEW w \in Worlds, CallFailed(w) PROVE OwnInv'
  <2> DEFINE x == [step |-> "out"]
  <2>1. world' = [world EXCEPT ![w] = x] /\ x.step = "out"
    BY <1>5 DEF CallFailed
  <2> HIDE DEF x
  <2> QED
    BY <1>2, <2>1
<1> QED
  BY <1>3, <1>4, <1>5 DEF World

LEMMA OwnStep == TypeInv /\ HelloInv /\ OwnInv /\ [Next]_vars => OwnInv'
<1> SUFFICES ASSUME TypeInv, HelloInv, OwnInv, [Next]_vars PROVE OwnInv'
  OBVIOUS
<1>1. \A t : Validated(t) => Validated(t)'
  BY ValidatedStays
<1>2. CASE TokenService \/ Validation \/ Client \/ UNCHANGED vars
  <2>1. UNCHANGED <<account, cache, rows, owner, again, world, at>>
    BY <1>2 DEF TokenService, Validation, Client, ClientSaysHello, ClientRequests, Quiet, vars,
                lobbyVars, sessionVars, dbVars
  <2> QED
    BY <1>1, <2>1, OwnFrame
<1> QED
  BY <1>1, <1>2, OwnLobby, OwnWorld DEF Next

(* What a lobby session has cached belongs to its account, and a world     *)
(* session that has an account plays that account's character with a token *)
(* of its user that a lobby had validated: whatever token and character a  *)
(* client names, however many lobbies write the same rows at the same      *)
(* time, and whenever databases or calls fail.                             *)
THEOREM OwnCharactersTheorem == Spec => []OwnCharacters
<1>1. Init => OwnInv
  <2> SUFFICES ASSUME Init PROVE OwnInv
    OBVIOUS
  <2>1. /\ \A s \in Sessions : cache[s] = {}
        /\ \A u \in Users : rows[u] = None
        /\ \A w \in Worlds : world[w].step = "none"
        /\ \A l \in Lobbies : at[l].op = "idle"
    BY DEF Init, Idle
  <2> QED
    BY <2>1 DEF OwnInv, Entitled, Checked
<1>2. OwnInv => OwnCharacters
  BY DEF OwnInv, Entitled, TokenFor, Validated, OwnCharacters
<1> QED
  BY <1>1, <1>2, HelloAlways, OwnStep, PTL DEF Spec

-----------------------------------------------------------------------------
(* Nobody is forgotten: what is in a mailbox stays there, and no handler   *)
(* ends, but by the lobby's own steps.                                     *)
LEMMA AnsweredFrame ==
  ASSUME TypeInv, AnsweredInv, UNCHANGED <<said, open, acked, at>>,
         \A l \in Lobbies : Mails(l) \subseteq Mails(l)'
  PROVE  AnsweredInv'
<1>1. \A h \in DOMAIN said : LobbyOf[Session(h)] \in Lobbies
  BY HelloSession
<1>2. \A h : \A l \in Lobbies : UnderwayHello(h, l) => UnderwayHello(h, l)'
  BY DEF UnderwayHello
<1> QED
  BY <1>1, <1>2 DEF AnsweredInv, Session

LEMMA AnsweredLobby ==
  ASSUME TypeInv, AnsweredInv, NEW k \in Lobbies, Lobby(k)
  PROVE  AnsweredInv'
<1>t. /\ mailbox \in [Lobbies -> Seq(Message)] /\ at \in [Lobbies -> Work] /\ said' = said
      /\ \A h \in DOMAIN said : h \in Hellos /\ LobbyOf[Session(h)] \in Lobbies
  BY HelloSession DEF TypeInv, Typed, Lobby
(* It is enough to follow the hello whose message or step ends here.       *)
<1>f. ASSUME open' \subseteq open, acked \subseteq acked', NEW g,
             \A l \in Lobbies \ {k} : Mails(l)' = Mails(l) /\ at'[l] = at[l],
             \A m \in Mails(k) : m \in Mails(k)' \/ (Greeting(m) => m.hello = g),
             at'[k] = at[k] \/ (at[k].op \in {"wait", "select"} => at[k].hello = g),
             g \in DOMAIN said /\ LobbyOf[Session(g)] = k =>
                UnderwayHello(g, k)' \/ g \in acked' \/ Session(g) \notin open'
      PROVE  AnsweredInv'
  <2>1. \A h, l : l \in Lobbies \ {k} /\ UnderwayHello(h, l) => UnderwayHello(h, l)'
    BY <1>f DEF UnderwayHello
  <2>2. \A h : h # g /\ UnderwayHello(h, k) => UnderwayHello(h, k)'
    BY <1>f DEF UnderwayHello
  <2>3. ASSUME NEW h \in DOMAIN said, NEW l, l = LobbyOf[Session(h)], UnderwayHello(h, l)
        PROVE  UnderwayHello(h, l)' \/ h \in acked' \/ Session(h) \notin open'
    <3>1. l \in Lobbies
      BY <1>t, <2>3
    <3> QED
      BY <1>f, <2>1, <2>2, <2>3, <3>1
  <2>4. \A h \in DOMAIN said : Session(h)' = Session(h)
    BY <1>t DEF Session
  <2> QED
    BY <1>t, <1>f, <2>3, <2>4 DEF AnsweredInv
<1>r. ASSUME Rest(k), mailbox[k] # <<>>
      PROVE  /\ Mails(k) = {Head(mailbox[k])} \cup Mails(k)'
             /\ \A l \in Lobbies \ {k} : Mails(l)' = Mails(l)
  BY <1>t, <1>r, RestMails
<1>1. CASE OnHelloServer(k)
  <2>1. PICK g \in DOMAIN said : g = Head(mailbox[k]).hello /\ mailbox[k] # <<>>
    BY <1>1, TakesMail DEF OnHelloServer, Greeting, Belongs
  <2> DEFINE m == [op |-> "consume", hello |-> g]
  <2>2. RestAndPost(k, m) /\ UNCHANGED <<open, acked, at>>
    BY <1>1, <2>1 DEF OnHelloServer, lobbyVars, sessionVars
  <2>3. m \in Message /\ Greeting(m) /\ m.hello = g
    BY <1>t DEF Message, Greeting
  <2> HIDE DEF m
  <2>4. /\ Mails(k) \cup {m} = {Head(mailbox[k])} \cup Mails(k)' /\ m \in Mails(k)'
        /\ \A l \in Lobbies \ {k} : Mails(l)' = Mails(l)
    BY <1>t, <2>1, <2>2, <2>3, RestAndPostMails
  <2>5. UnderwayHello(g, k)'
    BY <2>3, <2>4 DEF UnderwayHello
  <2>6. \A n \in Mails(k) : n \in Mails(k)' \/ n.hello = g
    BY <2>1, <2>4
  <2> QED
    BY <1>f, <2>2, <2>4, <2>5, <2>6
<1>2. CASE ConsumeToken(k)
  <2>1. PICK g \in DOMAIN said : g = Head(mailbox[k]).hello /\ mailbox[k] # <<>> /\ at[k].op = "idle"
    BY <1>2, TakesMail DEF ConsumeToken, Greeting, Belongs
  <2> DEFINE to == [op |-> "wait", hello |-> g]
  <2>2. Rest(k) /\ UNCHANGED <<open, acked>> /\ at' = [at EXCEPT ![k] = to]
    BY <1>2, <2>1 DEF ConsumeToken, sessionVars, Goes
  <2>3. to.op = "wait" /\ to.hello = g
    OBVIOUS
  <2> HIDE DEF to
  <2>4. at'[k] = to /\ \A l \in Lobbies \ {k} : at'[l] = at[l]
    BY <1>t, <2>2
  <2>5. UnderwayHello(g, k)'
    BY <2>3, <2>4 DEF UnderwayHello
  <2>6. \A n \in Mails(k) : n \in Mails(k)' \/ n.hello = g
    BY <1>r, <2>1, <2>2
  <2> QED
    BY <1>f, <1>r, <2>1, <2>2, <2>4, <2>5, <2>6
<1>3. CASE TokenValidated(k)
  <2>1. PICK g \in DOMAIN said : g = at[k].hello
    BY <1>3 DEF TokenValidated, TypeInv, Underway, Belongs
  <2> DEFINE m == [op |-> "load", hello |-> g]
  <2>2. Post(k, m) /\ UNCHANGED <<open, acked>> /\ at' = [at EXCEPT ![k] = Idle]
    BY <1>3, <2>1 DEF TokenValidated, sessionVars, Goes
  <2>3. m \in Message /\ Greeting(m) /\ m.hello = g
    BY <1>t DEF Message, Greeting
  <2> HIDE DEF m
  <2>4. Mails(k)' = Mails(k) \cup {m} /\ \A l \in Lobbies \ {k} : Mails(l)' = Mails(l)
    BY <1>t, <2>2, <2>3, PostMails
  <2>5. UnderwayHello(g, k)'
    BY <2>3, <2>4 DEF UnderwayHello
  <2>6. \A l \in Lobbies \ {k} : at'[l] = at[l]
    BY <1>t, <2>2
  <2> QED
    BY <1>f, <2>1, <2>2, <2>4, <2>5, <2>6
<1>4. CASE TokenRefused(k) \/ SelectAccount(k)
  <2>1. PICK g : g = at[k].hello
    OBVIOUS
  <2>2. /\ UNCHANGED mailbox /\ at' = [at EXCEPT ![k] = Idle]
        /\ open' \subseteq open /\ acked \subseteq acked'
        /\ g \in acked' \/ Session(g) \notin open'
    BY <1>4, <2>1 DEF TokenRefused, SelectAccount, Goes, Disconnect
  <2>3. \A l \in Lobbies : Mails(l)' = Mails(l) /\ (l # k => at'[l] = at[l])
    BY <1>t, <2>2 DEF Mails
  <2> QED
    BY <1>f, <2>1, <2>2, <2>3
<1>5. CASE UpsertAccount(k)
  <2>1. PICK g \in DOMAIN said : g = Head(mailbox[k]).hello /\ mailbox[k] # <<>> /\ at[k].op = "idle"
    BY <1>5, TakesMail DEF UpsertAccount, Greeting, Belongs
  <2> DEFINE to == [op |-> "select", hello |-> g]
  <2>2. /\ Rest(k) /\ acked' = acked /\ open' \subseteq open
        /\ \/ at' = [at EXCEPT ![k] = to]
           \/ at' = at /\ Session(g) \notin open'
    BY <1>5, <2>1 DEF UpsertAccount, Goes, Disconnect
  <2>3. to.op = "select" /\ to.hello = g
    OBVIOUS
  <2> HIDE DEF to
  <2>4. /\ at'[k] = to \/ Session(g) \notin open'
        /\ \A l \in Lobbies \ {k} : at'[l] = at[l]
    BY <1>t, <2>2
  <2>5. UnderwayHello(g, k)' \/ Session(g) \notin open'
    BY <2>3, <2>4 DEF UnderwayHello
  <2>6. \A n \in Mails(k) : n \in Mails(k)' \/ n.hello = g
    BY <1>r, <2>1, <2>2
  <2> QED
    BY <1>f, <1>r, <2>1, <2>2, <2>4, <2>5, <2>6
(* The others take no greeting and end no step of a hello.                 *)
<1>6. CASE OnCreateCharacterReq(k) \/ OnGetCharacterListReq(k)
  <2>1. /\ Rest(k) /\ mailbox[k] # <<>> /\ ~Greeting(Head(mailbox[k])) /\ at[k].op = "idle"
        /\ UNCHANGED <<open, acked>>
        /\ at' = at \/ \E x : at' = [at EXCEPT ![k] = x]
    <3>1. Rest(k) /\ UNCHANGED <<open, acked>>
      BY <1>6 DEF OnCreateCharacterReq, OnGetCharacterListReq, sessionVars
    <3>2. PICK op \in {"create", "list"} : Takes(k, op)
      BY <1>6 DEF OnCreateCharacterReq, OnGetCharacterListReq
    <3>3. mailbox[k] # <<>> /\ ~Greeting(Head(mailbox[k])) /\ at[k].op = "idle"
      BY <3>2, TakesMail DEF Greeting
    <3>4. at' = at \/ \E x : at' = [at EXCEPT ![k] = x]
      BY <1>6 DEF OnCreateCharacterReq, OnGetCharacterListReq, Goes
    <3> QED
      BY <3>1, <3>3, <3>4
  <2>2. \A n \in Mails(k) : n \in Mails(k)' \/ ~Greeting(n)
    BY <1>r, <2>1
  <2>3. \A l \in Lobbies \ {k} : at'[l] = at[l]
    BY <1>t, <2>1
  <2>4. PICK g : g \notin DOMAIN said
    <3>1. MaxHellos + 1 \notin Hellos
      BY LoginAssumption DEF Hellos
    <3> QED
      BY <1>t, <3>1
  <2> QED
    BY <1>f, <1>r, <2>1, <2>2, <2>3, <2>4
<1>8. CASE CharacterLogin(k)
  <2>1. /\ UNCHANGED <<open, acked>> /\ at[k].op \in {"idle", "check"}
        /\ \A l \in Lobbies \ {k} : Mails(l)' = Mails(l) /\ at'[l] = at[l]
        /\ \A m \in Mails(k) : m \in Mails(k)' \/ ~Greeting(m)
    BY <1>8, LoginSteps
  <2>2. PICK g : g \notin DOMAIN said
    <3>1. MaxHellos + 1 \notin Hellos
      BY LoginAssumption DEF Hellos
    <3> QED
      BY <1>t, <3>1
  <2> QED
    BY <1>f, <2>1, <2>2
<1>7. CASE UpsertCharacter(k)
  <2>1. /\ UNCHANGED <<mailbox, open, acked>> /\ at' = [at EXCEPT ![k] = Idle] /\ at[k].op = "upsert"
    BY <1>7 DEF UpsertCharacter, Goes
  <2>2. \A l \in Lobbies : Mails(l)' = Mails(l) /\ (l # k => at'[l] = at[l])
    BY <1>t, <2>1 DEF Mails
  <2>3. PICK g : g \notin DOMAIN said
    <3>1. MaxHellos + 1 \notin Hellos
      BY LoginAssumption DEF Hellos
    <3> QED
      BY <1>t, <3>1
  <2> QED
    BY <1>f, <2>1, <2>2, <2>3
<1> QED
  BY <1>1, <1>2, <1>3, <1>4, <1>5, <1>6, <1>7, <1>8 DEF Lobby

LEMMA AnsweredStep == TypeInv /\ AnsweredInv /\ [Next]_vars => AnsweredInv'
<1> SUFFICES ASSUME TypeInv, AnsweredInv, [Next]_vars PROVE AnsweredInv'
  OBVIOUS
<1>t. mailbox \in [Lobbies -> Seq(Message)]
  BY DEF TypeInv, Typed
<1>p. ASSUME NEW k \in Lobbies, NEW m \in Message, Post(k, m)
      PROVE  m \in Mails(k)' /\ \A l \in Lobbies : Mails(l) \subseteq Mails(l)'
  <2>1. Mails(k)' = Mails(k) \cup {m} /\ \A l \in Lobbies \ {k} : Mails(l)' = Mails(l)
    BY <1>t, <1>p, PostMails
  <2> QED
    BY <2>1
<1>1. CASE TokenService \/ Validation \/ UNCHANGED vars
  <2>1. UNCHANGED <<said, mailbox, open, acked, at>>
    BY <1>1 DEF TokenService, Validation, vars, lobbyVars, sessionVars
  <2>2. \A l \in Lobbies : Mails(l) \subseteq Mails(l)'
    BY <2>1 DEF Mails
  <2> QED
    BY <2>1, <2>2, AnsweredFrame
<1>2. ASSUME NEW s \in Sessions, NEW t \in Tokens, ClientSaysHello(s, t) PROVE AnsweredInv'
  <2>1. PICK n \in Hellos :
        /\ n = Len(said) + 1 /\ DOMAIN said' = DOMAIN said \cup {n}
        /\ \A h \in DOMAIN said : Session(h)' = Session(h)
        /\ Session(n)' = s
    BY <1>2, SaysHello
  <2>2. PICK k \in Lobbies : k = LobbyOf[s]
    BY LoginAssumption
  <2> DEFINE m == [op |-> "hello", hello |-> n]
  <2>3. UNCHANGED <<at, acked, open>> /\ Post(k, m)
    BY <1>2, <2>1, <2>2 DEF ClientSaysHello, Quiet, lobbyVars, sessionVars
  <2>4. m \in Message /\ m.hello = n /\ Greeting(m)
    BY DEF Message, Greeting
  <2> HIDE DEF m
  <2>5. m \in Mails(k)' /\ \A l \in Lobbies : Mails(l) \subseteq Mails(l)'
    BY <1>p, <2>3, <2>4
  <2>6. UnderwayHello(n, k)'
    BY <2>4, <2>5 DEF UnderwayHello
  <2>7. \A h : \A l \in Lobbies : UnderwayHello(h, l) => UnderwayHello(h, l)'
    BY <2>3, <2>5 DEF UnderwayHello
  <2>8. \A h \in DOMAIN said : LobbyOf[Session(h)] \in Lobbies
    BY HelloSession
  <2>9. ASSUME NEW h \in DOMAIN said, h \notin acked, Session(h) \in open
        PROVE  UnderwayHello(h, LobbyOf[Session(h)])'
    <3>1. PICK l \in Lobbies : l = LobbyOf[Session(h)]
      BY <2>8
    <3>2. UnderwayHello(h, l)'
      BY <2>7, <2>9, <3>1 DEF AnsweredInv
    <3> QED
      BY <2>1, <3>1, <3>2
  <2> QED
    BY <2>1, <2>2, <2>3, <2>6, <2>9 DEF AnsweredInv
<1>3. ASSUME NEW s \in Sessions, ClientRequests(s) PROVE AnsweredInv'
  <2>1. UNCHANGED <<said, at, acked, open>>
    BY <1>3 DEF ClientRequests, Quiet, lobbyVars, sessionVars
  <2>2. PICK m \in [op : {"create"}, session : Sessions, character : Characters]
                   \cup [op : {"list"}, session : Sessions] : Post(LobbyOf[s], m)
    BY <1>3 DEF ClientRequests
  <2>3. m \in Message /\ LobbyOf[s] \in Lobbies
    BY LoginAssumption DEF Message
  <2> QED
    BY <1>p, <2>1, <2>2, <2>3, AnsweredFrame
<1>4. ASSUME World PROVE AnsweredInv'
  <2>1. UNCHANGED <<said, at, acked, open>>
    BY <1>4 DEF World, OnRecvHelloWorldServer, CharacterLoggedIn, CallFailed, Quiet,
                lobbyVars, sessionVars
  <2>2. \/ mailbox' = mailbox
        \/ \E m \in Request : Post(Home, m)
    BY <1>4 DEF World, OnRecvHelloWorldServer, CharacterLoggedIn, CallFailed, Request
  <2>3. ASSUME NEW m \in Request, Post(Home, m)
        PROVE  \A l \in Lobbies : Mails(l) \subseteq Mails(l)'
    <3>1. m \in Message /\ Home \in Lobbies /\ Post(Home, m)
      BY <2>3, LoginAssumption DEF Message, Request
    <3> QED
      BY <1>p, <3>1
  <2>4. CASE mailbox' = mailbox
    BY <2>1, <2>4, AnsweredFrame DEF Mails
  <2> QED
    BY <2>1, <2>2, <2>3, <2>4, AnsweredFrame
<1> QED
  BY <1>1, <1>2, <1>3, <1>4, AnsweredLobby DEF Next, Client

(* When a lobby has nothing left to do, every hello said to it was         *)
(* answered or its session disconnected: whichever requests and databases  *)
(* failed, and in whatever order the messages came.                        *)
THEOREM HelloAnsweredTheorem == Spec => []HelloAnswered
<1>1. Init => AnsweredInv
  BY DEF Init, AnsweredInv
<1>2. AnsweredInv => HelloAnswered
  <2> SUFFICES ASSUME AnsweredInv, NEW h \in DOMAIN said, NEW l, l = LobbyOf[Session(h)],
                      mailbox[l] = <<>>, at[l] = Idle
               PROVE  h \in acked \/ Session(h) \notin open
    BY DEF HelloAnswered
  <2>1. Mails(l) = {} /\ at[l].op = "idle"
    BY DEF Mails, Elements, Idle
  <2>2. ~UnderwayHello(h, l)
    BY <2>1 DEF UnderwayHello
  <2> QED
    BY <2>2 DEF AnsweredInv
<1> QED
  BY <1>1, <1>2, TypeAlways, AnsweredStep, PTL DEF Spec
=============================================================================
