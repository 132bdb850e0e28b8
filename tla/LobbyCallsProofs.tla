-------------------------- MODULE LobbyCallsProofs --------------------------
(***************************************************************************)
(* Proofs about LobbyCalls, for any number of calls: type correctness, and *)
(* every safety property the model is checked for.                         *)
(***************************************************************************)
EXTENDS LobbyCalls, SequenceTheorems, FiniteSetTheorems, TLAPS

(* What a sequence holds. *)
Elements(q) == {q[i] : i \in DOMAIN q}

Step == {"copy", "drop", "undefined", "judge", "healthy", "init", "finish"}

(* TypeOK but for the number of call data that accept, which ServesInv     *)
(* bounds; a place that is busy is busy with a call.                       *)
Typed ==
    /\ at \in [Place -> {Idle} \cup [step : Step, call : Call]]
    /\ method \in [Call -> Methods \cup {None}] /\ mailbox \in Seq(Message)
    /\ data \in [Call -> {"none", "live", "deleted"}]
    /\ refs \in [Call -> SUBSET {"data", "caller"}]
    /\ result \in [Call -> Outcome \cup {None}] /\ reply \in [Call -> Outcome \cup {None}]
    /\ callback \in [Call -> BOOLEAN] /\ dangled \subseteq Place
    /\ net \in [Call -> {"idle", "sent", "serving", "replied", "closed"}]
    /\ accepting \in [Methods -> Nat] /\ finishing \subseteq Call
    /\ server \in [Call -> {"none", "PROCESS", "FINISH", "deleted"}]
    /\ isHealthy \in BOOLEAN /\ inited \in BOOLEAN /\ isRegistered \in BOOLEAN
    /\ overlapped \in BOOLEAN /\ DOMAIN continued = Call

(* A call that nobody made has left no trace.                              *)
Untouched(c) ==
    /\ data[c] = "none" /\ refs[c] = {} /\ result[c] = None /\ ~callback[c]
    /\ continued[c] = <<>> /\ net[c] = "idle" /\ server[c] = "none" /\ reply[c] = None
    /\ c \notin finishing
    /\ \A p \in Place : at[p].call # c
    /\ \A m \in Elements(mailbox) : m.call # c

CallInv == Typed /\ \A c \in Call : method[c] = None => Untouched(c)

(* Tags come back once: no message is in the channel twice.                *)
Once(q) == \A i, j \in DOMAIN q : q[i].op = q[j].op /\ q[i].call = q[j].call => i = j

-----------------------------------------------------------------------------
(* The server's side of call c.                                            *)
Waiting(m) == {c \in Call : method[c] = m /\ server[c] = "PROCESS" /\ reply[c] = None}
Proceeding(c) == \E m \in Elements(mailbox) : m.op = "proceed" /\ m.call = c
Finishing(c) == at["channel"].step = "finish" /\ at["channel"].call = c

Served(c) ==
    /\ net[c] \in {"idle", "sent"} => server[c] = "none"
    /\ net[c] = "replied" => reply[c] # None
    /\ reply[c] = None <=> server[c] = "none" \/ (server[c] = "PROCESS" /\ ~Finishing(c))
    /\ Finishing(c) => server[c] = "PROCESS"
    /\ server[c] = "PROCESS" /\ reply[c] = None => Proceeding(c)
    /\ Proceeding(c) => server[c] \in {"PROCESS", "FINISH"} /\ c \notin finishing
    /\ c \in finishing => reply[c] # None /\ server[c] \in {"PROCESS", "FINISH"}

ServesInv ==
    /\ Once(mailbox)
    /\ \A m \in Methods : /\ accepting[m] \in 0..1
                          /\ accepting[m] = 1 <=> Waiting(m) = {}
                          /\ \A c, d \in Waiting(m) : c = d
    /\ \A c \in Call : Served(c)

-----------------------------------------------------------------------------
(* The client's side.                                                      *)
Holding(p, c) == at[p].step = "drop" /\ at[p].call = c
Copying(p, c) == at[p].step = "copy" /\ at[p].call = c

Carried(c) ==
    /\ "data" \in refs[c] <=> data[c] = "live"
    /\ result[c] # None <=> data[c] = "deleted"
    /\ result[c] \in {None, "failed", reply[c]}
    /\ data[c] = "none" => method[c] = None
    /\ data[c] = "live" /\ net[c] = "closed" =>
          \E m \in Elements(mailbox) : m.op = "complete" /\ m.call = c
    /\ data[c] = "deleted" => net[c] = "closed"
    /\ continued[c] = IF callback[c] /\ refs[c] = {} THEN <<result[c]>> ELSE <<>>
    /\ "caller" \in refs[c] <=> \E p \in Place : Holding(p, c)
    /\ "caller" \in refs[c] => callback[c]
    /\ \A p \in Place : Copying(p, c) => ~callback[c]
    /\ \A p, q \in Place : (Holding(p, c) \/ Copying(p, c)) /\ (Holding(q, c) \/ Copying(q, c)) => p = q

Completion(m) == data[m.call] = "live" /\ net[m.call] = "closed"
                 /\ m.outcome \in {"failed", reply[m.call]}

CarriedInv ==
    /\ \A c \in Call : Carried(c)
    /\ \A m \in Elements(mailbox) : m.op = "complete" => Completion(m)
    /\ at["channel"].step = "copy" => data[at["channel"].call] = "live"
    /\ at["channel"].step # "undefined" /\ "channel" \notin dangled

-----------------------------------------------------------------------------
(* Registration.  While no two answers were judged at the same time, only  *)
(* one place is past judging, and it finds the service not yet inited.     *)
Past(p) == at[p].step \in {"healthy", "init"}
Registrations == {c \in Call : method[c] = "RegisterServer"}

RegisterInv ==
    ~overlapped =>
        /\ \A p, q \in Place : Past(p) /\ Past(q) => p = q
        /\ \A p \in Place : at[p].step = "init" => ~inited
        /\ ~inited => Registrations = {}
        /\ \A c, d \in Registrations : c = d

-----------------------------------------------------------------------------
(* What Append and Tail do to the elements of a sequence. *)
LEMMA AppendElements ==
  ASSUME NEW S, NEW q \in Seq(S), NEW m \in S
  PROVE  /\ Append(q, m) \in Seq(S)
         /\ Elements(Append(q, m)) = Elements(q) \cup {m}
<1>1. /\ Append(q, m) \in Seq(S) /\ DOMAIN Append(q, m) = 1..(Len(q) + 1) /\ DOMAIN q = 1..Len(q)
      /\ \A i \in 1..Len(q) : Append(q, m)[i] = q[i]
      /\ Append(q, m)[Len(q) + 1] = m /\ Len(q) \in Nat
  BY AppendProperties, LenProperties
<1>2. 1..(Len(q) + 1) = 1..Len(q) \cup {Len(q) + 1}
  BY <1>1
<1>3. \A i \in DOMAIN Append(q, m) :
         Append(q, m)[i] # m => i \in DOMAIN q /\ Append(q, m)[i] = q[i]
  BY <1>1, <1>2
<1>4. (\A i \in DOMAIN q : i \in DOMAIN Append(q, m) /\ Append(q, m)[i] = q[i])
      /\ Len(q) + 1 \in DOMAIN Append(q, m)
  BY <1>1, <1>2
<1> QED
  BY <1>1, <1>3, <1>4, Zenon DEF Elements

LEMMA TailElements ==
  ASSUME NEW S, NEW q \in Seq(S), q # <<>>
  PROVE  /\ Tail(q) \in Seq(S) /\ Head(q) \in S
         /\ Elements(q) = {Head(q)} \cup Elements(Tail(q))
<1>1. /\ Tail(q) \in Seq(S) /\ Len(q) \in Nat \ {0} /\ Len(Tail(q)) = Len(q) - 1
      /\ \A i \in 1..Len(Tail(q)) : Tail(q)[i] = q[i + 1]
      /\ Head(q) = q[1] /\ Head(q) \in S
      /\ DOMAIN q = 1..Len(q) /\ DOMAIN Tail(q) = 1..Len(Tail(q))
  BY HeadTailProperties, LenProperties, EmptySeq
<1>2. \A i \in 1..Len(q) : i # 1 => i - 1 \in 1..Len(Tail(q)) /\ Tail(q)[i - 1] = q[i]
  BY <1>1
<1>3. \A i \in DOMAIN q : q[i] # Head(q) => \E j \in DOMAIN Tail(q) : Tail(q)[j] = q[i]
  BY <1>1, <1>2
<1>4. (\A j \in DOMAIN Tail(q) : \E i \in DOMAIN q : Tail(q)[j] = q[i]) /\ 1 \in DOMAIN q
  BY <1>1
<1>5. Head(q) \in Elements(q)
  BY <1>1, <1>4 DEF Elements
<1>6. ASSUME NEW x \in Elements(q) PROVE x = Head(q) \/ x \in Elements(Tail(q))
  BY <1>3, <1>6 DEF Elements
<1>7. ASSUME NEW x \in Elements(Tail(q)) PROVE x \in Elements(q)
  BY <1>4, <1>7 DEF Elements
<1> QED
  BY <1>1, <1>5, <1>6, <1>7

LEMMA OnceAppend ==
  ASSUME NEW q \in Seq(Message), NEW m \in Message, Once(q),
         \A n \in Elements(q) : n.op = m.op => n.call # m.call
  PROVE  Once(Append(q, m))
<1> DEFINE a == Append(q, m)
<1>1. /\ DOMAIN q = 1..Len(q) /\ DOMAIN a = 1..(Len(q) + 1) /\ Len(q) \in Nat
      /\ \A i \in 1..Len(q) : a[i] = q[i]
      /\ a[Len(q) + 1] = m
  BY AppendProperties, LenProperties
<1>2. \A i \in DOMAIN a : i # Len(q) + 1 => i \in DOMAIN q /\ a[i] = q[i] /\ q[i] \in Elements(q)
  BY <1>1 DEF Elements
<1> HIDE DEF a
<1>3. Once(a)
  BY <1>1, <1>2 DEF Once
<1> QED
  BY <1>3 DEF a

LEMMA OnceTail ==
  ASSUME NEW q \in Seq(Message), q # <<>>, Once(q)
  PROVE  /\ Once(Tail(q))
         /\ \A n \in Elements(Tail(q)) : n.op = Head(q).op => n.call # Head(q).call
<1> DEFINE r == Tail(q)
<1>1. /\ Len(q) \in Nat \ {0} /\ Len(r) = Len(q) - 1
      /\ \A i \in 1..Len(r) : r[i] = q[i + 1]
      /\ Head(q) = q[1]
      /\ DOMAIN q = 1..Len(q) /\ DOMAIN r = 1..Len(r)
  BY HeadTailProperties, LenProperties, EmptySeq
<1>2. \A i \in DOMAIN r : r[i] = q[i + 1] /\ i + 1 \in DOMAIN q /\ i + 1 # 1 /\ i \in Int
  BY <1>1
<1>3. 1 \in DOMAIN q
  BY <1>1
<1> HIDE DEF r
<1>4. Once(r)
  <2> SUFFICES ASSUME NEW i \in DOMAIN r, NEW j \in DOMAIN r, r[i].op = r[j].op, r[i].call = r[j].call
               PROVE  i = j
    BY DEF Once
  <2>1. i + 1 = j + 1
    BY <1>2 DEF Once
  <2> QED
    BY <1>2, <2>1
<1>5. ASSUME NEW n \in Elements(r), n.op = Head(q).op PROVE n.call # Head(q).call
  <2>1. PICK i \in DOMAIN r : n = r[i]
    BY DEF Elements
  <2>2. n = q[i + 1] /\ i + 1 \in DOMAIN q /\ i + 1 # 1
    BY <1>2, <2>1
  <2> QED
    BY <1>1, <1>3, <1>5, <2>2 DEF Once
<1> QED
  BY <1>4, <1>5 DEF r

(* A tag that comes back is posted as one more message.                    *)
LEMMA PostMail ==
  ASSUME mailbox \in Seq(Message), NEW m \in Message, Post(m)
  PROVE  /\ mailbox' \in Seq(Message)
         /\ Elements(mailbox') = Elements(mailbox) \cup {m}
         /\ Once(mailbox) /\ (\A n \in Elements(mailbox) : n.op = m.op => n.call # m.call)
            => Once(mailbox')
BY AppendElements, OnceAppend DEF Post

(* The channel takes its first message.                                    *)
LEMMA TakeMail ==
  ASSUME mailbox \in Seq(Message), mailbox # <<>>, mailbox' = Tail(mailbox)
  PROVE  /\ mailbox' \in Seq(Message) /\ Head(mailbox) \in Message
         /\ Elements(mailbox) = {Head(mailbox)} \cup Elements(mailbox')
         /\ Head(mailbox).call \in Call
         /\ Head(mailbox).op = "complete" => Head(mailbox).outcome \in Outcome
         /\ Once(mailbox) =>
               /\ Once(mailbox')
               /\ \A n \in Elements(mailbox') : n.op = Head(mailbox).op => n.call # Head(mailbox).call
<1>1. Head(mailbox) \in Message
  BY TailElements
<1>2. \A m \in Message : m.call \in Call /\ (m.op = "complete" => m.outcome \in Outcome)
  BY DEF Message
<1> QED
  BY <1>1, <1>2, TailElements, OnceTail
-----------------------------------------------------------------------------
(* A step is of one call: what the invariants say of the others is as it   *)
(* was.                                                                    *)
PlacesOnly(x) ==
    \A c \in Call \ {x} :
        /\ Finishing(c)' <=> Finishing(c)
        /\ \A p \in Place : /\ at'[p].call = c => at[p].call = c
                            /\ Holding(p, c)' <=> Holding(p, c)
                            /\ Copying(p, c)' <=> Copying(p, c)

Only(x) ==
    /\ method'[x] # None
    /\ \A c \in Call \ {x} :
          /\ method'[c] = method[c] /\ data'[c] = data[c] /\ refs'[c] = refs[c]
          /\ result'[c] = result[c] /\ callback'[c] = callback[c] /\ continued'[c] = continued[c]
          /\ net'[c] = net[c] /\ server'[c] = server[c] /\ reply'[c] = reply[c]
          /\ c \in finishing' <=> c \in finishing
    /\ PlacesOnly(x)
    /\ \A m \in Message : m.call # x => (m \in Elements(mailbox') <=> m \in Elements(mailbox))

(* A place that is busy is busy with a call that was made, and so is a     *)
(* message, gRPC, or a handler whose answer is on its way.                 *)
LEMMA Places ==
  ASSUME Typed, NEW p \in Place
  PROVE  /\ at[p] = Idle \/ (at[p].step \in Step /\ at[p].call \in Call)
         /\ at[p] = [step |-> at[p].step, call |-> at[p].call]
         /\ at[p].step \in Step \cup {"idle"} /\ at[p].call \in Call \cup {None}
         /\ at[p].step = "idle" <=> at[p] = Idle
         /\ at[p].call \in Call <=> at[p] # Idle
<1>1. at[p] \in {Idle} \cup [step : Step, call : Call]
  BY DEF Typed
<1>2. None \notin Call /\ "idle" \notin Step
  BY CallsAssumption DEF Step
<1> QED
  BY <1>1, <1>2 DEF Idle

LEMMA Mails ==
  ASSUME Typed
  PROVE  /\ \A m \in Elements(mailbox) : m \in Message
         /\ \A m \in Message : m.call \in Call /\ m.op \in {"complete", "proceed"}
         /\ \A m \in Message : m.op = "complete" => m.outcome \in Outcome
<1>1. mailbox \in Seq(Message)
  BY DEF Typed
<1>2. \A i \in DOMAIN mailbox : mailbox[i] \in Message
  BY <1>1, ElementOfSeq, LenProperties
<1> QED
  BY <1>2 DEF Elements, Message

LEMMA Made ==
  ASSUME CallInv
  PROVE  /\ \A p \in Place : at[p] # Idle => at[p].call \in Call /\ method[at[p].call] # None
         /\ \A m \in Elements(mailbox) : m.call \in Call /\ method[m.call] # None
         /\ \A c \in Call : net[c] # "idle" \/ c \in finishing => method[c] # None
<1>1. Typed
  BY DEF CallInv
<1>2. \A p \in Place : at[p] # Idle => at[p].call \in Call
  BY <1>1, Places
<1>3. \A m \in Elements(mailbox) : m.call \in Call
  BY <1>1, Mails
<1> QED
  BY <1>2, <1>3 DEF CallInv, Untouched

LEMMA UntouchedFrame ==
  ASSUME CallInv, Typed', NEW x \in Call, Only(x)
  PROVE  CallInv'
<1>1. SUFFICES ASSUME NEW c \in Call, method'[c] = None PROVE Untouched(c)'
  BY DEF CallInv
<1>2. c \in Call \ {x} /\ method[c] = None
  BY <1>1 DEF Only
<1>3. Untouched(c) /\ Typed
  BY <1>2 DEF CallInv
<1>4. ASSUME NEW m \in Elements(mailbox') PROVE m.call # c
  <2>1. m \in Message
    <3>1. mailbox' \in Seq(Message)
      BY DEF Typed
    <3>2. \A i \in DOMAIN mailbox' : mailbox'[i] \in Message
      BY <3>1, ElementOfSeq, LenProperties
    <3> QED
      BY <3>2 DEF Elements
  <2> QED
    BY <1>2, <1>3, <2>1 DEF Only, Untouched
<1>5. /\ data'[c] = "none" /\ refs'[c] = {} /\ result'[c] = None /\ ~callback'[c]
      /\ continued'[c] = <<>> /\ net'[c] = "idle" /\ server'[c] = "none" /\ reply'[c] = None
      /\ c \notin finishing'
      /\ \A p \in Place : at'[p].call # c
  BY <1>2, <1>3 DEF Only, PlacesOnly, Untouched
<1> QED
  BY <1>4, <1>5 DEF Untouched

LEMMA CallInit == Init => CallInv
<1> SUFFICES ASSUME Init PROVE CallInv
  OBVIOUS
<1>1. Typed
  <2>1. mailbox \in Seq(Message)
    BY EmptySeq DEF Init
  <2> QED
    BY <2>1 DEF Init, Typed
<1>2. Elements(mailbox) = {}
  BY DEF Init, Elements
<1> QED
  BY <1>1, <1>2, CallsAssumption DEF Init, CallInv, Untouched, Idle

-----------------------------------------------------------------------------
(* Each action, of which call it is a step.                                *)

(* A place that was at nothing but x goes on with nothing but x.           *)
LEMMA PlaceStep ==
  ASSUME Typed, NEW p \in Place, NEW x \in Call,
         at[p].call = x \/ at[p].step \in {"idle", "init"},
         NEW v \in {Idle} \cup [step : Step, call : {x}],
         at' = [at EXCEPT ![p] = v]
  PROVE  /\ at' \in [Place -> {Idle} \cup [step : Step, call : Call]]
         /\ at'[p] = v /\ \A q \in Place \ {p} : at'[q] = at[q]
         /\ PlacesOnly(x)
<1>1. at' \in [Place -> {Idle} \cup [step : Step, call : Call]]
  BY DEF Typed
<1>2. at'[p] = v /\ \A q \in Place \ {p} : at'[q] = at[q]
  BY DEF Typed
<1>3. v.call \in {x, None} /\ None \notin Call
  BY CallsAssumption DEF Idle
<1>4. PlacesOnly(x)
  BY <1>2, <1>3 DEF PlacesOnly, Finishing, Holding, Copying, Place
<1> QED
  BY <1>1, <1>2, <1>4

LEMMA OneStep ==
  ASSUME Typed, NEW p \in Place, NEW s, at' = [at EXCEPT ![p].step = s]
  PROVE  at' = [at EXCEPT ![p] = [step |-> s, call |-> at[p].call]]
<1>1. at[p] = [step |-> at[p].step, call |-> at[p].call]
  BY Places
<1>2. [at[p] EXCEPT !.step = s] = [step |-> s, call |-> at[p].call]
  BY <1>1
<1>3. at' = [at EXCEPT ![p] = [at[p] EXCEPT !.step = s]]
  OBVIOUS
<1> QED
  BY <1>2, <1>3

LEMMA StartStep ==
  ASSUME CallInv, NEW p \in Place, NEW x \in Unused, NEW m \in Methods, StartCall(p, x, m),
         at[p].step \in {"idle", "init"},
         inited' \in BOOLEAN,
         UNCHANGED <<mailbox, result, callback, continued, dangled, serverVars,
                     isHealthy, isRegistered, overlapped>>
  PROVE  Typed' /\ Only(x) /\ x \in Call
<1> USE DEF StartCall, serverVars
<1>1. Typed /\ x \in Call /\ method[x] = None
  BY DEF CallInv, Unused
<1>2. [step |-> "copy", call |-> x] \in {Idle} \cup [step : Step, call : {x}]
  BY DEF Step
<1>3. None \notin Methods
  BY CallsAssumption
<1>4. \A c \in Call \ {x} : method'[c] = method[c] /\ data'[c] = data[c] /\ refs'[c] = refs[c]
                           /\ net'[c] = net[c]
  BY <1>1 DEF Typed
<1>5. /\ at' \in [Place -> {Idle} \cup [step : Step, call : Call]]
      /\ PlacesOnly(x)
  BY <1>1, <1>2, PlaceStep
<1>6. Typed'
  BY <1>1, <1>5 DEF Typed
<1>7. method'[x] = m
  BY <1>1 DEF Typed
<1> QED
  BY <1>1, <1>3, <1>4, <1>5, <1>6, <1>7 DEF Only

LEMMA CopyStep ==
  ASSUME CallInv, NEW p \in Place, CopyFuture(p)
  PROVE  /\ Typed' /\ at[p].call \in Call /\ Only(at[p].call)
         /\ \A q \in Place \ {p} : at'[q] = at[q]
         /\ at'[p].call = at[p].call
         /\ at'[p].step = IF data[at[p].call] = "live" THEN "drop" ELSE "undefined"
<1>1. Typed
  BY DEF CallInv
<1>2. PICK x : x = at[p].call
  OBVIOUS
<1>3. x \in Call /\ method[x] # None
  BY <1>1, <1>2, Made DEF Idle, CopyFuture
<1>4. PICK s \in Step : /\ at' = [at EXCEPT ![p].step = s]
                        /\ s = IF data[x] = "live" THEN "drop" ELSE "undefined"
  BY <1>2 DEF CopyFuture, Step
<1>5. at' = [at EXCEPT ![p] = [step |-> s, call |-> x]]
  BY <1>1, <1>2, <1>4, OneStep
<1>6. [step |-> s, call |-> x] \in {Idle} \cup [step : Step, call : {x}]
  OBVIOUS
<1>7. /\ at' \in [Place -> {Idle} \cup [step : Step, call : Call]]
      /\ at'[p] = [step |-> s, call |-> x] /\ \A q \in Place \ {p} : at'[q] = at[q]
      /\ PlacesOnly(x)
  BY <1>1, <1>2, <1>3, <1>5, <1>6, PlaceStep
<1>8. refs' \in [Call -> SUBSET {"data", "caller"}] /\ callback' \in [Call -> BOOLEAN]
      /\ dangled' \subseteq Place
      /\ \A c \in Call \ {x} : refs'[c] = refs[c] /\ callback'[c] = callback[c]
  <2>1. CASE dangled' = dangled
             /\ refs' = [refs EXCEPT ![x] = @ \cup {"caller"}]
             /\ callback' = [callback EXCEPT ![x] = TRUE]
    BY <1>1, <1>3, <2>1 DEF Typed
  <2>2. CASE dangled' = dangled \cup {p} /\ UNCHANGED <<refs, callback>>
    BY <1>1, <2>2 DEF Typed
  <2> QED
    BY <1>2, <2>1, <2>2 DEF CopyFuture
<1>9. UNCHANGED <<method, mailbox, data, result, continued, net, serverVars, worldVars>>
  BY DEF CopyFuture
<1>10. Typed'
  BY <1>1, <1>7, <1>8, <1>9 DEF Typed, serverVars, worldVars
<1> QED
  BY <1>2, <1>3, <1>4, <1>7, <1>8, <1>9, <1>10 DEF Only, serverVars

(* What dropping the last reference does at place p. *)
LEMMA DestroyStep ==
  ASSUME CallInv, NEW p \in Place, NEW x \in Call, NEW r, Destroy(p, x, r),
         at[p].call = x \/ at[p] = Idle
  PROVE  /\ at' \in [Place -> {Idle} \cup [step : Step, call : Call]]
         /\ at'[p] \in {Idle, [step |-> "judge", call |-> x]}
         /\ \A q \in Place \ {p} : at'[q] = at[q]
         /\ PlacesOnly(x) /\ \A c \in Call \ {x} : continued'[c] = continued[c]
         /\ DOMAIN continued' = Call /\ isHealthy' \in BOOLEAN /\ isRegistered' \in BOOLEAN
         /\ continued'[x] = IF callback[x] THEN Append(continued[x], r) ELSE continued[x]
<1>1. Typed
  BY DEF CallInv
<1>2. PICK v \in {Idle, [step |-> "judge", call |-> x]} : at' = [at EXCEPT ![p] = v]
  BY DEF Destroy
<1>3. v \in {Idle} \cup [step : Step, call : {x}]
  BY DEF Step
<1>4. at[p].call = x \/ at[p].step \in {"idle", "init"}
  BY DEF Idle
<1>5. /\ DOMAIN continued' = Call /\ isHealthy' \in BOOLEAN /\ isRegistered' \in BOOLEAN
      /\ continued'[x] = IF callback[x] THEN Append(continued[x], r) ELSE continued[x]
      /\ \A c \in Call \ {x} : continued'[c] = continued[c]
  <2>1. PICK w : w = IF callback[x] THEN Append(continued[x], r) ELSE continued[x]
    OBVIOUS
  <2>2. continued' = [continued EXCEPT ![x] = w] /\ DOMAIN continued = Call
    BY <1>1, <2>1 DEF Destroy, Typed
  <2>3. isHealthy' \in BOOLEAN /\ isRegistered' \in BOOLEAN
    BY <1>1 DEF Destroy, Typed
  <2> QED
    BY <2>1, <2>2, <2>3
<1>6. /\ at' \in [Place -> {Idle} \cup [step : Step, call : Call]]
      /\ at'[p] = v /\ \A q \in Place \ {p} : at'[q] = at[q]
      /\ PlacesOnly(x)
  BY <1>1, <1>2, <1>3, <1>4, PlaceStep
<1> QED
  BY <1>2, <1>5, <1>6

LEMMA DropStep ==
  ASSUME CallInv, NEW p \in Place, DropFuture(p)
  PROVE  /\ Typed' /\ at[p].call \in Call /\ Only(at[p].call)
         /\ at'[p].step \in {"idle", "judge"} /\ \A q \in Place \ {p} : at'[q] = at[q]
<1>1. Typed
  BY DEF CallInv
<1>2. PICK x : x = at[p].call
  OBVIOUS
<1>3. x \in Call /\ method[x] # None
  BY <1>1, <1>2, Made DEF Idle, DropFuture
<1>4. /\ UNCHANGED <<method, mailbox, data, result, callback, dangled, net, serverVars, inited, overlapped>>
      /\ refs' \in [Call -> SUBSET {"data", "caller"}]
      /\ \A c \in Call \ {x} : refs'[c] = refs[c]
  BY <1>1, <1>2, <1>3 DEF DropFuture, Typed
<1>5. CASE Destroy(p, x, result[x])
  <2>1. /\ at' \in [Place -> {Idle} \cup [step : Step, call : Call]]
        /\ at'[p] \in {Idle, [step |-> "judge", call |-> x]}
        /\ \A q \in Place \ {p} : at'[q] = at[q]
        /\ PlacesOnly(x) /\ \A c \in Call \ {x} : continued'[c] = continued[c]
        /\ DOMAIN continued' = Call /\ isHealthy' \in BOOLEAN /\ isRegistered' \in BOOLEAN
    BY <1>2, <1>3, <1>5, DestroyStep
  <2>2. Typed'
    BY <1>1, <1>4, <2>1 DEF Typed, serverVars
  <2> QED
    BY <1>2, <1>3, <1>4, <2>1, <2>2 DEF Only, serverVars, Idle
<1>6. CASE at' = [at EXCEPT ![p] = Idle] /\ UNCHANGED <<continued, isHealthy, isRegistered>>
  <2>1. /\ at' \in [Place -> {Idle} \cup [step : Step, call : Call]]
        /\ at'[p] = Idle
        /\ \A q \in Place \ {p} : at'[q] = at[q]
        /\ PlacesOnly(x)
    BY <1>1, <1>2, <1>3, <1>6, PlaceStep
  <2>2. Typed'
    BY <1>1, <1>4, <1>6, <2>1 DEF Typed, serverVars
  <2> QED
    BY <1>2, <1>3, <1>4, <1>6, <2>1, <2>2 DEF Only, serverVars, Idle
<1> QED
  BY <1>2, <1>5, <1>6 DEF DropFuture

LEMMA SamePlaces == ASSUME NEW x, UNCHANGED at PROVE PlacesOnly(x)
BY DEF PlacesOnly, Finishing, Holding, Copying

LEMMA HandleStep ==
  ASSUME CallInv, HandleCompletion
  PROVE  /\ Typed' /\ Head(mailbox).call \in Call /\ Only(Head(mailbox).call)
         /\ \A q \in Place : at'[q] # at[q] => at'[q].step \in {"idle", "judge"}
<1>1. Typed /\ mailbox \in Seq(Message) /\ mailbox # <<>> /\ mailbox' = Tail(mailbox)
      /\ Head(mailbox).op = "complete"
  BY DEF CallInv, Typed, HandleCompletion
<1>2. PICK x : x = Head(mailbox).call
  OBVIOUS
<1>3. /\ mailbox' \in Seq(Message) /\ x \in Call /\ Head(mailbox) \in Message
      /\ Elements(mailbox) = {Head(mailbox)} \cup Elements(mailbox')
      /\ Head(mailbox).outcome \in Outcome
  BY <1>1, <1>2, TakeMail
<1>4. method[x] # None
  BY <1>2, <1>3, Made
<1>5. \A m \in Message : m.call # x => (m \in Elements(mailbox') <=> m \in Elements(mailbox))
  BY <1>2, <1>3
<1>6. /\ UNCHANGED <<method, callback, dangled, net, serverVars, inited, overlapped>>
      /\ result' = [result EXCEPT ![x] = Head(mailbox).outcome]
      /\ data' = [data EXCEPT ![x] = "deleted"]
      /\ refs' = [refs EXCEPT ![x] = @ \ {"data"}]
  BY <1>2 DEF HandleCompletion
<1>7. /\ result' \in [Call -> Outcome \cup {None}] /\ data' \in [Call -> {"none", "live", "deleted"}]
      /\ refs' \in [Call -> SUBSET {"data", "caller"}]
      /\ \A c \in Call \ {x} : result'[c] = result[c] /\ data'[c] = data[c] /\ refs'[c] = refs[c]
  BY <1>1, <1>3, <1>6 DEF Typed
<1>8. CASE Destroy("channel", x, result'[x])
  <2>1. at["channel"] = Idle /\ "channel" \in Place
    BY DEF HandleCompletion, OnChannel, Free, Place
  <2>2. /\ at' \in [Place -> {Idle} \cup [step : Step, call : Call]]
        /\ at'["channel"] \in {Idle, [step |-> "judge", call |-> x]}
        /\ \A q \in Place \ {"channel"} : at'[q] = at[q]
        /\ PlacesOnly(x) /\ \A c \in Call \ {x} : continued'[c] = continued[c]
        /\ DOMAIN continued' = Call /\ isHealthy' \in BOOLEAN /\ isRegistered' \in BOOLEAN
    <3>1. PICK r : r = result'[x]
      OBVIOUS
    <3> QED
      BY <1>3, <1>8, <2>1, <3>1, DestroyStep
  <2>3. Typed'
    BY <1>1, <1>3, <1>6, <1>7, <2>2 DEF Typed, serverVars
  <2>4. Only(x)
    BY <1>3, <1>4, <1>5, <1>6, <1>7, <2>2 DEF Only, serverVars
  <2> QED
    BY <1>2, <1>3, <2>2, <2>3, <2>4 DEF Idle
<1>9. CASE UNCHANGED <<at, continued, isHealthy, isRegistered>>
  <2>1. Typed'
    BY <1>1, <1>3, <1>6, <1>7, <1>9 DEF Typed, serverVars
  <2>2. Only(x)
    BY <1>3, <1>4, <1>5, <1>6, <1>7, <1>9, SamePlaces DEF Only, serverVars
  <2> QED
    BY <1>2, <1>3, <1>9, <2>1, <2>2
<1> QED
  BY <1>2, <1>8, <1>9 DEF HandleCompletion

(* The steps of the health check's continuation. *)
LEMMA JudgingStep ==
  ASSUME CallInv, NEW p \in Place, at[p].step \in {"judge", "healthy", "init"},
         NEW v \in {Idle, [step |-> "healthy", call |-> at[p].call], [step |-> "init", call |-> at[p].call]},
         at' = [at EXCEPT ![p] = v],
         isHealthy' \in BOOLEAN, inited' \in BOOLEAN, overlapped' \in BOOLEAN,
         UNCHANGED <<method, mailbox, data, refs, result, callback, continued, dangled, net,
                     serverVars, isRegistered>>
  PROVE  /\ Typed' /\ at[p].call \in Call /\ Only(at[p].call)
         /\ at'[p] = v /\ \A q \in Place \ {p} : at'[q] = at[q]
<1>1. Typed
  BY DEF CallInv
<1>2. PICK x : x = at[p].call
  OBVIOUS
<1>3. x \in Call /\ method[x] # None
  BY <1>1, <1>2, Made DEF Idle
<1>4. v \in {Idle} \cup [step : Step, call : {x}]
  BY <1>2 DEF Step
<1>5. /\ at' \in [Place -> {Idle} \cup [step : Step, call : Call]]
      /\ at'[p] = v /\ \A q \in Place \ {p} : at'[q] = at[q]
      /\ PlacesOnly(x)
  BY <1>1, <1>2, <1>3, <1>4, PlaceStep
<1>6. Typed'
  BY <1>1, <1>5 DEF Typed, serverVars
<1>7. Only(x)
  BY <1>3, <1>5 DEF Only, serverVars
<1> QED
  BY <1>2, <1>3, <1>5, <1>6, <1>7

LEMMA JudgeStep ==
  ASSUME CallInv, NEW p \in Place, JudgeHealth(p) \/ BecomeHealthy(p)
  PROVE  /\ Typed' /\ at[p].call \in Call /\ Only(at[p].call)
         /\ \A q \in Place \ {p} : at'[q] = at[q]
         /\ JudgeHealth(p) => IF isHealthy THEN at'[p] = Idle
                              ELSE at'[p] = [step |-> "healthy", call |-> at[p].call]
         /\ BecomeHealthy(p) => IF inited THEN at'[p] = Idle
                                ELSE at'[p] = [step |-> "init", call |-> at[p].call]
<1>1. Typed
  BY DEF CallInv
<1>2. CASE JudgeHealth(p)
  <2>1. PICK v : /\ at' = [at EXCEPT ![p] = v]
                 /\ v = IF isHealthy THEN Idle ELSE [step |-> "healthy", call |-> at[p].call]
    BY <1>1, <1>2, OneStep DEF JudgeHealth
  <2>2. overlapped' \in BOOLEAN
    BY <1>1, <1>2 DEF JudgeHealth, Typed
  <2>3. /\ Typed' /\ at[p].call \in Call /\ Only(at[p].call)
        /\ at'[p] = v /\ \A q \in Place \ {p} : at'[q] = at[q]
    BY <1>1, <1>2, <2>1, <2>2, JudgingStep DEF JudgeHealth, Typed
  <2>4. ~BecomeHealthy(p)
    BY <1>2 DEF JudgeHealth, BecomeHealthy
  <2> QED
    BY <2>1, <2>3, <2>4
<1>3. CASE BecomeHealthy(p)
  <2>1. PICK v : /\ at' = [at EXCEPT ![p] = v]
                 /\ v = IF inited THEN Idle ELSE [step |-> "init", call |-> at[p].call]
    BY <1>1, <1>3, OneStep DEF BecomeHealthy
  <2>2. /\ Typed' /\ at[p].call \in Call /\ Only(at[p].call)
        /\ at'[p] = v /\ \A q \in Place \ {p} : at'[q] = at[q]
    BY <1>1, <1>3, <2>1, JudgingStep DEF BecomeHealthy, Typed
  <2>3. ~JudgeHealth(p)
    BY <1>3 DEF JudgeHealth, BecomeHealthy
  <2> QED
    BY <2>1, <2>2, <2>3
<1> QED
  BY <1>2, <1>3

(* gRPC's own steps leave every place where it was. *)
LEMMA GrpcStep ==
  ASSUME CallInv, NEW x \in Call, UNCHANGED <<clientVars, result, worldVars, reply>>,
         net' \in [Call -> {"idle", "sent", "serving", "replied", "closed"}],
         accepting' \in [Methods -> Nat], finishing' \subseteq Call,
         server' \in [Call -> {"none", "PROCESS", "FINISH", "deleted"}],
         mailbox' = mailbox \/ \E m \in Message : Post(m) /\ m.call = x,
         \A c \in Call \ {x} : /\ net'[c] = net[c] /\ server'[c] = server[c]
                               /\ c \in finishing' <=> c \in finishing,
         method[x] # None
  PROVE  Typed' /\ Only(x)
<1>1. Typed /\ mailbox \in Seq(Message)
  BY DEF CallInv, Typed
<1>2. /\ mailbox' \in Seq(Message)
      /\ \A m \in Message : m.call # x => (m \in Elements(mailbox') <=> m \in Elements(mailbox))
  BY <1>1, PostMail
<1>3. Typed'
  BY <1>1, <1>2 DEF Typed, clientVars, worldVars
<1> QED
  BY <1>2, <1>3, SamePlaces DEF Only, clientVars

LEMMA AcceptStep ==
  ASSUME CallInv, NEW x \in Call, Accept(x)
  PROVE  Typed' /\ Only(x) /\ method[x] \in Methods
<1>1. Typed /\ method[x] # None
  BY Made DEF CallInv, Accept
<1>2. method[x] \in Methods /\ accepting[method[x]] \in Nat \ {0}
  BY <1>1 DEF Typed, Accept
<1>3. accepting' \in [Methods -> Nat]
  <2>1. PICK y : y = method[x]
    OBVIOUS
  <2> QED
    BY <1>1, <1>2, <2>1 DEF Typed, Accept
<1>4. [op |-> "proceed", call |-> x] \in Message
  BY DEF Message
<1>5. /\ net' \in [Call -> {"idle", "sent", "serving", "replied", "closed"}]
      /\ server' \in [Call -> {"none", "PROCESS", "FINISH", "deleted"}]
      /\ \A c \in Call \ {x} : net'[c] = net[c] /\ server'[c] = server[c]
      /\ finishing' = finishing /\ finishing \subseteq Call
  BY <1>1 DEF Typed, Accept
<1>6. \E m \in Message : Post(m) /\ m.call = x
  BY <1>4 DEF Accept
<1>7. UNCHANGED <<clientVars, result, worldVars, reply>>
  BY DEF Accept
<1> QED
  BY <1>1, <1>2, <1>3, <1>5, <1>6, <1>7, GrpcStep

LEMMA CompleteStep ==
  ASSUME CallInv, NEW x \in Call, NEW r \in Outcome, Complete(x, r), net[x] # "idle"
  PROVE  Typed' /\ Only(x)
<1>1. Typed /\ method[x] # None
  BY Made DEF CallInv
<1>2. [op |-> "complete", call |-> x, outcome |-> r] \in Message
  BY DEF Message
<1>3. /\ net' \in [Call -> {"idle", "sent", "serving", "replied", "closed"}]
      /\ \A c \in Call \ {x} : net'[c] = net[c]
      /\ UNCHANGED serverVars /\ finishing \subseteq Call /\ accepting \in [Methods -> Nat]
      /\ server \in [Call -> {"none", "PROCESS", "FINISH", "deleted"}]
  BY <1>1 DEF Typed, Complete
<1>4. \E m \in Message : Post(m) /\ m.call = x
  BY <1>2 DEF Complete
<1>5. UNCHANGED <<clientVars, result, worldVars, reply>>
  BY DEF Complete, serverVars
<1> QED
  BY <1>1, <1>3, <1>4, <1>5, GrpcStep DEF serverVars

LEMMA FinishedStep ==
  ASSUME CallInv, NEW x \in Call, FinishSent(x) \/ FinishDropped(x)
  PROVE  Typed' /\ Only(x)
<1>1. Typed /\ method[x] # None
  BY Made DEF CallInv, FinishSent, FinishDropped
<1>2. [op |-> "proceed", call |-> x] \in Message
  BY DEF Message
<1>3. /\ net' \in [Call -> {"idle", "sent", "serving", "replied", "closed"}]
      /\ \A c \in Call \ {x} : net'[c] = net[c]
      /\ finishing' = finishing \ {x} /\ finishing' \subseteq Call
      /\ UNCHANGED <<accepting, server, reply, clientVars, result, worldVars>>
      /\ accepting \in [Methods -> Nat]
      /\ server \in [Call -> {"none", "PROCESS", "FINISH", "deleted"}]
  BY <1>1 DEF Typed, FinishSent, FinishDropped
<1>4. mailbox' = mailbox \/ \E m \in Message : Post(m) /\ m.call = x
  BY <1>2 DEF FinishSent, FinishDropped
<1> QED
  BY <1>1, <1>3, <1>4, GrpcStep

LEMMA ProceedStep ==
  ASSUME CallInv, NEW status, Proceeds(status), NEW x, x = Head(mailbox).call
  PROVE  /\ x \in Call /\ method[x] \in Methods /\ mailbox' \in Seq(Message)
         /\ \A m \in Message : m.call # x => (m \in Elements(mailbox') <=> m \in Elements(mailbox))
<1>1. Typed /\ mailbox \in Seq(Message) /\ mailbox # <<>> /\ mailbox' = Tail(mailbox)
  BY DEF CallInv, Typed, Proceeds
<1>2. /\ mailbox' \in Seq(Message) /\ x \in Call /\ Head(mailbox) \in Message
      /\ Elements(mailbox) = {Head(mailbox)} \cup Elements(mailbox')
  BY <1>1, TakeMail
<1>3. method[x] # None
  BY <1>2, Made
<1> QED
  BY <1>1, <1>2, <1>3 DEF Typed

LEMMA RequestStep ==
  ASSUME CallInv, ProceedRequest
  PROVE  /\ Typed' /\ Head(mailbox).call \in Call /\ Only(Head(mailbox).call)
         /\ at'["channel"] = [step |-> "finish", call |-> Head(mailbox).call]
         /\ \A q \in Place \ {"channel"} : at'[q] = at[q]
<1>1. Typed /\ "channel" \in Place
  BY DEF CallInv, Place
<1>2. PICK x : x = Head(mailbox).call
  OBVIOUS
<1>3. /\ x \in Call /\ method[x] \in Methods /\ mailbox' \in Seq(Message)
      /\ \A m \in Message : m.call # x => (m \in Elements(mailbox') <=> m \in Elements(mailbox))
  BY <1>2, ProceedStep DEF ProceedRequest
<1>4. PICK r \in Handled(x) :
         /\ accepting' = [accepting EXCEPT ![method[x]] = accepting[method[x]] + 1]
         /\ reply' = [reply EXCEPT ![x] = r]
         /\ finishing' = finishing \cup {x}
         /\ at' = [at EXCEPT !["channel"] = [step |-> "finish", call |-> x]]
  BY <1>2 DEF ProceedRequest, AcceptNext
<1>5. UNCHANGED <<method, data, refs, callback, continued, dangled, result, net, server, worldVars>>
      /\ at["channel"] = Idle
  BY DEF ProceedRequest, Proceeds, Free
<1>6. accepting' \in [Methods -> Nat]
  BY <1>1, <1>3, <1>4 DEF Typed
<1>7. r \in Outcome
  BY DEF Handled, Outcome
<1>8. [step |-> "finish", call |-> x] \in {Idle} \cup [step : Step, call : {x}]
  BY DEF Step
<1>9. /\ at' \in [Place -> {Idle} \cup [step : Step, call : Call]]
      /\ at'["channel"] = [step |-> "finish", call |-> x]
      /\ \A q \in Place \ {"channel"} : at'[q] = at[q]
      /\ PlacesOnly(x)
  <2>1. at["channel"].step = "idle"
    BY <1>5 DEF Idle
  <2> QED
    BY <1>1, <1>3, <1>4, <1>8, <2>1, PlaceStep
<1>10. Typed'
  BY <1>1, <1>3, <1>4, <1>5, <1>6, <1>7, <1>9 DEF Typed, worldVars
<1>11. method[x] # None
  BY <1>3, CallsAssumption
<1>12. Only(x)
  BY <1>1, <1>3, <1>4, <1>5, <1>9, <1>11 DEF Only, Typed
<1> QED
  BY <1>2, <1>3, <1>9, <1>10, <1>12

LEMMA SetStep ==
  ASSUME CallInv, SetFinish
  PROVE  /\ Typed' /\ at["channel"].call \in Call /\ Only(at["channel"].call)
         /\ at'["channel"] = Idle /\ \A q \in Place \ {"channel"} : at'[q] = at[q]
<1>1. Typed /\ "channel" \in Place
  BY DEF CallInv, Place
<1>2. PICK x : x = at["channel"].call
  OBVIOUS
<1>3. x \in Call /\ method[x] # None
  BY <1>1, <1>2, Made DEF SetFinish, Idle
<1>4. /\ at' \in [Place -> {Idle} \cup [step : Step, call : Call]]
      /\ at'["channel"] = Idle
      /\ \A q \in Place \ {"channel"} : at'[q] = at[q]
      /\ PlacesOnly(x)
  BY <1>1, <1>2, <1>3, PlaceStep DEF SetFinish
<1>5. server' \in [Call -> {"none", "PROCESS", "FINISH", "deleted"}]
      /\ \A c \in Call \ {x} : server'[c] = server[c]
  BY <1>1, <1>2, <1>3 DEF SetFinish, Typed
<1>6. UNCHANGED <<method, data, refs, callback, continued, dangled, mailbox, result, net,
                   accepting, finishing, reply, worldVars>>
  BY DEF SetFinish
<1>7. Typed'
  BY <1>1, <1>4, <1>5, <1>6 DEF Typed, worldVars
<1>8. Only(x)
  BY <1>3, <1>4, <1>5, <1>6 DEF Only
<1> QED
  BY <1>2, <1>3, <1>4, <1>7, <1>8

LEMMA DeleteStep ==
  ASSUME CallInv, ProceedDelete
  PROVE  Typed' /\ Head(mailbox).call \in Call /\ Only(Head(mailbox).call)
<1>1. Typed
  BY DEF CallInv
<1>2. PICK x : x = Head(mailbox).call
  OBVIOUS
<1>3. /\ x \in Call /\ method[x] \in Methods /\ mailbox' \in Seq(Message)
      /\ \A m \in Message : m.call # x => (m \in Elements(mailbox') <=> m \in Elements(mailbox))
  BY <1>2, ProceedStep DEF ProceedDelete
<1>4. server' \in [Call -> {"none", "PROCESS", "FINISH", "deleted"}]
      /\ \A c \in Call \ {x} : server'[c] = server[c]
  BY <1>1, <1>2, <1>3 DEF ProceedDelete, Typed
<1>5. UNCHANGED <<clientVars, result, net, accepting, finishing, reply, worldVars>>
  BY DEF ProceedDelete
<1>6. Typed'
  BY <1>1, <1>3, <1>4, <1>5 DEF Typed, worldVars, clientVars
<1>7. method[x] # None
  BY <1>3, CallsAssumption
<1>8. Only(x)
  BY <1>3, <1>4, <1>5, <1>7, SamePlaces DEF Only, clientVars
<1> QED
  BY <1>2, <1>3, <1>6, <1>8

(* The steps that start a call, and the three places to start one from.    *)
LEMMA StartsStep ==
  ASSUME CallInv,
         \/ OnHealthCheck \/ OnRecvHelloWorldServer
         \/ \E p \in Place : OnLobbyGrpcServiceInited(p) /\ ~isRegistered
  PROVE  \E p \in Place, x \in Unused, m \in Methods :
            /\ Typed' /\ Only(x) /\ x \in Call
            /\ StartCall(p, x, m)
            /\ \/ m \in {"Ping", "CharacterLogin"} /\ at[p] = Idle /\ inited' = inited
               \/ m = "RegisterServer" /\ at[p].step = "init" /\ inited' = TRUE
            /\ UNCHANGED <<mailbox, result, callback, continued, dangled, serverVars,
                           isHealthy, isRegistered, overlapped>>
<1>1. Typed /\ "timer" \in Place /\ "channel" \in Place
  BY DEF CallInv, Place
<1>2. CASE OnHealthCheck
  <2>1. PICK x \in Unused : StartCall("timer", x, "Ping")
    BY <1>2 DEF OnHealthCheck
  <2>2. at["timer"] = Idle /\ at["timer"].step = "idle" /\ inited' = inited /\ inited' \in BOOLEAN
        /\ UNCHANGED <<mailbox, result, callback, continued, dangled, serverVars,
                           isHealthy, isRegistered, overlapped>>
    BY <1>1, <1>2 DEF OnHealthCheck, Free, Idle, worldVars, Typed
  <2> QED
    BY <1>1, <2>1, <2>2, StartStep DEF Methods
<1>3. CASE OnRecvHelloWorldServer
  <2>1. PICK x \in Unused : StartCall("channel", x, "CharacterLogin")
    BY <1>3 DEF OnRecvHelloWorldServer
  <2>2. at["channel"] = Idle /\ at["channel"].step = "idle" /\ inited' = inited /\ inited' \in BOOLEAN
        /\ UNCHANGED <<mailbox, result, callback, continued, dangled, serverVars,
                           isHealthy, isRegistered, overlapped>>
    BY <1>1, <1>3 DEF OnRecvHelloWorldServer, Free, Idle, worldVars, Typed
  <2> QED
    BY <1>1, <2>1, <2>2, StartStep DEF Methods
<1>4. ASSUME NEW p \in Place, OnLobbyGrpcServiceInited(p), ~isRegistered
      PROVE  \E x \in Unused : /\ Typed' /\ Only(x) /\ x \in Call
                               /\ StartCall(p, x, "RegisterServer")
                               /\ at[p].step = "init" /\ inited' = TRUE
                               /\ UNCHANGED <<mailbox, result, callback, continued, dangled, serverVars,
                                              isHealthy, isRegistered, overlapped>>
  <2>1. PICK x \in Unused : StartCall(p, x, "RegisterServer")
    BY <1>4 DEF OnLobbyGrpcServiceInited
  <2>2. at[p].step = "init" /\ inited' = TRUE
        /\ UNCHANGED <<mailbox, result, callback, continued, dangled, serverVars,
                       isHealthy, isRegistered, overlapped>>
    BY <1>4 DEF OnLobbyGrpcServiceInited
  <2> QED
    BY <1>1, <2>1, <2>2, StartStep DEF Methods
<1> QED
  BY <1>2, <1>3, <1>4 DEF Methods

LEMMA InitedStep ==
  ASSUME CallInv, NEW p \in Place, OnLobbyGrpcServiceInited(p), isRegistered
  PROVE  /\ Typed' /\ at[p].call \in Call /\ Only(at[p].call)
         /\ at[p].step = "init" /\ at'[p] = Idle /\ \A q \in Place \ {p} : at'[q] = at[q]
         /\ UNCHANGED <<method, mailbox, data, refs, result, callback, continued, dangled, net,
                        serverVars, isHealthy, isRegistered, overlapped>>
<1>1. Typed
  BY DEF CallInv
<1>2. /\ at[p].step = "init" /\ at' = [at EXCEPT ![p] = Idle] /\ inited' \in BOOLEAN
      /\ UNCHANGED <<method, mailbox, data, refs, result, callback, continued, dangled, net,
                     serverVars, isHealthy, isRegistered, overlapped>>
  BY DEF OnLobbyGrpcServiceInited
<1>3. isHealthy' \in BOOLEAN /\ overlapped' \in BOOLEAN
  BY <1>1, <1>2 DEF Typed
<1> QED
  BY <1>2, <1>3, JudgingStep

-----------------------------------------------------------------------------
(* The server's side. *)

LEMMA MailsNext ==
  ASSUME Typed'
  PROVE  \A m \in Elements(mailbox') : m \in Message
<1>1. mailbox' \in Seq(Message)
  BY DEF Typed
<1>2. \A i \in DOMAIN mailbox' : mailbox'[i] \in Message
  BY <1>1, ElementOfSeq, LenProperties
<1> QED
  BY <1>2 DEF Elements

LEMMA ServedFrame ==
  ASSUME CallInv, Typed', NEW x \in Call, Only(x), NEW c \in Call \ {x}
  PROVE  /\ Proceeding(c)' <=> Proceeding(c)
         /\ Served(c) => Served(c)'
<1>1. Proceeding(c)' <=> Proceeding(c)
  <2>1. \A m \in Elements(mailbox) : m \in Message
    BY Mails DEF CallInv
  <2>2. \A m \in Elements(mailbox') : m \in Message
    BY MailsNext
  <2>3. \A m \in Message : m.call = c => (m \in Elements(mailbox') <=> m \in Elements(mailbox))
    BY DEF Only
  <2> QED
    BY <2>1, <2>2, <2>3 DEF Proceeding
<1>2. /\ net'[c] = net[c] /\ server'[c] = server[c] /\ reply'[c] = reply[c]
      /\ c \in finishing' <=> c \in finishing
      /\ Finishing(c)' <=> Finishing(c)
  BY DEF Only, PlacesOnly
<1> QED
  BY <1>1, <1>2 DEF Served

(* What every method's call data rests on. *)
Accepts(m) == /\ accepting[m] \in 0..1
              /\ accepting[m] = 1 <=> Waiting(m) = {}
              /\ \A c, d \in Waiting(m) : c = d

(* A step that is not the server's: it may end the call. *)
LEMMA ServesSame ==
  ASSUME CallInv, ServesInv, Typed', NEW x \in Call, Only(x),
         UNCHANGED serverVars, method'[x] = method[x] \/ server[x] = "none",
         net'[x] \in {net[x], "closed"},
         Finishing(x)' <=> Finishing(x), Proceeding(x)' <=> Proceeding(x), Once(mailbox')
  PROVE  ServesInv'
<1>1. ASSUME NEW m \in Methods PROVE Accepts(m)'
  <2>1. Waiting(m)' = Waiting(m)
    BY DEF Waiting, Only, serverVars
  <2>2. Accepts(m)
    BY DEF ServesInv, Accepts
  <2> QED
    BY <2>1, <2>2 DEF Accepts, serverVars
<1>2. ASSUME NEW c \in Call PROVE Served(c)'
  <2>1. Served(c)
    BY DEF ServesInv
  <2>2. CASE c = x
    BY <2>1, <2>2 DEF Served, serverVars
  <2>3. CASE c # x
    BY <2>1, <2>3, ServedFrame
  <2> QED
    BY <2>2, <2>3
<1> QED
  BY <1>1, <1>2 DEF ServesInv, Accepts

LEMMA ServesStart ==
  ASSUME CallInv, ServesInv, NEW p \in Place, NEW x \in Unused, NEW m \in Methods,
         Typed', Only(x), x \in Call, StartCall(p, x, m), UNCHANGED <<mailbox, serverVars>>
  PROVE  ServesInv'
<1>1. Typed /\ Untouched(x) /\ net'[x] = "sent"
  BY DEF CallInv, Unused, StartCall, Typed
<1>2. ~Finishing(x) /\ ~Finishing(x)'
  BY <1>1 DEF Finishing, Untouched, StartCall, Typed, Place
<1>3. Proceeding(x)' <=> Proceeding(x)
  BY DEF Proceeding
<1>4. Once(mailbox')
  BY DEF ServesInv
<1>5. ASSUME NEW n \in Methods PROVE Accepts(n)'
  <2>1. Waiting(n)' = Waiting(n)
    BY <1>1 DEF Waiting, Only, serverVars, Untouched
  <2>2. Accepts(n)
    BY DEF ServesInv, Accepts
  <2> QED
    BY <2>1, <2>2 DEF Accepts, serverVars
<1>6. ASSUME NEW c \in Call PROVE Served(c)'
  <2>1. Served(c)
    BY DEF ServesInv
  <2>2. CASE c = x
    BY <1>1, <1>2, <1>3, <2>1, <2>2 DEF Served, Untouched, serverVars
  <2>3. CASE c # x
    BY <2>1, <2>3, ServedFrame
  <2> QED
    BY <2>2, <2>3
<1> QED
  BY <1>4, <1>5, <1>6 DEF ServesInv, Accepts

LEMMA ServesAccept ==
  ASSUME CallInv, ServesInv, NEW x \in Call, Accept(x)
  PROVE  CallInv' /\ ServesInv'
<1>1. Typed' /\ Only(x) /\ method[x] \in Methods /\ Typed
  BY AcceptStep DEF CallInv
<1>2. CallInv'
  BY <1>1, UntouchedFrame
<1>3. Served(x) /\ server[x] = "none" /\ reply[x] = None /\ ~Finishing(x) /\ ~Proceeding(x)
      /\ x \notin finishing
  BY DEF ServesInv, Served, Accept
<1>4. PICK m : m = [op |-> "proceed", call |-> x]
  OBVIOUS
<1>5. m \in Message /\ Post(m) /\ m.op = "proceed" /\ m.call = x
  BY <1>4 DEF Message, Accept
<1>6. Elements(mailbox') = Elements(mailbox) \cup {m} /\ Once(mailbox')
  <2>1. mailbox \in Seq(Message) /\ Once(mailbox)
    BY <1>1 DEF ServesInv, Typed
  <2>2. \A k \in Elements(mailbox) : k.op = "proceed" => k.call # x
    BY <1>3 DEF Proceeding
  <2> QED
    BY <1>5, <2>1, <2>2, PostMail
<1>7. server'[x] = "PROCESS" /\ net'[x] = "serving" /\ UNCHANGED <<finishing, reply, at>>
  BY <1>1 DEF Accept, Typed, clientVars
<1>8. Served(x)'
  <2>1. Proceeding(x)'
    BY <1>5, <1>6 DEF Proceeding
  <2>2. ~Finishing(x)'
    BY <1>3, <1>7 DEF Finishing
  <2> QED
    BY <1>3, <1>7, <2>1, <2>2 DEF Served
<1>9. ASSUME NEW n \in Methods PROVE Accepts(n)'
  <2>1. Accepts(n)
    BY DEF ServesInv, Accepts
  <2>2. \A c \in Call \ {x} : c \in Waiting(n)' <=> c \in Waiting(n)
    BY <1>1 DEF Waiting, Only
  <2>3. x \notin Waiting(n) /\ (x \in Waiting(n)' <=> n = method[x])
    BY <1>3, <1>7 DEF Waiting, Accept, clientVars
  <2>4. CASE n = method[x]
    <3>1. accepting[n] = 1 /\ accepting'[n] = 0
      BY <1>1, <2>1, <2>4 DEF Accept, Accepts, Typed
    <3>2. Waiting(n) = {}
      BY <2>1, <3>1 DEF Accepts
    <3>3. Waiting(n)' = {x}
      <4>1. Waiting(n)' \subseteq Call
        BY DEF Waiting
      <4> QED
        BY <2>2, <2>3, <2>4, <3>2, <4>1
    <3> QED
      BY <3>1, <3>3 DEF Accepts
  <2>5. CASE n # method[x]
    <3>1. accepting'[n] = accepting[n]
      BY <1>1, <2>5 DEF Accept, Typed
    <3>2. Waiting(n)' = Waiting(n)
      <4>1. Waiting(n)' \subseteq Call /\ Waiting(n) \subseteq Call
        BY DEF Waiting
      <4> QED
        BY <2>2, <2>3, <2>5, <4>1
    <3> QED
      BY <2>1, <3>1, <3>2 DEF Accepts
  <2> QED
    BY <2>4, <2>5
<1>10. ASSUME NEW c \in Call PROVE Served(c)'
  <2>1. Served(c)
    BY DEF ServesInv
  <2>2. CASE c # x
    BY <1>1, <2>1, <2>2, ServedFrame
  <2> QED
    BY <1>8, <2>2
<1> QED
  BY <1>2, <1>6, <1>9, <1>10 DEF ServesInv, Accepts

(* Finish's tag comes back. *)
LEMMA ServesFinished ==
  ASSUME CallInv, ServesInv, NEW x \in Call, FinishSent(x) \/ FinishDropped(x)
  PROVE  CallInv' /\ ServesInv'
<1>1. Typed' /\ Only(x) /\ Typed
  BY FinishedStep DEF CallInv
<1>2. CallInv'
  BY <1>1, UntouchedFrame
<1>3. Served(x) /\ x \in finishing /\ reply[x] # None /\ server[x] \in {"PROCESS", "FINISH"}
      /\ ~Proceeding(x)
  BY DEF ServesInv, Served, FinishSent, FinishDropped
<1>4. /\ UNCHANGED <<accepting, server, reply, method, at>> /\ x \notin finishing'
      /\ Finishing(x)' <=> Finishing(x)
      /\ net'[x] \in {net[x], "replied"}
  BY <1>1 DEF FinishSent, FinishDropped, Finishing, clientVars, Typed
<1>5. Once(mailbox')
  <2>1. CASE FinishSent(x)
    <3>1. PICK m : m = [op |-> "proceed", call |-> x]
      OBVIOUS
    <3>2. m \in Message /\ Post(m) /\ m.op = "proceed" /\ m.call = x
      BY <2>1, <3>1 DEF Message, FinishSent
    <3>3. mailbox \in Seq(Message) /\ Once(mailbox)
      BY <1>1 DEF ServesInv, Typed
    <3>4. \A k \in Elements(mailbox) : k.op = "proceed" => k.call # x
      BY <1>3 DEF Proceeding
    <3> QED
      BY <3>2, <3>3, <3>4, PostMail
  <2>2. CASE FinishDropped(x)
    BY <2>2 DEF FinishDropped, ServesInv
  <2> QED
    BY <2>1, <2>2
<1>6. ASSUME NEW n \in Methods PROVE Accepts(n)'
  <2>1. Waiting(n)' = Waiting(n)
    BY <1>4 DEF Waiting
  <2>2. Accepts(n)
    BY DEF ServesInv, Accepts
  <2> QED
    BY <1>4, <2>1, <2>2 DEF Accepts
<1>7. ASSUME NEW c \in Call PROVE Served(c)'
  <2>1. Served(c)
    BY DEF ServesInv
  <2>2. CASE c = x
    BY <1>3, <1>4, <2>2 DEF Served
  <2>3. CASE c # x
    BY <1>1, <2>1, <2>3, ServedFrame
  <2> QED
    BY <2>2, <2>3
<1> QED
  BY <1>2, <1>5, <1>6, <1>7 DEF ServesInv, Accepts

(* What the channel finds in the message it takes. *)
LEMMA ProceedFinds ==
  ASSUME CallInv, ServesInv, NEW status, Proceeds(status), NEW x, x = Head(mailbox).call
  PROVE  /\ x \in Call /\ Proceeding(x) /\ server[x] = status /\ x \notin finishing
         /\ ~Finishing(x) /\ Served(x) /\ at["channel"] = Idle
         /\ ~Proceeding(x)' /\ Once(mailbox')
<1>1. mailbox \in Seq(Message) /\ mailbox # <<>> /\ mailbox' = Tail(mailbox)
      /\ Head(mailbox).op = "proceed" /\ server[x] = status /\ at["channel"] = Idle
  BY DEF CallInv, Typed, Proceeds, Free
<1>2. /\ x \in Call
      /\ Elements(mailbox) = {Head(mailbox)} \cup Elements(mailbox')
      /\ Once(mailbox')
      /\ \A n \in Elements(mailbox') : n.op = Head(mailbox).op => n.call # Head(mailbox).call
  BY <1>1, TakeMail DEF ServesInv
<1>3. Proceeding(x) /\ ~Proceeding(x)'
  BY <1>1, <1>2 DEF Proceeding
<1>4. Served(x)
  BY <1>2 DEF ServesInv
<1>5. ~Finishing(x)
  BY <1>1 DEF Finishing, Idle
<1>6. x \notin finishing
  BY <1>3, <1>4 DEF Served
<1> QED
  BY <1>1, <1>2, <1>3, <1>4, <1>5, <1>6

LEMMA ServesRequest ==
  ASSUME CallInv, ServesInv, ProceedRequest
  PROVE  CallInv' /\ ServesInv'
<1>1. PICK x : x = Head(mailbox).call
  OBVIOUS
<1>2. /\ Typed' /\ x \in Call /\ Only(x) /\ Typed
      /\ at'["channel"] = [step |-> "finish", call |-> x]
  BY <1>1, RequestStep DEF CallInv
<1>3. CallInv'
  BY <1>2, UntouchedFrame
<1>4. /\ Proceeding(x) /\ server[x] = "PROCESS" /\ x \notin finishing
      /\ ~Finishing(x) /\ Served(x) /\ ~Proceeding(x)' /\ Once(mailbox')
  BY <1>1, ProceedFinds DEF ProceedRequest
<1>5. reply[x] = None
  BY <1>4 DEF Served
<1>6. /\ accepting' = [accepting EXCEPT ![method[x]] = accepting[method[x]] + 1]
      /\ finishing' = finishing \cup {x} /\ UNCHANGED <<server, net, method>>
      /\ reply'[x] # None
  <2>1. PICK r \in Handled(x) : reply' = [reply EXCEPT ![x] = r]
    BY <1>1 DEF ProceedRequest
  <2>2. r # None
    BY CallsAssumption DEF Handled, Outcome
  <2>3. reply'[x] = r
    BY <1>2, <2>1 DEF Typed
  <2> QED
    BY <1>1, <2>2, <2>3 DEF ProceedRequest, AcceptNext
<1>7. method[x] \in Methods
  BY <1>1, ProceedStep DEF ProceedRequest
<1>8. Served(x)'
  <2>1. Finishing(x)'
    BY <1>2 DEF Finishing
  <2> QED
    BY <1>4, <1>6, <2>1 DEF Served
<1>9. ASSUME NEW n \in Methods PROVE Accepts(n)'
  <2>1. Accepts(n)
    BY DEF ServesInv, Accepts
  <2>2. \A c \in Call \ {x} : c \in Waiting(n)' <=> c \in Waiting(n)
    BY <1>2 DEF Waiting, Only
  <2>3. x \notin Waiting(n)' /\ (x \in Waiting(n) <=> n = method[x])
    BY <1>2, <1>4, <1>5, <1>6 DEF Waiting
  <2>4. Waiting(n)' \subseteq Call /\ Waiting(n) \subseteq Call
    BY DEF Waiting
  <2>5. CASE n = method[x]
    <3>1. accepting[n] = 0 /\ \A c \in Waiting(n) : c = x
      BY <2>1, <2>3, <2>5 DEF Accepts
    <3>2. accepting'[n] = 1
      BY <1>2, <1>6, <2>5, <3>1 DEF Typed
    <3>3. Waiting(n)' = {}
      BY <2>2, <2>3, <2>4, <3>1
    <3> QED
      BY <3>2, <3>3 DEF Accepts
  <2>6. CASE n # method[x]
    <3>1. accepting'[n] = accepting[n]
      BY <1>2, <1>6, <2>6 DEF Typed
    <3>2. Waiting(n)' = Waiting(n)
      BY <2>2, <2>3, <2>4, <2>6
    <3> QED
      BY <2>1, <3>1, <3>2 DEF Accepts
  <2> QED
    BY <2>5, <2>6
<1>10. ASSUME NEW c \in Call PROVE Served(c)'
  <2>1. Served(c)
    BY DEF ServesInv
  <2>2. CASE c # x
    BY <1>2, <2>1, <2>2, ServedFrame
  <2> QED
    BY <1>8, <2>2
<1> QED
  BY <1>3, <1>4, <1>9, <1>10 DEF ServesInv, Accepts

(* status_ moves on, when the answer is given. *)
LEMMA ServesStatus ==
  ASSUME CallInv, ServesInv, SetFinish \/ ProceedDelete
  PROVE  CallInv' /\ ServesInv'
<1>1. PICK x : x = IF SetFinish THEN at["channel"].call ELSE Head(mailbox).call
  OBVIOUS
<1>2. Typed' /\ x \in Call /\ Only(x) /\ Typed
  BY <1>1, SetStep, DeleteStep DEF CallInv
<1>3. CallInv'
  BY <1>2, UntouchedFrame
<1>4. Served(x)
  BY <1>2 DEF ServesInv
<1>5. CASE SetFinish
  <2>1. Finishing(x) /\ server[x] = "PROCESS" /\ reply[x] # None
    BY <1>1, <1>4, <1>5 DEF SetFinish, Finishing, Served
  <2>2. /\ server'[x] = "FINISH" /\ ~Finishing(x)' /\ Proceeding(x)' = Proceeding(x)
        /\ UNCHANGED <<net, reply, method, finishing, accepting, mailbox>>
    <3>1. server'[x] = "FINISH"
      BY <1>1, <1>2, <1>5 DEF SetFinish, Typed
    <3>2. at'["channel"] = Idle
      BY <1>5, SetStep
    <3> QED
      BY <1>5, <3>1, <3>2 DEF SetFinish, Finishing, Idle, Proceeding
  <2>3. Served(x)' /\ Once(mailbox')
    BY <1>4, <2>1, <2>2 DEF Served, ServesInv
  <2>4. ASSUME NEW n \in Methods PROVE Waiting(n)' = Waiting(n)
    BY <1>2, <2>1, <2>2 DEF Waiting, Only
  <2> QED
    <3>1. ASSUME NEW n \in Methods PROVE Accepts(n)'
      <4>1. Accepts(n)
        BY DEF ServesInv, Accepts
      <4> QED
        BY <2>2, <2>4, <4>1 DEF Accepts
    <3>2. ASSUME NEW c \in Call PROVE Served(c)'
      <4>1. Served(c)
        BY DEF ServesInv
      <4> QED
        BY <1>2, <2>3, <4>1, ServedFrame
    <3> QED
      BY <1>3, <2>3, <3>1, <3>2 DEF ServesInv, Accepts
<1>6. CASE ~SetFinish /\ ProceedDelete
  <2>1. /\ Proceeding(x) /\ server[x] = "FINISH" /\ x \notin finishing
        /\ ~Finishing(x) /\ ~Proceeding(x)' /\ Once(mailbox')
    BY <1>1, <1>6, ProceedFinds DEF ProceedDelete
  <2>2. reply[x] # None
    BY <1>4, <2>1 DEF Served
  <2>3. /\ server'[x] = "deleted" /\ UNCHANGED <<net, reply, method, finishing, accepting, at>>
        /\ ~Finishing(x)'
    BY <1>1, <1>2, <1>6, <2>1 DEF ProceedDelete, Typed, Finishing, clientVars
  <2>4. Served(x)'
    BY <1>4, <2>1, <2>2, <2>3 DEF Served
  <2>5. ASSUME NEW n \in Methods PROVE Waiting(n)' = Waiting(n)
    BY <1>2, <2>2, <2>3 DEF Waiting, Only
  <2> QED
    <3>1. ASSUME NEW n \in Methods PROVE Accepts(n)'
      <4>1. Accepts(n)
        BY DEF ServesInv, Accepts
      <4> QED
        BY <2>3, <2>5, <4>1 DEF Accepts
    <3>2. ASSUME NEW c \in Call PROVE Served(c)'
      <4>1. Served(c)
        BY DEF ServesInv
      <4> QED
        BY <1>2, <2>4, <4>1, ServedFrame
    <3> QED
      BY <1>3, <2>1, <3>1, <3>2 DEF ServesInv, Accepts
<1> QED
  BY <1>5, <1>6

-----------------------------------------------------------------------------
(* The client's side. *)

Inv == CallInv /\ ServesInv /\ CarriedInv

LEMMA CarriedFrame ==
  ASSUME CallInv, Typed', NEW x \in Call, Only(x), CarriedInv
  PROVE  /\ \A c \in Call \ {x} : Carried(c)'
         /\ \A m \in Elements(mailbox') : m.op = "complete" /\ m.call # x => Completion(m)'
<1>1. \A m \in Elements(mailbox) : m \in Message
  BY Mails DEF CallInv
<1>2. \A m \in Elements(mailbox') : m \in Message /\ m.call \in Call
  BY MailsNext, Mails DEF CallInv
<1>3. ASSUME NEW c \in Call \ {x} PROVE Carried(c)'
  <2>1. (\E m \in Elements(mailbox) : m.op = "complete" /\ m.call = c)
        => \E m \in Elements(mailbox') : m.op = "complete" /\ m.call = c
    BY <1>1 DEF Only
  <2>2. /\ method'[c] = method[c] /\ data'[c] = data[c] /\ refs'[c] = refs[c]
        /\ result'[c] = result[c] /\ callback'[c] = callback[c] /\ continued'[c] = continued[c]
        /\ net'[c] = net[c] /\ reply'[c] = reply[c]
        /\ \A p \in Place : (Holding(p, c)' <=> Holding(p, c)) /\ (Copying(p, c)' <=> Copying(p, c))
    BY DEF Only, PlacesOnly
  <2>3. Carried(c)
    BY DEF CarriedInv
  <2> QED
    BY <2>1, <2>2, <2>3 DEF Carried
<1>4. ASSUME NEW m \in Elements(mailbox'), m.op = "complete", m.call # x PROVE Completion(m)'
  <2>1. m \in Elements(mailbox) /\ m.call \in Call \ {x}
    BY <1>2, <1>4 DEF Only
  <2>2. Completion(m)
    BY <1>4, <2>1 DEF CarriedInv
  <2> QED
    BY <2>1, <2>2 DEF Completion, Only
<1> QED
  BY <1>3, <1>4

(* A step that is not the client's. *)
LEMMA CarriedSame ==
  ASSUME CallInv, CarriedInv, Typed', NEW x \in Call, Only(x),
         UNCHANGED <<method, data, refs, result, callback, continued, dangled>>,
         \A p \in Place : (Holding(p, x)' <=> Holding(p, x)) /\ (Copying(p, x)' <=> Copying(p, x)),
         reply'[x] = reply[x] \/ reply[x] = None,
         net'[x] = net[x] \/ (net[x] # "closed" /\ net'[x] # "closed"),
         \A m \in Message : m.op = "complete" => (m \in Elements(mailbox') <=> m \in Elements(mailbox)),
         at'["channel"].step \notin {"copy", "undefined"} \/ at'["channel"] = at["channel"]
  PROVE  CarriedInv'
<1>1. /\ \A m \in Elements(mailbox) : m \in Message
      /\ \A m \in Elements(mailbox') : m \in Message
      /\ \A m \in Message : m.op = "complete" => m.outcome \in Outcome
  BY Mails, MailsNext DEF CallInv
<1>2. Carried(x)'
  <2>1. Carried(x)
    BY DEF CarriedInv
  <2>2. (\E m \in Elements(mailbox) : m.op = "complete" /\ m.call = x)
        => \E m \in Elements(mailbox') : m.op = "complete" /\ m.call = x
    BY <1>1
  <2> QED
    BY <2>1, <2>2 DEF Carried
<1>3. ASSUME NEW m \in Elements(mailbox'), m.op = "complete", m.call = x PROVE Completion(m)'
  <2>1. Completion(m) /\ m.outcome \in Outcome
    BY <1>1, <1>3 DEF CarriedInv
  <2>2. None \notin Outcome
    BY CallsAssumption
  <2> QED
    BY <1>3, <2>1, <2>2 DEF Completion
<1>4. /\ \A c \in Call : Carried(c)'
      /\ \A m \in Elements(mailbox') : m.op = "complete" => Completion(m)'
  BY <1>2, <1>3, CarriedFrame
<1>5. /\ at'["channel"].step = "copy" => data'[at'["channel"].call] = "live"
      /\ at'["channel"].step # "undefined" /\ "channel" \notin dangled'
  BY DEF CarriedInv
<1> QED
  BY <1>4, <1>5 DEF CarriedInv

LEMMA CarriedStart ==
  ASSUME CallInv, CarriedInv, NEW p \in Place, NEW x \in Unused, NEW m \in Methods, x \in Call,
         Typed', Only(x), StartCall(p, x, m),
         UNCHANGED <<mailbox, result, callback, continued, dangled, serverVars>>
  PROVE  CarriedInv'
<1>1. Untouched(x) /\ Typed
  BY DEF CallInv, Unused
<1>2. /\ at'[p] = [step |-> "copy", call |-> x] /\ \A q \in Place \ {p} : at'[q] = at[q]
      /\ data'[x] = "live" /\ refs'[x] = {"data"} /\ net'[x] = "sent" /\ method'[x] = m
      /\ \A c \in Call \ {x} : data'[c] = data[c]
  BY <1>1 DEF StartCall, Typed
<1>3. \A q \in Place : ~Holding(q, x)' /\ (Copying(q, x)' => q = p)
  BY <1>1, <1>2 DEF Holding, Copying, Untouched
<1>4. Carried(x)'
  BY <1>1, <1>2, <1>3 DEF Carried, Untouched, serverVars
<1>5. \A n \in Elements(mailbox') : n.call # x
  BY <1>1 DEF Untouched
<1>6. /\ at'["channel"].step = "copy" => data'[at'["channel"].call] = "live"
      /\ at'["channel"].step # "undefined" /\ "channel" \notin dangled'
  <2>1. "channel" \in Place /\ (at["channel"].step = "copy" => at["channel"].call \in Call \ {x})
    BY <1>1, Places DEF Untouched, Place, Idle
  <2> QED
    BY <1>2, <2>1 DEF CarriedInv
<1> QED
  BY <1>4, <1>5, <1>6, CarriedFrame DEF CarriedInv

LEMMA CarriedCopy ==
  ASSUME CallInv, CarriedInv, NEW p \in Place, CopyFuture(p)
  PROVE  CarriedInv'
<1>1. PICK x : x = at[p].call
  OBVIOUS
<1>2. /\ Typed' /\ x \in Call /\ Only(x) /\ Typed /\ Carried(x)
      /\ \A q \in Place \ {p} : at'[q] = at[q]
      /\ at'[p].call = x
      /\ at'[p].step = IF data[x] = "live" THEN "drop" ELSE "undefined"
  BY <1>1, CopyStep DEF CallInv, CarriedInv
<1>3. Copying(p, x) /\ at[p].step = "copy" /\ ~callback[x]
  BY <1>1, <1>2 DEF Copying, CopyFuture, Carried
<1>4. \A q \in Place \ {p} : /\ ~Holding(q, x) /\ ~Copying(q, x) /\ ~Holding(q, x)' /\ ~Copying(q, x)'
  BY <1>2, <1>3 DEF Carried, Holding, Copying
<1>5. UNCHANGED <<method, mailbox, data, result, continued, net, serverVars, worldVars>>
  BY DEF CopyFuture
<1>6. CASE data[x] = "live"
  <2>1. refs'[x] = refs[x] \cup {"caller"} /\ callback'[x] = TRUE /\ dangled' = dangled
        /\ Holding(p, x)' /\ ~Copying(p, x)'
    BY <1>1, <1>2, <1>6 DEF CopyFuture, Typed, Holding, Copying
  <2>2. continued[x] = <<>>
    BY <1>2, <1>3 DEF Carried
  <2>3. Carried(x)'
    BY <1>2, <1>4, <1>5, <1>6, <2>1, <2>2 DEF Carried, serverVars
  <2>4. /\ at'["channel"].step = "copy" => data'[at'["channel"].call] = "live"
        /\ at'["channel"].step # "undefined" /\ "channel" \notin dangled'
    BY <1>2, <1>5, <1>6, <2>1 DEF CarriedInv, Place
  <2> QED
    <3>1. ASSUME NEW m \in Elements(mailbox'), m.op = "complete", m.call = x PROVE Completion(m)'
      BY <1>5, <3>1 DEF CarriedInv, Completion, serverVars
    <3> QED
      BY <1>2, <2>3, <2>4, <3>1, CarriedFrame DEF CarriedInv
<1>7. CASE data[x] # "live"
  <2>1. p # "channel"
    BY <1>1, <1>3, <1>7 DEF CarriedInv
  <2>2. UNCHANGED <<refs, callback>> /\ dangled' = dangled \cup {p}
        /\ ~Holding(p, x)' /\ ~Copying(p, x)' /\ ~Holding(p, x)
    BY <1>1, <1>2, <1>3, <1>7 DEF CopyFuture, Holding, Copying
  <2>3. Carried(x)'
    BY <1>2, <1>4, <1>5, <2>2 DEF Carried, serverVars
  <2>4. /\ at'["channel"].step = "copy" => data'[at'["channel"].call] = "live"
        /\ at'["channel"].step # "undefined" /\ "channel" \notin dangled'
    BY <1>2, <1>5, <2>1, <2>2 DEF CarriedInv, Place
  <2> QED
    <3>1. ASSUME NEW m \in Elements(mailbox'), m.op = "complete", m.call = x PROVE Completion(m)'
      BY <1>5, <3>1 DEF CarriedInv, Completion, serverVars
    <3> QED
      BY <1>2, <2>3, <2>4, <3>1, CarriedFrame DEF CarriedInv
<1> QED
  BY <1>6, <1>7

LEMMA CarriedDrop ==
  ASSUME CallInv, CarriedInv, NEW p \in Place, DropFuture(p)
  PROVE  CarriedInv'
<1>1. PICK x : x = at[p].call
  OBVIOUS
<1>2. /\ Typed' /\ x \in Call /\ Only(x) /\ Typed /\ Carried(x)
      /\ at'[p].step \in {"idle", "judge"} /\ \A q \in Place \ {p} : at'[q] = at[q]
  BY <1>1, DropStep DEF CallInv, CarriedInv
<1>3. Holding(p, x) /\ "caller" \in refs[x] /\ callback[x] /\ continued[x] = <<>>
  BY <1>1, <1>2 DEF DropFuture, Holding, Carried
<1>4. \A q \in Place : ~Holding(q, x)' /\ ~Copying(q, x)'
  BY <1>2, <1>3 DEF Carried, Holding, Copying
<1>5. UNCHANGED <<method, mailbox, data, result, callback, dangled, net, serverVars, inited, overlapped>>
      /\ refs'[x] = refs[x] \ {"caller"}
  BY <1>1, <1>2 DEF DropFuture, Typed
<1>6. continued'[x] = IF refs'[x] = {} THEN <<result[x]>> ELSE <<>>
  <2>1. CASE refs'[x] = {} /\ Destroy(p, x, result[x])
    <3>1. PICK r : r = result[x]
      OBVIOUS
    <3>2. continued'[x] = IF callback[x] THEN Append(continued[x], r) ELSE continued[x]
      BY <1>1, <1>2, <2>1, <3>1, DestroyStep
    <3>3. Append(<<>>, r) = <<r>>
      OBVIOUS
    <3> QED
      BY <1>3, <2>1, <3>1, <3>2, <3>3
  <2>2. CASE refs'[x] # {} /\ UNCHANGED continued
    BY <1>3, <2>2
  <2> QED
    BY <1>1, <2>1, <2>2 DEF DropFuture
<1>7. Carried(x)'
  BY <1>2, <1>3, <1>4, <1>5, <1>6 DEF Carried, serverVars
<1>8. /\ at'["channel"].step = "copy" => data'[at'["channel"].call] = "live"
      /\ at'["channel"].step # "undefined" /\ "channel" \notin dangled'
  BY <1>2, <1>5 DEF CarriedInv, Place
<1>9. ASSUME NEW m \in Elements(mailbox'), m.op = "complete", m.call = x PROVE Completion(m)'
  BY <1>5, <1>9 DEF CarriedInv, Completion, serverVars
<1> QED
  BY <1>2, <1>7, <1>8, <1>9, CarriedFrame DEF CarriedInv

LEMMA CarriedHandle ==
  ASSUME CallInv, CarriedInv, Once(mailbox), HandleCompletion
  PROVE  CarriedInv' /\ Once(mailbox')
<1>1. PICK m, x : m = Head(mailbox) /\ x = Head(mailbox).call
  OBVIOUS
<1>2. /\ Typed' /\ x \in Call /\ Only(x) /\ Typed /\ Carried(x)
      /\ \A q \in Place : at'[q] # at[q] => at'[q].step \in {"idle", "judge"}
  BY <1>1, HandleStep DEF CallInv, CarriedInv
<1>3. /\ mailbox \in Seq(Message) /\ mailbox # <<>> /\ mailbox' = Tail(mailbox) /\ m.op = "complete"
      /\ at["channel"] = Idle
  BY <1>1, <1>2 DEF Typed, HandleCompletion, OnChannel, Free
<1>4. /\ m \in Elements(mailbox) /\ m.outcome \in Outcome
      /\ Once(mailbox') /\ \A n \in Elements(mailbox') : n.op = "complete" => n.call # x
  BY <1>1, <1>3, TakeMail
<1>5. data[x] = "live" /\ net[x] = "closed" /\ m.outcome \in {"failed", reply[x]} /\ m.outcome # None
  BY <1>1, <1>3, <1>4, CallsAssumption DEF CarriedInv, Completion
<1>6. /\ result'[x] = m.outcome /\ data'[x] = "deleted" /\ refs'[x] = refs[x] \ {"data"}
      /\ UNCHANGED <<method, callback, dangled, net, serverVars, inited, overlapped>>
  BY <1>1, <1>2 DEF HandleCompletion, Typed
<1>7. continued[x] = <<>>
  BY <1>2, <1>5 DEF Carried
<1>8. continued'[x] = IF callback[x] /\ refs'[x] = {} THEN <<m.outcome>> ELSE <<>>
  <2>1. CASE refs'[x] = {} /\ Destroy("channel", x, result'[x])
    <3>1. PICK r : r = result'[x]
      OBVIOUS
    <3>2. continued'[x] = IF callback[x] THEN Append(continued[x], r) ELSE continued[x]
      BY <1>1, <1>2, <1>3, <2>1, <3>1, DestroyStep DEF Place
    <3>3. Append(<<>>, r) = <<r>>
      OBVIOUS
    <3> QED
      BY <1>6, <1>7, <2>1, <3>1, <3>2, <3>3
  <2>2. CASE refs'[x] # {} /\ UNCHANGED continued
    BY <1>7, <2>2
  <2> QED
    BY <1>1, <2>1, <2>2 DEF HandleCompletion
<1>9. \A q \in Place : (Holding(q, x)' <=> Holding(q, x)) /\ (Copying(q, x)' <=> Copying(q, x))
  <2>1. at'["timer"] = at["timer"] \/ at'["timer"].step \in {"idle", "judge"}
    BY <1>2 DEF Place
  <2>2. at'["timer"] = at["timer"]
    <3>1. CASE Destroy("channel", x, result'[x])
      <4>1. PICK r : r = result'[x]
        OBVIOUS
      <4>2. \A q \in Place \ {"channel"} : at'[q] = at[q]
        BY <1>1, <1>2, <1>3, <3>1, <4>1, DestroyStep DEF Place
      <4> QED
        BY <4>2 DEF Place
    <3>2. CASE UNCHANGED at
      BY <3>2
    <3> QED
      BY <1>1, <3>1, <3>2 DEF HandleCompletion
  <2>3. at'["channel"] = at["channel"] \/ at'["channel"].step \in {"idle", "judge"}
    BY <1>2 DEF Place
  <2> QED
    BY <1>3, <2>2, <2>3 DEF Holding, Copying, Place, Idle
<1>10. Carried(x)'
  BY <1>2, <1>5, <1>6, <1>8, <1>9 DEF Carried, serverVars
<1>11. /\ at'["channel"].step = "copy" => data'[at'["channel"].call] = "live"
       /\ at'["channel"].step # "undefined" /\ "channel" \notin dangled'
  BY <1>2, <1>3, <1>6 DEF CarriedInv, Place, Idle
<1> QED
  BY <1>2, <1>4, <1>10, <1>11, CarriedFrame DEF CarriedInv

LEMMA CarriedComplete ==
  ASSUME CallInv, CarriedInv, Once(mailbox), NEW x \in Call, NEW r \in Outcome, r \in {"failed", reply[x]},
         Complete(x, r), net[x] \notin {"idle", "closed"}
  PROVE  CarriedInv' /\ Once(mailbox')
<1>1. Typed /\ Typed' /\ Only(x) /\ Carried(x) /\ method[x] # None
  BY CompleteStep, Made DEF CallInv, CarriedInv
<1>2. data[x] = "live"
  BY <1>1 DEF Carried, Typed
<1>3. PICK m : m = [op |-> "complete", call |-> x, outcome |-> r]
  OBVIOUS
<1>4. m \in Message /\ Post(m) /\ m.op = "complete" /\ m.call = x /\ m.outcome = r
  BY <1>3 DEF Message, Complete
<1>5. \A n \in Elements(mailbox) : n.op = "complete" => n.call # x
  BY DEF CarriedInv, Completion
<1>6. Elements(mailbox') = Elements(mailbox) \cup {m} /\ Once(mailbox')
  <2>1. mailbox \in Seq(Message)
    BY <1>1 DEF Typed
  <2> QED
    BY <1>4, <1>5, <2>1, PostMail
<1>7. UNCHANGED <<clientVars, result, serverVars, worldVars>> /\ net'[x] = "closed"
  BY <1>1 DEF Complete, Typed
<1>8. UNCHANGED <<method, at, data, refs, callback, continued, dangled, result, reply>>
  BY <1>7 DEF clientVars, serverVars
<1>9. Carried(x)'
  <2>1. m \in Elements(mailbox')
    BY <1>6
  <2>2. \A q \in Place : (Holding(q, x)' <=> Holding(q, x)) /\ (Copying(q, x)' <=> Copying(q, x))
    BY <1>8 DEF Holding, Copying
  <2> QED
    BY <1>1, <1>2, <1>4, <1>7, <1>8, <2>1, <2>2 DEF Carried
<1>10. ASSUME NEW n \in Elements(mailbox'), n.op = "complete", n.call = x PROVE Completion(n)'
  <2>1. n = m
    BY <1>5, <1>6, <1>10
  <2> QED
    BY <1>2, <1>4, <1>7, <1>8, <2>1 DEF Completion
<1>11. /\ at'["channel"].step = "copy" => data'[at'["channel"].call] = "live"
       /\ at'["channel"].step # "undefined" /\ "channel" \notin dangled'
  BY <1>8 DEF CarriedInv
<1> QED
  BY <1>1, <1>6, <1>9, <1>10, <1>11, CarriedFrame DEF CarriedInv

-----------------------------------------------------------------------------
(* All the steps. *)

LEMMA InvInit == Init => Inv
<1> SUFFICES ASSUME Init PROVE Inv
  OBVIOUS
<1>1. CallInv
  BY CallInit
<1>2. Elements(mailbox) = {} /\ Once(mailbox)
  BY DEF Init, Elements, Once
<1>3. /\ \A p \in Place : at[p].step = "idle"
      /\ at["channel"].step = "idle"
  BY DEF Init, Idle, Place
<1>4. ServesInv
  <2>1. \A m \in Methods : Waiting(m) = {}
    BY DEF Init, Waiting
  <2>2. \A m \in Methods : accepting[m] = 1
    BY DEF Init
  <2>3. ASSUME NEW c \in Call PROVE Served(c)
    BY <1>2, <1>3 DEF Init, Served, Finishing, Proceeding
  <2> QED
    BY <1>2, <2>1, <2>2, <2>3 DEF ServesInv
<1>5. CarriedInv
  <2>1. ASSUME NEW c \in Call PROVE Carried(c)
    BY <1>3 DEF Init, Carried, Holding, Copying
  <2> QED
    BY <1>2, <1>3, <2>1 DEF Init, CarriedInv
<1> QED
  BY <1>1, <1>4, <1>5 DEF Inv

(* A step of the channel or of gRPC for a request, or of the health check. *)
LEMMA InvSame ==
  ASSUME Inv, CallInv', ServesInv', NEW x \in Call, Only(x),
         UNCHANGED <<method, data, refs, result, callback, continued, dangled>>,
         \A p \in Place : (Holding(p, x)' <=> Holding(p, x)) /\ (Copying(p, x)' <=> Copying(p, x)),
         reply'[x] = reply[x] \/ reply[x] = None,
         net'[x] = net[x] \/ (net[x] # "closed" /\ net'[x] # "closed"),
         \A m \in Message : m.op = "complete" => (m \in Elements(mailbox') <=> m \in Elements(mailbox)),
         at'["channel"].step \notin {"copy", "undefined"} \/ at'["channel"] = at["channel"]
  PROVE  Inv'
BY CarriedSame DEF Inv, CallInv

LEMMA InvStarts ==
  ASSUME Inv,
         \/ OnHealthCheck \/ OnRecvHelloWorldServer
         \/ \E p \in Place : OnLobbyGrpcServiceInited(p) /\ ~isRegistered
  PROVE  Inv'
<1>1. PICK p \in Place, x \in Unused, m \in Methods :
            /\ Typed' /\ Only(x) /\ x \in Call
            /\ StartCall(p, x, m)
            /\ UNCHANGED <<mailbox, result, callback, continued, dangled, serverVars>>
  BY StartsStep DEF Inv
<1>2. CallInv'
  BY <1>1, UntouchedFrame DEF Inv
<1>3. ServesInv'
  BY <1>1, ServesStart DEF Inv
<1>4. CarriedInv'
  BY <1>1, CarriedStart DEF Inv
<1> QED
  BY <1>2, <1>3, <1>4 DEF Inv

LEMMA InvCaller ==
  ASSUME Inv, NEW p \in Place, CopyFuture(p) \/ DropFuture(p)
  PROVE  Inv'
<1>1. PICK x : x = at[p].call
  OBVIOUS
<1>2. /\ Typed' /\ x \in Call /\ Only(x) /\ Typed /\ \A q \in Place \ {p} : at'[q] = at[q]
      /\ at[p].step \in {"copy", "drop"}
      /\ at'[p].step \in {"idle", "judge", "drop", "undefined"}
      /\ UNCHANGED <<mailbox, serverVars, method, net>>
  BY <1>1, CopyStep, DropStep DEF Inv, CallInv, CopyFuture, DropFuture
<1>3. CallInv'
  BY <1>2, UntouchedFrame DEF Inv
<1>4. CarriedInv'
  BY CarriedCopy, CarriedDrop DEF Inv
<1>5. (Finishing(x)' <=> Finishing(x)) /\ (Proceeding(x)' <=> Proceeding(x)) /\ Once(mailbox')
  BY <1>2 DEF Finishing, Proceeding, Inv, ServesInv, Place
<1>6. ServesInv'
  BY <1>2, <1>5, ServesSame DEF Inv
<1> QED
  BY <1>3, <1>4, <1>6 DEF Inv

LEMMA InvHandle == ASSUME Inv, HandleCompletion PROVE Inv'
<1>1. PICK x : x = Head(mailbox).call
  OBVIOUS
<1>2. /\ Typed' /\ x \in Call /\ Only(x) /\ Typed
      /\ \A q \in Place : at'[q] # at[q] => at'[q].step \in {"idle", "judge"}
  BY <1>1, HandleStep DEF Inv, CallInv
<1>3. CallInv'
  BY <1>2, UntouchedFrame DEF Inv
<1>4. CarriedInv' /\ Once(mailbox')
  BY CarriedHandle DEF Inv, ServesInv
<1>5. Proceeding(x)' <=> Proceeding(x)
  <2>1. Elements(mailbox) = {Head(mailbox)} \cup Elements(mailbox')
    BY <1>2, TakeMail DEF Typed, HandleCompletion
  <2>2. Head(mailbox).op = "complete"
    BY DEF HandleCompletion
  <2> QED
    BY <2>1, <2>2 DEF Proceeding
<1>6. Finishing(x)' <=> Finishing(x)
  <2>1. at["channel"] = Idle
    BY DEF HandleCompletion, OnChannel, Free
  <2> QED
    BY <1>2, <2>1 DEF Finishing, Idle, Place
<1>7. ServesInv'
  BY <1>2, <1>4, <1>5, <1>6, ServesSame DEF Inv, HandleCompletion
<1> QED
  BY <1>3, <1>4, <1>7 DEF Inv

LEMMA InvJudge ==
  ASSUME Inv, NEW p \in Place,
         JudgeHealth(p) \/ BecomeHealthy(p) \/ (OnLobbyGrpcServiceInited(p) /\ isRegistered)
  PROVE  Inv'
<1>1. PICK x : x = at[p].call
  OBVIOUS
<1>2. /\ Typed' /\ x \in Call /\ Only(x) /\ \A q \in Place \ {p} : at'[q] = at[q]
      /\ at[p].step \in {"judge", "healthy", "init"} /\ at'[p].step \in {"idle", "healthy", "init"}
      /\ UNCHANGED <<method, mailbox, data, refs, result, callback, continued, dangled, net, serverVars>>
  <2>1. CASE JudgeHealth(p) \/ BecomeHealthy(p)
    <3>1. /\ Typed' /\ x \in Call /\ Only(x) /\ \A q \in Place \ {p} : at'[q] = at[q]
          /\ at'[p] = Idle \/ at'[p] = [step |-> "healthy", call |-> x]
             \/ at'[p] = [step |-> "init", call |-> x]
      BY <1>1, <2>1, JudgeStep DEF Inv
    <3>2. /\ at[p].step \in {"judge", "healthy"}
          /\ UNCHANGED <<method, mailbox, data, refs, result, callback, continued, dangled, net, serverVars>>
      BY <2>1 DEF JudgeHealth, BecomeHealthy
    <3>3. at'[p].step \in {"idle", "healthy", "init"}
      BY <3>1 DEF Idle
    <3> QED
      BY <3>1, <3>2, <3>3
  <2>2. CASE OnLobbyGrpcServiceInited(p) /\ isRegistered
    <3>1. /\ Typed' /\ x \in Call /\ Only(x) /\ \A q \in Place \ {p} : at'[q] = at[q]
          /\ at[p].step = "init" /\ at'[p] = Idle
          /\ UNCHANGED <<method, mailbox, data, refs, result, callback, continued, dangled, net, serverVars>>
      BY <1>1, <2>2, InitedStep DEF Inv
    <3>2. at'[p].step = "idle"
      BY <3>1 DEF Idle
    <3> QED
      BY <3>1, <3>2
  <2> QED
    BY <2>1, <2>2
<1>3. CallInv'
  BY <1>2, UntouchedFrame DEF Inv
<1>4. (Finishing(x)' <=> Finishing(x)) /\ (Proceeding(x)' <=> Proceeding(x)) /\ Once(mailbox')
  BY <1>2 DEF Finishing, Proceeding, Inv, ServesInv, Place
<1>5. ServesInv'
  BY <1>2, <1>4, ServesSame DEF Inv
<1>6. \A q \in Place : (Holding(q, x)' <=> Holding(q, x)) /\ (Copying(q, x)' <=> Copying(q, x))
  BY <1>2 DEF Holding, Copying
<1>7. at'["channel"].step \notin {"copy", "undefined"} \/ at'["channel"] = at["channel"]
  BY <1>2 DEF Place
<1> QED
  BY <1>2, <1>3, <1>5, <1>6, <1>7, InvSame DEF serverVars

LEMMA InvGrpc ==
  ASSUME Inv, NEW x \in Call, Grpc(x)
  PROVE  Inv'
<1>1. CASE Answered(x) \/ Expire(x)
  <2>1. reply[x] \in Outcome \cup {None} /\ (net[x] = "replied" => reply[x] # None)
    BY DEF Inv, CallInv, Typed, ServesInv, Served
  <2>2. PICK r \in Outcome : Complete(x, r) /\ r \in {"failed", reply[x]} /\ net[x] \notin {"idle", "closed"}
    <3>1. CASE Answered(x)
      BY <2>1, <3>1 DEF Answered
    <3>2. CASE Expire(x)
      BY <3>2 DEF Expire, Outcome
    <3> QED
      BY <1>1, <3>1, <3>2
  <2>3. Typed' /\ Only(x)
    BY <2>2, CompleteStep DEF Inv
  <2>4. CallInv'
    BY <2>3, UntouchedFrame DEF Inv
  <2>5. CarriedInv' /\ Once(mailbox')
    BY <2>2, CarriedComplete DEF Inv, ServesInv
  <2>6. /\ net'[x] = "closed" /\ UNCHANGED <<serverVars, method, at>>
    BY <2>2 DEF Complete, clientVars, Inv, CallInv, Typed
  <2>7. Proceeding(x)' <=> Proceeding(x)
    <3>1. PICK m : m = [op |-> "complete", call |-> x, outcome |-> r]
      OBVIOUS
    <3>2. m \in Message /\ Post(m) /\ m.op = "complete"
      BY <2>2, <3>1 DEF Message, Complete
    <3>3. Elements(mailbox') = Elements(mailbox) \cup {m}
      BY <3>2, PostMail DEF Inv, CallInv, Typed
    <3> QED
      BY <3>2, <3>3 DEF Proceeding
  <2>8. ServesInv'
    BY <2>3, <2>5, <2>6, <2>7, ServesSame DEF Inv, Finishing
  <2> QED
    BY <2>4, <2>5, <2>8 DEF Inv
<1>2. CASE Accept(x) \/ FinishSent(x) \/ FinishDropped(x)
  <2>1. CallInv' /\ ServesInv' /\ Only(x)
    BY <1>2, ServesAccept, ServesFinished, AcceptStep, FinishedStep DEF Inv
  <2>2. /\ UNCHANGED <<method, data, refs, result, callback, continued, dangled, at, reply>>
        /\ net'[x] = net[x] \/ (net[x] # "closed" /\ net'[x] # "closed")
    BY <1>2 DEF Accept, FinishSent, FinishDropped, clientVars, Inv, CallInv, Typed
  <2>3. \A m \in Message : m.op = "complete" => (m \in Elements(mailbox') <=> m \in Elements(mailbox))
    <3>1. PICK m : m = [op |-> "proceed", call |-> x]
      OBVIOUS
    <3>2. m \in Message /\ m.op = "proceed" /\ (Post(m) \/ mailbox' = mailbox)
      BY <1>2, <3>1 DEF Message, Accept, FinishSent, FinishDropped
    <3>3. Elements(mailbox') = Elements(mailbox) \cup {m} \/ mailbox' = mailbox
      BY <3>2, PostMail DEF Inv, CallInv, Typed
    <3> QED
      BY <3>2, <3>3
  <2>4. \A q \in Place : (Holding(q, x)' <=> Holding(q, x)) /\ (Copying(q, x)' <=> Copying(q, x))
    BY <2>2 DEF Holding, Copying
  <2> QED
    BY <2>1, <2>2, <2>3, <2>4, InvSame
<1> QED
  BY <1>1, <1>2, Zenon DEF Grpc

LEMMA InvServer ==
  ASSUME Inv, ProceedRequest \/ SetFinish \/ ProceedDelete
  PROVE  Inv'
<1>1. CallInv' /\ ServesInv' /\ Typed
  BY ServesRequest, ServesStatus DEF Inv, CallInv
<1>2. CASE ProceedRequest \/ ProceedDelete
  <2>1. PICK x : x = Head(mailbox).call
    OBVIOUS
  <2>2. x \in Call /\ Only(x)
    BY <1>2, <2>1, RequestStep, DeleteStep DEF Inv
  <2>3. /\ mailbox \in Seq(Message) /\ mailbox # <<>> /\ mailbox' = Tail(mailbox)
        /\ Head(mailbox).op = "proceed" /\ at["channel"] = Idle
        /\ UNCHANGED <<method, data, refs, result, callback, continued, dangled, net>>
    BY <1>1, <1>2 DEF Typed, ProceedRequest, ProceedDelete, Proceeds, Free, clientVars
  <2>4. \A m \in Message : m.op = "complete" => (m \in Elements(mailbox') <=> m \in Elements(mailbox))
    BY <2>3, TakeMail
  <2>5. reply'[x] = reply[x] \/ reply[x] = None
    <3>1. CASE ProceedRequest
      BY <2>1, <3>1, ProceedFinds DEF ProceedRequest, Inv, Served
    <3>2. CASE ProceedDelete
      BY <3>2 DEF ProceedDelete
    <3> QED
      BY <1>2, <3>1, <3>2
  <2>6. at'["channel"].step \in {"idle", "finish"} /\ at'["timer"] = at["timer"]
    <3>1. CASE ProceedRequest
      BY <3>1, RequestStep DEF Inv, Place
    <3>2. CASE ProceedDelete
      BY <2>3, <3>2 DEF ProceedDelete, clientVars, Idle
    <3> QED
      BY <1>2, <3>1, <3>2
  <2>7. \A q \in Place : (Holding(q, x)' <=> Holding(q, x)) /\ (Copying(q, x)' <=> Copying(q, x))
    BY <2>3, <2>6 DEF Holding, Copying, Place, Idle
  <2>8. net'[x] = net[x] /\ at'["channel"].step \notin {"copy", "undefined"}
    BY <2>3, <2>6
  <2> QED
    BY <1>1, <2>2, <2>3, <2>4, <2>5, <2>7, <2>8, InvSame
<1>3. CASE SetFinish
  <2>1. PICK x : x = at["channel"].call
    OBVIOUS
  <2>2. /\ x \in Call /\ Only(x) /\ at["channel"].step = "finish"
        /\ at'["channel"] = Idle /\ \A q \in Place \ {"channel"} : at'[q] = at[q]
    BY <1>3, <2>1, SetStep DEF Inv, SetFinish
  <2>3. UNCHANGED <<method, data, refs, callback, continued, dangled, mailbox, result, net, reply>>
    BY <1>3 DEF SetFinish
  <2>4. /\ \A q \in Place : (Holding(q, x)' <=> Holding(q, x)) /\ (Copying(q, x)' <=> Copying(q, x))
        /\ at'["channel"].step \notin {"copy", "undefined"}
    BY <2>2 DEF Holding, Copying, Idle
  <2> QED
    BY <1>1, <2>2, <2>3, <2>4, InvSame
<1> QED
  BY <1>2, <1>3

LEMMA InvStutter == ASSUME Inv, UNCHANGED vars PROVE Inv'
<1>1. CallInv'
  BY DEF Inv, CallInv, Typed, Untouched, vars, clientVars, serverVars, worldVars
<1>2. ServesInv'
  BY DEF Inv, ServesInv, Served, Waiting, Finishing, Proceeding, vars, clientVars, serverVars, worldVars
<1>3. CarriedInv'
  BY DEF Inv, CarriedInv, Carried, Completion, Holding, Copying, vars, clientVars, serverVars, worldVars
<1> QED
  BY <1>1, <1>2, <1>3 DEF Inv

LEMMA InvNext == Inv /\ [Next]_vars => Inv'
<1> SUFFICES ASSUME Inv, [Next]_vars PROVE Inv'
  OBVIOUS
<1>1. CASE OnHealthCheck \/ OnRecvHelloWorldServer
  BY <1>1, InvStarts
<1>2. ASSUME NEW p \in Place, Caller(p) PROVE Inv'
  BY <1>2, InvCaller, InvJudge, InvStarts DEF Caller
<1>3. CASE Channel
  BY <1>3, InvHandle, InvServer DEF Channel
<1>4. ASSUME NEW c \in Call, Grpc(c) PROVE Inv'
  BY <1>4, InvGrpc
<1> QED
  BY <1>1, <1>2, <1>3, <1>4, InvStutter DEF Next

LEMMA InvAlways == Spec => []Inv
BY InvInit, InvNext, PTL DEF Spec

-----------------------------------------------------------------------------
(* Registration. *)

LEMMA RegisterSame ==
  ASSUME RegisterInv, Registrations' = Registrations, UNCHANGED <<inited, overlapped>>,
         \A q \in Place : at'[q] = at[q] \/ at'[q].step \notin {"healthy", "init"}
  PROVE  RegisterInv'
BY DEF RegisterInv, Past

LEMMA RegisterNext == Inv /\ RegisterInv /\ [Next]_vars => RegisterInv'
<1> SUFFICES ASSUME Inv, RegisterInv, [Next]_vars PROVE RegisterInv'
  OBVIOUS
<1>t. CallInv /\ Typed
  BY DEF Inv, CallInv
<1>1. CASE OnHealthCheck \/ OnRecvHelloWorldServer
      \/ \E p \in Place : OnLobbyGrpcServiceInited(p) /\ ~isRegistered
  <2>1. PICK p \in Place, x \in Unused, m \in Methods :
            /\ StartCall(p, x, m)
            /\ \/ m \in {"Ping", "CharacterLogin"} /\ at[p] = Idle /\ inited' = inited
               \/ m = "RegisterServer" /\ at[p].step = "init" /\ inited' = TRUE
            /\ overlapped' = overlapped
    BY <1>1, <1>t, StartsStep
  <2>2. x \in Call /\ method[x] = None /\ None # "RegisterServer"
    BY CallsAssumption DEF Unused, Methods
  <2>3. /\ at'[p].step = "copy" /\ \A q \in Place \ {p} : at'[q] = at[q]
        /\ method'[x] = m /\ \A c \in Call \ {x} : method'[c] = method[c]
    BY <1>t, <2>1, <2>2 DEF StartCall, Typed
  <2>4. CASE m # "RegisterServer"
    <3>1. Registrations' = Registrations
      BY <2>2, <2>3, <2>4 DEF Registrations
    <3> QED
      BY <2>1, <2>3, <2>4, <3>1, RegisterSame
  <2>5. CASE m = "RegisterServer"
    <3>1. at[p].step = "init" /\ inited' = TRUE
      BY <2>1, <2>5, CallsAssumption DEF Methods
    <3>2. SUFFICES ASSUME ~overlapped
                   PROVE  /\ \A q \in Place : ~Past(q)'
                          /\ \A c, d \in Registrations' : c = d
      BY <2>1, <3>1 DEF RegisterInv, Past
    <3>3. Registrations = {}
      BY <3>1, <3>2 DEF RegisterInv
    <3>4. \A q \in Place : Past(q) => q = p
      BY <3>1, <3>2 DEF RegisterInv, Past
    <3>5. \A c \in Registrations' : c = x
      BY <2>3, <3>3 DEF Registrations
    <3> QED
      BY <2>3, <3>4, <3>5 DEF Past
  <2> QED
    BY <2>4, <2>5
<1>2. ASSUME NEW p \in Place, CopyFuture(p) \/ DropFuture(p) PROVE RegisterInv'
  <2>1. /\ \A q \in Place \ {p} : at'[q] = at[q]
        /\ at'[p].step \in {"idle", "judge", "drop", "undefined"}
        /\ UNCHANGED <<method, inited, overlapped>>
    BY <1>2, <1>t, CopyStep, DropStep DEF CopyFuture, DropFuture, worldVars
  <2> QED
    BY <2>1, RegisterSame DEF Registrations
<1>3. ASSUME NEW p \in Place, JudgeHealth(p) PROVE RegisterInv'
  <2>1. /\ \A q \in Place \ {p} : at'[q] = at[q]
        /\ at'[p] = Idle \/ at'[p] = [step |-> "healthy", call |-> at[p].call]
        /\ UNCHANGED <<method, inited>>
    BY <1>3, <1>t, JudgeStep DEF JudgeHealth
  <2>2. at'[p].step \in {"idle", "healthy"}
    BY <2>1 DEF Idle
  <2>3. ~overlapped' => ~overlapped /\ \A q \in Place \ {p} : ~Judging(q)
    BY <1>3 DEF JudgeHealth
  <2>4. \A q \in Place : Past(q) => Judging(q)
    BY DEF Past, Judging
  <2>5. at[p].step = "judge" /\ ~Past(p)
    BY <1>3 DEF JudgeHealth, Past
  <2> QED
    BY <2>1, <2>2, <2>3, <2>4, <2>5 DEF RegisterInv, Past, Registrations
<1>4. ASSUME NEW p \in Place, BecomeHealthy(p) PROVE RegisterInv'
  <2>1. /\ \A q \in Place \ {p} : at'[q] = at[q]
        /\ at'[p] = IF inited THEN Idle ELSE [step |-> "init", call |-> at[p].call]
        /\ UNCHANGED <<method, inited, overlapped>> /\ at[p].step = "healthy" /\ Past(p)
    BY <1>4, <1>t, JudgeStep DEF BecomeHealthy, Past
  <2>2. at'[p].step = IF inited THEN "idle" ELSE "init"
    BY <2>1 DEF Idle
  <2> QED
    BY <2>1, <2>2 DEF RegisterInv, Past, Registrations
<1>5. ASSUME NEW p \in Place, OnLobbyGrpcServiceInited(p), isRegistered PROVE RegisterInv'
  <2>1. /\ \A q \in Place \ {p} : at'[q] = at[q]
        /\ at'[p] = Idle /\ at[p].step = "init" /\ inited' = TRUE
        /\ UNCHANGED <<method, overlapped>>
    BY <1>5, <1>t, InitedStep DEF OnLobbyGrpcServiceInited
  <2>2. at'[p].step = "idle"
    BY <2>1 DEF Idle
  <2> QED
    BY <2>1, <2>2 DEF RegisterInv, Past, Registrations
<1>6. CASE HandleCompletion
  <2>1. /\ \A q \in Place : at'[q] # at[q] => at'[q].step \in {"idle", "judge"}
        /\ UNCHANGED <<method, inited, overlapped>>
    BY <1>6, <1>t, HandleStep DEF HandleCompletion
  <2> QED
    BY <2>1, RegisterSame DEF Registrations
<1>7. CASE ProceedRequest \/ SetFinish \/ ProceedDelete
  <2>1. /\ \A q \in Place : at'[q] = at[q] \/ at'[q].step \in {"idle", "finish"}
        /\ UNCHANGED <<method, inited, overlapped>>
    <3>1. CASE ProceedRequest
      BY <3>1, <1>t, RequestStep DEF ProceedRequest, worldVars
    <3>2. CASE SetFinish
      BY <3>2, <1>t, SetStep DEF SetFinish, worldVars, Idle
    <3>3. CASE ProceedDelete
      BY <3>3 DEF ProceedDelete, worldVars, clientVars
    <3> QED
      BY <1>7, <3>1, <3>2, <3>3
  <2> QED
    BY <2>1, RegisterSame DEF Registrations
<1>8. ASSUME UNCHANGED <<at, method, inited, overlapped>> PROVE RegisterInv'
  BY <1>8, RegisterSame DEF Registrations
<1>9. ASSUME NEW c \in Call, Grpc(c) PROVE RegisterInv'
  <2>1. UNCHANGED <<at, method, inited, overlapped>>
    BY <1>9 DEF Grpc, Accept, Answered, Expire, Complete, FinishSent, FinishDropped, clientVars, worldVars
  <2> QED
    BY <1>8, <2>1
<1>10. CASE UNCHANGED vars
  BY <1>8, <1>10 DEF vars, clientVars, worldVars
<1>11. ASSUME NEW p \in Place, Caller(p) PROVE RegisterInv'
  BY <1>1, <1>2, <1>3, <1>4, <1>5, <1>11 DEF Caller
<1> QED
  BY <1>1, <1>6, <1>7, <1>9, <1>10, <1>11 DEF Next, Channel

-----------------------------------------------------------------------------
(* The theorems. *)

LEMMA AtMostOneCall ==
  ASSUME NEW S, \A c, d \in S : c = d
  PROVE  Cardinality(S) = IF S = {} THEN 0 ELSE 1
<1>1. CASE S = {}
  BY <1>1, FS_EmptySet
<1>2. ASSUME NEW c \in S PROVE Cardinality(S) = 1
  <2>1. S = {c}
    BY <1>2
  <2> QED
    BY <2>1, FS_Singleton
<1> QED
  BY <1>1, <1>2

(* Every variable has its type; that at most one call data of a method     *)
(* accepts is part of it.                                                  *)
THEOREM CallsTypeTheorem == Spec => []TypeOK
<1>1. Inv => TypeOK
  <2> SUFFICES ASSUME Inv PROVE TypeOK
    OBVIOUS
  <2>1. Typed /\ accepting \in [Methods -> 0..1]
    BY DEF Inv, CallInv, ServesInv, Typed
  <2>2. \A p \in Place : at[p] \in [step : {"idle", "copy", "drop", "undefined", "judge",
                                 "healthy", "init", "finish"}, call : Call \cup {None}]
    <3> SUFFICES ASSUME NEW p \in Place
                 PROVE  at[p] \in [step : {"idle", "copy", "drop", "undefined", "judge",
                                 "healthy", "init", "finish"}, call : Call \cup {None}]
      OBVIOUS
    <3>1. /\ at[p] = [step |-> at[p].step, call |-> at[p].call]
          /\ at[p].step \in Step \cup {"idle"} /\ at[p].call \in Call \cup {None}
      BY <2>1, Places
    <3>2. PICK s, c : s = at[p].step /\ c = at[p].call
      OBVIOUS
    <3>3. at[p] = [step |-> s, call |-> c] /\ s \in Step \cup {"idle"} /\ c \in Call \cup {None}
      BY <3>1, <3>2
    <3> QED
      BY <3>3 DEF Step
  <2>3. at \in [Place -> [step : {"idle", "copy", "drop", "undefined", "judge",
                                 "healthy", "init", "finish"}, call : Call \cup {None}]]
    BY <2>1, <2>2 DEF Typed
  <2> QED
    BY <2>1, <2>3 DEF Typed, TypeOK
<1> QED
  BY <1>1, InvAlways, PTL

(* AsyncCallDataImpl::Proceed: the lobby never stops accepting a method,   *)
(* and no message finds a call data in another state than it was posted    *)
(* for.                                                                    *)
THEOREM ServesEachOnceTheorem == Spec => []ServesEachOnce
<1>1. Inv => ServesEachOnce
  <2> SUFFICES ASSUME Inv PROVE ServesEachOnce
    OBVIOUS
  <2>1. ASSUME NEW m \in Methods
        PROVE  accepting[m] + Cardinality({c \in Call : method[c] = m /\ server[c] = "PROCESS" /\ reply[c] = None}) = 1
    <3>1. accepting[m] \in 0..1 /\ (accepting[m] = 1 <=> Waiting(m) = {}) /\ \A c, d \in Waiting(m) : c = d
      BY DEF Inv, ServesInv
    <3>2. Cardinality(Waiting(m)) = IF Waiting(m) = {} THEN 0 ELSE 1
      BY <3>1, AtMostOneCall
    <3>3. accepting[m] + Cardinality(Waiting(m)) = 1
      BY <3>1, <3>2
    <3> QED
      BY <3>3 DEF Waiting
  <2>2. ASSUME Free("channel"), NEW i \in DOMAIN mailbox, NEW c, c = mailbox[i].call, mailbox[i].op = "proceed"
        PROVE  server[c] = IF reply[c] = None THEN "PROCESS" ELSE "FINISH"
    <3>1. mailbox[i] \in Elements(mailbox)
      BY DEF Elements
    <3>2. Proceeding(c) /\ c \in Call
      BY <2>2, <3>1, Made DEF Proceeding, Inv
    <3>3. Served(c) /\ ~Finishing(c)
      BY <2>2, <3>2 DEF Inv, ServesInv, Finishing, Free, Idle
    <3> QED
      BY <3>2, <3>3 DEF Served
  <2> QED
    BY <2>1, <2>2 DEF ServesEachOnce
<1> QED
  BY <1>1, InvAlways, PTL

(* Future and CallData: a continuation runs once, with what the call was   *)
(* completed with, whichever of the two lets go of the state last.         *)
THEOREM RightResultTheorem == Spec => []RightResult
<1>1. Inv => RightResult
  <2> SUFFICES ASSUME Inv PROVE RightResult
    OBVIOUS
  <2>1. ASSUME NEW c \in Call, continued[c] # <<>>
        PROVE  continued[c] \in {<<"failed">>, <<reply[c]>>} \ {<<None>>}
    <3>1. Carried(c) /\ Typed
      BY DEF Inv, CarriedInv, CallInv
    <3>2. continued[c] = <<result[c]>> /\ refs[c] = {} /\ callback[c]
      BY <2>1, <3>1 DEF Carried
    <3>3. method[c] # None
      BY <3>2 DEF Inv, CallInv, Untouched
    <3>4. result[c] # None /\ result[c] \in {"failed", reply[c]}
      BY <3>1, <3>2, <3>3 DEF Carried, Typed
    <3>5. <<result[c]>> # <<None>>
      <4>1. <<result[c]>>[1] # <<None>>[1]
        BY <3>4
      <4> QED
        BY <4>1
    <3> QED
      BY <3>2, <3>4, <3>5
  <2>2. ASSUME NEW c \in Call, callback[c], Settled(c) PROVE continued[c] # <<>>
    <3>1. Carried(c) /\ Typed /\ method[c] # None
      BY <2>2 DEF Inv, CarriedInv, CallInv, Untouched
    <3>2. \A m \in Elements(mailbox) : m.op = "complete" => m.call # c
      BY <2>2 DEF Settled, Elements
    <3>3. data[c] = "deleted"
      BY <2>2, <3>1, <3>2 DEF Carried, Typed, Settled
    <3>4. \A p \in Place : ~Holding(p, c)
      BY <2>2 DEF Settled, Holding
    <3>5. refs[c] = {}
      BY <3>1, <3>3, <3>4 DEF Carried, Typed
    <3> QED
      BY <2>2, <3>1, <3>5 DEF Carried
  <2>3. "channel" \notin dangled
    BY DEF Inv, CarriedInv
  <2> QED
    BY <2>1, <2>2, <2>3 DEF RightResult
<1> QED
  BY <1>1, InvAlways, PTL

(* WorldService: the server registers once, unless two health checks were  *)
(* judged at the same time.                                                *)
THEOREM RegistersOnceTheorem == Spec => []RegistersOnce
<1>1. Init => RegisterInv
  <2>1. Init => Registrations = {} /\ \A p \in Place : ~Past(p) /\ at[p].step # "init"
    BY CallsAssumption DEF Init, Registrations, Past, Idle, Methods
  <2> QED
    BY <2>1 DEF RegisterInv
<1>2. RegisterInv => RegistersOnce
  <2> SUFFICES ASSUME RegisterInv, ~overlapped PROVE Cardinality(Registrations) <= 1
    BY DEF RegistersOnce, Registrations
  <2>1. \A c, d \in Registrations : c = d
    BY DEF RegisterInv
  <2>2. Cardinality(Registrations) = IF Registrations = {} THEN 0 ELSE 1
    BY <2>1, AtMostOneCall
  <2> QED
    BY <2>2
<1> QED
  BY <1>1, <1>2, RegisterNext, InvAlways, PTL DEF Spec
=============================================================================
