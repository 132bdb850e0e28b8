----------------------------- MODULE LobbyCalls -----------------------------
(***************************************************************************)
(* Calls from the world server to the lobby's gRPC service and back:       *)
(* LobbyGrpcClient and its CallData, the Future that carries the answer,   *)
(* WorldService's health check and registration, and on the other side     *)
(* the AsyncCallDataImpl of LobbyGrpcService.                              *)
(*                                                                         *)
(* Handlers and posted completions run one at a time in the channel that   *)
(* all actors share (ActorScheduler); timers run beside it, in the flush   *)
(* of their worker.  So there are two places a call can be made from:      *)
(* a session's handler on the channel, the health check on the timer.      *)
(*                                                                         *)
(* A Future's state is shared by reference: SetResult and SetCallback only *)
(* store, and the continuation runs in the destructor, in the place that   *)
(* drops the last reference.                                               *)
(***************************************************************************)
EXTENDS Integers, Sequences, FiniteSets

CONSTANTS Call,     \* bound: the calls that are made, of whatever method
          MaxOpen,  \* bound: a session or the timer calls when fewer are open
          None

Methods == {"Ping", "RegisterServer", "CharacterLogin"}

Place == {"channel", "timer"}

(* What the caller's HandleCompletion learns: "failed" is a grpc::Status   *)
(* that is not OK (deadline, connection), the others are OK with the       *)
(* result of the response.  A GrpcCallResult that nobody set is a default  *)
(* one, which looks like success.                                          *)
Outcome == {"ok", "refused", "failed"}

ASSUME CallsAssumption ==
    /\ IsFiniteSet(Call) /\ MaxOpen \in Nat
    /\ None \notin Call \cup Methods \cup Outcome

VARIABLES
    method,      \* of each call that was made
    at,          \* what each place is in the middle of: [step, call]
    mailbox,     \* the channel's messages
    data,        \* CallData of the client: "none", "live", "deleted"
    refs,        \* who refers to the future's state: the CallData, the caller
    result, callback,   \* what is stored there
    continued,   \* what each call's continuation was run with
    dangled,     \* history: places that read a deleted CallData
    net,         \* where gRPC has each call
    accepting,   \* for each method, the call data that wait for a request
    server,      \* AsyncCallDataImpl of each call: its status_
    finishing,   \* Finish was called and its tag has not come back
    reply,       \* what the handler answered
    isHealthy, inited, isRegistered,    \* of WorldService
    overlapped   \* history: two health checks were judged at the same time

clientVars == <<method, at, data, refs, callback, continued, dangled>>
worldVars == <<isHealthy, inited, isRegistered, overlapped>>
serverVars == <<accepting, server, finishing, reply>>
vars == <<clientVars, mailbox, result, net, serverVars, worldVars>>

Idle == [step |-> "idle", call |-> None]

(* BeginAccept creates and starts one call data for each method.           *)
Init ==
    /\ method = [c \in Call |-> None]
    /\ at = [p \in Place |-> Idle]
    /\ mailbox = <<>>
    /\ data = [c \in Call |-> "none"]
    /\ refs = [c \in Call |-> {}]
    /\ result = [c \in Call |-> None]
    /\ callback = [c \in Call |-> FALSE]
    /\ continued = [c \in Call |-> <<>>]
    /\ dangled = {}
    /\ net = [c \in Call |-> "idle"]
    /\ accepting = [m \in Methods |-> 1]
    /\ server = [c \in Call |-> "none"]
    /\ finishing = {}
    /\ reply = [c \in Call |-> None]
    /\ isHealthy = FALSE /\ inited = FALSE /\ isRegistered = FALSE
    /\ overlapped = FALSE

Free(p) == at[p] = Idle
Unused == {c \in Call : method[c] = None}
Open == {c \in Call : \/ data[c] = "live" \/ c \in finishing
                      \/ \E i \in DOMAIN mailbox : mailbox[i].call = c}

-----------------------------------------------------------------------------
(* The caller.  The constructor of CallData starts the call and asks for   *)
(* its end; from then on the completion may be handled, and delete it.     *)

StartCall(p, c, m) ==
    /\ method' = [method EXCEPT ![c] = m]
    /\ at' = [at EXCEPT ![p] = [step |-> "copy", call |-> c]]
    /\ data' = [data EXCEPT ![c] = "live"]
    /\ refs' = [refs EXCEPT ![c] = {"data"}]
    /\ net' = [net EXCEPT ![c] = "sent"]

OnHealthCheck ==
    /\ Free("timer") /\ Cardinality(Open) < MaxOpen
    /\ \E c \in Unused : StartCall("timer", c, "Ping")
    /\ UNCHANGED <<mailbox, result, callback, continued, dangled, serverVars, worldVars>>

OnRecvHelloWorldServer ==
    /\ Free("channel") /\ Cardinality(Open) < MaxOpen
    /\ \E c \in Unused : StartCall("channel", c, "CharacterLogin")
    /\ UNCHANGED <<mailbox, result, callback, continued, dangled, serverVars, worldVars>>

(* GrpcCall returns a copy of call_data->response_future, and THEN stores  *)
(* the continuation (while the caller refers to the state, nobody looks).  *)
(* After the deletion the copy reads freed memory: what follows is         *)
(* undefined, and the place does nothing more here.                        *)
CopyFuture(p) ==
    LET c == at[p].call IN
    /\ at[p].step = "copy"
    /\ \/ /\ data[c] = "live"
          /\ at' = [at EXCEPT ![p].step = "drop"]
          /\ refs' = [refs EXCEPT ![c] = @ \cup {"caller"}]
          /\ callback' = [callback EXCEPT ![c] = TRUE]
          /\ UNCHANGED dangled
       \/ /\ data[c] = "deleted"
          /\ at' = [at EXCEPT ![p].step = "undefined"]
          /\ dangled' = dangled \cup {p}
          /\ UNCHANGED <<refs, callback>>
    /\ UNCHANGED <<method, mailbox, data, result, continued, net, serverVars, worldVars>>

(* The state is destroyed at place p, when r is stored in it.  What the    *)
(* continuation of the method does first is done here; a health check that *)
(* is good has more steps to come, because timer and channel may both be   *)
(* at it.  A registration is told by its answer, a log-in is the business  *)
(* of the session (WorldSection).                                          *)
Destroy(p, c, r) ==
    /\ continued' = [continued EXCEPT ![c] = IF callback[c] THEN Append(@, r) ELSE @]
    /\ at' = [at EXCEPT ![p] = IF callback[c] /\ method[c] = "Ping" /\ r # "failed"
                               THEN [step |-> "judge", call |-> c] ELSE Idle]
    /\ isHealthy' = IF callback[c] /\ method[c] = "Ping" /\ r = "failed" THEN FALSE ELSE isHealthy
    /\ isRegistered' = IF callback[c] /\ method[c] = "RegisterServer" /\ r \in {"ok", None}
                       THEN TRUE ELSE isRegistered

(* The end of the full expression: the caller's copies go.                 *)
DropFuture(p) ==
    LET c == at[p].call IN
    /\ at[p].step = "drop"
    /\ refs' = [refs EXCEPT ![c] = @ \ {"caller"}]
    /\ \/ /\ refs'[c] = {}
          /\ Destroy(p, c, result[c])
       \/ /\ refs'[c] # {}
          /\ at' = [at EXCEPT ![p] = Idle]
          /\ UNCHANGED <<continued, isHealthy, isRegistered>>
    /\ UNCHANGED <<method, mailbox, data, result, callback, dangled, net, serverVars, inited, overlapped>>

(* Mutant: the completion is handled in the thread that finds it. *)
Anywhere == TRUE
OnChannel == Free("channel")

(* HandleCompletion, posted by the client's completion thread: SetResult   *)
(* and delete this.                                                        *)
HandleCompletion ==
    /\ OnChannel
    /\ mailbox # <<>> /\ Head(mailbox).op = "complete"
    /\ LET c == Head(mailbox).call IN
       /\ result' = [result EXCEPT ![c] = Head(mailbox).outcome]
       /\ data' = [data EXCEPT ![c] = "deleted"]
       /\ refs' = [refs EXCEPT ![c] = @ \ {"data"}]
       /\ \/ /\ refs'[c] = {}
             /\ Destroy("channel", c, result'[c])
          \/ /\ refs'[c] # {}
             /\ UNCHANGED <<at, continued, isHealthy, isRegistered>>
    /\ mailbox' = Tail(mailbox)
    /\ UNCHANGED <<method, callback, dangled, net, serverVars, inited, overlapped>>

-----------------------------------------------------------------------------
(* OnHealthCheck's continuation for a good answer reads and sets two flags *)
(* of WorldService that nothing protects; the first good answer registers  *)
(* the server, and no later one does.                                      *)

Judging(p) == at[p].step \in {"judge", "healthy", "init"}

(* Mutant: every good answer registers, and RegisterServer's own test of   *)
(* is_registered_ is to prevent the second time.                           *)
JudgeHealthAlways(p) ==
    /\ at[p].step = "judge"
    /\ at' = [at EXCEPT ![p].step = "init"]
    /\ overlapped' = (overlapped \/ \E q \in Place \ {p} : Judging(q))
    /\ UNCHANGED <<method, mailbox, data, refs, result, callback, continued, dangled, net,
                   serverVars, isHealthy, inited, isRegistered>>

JudgeHealth(p) ==
    /\ at[p].step = "judge"
    /\ at' = IF isHealthy THEN [at EXCEPT ![p] = Idle] ELSE [at EXCEPT ![p].step = "healthy"]
    /\ overlapped' = (overlapped \/ \E q \in Place \ {p} : Judging(q))
    /\ UNCHANGED <<method, mailbox, data, refs, result, callback, continued, dangled, net,
                   serverVars, isHealthy, inited, isRegistered>>

BecomeHealthy(p) ==
    /\ at[p].step = "healthy"
    /\ isHealthy' = TRUE
    /\ at' = IF inited THEN [at EXCEPT ![p] = Idle] ELSE [at EXCEPT ![p].step = "init"]
    /\ UNCHANGED <<method, mailbox, data, refs, result, callback, continued, dangled, net,
                   serverVars, inited, isRegistered, overlapped>>

OnLobbyGrpcServiceInited(p) ==
    /\ at[p].step = "init"
    /\ inited' = TRUE
    /\ \/ /\ isRegistered
          /\ at' = [at EXCEPT ![p] = Idle]
          /\ UNCHANGED <<method, data, refs, net>>
       \/ /\ ~isRegistered
          /\ \E c \in Unused : StartCall(p, c, "RegisterServer")
    /\ UNCHANGED <<mailbox, result, callback, continued, dangled, serverVars,
                   isHealthy, isRegistered, overlapped>>

-----------------------------------------------------------------------------
(* gRPC between the two, and the two threads that take tags from the       *)
(* completion queues and post them to the channel.  A call ends at its     *)
(* deadline of five seconds, or earlier when the connection breaks.        *)

Post(m) == mailbox' = Append(mailbox, m)

Accept(c) ==
    /\ net[c] = "sent" /\ accepting[method[c]] > 0
    /\ net' = [net EXCEPT ![c] = "serving"]
    /\ accepting' = [accepting EXCEPT ![method[c]] = @ - 1]
    /\ server' = [server EXCEPT ![c] = "PROCESS"]
    /\ Post([op |-> "proceed", call |-> c])
    /\ UNCHANGED <<clientVars, result, finishing, reply, worldVars>>

Complete(c, outcome) ==
    /\ net' = [net EXCEPT ![c] = "closed"]
    /\ Post([op |-> "complete", call |-> c, outcome |-> outcome])
    /\ UNCHANGED <<clientVars, result, serverVars, worldVars>>

Answered(c) == net[c] = "replied" /\ Complete(c, reply[c])
Expire(c) == net[c] \in {"sent", "serving", "replied"} /\ Complete(c, "failed")

(* The tag of Finish comes back: ok when the answer could be sent, and     *)
(* then its Proceed is posted; otherwise the loop drops it.                *)
FinishSent(c) ==
    /\ c \in finishing /\ net[c] = "serving"
    /\ net' = [net EXCEPT ![c] = "replied"]
    /\ finishing' = finishing \ {c}
    /\ Post([op |-> "proceed", call |-> c])
    /\ UNCHANGED <<clientVars, result, accepting, server, reply, worldVars>>

FinishDropped(c) ==
    /\ c \in finishing /\ net[c] = "closed"
    /\ finishing' = finishing \ {c}
    /\ UNCHANGED <<clientVars, mailbox, result, net, accepting, server, reply, worldVars>>

-----------------------------------------------------------------------------
(* Proceed, on the channel.  In PROCESS: the next call data, the handler   *)
(* (which has its answer when it returns), and at the end of the future    *)
(* Finish, which may be over before status_ is assigned.                   *)

Proceeds(status) ==
    /\ Free("channel")
    /\ mailbox # <<>> /\ Head(mailbox).op = "proceed"
    /\ server[Head(mailbox).call] = status
    /\ mailbox' = Tail(mailbox)

(* The world does not tell a refused log-in from another (LobbyLogin).     *)
Handled(c) == IF method[c] = "RegisterServer" THEN {"ok", "refused"} ELSE {"ok"}

(* Mutant: the call data asks for a request again beside its successor. *)
AcceptTwice(m) == accepting[m] + 2
(* Mutant: no new call data. *)
AcceptNoMore(m) == accepting[m]
AcceptNext(m) == accepting[m] + 1

ProceedRequest ==
    /\ Proceeds("PROCESS")
    /\ LET c == Head(mailbox).call IN
       /\ accepting' = [accepting EXCEPT ![method[c]] = AcceptNext(method[c])]
       /\ \E r \in Handled(c) : reply' = [reply EXCEPT ![c] = r]
       /\ finishing' = finishing \cup {c}
       /\ at' = [at EXCEPT !["channel"] = [step |-> "finish", call |-> c]]
    /\ UNCHANGED <<method, data, refs, callback, continued, dangled, result, net, server, worldVars>>

SetFinish ==
    /\ at["channel"].step = "finish"
    /\ server' = [server EXCEPT ![at["channel"].call] = "FINISH"]
    /\ at' = [at EXCEPT !["channel"] = Idle]
    /\ UNCHANGED <<method, data, refs, callback, continued, dangled, mailbox, result, net,
                   accepting, finishing, reply, worldVars>>

ProceedDelete ==
    /\ Proceeds("FINISH")
    /\ server' = [server EXCEPT ![Head(mailbox).call] = "deleted"]
    /\ UNCHANGED <<clientVars, result, net, accepting, finishing, reply, worldVars>>

-----------------------------------------------------------------------------
Caller(p) == \/ CopyFuture(p) \/ DropFuture(p)
             \/ JudgeHealth(p) \/ BecomeHealthy(p) \/ OnLobbyGrpcServiceInited(p)
Channel == HandleCompletion \/ ProceedRequest \/ SetFinish \/ ProceedDelete
Grpc(c) == Accept(c) \/ Answered(c) \/ Expire(c) \/ FinishSent(c) \/ FinishDropped(c)

Next ==
    \/ OnHealthCheck \/ OnRecvHelloWorldServer
    \/ \E p \in Place : Caller(p)
    \/ Channel
    \/ \E c \in Call : Grpc(c)

Spec == Init /\ [][Next]_vars

-----------------------------------------------------------------------------
Message == [op : {"complete"}, call : Call, outcome : Outcome]
           \cup [op : {"proceed"}, call : Call]

TypeOK ==
    /\ at \in [Place -> [step : {"idle", "copy", "drop", "undefined", "judge",
                                 "healthy", "init", "finish"}, call : Call \cup {None}]]
    /\ method \in [Call -> Methods \cup {None}] /\ mailbox \in Seq(Message)
    /\ data \in [Call -> {"none", "live", "deleted"}]
    /\ refs \in [Call -> SUBSET {"data", "caller"}]
    /\ result \in [Call -> Outcome \cup {None}] /\ reply \in [Call -> Outcome \cup {None}]
    /\ callback \in [Call -> BOOLEAN] /\ dangled \subseteq Place
    /\ net \in [Call -> {"idle", "sent", "serving", "replied", "closed"}]
    /\ accepting \in [Methods -> 0..1] /\ finishing \subseteq Call
    /\ server \in [Call -> {"none", "PROCESS", "FINISH", "deleted"}]

(* The lobby never stops accepting a method and serves each request once:  *)
(* one call data of each method waits for a request, or the message that   *)
(* starts the next one is in the channel; and though Finish may be over    *)
(* before status_ is assigned, no message ever finds a call data that was  *)
(* answered still in PROCESS, nor one that is deleted.                     *)
ServesEachOnce ==
    /\ \A m \in Methods :
          accepting[m] + Cardinality({c \in Call : method[c] = m /\ server[c] = "PROCESS" /\ reply[c] = None}) = 1
    /\ Free("channel") => \A i \in DOMAIN mailbox :
          LET c == mailbox[i].call IN
          mailbox[i].op = "proceed" =>
             server[c] = IF reply[c] = None THEN "PROCESS" ELSE "FINISH"

(* A continuation runs exactly once, with what gRPC completed the call     *)
(* with: never twice, never with the default result of a future that       *)
(* nobody set, though caller and completion let go of it in either order;  *)
(* and when both have, it has run.  A handler's call never reads a deleted *)
(* CallData; only the health check, which is beside the channel, can.      *)
Settled(c) ==
    /\ net[c] = "closed"
    /\ \A i \in DOMAIN mailbox : mailbox[i].op = "complete" => mailbox[i].call # c
    /\ \A p \in Place : at[p].call = c => at[p].step \notin {"copy", "drop"}

RightResult ==
    /\ \A c \in Call :
          /\ continued[c] # <<>> => continued[c] \in {<<"failed">>, <<reply[c]>>} \ {<<None>>}
          /\ callback[c] /\ Settled(c) => continued[c] # <<>>
    /\ "channel" \notin dangled

(* The server registers once, unless the answers to two health checks were *)
(* judged at the same time: is_healthy_ and is_lobby_grpc_service_inited_  *)
(* are plain variables that the timer and the channel share.               *)
RegistersOnce ==
    ~overlapped => Cardinality({c \in Call : method[c] = "RegisterServer"}) <= 1
=============================================================================
