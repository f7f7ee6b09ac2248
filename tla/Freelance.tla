------------------------------ MODULE Freelance -----------------------------
(***************************************************************************)
(* The brokerless client of the Freelance pattern: the agent of            *)
(* client/flcliapi.cpp, a thread that talks to several servers on behalf of*)
(* a caller (client/main.cpp), and the servers (server/flserver.cpp).      *)
(*                                                                         *)
(* The agent is the record held by the variable agent, its handlers are    *)
(* operators from a record to the record they leave.  One pass of the loop *)
(* of agent::run is one step: what the reactor calls, then the dispatch of *)
(* the request, then the pings.                                            *)
(*                                                                         *)
(* Time is counted in INTERVALs; "now > x" becomes an age above a constant.*)
(***************************************************************************)
EXTENDS Naturals, Sequences

CONSTANTS
    Endpoints,      \* of the servers, in the order the caller connects to them
    NoServer,       \* no message of a server in a pass
    PingInterval,   \* PING_INTERVAL (2)
    ServerTTL,      \* SERVER_TTL (6)
    GlobalTimeout,  \* GLOBAL_TIMEOUT (3)
    Sleep,          \* of main between its requests (2)
    HWM,            \* what a pipe of a ROUTER holds; it drops the rest
    Calls           \* bound of the model: requests the caller makes

\* An endpoint is also the identity of its server.
Servers == {Endpoints[i] : i \in DOMAIN Endpoints}

ASSUME EndpointsAssumption == Endpoints \in Seq(Servers)
\* main connects to each server once.
ASSUME DistinctAssumption ==
    \A i, j \in DOMAIN Endpoints : Endpoints[i] = Endpoints[j] => i = j
ASSUME NoServerAssumption == NoServer \notin Servers
ASSUME TimesAssumption ==
    PingInterval \in Nat /\ ServerTTL \in Nat /\ GlobalTimeout \in Nat /\ Sleep \in Nat
ASSUME BoundsAssumption == HWM \in Nat \ {0} /\ Calls \in Nat

VARIABLES
    agent,      \* the members of flcliapi::agent and of its servers
    caller,     \* main: what it has connected and asked for
    commands,   \* the pipe, from the caller to the agent
    replies,    \* the pipe, from the agent to the caller: numbers, 0 for FAILED
    elapsed,    \* the poll of the agent has lasted INTERVAL
    up,         \* the servers that run
    inbox,      \* inbox[s]: what s has not read, numbers or 0 for PING
    outbox      \* outbox[s]: what s has sent to the agent, 0 for PONG

vars == <<agent, caller, commands, replies, elapsed, up, inbox, outbox>>

\* Commands: a server to connect to, or NoServer for a request.
Command == Servers \cup {NoServer}
Numbers == 0 .. Calls

AgentState ==
    [servers : SUBSET Servers,
     alive   : [Servers -> BOOLEAN],
     quiet   : [Servers -> 0 .. PingInterval + 1],   \* since ping_at_ was set
     age     : [Servers -> 0 .. ServerTTL + 1],      \* since expiry_ was set
     actives : Seq(Servers),
     seq     : Numbers,
     request : Numbers,                              \* request_, 0 for none
     waited  : 0 .. GlobalTimeout + 1,
     down    : BOOLEAN]                              \* an Expects has failed

TypeOK ==
    /\ agent \in AgentState
    /\ caller \in [connected : 0 .. Len(Endpoints), calls : Numbers,
                   waiting : BOOLEAN, rest : 0 .. Sleep]
    /\ commands \in Seq(Command)
    /\ replies \in Seq(Numbers)
    /\ elapsed \in BOOLEAN
    /\ up \subseteq Servers
    /\ inbox \in [Servers -> Seq(Numbers)]
    /\ outbox \in [Servers -> Seq(Numbers)]

Init ==
    /\ agent = [servers |-> {},
                alive   |-> [s \in Servers |-> FALSE],
                quiet   |-> [s \in Servers |-> 0],
                age     |-> [s \in Servers |-> 0],
                actives |-> <<>>, seq |-> 0, request |-> 0, waited |-> 0, down |-> FALSE]
    /\ caller = [connected |-> 0, calls |-> 0, waiting |-> FALSE, rest |-> 0]
    /\ commands = <<>> /\ replies = <<>> /\ elapsed = FALSE
    /\ up \in SUBSET Servers
    /\ inbox = [s \in Servers |-> <<>>]
    /\ outbox = [s \in Servers |-> <<>>]

-----------------------------------------------------------------------------
(* The handlers of the agent.                                              *)

reset_expiry(a, s) == [a EXCEPT !.quiet[s] = 0, !.age[s] = 0]

Expired(a, s) == a.age[s] > ServerTTL

\* Mutant: a CONNECT takes a number too.
ConnectNumbered(a, cmd) ==
    IF cmd \in Servers
    THEN [a EXCEPT !.servers = @ \cup {cmd}, !.actives = Append(@, cmd), !.seq = @ + 1]
    ELSE IF a.request # 0
         THEN [a EXCEPT !.down = TRUE]
         ELSE [a EXCEPT !.seq = @ + 1, !.request = a.seq + 1, !.waited = 0]

\* control_message: CONNECT, or REQUEST with its Expects(!request_).
control_message(a, cmd) ==
    IF cmd \in Servers
    THEN LET b == IF cmd \in a.servers THEN a
                  ELSE [reset_expiry(a, cmd) EXCEPT !.servers = @ \cup {cmd}]
         IN [b EXCEPT !.actives = Append(@, cmd)]
    ELSE IF a.request # 0
         THEN [a EXCEPT !.down = TRUE]
         ELSE [a EXCEPT !.seq = @ + 1, !.request = a.seq + 1, !.waited = 0]

\* Mutant: any answer is passed on, whatever its number.
AnswersAny(a, n) == n # 0

\* The number of an answer is compared with the last number given out.
Answers(a, n) == n # 0 /\ n = a.seq

\* Mutant: a server that is heard is queued every time.
HeardQueues(a, s) ==
    [reset_expiry(a, s) EXCEPT !.alive[s] = TRUE, !.actives = Append(@, s)]

\* Mutant: a server that is heard again is not queued.
HeardNotQueued(a, s) == [reset_expiry(a, s) EXCEPT !.alive[s] = TRUE]

\* Any message of a server, first in route_message.
Heard(a, s) ==
    [reset_expiry(a, s) EXCEPT !.alive[s] = TRUE,
                               !.actives = IF a.alive[s] THEN @ ELSE Append(@, s)]

\* route_message: a PONG (0) or an answer.
route_message(a, s, n) ==
    IF Answers(a, n) THEN [Heard(a, s) EXCEPT !.request = 0] ELSE Heard(a, s)

\* Mutant: a request never expires.
NeverTimedOut(a) == FALSE

TimedOut(a) == a.request # 0 /\ a.waited > GlobalTimeout

Live(a) == {i \in DOMAIN a.actives : ~ Expired(a, a.actives[i])}
FirstLive(a) == IF Live(a) = {} THEN Len(a.actives) + 1
                ELSE CHOOSE i \in Live(a) : \A j \in Live(a) : i <= j

\* The servers the request is sent to: the first that has not expired.
Target(a) ==
    IF a.request # 0 /\ ~ TimedOut(a) /\ Live(a) # {} THEN {a.actives[FirstLive(a)]} ELSE {}

\* The request in agent::run: killed, or passed on behind the expired servers.
dispatch(a) ==
    IF a.request = 0 THEN a
    ELSE IF TimedOut(a) THEN [a EXCEPT !.request = 0]
    ELSE [a EXCEPT !.actives = SubSeq(@, FirstLive(a), Len(@)),
                   !.alive = [s \in Servers |->
                        a.alive[s] /\ \A i \in 1 .. FirstLive(a) - 1 : a.actives[i] # s]]

\* Mutant: the caller is not told that its request was killed.
FailsSilently(a) == <<>>

Fails(a) == IF TimedOut(a) THEN <<0>> ELSE <<>>

\* server::ping of every server.
Pinged(a) == {s \in a.servers : a.quiet[s] > PingInterval}
ping(a) == [a EXCEPT !.quiet = [s \in Servers |-> IF s \in Pinged(a) THEN 0 ELSE a.quiet[s]]]

\* A ROUTER drops what it sends to a peer that is not there or has no room.
Deliver(q, s, n) == IF s \in up /\ Len(q) < HWM THEN Append(q, n) ELSE q

-----------------------------------------------------------------------------
(* The steps.                                                              *)

\* One pass of agent::run.  The poll finds the next command, if there is one (the
\* pipe is in memory), and the next message of a server, if one has come in; or
\* nothing for a whole INTERVAL.
Pass(s) ==
    LET cmd == commands # <<>>
        a == IF cmd THEN control_message(agent, Head(commands)) ELSE agent
        b == IF s \in Servers THEN route_message(a, s, Head(outbox[s])) ELSE a
        c == dispatch(b)
        ok == IF s \in Servers /\ Answers(a, Head(outbox[s])) THEN <<Head(outbox[s])>> ELSE <<>>
    IN
    /\ ~ agent.down
    /\ s \in Servers => outbox[s] # <<>>
    /\ cmd \/ s \in Servers \/ elapsed
    /\ IF a.down
       THEN agent' = a /\ UNCHANGED <<commands, replies, elapsed, inbox, outbox>>
       ELSE /\ agent' = ping(c)
            /\ commands' = IF cmd THEN Tail(commands) ELSE commands
            /\ replies' = replies \o ok \o Fails(b)
            /\ elapsed' = FALSE
            /\ inbox' = [t \in Servers |->
                    LET q == IF t \in Target(b) THEN Deliver(inbox[t], t, b.request)
                                                ELSE inbox[t]
                    IN IF t \in Pinged(c) THEN Deliver(q, t, 0) ELSE q]
            /\ outbox' = IF s \in Servers THEN [outbox EXCEPT ![s] = Tail(@)] ELSE outbox
    /\ UNCHANGED <<caller, up>>

\* flcliapi::connect, called by main for each server first.
Connect ==
    /\ ~ agent.down /\ caller.connected < Len(Endpoints)
    /\ caller' = [caller EXCEPT !.connected = @ + 1]
    /\ commands' = Append(commands, Endpoints[caller.connected + 1])
    /\ UNCHANGED <<agent, replies, elapsed, up, inbox, outbox>>

\* flcliapi::request: the command goes into the pipe ...
Request ==
    /\ ~ agent.down /\ ~ caller.waiting /\ caller.rest = 0
    /\ caller.connected = Len(Endpoints) /\ caller.calls < Calls
    /\ caller' = [caller EXCEPT !.calls = @ + 1, !.waiting = TRUE]
    /\ commands' = Append(commands, NoServer)
    /\ UNCHANGED <<agent, replies, elapsed, up, inbox, outbox>>

\* ... and the next reply, whatever it answers, is returned; main sleeps.
Return ==
    /\ ~ agent.down /\ caller.waiting /\ replies # <<>>
    /\ caller' = [caller EXCEPT !.waiting = FALSE, !.rest = Sleep]
    /\ replies' = Tail(replies)
    /\ UNCHANGED <<agent, commands, elapsed, up, inbox, outbox>>

\* The loop of flserver: PONG for PING, anything else is echoed.
Serve(s) ==
    /\ s \in up /\ inbox[s] # <<>>
    /\ inbox' = [inbox EXCEPT ![s] = Tail(@)]
    /\ outbox' = [outbox EXCEPT ![s] = Deliver(@, s, Head(inbox[s]))]
    /\ UNCHANGED <<agent, caller, commands, replies, elapsed, up>>

\* A server ends with what it has not read, and a part of what it has sent.
ServerDies(s) ==
    /\ s \in up
    /\ up' = up \ {s}
    /\ inbox' = [inbox EXCEPT ![s] = <<>>]
    /\ \E n \in 0 .. Len(outbox[s]) : outbox' = [outbox EXCEPT ![s] = SubSeq(@, 1, n)]
    /\ UNCHANGED <<agent, caller, commands, replies, elapsed>>

ServerStarts(s) ==
    /\ s \notin up
    /\ up' = up \cup {s}
    /\ UNCHANGED <<agent, caller, commands, replies, elapsed, inbox, outbox>>

\* One INTERVAL passes.
Tick ==
    /\ agent' = [agent EXCEPT
            !.quiet = [s \in Servers |-> IF s \in agent.servers /\ @[s] <= PingInterval
                                         THEN @[s] + 1 ELSE @[s]],
            !.age = [s \in Servers |-> IF s \in agent.servers /\ @[s] <= ServerTTL
                                       THEN @[s] + 1 ELSE @[s]],
            !.waited = IF agent.request # 0 /\ @ <= GlobalTimeout THEN @ + 1 ELSE @]
    /\ elapsed' = TRUE
    /\ caller' = [caller EXCEPT !.rest = IF @ > 0 THEN @ - 1 ELSE 0]
    /\ UNCHANGED <<commands, replies, up, inbox, outbox>>

AgentPass == \E s \in Servers \cup {NoServer} : Pass(s)

Next ==
    \/ Tick
    \/ AgentPass
    \/ Connect
    \/ Request
    \/ Return
    \/ \E s \in Servers : Serve(s) \/ ServerDies(s) \/ ServerStarts(s)

Spec == Init /\ [][Next]_vars

\* When the poll of the agent returns: what enables AgentPass.
CanPass ==
    ~ agent.down /\ (commands # <<>> \/ elapsed \/ \E s \in Servers : outbox[s] # <<>>)

\* The threads of the client's process run; nothing is asked of the servers.  The
\* second conjunct is WF_vars(AgentPass), with its ENABLED spelt out for TLC.
Fairness ==
    /\ WF_vars(Tick)
    /\ []<>(~ CanPass) \/ []<><<AgentPass>>_vars
    /\ WF_vars(Return)

FairSpec == Spec /\ Fairness

-----------------------------------------------------------------------------
(* Properties.                                                             *)

Copies(s) == {i \in DOMAIN agent.actives : agent.actives[i] = s}

\* A caller that waits is not forgotten: its request is in the pipe, or held by
\* the agent, or a reply is in the pipe.
CallerNeverForgotten ==
    caller.waiting /\ ~ agent.down =>
        \/ \E i \in DOMAIN commands : commands[i] = NoServer
        \/ agent.request # 0
        \/ replies # <<>>

\* A server that is taken for alive is in the queue: it can be asked.
AliveIsQueued == \A s \in agent.servers : agent.alive[s] => Copies(s) # {}

\* actives_ does not grow: of the copy made at connect and the copies made each
\* time a server comes to life, two remain at most.
QueuedAtMostTwice ==
    \A s \in Servers : \A i, j, k \in Copies(s) : i = j \/ j = k \/ i = k

\* Answers reach the caller in the order of their requests.
AnswersInOrder ==
    \A i, j \in DOMAIN replies :
        i < j /\ replies[i] # 0 /\ replies[j] # 0 => replies[i] <= replies[j]

\* request always returns, with an answer or with FAILED, even if no server
\* ever answers.
CallerReturns == caller.waiting ~> ~ caller.waiting \/ agent.down

\* flcliapi.cpp:58, "Current request must be nullptr": the Expects holds.
ExpectsHolds == ~ agent.down

=============================================================================
