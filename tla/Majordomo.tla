----------------------------- MODULE Majordomo ------------------------------
(***************************************************************************)
(* The whole Majordomo system: the broker of module MDBroker, the workers  *)
(* (worker/mdwrkapi.cpp under worker/echoworker.cpp) and the clients       *)
(* (client/mdcliapi.cpp under client/main.cpp), joined by the pipes of one *)
(* ROUTER socket and many DEALER sockets.                                  *)
(*                                                                         *)
(* A worker draws a new identity at random each time it connects: any, one *)
(* that another socket has or that the broker still knows included.  The   *)
(* ROUTER ignores a socket with an identity it already has a pipe for.     *)
(* Closing a socket (linger is 0) loses what it has not yet transmitted and*)
(* what it has not yet read; the ROUTER drops what it cannot route and what*)
(* exceeds the high-water mark of a pipe, and a DEALER waits.              *)
(***************************************************************************)
EXTENDS Naturals, Sequences, FiniteSets

CONSTANTS
    Workers, WorkerIds, Clients, Names, NoName, MmiService, MmiLike, MmiLikeIds,
    NoRequest,
    NoId,          \* no identity: no socket, or one that the ROUTER ignores
    ServiceOf,     \* service_name_ of each worker
    Wants,         \* the service name each client is run with
    Calls,         \* bound: calls a client makes after the discovery (9 in the code)
    Liveness,      \* HEARTBEAT_LIVENESS
    HWM,           \* messages a pipe holds
    MaxRestarts,   \* bound: broker restarts of a behaviour
    MaxDeaths,     \* bound: worker processes that die in a behaviour
    Prompt         \* TRUE: an interval passes only when everybody is waiting

ASSUME WorkersAssumption ==
    /\ ServiceOf \in [Workers -> Names \ {NoName}]
    /\ Wants \in [Clients -> Names]
    /\ NoId \notin WorkerIds
ASSUME NamesAssumption ==
    /\ NoName \in Names
    /\ MmiService \in MmiLike
    /\ MmiLike \subseteq Names
ASSUME ClientsAssumption == IsFiniteSet(Clients) /\ Clients # {}
ASSUME BoundsAssumption ==
    /\ Calls \in Nat
    /\ Liveness \in Nat \ {0} /\ HWM \in Nat \ {0}
    /\ MaxRestarts \in Nat /\ MaxDeaths \in Nat
    /\ Prompt \in BOOLEAN

VARIABLES
    broker,      \* the broker object
    worker,      \* one mdwrkapi, and the loop that uses it, per worker
    client,      \* one client process each
    toBroker,    \* per worker identity: what the broker has yet to receive
    toWorker,    \* per worker identity: what its socket has yet to receive
    clientOut,   \* per client: what the broker has yet to receive
    clientIn,    \* per client: what it has yet to receive
    faults,      \* restarts and deaths so far
    clash        \* history: an identity was drawn that was not free

vars == <<broker, worker, client, toBroker, toWorker, clientOut, clientIn, faults, clash>>

\* A request is named by its client and its number; number 0 asks mmi.service.
Requests == [client : Clients, seq : 0 .. Calls]
MaxRequests == Cardinality(Clients) * (Calls + 1)

\* Every message of these programs is whole: no frame is missing.
B == INSTANCE MDBroker WITH NoFrame <- NoRequest

ASSUME RequestsAssumption == NoRequest \notin Requests \cup Names \cup B!Commands

\* drawn is the identity set on the worker's socket, id the one under which the
\* ROUTER knows that socket.
NoWorker == [pc |-> "down", id |-> NoId, drawn |-> NoId, liveness |-> 0,
             heartbeat_due |-> FALSE, poll_due |-> FALSE, request |-> NoRequest]

Init ==
    /\ broker = B!EmptyBroker
    /\ worker = [w \in Workers |-> NoWorker]
    /\ client = [c \in Clients |-> [pc |-> "ready", seq |-> 0]]
    /\ toBroker = [i \in WorkerIds |-> <<>>]
    /\ toWorker = [i \in WorkerIds |-> <<>>]
    /\ clientOut = [c \in Clients |-> <<>>]
    /\ clientIn = [c \in Clients |-> <<>>]
    /\ faults = [restarts |-> 0, deaths |-> 0]
    /\ clash = FALSE

-----------------------------------------------------------------------------
(***************************************************************************)
(* Pipes.                                                                  *)
(***************************************************************************)

Prefix(s, k) == SubSeq(s, 1, k)
Suffix(s, k) == SubSeq(s, k + 1, Len(s))

\* The ways to cut each of a family of pipes in two.
Cuts(pipes) == {cut \in [DOMAIN pipes -> 0 .. HWM] : \A i \in DOMAIN pipes : cut[i] <= Len(pipes[i])}

Connected == {worker[w].id : w \in Workers} \ {NoId}

\* What the socket of w has received and not read.
Inbox(w) == IF worker[w].id = NoId THEN <<>> ELSE toWorker[worker[w].id]

\* A socket of the identity i sends m; what an ignored socket sends is lost.
HasRoom(i) == i # NoId => Len(toBroker[i]) < HWM
Sent(i, m) == [j \in WorkerIds |-> IF j = i THEN Append(toBroker[j], m) ELSE toBroker[j]]

FromWorker(cmd, name, request) == [cmd |-> cmd, name |-> name, request |-> request]

\* The ROUTER delivers sends, at most one message for each identity.
Deliver(sends) ==
    toWorker' = [i \in WorkerIds |->
        IF i \in Connected /\ Len(toWorker[i]) < HWM
        THEN toWorker[i] \o (IF \E m \in sends : m.to = i
                             THEN LET m == CHOOSE m \in sends : m.to = i
                                  IN  <<[cmd |-> m.cmd, request |-> m.body]>>
                             ELSE <<>>)
        ELSE toWorker[i]]

\* A message for client c: what is said, and the request it answers.
Answer(c, code, seq) ==
    clientIn' = IF client[c].pc # "gone" /\ Len(clientIn[c]) < HWM
                THEN [clientIn EXCEPT ![c] = Append(@, [code |-> code, seq |-> seq])]
                ELSE clientIn

-----------------------------------------------------------------------------
(***************************************************************************)
(* The worker: mdwrkapi.  pc is "down" (no socket), "recv" (inside recv) or*)
(* "work" (a request was returned and is not answered yet).                *)
(***************************************************************************)

\* The old socket of w is closed: of what it sent, the first k messages had been
\* transmitted.
Left(w, k) ==
    [j \in WorkerIds |-> IF j = worker[w].id THEN Prefix(toBroker[j], k) ELSE toBroker[j]]

\* The ROUTER has a pipe of identity i: another socket's, or one whose socket is
\* closed and that it has not read to its end.
Taken(w, i, left) == left[i] # <<>> \/ \E v \in Workers \ {w} : worker[v].id = i

\* The socket of w is closed and a new one, whose identity is any of WorkerIds,
\* sends the messages first.  It is ignored when its identity is taken, and may be
\* when it is the one of the old socket, whose end the ROUTER notices in its time.
NewSocket(w, first) ==
    \E i \in WorkerIds, k \in 0 .. HWM, ignored \in BOOLEAN :
        LET old == worker[w].id
            left == Left(w, k)
            id == IF ignored THEN NoId ELSE i
        IN
        /\ k <= (IF old = NoId THEN 0 ELSE Len(toBroker[old]))
        /\ Taken(w, i, left) => ignored
        /\ ignored => Taken(w, i, left) \/ i = old
        /\ worker' = [worker EXCEPT ![w] =
               [NoWorker EXCEPT !.pc = "recv", !.id = id, !.drawn = i, !.liveness = Liveness]]
        /\ toBroker' = [j \in WorkerIds |-> IF j = id THEN first ELSE left[j]]
        /\ toWorker' = [j \in WorkerIds |-> IF j \in {id, old} THEN <<>> ELSE toWorker[j]]
        /\ clash' = (clash \/ ignored \/ i \in broker.workers)

\* Mutant: the new socket does not register.
ConnectSilently(w) == NewSocket(w, <<>>)

\* connect_to_broker: the new socket registers the service.
connect_to_broker(w) == NewSocket(w, <<FromWorker("READY", ServiceOf[w], NoRequest)>>)

\* The end of a pass of recv's loop: a heartbeat if it is time for one.  r is the
\* record the pass leaves.
EndOfPass(w, r) ==
    IF r.heartbeat_due
    THEN /\ HasRoom(r.id)
         /\ worker' = [worker EXCEPT ![w] = [r EXCEPT !.heartbeat_due = FALSE]]
         /\ toBroker' = Sent(r.id, FromWorker("HEARTBEAT", NoName, NoRequest))
    ELSE /\ worker' = [worker EXCEPT ![w] = r]
         /\ UNCHANGED toBroker

\* The worker's thread starts: run() connects, then loops over recv and send.
WorkerStart(w) ==
    /\ worker[w].pc = "down"
    /\ connect_to_broker(w)
    /\ UNCHANGED <<broker, client, clientOut, clientIn, faults>>

\* recv reads a message.  A request is returned to the caller at once.
RecvRequest(w) ==
    LET i == worker[w].id IN
    /\ worker[w].pc = "recv"
    /\ Inbox(w) # <<>> /\ Head(Inbox(w)).cmd = "REQUEST"
    /\ worker' = [worker EXCEPT ![w].pc = "work", ![w].liveness = Liveness,
                                ![w].poll_due = FALSE,
                                ![w].request = Head(Inbox(w)).request]
    /\ toWorker' = [toWorker EXCEPT ![i] = Tail(@)]
    /\ UNCHANGED <<broker, client, toBroker, clientOut, clientIn, faults, clash>>

RecvHeartbeat(w) ==
    LET i == worker[w].id IN
    /\ worker[w].pc = "recv"
    /\ Inbox(w) # <<>> /\ Head(Inbox(w)).cmd = "HEARTBEAT"
    /\ EndOfPass(w, [worker[w] EXCEPT !.liveness = Liveness, !.poll_due = FALSE])
    /\ toWorker' = [toWorker EXCEPT ![i] = Tail(@)]
    /\ UNCHANGED <<broker, client, clientOut, clientIn, faults, clash>>

RecvDisconnect(w) ==
    /\ worker[w].pc = "recv"
    /\ Inbox(w) # <<>> /\ Head(Inbox(w)).cmd = "DISCONNECT"
    /\ connect_to_broker(w)
    /\ UNCHANGED <<broker, client, clientOut, clientIn, faults>>

\* The poll of one interval found nothing.  When liveness_ reaches zero the
\* worker sleeps and connects anew.
PollTimeout(w) ==
    /\ worker[w].pc = "recv" /\ worker[w].poll_due
    /\ Inbox(w) = <<>>
    /\ IF worker[w].liveness = 1 THEN connect_to_broker(w)
       ELSE /\ EndOfPass(w, [worker[w] EXCEPT !.liveness = @ - 1, !.poll_due = FALSE])
            /\ UNCHANGED <<toWorker, clash>>
    /\ UNCHANGED <<broker, client, clientOut, clientIn, faults>>

\* Mutant: reply_to_ is not cleared and the reply is sent again.
SendReplyAgain(w) ==
    LET i == worker[w].id IN
    /\ worker[w].pc = "work" /\ HasRoom(i)
    /\ toBroker' = Sent(i, FromWorker("REPLY", NoName, worker[w].request))
    /\ UNCHANGED <<broker, worker, client, toWorker, clientOut, clientIn, faults, clash>>

\* send: the reply goes to the address the request came with.
SendReply(w) ==
    LET i == worker[w].id IN
    /\ worker[w].pc = "work" /\ HasRoom(i)
    /\ toBroker' = Sent(i, FromWorker("REPLY", NoName, worker[w].request))
    /\ worker' = [worker EXCEPT ![w].pc = "recv", ![w].request = NoRequest]
    /\ UNCHANGED <<broker, client, toWorker, clientOut, clientIn, faults, clash>>

\* The process dies; it may be started again.
WorkerDies(w) ==
    /\ faults.deaths < MaxDeaths /\ worker[w].pc # "down"
    /\ \E k \in 0 .. HWM :
          /\ k <= (IF worker[w].id = NoId THEN 0 ELSE Len(toBroker[worker[w].id]))
          /\ toBroker' = Left(w, k)
    /\ toWorker' = [j \in WorkerIds |-> IF j = worker[w].id THEN <<>> ELSE toWorker[j]]
    /\ worker' = [worker EXCEPT ![w] = NoWorker]
    /\ faults' = [faults EXCEPT !.deaths = @ + 1]
    /\ UNCHANGED <<broker, client, clientOut, clientIn, clash>>

-----------------------------------------------------------------------------
(***************************************************************************)
(* The broker's loop.                                                      *)
(***************************************************************************)

\* worker_process.  A reply that is valid goes on to the client it names.
BrokerRecvWorker(i) ==
    /\ toBroker[i] # <<>>
    /\ LET m == Head(toBroker[i]) IN
       /\ broker' = B!worker_process(broker, i, m.cmd, m.name)
       /\ Deliver(B!WorkerProcessSends(broker, i, m.cmd, m.name))
       /\ IF m.cmd = "REPLY" /\ ~ B!NotValid(broker, i, "REPLY")
          THEN Answer(m.request.client, "reply", m.request.seq)
          ELSE UNCHANGED clientIn
    /\ toBroker' = [toBroker EXCEPT ![i] = Tail(@)]
    /\ UNCHANGED <<worker, client, clientOut, faults, clash>>

\* client_process, with the answer of service_internal.
BrokerRecvClient(c) ==
    /\ clientOut[c] # <<>>
    /\ LET m == Head(clientOut[c]) IN
       /\ broker' = B!client_process(broker, m.name, m.request)
       /\ Deliver(B!ClientProcessSends(broker, m.name, m.request))
       /\ IF m.name \in MmiLike
          THEN Answer(c, B!service_internal(B!client_process(broker, m.name, m.request),
                                            m.name, Wants[c]),
                      m.request.seq)
          ELSE UNCHANGED clientIn
    /\ clientOut' = [clientOut EXCEPT ![c] = Tail(@)]
    /\ UNCHANGED <<worker, client, toBroker, faults, clash>>

BrokerTimer ==
    /\ B!Timer
    /\ Deliver(B!TimerSends(broker))
    /\ UNCHANGED <<worker, client, toBroker, clientOut, clientIn, faults, clash>>

\* The identity under which a new ROUTER knows each socket: of those with the same
\* drawn identity it knows one.
Accepted(known) ==
    /\ \A w \in Workers : known[w] \in {worker[w].drawn, NoId}
    /\ \A v, w \in Workers : known[v] = known[w] /\ known[v] # NoId => v = w
    /\ \A w \in Workers : \E v \in Workers : worker[w].drawn \in {known[v], NoId}

\* The broker process dies and is started again: its tables are gone, and of each
\* pipe what it had received and what it had not yet transmitted.  Every socket
\* connects again; where another one has the identity now, or none, the pipe is gone.
BrokerRestart ==
    /\ faults.restarts < MaxRestarts
    /\ broker' = B!EmptyBroker
    /\ \E known \in [Workers -> WorkerIds \cup {NoId}] :
          LET same == {i \in WorkerIds : \E w \in Workers : known[w] = i /\ worker[w].id = i} IN
          /\ Accepted(known)
          /\ worker' = [w \in Workers |-> [worker[w] EXCEPT !.id = known[w]]]
          /\ \E lost \in Cuts(toBroker) :
                /\ \A i \in WorkerIds \ same : lost[i] = Len(toBroker[i])
                /\ toBroker' = [i \in WorkerIds |-> Suffix(toBroker[i], lost[i])]
          /\ \E kept \in Cuts(toWorker) :
                /\ \A i \in WorkerIds \ same : kept[i] = 0
                /\ toWorker' = [i \in WorkerIds |-> Prefix(toWorker[i], kept[i])]
    /\ \E lost \in Cuts(clientOut) :
          clientOut' = [c \in Clients |-> Suffix(clientOut[c], lost[c])]
    /\ \E kept \in Cuts(clientIn) :
          clientIn' = [c \in Clients |-> Prefix(clientIn[c], kept[c])]
    /\ faults' = [faults EXCEPT !.restarts = @ + 1]
    /\ UNCHANGED <<client, clash>>

-----------------------------------------------------------------------------
(***************************************************************************)
(* The client: main() of client/main.cpp once its socket is connected.  (As*)
(* it stands main() never calls connect_to_broker and sends through an     *)
(* empty socket_.)  seq is the number of the call that is next or under    *)
(* way; 0 is the discovery.                                                *)
(***************************************************************************)

ClientSend(c) ==
    /\ client[c].pc = "ready" /\ client[c].seq <= Calls
    /\ Len(clientOut[c]) < HWM
    /\ clientOut' = [clientOut EXCEPT ![c] = Append(@,
           [name |-> IF client[c].seq = 0 THEN MmiService ELSE Wants[c],
            request |-> [client |-> c, seq |-> client[c].seq]])]
    /\ client' = [client EXCEPT ![c].pc = "wait"]
    /\ UNCHANGED <<broker, worker, toBroker, toWorker, clientIn, faults, clash>>

\* Whatever arrives is the answer; a discovery that is not "200" ends main().
ClientRecv(c) ==
    /\ client[c].pc = "wait" /\ clientIn[c] # <<>>
    /\ IF client[c].seq = 0 /\ Head(clientIn[c]).code # "200"
       THEN /\ client' = [client EXCEPT ![c].pc = "gone"]
            /\ clientIn' = [clientIn EXCEPT ![c] = <<>>]
       ELSE /\ client' = [client EXCEPT ![c] = [pc |-> "ready", seq |-> @.seq + 1]]
            /\ clientIn' = [clientIn EXCEPT ![c] = Tail(@)]
    /\ UNCHANGED <<broker, worker, toBroker, toWorker, clientOut, faults, clash>>

\* Mutant: the client goes on with its next call.
TimeoutGoesOn(c) ==
    /\ client[c].pc = "wait" /\ clientIn[c] = <<>>
    /\ client' = [client EXCEPT ![c] = [pc |-> "ready", seq |-> @.seq + 1]]
    /\ UNCHANGED <<broker, worker, toBroker, toWorker, clientOut, clientIn, faults, clash>>

\* recv returns an empty message after timeout_: main() returns after a
\* discovery, and reading frame 0 of it throws after a call.  Either way the
\* socket is closed.
ClientTimeout(c) ==
    /\ client[c].pc = "wait" /\ clientIn[c] = <<>>
    /\ client' = [client EXCEPT ![c].pc = "gone"]
    /\ \E k \in 0 .. Len(clientOut[c]) :
          clientOut' = [clientOut EXCEPT ![c] = Prefix(@, k)]
    /\ UNCHANGED <<broker, worker, toBroker, toWorker, clientIn, faults, clash>>

-----------------------------------------------------------------------------
\* Everybody is blocked in a poll that has not run out.
Quiet ==
    /\ ~ broker.heartbeat_due
    /\ \A i \in WorkerIds : toBroker[i] = <<>> /\ toWorker[i] = <<>>
    /\ \A w \in Workers : worker[w].pc = "recv" /\ ~ worker[w].poll_due
    /\ \A c \in Clients : clientOut[c] = <<>> /\ clientIn[c] = <<>>

\* One interval passes on every clock.
Tick ==
    /\ Prompt => Quiet
    /\ B!Tick
    /\ worker' = [w \in Workers |->
          IF worker[w].pc = "down" THEN worker[w]
          ELSE [worker[w] EXCEPT !.heartbeat_due = TRUE,
                                 !.poll_due = worker[w].pc = "recv"]]
    /\ UNCHANGED <<client, toBroker, toWorker, clientOut, clientIn, faults, clash>>

WorkerStep(w) ==
    \/ WorkerStart(w)
    \/ RecvRequest(w)
    \/ RecvHeartbeat(w)
    \/ RecvDisconnect(w)
    \/ PollTimeout(w)
    \/ SendReply(w)

Next ==
    \/ \E w \in Workers : WorkerStep(w) \/ WorkerDies(w)
    \/ \E i \in WorkerIds : BrokerRecvWorker(i)
    \/ \E c \in Clients : BrokerRecvClient(c) \/ ClientSend(c) \/ ClientRecv(c) \/ ClientTimeout(c)
    \/ BrokerTimer
    \/ BrokerRestart
    \/ Tick

Spec == Init /\ [][Next]_vars

\* Threads that can run do run; the network, the broker's loop and the clock go
\* on.  Nothing is assumed of clients, of timeouts and of faults.
Fairness ==
    /\ \A w \in Workers : WF_vars(WorkerStep(w))
    /\ \A i \in WorkerIds : WF_vars(BrokerRecvWorker(i))
    /\ \A c \in Clients : WF_vars(BrokerRecvClient(c)) /\ WF_vars(ClientRecv(c))
    /\ WF_vars(BrokerTimer)
    /\ WF_vars(Tick)

FairSpec == Spec /\ Fairness

-----------------------------------------------------------------------------
(***************************************************************************)
(* Properties.                                                             *)
(***************************************************************************)

\* Where there are messages in a family of pipes.
Positions(pipes) == UNION {{i} \X DOMAIN pipes[i] : i \in DOMAIN pipes}

\* The ways in which the system can hold request r.
Copies(r) ==
      Cardinality({x \in Positions(clientOut) : clientOut[x[1]][x[2]].request = r})
    + Cardinality({x \in Positions(broker.requests) : broker.requests[x[1]][x[2]] = r})
    + Cardinality({x \in Positions(toWorker) : toWorker[x[1]][x[2]].request = r})
    + Cardinality({w \in Workers : worker[w].request = r})
    + Cardinality({x \in Positions(toBroker) : toBroker[x[1]][x[2]].request = r})
    + Cardinality({k \in DOMAIN clientIn[r.client] : clientIn[r.client][k].seq = r.seq})

\* Custody: across all pipes, queues, workers and restarts a request is in one
\* place at most.  It may be lost, but it is never served or answered twice.
AtMostOneCopy == \A r \in Requests : Copies(r) <= 1

\* As long as every identity drawn was free, what a worker holds or is about to
\* receive or to answer is one request at most, though it changes identity and the
\* broker may have forgotten it.  (An identity that the broker still knows may be
\* given a second request by a worker that has one.)
Outstanding(i) ==
      Cardinality({k \in 1 .. Len(toWorker[i]) : toWorker[i][k].cmd = "REQUEST"})
    + Cardinality({w \in Workers : worker[w].id = i /\ worker[w].pc = "work"})
    + Cardinality({k \in 1 .. Len(toBroker[i]) : toBroker[i][k].cmd = "REPLY"})
OneRequestPerWorker == ~ clash => \A i \in WorkerIds : Outstanding(i) <= 1

\* A client that waits for call seq reads the answer of that call.
AnswersTheCall ==
    \A c \in Clients : clientIn[c] # <<>> =>
        client[c].pc = "wait" /\ Head(clientIn[c]).seq = client[c].seq

\* What the environment of MDBroker never does and a worker may, once an identity
\* has been drawn that was not free: it answers while it is held for idle.
LateReply ==
    clash /\ \E i \in WorkerIds : broker' = B!worker_process(broker, i, "REPLY", NoName)

\* The broker of the whole system is the broker of MDBroker in an environment that
\* keeps its assumption until an identity is drawn that is not free, and that breaks
\* it by late replies alone.
BrokerSpec == B!Init /\ [][B!Next \/ LateReply]_broker

\* Every worker is registered under its current identity again and again, after
\* restarts, deaths, lost messages and identities that are drawn again while the
\* ROUTER or the broker still knows them.
WorkersRegister ==
    \A w \in Workers : []<>(worker[w].id \in broker.workers
                            /\ broker.service_name[worker[w].id] = ServiceOf[w])

\* A request queued for a service that has workers does not stay queued.
QueueDrains ==
    \A n \in {ServiceOf[w] : w \in Workers} :
        broker.requests[n] # <<>> ~> broker.requests[n] = <<>>
=============================================================================
