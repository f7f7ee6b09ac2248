--------------------------- MODULE ParanoidPirate ---------------------------
(***************************************************************************)
(* The Paranoid Pirate queue (broker/ppbroker.cpp, broker/worker_queue.cpp)*)
(* with its workers (worker/ppworker.cpp) and its Lazy Pirate clients      *)
(* (client/lpclient.cpp).                                                  *)
(*                                                                         *)
(* Each of the three is one thread around zmq_poll, and a pass of its loop *)
(* is one step.  Time is counted in HEARTBEAT_INTERVALs, which is also the *)
(* time-out of the polls of the broker and the workers: "now > heartbeat_at"*)
(* is a flag that a tick raises, "when_ < now" an age above Liveness.      *)
(***************************************************************************)
EXTENDS Naturals, Sequences, StdErase

CONSTANTS
    Workers,        \* identities, given on the command line: a worker keeps its own
    NoWorker,       \* no worker's message in a pass of the broker
    Clients,
    NoRequest,      \* no client's message in a pass of the broker
    READY, HEARTBEAT,
    Liveness,       \* HEARTBEAT_LIVENESS (5)
    IntervalMax,    \* INTERVAL_MAX in intervals (32); INTERVAL_INIT is 1
    Retries,        \* REQUEST_RETRIES (3)
    HWM,            \* what a pipe holds; the ROUTER drops the rest, a DEALER waits
    Calls,          \* bound of the model: calls of a client
    MaxFaults,      \* bound of the model: restarts, deaths and delays together
    MaxRefusals     \* bound of the model: connections the ROUTER refuses

Request == [client : Clients, seq : 1 .. Calls, try : 0 .. Retries]
Message == {READY, HEARTBEAT} \cup Request

ASSUME NamesAssumption == NoWorker \notin Workers /\ NoRequest \notin Request
ASSUME MessagesAssumption == READY # HEARTBEAT /\ {READY, HEARTBEAT} \cap Request = {}
ASSUME TimesAssumption ==
    Liveness \in Nat \ {0} /\ IntervalMax \in Nat \ {0} /\ Retries \in Nat \ {0}
ASSUME BoundsAssumption ==
    HWM \in Nat \ {0} /\ Calls \in Nat /\ MaxFaults \in Nat /\ MaxRefusals \in Nat

VARIABLES
    queue,      \* worker_queue: identities in order, and the age of their when_
    broker,     \* its process, whether a heartbeat is due, how long its poll lasts
    worker,     \* worker[w]: its process, the locals of run, its connection
    toBroker,   \* toBroker[w]: what w has sent and the broker has not read
    toWorker,   \* toWorker[w]: what the broker has sent and w has not read
    client,     \* client[c]: the locals of lpclient::run
    front,      \* requests at the frontend, one connection each
    answers,    \* answers the clients have not read
    faults,     \* how many restarts, deaths and delays have happened
    refusals    \* how many connections were refused

vars == <<queue, broker, worker, toBroker, toWorker, client, front, answers, faults,
          refusals>>

TypeOK ==
    /\ queue \in [ids : Seq(Workers), age : [Workers -> Nat]]
    /\ broker \in [up : BOOLEAN, due : BOOLEAN, waited : Nat]
    /\ worker \in [Workers -> [phase    : {"down", "poll", "asleep"},
                               liveness : 1 .. Liveness,
                               interval : 1 .. 2 * IntervalMax,
                               sleep    : 0 .. 2 * IntervalMax,
                               waited   : BOOLEAN,   \* its poll has run out
                               due      : BOOLEAN,   \* its next heartbeat
                               linked   : BOOLEAN]]  \* the ROUTER knows its socket
    /\ toBroker \in [Workers -> Seq(Message)]
    /\ toWorker \in [Workers -> Seq(Message)]
    /\ client \in [Clients -> [phase   : {"ready", "waiting", "abandoned", "failed"},
                               seq     : 0 .. Calls,
                               retries : 0 .. Retries]]
    /\ front \subseteq Request
    /\ answers \subseteq Request
    /\ faults \in 0 .. MaxFaults
    /\ refusals \in 0 .. MaxRefusals

EmptyQueue == [ids |-> <<>>, age |-> [w \in Workers |-> 0]]

StoppedWorker ==
    [phase |-> "down", liveness |-> Liveness, interval |-> 1, sleep |-> 0,
     waited |-> FALSE, due |-> FALSE, linked |-> FALSE]

Init ==
    /\ queue = EmptyQueue
    /\ broker = [up |-> TRUE, due |-> FALSE, waited |-> 0]
    /\ worker = [w \in Workers |-> StoppedWorker]
    /\ toBroker = [w \in Workers |-> <<>>]
    /\ toWorker = [w \in Workers |-> <<>>]
    /\ client = [c \in Clients |-> [phase |-> "ready", seq |-> 0, retries |-> Retries]]
    /\ front = {} /\ answers = {}
    /\ faults = 0 /\ refusals = 0

Min2(a, b) == IF a < b THEN a ELSE b

\* The first k messages of a pipe.
First(s, k) == SubSeq(s, 1, k)

-----------------------------------------------------------------------------
(* worker_queue.  The age of an identity that is not queued is 0.          *)

Queued(q, w) == w \in Elements(q.ids)

\* Mutant: the identity is not looked up first.
PushAlways(q, w) == [ids |-> Append(q.ids, w), age |-> [q.age EXCEPT ![w] = 0]]

push(q, w) ==
    IF Queued(q, w) THEN q
    ELSE [ids |-> Append(q.ids, w), age |-> [q.age EXCEPT ![w] = 0]]

\* std::erase_if, of one identity or of several.
erase(q, D) ==
    [ids |-> Erase(q.ids, D), age |-> [w \in Workers |-> IF w \in D THEN 0 ELSE q.age[w]]]

\* Mutant: the heartbeat of a worker is not recorded.
RefreshNothing(q, w) == q

refresh(q, w) == [q EXCEPT !.age[w] = 0]

pop(q) == [ids |-> Tail(q.ids), age |-> [q.age EXCEPT ![Head(q.ids)] = 0]]

Expired(q) == {w \in Workers : q.age[w] > Liveness}

\* Mutant: nobody expires.
PurgeNobody(q) == q

purge(q) == erase(q, Expired(q))

-----------------------------------------------------------------------------
(* The broker.                                                             *)

\* What a message of worker w makes of the queue: READY moves w to the end, a
\* heartbeat only renews it, and the answer to a request makes it idle again.
BackendReceive(q, w, msg) ==
    CASE msg = READY     -> push(erase(q, {w}), w)
      [] msg = HEARTBEAT -> refresh(q, w)
      [] OTHER           -> push(q, w)

\* The socket that sent r is still open: a retry opens a new one, and a client
\* that ends closes the last.
SocketOpen(r) ==
    /\ client[r.client].phase \in {"ready", "waiting"}
    /\ r.try = Retries - client[r.client].retries

\* frontend.send: the ROUTER drops what it cannot route.
Deliver(msg) == answers \cup {r \in {msg} \cap Request : SocketOpen(r)}

\* The ROUTER can send to w: its socket is connected and known.
Routable(w) == worker[w].phase # "down" /\ worker[w].linked

\* backend.send of a request to worker w, or of none, then of a heartbeat to
\* each worker in the set B.
Sent(w, r, B) ==
    [x \in Workers |->
        LET one == IF x = w /\ r # NoRequest THEN <<r>> ELSE <<>>
            two == IF x \in B THEN one \o <<HEARTBEAT>> ELSE one
        IN  IF Routable(x)
            THEN First(toWorker[x] \o two, Min2(HWM, Len(toWorker[x] \o two)))
            ELSE toWorker[x]]

\* One pass of ppbroker::run: a message of worker b, if any, then one of a client,
\* if any, then the heartbeats if they are due, then the purge.  The frontend is
\* polled only when somebody was queued before the poll.  A message that has
\* just been sent may not have come yet; a poll that returns nothing ran out.
BrokerPass(b, r) ==
    LET afterBackend == IF b = NoWorker THEN queue
                        ELSE BackendReceive(queue, b, Head(toBroker[b]))
        dispatched   == r # NoRequest /\ afterBackend.ids # <<>>
        afterFront   == IF dispatched THEN pop(afterBackend) ELSE afterBackend
    IN  /\ broker.up
        /\ b # NoWorker => toBroker[b] # <<>>
        /\ r # NoRequest => queue.ids # <<>>
        /\ b = NoWorker /\ r = NoRequest => broker.waited > 0
        /\ queue' = purge(afterFront)
        /\ broker' = [broker EXCEPT !.due = FALSE, !.waited = 0]
        /\ toBroker' = IF b = NoWorker THEN toBroker ELSE [toBroker EXCEPT ![b] = Tail(@)]
        /\ answers' = IF b = NoWorker THEN answers ELSE Deliver(Head(toBroker[b]))
        /\ front' = front \ {r}
        /\ toWorker' = Sent(IF dispatched THEN Head(afterBackend.ids) ELSE NoWorker, r,
                            IF broker.due THEN Elements(afterFront.ids) ELSE {})
        /\ UNCHANGED <<worker, client, faults, refusals>>

BrokerStart ==
    /\ ~ broker.up
    /\ broker' = [up |-> TRUE, due |-> FALSE, waited |-> 0]
    /\ UNCHANGED <<queue, worker, toBroker, toWorker, client, front, answers, faults, refusals>>

\* The process of the broker ends.  It takes with it what has reached it, the
\* beginning of each pipe; what it had sent may not all have left.  The sockets of
\* workers and clients connect again by themselves, and the next broker will
\* accept them.
BrokerStop ==
    /\ broker.up
    /\ faults < MaxFaults
    /\ faults' = faults + 1
    /\ broker' = [up |-> FALSE, due |-> FALSE, waited |-> 0]
    /\ queue' = EmptyQueue
    /\ worker' = [w \in Workers |-> [worker[w] EXCEPT !.linked = (worker[w].phase # "down")]]
    /\ \E lost \in [Workers -> 0 .. HWM], kept \in [Workers -> 0 .. HWM] :
          /\ \A w \in Workers : lost[w] <= Len(toBroker[w]) /\ kept[w] <= Len(toWorker[w])
          /\ toBroker' = [w \in Workers |->
                SubSeq(toBroker[w], lost[w] + 1, Len(toBroker[w]))]
          /\ toWorker' = [w \in Workers |-> First(toWorker[w], kept[w])]
    /\ front' \in SUBSET front
    /\ answers' \in SUBSET answers
    /\ UNCHANGED <<client, refusals>>

-----------------------------------------------------------------------------
(* A worker.                                                               *)

\* What worker w, in state s, has sent when it sends the messages m as well.
SentBy(w, s, m) == IF s.linked THEN toBroker[w] \o m ELSE toBroker[w]

Beat(s) == IF s.due THEN <<HEARTBEAT>> ELSE <<>>

\* The end of a pass of ppworker::run with the new locals s: the worker sends m
\* and, if it is due, its heartbeat, and polls again.
EndOfPass(w, s, m) ==
    /\ worker' = [worker EXCEPT ![w] = [s EXCEPT !.waited = FALSE, !.due = FALSE]]
    /\ toBroker' = [toBroker EXCEPT ![w] = SentBy(w, s, m \o Beat(s))]
    /\ Len(SentBy(w, s, m \o Beat(s))) <= HWM

\* A message came: the interval and the liveness start anew, and a request (more
\* than one part) is sent back as it is.
WorkerReceive(w) ==
    /\ worker[w].phase = "poll"
    /\ toWorker[w] # <<>>
    /\ EndOfPass(w, [worker[w] EXCEPT !.interval = 1, !.liveness = Liveness],
                 IF Head(toWorker[w]) = HEARTBEAT THEN <<>> ELSE <<Head(toWorker[w])>>)
    /\ toWorker' = [toWorker EXCEPT ![w] = Tail(@)]
    /\ UNCHANGED <<queue, broker, client, front, answers, faults, refusals>>

\* The poll ran out with liveness to spare.
PollTimeout(w) ==
    /\ worker[w].phase = "poll" /\ worker[w].waited
    /\ worker[w].liveness > 1
    /\ EndOfPass(w, [worker[w] EXCEPT !.liveness = @ - 1], <<>>)
    /\ UNCHANGED <<queue, broker, toWorker, client, front, answers, faults, refusals>>

\* The poll ran out once too often: the worker sleeps, its socket open.
GiveUp(w) ==
    /\ worker[w].phase = "poll" /\ worker[w].waited
    /\ worker[w].liveness = 1
    /\ worker' = [worker EXCEPT
                     ![w] = [@ EXCEPT !.phase = "asleep", !.sleep = worker[w].interval]]
    /\ UNCHANGED <<queue, broker, toBroker, toWorker, client, front, answers, faults, refusals>>

\* Mutant: the new socket does not announce itself.
ConnectSilently(w, s, kept) ==
    /\ toWorker' = [toWorker EXCEPT ![w] = <<>>]
    /\ worker' = [worker EXCEPT ![w] = [s EXCEPT !.waited = FALSE, !.due = FALSE]]
    /\ toBroker' = [toBroker EXCEPT ![w] = kept]

\* init_socket, and the heartbeat at the end of the pass: the new socket sends
\* READY.  Of what the old one had sent, kept is what has left it.
init_socket(w, s, kept) ==
    LET sent == IF s.linked THEN kept \o <<READY>> \o Beat(s) ELSE kept
    IN  /\ toWorker' = [toWorker EXCEPT ![w] = <<>>]
        /\ worker' = [worker EXCEPT ![w] = [s EXCEPT !.waited = FALSE, !.due = FALSE]]
        /\ toBroker' = [toBroker EXCEPT ![w] = sent]
        /\ Len(sent) <= HWM

WorkerStart(w) ==
    /\ worker[w].phase = "down"
    /\ init_socket(w, [StoppedWorker EXCEPT !.phase = "poll", !.linked = TRUE], toBroker[w])
    /\ UNCHANGED <<queue, broker, client, front, answers, faults, refusals>>

\* Mutant: the interval grows without a limit.
BackOffForEver(interval) == 2 * interval

BackOff(interval) == IF interval < IntervalMax THEN 2 * interval ELSE interval

\* The end of the sleep.  A new socket is connected before the old one is closed,
\* under the same identity: a ROUTER that still has the old connection refuses
\* the new one, which then leads nowhere.
Reconnect(w) ==
    /\ worker[w].phase = "asleep" /\ worker[w].sleep = 0
    /\ \E linked \in BOOLEAN, k \in 0 .. Len(toBroker[w]) :
          /\ ~ linked => /\ broker.up /\ worker[w].linked
                         /\ refusals < MaxRefusals
          /\ ~ broker.up => k = 0
          /\ init_socket(w, [worker[w] EXCEPT
                                !.phase = "poll", !.liveness = Liveness, !.linked = linked,
                                !.interval = BackOff(@)],
                         First(toBroker[w], k))
          /\ refusals' = IF linked THEN refusals ELSE refusals + 1
    /\ UNCHANGED <<queue, broker, client, front, answers, faults>>

\* The process of a worker ends.
WorkerStop(w) ==
    /\ worker[w].phase # "down"
    /\ faults < MaxFaults
    /\ faults' = faults + 1
    /\ worker' = [worker EXCEPT ![w] = StoppedWorker]
    /\ toWorker' = [toWorker EXCEPT ![w] = <<>>]
    /\ \E k \in 0 .. Len(toBroker[w]) :
          /\ ~ broker.up => k = 0
          /\ toBroker' = [toBroker EXCEPT ![w] = First(@, k)]
    /\ UNCHANGED <<queue, broker, client, front, answers, refusals>>

-----------------------------------------------------------------------------
(* A client.  The first request of a call has a sequence number and a body;*)
(* one that is sent again (try > 0) has the number only.                   *)

Own(S, c) == {r \in S : r.client = c}

Current(c, retries) ==
    [client |-> c, seq |-> client[c].seq, try |-> Retries - retries]

ClientSend(c) ==
    /\ client[c].phase = "ready" /\ client[c].seq < Calls
    /\ client' = [client EXCEPT ![c].phase = "waiting", ![c].seq = @ + 1]
    /\ front' = front \cup {[client |-> c, seq |-> client[c].seq + 1,
                             try |-> Retries - client[c].retries]}
    /\ UNCHANGED <<queue, broker, worker, toBroker, toWorker, answers, faults, refusals>>

\* An answer: without a second frame get(1) throws, which ends the client; with
\* another number it is logged and the client polls again.
ClientRead(c) ==
    /\ client[c].phase = "waiting"
    /\ \E r \in Own(answers, c) :
          /\ answers' = answers \ (IF r.try > 0 THEN Own(answers, c) ELSE {r})
          /\ client' = [client EXCEPT ![c] =
                IF r.try > 0 THEN [@ EXCEPT !.phase = "failed"]
                ELSE IF r.seq = @.seq
                THEN [@ EXCEPT !.phase = "ready", !.retries = Retries]
                ELSE @]
    /\ UNCHANGED <<queue, broker, worker, toBroker, toWorker, front, faults, refusals>>

\* Mutant: the request is sent again on the old socket.
TimeoutKeepsSocket(c) ==
    /\ client[c].phase = "waiting"
    /\ client' = [client EXCEPT
          ![c].retries = @ - 1,
          ![c].phase = IF client[c].retries = 1 THEN "abandoned" ELSE @]
    /\ front' = front \cup
           IF client[c].retries = 1 THEN {} ELSE {Current(c, client[c].retries - 1)}
    /\ UNCHANGED <<queue, broker, worker, toBroker, toWorker, answers, faults, refusals>>

\* The poll ran out.  A new socket sends the request again, or the client gives
\* up; what the old socket had not sent is lost, what comes for it is dropped.
ClientTimeout(c) ==
    /\ client[c].phase = "waiting"
    /\ client' = [client EXCEPT
          ![c].retries = @ - 1,
          ![c].phase = IF client[c].retries = 1 THEN "abandoned" ELSE @]
    /\ answers' = answers \ Own(answers, c)
    /\ \E kept \in SUBSET Own(front, c) :
          front' = (front \ Own(front, c)) \cup kept \cup
                   IF client[c].retries = 1 THEN {} ELSE {Current(c, client[c].retries - 1)}
    /\ UNCHANGED <<queue, broker, worker, toBroker, toWorker, faults, refusals>>

-----------------------------------------------------------------------------
(* Time.                                                                   *)

\* Everybody is blocked in a poll with nothing to read, or asleep.
Quiet ==
    /\ broker.up => /\ broker.waited = 0
                    /\ \A w \in Workers : toBroker[w] = <<>>
                    /\ queue.ids = <<>> \/ front = {}
    /\ \A w \in Workers :
          CASE worker[w].phase = "poll"   -> toWorker[w] = <<>> /\ ~ worker[w].waited
            [] worker[w].phase = "asleep" -> worker[w].sleep > 0
            [] OTHER                      -> TRUE

\* An interval passes.  It is long compared with handling what has come, except
\* for as many delays as the bound allows.
Tick ==
    /\ Quiet \/ faults < MaxFaults
    /\ faults' = IF Quiet THEN faults ELSE faults + 1
    /\ queue' = [queue EXCEPT !.age = [w \in Workers |->
                    IF Queued(queue, w) THEN queue.age[w] + 1 ELSE 0]]
    /\ broker' = IF broker.up THEN [broker EXCEPT !.due = TRUE, !.waited = @ + 1] ELSE broker
    /\ worker' = [w \in Workers |->
          CASE worker[w].phase = "poll" ->
                 [worker[w] EXCEPT !.due = TRUE, !.waited = @ \/ toWorker[w] = <<>>]
            [] worker[w].phase = "asleep" ->
                 [worker[w] EXCEPT !.due = TRUE, !.sleep = IF @ > 0 THEN @ - 1 ELSE 0]
            [] OTHER -> worker[w]]
    /\ UNCHANGED <<toBroker, toWorker, client, front, answers, refusals>>

-----------------------------------------------------------------------------

WorkerStep(w) == WorkerReceive(w) \/ PollTimeout(w) \/ GiveUp(w) \/ Reconnect(w)

Next ==
    \/ \E b \in Workers \cup {NoWorker}, r \in front \cup {NoRequest} : BrokerPass(b, r)
    \/ BrokerStart
    \/ BrokerStop
    \/ \E w \in Workers : WorkerStep(w) \/ WorkerStart(w) \/ WorkerStop(w)
    \/ \E c \in Clients : ClientSend(c) \/ ClientRead(c) \/ ClientTimeout(c)
    \/ Tick

Spec == Init /\ [][Next]_vars

\* Threads that can run do run, the broker's poll is fair to its connections, it
\* is started again after it ended, and time passes.
Fairness ==
    /\ \A b \in Workers : WF_vars(\E r \in front \cup {NoRequest} : BrokerPass(b, r))
    /\ WF_vars(\E b \in Workers \cup {NoWorker} : \E r \in front : BrokerPass(b, r))
    /\ WF_vars(BrokerPass(NoWorker, NoRequest))
    /\ WF_vars(BrokerStart)
    /\ \A w \in Workers : WF_vars(WorkerStep(w))
    /\ WF_vars(Tick)

FairSpec == Spec /\ Fairness

-----------------------------------------------------------------------------
(* Properties.                                                             *)

\* An identity is queued once, although READY, a late answer and the answer to
\* a request of an earlier socket each put it there (worker_queue::push).
QueuedOnce == NoRepeats(queue.ids)

\* A worker that is given a request was heard at most Liveness intervals before
\* the poll that brought the request began: the purge is at the end of a pass
\* (ppbroker.cpp:123) and the pop after the poll (ppbroker.cpp:104).
FreshWhenPopped ==
    \A w \in Workers : Queued(queue, w) => queue.age[w] <= Liveness + broker.waited

\* A client reads nothing but answers to what it last sent, and so ends with an
\* exception only when it reads the answer to a retry (lpclient.cpp:74).
FailsOnlyAfterRetry ==
    /\ \A c \in Clients : client[c].phase = "failed" => client[c].retries < Retries
    /\ \A r \in answers : r = Current(r.client, client[r.client].retries)

\* When faults and delays have ended, every worker that runs is in the queue and
\* stays there: whichever side forgot the other, the worker's liveness, its
\* reconnection and READY bring it back, and the heartbeats of both sides keep it.
WorkersStayQueued ==
    \A w \in Workers : <>[](worker[w].phase = "down" \/ Queued(queue, w))

=============================================================================
