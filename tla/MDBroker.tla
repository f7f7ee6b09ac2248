------------------------------ MODULE MDBroker ------------------------------
(***************************************************************************)
(* The Majordomo broker: broker/mdbroker.cpp, one object driven by one     *)
(* zmqpp::loop, so that each message handler and the timer handler run to  *)
(* their end without interruption.                                         *)
(*                                                                         *)
(* The object is the record held by the variable broker.  Each method is an*)
(* operator from such a record (and its arguments) to the record it leaves;*)
(* what a method hands to socket_->send is a second operator, named        *)
(* ...Sends, which module Majordomo puts into the pipes.  Here the clients *)
(* and the workers are the open environment: any client request, any       *)
(* worker command from any identity, in any order.                         *)
(*                                                                         *)
(* Time is counted in heartbeat intervals.  expiry_ becomes age, the       *)
(* intervals since update_expiry, and "now > expiry_" is age > Liveness.   *)
(***************************************************************************)
EXTENDS Naturals, Sequences, StdErase

CONSTANTS
    WorkerIds,     \* routing identities worker sockets use
    Names,         \* service names, the empty one included
    NoName,        \* the empty service name of a worker record just created
    MmiService,    \* "mmi.service"
    MmiLike,       \* names whose first character is one of "mmi."
    MmiLikeIds,    \* identities whose first character is one of "mmi."
    Requests,      \* client requests: return address and body
    NoRequest,     \* the empty body of the other messages to workers
    NoFrame,       \* a frame that a message ends before
    Liveness,      \* HEARTBEAT_LIVENESS: intervals a silent worker survives
    MaxRequests    \* bound of the model: requests queued for one service

ASSUME NamesAssumption ==
    /\ NoName \in Names
    /\ MmiService \in MmiLike
    /\ MmiLike \subseteq Names
ASSUME LivenessAssumption == Liveness \in Nat \ {0}
ASSUME MaxRequestsAssumption == MaxRequests \in Nat \ {0}

VARIABLE broker

\* The commands of a worker message (mdp.h); OTHER is any byte that is none.
Commands == {"READY", "REPLY", "HEARTBEAT", "DISCONNECT", "OTHER"}

ASSUME FrameAssumption == NoFrame \notin Names \cup Requests \cup Commands

Ages == 0 .. Liveness + 1

\* The members of mdbroker.  workers_ and services_ are maps: workers and
\* services are their keys, the other fields what they map a key to.  The last
\* two say what has ended the loop: down, a lookup of an identity that is not a
\* key of workers_ (an Ensures failed or workers_.at() threw); short, a message
\* that ends before a frame its handler reads (msg.get throws, or the Ensures of
\* client_process fails).
BrokerState ==
    [workers       : SUBSET WorkerIds,
     service_name  : [WorkerIds -> Names],
     age           : [WorkerIds -> Ages],
     services      : SUBSET Names,
     waiting       : [Names -> Seq(WorkerIds)],
     requests      : [Names -> Seq(Requests)],
     heartbeat_due : BOOLEAN,
     down          : BOOLEAN,
     short         : BOOLEAN]

EmptyBroker ==
    [workers       |-> {},
     service_name  |-> [w \in WorkerIds |-> NoName],
     age           |-> [w \in WorkerIds |-> 0],
     services      |-> {},
     waiting       |-> [n \in Names |-> <<>>],
     requests      |-> [n \in Names |-> <<>>],
     heartbeat_due |-> FALSE,
     down          |-> FALSE,
     short         |-> FALSE]

-----------------------------------------------------------------------------
(***************************************************************************)
(* The methods.                                                            *)
(***************************************************************************)

\* now > expiry_
Expired(b, id) == b.age[id] > Liveness

update_expiry(b, id) == [b EXCEPT !.age[id] = 0]

\* The record of id, created with an empty service name when there is none.
worker_require(b, id) ==
    IF id \in b.workers THEN b
    ELSE [b EXCEPT !.workers = @ \cup {id},
                   !.service_name[id] = NoName,
                   !.age[id] = 0]

service_require(b, n) == [b EXCEPT !.services = @ \cup {n}]

\* Mutant: the waiting lists are forgotten.
DeleteOnlyRecord(b, D) ==
    [b EXCEPT !.workers = @ \ D,
              !.service_name = [w \in WorkerIds |-> IF w \in D THEN NoName ELSE @[w]],
              !.age = [w \in WorkerIds |-> IF w \in D THEN 0 ELSE @[w]]]

\* worker_delete for every identity of D: out of the waiting list of every
\* service, then out of workers_.  (A record that is gone reads as a fresh one,
\* so that equal maps are equal states.)
worker_delete(b, D) ==
    [b EXCEPT !.workers = @ \ D,
              !.service_name = [w \in WorkerIds |-> IF w \in D THEN NoName ELSE @[w]],
              !.age = [w \in WorkerIds |-> IF w \in D THEN 0 ELSE @[w]],
              !.waiting = [n \in Names |-> Erase(@[n], D)]]

purge_workers(b) == worker_delete(b, {w \in b.workers : Expired(b, w)})

Rest(s, k) == SubSeq(s, k + 1, Len(s))

\* Mutant: the last idle worker is kept back.
ServingSpare(b, n) == Len(b.waiting[n]) > 1 /\ b.requests[n] # <<>>

\* The dispatch of service n has something to match.
Serving(b, n) == b.waiting[n] # <<>> /\ b.requests[n] # <<>>

\* Mutants: nobody is purged first, the last worker is taken, the last request is
\* taken, the request or the worker stays listed.
DispatchWithoutPurge(b, n) ==
    IF Serving(b, n) THEN [b EXCEPT !.requests[n] = Tail(@), !.waiting[n] = EraseFirst(@)] ELSE b
DispatchToLast(b, n) ==
    LET p == purge_workers(b)
    IN  IF Serving(p, n)
        THEN [p EXCEPT !.requests[n] = Tail(@), !.waiting[n] = SubSeq(@, 1, Len(@) - 1)] ELSE p
DispatchLastRequest(b, n) ==
    LET p == purge_workers(b)
    IN  IF Serving(p, n)
        THEN [p EXCEPT !.requests[n] = SubSeq(@, 1, Len(@) - 1), !.waiting[n] = EraseFirst(@)] ELSE p
DispatchKeepsRequest(b, n) ==
    LET p == purge_workers(b)
    IN  IF Serving(p, n) THEN [p EXCEPT !.waiting[n] = EraseFirst(@)] ELSE p
DispatchKeepsWorker(b, n) ==
    LET p == purge_workers(b)
    IN  IF Serving(p, n) THEN [p EXCEPT !.requests[n] = Tail(@)] ELSE p

\* service_dispatch after push_request.  A pass of its loop looks the waiting
\* workers up in workers_ (the comparator does, and worker_send asserts that the
\* chosen one is there) and gives the first request to the first worker:
\* min_element compares expiry_ of its first argument with itself, which never
\* says "less".  delete_waiting_worker is given a reference to that very element.
\* There is one pass at most: one list was empty before the handler added to one
\* of them (NeverBothWaitingAndQueued), so that the pass empties a list.
service_dispatch(b, n) ==
    LET p == purge_workers(b)
    IN  IF ~ Serving(p, n) THEN p
        ELSE IF ~ (Elements(p.waiting[n]) \subseteq p.workers) THEN [p EXCEPT !.down = TRUE]
        ELSE [p EXCEPT !.requests[n] = Tail(@), !.waiting[n] = EraseFirst(@)]

\* worker_waiting up to its call of service_dispatch: the worker is refreshed
\* and last of the waiting list of its service.
Idle(b, id) ==
    LET n == b.service_name[id]
    IN  [service_require(update_expiry(b, id), n) EXCEPT !.waiting[n] = Append(@, id)]

\* Mutant: a worker that becomes idle finds no request.
WaitWithoutDispatch(b, id) == Idle(b, id)

worker_waiting(b, id) == service_dispatch(Idle(b, id), b.service_name[id])

\* The record of identity id after a READY for service n, before it waits.
Named(b, id, n) == [worker_require(b, id) EXCEPT !.service_name[id] = n]

\* Mutant: a second READY is accepted.
AcceptReadyAgain(b, id, cmd) ==
    \/ cmd \in {"HEARTBEAT", "REPLY"} /\ id \notin b.workers
    \/ cmd = "READY" /\ id \in MmiLikeIds

\* A command that does not fit what the broker knows of its sender.
NotValid(b, id, cmd) ==
    \/ cmd \in {"HEARTBEAT", "REPLY"} /\ id \notin b.workers
    \/ cmd = "READY" /\ (id \in b.workers \/ id \in MmiLikeIds)

\* A message ended before a frame that is read: the loop ends.
CutShort(b) == [b EXCEPT !.short = TRUE]

\* One command of the identity id; n is the frame after it that the handler reads,
\* the service name of a READY, the client's address of a REPLY.  A message may
\* end before its command (or before the header that cbsock reads) or before n.
worker_process(b, id, cmd, n) ==
    LET r == worker_require(b, id)
    IN  IF cmd = NoFrame THEN CutShort(b)
        ELSE IF NotValid(b, id, cmd) THEN worker_delete(r, {id})
        ELSE IF cmd \in {"REPLY", "READY"} /\ n = NoFrame THEN CutShort(r)
        ELSE CASE cmd = "HEARTBEAT"  -> update_expiry(r, id)
               [] cmd = "REPLY"      -> worker_waiting(r, id)
               [] cmd = "READY"      -> worker_waiting(Named(b, id, n), id)
               [] cmd = "DISCONNECT" -> worker_delete(r, {id})
               [] OTHER              -> r

\* Mutants: the name is queued in place of the message; the service is not created.
QueuedName(b, n, req) == [service_require(b, n) EXCEPT !.requests[n] = Append(@, n)]
QueuedNowhere(b, n, req) == [b EXCEPT !.requests[n] = Append(@, req)]

\* client_process up to its call of service_dispatch.
Queued(b, n, req) == [service_require(b, n) EXCEPT !.requests[n] = Append(@, req)]

\* A request for service n; req is its body, which Ensures(msg.parts() >= 2) asks
\* for.  A name that begins like "mmi." is answered by the broker itself, every
\* other request is queued for its service.  Either way the service now exists.
client_process(b, n, req) ==
    IF req = NoFrame THEN CutShort(b)
    ELSE IF n \in MmiLike THEN service_require(b, n)
    ELSE service_dispatch(Queued(b, n, req), n)

\* worker_send asserts that the identity it is given is a key of workers_.
worker_send_heartbeat(b) ==
    [b EXCEPT !.down = \E n \in b.services : ~ (Elements(b.waiting[n]) \subseteq b.workers)]

\* The callback of the loop's timer, when "now > heartbeat_at".
timer(b) == [worker_send_heartbeat(purge_workers(b)) EXCEPT !.heartbeat_due = FALSE]

-----------------------------------------------------------------------------
(***************************************************************************)
(* What the methods send, as sets of messages to one identity each.        *)
(***************************************************************************)

ToWorker(id, cmd, body) == [to |-> id, cmd |-> cmd, body |-> body]

DispatchSends(b, n) ==
    LET p == purge_workers(b)
    IN  IF Serving(p, n) THEN {ToWorker(Head(p.waiting[n]), "REQUEST", Head(p.requests[n]))}
                         ELSE {}

WorkerProcessSends(b, id, cmd, n) ==
    IF cmd = NoFrame THEN {}
    ELSE IF NotValid(b, id, cmd) THEN {ToWorker(id, "DISCONNECT", NoRequest)}
    ELSE IF n = NoFrame THEN {}
    ELSE IF cmd = "REPLY" THEN DispatchSends(Idle(b, id), b.service_name[id])
    ELSE IF cmd = "READY" THEN DispatchSends(Idle(Named(b, id, n), id), n)
    ELSE {}

ClientProcessSends(b, n, req) ==
    IF req = NoFrame \/ n \in MmiLike THEN {} ELSE DispatchSends(Queued(b, n, req), n)

TimerSends(b) ==
    LET p == purge_workers(b)
    IN  {ToWorker(id, "HEARTBEAT", NoRequest) : id \in UNION {Elements(p.waiting[n]) : n \in p.services}}

\* service_internal: the status code the broker answers for a request to the
\* name n, where body is the name an mmi.service request asks about.
service_internal(b, n, body) ==
    IF n # MmiService THEN "501"
    ELSE IF body \in b.services THEN "200" ELSE "404"

-----------------------------------------------------------------------------
(***************************************************************************)
(* The open system.                                                        *)
(***************************************************************************)

Init == broker = EmptyBroker

Waiting(b, id) == \E n \in Names : id \in Elements(b.waiting[n])

\* The assumption made on workers: an identity does not answer while the broker
\* holds it for idle.  Module Majordomo says when mdwrkapi keeps it.
MaySend(id, cmd) == cmd = "REPLY" => ~ Waiting(broker, id)

WorkerMessage ==
    \E id \in WorkerIds, cmd \in Commands \cup {NoFrame}, n \in Names \cup {NoFrame} :
        /\ MaySend(id, cmd)
        /\ broker' = worker_process(broker, id, cmd, n)

ClientMessage ==
    \E n \in Names, req \in Requests \cup {NoFrame} :
        /\ Len(broker.requests[n]) < MaxRequests
        /\ broker' = client_process(broker, n, req)

Timer == broker.heartbeat_due /\ broker' = timer(broker)

\* One interval passes.
Tick ==
    broker' = [broker EXCEPT
        !.age = [w \in WorkerIds |->
                    IF w \in broker.workers /\ @[w] <= Liveness THEN @[w] + 1 ELSE @[w]],
        !.heartbeat_due = TRUE]

\* The process dies and is started again: nothing is persisted.
Restart == broker' = EmptyBroker

Next ==
    \/ Restart
    \/ ~ broker.down /\ ~ broker.short /\ (Tick \/ Timer \/ ClientMessage \/ WorkerMessage)

Spec == Init /\ [][Next]_broker

-----------------------------------------------------------------------------
(***************************************************************************)
(* Properties.                                                             *)
(***************************************************************************)

\* The members of the object keep their types and bounds.
TypeOK == broker \in BrokerState

\* A waiting identity is a key of workers_, registered for that very service.
\* The waiting lists are a second index of the workers that worker_delete has to
\* keep in step; worker_send and the comparator of the dispatch rely on it.
RegisteredWaiting ==
    \A n \in Names : \A id \in Elements(broker.waiting[n]) :
        id \in broker.workers /\ broker.service_name[id] = n

\* No identity waits twice.  A second entry would hand one worker two requests,
\* and delete_waiting_worker, given a reference into the very list it erases
\* from, is only right when the value occurs once.
NoDuplicateWaiting == \A n \in Names : NoRepeats(broker.waiting[n])

\* A request never lies in a queue while a worker of its service is idle: every
\* path that adds to one of the two lists dispatches.
NeverBothWaitingAndQueued ==
    \A n \in Names : broker.waiting[n] = <<>> \/ broker.requests[n] = <<>>

\* Everything queued or waiting is reachable from services_, the map over which
\* the heartbeats and worker_delete iterate.
QueuesAreServices ==
    \A n \in Names \ broker.services : broker.waiting[n] = <<>> /\ broker.requests[n] = <<>>

\* No handler looks up an identity that is not a key of workers_: the Ensures of
\* worker_delete and worker_send hold, and workers_.at() does not throw, whatever
\* messages come, whole or short, and whoever expires between two of them.  What
\* does end the broker is a message short of a frame; there is no other way.
LookupsSucceed == ~ broker.down

\* The identities that a step takes from the waiting list of n for a request:
\* they wait no more and are still registered.
Dispatched(n) ==
    {id \in Elements(broker.waiting[n]) \cap broker'.workers :
        id \notin Elements(broker'.waiting[n])}

\* Idle workers form a queue, whatever expires, disconnects or answers in
\* between: who becomes idle goes to its end, and a request goes to the worker
\* that has been idle longest.
LongestIdleFirst ==
    [][\A n \in Names : LET q == broker.waiting[n]  r == broker'.waiting[n] IN
          /\ \A i, j \in 1 .. Len(q) :
                i < j /\ q[j] \in Dispatched(n) => q[i] \notin Elements(r)
          /\ \A k \in 1 .. Len(r) : r[k] \notin Elements(q) => k = Len(r)]_broker

\* No request is handed to a worker whose expiry has passed, although workers
\* expire without any event: the purge comes before the choice.
DispatchOnlyToLive ==
    [][\A n \in Names : \A id \in Dispatched(n) : ~ Expired(broker, id)]_broker

\* While the broker lives, a service's queue is only ever extended at its end or
\* shortened at its front by one request: none is lost, overtaken or doubled.
FifoRequests ==
    [][\A n \in Names : LET q == broker.requests[n]  r == broker'.requests[n] IN
          \/ r = q
          \/ q # <<>> /\ r = Rest(q, 1)
          \/ Len(r) = Len(q) + 1 /\ SubSeq(r, 1, Len(q)) = q
          \/ broker' = EmptyBroker]_broker

-----------------------------------------------------------------------------
(***************************************************************************)
(* What a comment of the code says, and the code does not do.              *)
(***************************************************************************)

\* "Choose the most recently seen idle worker; others might be about to expire"
\* (mdbroker.cpp:309), of the workers the dispatch had to choose from.
MostRecentlySeenFirst ==
    [][\A n \in Names : \A id \in Dispatched(n) :
          \A other \in Elements(broker'.waiting[n]) \cap Elements(broker.waiting[n]) :
             broker.age[id] <= broker.age[other]]_broker

=============================================================================
