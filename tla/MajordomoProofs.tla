-------------------------- MODULE MajordomoProofs ---------------------------
(***************************************************************************)
(* The whole Majordomo system: proofs for every set of workers,            *)
(* identities, clients and names, every bound, and whatever identities the *)
(* workers draw.                                                           *)
(*                                                                         *)
(* First turns. An identity is idle in the broker, or a request is on its  *)
(* way to it, at it, or on its way back, or it announces itself: at most   *)
(* one of these holds at a time. The invariant Turns counts them; it is    *)
(* what makes a worker's REPLY one the broker waits for (MaySend), and     *)
(* leaves one request for each identity. It lasts until an identity is     *)
(* drawn that was not free (clash): an entry of its old holder may then be *)
(* given a request before the READY of the new one is read.                *)
(*                                                                         *)
(* Then custody. The current call of a client is at one place at most,     *)
(* from its outgoing pipe over the broker's queue, the pipes to a worker,  *)
(* the worker, the pipes back and the client's incoming pipe; and what the *)
(* client can read answers the call it has made. Keep says this of one     *)
(* client; there is a lemma for what each of the broker's handlers does to *)
(* the places it touches. None of it needs turns.                          *)
(*                                                                         *)
(* Last the refinement: every step of the system is a step of MDBroker, or *)
(* a late reply after a clash, or leaves the broker alone.                 *)
(***************************************************************************)
EXTENDS Majordomo, QueueTheorems, FiniteSetTheorems

P == INSTANCE MDBrokerProofs WITH NoFrame <- NoRequest

\* The broker of the proofs is the broker of the model.
LEMMA SameBroker ==
  /\ B!EmptyBroker = P!EmptyBroker
  /\ B!Timer <=> P!Timer
  /\ B!Tick <=> P!Tick
  /\ \A b : B!timer(b) = P!timer(b) /\ B!TimerSends(b) = P!TimerSends(b)
  /\ \A b, i, cmd : B!NotValid(b, i, cmd) <=> P!NotValid(b, i, cmd)
  /\ \A b, i : B!Waiting(b, i) <=> P!Waiting(b, i)
  /\ \A b, i, cmd, n :
        /\ B!worker_process(b, i, cmd, n) = P!worker_process(b, i, cmd, n)
        /\ B!WorkerProcessSends(b, i, cmd, n) = P!WorkerProcessSends(b, i, cmd, n)
  /\ \A b, n, req :
        /\ B!client_process(b, n, req) = P!client_process(b, n, req)
        /\ B!ClientProcessSends(b, n, req) = P!ClientProcessSends(b, n, req)
<1>1. \A s, D : B!Erase(s, D) = P!Erase(s, D)
  BY Zenon DEF B!Erase, P!Erase
<1>2. \A s : B!Elements(s) = P!Elements(s)
  BY Zenon DEF B!Elements, P!Elements
<1>3. \A b, D : B!worker_delete(b, D) = P!worker_delete(b, D)
  BY <1>1, Zenon DEF B!worker_delete, P!worker_delete
<1>4. \A b, i : B!Expired(b, i) <=> P!Expired(b, i)
  BY Zenon DEF B!Expired, P!Expired
<1>5. \A b : B!purge_workers(b) = P!purge_workers(b)
  <2> TAKE b
  <2>1. {w \in b.workers : B!Expired(b, w)} = {w \in b.workers : P!Expired(b, w)}
    BY <1>4
  <2> QED BY <1>3, <2>1, Zenon DEF B!purge_workers, P!purge_workers
<1>6. \A b, n : B!Serving(b, n) <=> P!Serving(b, n)
  BY Zenon DEF B!Serving, P!Serving
<1>7. \A x : B!EraseFirst(x) = P!EraseFirst(x) /\ B!CutShort(x) = P!CutShort(x)
  <2> TAKE x
  <2> DEFINE others == {k \in 1 .. Len(x) : x[k] # x[1]}
             k == CHOOSE k \in others : \A j \in others : k <= j
  <2>1. B!Erase(SubSeq(x, k + 1, Len(x)), {x[k]}) = P!Erase(SubSeq(x, k + 1, Len(x)), {x[k]})
    BY <1>1, Zenon
  <2>2. B!EraseFirst(x) = IF others = {} THEN <<>>
                          ELSE <<x[k]>> \o B!Erase(SubSeq(x, k + 1, Len(x)), {x[k]})
    BY Zenon DEF B!EraseFirst
  <2>3. P!EraseFirst(x) = IF others = {} THEN <<>>
                          ELSE <<x[k]>> \o P!Erase(SubSeq(x, k + 1, Len(x)), {x[k]})
    BY Zenon DEF P!EraseFirst
  <2>4. B!CutShort(x) = P!CutShort(x)
    BY Zenon DEF B!CutShort, P!CutShort
  <2> HIDE DEF others, k
  <2> QED BY <2>1, <2>2, <2>3, <2>4, Zenon
<1>8. \A b, n : B!service_dispatch(b, n) = P!service_dispatch(b, n)
  <2> TAKE b, n
  <2> DEFINE p == P!purge_workers(b)
             down == [p EXCEPT !.down = TRUE]
             left == [p EXCEPT !.requests[n] = Tail(@), !.waiting[n] = P!EraseFirst(@)]
             Does(idle, after) == IF ~ P!Serving(p, n) THEN p
                                  ELSE IF ~ (idle \subseteq p.workers) THEN down ELSE after
  <2>1. P!service_dispatch(b, n) = Does(P!Elements(p.waiting[n]), left)
    BY Zenon DEF P!service_dispatch
  <2>2. [p EXCEPT !.requests[n] = Tail(@), !.waiting[n] = B!EraseFirst(@)] = left
    BY <1>7, Zenon
  <2>3. B!service_dispatch(b, n)
          = Does(B!Elements(p.waiting[n]),
                 [p EXCEPT !.requests[n] = Tail(@), !.waiting[n] = B!EraseFirst(@)])
    BY <1>5, <1>6, Zenon DEF B!service_dispatch
  <2>4. B!Elements(p.waiting[n]) = P!Elements(p.waiting[n])
    BY <1>2, Zenon
  <2> HIDE DEF p, down, left, Does
  <2> QED BY <2>1, <2>2, <2>3, <2>4, Zenon
<1>9. \A i, cmd, body : B!ToWorker(i, cmd, body) = P!ToWorker(i, cmd, body)
  BY Zenon DEF B!ToWorker, P!ToWorker
<1>10. \A b, n : B!DispatchSends(b, n) = P!DispatchSends(b, n)
  BY <1>5, <1>6, <1>9, Zenon DEF B!DispatchSends, P!DispatchSends
<1>11. \A b, i : B!update_expiry(b, i) = P!update_expiry(b, i)
  BY Zenon DEF B!update_expiry, P!update_expiry
<1>12. \A b, n : B!service_require(b, n) = P!service_require(b, n)
  BY Zenon DEF B!service_require, P!service_require
<1>13. \A b, i : B!Idle(b, i) = P!Idle(b, i)
  BY <1>11, <1>12, Zenon DEF B!Idle, P!Idle
<1>14. \A b, i : B!worker_waiting(b, i) = P!worker_waiting(b, i)
  BY <1>8, <1>13, Zenon DEF B!worker_waiting, P!worker_waiting
<1>15. \A b, i : B!worker_require(b, i) = P!worker_require(b, i)
  BY Zenon DEF B!worker_require, P!worker_require
<1>16. \A b, i, n : B!Named(b, i, n) = P!Named(b, i, n)
  BY <1>15, Zenon DEF B!Named, P!Named
<1>17. \A b, i, cmd : B!NotValid(b, i, cmd) <=> P!NotValid(b, i, cmd)
  BY Zenon DEF B!NotValid, P!NotValid
<1>18. \A b, n, req : B!Queued(b, n, req) = P!Queued(b, n, req)
  BY <1>12, Zenon DEF B!Queued, P!Queued
<1>19. \A b : B!timer(b) = P!timer(b) /\ B!TimerSends(b) = P!TimerSends(b)
  <2>1. \A b : B!worker_send_heartbeat(b) = P!worker_send_heartbeat(b)
    BY <1>2, Zenon DEF B!worker_send_heartbeat, P!worker_send_heartbeat
  <2>2. \A b : B!timer(b) = P!timer(b)
    BY <1>5, <2>1, Zenon DEF B!timer, P!timer
  <2>3. \A b : B!TimerSends(b) = P!TimerSends(b)
    BY <1>2, <1>5, <1>9, Zenon DEF B!TimerSends, P!TimerSends
  <2> QED BY <2>2, <2>3
<1>20. B!EmptyBroker = P!EmptyBroker
  BY Zenon DEF B!EmptyBroker, P!EmptyBroker
<1>21. (B!Timer <=> P!Timer) /\ (B!Tick <=> P!Tick)
  BY <1>19, Zenon DEF B!Timer, P!Timer, B!Tick, P!Tick
<1>22. \A b, i : B!Waiting(b, i) <=> P!Waiting(b, i)
  BY <1>2, Zenon DEF B!Waiting, P!Waiting
<1>23. \A b, i, cmd, n : B!worker_process(b, i, cmd, n) = P!worker_process(b, i, cmd, n)
  <2> TAKE b, i, cmd, n
  <2>1. B!worker_require(b, i) = P!worker_require(b, i) /\ B!Named(b, i, n) = P!Named(b, i, n)
    BY <1>15, <1>16, Zenon
  <2>2. /\ B!worker_delete(P!worker_require(b, i), {i}) = P!worker_delete(P!worker_require(b, i), {i})
        /\ B!update_expiry(P!worker_require(b, i), i) = P!update_expiry(P!worker_require(b, i), i)
        /\ B!worker_waiting(P!worker_require(b, i), i) = P!worker_waiting(P!worker_require(b, i), i)
        /\ B!worker_waiting(P!Named(b, i, n), i) = P!worker_waiting(P!Named(b, i, n), i)
    BY <1>3, <1>11, <1>14, Zenon
  <2>3. B!NotValid(b, i, cmd) <=> P!NotValid(b, i, cmd)
    BY <1>17, Zenon
  <2>4. /\ B!CutShort(b) = P!CutShort(b)
        /\ B!CutShort(P!worker_require(b, i)) = P!CutShort(P!worker_require(b, i))
    BY <1>7, Zenon
  <2> DEFINE Does(short, require, delete, cut, expiry, idle, ready) ==
               IF cmd = NoRequest THEN short
               ELSE IF P!NotValid(b, i, cmd) THEN delete
               ELSE IF cmd \in {"REPLY", "READY"} /\ n = NoRequest THEN cut
               ELSE CASE cmd = "HEARTBEAT"  -> expiry
                      [] cmd = "REPLY"      -> idle
                      [] cmd = "READY"      -> ready
                      [] cmd = "DISCONNECT" -> delete
                      [] OTHER              -> require
  <2>5. B!worker_process(b, i, cmd, n)
          = Does(B!CutShort(b), B!worker_require(b, i), B!worker_delete(B!worker_require(b, i), {i}),
                 B!CutShort(B!worker_require(b, i)), B!update_expiry(B!worker_require(b, i), i),
                 B!worker_waiting(B!worker_require(b, i), i),
                 B!worker_waiting(B!Named(b, i, n), i))
    BY <2>3 DEF B!worker_process
  <2>6. P!worker_process(b, i, cmd, n)
          = Does(P!CutShort(b), P!worker_require(b, i), P!worker_delete(P!worker_require(b, i), {i}),
                 P!CutShort(P!worker_require(b, i)), P!update_expiry(P!worker_require(b, i), i),
                 P!worker_waiting(P!worker_require(b, i), i),
                 P!worker_waiting(P!Named(b, i, n), i))
    BY DEF P!worker_process
  <2> HIDE DEF Does
  <2> QED BY <2>1, <2>2, <2>4, <2>5, <2>6, Zenon
<1>24. \A b, i, cmd, n : B!WorkerProcessSends(b, i, cmd, n) = P!WorkerProcessSends(b, i, cmd, n)
  <2> TAKE b, i, cmd, n
  <2>1. /\ B!ToWorker(i, "DISCONNECT", NoRequest) = P!ToWorker(i, "DISCONNECT", NoRequest)
        /\ B!DispatchSends(B!Idle(b, i), b.service_name[i])
              = P!DispatchSends(P!Idle(b, i), b.service_name[i])
        /\ B!DispatchSends(B!Idle(B!Named(b, i, n), i), n)
              = P!DispatchSends(P!Idle(P!Named(b, i, n), i), n)
    BY <1>9, <1>10, <1>13, <1>16, Zenon
  <2>2. B!NotValid(b, i, cmd) <=> P!NotValid(b, i, cmd)
    BY <1>17, Zenon
  <2> DEFINE Says(not, reply, ready) ==
               IF cmd = NoRequest THEN {}
               ELSE IF P!NotValid(b, i, cmd) THEN {not}
               ELSE IF n = NoRequest THEN {}
               ELSE IF cmd = "REPLY" THEN reply
               ELSE IF cmd = "READY" THEN ready
               ELSE {}
  <2>3. B!WorkerProcessSends(b, i, cmd, n)
          = Says(B!ToWorker(i, "DISCONNECT", NoRequest),
                 B!DispatchSends(B!Idle(b, i), b.service_name[i]),
                 B!DispatchSends(B!Idle(B!Named(b, i, n), i), n))
    BY <2>2 DEF B!WorkerProcessSends
  <2>4. P!WorkerProcessSends(b, i, cmd, n)
          = Says(P!ToWorker(i, "DISCONNECT", NoRequest),
                 P!DispatchSends(P!Idle(b, i), b.service_name[i]),
                 P!DispatchSends(P!Idle(P!Named(b, i, n), i), n))
    BY DEF P!WorkerProcessSends
  <2> HIDE DEF Says
  <2> QED BY <2>1, <2>3, <2>4, Zenon
<1>25. \A b, n, req : /\ B!client_process(b, n, req) = P!client_process(b, n, req)
                      /\ B!ClientProcessSends(b, n, req) = P!ClientProcessSends(b, n, req)
  BY <1>7, <1>8, <1>10, <1>12, <1>18, Zenon
     DEF B!client_process, P!client_process, B!ClientProcessSends, P!ClientProcessSends
<1> QED BY <1>17, <1>19, <1>20, <1>21, <1>22, <1>23, <1>24, <1>25, Zenon

-----------------------------------------------------------------------------
(***************************************************************************)
(* Types.                                                                  *)
(***************************************************************************)

BrokerMsg == [cmd : {"READY"}, name : Names, request : {NoRequest}]
        \cup [cmd : {"REPLY"}, name : {NoName}, request : Requests]
        \cup [cmd : {"HEARTBEAT"}, name : {NoName}, request : {NoRequest}]
WorkerMsg == [cmd : {"REQUEST"}, request : Requests]
        \cup [cmd : {"HEARTBEAT", "DISCONNECT"}, request : {NoRequest}]
ClientMsg == [name : Names, request : Requests]
AnswerMsg == [code : {"reply", "200", "404", "501"}, seq : 0 .. Calls]

Up(pcs, requests) ==
    [pc : pcs, id : WorkerIds \cup {NoId}, drawn : WorkerIds, liveness : 1 .. Liveness,
     heartbeat_due : BOOLEAN, poll_due : BOOLEAN, request : requests]
WorkerState == {NoWorker} \cup Up({"recv"}, {NoRequest}) \cup Up({"work"}, Requests)

ClientState == [pc : {"ready"}, seq : 0 .. Calls + 1] \cup [pc : {"wait", "gone"}, seq : 0 .. Calls]

ToBroker == [WorkerIds -> Seq(BrokerMsg)]
ToWorker == [WorkerIds -> Seq(WorkerMsg)]
ClientOut == [Clients -> Seq(ClientMsg)]
ClientIn == [Clients -> Seq(AnswerMsg)]

TypeInv ==
    /\ worker \in [Workers -> WorkerState]
    /\ client \in [Clients -> ClientState]
    /\ toBroker \in ToBroker
    /\ toWorker \in ToWorker
    /\ clientOut \in ClientOut
    /\ clientIn \in ClientIn

\* The ROUTER knows no two sockets under the same identity.
Distinct == \A v, w \in Workers : worker[v].id = worker[w].id /\ worker[v].id # NoId => v = w

HEARTBEAT == FromWorker("HEARTBEAT", NoName, NoRequest)
READY(w) == FromWorker("READY", ServiceOf[w], NoRequest)

LEMMA Messages ==
  /\ HEARTBEAT \in BrokerMsg
  /\ \A w \in Workers : READY(w) \in BrokerMsg
  /\ \A r \in Requests : FromWorker("REPLY", NoName, r) \in BrokerMsg
BY NamesAssumption, WorkersAssumption DEF HEARTBEAT, READY, FromWorker, BrokerMsg

LEMMA WorkerFields ==
  ASSUME NEW s \in WorkerState
  PROVE  /\ s.pc \in {"down", "recv", "work"}
         /\ s.pc = "down" => s = NoWorker
         /\ s.pc = "recv" => s \in Up({"recv"}, {NoRequest})
         /\ s.pc = "work" => s \in Up({"work"}, Requests) /\ s.request \in Requests
         /\ s.pc # "work" => s.request = NoRequest
         /\ s.id \in WorkerIds \cup {NoId}
         /\ s.pc = "down" => s.id = NoId
         /\ s.drawn \in WorkerIds \cup {NoId}
         /\ s.pc = "down" => s.drawn = NoId
<1>1. /\ NoWorker.pc = "down" /\ NoWorker.request = NoRequest
      /\ NoWorker.id = NoId /\ NoWorker.drawn = NoId
  BY DEF NoWorker
<1>2. \A p, r : \A x \in Up(p, r) : /\ x.pc \in p /\ x.request \in r
                                   /\ x.id \in WorkerIds \cup {NoId} /\ x.drawn \in WorkerIds
  BY DEF Up
<1>3. CASE s = NoWorker
  BY <1>1, <1>3
<1>4. CASE s \in Up({"recv"}, {NoRequest})
  <2>1. /\ s.pc = "recv" /\ s.request = NoRequest
        /\ s.id \in WorkerIds \cup {NoId} /\ s.drawn \in WorkerIds
    BY <1>2, <1>4
  <2> QED BY <1>4, <2>1
<1>5. CASE s \in Up({"work"}, Requests)
  <2>1. /\ s.pc = "work" /\ s.request \in Requests
        /\ s.id \in WorkerIds \cup {NoId} /\ s.drawn \in WorkerIds
    BY <1>2, <1>5
  <2> QED BY <1>5, <2>1
<1> QED BY <1>3, <1>4, <1>5 DEF WorkerState

\* What the steps of a worker do, whatever led to them.  Its identity i is NoId
\* when the ROUTER ignores its socket; then it has no pipes.

\* A socket that the ROUTER knows as i replaces the old one.
Connects(w, i) ==
    /\ \A v \in Workers \ {w} : worker[v].id = i => i = NoId
    /\ \E s \in Up({"recv"}, {NoRequest}) : s.id = i /\ worker' = [worker EXCEPT ![w] = s]
    /\ toBroker' \in ToBroker /\ toWorker' \in ToWorker
    /\ i \in WorkerIds => toBroker'[i] = <<READY(w)>> /\ toWorker'[i] = <<>>
    /\ \A j \in WorkerIds \ {i} : Part(toBroker[j], toBroker'[j])
    /\ \A j \in WorkerIds : Part(toWorker[j], toWorker'[j])
    /\ ~ clash' => i \in WorkerIds \ broker.workers

\* A pass that reads at most a message that is no request, and sends at most a
\* heartbeat.
Passes(w) ==
    LET i == worker[w].id IN
    /\ worker[w].pc = "recv"
    /\ \E s \in Up({"recv"}, {NoRequest}) : s.id = i /\ worker' = [worker EXCEPT ![w] = s]
    /\ \/ toBroker' = toBroker
       \/ toBroker' = [toBroker EXCEPT ![i] = Append(@, HEARTBEAT)]
    /\ \E t : /\ i \in WorkerIds => t \in Seq(WorkerMsg) /\ Part(toWorker[i], t)
             /\ toWorker' = [toWorker EXCEPT ![i] = t]

\* The head of its pipe is the request it has now.
Takes(w) ==
    LET i == worker[w].id IN
    /\ worker[w].pc = "recv" /\ i \in WorkerIds
    /\ toWorker[i] # <<>> /\ Head(toWorker[i]).cmd = "REQUEST"
    /\ \E s \in Up({"work"}, Requests) :
          /\ s.id = i /\ s.request = Head(toWorker[i]).request
          /\ worker' = [worker EXCEPT ![w] = s]
    /\ toBroker' = toBroker
    /\ toWorker' = [toWorker EXCEPT ![i] = Tail(@)]

\* It sends the request it had back as a reply.
Replies(w) ==
    LET i == worker[w].id IN
    /\ worker[w].pc = "work" /\ worker[w].request \in Requests
    /\ \E s \in Up({"recv"}, {NoRequest}) : s.id = i /\ worker' = [worker EXCEPT ![w] = s]
    /\ toBroker' = [toBroker EXCEPT ![i] = Append(@, FromWorker("REPLY", NoName, worker[w].request))]
    /\ toWorker' = toWorker

Dies(w) ==
    LET i == worker[w].id IN
    /\ worker' = [worker EXCEPT ![w] = NoWorker]
    /\ \E t : /\ i \in WorkerIds => t \in Seq(BrokerMsg) /\ Part(toBroker[i], t)
             /\ toBroker' = [toBroker EXCEPT ![i] = t]
    /\ toWorker' = [toWorker EXCEPT ![i] = <<>>]

\* What is left of the pipes of a socket that is closed.
LEMMA LeftFacts ==
  ASSUME TypeInv, NEW w \in Workers, NEW k \in 0 .. HWM,
         k <= (IF worker[w].id = NoId THEN 0 ELSE Len(toBroker[worker[w].id])),
         NEW j \in WorkerIds
  PROVE  Left(w, k)[j] \in Seq(BrokerMsg) /\ Part(toBroker[j], Left(w, k)[j])
<1> DEFINE old == worker[w].id
<1>1. toBroker[j] \in Seq(BrokerMsg)
  BY DEF TypeInv, ToBroker
<1>2. Left(w, k)[j] = (IF j = old THEN Prefix(toBroker[j], k) ELSE toBroker[j])
  BY DEF Left
<1>3. j = old => k \in 0 .. Len(toBroker[j])
  BY <1>1, WorkersAssumption, BoundsAssumption
<1>4. j = old => Part(toBroker[j], Prefix(toBroker[j], k)) /\ Prefix(toBroker[j], k) \in Seq(BrokerMsg)
  BY <1>1, <1>3, Parts DEF Prefix
<1>5. Part(toBroker[j], toBroker[j])
  BY <1>1, Parts
<1> HIDE DEF old
<1> QED BY <1>1, <1>2, <1>4, <1>5

LEMMA ConnectFacts ==
  ASSUME TypeInv, NEW w \in Workers, connect_to_broker(w)
  PROVE  \E i \in WorkerIds \cup {NoId} : Connects(w, i)
<1>1. PICK d \in WorkerIds, k \in 0 .. HWM, ignored \in BOOLEAN :
        LET old == worker[w].id
            left == Left(w, k)
            id == IF ignored THEN NoId ELSE d
        IN
        /\ k <= (IF old = NoId THEN 0 ELSE Len(toBroker[old]))
        /\ Taken(w, d, left) => ignored
        /\ worker' = [worker EXCEPT ![w] =
               [NoWorker EXCEPT !.pc = "recv", !.id = id, !.drawn = d, !.liveness = Liveness]]
        /\ toBroker' = [j \in WorkerIds |-> IF j = id THEN <<READY(w)>> ELSE left[j]]
        /\ toWorker' = [j \in WorkerIds |-> IF j \in {id, old} THEN <<>> ELSE toWorker[j]]
        /\ clash' = (clash \/ ignored \/ d \in broker.workers)
  BY Zenon DEF connect_to_broker, NewSocket, READY
<1> DEFINE old == worker[w].id
           left == Left(w, k)
           i == IF ignored THEN NoId ELSE d
           s == [NoWorker EXCEPT !.pc = "recv", !.id = i, !.drawn = d, !.liveness = Liveness]
<1>2. i \in WorkerIds \cup {NoId} /\ (i \in WorkerIds => ~ ignored /\ i = d)
  BY WorkersAssumption
<1>3. s \in Up({"recv"}, {NoRequest}) /\ s.id = i
  <2> DEFINE From == [pc : {"down"}, id : {NoId}, drawn : {NoId}, liveness : {0}, heartbeat_due : {FALSE},
                      poll_due : {FALSE}, request : {NoRequest}]
             To == [pc : {"recv"}, id : {i}, drawn : {d}, liveness : {Liveness}, heartbeat_due : {FALSE},
                    poll_due : {FALSE}, request : {NoRequest}]
  <2>1. NoWorker \in From
    BY DEF NoWorker
  <2> HIDE DEF i
  <2>2. s \in To
    <3>1. \A n \in From : [n EXCEPT !.pc = "recv", !.id = i, !.drawn = d, !.liveness = Liveness] \in To
      OBVIOUS
    <3> HIDE DEF From, To
    <3> QED BY <2>1, <3>1, Zenon
  <2>3. Liveness \in 1 .. Liveness
    BY BoundsAssumption
  <2> HIDE DEF s
  <2> QED BY <1>2, <2>2, <2>3 DEF Up
<1>4. /\ k <= (IF old = NoId THEN 0 ELSE Len(toBroker[old]))
      /\ Taken(w, d, left) => ignored
      /\ worker' = [worker EXCEPT ![w] = s]
      /\ toBroker' = [j \in WorkerIds |-> IF j = i THEN <<READY(w)>> ELSE left[j]]
      /\ toWorker' = [j \in WorkerIds |-> IF j \in {i, old} THEN <<>> ELSE toWorker[j]]
      /\ clash' = (clash \/ ignored \/ d \in broker.workers)
  BY <1>1, Zenon
<1>5. \A v \in Workers \ {w} : worker[v].id = i => i = NoId
  <2>1. ASSUME NEW v \in Workers \ {w}, worker[v].id = i, i # NoId PROVE FALSE
    <3>1. ~ ignored /\ worker[v].id = d
      BY <2>1
    <3>2. Taken(w, d, left)
      BY <3>1, Zenon DEF Taken
    <3> QED BY <1>4, <3>1, <3>2
  <2> QED BY <2>1
<1>6. ~ clash' => i \in WorkerIds \ broker.workers
  BY <1>4
<1> HIDE DEF s, i, left
<1>7. ASSUME NEW j \in WorkerIds
      PROVE  /\ toBroker'[j] \in Seq(BrokerMsg) /\ (j # i => Part(toBroker[j], toBroker'[j]))
             /\ toWorker'[j] \in Seq(WorkerMsg) /\ Part(toWorker[j], toWorker'[j])
  <2>1. toWorker[j] \in Seq(WorkerMsg)
    BY DEF TypeInv, ToWorker
  <2>2. <<>> \in Seq(WorkerMsg) /\ <<READY(w)>> \in Seq(BrokerMsg)
    BY Messages
  <2>3. toBroker'[j] = (IF j = i THEN <<READY(w)>> ELSE left[j])
        /\ toWorker'[j] = (IF j \in {i, old} THEN <<>> ELSE toWorker[j])
    BY <1>4
  <2>4. left[j] \in Seq(BrokerMsg) /\ Part(toBroker[j], left[j])
    BY <1>4, LeftFacts DEF left
  <2>5. Part(toWorker[j], toWorker[j]) /\ Part(toWorker[j], <<>>)
    BY <2>1, Parts
  <2> HIDE DEF old
  <2> QED BY <2>1, <2>2, <2>3, <2>4, <2>5
<1>8. toBroker' \in ToBroker /\ toWorker' \in ToWorker
  <2>1. DOMAIN toBroker' = WorkerIds /\ DOMAIN toWorker' = WorkerIds
        /\ toBroker' = [j \in WorkerIds |-> toBroker'[j]] /\ toWorker' = [j \in WorkerIds |-> toWorker'[j]]
    BY <1>4
  <2> QED BY <1>7, <2>1 DEF ToBroker, ToWorker
<1>9. i \in WorkerIds => toBroker'[i] = <<READY(w)>> /\ toWorker'[i] = <<>>
  BY <1>4
<1> QED BY <1>2, <1>3, <1>4, <1>5, <1>6, <1>7, <1>8, <1>9 DEF Connects

LEMMA SentIs ==
  ASSUME TypeInv, NEW i, NEW m
  PROVE  Sent(i, m) = [toBroker EXCEPT ![i] = Append(@, m)]
BY DEF TypeInv, ToBroker, Sent

LEMMA PassFacts ==
  ASSUME TypeInv, NEW w \in Workers, worker[w].pc = "recv",
         NEW r \in Up({"recv"}, {NoRequest}), r.id = worker[w].id, EndOfPass(w, r),
         NEW t, r.id \in WorkerIds => t \in Seq(WorkerMsg) /\ Part(toWorker[r.id], t),
         toWorker' = [toWorker EXCEPT ![r.id] = t]
  PROVE  Passes(w)
<1>1. CASE r.heartbeat_due
  <2> DEFINE s == [r EXCEPT !.heartbeat_due = FALSE]
  <2>1. s \in Up({"recv"}, {NoRequest}) /\ s.id = r.id
    BY DEF Up
  <2>2. worker' = [worker EXCEPT ![w] = s] /\ toBroker' = Sent(r.id, HEARTBEAT)
    BY <1>1 DEF EndOfPass, HEARTBEAT
  <2>3. toBroker' = [toBroker EXCEPT ![r.id] = Append(@, HEARTBEAT)]
    BY <2>2, SentIs
  <2> HIDE DEF s
  <2> QED BY <2>1, <2>2, <2>3 DEF Passes
<1>2. CASE ~ r.heartbeat_due
  <2>1. worker' = [worker EXCEPT ![w] = r] /\ toBroker' = toBroker
    BY <1>2 DEF EndOfPass
  <2> QED BY <2>1 DEF Passes
<1> QED BY <1>1, <1>2

\* Every step of a worker is one of these.
LEMMA WorkerKinds ==
  ASSUME TypeInv, NEW w \in Workers, WorkerStep(w) \/ WorkerDies(w)
  PROVE  /\ \/ \E i \in WorkerIds \cup {NoId} : Connects(w, i)
            \/ Passes(w)
            \/ Takes(w)
            \/ Replies(w)
            \/ Dies(w)
         /\ UNCHANGED <<broker, client, clientOut, clientIn>>
<1> DEFINE i == worker[w].id
<1>1. worker[w] \in WorkerState
  BY DEF TypeInv
<1>2. UNCHANGED <<broker, client, clientOut, clientIn>>
  BY DEF WorkerStep, WorkerStart, RecvRequest, RecvHeartbeat, RecvDisconnect, PollTimeout,
         SendReply, WorkerDies
<1>3. i \in WorkerIds \cup {NoId} /\ (i # NoId => i \in WorkerIds)
  BY <1>1, WorkerFields
<1>4. i \in WorkerIds => toBroker[i] \in Seq(BrokerMsg) /\ toWorker[i] \in Seq(WorkerMsg)
  BY DEF TypeInv, ToBroker, ToWorker
<1>5. CASE WorkerStart(w) \/ RecvDisconnect(w) \/ (PollTimeout(w) /\ worker[w].liveness = 1)
  <2>1. connect_to_broker(w)
    BY <1>5 DEF WorkerStart, RecvDisconnect, PollTimeout
  <2> QED BY <1>2, <2>1, ConnectFacts
<1>6. CASE RecvRequest(w)
  <2> DEFINE s == [worker[w] EXCEPT !.pc = "work", !.liveness = Liveness, !.poll_due = FALSE,
                                    !.request = Head(toWorker[i]).request]
  <2>0. i # NoId /\ Inbox(w) = toWorker[i]
    BY <1>6 DEF RecvRequest, Inbox
  <2>1. /\ worker[w].pc = "recv" /\ toWorker[i] # <<>> /\ Head(toWorker[i]).cmd = "REQUEST"
        /\ worker' = [worker EXCEPT ![w] = s]
        /\ toWorker' = [toWorker EXCEPT ![i] = Tail(@)] /\ toBroker' = toBroker
    BY <1>6, <2>0 DEF RecvRequest
  <2>2. Head(toWorker[i]).request \in Requests
    <3>1. Head(toWorker[i]) \in WorkerMsg
      BY <1>3, <1>4, <2>0, <2>1
    <3> QED BY <2>1, <3>1 DEF WorkerMsg
  <2>3. worker[w] \in Up({"recv"}, {NoRequest})
    BY <1>1, <2>1, WorkerFields
  <2>4. Liveness \in 1 .. Liveness
    BY BoundsAssumption
  <2>5. s \in Up({"work"}, Requests) /\ s.id = i /\ s.request = Head(toWorker[i]).request
    <3> DEFINE h == Head(toWorker[i]).request
    <3>1. h \in Requests
      BY <2>2
    <3> HIDE DEF h, i
    <3>2. [worker[w] EXCEPT !.pc = "work", !.liveness = Liveness, !.poll_due = FALSE,
                            !.request = h] \in Up({"work"}, Requests)
      BY <2>3, <2>4, <3>1 DEF Up
    <3>3. s.id = worker[w].id /\ s.request = Head(toWorker[i]).request
      BY <2>3 DEF Up
    <3> QED BY <3>2, <3>3 DEF h, i
  <2> HIDE DEF s
  <2> QED BY <1>2, <1>3, <2>0, <2>1, <2>5 DEF Takes
<1>7. CASE RecvHeartbeat(w)
  <2> DEFINE r == [worker[w] EXCEPT !.liveness = Liveness, !.poll_due = FALSE]
  <2>0. i # NoId /\ Inbox(w) = toWorker[i]
    BY <1>7 DEF RecvHeartbeat, Inbox
  <2>1. /\ worker[w].pc = "recv" /\ toWorker[i] # <<>> /\ EndOfPass(w, r)
        /\ toWorker' = [toWorker EXCEPT ![i] = Tail(@)]
    BY <1>7, <2>0 DEF RecvHeartbeat
  <2>2. r \in Up({"recv"}, {NoRequest}) /\ r.id = i
    <3>1. worker[w] \in Up({"recv"}, {NoRequest})
      BY <1>1, <2>1, WorkerFields
    <3>2. Liveness \in 1 .. Liveness
      BY BoundsAssumption
    <3> QED BY <3>1, <3>2 DEF Up
  <2>3. Tail(toWorker[i]) \in Seq(WorkerMsg) /\ Part(toWorker[i], Tail(toWorker[i]))
    BY <1>3, <1>4, <2>0, <2>1, Parts
  <2>4. toWorker' = [toWorker EXCEPT ![i] = Tail(toWorker[i])]
    BY <2>1
  <2> HIDE DEF r
  <2> QED BY <1>2, <2>1, <2>2, <2>3, <2>4, PassFacts
<1>8. CASE PollTimeout(w) /\ worker[w].liveness # 1
  <2> DEFINE r == [worker[w] EXCEPT !.liveness = @ - 1, !.poll_due = FALSE]
  <2>1. worker[w].pc = "recv" /\ EndOfPass(w, r) /\ toWorker' = toWorker
    BY <1>8 DEF PollTimeout
  <2>2. r \in Up({"recv"}, {NoRequest}) /\ r.id = i
    <3>1. worker[w] \in Up({"recv"}, {NoRequest})
      BY <1>1, <2>1, WorkerFields
    <3>2. worker[w].liveness - 1 \in 1 .. Liveness
      <4>1. worker[w].liveness \in 1 .. Liveness
        BY <3>1 DEF Up
      <4> QED BY <1>8, <4>1, BoundsAssumption
    <3> QED BY <3>1, <3>2 DEF Up
  <2>3. i \in WorkerIds => toWorker[i] \in Seq(WorkerMsg) /\ Part(toWorker[i], toWorker[i])
    BY <1>4, Parts
  <2>4. toWorker' = [toWorker EXCEPT ![i] = toWorker[i]]
    BY <2>1 DEF TypeInv, ToWorker
  <2> HIDE DEF r
  <2> QED BY <1>2, <2>1, <2>2, <2>3, <2>4, PassFacts
<1>9. CASE SendReply(w)
  <2> DEFINE s == [worker[w] EXCEPT !.pc = "recv", !.request = NoRequest]
             m == FromWorker("REPLY", NoName, worker[w].request)
  <2>1. /\ worker[w].pc = "work" /\ worker' = [worker EXCEPT ![w] = s] /\ toWorker' = toWorker
        /\ toBroker' = Sent(i, m)
    BY <1>9 DEF SendReply
  <2>2. worker[w] \in Up({"work"}, Requests) /\ worker[w].request \in Requests
    BY <1>1, <2>1, WorkerFields
  <2>3. s \in Up({"recv"}, {NoRequest}) /\ s.id = i
    BY <2>2 DEF Up
  <2>4. toBroker' = [toBroker EXCEPT ![i] = Append(@, m)]
    BY <2>1, SentIs
  <2> HIDE DEF s
  <2> QED BY <1>2, <2>1, <2>2, <2>3, <2>4 DEF Replies
<1>10. CASE WorkerDies(w)
  <2>1. worker' = [worker EXCEPT ![w] = NoWorker]
        /\ toWorker' = [j \in WorkerIds |-> IF j = i THEN <<>> ELSE toWorker[j]]
    BY <1>10 DEF WorkerDies
  <2>2. PICK k \in 0 .. HWM : /\ k <= (IF i = NoId THEN 0 ELSE Len(toBroker[i]))
                              /\ toBroker' = Left(w, k)
    BY <1>10 DEF WorkerDies
  <2>3. toWorker' = [toWorker EXCEPT ![i] = <<>>]
    BY <2>1 DEF TypeInv, ToWorker
  <2> DEFINE t == Left(w, k)[i]
  <2>4. i \in WorkerIds => t \in Seq(BrokerMsg) /\ Part(toBroker[i], t)
    BY <2>2, LeftFacts
  <2>5. toBroker' = [toBroker EXCEPT ![i] = t]
    BY <2>2 DEF TypeInv, ToBroker, Left
  <2> HIDE DEF t
  <2> QED BY <1>2, <2>1, <2>3, <2>4, <2>5 DEF Dies
<1> QED BY <1>5, <1>6, <1>7, <1>8, <1>9, <1>10 DEF WorkerStep

-----------------------------------------------------------------------------
(***************************************************************************)
(* Turns: what a worker identity may be about to do.                       *)
(***************************************************************************)

RequestMsgs == {m \in WorkerMsg : m.cmd = "REQUEST"}
ReplyMsgs == {m \in BrokerMsg : m.cmd = "REPLY"}
ReadyMsgs == {m \in BrokerMsg : m.cmd = "READY"}

\* One of the workers wk has a request, and the identity i.
Works(wk, i) == \E w \in Workers : wk[w].id = i /\ wk[w].pc = "work"

\* No request is on its way to the worker, in its hands or on its way back.
AtRest(tb, tw, wk, i) == Lacks(tw, RequestMsgs) /\ ~ Works(wk, i) /\ Lacks(tb, ReplyMsgs)

\* Of the identity i of the workers wk, the broker b has yet to receive tb and has
\* sent it tw.  A request is in one of three places.  An identity that waits, or
\* has yet to register, is at rest; it registers once, with its first message.
Turn(tb, tw, wk, b, i) ==
    /\ Single(tw, RequestMsgs) /\ Single(tb, ReplyMsgs) /\ FirstOnly(tb, ReadyMsgs)
    /\ Lacks(tw, RequestMsgs) \/ Lacks(tb, ReplyMsgs)
    /\ Works(wk, i) => Lacks(tw, RequestMsgs) /\ Lacks(tb, ReplyMsgs)
    /\ P!Waiting(b, i) => AtRest(tb, tw, wk, i) /\ i \in b.workers
    /\ Lacks(tb, ReadyMsgs) \/ (AtRest(tb, tw, wk, i) /\ i \notin b.workers)

Turns == \A i \in WorkerIds : Turn(toBroker[i], toWorker[i], worker, broker, i)

\* No identity begins to work or to wait or becomes known.
Calmer(wk, b, wk2, b2, i) ==
    /\ Works(wk2, i) => Works(wk, i)
    /\ P!Waiting(b2, i) => P!Waiting(b, i) /\ i \in b2.workers
    /\ i \in b2.workers => i \in b.workers

LEMMA TurnShrinks ==
  ASSUME NEW tb \in Seq(BrokerMsg), NEW tw \in Seq(WorkerMsg),
         NEW tb2 \in Seq(BrokerMsg), NEW tw2 \in Seq(WorkerMsg), Part(tb, tb2), Part(tw, tw2),
         NEW wk, NEW b, NEW wk2, NEW b2, NEW i,
         Calmer(wk, b, wk2, b2, i), Turn(tb, tw, wk, b, i)
  PROVE  Turn(tb2, tw2, wk2, b2, i)
<1>1. /\ Lacks(tw, RequestMsgs) => Lacks(tw2, RequestMsgs)
      /\ Single(tw, RequestMsgs) => Single(tw2, RequestMsgs)
  BY PartKeeps
<1>2. /\ Lacks(tb, ReplyMsgs) => Lacks(tb2, ReplyMsgs)
      /\ Single(tb, ReplyMsgs) => Single(tb2, ReplyMsgs)
  BY PartKeeps
<1>3. /\ Lacks(tb, ReadyMsgs) => Lacks(tb2, ReadyMsgs)
      /\ FirstOnly(tb, ReadyMsgs) => FirstOnly(tb2, ReadyMsgs)
  BY PartKeeps
<1> QED BY <1>1, <1>2, <1>3, Zenon DEF Turn, AtRest, Calmer

LEMMA TurnFollows ==
  ASSUME NEW tb \in Seq(BrokerMsg), NEW tw \in Seq(WorkerMsg),
         NEW wk, NEW b, NEW wk2, NEW b2, NEW i,
         Calmer(wk, b, wk2, b2, i), Turn(tb, tw, wk, b, i)
  PROVE  Turn(tb, tw, wk2, b2, i)
<1>1. Part(tb, tb) /\ Part(tw, tw)
  BY Parts
<1> QED BY <1>1, TurnShrinks

\* A new identity has sent READY and nothing else.
LEMMA TurnConnects ==
  ASSUME NEW w \in Workers, NEW wk, NEW b, NEW i,
         ~ Works(wk, i), ~ P!Waiting(b, i), i \notin b.workers
  PROVE  Turn(<<READY(w)>>, <<>>, wk, b, i)
<1>1. READY(w) \notin ReplyMsgs
  BY DEF READY, FromWorker, ReplyMsgs
<1>2. /\ Lacks(<<>>, RequestMsgs) /\ Single(<<>>, RequestMsgs)
      /\ Lacks(<<READY(w)>>, ReplyMsgs) /\ Single(<<READY(w)>>, ReplyMsgs)
      /\ FirstOnly(<<READY(w)>>, ReadyMsgs)
  BY <1>1 DEF Lacks, Single, FirstOnly
<1> QED BY <1>2, Zenon DEF Turn, AtRest

\* An identity that the broker does not know, with empty pipes.
LEMMA TurnNew ==
  ASSUME NEW wk, NEW b, NEW i, ~ P!Waiting(b, i)
  PROVE  Turn(<<>>, <<>>, wk, b, i)
<1>1. /\ Lacks(<<>>, RequestMsgs) /\ Single(<<>>, RequestMsgs)
      /\ Lacks(<<>>, ReplyMsgs) /\ Single(<<>>, ReplyMsgs)
      /\ Lacks(<<>>, ReadyMsgs) /\ FirstOnly(<<>>, ReadyMsgs)
  BY DEF Lacks, Single, FirstOnly
<1> QED BY <1>1, Zenon DEF Turn, AtRest

LEMMA TurnTakes ==
  ASSUME NEW tb \in Seq(BrokerMsg), NEW tw \in Seq(WorkerMsg), tw # <<>>,
         Head(tw).cmd = "REQUEST", NEW wk, NEW wk2, NEW b, NEW i, Turn(tb, tw, wk, b, i)
  PROVE  Turn(tb, Tail(tw), wk2, b, i)
<1>1. Head(tw) \in RequestMsgs
  BY DEF RequestMsgs
<1>2. /\ ~ Lacks(tw, RequestMsgs)
      /\ Single(tw, RequestMsgs) => Lacks(Tail(tw), RequestMsgs)
  BY <1>1, TailLacks
<1>3. Single(tw, RequestMsgs) => Single(Tail(tw), RequestMsgs)
  <2>1. Tail(tw) \in Seq(WorkerMsg) /\ Part(tw, Tail(tw))
    BY Parts
  <2> QED BY <2>1, PartKeeps
<1> QED BY <1>2, <1>3, Zenon DEF Turn, AtRest

LEMMA TurnReplies ==
  ASSUME NEW tb \in Seq(BrokerMsg), NEW tw, NEW m \in ReplyMsgs,
         NEW wk, NEW wk2, NEW b, NEW i, Turn(tb, tw, wk, b, i), Works(wk, i), ~ Works(wk2, i)
  PROVE  Turn(Append(tb, m), tw, wk2, b, i)
<1>1. m \in BrokerMsg /\ m \notin ReadyMsgs
  BY DEF ReplyMsgs, ReadyMsgs
<1>2. Lacks(tb, ReplyMsgs) => Single(Append(tb, m), ReplyMsgs)
  BY <1>1, AppendKeeps
<1>3. /\ Lacks(tb, ReadyMsgs) => Lacks(Append(tb, m), ReadyMsgs)
      /\ FirstOnly(tb, ReadyMsgs) => FirstOnly(Append(tb, m), ReadyMsgs)
  BY <1>1, AppendKeeps
<1> QED BY <1>2, <1>3, Zenon DEF Turn, AtRest

LEMMA TurnBeats ==
  ASSUME NEW tb \in Seq(BrokerMsg), NEW tw, NEW wk, NEW b, NEW i, Turn(tb, tw, wk, b, i)
  PROVE  Turn(Append(tb, HEARTBEAT), tw, wk, b, i)
<1>1. HEARTBEAT \in BrokerMsg /\ HEARTBEAT \notin ReplyMsgs /\ HEARTBEAT \notin ReadyMsgs
  BY Messages DEF HEARTBEAT, FromWorker, ReplyMsgs, ReadyMsgs
<1>2. /\ Lacks(tb, ReplyMsgs) => Lacks(Append(tb, HEARTBEAT), ReplyMsgs)
      /\ Single(tb, ReplyMsgs) => Single(Append(tb, HEARTBEAT), ReplyMsgs)
  BY <1>1, AppendKeeps
<1>3. /\ Lacks(tb, ReadyMsgs) => Lacks(Append(tb, HEARTBEAT), ReadyMsgs)
      /\ FirstOnly(tb, ReadyMsgs) => FirstOnly(Append(tb, HEARTBEAT), ReadyMsgs)
  BY <1>1, AppendKeeps
<1> QED BY <1>2, <1>3, Zenon DEF Turn, AtRest

\* The broker sends a message that is no request.
LEMMA TurnSignalled ==
  ASSUME NEW tb, NEW tw \in Seq(WorkerMsg), NEW m \in WorkerMsg, m \notin RequestMsgs,
         NEW wk, NEW b, NEW i, Turn(tb, tw, wk, b, i)
  PROVE  Turn(tb, Append(tw, m), wk, b, i)
<1>1. /\ Lacks(tw, RequestMsgs) => Lacks(Append(tw, m), RequestMsgs)
      /\ Single(tw, RequestMsgs) => Single(Append(tw, m), RequestMsgs)
  BY AppendKeeps
<1> QED BY <1>1, Zenon DEF Turn, AtRest

\* It sends a request to an identity at rest, that it holds for idle no more.
LEMMA TurnServed ==
  ASSUME NEW tb \in Seq(BrokerMsg), NEW tw \in Seq(WorkerMsg), NEW m \in WorkerMsg,
         NEW wk, NEW b, NEW i, AtRest(tb, tw, wk, i), Lacks(tb, ReadyMsgs), ~ P!Waiting(b, i)
  PROVE  Turn(tb, Append(tw, m), wk, b, i)
<1>1. Lacks(tw, RequestMsgs) => Single(Append(tw, m), RequestMsgs)
  BY AppendKeeps
<1>2. Single(tb, ReplyMsgs) /\ FirstOnly(tb, ReadyMsgs)
  BY DEF AtRest, Lacks, Single, FirstOnly
<1> QED BY <1>1, <1>2, Zenon DEF Turn, AtRest

\* An identity at rest, that has registered, may be held for idle.
LEMMA TurnRests ==
  ASSUME NEW tb \in Seq(BrokerMsg), NEW tw \in Seq(WorkerMsg),
         NEW wk, NEW b, NEW i, AtRest(tb, tw, wk, i), Lacks(tb, ReadyMsgs),
         P!Waiting(b, i) => i \in b.workers
  PROVE  Turn(tb, tw, wk, b, i)
<1>1. Single(tw, RequestMsgs) /\ Single(tb, ReplyMsgs) /\ FirstOnly(tb, ReadyMsgs)
  BY DEF AtRest, Lacks, Single, FirstOnly
<1> QED BY <1>1, Zenon DEF Turn, AtRest

\* The broker receives a READY or a REPLY: what is left is at rest.
LEMMA TurnReceived ==
  ASSUME NEW tb \in Seq(BrokerMsg), NEW tw, tb # <<>>, Head(tb).cmd \in {"READY", "REPLY"},
         NEW wk, NEW b, NEW i, Turn(tb, tw, wk, b, i)
  PROVE  AtRest(Tail(tb), tw, wk, i) /\ Lacks(Tail(tb), ReadyMsgs)
<1>1. Head(tb) \in ReadyMsgs \/ Head(tb) \in ReplyMsgs
  BY DEF ReadyMsgs, ReplyMsgs
<1>2. Lacks(Tail(tb), ReadyMsgs)
  BY TailLacks DEF Turn
<1>3. Lacks(tb, ReplyMsgs) => Lacks(Tail(tb), ReplyMsgs)
  <2>1. Tail(tb) \in Seq(BrokerMsg) /\ Part(tb, Tail(tb))
    BY Parts
  <2> QED BY <2>1, PartKeeps
<1>4. CASE Head(tb) \in ReadyMsgs
  <2>1. ~ Lacks(tb, ReadyMsgs)
    BY <1>4, TailLacks
  <2> QED BY <1>2, <1>3, <2>1, Zenon DEF Turn, AtRest
<1>5. CASE Head(tb) \in ReplyMsgs
  <2>1. ~ Lacks(tb, ReplyMsgs) /\ (Single(tb, ReplyMsgs) => Lacks(Tail(tb), ReplyMsgs))
    BY <1>5, TailLacks
  <2> QED BY <1>2, <2>1, Zenon DEF Turn, AtRest
<1> QED BY <1>1, <1>4, <1>5

LEMMA PipesTyped ==
  ASSUME TypeInv, NEW i \in WorkerIds
  PROVE  toBroker[i] \in Seq(BrokerMsg) /\ toWorker[i] \in Seq(WorkerMsg)
BY DEF TypeInv, ToBroker, ToWorker

LEMMA WorkerStates ==
  /\ NoWorker \in WorkerState /\ NoWorker.pc = "down" /\ NoWorker.id = NoId
  /\ \A s \in Up({"recv"}, {NoRequest}) : s \in WorkerState /\ s.pc = "recv"
  /\ \A s \in Up({"work"}, Requests) : s \in WorkerState /\ s.pc = "work"
BY DEF NoWorker, WorkerState, Up

\* A worker changes its state, and if its identity, for none or a new one.
LEMMA SocketStep ==
  ASSUME TypeInv, Distinct, NEW w \in Workers, NEW s \in WorkerState,
         worker' = [worker EXCEPT ![w] = s],
         s.id = worker[w].id \/ s.id = NoId \/ \A v \in Workers \ {w} : worker[v].id # s.id
  PROVE  /\ worker' \in [Workers -> WorkerState]
         /\ Distinct'
         /\ \A i \in WorkerIds : i # s.id /\ Works(worker', i) => Works(worker, i)
         /\ s.pc # "work" => \A i \in WorkerIds :
               i \in {worker[w].id, s.id} => ~ Works(worker', i)
<1>1. worker \in [Workers -> WorkerState]
  BY DEF TypeInv
<1>2. worker' \in [Workers -> WorkerState] /\ worker'[w] = s
      /\ \A v \in Workers \ {w} : worker'[v] = worker[v]
  BY <1>1
<1>3. \A v \in Workers \ {w} : worker[v].id = s.id => s.id = NoId
  BY DEF Distinct
<1>4. Distinct'
  <2>1. ASSUME NEW u \in Workers, NEW v \in Workers, worker'[u].id = worker'[v].id, worker'[u].id # NoId
        PROVE  u = v
    BY <1>2, <1>3, <2>1 DEF Distinct
  <2> QED BY <2>1 DEF Distinct
<1>5. \A i \in WorkerIds : i # s.id /\ Works(worker', i) => Works(worker, i)
  BY <1>2 DEF Works
<1>6. ASSUME s.pc # "work", NEW i \in WorkerIds, i \in {worker[w].id, s.id},
             NEW v \in Workers, worker'[v].id = i, worker'[v].pc = "work"
      PROVE  FALSE
  <2>1. i # NoId
    BY WorkersAssumption
  <2>2. v # w /\ worker[v].id = i
    BY <1>2, <1>6
  <2> QED BY <1>3, <1>6, <2>1, <2>2 DEF Distinct
<1> QED BY <1>2, <1>4, <1>5, <1>6 DEF Works

\* An identity whose pipes a step leaves alone, and that nobody begins to use.
LEMMA OtherTurns ==
  ASSUME TypeInv, Turns, NEW j \in WorkerIds, NEW wk, Works(wk, j) => Works(worker, j)
  PROVE  Turn(toBroker[j], toWorker[j], wk, broker, j)
<1>1. Turn(toBroker[j], toWorker[j], worker, broker, j)
  BY DEF Turns
<1>2. Calmer(worker, broker, wk, broker, j)
  BY <1>1, Zenon DEF Turn, Calmer
<1> QED BY <1>1, <1>2, PipesTyped, TurnFollows

\* What a worker's step has to keep: the turns as long as every identity drawn is
\* free.
WorkerKeeps ==
    /\ worker' \in [Workers -> WorkerState] /\ toBroker' \in ToBroker /\ toWorker' \in ToWorker
    /\ Distinct'
    /\ Turns /\ ~ clash' => \A j \in WorkerIds : Turn(toBroker'[j], toWorker'[j], worker', broker, j)

\* The worker has a new socket: nothing is left of what the new identity was, and
\* if it is free the broker does not know it.
LEMMA ConnectTurns ==
  ASSUME TypeInv, Distinct, NEW w \in Workers, NEW i \in WorkerIds \cup {NoId}, Connects(w, i)
  PROVE  WorkerKeeps
<1>1. PICK s \in Up({"recv"}, {NoRequest}) : s.id = i /\ worker' = [worker EXCEPT ![w] = s]
  BY DEF Connects
<1>2. s \in WorkerState /\ s.pc = "recv"
  BY WorkerStates
<1>3. s.id = NoId \/ \A v \in Workers \ {w} : worker[v].id # s.id
  BY <1>1 DEF Connects
<1>4. /\ worker' \in [Workers -> WorkerState] /\ Distinct'
      /\ \A j \in WorkerIds : j # i /\ Works(worker', j) => Works(worker, j)
      /\ i \in WorkerIds => ~ Works(worker', i)
  BY <1>1, <1>2, <1>3, SocketStep
<1>5. toBroker' \in ToBroker /\ toWorker' \in ToWorker
  BY DEF Connects
<1>6. \A j \in WorkerIds : toBroker'[j] \in Seq(BrokerMsg) /\ toWorker'[j] \in Seq(WorkerMsg)
  BY <1>5 DEF ToBroker, ToWorker
<1>7. ASSUME Turns, NEW j \in WorkerIds \ {i}
      PROVE  Turn(toBroker'[j], toWorker'[j], worker', broker, j)
  <2>1. Part(toBroker[j], toBroker'[j]) /\ Part(toWorker[j], toWorker'[j])
    BY DEF Connects
  <2>2. Turn(toBroker[j], toWorker[j], worker, broker, j)
    BY <1>7 DEF Turns
  <2>3. Calmer(worker, broker, worker', broker, j)
    <3>1. Works(worker', j) => Works(worker, j)
      BY <1>4
    <3> QED BY <2>2, <3>1, Zenon DEF Turn, Calmer
  <2> QED BY <1>6, <2>1, <2>2, <2>3, PipesTyped, TurnShrinks
<1>8. ASSUME Turns, ~ clash'
      PROVE  i \in WorkerIds /\ Turn(toBroker'[i], toWorker'[i], worker', broker, i)
  <2>1. i \in WorkerIds /\ i \notin broker.workers /\ toBroker'[i] = <<READY(w)>> /\ toWorker'[i] = <<>>
    BY <1>8 DEF Connects
  <2>2. ~ P!Waiting(broker, i)
    BY <1>8, <2>1, Zenon DEF Turns, Turn
  <2>3. Turn(<<READY(w)>>, <<>>, worker', broker, i)
    BY <1>4, <2>1, <2>2, TurnConnects
  <2> QED BY <2>1, <2>3
<1> QED BY <1>4, <1>5, <1>7, <1>8 DEF WorkerKeeps

\* A worker's pipes, if it has any, become x and y.
LEMMA OwnTurn ==
  ASSUME TypeInv, Distinct, NEW w \in Workers,
         NEW s \in WorkerState, worker' = [worker EXCEPT ![w] = s],
         s.id = worker[w].id \/ s.id = NoId,
         NEW x, toBroker' = [toBroker EXCEPT ![worker[w].id] = x],
         NEW y, toWorker' = [toWorker EXCEPT ![worker[w].id] = y],
         worker[w].id \in WorkerIds => x \in Seq(BrokerMsg) /\ y \in Seq(WorkerMsg),
         Turns /\ worker[w].id \in WorkerIds /\ (s.pc # "work" => ~ Works(worker', worker[w].id)) =>
            Turn(x, y, worker', broker, worker[w].id)
  PROVE  WorkerKeeps
<1> DEFINE i == worker[w].id
<1>0. worker[w] \in WorkerState
  BY DEF TypeInv
<1>1. i \in WorkerIds \cup {NoId}
  BY <1>0, WorkerFields
<1>2. /\ worker' \in [Workers -> WorkerState] /\ Distinct'
      /\ \A j \in WorkerIds : j # s.id /\ Works(worker', j) => Works(worker, j)
      /\ s.pc # "work" => (i \in WorkerIds => ~ Works(worker', i))
  BY <1>1, SocketStep
<1>3. /\ toBroker' \in ToBroker /\ toWorker' \in ToWorker
      /\ i \in WorkerIds => toBroker'[i] = x /\ toWorker'[i] = y
      /\ \A j \in WorkerIds : j # i => toBroker'[j] = toBroker[j] /\ toWorker'[j] = toWorker[j]
  <2>1. CASE i \in WorkerIds
    BY <2>1 DEF TypeInv, ToBroker, ToWorker
  <2>2. CASE i \notin WorkerIds
    <3>1. toBroker' = toBroker /\ toWorker' = toWorker
      BY <2>2 DEF TypeInv, ToBroker, ToWorker
    <3> QED BY <2>2, <3>1 DEF TypeInv
  <2> QED BY <2>1, <2>2
<1>4. Turns /\ i \in WorkerIds => Turn(toBroker'[i], toWorker'[i], worker', broker, i)
  BY <1>2, <1>3
<1>5. \A j \in WorkerIds : j # i /\ Works(worker', j) => Works(worker, j)
  BY <1>2, WorkersAssumption
<1>6. Turns => \A j \in WorkerIds : j # i => Turn(toBroker'[j], toWorker'[j], worker', broker, j)
  <2>1. Turns => \A j \in WorkerIds : j # i => Turn(toBroker[j], toWorker[j], worker', broker, j)
    BY <1>5, OtherTurns
  <2> QED BY <1>3, <2>1
<1> QED BY <1>2, <1>3, <1>4, <1>6 DEF WorkerKeeps

LEMMA WorkerTurns ==
  ASSUME TypeInv, Distinct, NEW w \in Workers, WorkerStep(w) \/ WorkerDies(w)
  PROVE  WorkerKeeps
<1> DEFINE i == worker[w].id
<1>1. worker[w] \in WorkerState
  BY DEF TypeInv
<1>3. i \in WorkerIds => toBroker[i] \in Seq(BrokerMsg) /\ toWorker[i] \in Seq(WorkerMsg)
  BY PipesTyped
<1>4. toBroker = [toBroker EXCEPT ![i] = toBroker[i]] /\ toWorker = [toWorker EXCEPT ![i] = toWorker[i]]
  BY DEF TypeInv, ToBroker, ToWorker
<1>5. ASSUME NEW j \in WorkerIds \cup {NoId}, Connects(w, j) PROVE WorkerKeeps
  BY <1>5, ConnectTurns
<1>6. ASSUME Turns, i \in WorkerIds
      PROVE  /\ Turn(toBroker[i], toWorker[i], worker, broker, i)
             /\ ~ Works(worker', i) => Calmer(worker, broker, worker', broker, i)
  <2>1. Turn(toBroker[i], toWorker[i], worker, broker, i)
    BY <1>6 DEF Turns
  <2> HIDE DEF i
  <2> QED BY <2>1, Zenon DEF Turn, Calmer
<1>7. CASE Passes(w)
  <2>1. PICK s \in Up({"recv"}, {NoRequest}) : s.id = i /\ worker' = [worker EXCEPT ![w] = s]
    BY <1>7 DEF Passes
  <2>2. PICK y : /\ i \in WorkerIds => y \in Seq(WorkerMsg) /\ Part(toWorker[i], y)
                 /\ toWorker' = [toWorker EXCEPT ![i] = y]
    BY <1>7 DEF Passes
  <2>3. s \in WorkerState /\ s.pc = "recv"
    BY WorkerStates
  <2>4. ASSUME Turns, i \in WorkerIds, ~ Works(worker', i) PROVE Turn(toBroker[i], y, worker', broker, i)
    <3>1. Part(toBroker[i], toBroker[i])
      BY <1>3, <2>4, Parts
    <3> HIDE DEF i
    <3> QED BY <1>3, <1>6, <2>2, <2>4, <3>1, TurnShrinks
  <2>5. CASE toBroker' = toBroker
    <3>1. toBroker' = [toBroker EXCEPT ![i] = toBroker[i]]
      BY <1>4, <2>5
    <3> QED BY <1>3, <2>1, <2>2, <2>3, <2>4, <3>1, OwnTurn
  <2>6. CASE toBroker' = [toBroker EXCEPT ![i] = Append(@, HEARTBEAT)]
    <3>1. toBroker' = [toBroker EXCEPT ![i] = Append(toBroker[i], HEARTBEAT)]
      BY <2>6
    <3>2. i \in WorkerIds => Append(toBroker[i], HEARTBEAT) \in Seq(BrokerMsg)
      BY <1>3, Messages
    <3>3. ASSUME Turns, i \in WorkerIds, ~ Works(worker', i)
          PROVE Turn(Append(toBroker[i], HEARTBEAT), y, worker', broker, i)
      BY <1>3, <2>4, <3>3, TurnBeats
    <3> QED BY <2>1, <2>2, <2>3, <3>1, <3>2, <3>3, OwnTurn
  <2> QED BY <1>7, <2>5, <2>6 DEF Passes
<1>8. CASE Takes(w)
  <2>1. PICK s \in Up({"work"}, Requests) : s.id = i /\ worker' = [worker EXCEPT ![w] = s]
    BY <1>8 DEF Takes
  <2>2. /\ s \in WorkerState /\ i \in WorkerIds /\ toWorker[i] # <<>>
        /\ Head(toWorker[i]).cmd = "REQUEST" /\ toBroker' = toBroker
        /\ toWorker' = [toWorker EXCEPT ![i] = Tail(toWorker[i])]
    BY <1>8, WorkerStates DEF Takes
  <2>3. Tail(toWorker[i]) \in Seq(WorkerMsg)
    BY <1>3, <2>2
  <2>4. ASSUME Turns PROVE Turn(toBroker[i], Tail(toWorker[i]), worker', broker, i)
    BY <1>3, <1>6, <2>2, <2>4, TurnTakes
  <2>5. toBroker' = [toBroker EXCEPT ![i] = toBroker[i]]
    BY <1>4, <2>2
  <2> QED BY <1>3, <2>1, <2>2, <2>3, <2>4, <2>5, OwnTurn
<1>9. CASE Replies(w)
  <2> DEFINE m == FromWorker("REPLY", NoName, worker[w].request)
  <2>1. PICK s \in Up({"recv"}, {NoRequest}) : s.id = i /\ worker' = [worker EXCEPT ![w] = s]
    BY <1>9 DEF Replies
  <2>2. /\ s \in WorkerState /\ s.pc = "recv" /\ worker[w].pc = "work"
        /\ toWorker' = toWorker /\ toBroker' = [toBroker EXCEPT ![i] = Append(toBroker[i], m)]
    BY <1>9, WorkerStates DEF Replies
  <2>3. m \in ReplyMsgs /\ m \in BrokerMsg
    BY <1>9, Messages DEF Replies, FromWorker, ReplyMsgs
  <2> HIDE DEF m
  <2>4. i \in WorkerIds => Append(toBroker[i], m) \in Seq(BrokerMsg)
    BY <1>3, <2>3
  <2>5. Works(worker, i)
    BY <2>2 DEF Works
  <2>6. ASSUME Turns, i \in WorkerIds, ~ Works(worker', i)
        PROVE Turn(Append(toBroker[i], m), toWorker[i], worker', broker, i)
    BY <1>3, <1>6, <2>3, <2>5, <2>6, TurnReplies
  <2>7. toWorker' = [toWorker EXCEPT ![i] = toWorker[i]]
    BY <1>4, <2>2
  <2> QED BY <1>3, <2>1, <2>2, <2>4, <2>6, <2>7, OwnTurn
<1>10. CASE Dies(w)
  <2>1. PICK x : /\ i \in WorkerIds => x \in Seq(BrokerMsg) /\ Part(toBroker[i], x)
                 /\ toBroker' = [toBroker EXCEPT ![i] = x]
    BY <1>10 DEF Dies
  <2>2. /\ worker' = [worker EXCEPT ![w] = NoWorker]
        /\ toWorker' = [toWorker EXCEPT ![i] = <<>>] /\ <<>> \in Seq(WorkerMsg)
    BY <1>10 DEF Dies
  <2>3. ASSUME Turns, i \in WorkerIds, ~ Works(worker', i) PROVE Turn(x, <<>>, worker', broker, i)
    <3>1. Part(toWorker[i], <<>>)
      BY <1>3, <2>3, Parts
    <3>2. Calmer(worker, broker, worker', broker, i)
      BY <1>6, <2>3
    <3>3. /\ toBroker[i] \in Seq(BrokerMsg) /\ toWorker[i] \in Seq(WorkerMsg)
          /\ Turn(toBroker[i], toWorker[i], worker, broker, i)
      BY <1>3, <1>6, <2>3
    <3> HIDE DEF i
    <3> QED BY <2>1, <2>2, <2>3, <3>1, <3>2, <3>3, TurnShrinks
  <2> QED BY <2>1, <2>2, <2>3, OwnTurn, WorkerStates
<1> QED BY <1>5, <1>7, <1>8, <1>9, <1>10, WorkerKinds

-----------------------------------------------------------------------------
(***************************************************************************)
(* What the broker's handlers do to the pipes.                             *)
(***************************************************************************)

\* The assumptions of the broker's own theorems hold here.
LEMMA BrokerAssumptions ==
  /\ P!NamesAssumption
  /\ P!LivenessAssumption
  /\ P!MaxRequestsAssumption
  /\ P!FrameAssumption
<1>1. P!NamesAssumption /\ P!LivenessAssumption
  BY NamesAssumption, BoundsAssumption DEF P!NamesAssumption, P!LivenessAssumption
<1>2. Cardinality(Clients) \in Nat /\ Cardinality(Clients) # 0
  BY ClientsAssumption, FS_CardinalityType, FS_EmptySet
<1>3. \A m \in Nat \ {0}, n \in Nat : m * (n + 1) \in Nat \ {0}
  OBVIOUS
<1>4. MaxRequests \in Nat \ {0}
  BY <1>2, <1>3, BoundsAssumption DEF MaxRequests
<1>5. P!FrameAssumption
  BY RequestsAssumption DEF P!FrameAssumption, P!Commands, B!Commands
<1> QED BY <1>1, <1>4, <1>5 DEF P!MaxRequestsAssumption

LEMMA BrokerMsgFields ==
  ASSUME NEW m \in BrokerMsg
  PROVE  /\ m.cmd \in {"READY", "REPLY", "HEARTBEAT"} /\ m.name \in Names
         /\ m.cmd = "REPLY" => m.request \in Requests
         /\ m.cmd # "REPLY" => m.request = NoRequest
BY NamesAssumption DEF BrokerMsg

Told(m) == [cmd |-> m.cmd, request |-> m.body]

LEMMA ToldFields ==
  ASSUME NEW m \in P!Outgoing
  PROVE  /\ Told(m) \in WorkerMsg
         /\ Told(m) \in RequestMsgs <=> m.cmd = "REQUEST"
         /\ Told(m).request = m.body
BY DEF Told, P!Outgoing, WorkerMsg, RequestMsgs

\* Each identity gets one of the messages for it, or nothing.
Given(S, x) ==
    /\ x \in [WorkerIds -> Seq(WorkerMsg)]
    /\ \A j \in WorkerIds : x[j] = <<>> \/ \E m \in S : m.to = j /\ x[j] = <<Told(m)>>

LEMMA DeliverFacts ==
  ASSUME TypeInv, NEW S, S \subseteq P!Outgoing, Deliver(S)
  PROVE  \E x : Given(S, x) /\ toWorker' = Sends(WorkerIds, toWorker, x)
<1> DEFINE gets(j) == j \in Connected /\ Len(toWorker[j]) < HWM
           for(j) == CHOOSE m \in S : m.to = j
           x == [j \in WorkerIds |-> IF gets(j) /\ \E m \in S : m.to = j THEN <<Told(for(j))>> ELSE <<>>]
<1>1. toWorker' = [j \in WorkerIds |->
          IF gets(j) THEN toWorker[j] \o (IF \E m \in S : m.to = j THEN <<Told(for(j))>> ELSE <<>>)
          ELSE toWorker[j]]
  BY Zenon DEF Deliver, Told
<1>2. ASSUME NEW j \in WorkerIds, \E m \in S : m.to = j
      PROVE  for(j) \in S /\ for(j).to = j
  BY <1>2
<1>3. \A j \in WorkerIds : x[j] \in Seq(WorkerMsg)
  <2> SUFFICES ASSUME NEW j \in WorkerIds PROVE x[j] \in Seq(WorkerMsg)
    OBVIOUS
  <2>1. <<>> \in Seq(WorkerMsg)
    OBVIOUS
  <2>2. CASE gets(j) /\ \E m \in S : m.to = j
    <3>1. Told(for(j)) \in WorkerMsg
      BY <1>2, <2>2, ToldFields
    <3>2. x[j] = <<Told(for(j))>>
      BY <2>2
    <3> HIDE DEF x, for
    <3> QED BY <3>1, <3>2
  <2> QED BY <2>1, <2>2
<1>4. \A j \in WorkerIds : x[j] = <<>> \/ \E m \in S : m.to = j /\ x[j] = <<Told(m)>>
  BY <1>2
<1>5. Given(S, x)
  BY <1>3, <1>4 DEF Given
<1>6. \A j \in WorkerIds : toWorker[j] \o <<>> = toWorker[j]
  BY PipesTyped
<1>7. toWorker' = Sends(WorkerIds, toWorker, x)
  BY <1>1, <1>6 DEF Sends
<1> QED BY <1>5, <1>7

\* The same, for one identity.
LEMMA DeliverOne ==
  ASSUME TypeInv, NEW S, S \subseteq P!Outgoing, Deliver(S)
  PROVE  /\ toWorker' \in ToWorker
         /\ \A j \in WorkerIds :
              \/ toWorker'[j] = toWorker[j]
              \/ \E m \in S : m.to = j /\ toWorker'[j] = Append(toWorker[j], Told(m))
<1>1. PICK x : Given(S, x) /\ toWorker' = Sends(WorkerIds, toWorker, x)
  BY DeliverFacts
<1>2. toWorker' \in ToWorker
  BY <1>1, SendsKeep DEF Given, TypeInv, ToWorker
<1>3. ASSUME NEW j \in WorkerIds
      PROVE  \/ toWorker'[j] = toWorker[j]
             \/ \E m \in S : m.to = j /\ toWorker'[j] = Append(toWorker[j], Told(m))
  <2>1. toWorker'[j] = toWorker[j] \o x[j] /\ toWorker[j] \in Seq(WorkerMsg)
    BY <1>1, PipesTyped DEF Sends
  <2>2. CASE x[j] = <<>>
    BY <2>1, <2>2
  <2>3. ASSUME NEW m \in S, m.to = j, x[j] = <<Told(m)>> PROVE toWorker'[j] = Append(toWorker[j], Told(m))
    <3>1. Told(m) \in WorkerMsg
      BY ToldFields
    <3> QED BY <2>1, <2>3, <3>1
  <2> QED BY <1>1, <2>2, <2>3 DEF Given
<1> QED BY <1>2, <1>3

LEMMA WaitingKnown ==
  ASSUME NEW b, P!Consistent(b), NEW j
  PROVE  P!Waiting(b, j) => j \in b.workers
BY DEF P!Consistent, P!Sound, P!Registered, P!Waiting

\* What a handler of the broker leaves of an identity's turn.  F are those that
\* become idle before it dispatches.
LEMMA BrokerTurn ==
  ASSUME TypeInv, Turns, P!Consistent(broker), NEW b, P!Consistent(b),
         NEW S, NEW F, P!Serves(broker, b, S, F), P!Frees(b, S),
         NEW j \in WorkerIds, NEW tb \in Seq(BrokerMsg), Part(toBroker[j], tb),
         j \in F => AtRest(tb, toWorker[j], worker, j) /\ Lacks(tb, ReadyMsgs),
         NEW tw,
         \/ tw = toWorker[j]
         \/ \E m \in S : m.to = j /\ tw = Append(toWorker[j], Told(m))
  PROVE  Turn(tb, tw, worker, b, j)
<1>1. P!Waiting(b, j) => j \in b.workers
  BY WaitingKnown
<1>2. toBroker[j] \in Seq(BrokerMsg) /\ toWorker[j] \in Seq(WorkerMsg)
  BY PipesTyped
<1>3. Turn(toBroker[j], toWorker[j], worker, broker, j)
  BY DEF Turns
<1>4. Turn(tb, toWorker[j], worker, b, j)
  <2>1. CASE j \in F
    BY <1>1, <1>2, <2>1, TurnRests
  <2>2. CASE j \notin F
    <3>1. Calmer(worker, broker, worker, b, j)
      BY <1>1, <2>2, Zenon DEF Calmer, P!Serves
    <3>2. Part(toWorker[j], toWorker[j])
      BY <1>2, Parts
    <3> QED BY <1>2, <1>3, <3>1, <3>2, TurnShrinks
  <2> QED BY <2>1, <2>2
<1>5. ASSUME NEW m \in S, m.to = j
      PROVE  Turn(tb, Append(toWorker[j], Told(m)), worker, b, j)
  <2>1. m \in P!Outgoing
    BY DEF P!Serves
  <2>2. Told(m) \in WorkerMsg /\ (Told(m) \in RequestMsgs <=> m.cmd = "REQUEST")
    BY <2>1, ToldFields
  <2>3. CASE m.cmd = "REQUEST"
    <3>1. ~ P!Waiting(b, j) /\ (P!Waiting(broker, j) \/ j \in F)
      BY <1>5, <2>3 DEF P!Serves, P!Frees
    <3>2. AtRest(tb, toWorker[j], worker, j) /\ Lacks(tb, ReadyMsgs)
      <4>1. CASE j \in F
        BY <4>1
      <4>2. CASE P!Waiting(broker, j)
        <5>1. AtRest(toBroker[j], toWorker[j], worker, j) /\ Lacks(toBroker[j], ReadyMsgs)
          BY <1>3, <4>2, Zenon DEF Turn
        <5>2. /\ Lacks(toBroker[j], ReadyMsgs) => Lacks(tb, ReadyMsgs)
              /\ Lacks(toBroker[j], ReplyMsgs) => Lacks(tb, ReplyMsgs)
          BY <1>2, PartKeeps
        <5> QED BY <5>1, <5>2 DEF AtRest
      <4> QED BY <3>1, <4>1, <4>2
    <3> QED BY <1>2, <2>2, <3>1, <3>2, TurnServed
  <2>4. CASE m.cmd # "REQUEST"
    BY <1>2, <1>4, <2>2, <2>4, TurnSignalled
  <2> QED BY <2>3, <2>4
<1> QED BY <1>4, <1>5

\* A handler leads from the record broker to b, sends S and moves requests from the
\* queues q to those of b.  As long as the turns are kept, no identity waits twice
\* and who is sent a request waits no more.
Handled(b, S, F, q) ==
    /\ P!Consistent(b)
    /\ P!Serves(broker, b, S, F)
    /\ \A M : NoRequest \notin M => P!Moves(q, b.requests, S, M)
    /\ Deliver(S)
    /\ P!NoDuplicates(broker) /\ Turns => P!NoDuplicates(b) /\ P!Frees(b, S)

LEMMA WorkerMessageHandled ==
  ASSUME TypeInv, P!Consistent(broker), NEW i \in WorkerIds, BrokerRecvWorker(i)
  PROVE  \E S : Handled(broker', S, P!Ready(broker, i, Head(toBroker[i]).cmd), broker.requests)
<1> DEFINE m == Head(toBroker[i])
           S == P!WorkerProcessSends(broker, i, m.cmd, m.name)
<1>1. toBroker[i] \in Seq(BrokerMsg) /\ toBroker[i] # <<>>
  BY PipesTyped DEF BrokerRecvWorker
<1>2. m \in BrokerMsg
  BY <1>1
<1>3. m.cmd \in {"READY", "REPLY", "HEARTBEAT"} /\ m.name \in Names
  BY <1>2, BrokerMsgFields
<1>4. broker' = P!worker_process(broker, i, m.cmd, m.name) /\ Deliver(S)
  <2>1. broker' = B!worker_process(broker, i, m.cmd, m.name)
        /\ Deliver(B!WorkerProcessSends(broker, i, m.cmd, m.name))
    BY DEF BrokerRecvWorker
  <2> QED BY <2>1, SameBroker, Zenon
<1>5. Turns => (m.cmd = "REPLY" => ~ P!Waiting(broker, i))
  <2>1. ASSUME m.cmd = "REPLY" PROVE ~ Lacks(toBroker[i], ReplyMsgs)
    <3>1. m \in ReplyMsgs
      BY <1>2, <2>1 DEF ReplyMsgs
    <3> QED BY <1>1, <3>1, TailLacks
  <2> QED BY <2>1, Zenon DEF Turns, Turn, AtRest
<1> HIDE DEF m, S
<1>6. /\ P!Consistent(broker')
      /\ P!NoDuplicates(broker) /\ Turns => P!NoDuplicates(broker')
  <2>1. m.cmd \in P!Commands
    BY <1>3 DEF P!Commands
  <2> QED BY <1>3, <1>4, <1>5, <2>1, BrokerAssumptions, P!WorkerProcessConsistent
<1>7. \A M : NoRequest \notin M =>
         /\ P!Serves(broker, broker', S, P!Ready(broker, i, m.cmd))
         /\ P!Moves(broker.requests, broker'.requests, S, M)
         /\ P!NoDuplicates(broker) /\ Turns => P!Frees(broker', S)
  <2> SUFFICES ASSUME NEW M, NoRequest \notin M
               PROVE  /\ P!Serves(broker, broker', S, P!Ready(broker, i, m.cmd))
                      /\ P!Moves(broker.requests, broker'.requests, S, M)
                      /\ P!NoDuplicates(broker) /\ Turns => P!Frees(broker', S)
    OBVIOUS
  <2> QED BY <1>3, <1>4, <1>5, BrokerAssumptions, P!WorkerProcessSent DEF S
<1>8. NoRequest \notin {}
  OBVIOUS
<1> QED BY <1>4, <1>6, <1>7, <1>8 DEF Handled, m

LEMMA ClientMessageHandled ==
  ASSUME TypeInv, P!Consistent(broker), NEW c \in Clients, BrokerRecvClient(c)
  PROVE  LET m == Head(clientOut[c])
             q == IF m.name \in MmiLike THEN broker.requests
                  ELSE [broker.requests EXCEPT ![m.name] = Append(@, m.request)]
         IN  \E S : Handled(broker', S, {}, q)
<1> DEFINE m == Head(clientOut[c])
           S == P!ClientProcessSends(broker, m.name, m.request)
           q == IF m.name \in MmiLike THEN broker.requests
                ELSE [broker.requests EXCEPT ![m.name] = Append(@, m.request)]
<1>1. m \in ClientMsg
  BY DEF TypeInv, ClientOut, BrokerRecvClient
<1>2. m.name \in Names /\ m.request \in Requests
  BY <1>1 DEF ClientMsg
<1>3. broker' = P!client_process(broker, m.name, m.request) /\ Deliver(S)
  <2>1. broker' = B!client_process(broker, m.name, m.request)
        /\ Deliver(B!ClientProcessSends(broker, m.name, m.request))
    BY DEF BrokerRecvClient
  <2> QED BY <2>1, SameBroker, Zenon
<1> HIDE DEF m
<1>4. /\ P!Consistent(broker')
      /\ P!NoDuplicates(broker) => P!NoDuplicates(broker')
  BY <1>2, <1>3, BrokerAssumptions, P!ClientProcessConsistent
<1>5. \A M : NoRequest \notin M =>
         /\ P!Serves(broker, broker', S, {}) /\ P!Moves(q, broker'.requests, S, M)
         /\ P!NoDuplicates(broker) => P!Frees(broker', S)
  BY <1>2, <1>3, BrokerAssumptions, P!ClientProcessSent
<1>6. NoRequest \notin {}
  OBVIOUS
<1> HIDE DEF S, q
<1>7. Handled(broker', S, {}, q)
  BY <1>3, <1>4, <1>5, <1>6 DEF Handled
<1> QED BY <1>7 DEF q, m

LEMMA TimerHandled ==
  ASSUME P!Consistent(broker), BrokerTimer
  PROVE  \E S : Handled(broker', S, {}, broker.requests)
<1> DEFINE S == P!TimerSends(broker)
<1>1. broker' = P!timer(broker) /\ Deliver(S)
  <2>1. B!Timer /\ Deliver(B!TimerSends(broker))
    BY DEF BrokerTimer
  <2> QED BY <2>1, SameBroker, Zenon DEF P!Timer
<1>2. P!Consistent(broker') /\ (P!NoDuplicates(broker) => P!NoDuplicates(broker'))
  BY <1>1, BrokerAssumptions, P!TimerConsistent
<1>3. \A M : NoRequest \notin M =>
         /\ P!Serves(broker, broker', S, {}) /\ P!Moves(broker.requests, broker'.requests, S, M)
         /\ P!Frees(broker', S)
  BY <1>1, BrokerAssumptions, P!TimerSent
<1>4. NoRequest \notin {}
  OBVIOUS
<1> QED BY <1>1, <1>2, <1>3, <1>4 DEF Handled

LEMMA AnswerFacts ==
  ASSUME TypeInv, NEW c \in Clients, NEW code \in {"reply", "200", "404", "501"},
         NEW n \in 0 .. Calls, Answer(c, code, n)
  PROVE  /\ clientIn' \in ClientIn
         /\ \/ clientIn' = clientIn
            \/ /\ client[c].pc # "gone"
               /\ clientIn' = [clientIn EXCEPT ![c] = Append(@, [code |-> code, seq |-> n])]
<1>1. [code |-> code, seq |-> n] \in AnswerMsg
  BY DEF AnswerMsg
<1>2. clientIn \in ClientIn /\ clientIn[c] \in Seq(AnswerMsg)
  BY DEF TypeInv, ClientIn
<1> DEFINE e == [code |-> code, seq |-> n]
<1>3. \/ clientIn' = clientIn
      \/ client[c].pc # "gone" /\ clientIn' = [clientIn EXCEPT ![c] = Append(@, e)]
  BY DEF Answer
<1> HIDE DEF e
<1>4. Append(clientIn[c], e) \in Seq(AnswerMsg)
  BY <1>1, <1>2 DEF e
<1>5. clientIn' \in ClientIn
  BY <1>2, <1>3, <1>4 DEF ClientIn
<1> QED BY <1>3, <1>5 DEF e

\* The broker's answer to the head of a client's pipe; the worker's to the client
\* its reply names.
LEMMA Answered ==
  ASSUME TypeInv
  PROVE  /\ \A c \in Clients : BrokerRecvClient(c) =>
               /\ clientIn' \in ClientIn
               /\ LET m == Head(clientOut[c]) IN
                  \/ clientIn' = clientIn
                  \/ /\ m.name \in MmiLike /\ client[c].pc # "gone"
                     /\ \E code \in {"200", "404", "501"} :
                          clientIn' = [clientIn EXCEPT ![c] = Append(@, [code |-> code, seq |-> m.request.seq])]
         /\ \A i \in WorkerIds : BrokerRecvWorker(i) =>
               /\ clientIn' \in ClientIn
               /\ LET m == Head(toBroker[i]) IN
                  \/ clientIn' = clientIn
                  \/ /\ m.cmd = "REPLY" /\ m.request \in Requests
                     /\ client[m.request.client].pc # "gone"
                     /\ clientIn' = [clientIn EXCEPT ![m.request.client] =
                                        Append(@, [code |-> "reply", seq |-> m.request.seq])]
<1>1. ASSUME NEW c \in Clients, BrokerRecvClient(c)
      PROVE  /\ clientIn' \in ClientIn
             /\ LET m == Head(clientOut[c]) IN
                \/ clientIn' = clientIn
                \/ /\ m.name \in MmiLike /\ client[c].pc # "gone"
                   /\ \E code \in {"200", "404", "501"} :
                        clientIn' = [clientIn EXCEPT ![c] = Append(@, [code |-> code, seq |-> m.request.seq])]
  <2> DEFINE m == Head(clientOut[c])
  <2>1. m \in ClientMsg
    BY <1>1 DEF TypeInv, ClientOut, BrokerRecvClient
  <2>2. m.request.seq \in 0 .. Calls
    BY <2>1 DEF ClientMsg, Requests
  <2>3. \A b, n, x : B!service_internal(b, n, x) \in {"200", "404", "501"}
    BY DEF B!service_internal
  <2>4. \/ clientIn' = clientIn
        \/ m.name \in MmiLike /\ \E code \in {"200", "404", "501"} : Answer(c, code, m.request.seq)
    BY <1>1, <2>3 DEF BrokerRecvClient
  <2> HIDE DEF m
  <2>5. CASE clientIn' = clientIn
    BY <2>5 DEF TypeInv, m
  <2>6. ASSUME m.name \in MmiLike, NEW code \in {"200", "404", "501"}, Answer(c, code, m.request.seq)
        PROVE  /\ clientIn' \in ClientIn
               /\ \/ clientIn' = clientIn
                  \/ /\ client[c].pc # "gone"
                     /\ clientIn' = [clientIn EXCEPT ![c] = Append(@, [code |-> code, seq |-> m.request.seq])]
    BY <2>2, <2>6, AnswerFacts
  <2> QED BY <2>4, <2>5, <2>6 DEF m
<1>2. ASSUME NEW i \in WorkerIds, BrokerRecvWorker(i)
      PROVE  /\ clientIn' \in ClientIn
             /\ LET m == Head(toBroker[i]) IN
                \/ clientIn' = clientIn
                \/ /\ m.cmd = "REPLY" /\ m.request \in Requests
                   /\ client[m.request.client].pc # "gone"
                   /\ clientIn' = [clientIn EXCEPT ![m.request.client] =
                                      Append(@, [code |-> "reply", seq |-> m.request.seq])]
  <2> DEFINE m == Head(toBroker[i])
  <2>1. m \in BrokerMsg
    BY <1>2 DEF TypeInv, ToBroker, BrokerRecvWorker
  <2>2. m.cmd = "REPLY" =>
           m.request \in Requests /\ m.request.client \in Clients /\ m.request.seq \in 0 .. Calls
    BY <2>1, BrokerMsgFields DEF Requests
  <2>3. \/ clientIn' = clientIn
        \/ m.cmd = "REPLY" /\ Answer(m.request.client, "reply", m.request.seq)
    BY <1>2 DEF BrokerRecvWorker
  <2> HIDE DEF m
  <2>4. CASE clientIn' = clientIn
    BY <2>4 DEF TypeInv, m
  <2>5. CASE m.cmd = "REPLY" /\ Answer(m.request.client, "reply", m.request.seq)
    BY <2>2, <2>5, AnswerFacts DEF m
  <2> QED BY <2>3, <2>4, <2>5
<1> QED BY <1>1, <1>2

\* What a restart leaves of a family of pipes.
LEMMA CutFacts ==
  ASSUME NEW S, NEW W, NEW p \in [W -> Seq(S)], NEW cut \in Cuts(p)
  PROVE  /\ [i \in W |-> Suffix(p[i], cut[i])] \in [W -> Seq(S)]
         /\ [i \in W |-> Prefix(p[i], cut[i])] \in [W -> Seq(S)]
         /\ \A i \in W : Part(p[i], Suffix(p[i], cut[i])) /\ Part(p[i], Prefix(p[i], cut[i]))
<1>1. ASSUME NEW i \in W
      PROVE  /\ Part(p[i], Suffix(p[i], cut[i])) /\ Suffix(p[i], cut[i]) \in Seq(S)
             /\ Part(p[i], Prefix(p[i], cut[i])) /\ Prefix(p[i], cut[i]) \in Seq(S)
  <2>1. cut[i] \in 0 .. HWM /\ cut[i] <= Len(p[i]) /\ p[i] \in Seq(S)
    BY DEF Cuts
  <2>2. cut[i] \in 0 .. Len(p[i])
    BY <2>1, BoundsAssumption
  <2> QED BY <2>1, <2>2, Parts DEF Suffix, Prefix
<1> QED BY <1>1

\* A restart empties the broker and the pipes of every identity that another
\* socket, or none, has afterwards.
LEMMA RestartFacts ==
  ASSUME TypeInv, BrokerRestart
  PROVE  /\ broker' = P!EmptyBroker /\ P!Consistent(broker') /\ P!NoDuplicates(broker')
         /\ worker' \in [Workers -> WorkerState] /\ Distinct'
         /\ \A w \in Workers : worker'[w].request = worker[w].request
         /\ \A i \in WorkerIds : Works(worker', i) =>
               Works(worker, i) \/ (toBroker'[i] = <<>> /\ toWorker'[i] = <<>>)
         /\ toBroker' \in ToBroker /\ \A i \in WorkerIds : Part(toBroker[i], toBroker'[i])
         /\ toWorker' \in ToWorker /\ \A i \in WorkerIds : Part(toWorker[i], toWorker'[i])
         /\ clientOut' \in ClientOut /\ \A c \in Clients : Part(clientOut[c], clientOut'[c])
         /\ clientIn' \in ClientIn /\ \A c \in Clients : Part(clientIn[c], clientIn'[c])
         /\ UNCHANGED client
<1>1. broker' = P!EmptyBroker /\ UNCHANGED client
  BY SameBroker DEF BrokerRestart
<1>2. P!Consistent(broker') /\ P!NoDuplicates(broker')
  BY <1>1, BrokerAssumptions, P!EmptyConsistent
<1>3. PICK known \in [Workers -> WorkerIds \cup {NoId}], lost \in Cuts(toBroker), kept \in Cuts(toWorker) :
        LET same == {i \in WorkerIds : \E w \in Workers : known[w] = i /\ worker[w].id = i} IN
        /\ Accepted(known)
        /\ worker' = [w \in Workers |-> [worker[w] EXCEPT !.id = known[w]]]
        /\ \A i \in WorkerIds \ same : lost[i] = Len(toBroker[i])
        /\ toBroker' = [i \in WorkerIds |-> Suffix(toBroker[i], lost[i])]
        /\ \A i \in WorkerIds \ same : kept[i] = 0
        /\ toWorker' = [i \in WorkerIds |-> Prefix(toWorker[i], kept[i])]
  BY Zenon DEF BrokerRestart
<1>4. toBroker' \in ToBroker /\ \A i \in WorkerIds : Part(toBroker[i], toBroker'[i])
  <2>1. toBroker \in [WorkerIds -> Seq(BrokerMsg)]
    BY DEF TypeInv, ToBroker
  <2> QED BY <1>3, <2>1, CutFacts DEF ToBroker
<1>5. ASSUME NEW w \in Workers
      PROVE  /\ worker'[w] \in WorkerState /\ worker'[w].id = known[w]
             /\ worker'[w].pc = worker[w].pc /\ worker'[w].request = worker[w].request
  <2> DEFINE s == worker[w]
             k == known[w]
  <2>1. s \in WorkerState /\ worker'[w] = [s EXCEPT !.id = k]
    BY <1>3 DEF TypeInv
  <2>2. k \in {s.drawn, NoId} /\ k \in WorkerIds \cup {NoId}
    BY <1>3 DEF Accepted
  <2> HIDE DEF s, k
  <2>3. CASE s = NoWorker
    <3>1. k = NoId
      BY <2>2, <2>3 DEF NoWorker
    <3>2. [s EXCEPT !.id = k] = s /\ s.id = NoId
      <4>1. \A p, n : \A x \in [pc : p, id : {NoId}, drawn : n, liveness : {0}, heartbeat_due : BOOLEAN,
                             poll_due : BOOLEAN, request : {NoRequest}] :
               [x EXCEPT !.id = NoId] = x /\ x.id = NoId
        OBVIOUS
      <4>2. s \in [pc : {"down"}, id : {NoId}, drawn : {NoId}, liveness : {0}, heartbeat_due : BOOLEAN,
                   poll_due : BOOLEAN, request : {NoRequest}]
        BY <2>3 DEF NoWorker
      <4> QED BY <3>1, <4>1, <4>2, Zenon
    <3> QED BY <2>1, <3>1, <3>2 DEF s, k
  <2>4. ASSUME NEW p, NEW r, s \in Up(p, r)
        PROVE  /\ [s EXCEPT !.id = k] \in Up(p, r) /\ [s EXCEPT !.id = k].id = k
               /\ [s EXCEPT !.id = k].pc = s.pc /\ [s EXCEPT !.id = k].request = s.request
    BY <2>2, <2>4 DEF Up
  <2>5. CASE s # NoWorker
    BY <2>1, <2>4, <2>5, WorkerStates DEF WorkerState, s, k
  <2> QED BY <2>3, <2>5
<1>6. toWorker' \in ToWorker /\ \A i \in WorkerIds : Part(toWorker[i], toWorker'[i])
  <2>1. toWorker \in [WorkerIds -> Seq(WorkerMsg)] /\ kept \in Cuts(toWorker)
    BY DEF TypeInv, ToWorker
  <2>2. toWorker' = [i \in WorkerIds |-> Prefix(toWorker[i], kept[i])]
    BY <1>3
  <2> QED BY <2>1, <2>2, CutFacts DEF ToWorker
<1>11. worker' \in [Workers -> WorkerState] /\ Distinct'
  <2>1. DOMAIN worker' = Workers /\ worker' = [w \in Workers |-> worker'[w]]
    BY <1>3
  <2>2. \A v, w \in Workers : known[v] = known[w] /\ known[v] # NoId => v = w
    BY <1>3 DEF Accepted
  <2> QED BY <1>5, <2>1, <2>2 DEF Distinct
<1>12. ASSUME NEW i \in WorkerIds, Works(worker', i), ~ Works(worker, i)
       PROVE  toBroker'[i] = <<>> /\ toWorker'[i] = <<>>
  <2>1. PICK w \in Workers : known[w] = i /\ worker[w].pc = "work"
    BY <1>5, <1>12 DEF Works
  <2>2. worker[w].id # i
    BY <1>12, <2>1 DEF Works
  <2>3. \A v \in Workers : known[v] = i => v = w
    BY <1>3, <2>1, WorkersAssumption DEF Accepted
  <2>4. ~ \E v \in Workers : known[v] = i /\ worker[v].id = i
    BY <2>2, <2>3
  <2>5. lost[i] = Len(toBroker[i]) /\ kept[i] = 0
    BY <1>3, <2>4
  <2>6. toBroker[i] \in Seq(BrokerMsg) /\ toWorker[i] \in Seq(WorkerMsg)
    BY PipesTyped
  <2>7. Suffix(toBroker[i], Len(toBroker[i])) = <<>> /\ Prefix(toWorker[i], 0) = <<>>
    BY <2>6 DEF Suffix, Prefix
  <2> QED BY <1>3, <2>5, <2>7
<1>13. \A w \in Workers : worker'[w].request = worker[w].request
  BY <1>5
<1>14. \A i \in WorkerIds : Works(worker', i) =>
          Works(worker, i) \/ (toBroker'[i] = <<>> /\ toWorker'[i] = <<>>)
  BY <1>12, Zenon
<1>7. PICK lostC \in Cuts(clientOut) : clientOut' = [c \in Clients |-> Suffix(clientOut[c], lostC[c])]
  BY DEF BrokerRestart
<1>8. clientOut' \in ClientOut /\ \A c \in Clients : Part(clientOut[c], clientOut'[c])
  <2>1. clientOut \in [Clients -> Seq(ClientMsg)]
    BY DEF TypeInv, ClientOut
  <2> QED BY <1>7, <2>1, CutFacts DEF ClientOut
<1>9. PICK keptC \in Cuts(clientIn) : clientIn' = [c \in Clients |-> Prefix(clientIn[c], keptC[c])]
  BY DEF BrokerRestart
<1>10. clientIn' \in ClientIn /\ \A c \in Clients : Part(clientIn[c], clientIn'[c])
  <2>1. clientIn \in [Clients -> Seq(AnswerMsg)]
    BY DEF TypeInv, ClientIn
  <2> QED BY <1>9, <2>1, CutFacts DEF ClientIn
<1> QED BY <1>1, <1>2, <1>4, <1>6, <1>8, <1>10, <1>11, <1>13, <1>14

LEMMA TickFacts ==
  ASSUME TypeInv, P!Consistent(broker), Tick
  PROVE  /\ worker' \in [Workers -> WorkerState]
         /\ \A w \in Workers : /\ worker'[w].id = worker[w].id /\ worker'[w].pc = worker[w].pc
                               /\ worker'[w].request = worker[w].request
         /\ P!Consistent(broker')
         /\ broker'.waiting = broker.waiting /\ broker'.workers = broker.workers
         /\ broker'.requests = broker.requests
         /\ UNCHANGED <<client, toBroker, toWorker, clientOut, clientIn>>
<1>1. P!Tick /\ UNCHANGED <<client, toBroker, toWorker, clientOut, clientIn>>
  BY SameBroker DEF Tick
<1>2. P!Consistent(broker')
  BY <1>1, BrokerAssumptions, P!TickConsistent
<1>3. /\ broker'.waiting = broker.waiting /\ broker'.workers = broker.workers
      /\ broker'.requests = broker.requests
  BY <1>1 DEF P!Tick, P!Consistent, P!Sound, P!BrokerState
<1>4. worker' = [w \in Workers |->
          IF worker[w].pc = "down" THEN worker[w]
          ELSE [worker[w] EXCEPT !.heartbeat_due = TRUE, !.poll_due = worker[w].pc = "recv"]]
  BY DEF Tick
<1>5. ASSUME NEW w \in Workers
      PROVE  /\ worker'[w] \in WorkerState
             /\ worker'[w].id = worker[w].id /\ worker'[w].pc = worker[w].pc
             /\ worker'[w].request = worker[w].request
  <2>1. worker[w] \in WorkerState
    BY DEF TypeInv
  <2>2. ASSUME NEW p, NEW r, worker[w] \in Up(p, r), worker[w].pc # "down"
        PROVE  /\ worker'[w] \in Up(p, r)
               /\ worker'[w].id = worker[w].id /\ worker'[w].pc = worker[w].pc
               /\ worker'[w].request = worker[w].request
    <3> DEFINE s == worker[w]
               poll == s.pc = "recv"
    <3>1. worker'[w] = [s EXCEPT !.heartbeat_due = TRUE, !.poll_due = poll]
      BY <1>4, <2>2
    <3>2. poll \in BOOLEAN
      OBVIOUS
    <3>3. s \in Up(p, r)
      BY <2>2
    <3> HIDE DEF s, poll
    <3>4. /\ [s EXCEPT !.heartbeat_due = TRUE, !.poll_due = poll] \in Up(p, r)
          /\ [s EXCEPT !.heartbeat_due = TRUE, !.poll_due = poll].id = s.id
          /\ [s EXCEPT !.heartbeat_due = TRUE, !.poll_due = poll].pc = s.pc
          /\ [s EXCEPT !.heartbeat_due = TRUE, !.poll_due = poll].request = s.request
      BY <3>2, <3>3 DEF Up
    <3> QED BY <3>1, <3>4 DEF s
  <2>3. worker[w].pc = "down" => worker'[w] = worker[w]
    BY <1>4
  <2> QED BY <2>1, <2>2, <2>3, WorkerFields, WorkerStates
<1>6. DOMAIN worker' = Workers /\ worker' = [w \in Workers |-> worker'[w]]
  BY <1>4
<1> QED BY <1>1, <1>2, <1>3, <1>5, <1>6

\* What the steps of a client do.
Asks(c) ==
    /\ client[c].pc = "ready"
    /\ \E m \in ClientMsg :
          /\ m.request = [client |-> c, seq |-> client[c].seq]
          /\ clientOut' = [clientOut EXCEPT ![c] = Append(@, m)]
    /\ client' = [client EXCEPT ![c] = [pc |-> "wait", seq |-> client[c].seq]]
    /\ clientIn' = clientIn

Reads(c) ==
    /\ client[c].pc = "wait" /\ clientIn[c] # <<>>
    /\ \/ /\ client' = [client EXCEPT ![c] = [pc |-> "gone", seq |-> client[c].seq]]
          /\ clientIn' = [clientIn EXCEPT ![c] = <<>>]
       \/ /\ client' = [client EXCEPT ![c] = [pc |-> "ready", seq |-> client[c].seq + 1]]
          /\ clientIn' = [clientIn EXCEPT ![c] = Tail(@)]
    /\ clientOut' = clientOut

GivesUp(c) ==
    /\ client[c].pc = "wait" /\ clientIn[c] = <<>>
    /\ client' = [client EXCEPT ![c] = [pc |-> "gone", seq |-> client[c].seq]]
    /\ \E t \in Seq(ClientMsg) : Part(clientOut[c], t) /\ clientOut' = [clientOut EXCEPT ![c] = t]
    /\ clientIn' = clientIn

LEMMA ClientFields ==
  ASSUME NEW s \in ClientState
  PROVE  /\ s.pc \in {"ready", "wait", "gone"} /\ s.seq \in Nat /\ s.seq <= Calls + 1
         /\ s.pc # "ready" => s.seq <= Calls
         /\ \A p, n : [s EXCEPT !.pc = p] = [pc |-> p, seq |-> s.seq]
BY BoundsAssumption DEF ClientState

LEMMA ClientStates ==
  /\ \A n \in 0 .. Calls : /\ [pc |-> "wait", seq |-> n] \in ClientState
                           /\ [pc |-> "gone", seq |-> n] \in ClientState
  /\ \A n \in 0 .. Calls + 1 : [pc |-> "ready", seq |-> n] \in ClientState
BY DEF ClientState

LEMMA ClientKinds ==
  ASSUME TypeInv, NEW c \in Clients, ClientSend(c) \/ ClientRecv(c) \/ ClientTimeout(c)
  PROVE  /\ Asks(c) \/ Reads(c) \/ GivesUp(c)
         /\ UNCHANGED <<broker, worker, toBroker, toWorker>>
         /\ client' \in [Clients -> ClientState] /\ clientOut' \in ClientOut /\ clientIn' \in ClientIn
<1>1. /\ client \in [Clients -> ClientState] /\ client[c] \in ClientState
      /\ clientOut \in [Clients -> Seq(ClientMsg)] /\ clientOut[c] \in Seq(ClientMsg)
      /\ clientIn \in [Clients -> Seq(AnswerMsg)] /\ clientIn[c] \in Seq(AnswerMsg)
  BY DEF TypeInv, ClientOut, ClientIn
<1>2. /\ client[c].seq \in Nat /\ client[c].seq <= Calls + 1
      /\ client[c].pc # "ready" => client[c].seq <= Calls
      /\ \A p : [client[c] EXCEPT !.pc = p] = [pc |-> p, seq |-> client[c].seq]
  BY <1>1, ClientFields
<1> DEFINE n == client[c].seq
<1>3. UNCHANGED <<broker, worker, toBroker, toWorker>>
  BY DEF ClientSend, ClientRecv, ClientTimeout
<1>4. CASE ClientSend(c)
  <2> DEFINE m == [name |-> IF n = 0 THEN MmiService ELSE Wants[c],
                   request |-> [client |-> c, seq |-> n]]
  <2>1. client[c].pc = "ready" /\ n \in 0 .. Calls
    BY <1>2, <1>4 DEF ClientSend
  <2>2. /\ clientOut' = [clientOut EXCEPT ![c] = Append(@, m)]
        /\ client' = [client EXCEPT ![c] = [client[c] EXCEPT !.pc = "wait"]]
        /\ clientIn' = clientIn
    BY <1>4 DEF ClientSend
  <2>3. client' = [client EXCEPT ![c] = [pc |-> "wait", seq |-> n]]
    BY <1>2, <2>2
  <2>4. [client |-> c, seq |-> n] \in Requests
    BY <2>1 DEF Requests
  <2>5. m \in ClientMsg /\ m.request = [client |-> c, seq |-> n]
    <3>1. MmiService \in Names /\ Wants[c] \in Names
      BY NamesAssumption, WorkersAssumption
    <3> QED BY <2>4, <3>1 DEF ClientMsg
  <2> HIDE DEF m, n
  <2>6. Append(clientOut[c], m) \in Seq(ClientMsg)
    BY <1>1, <2>5
  <2>7. clientOut' \in ClientOut
    BY <1>1, <2>2, <2>6 DEF ClientOut
  <2>8. client' \in [Clients -> ClientState]
    BY <1>1, <2>1, <2>3, ClientStates
  <2>9. Asks(c)
    BY <2>1, <2>2, <2>3, <2>5 DEF Asks, n
  <2> QED BY <1>1, <1>3, <2>2, <2>7, <2>8, <2>9 DEF ClientIn
<1>5. CASE ClientRecv(c)
  <2>1. client[c].pc = "wait" /\ clientIn[c] # <<>> /\ clientOut' = clientOut /\ n \in 0 .. Calls
    BY <1>2, <1>5, BoundsAssumption DEF ClientRecv
  <2>2. Tail(clientIn[c]) \in Seq(AnswerMsg) /\ <<>> \in Seq(AnswerMsg)
    BY <1>1, <2>1
  <2>3. \/ /\ client' = [client EXCEPT ![c] = [client[c] EXCEPT !.pc = "gone"]]
           /\ clientIn' = [clientIn EXCEPT ![c] = <<>>]
        \/ /\ client' = [client EXCEPT ![c] = [pc |-> "ready", seq |-> n + 1]]
           /\ clientIn' = [clientIn EXCEPT ![c] = Tail(clientIn[c])]
    BY <1>5 DEF ClientRecv
  <2>4. [client[c] EXCEPT !.pc = "gone"] = [pc |-> "gone", seq |-> n]
    BY <1>2
  <2>5. Reads(c)
    BY <2>1, <2>3, <2>4 DEF Reads
  <2>6. [pc |-> "gone", seq |-> n] \in ClientState /\ [pc |-> "ready", seq |-> n + 1] \in ClientState
    <3>1. n + 1 \in 0 .. Calls + 1
      BY <1>2, <2>1, BoundsAssumption
    <3> HIDE DEF n
    <3> QED BY <2>1, <3>1, ClientStates
  <2>7. client' \in [Clients -> ClientState]
    BY <1>1, <2>3, <2>4, <2>6
  <2>8. clientIn' \in ClientIn
    BY <1>1, <2>2, <2>3 DEF ClientIn
  <2> QED BY <1>1, <1>3, <2>1, <2>5, <2>7, <2>8 DEF ClientOut
<1>6. CASE ClientTimeout(c)
  <2>1. /\ client[c].pc = "wait" /\ clientIn[c] = <<>> /\ clientIn' = clientIn /\ n \in 0 .. Calls
        /\ client' = [client EXCEPT ![c] = [client[c] EXCEPT !.pc = "gone"]]
    BY <1>2, <1>6, BoundsAssumption DEF ClientTimeout
  <2>2. client' = [client EXCEPT ![c] = [pc |-> "gone", seq |-> n]]
    BY <1>2, <2>1
  <2>3. PICK k \in 0 .. Len(clientOut[c]) : clientOut' = [clientOut EXCEPT ![c] = Prefix(@, k)]
    BY <1>6 DEF ClientTimeout
  <2> DEFINE t == Prefix(clientOut[c], k)
  <2>4. t \in Seq(ClientMsg) /\ Part(clientOut[c], t)
    BY <1>1, Parts DEF Prefix
  <2>5. clientOut' = [clientOut EXCEPT ![c] = t]
    BY <2>3
  <2> HIDE DEF t
  <2>6. GivesUp(c)
    BY <2>1, <2>2, <2>4, <2>5 DEF GivesUp
  <2>7. client' \in [Clients -> ClientState] /\ clientOut' \in ClientOut
    BY <1>1, <2>1, <2>2, <2>4, <2>5, ClientStates DEF ClientOut
  <2> QED BY <1>1, <1>3, <2>1, <2>6, <2>7 DEF ClientIn
<1> QED BY <1>4, <1>5, <1>6

-----------------------------------------------------------------------------
(***************************************************************************)
(* The inductive invariant of the turns.                                   *)
(***************************************************************************)

\* The broker's tables are consistent and the ROUTER's identities distinct in any
\* case; the turns are kept, and no identity waits twice, as long as every identity
\* drawn was free.
Inv ==
    /\ P!Consistent(broker) /\ TypeInv /\ Distinct
    /\ ~ clash => P!NoDuplicates(broker) /\ Turns

\* An identity that was not free is never forgotten.
LEMMA ClashStays ==
  ASSUME [Next]_vars
  PROVE  clash => clash'
<1>1. ASSUME NEW w \in Workers, connect_to_broker(w) PROVE clash => clash'
  BY <1>1 DEF connect_to_broker, NewSocket
<1>2. ASSUME NEW w \in Workers, WorkerStep(w) \/ WorkerDies(w) PROVE clash => clash'
  BY <1>1, <1>2 DEF WorkerStep, WorkerStart, RecvRequest, RecvHeartbeat, RecvDisconnect, PollTimeout,
                    SendReply, WorkerDies
<1>3. ASSUME NEW i \in WorkerIds, BrokerRecvWorker(i) PROVE clash => clash'
  BY <1>3 DEF BrokerRecvWorker
<1>4. ASSUME NEW c \in Clients, BrokerRecvClient(c) \/ ClientSend(c) \/ ClientRecv(c) \/ ClientTimeout(c)
      PROVE clash => clash'
  BY <1>4 DEF BrokerRecvClient, ClientSend, ClientRecv, ClientTimeout
<1>5. BrokerTimer \/ BrokerRestart \/ Tick \/ UNCHANGED vars => (clash => clash')
  BY DEF BrokerTimer, BrokerRestart, Tick, vars
<1> QED BY <1>2, <1>3, <1>4, <1>5 DEF Next

LEMMA InitInv ==
  ASSUME Init
  PROVE  Inv
<1>1. broker = P!EmptyBroker /\ P!Consistent(broker) /\ P!NoDuplicates(broker)
  BY SameBroker, BrokerAssumptions, P!EmptyConsistent DEF Init
<1>2. \A w \in Workers : worker[w] = NoWorker
  BY DEF Init
<1>3. TypeInv
  <2>1. /\ <<>> \in Seq(BrokerMsg) /\ <<>> \in Seq(WorkerMsg)
        /\ <<>> \in Seq(ClientMsg) /\ <<>> \in Seq(AnswerMsg)
    OBVIOUS
  <2>2. [pc |-> "ready", seq |-> 0] \in ClientState
    BY ClientStates, BoundsAssumption
  <2> QED BY <2>1, <2>2, WorkerStates DEF Init, TypeInv, ToBroker, ToWorker, ClientOut, ClientIn
<1>4. Distinct
  BY <1>2, WorkerStates DEF Distinct
<1>5. ASSUME NEW i \in WorkerIds
      PROVE  Turn(toBroker[i], toWorker[i], worker, broker, i)
  <2>1. toBroker[i] = <<>> /\ toWorker[i] = <<>>
    BY <1>5 DEF Init
  <2>2. Lacks(<<>>, ReplyMsgs) /\ Lacks(<<>>, RequestMsgs) /\ Lacks(<<>>, ReadyMsgs)
    BY DEF Lacks
  <2>3. ~ Works(worker, i)
    BY <1>2, WorkerStates DEF Works
  <2>4. P!Waiting(broker, i) => i \in broker.workers
    BY <1>1, WaitingKnown
  <2>5. <<>> \in Seq(BrokerMsg) /\ <<>> \in Seq(WorkerMsg)
    OBVIOUS
  <2>6. AtRest(<<>>, <<>>, worker, i)
    BY <2>2, <2>3 DEF AtRest
  <2>7. Turn(<<>>, <<>>, worker, broker, i)
    BY <2>2, <2>4, <2>5, <2>6, TurnRests
  <2> QED BY <2>1, <2>7
<1> QED BY <1>1, <1>3, <1>4, <1>5 DEF Inv, Turns

LEMMA StepInv ==
  ASSUME Inv, [Next]_vars
  PROVE  Inv'
<1>0. /\ TypeInv /\ Distinct /\ P!Consistent(broker)
      /\ ~ clash' => P!NoDuplicates(broker) /\ Turns
  BY ClashStays DEF Inv
<1>1. ASSUME UNCHANGED worker PROVE Distinct'
  BY <1>0, <1>1 DEF Distinct
<1>2. ASSUME P!Consistent(broker'), TypeInv', Distinct',
             ~ clash' => P!NoDuplicates(broker'),
             ~ clash' => \A i \in WorkerIds : Turn(toBroker'[i], toWorker'[i], worker', broker', i)
      PROVE  Inv'
  BY <1>2 DEF Inv, Turns
<1>3. ASSUME NEW w \in Workers, WorkerStep(w) \/ WorkerDies(w) PROVE Inv'
  <2>1. WorkerKeeps /\ UNCHANGED <<broker, client, clientOut, clientIn>>
    BY <1>0, <1>3, WorkerTurns, WorkerKinds
  <2>2. TypeInv'
    BY <1>0, <2>1 DEF TypeInv, WorkerKeeps
  <2>3. P!Consistent(broker') /\ broker' = broker
    BY <1>0, <2>1
  <2> QED BY <1>0, <1>2, <2>1, <2>2, <2>3 DEF WorkerKeeps
<1>4. ASSUME NEW i \in WorkerIds, BrokerRecvWorker(i) PROVE Inv'
  <2> DEFINE F == P!Ready(broker, i, Head(toBroker[i]).cmd)
  <2>1. PICK S : Handled(broker', S, F, broker.requests)
    BY <1>0, <1>4, WorkerMessageHandled
  <2>2. /\ UNCHANGED <<worker, client, clientOut>> /\ toBroker[i] # <<>>
        /\ toBroker' = [toBroker EXCEPT ![i] = Tail(toBroker[i])]
    BY <1>4 DEF BrokerRecvWorker
  <2>3. /\ toWorker' \in ToWorker
        /\ \A j \in WorkerIds : \/ toWorker'[j] = toWorker[j]
                                \/ \E m \in S : m.to = j /\ toWorker'[j] = Append(toWorker[j], Told(m))
    BY <1>0, <2>1, DeliverOne DEF Handled, P!Serves
  <2>4. toBroker[i] \in Seq(BrokerMsg)
    BY <1>0, PipesTyped
  <2>5. /\ toBroker' \in ToBroker /\ toBroker'[i] = Tail(toBroker[i])
        /\ \A j \in WorkerIds \ {i} : toBroker'[j] = toBroker[j]
    BY <1>0, <2>2, <2>4 DEF TypeInv, ToBroker
  <2>6. TypeInv'
    <3>1. clientIn' \in ClientIn
      BY <1>0, <1>4, Answered
    <3> QED BY <1>0, <2>2, <2>3, <2>5, <3>1 DEF TypeInv
  <2>7. ASSUME ~ clash', NEW j \in WorkerIds
        PROVE  Turn(toBroker'[j], toWorker'[j], worker', broker', j)
    <3>0. P!NoDuplicates(broker) /\ Turns
      BY <1>0, <2>7
    <3>1. toBroker'[j] \in Seq(BrokerMsg)
      BY <2>5 DEF ToBroker
    <3>2. Part(toBroker[j], toBroker'[j])
      BY <1>0, <2>2, <2>5, PipesTyped, Parts
    <3>3. j \in F => AtRest(toBroker'[j], toWorker[j], worker, j) /\ Lacks(toBroker'[j], ReadyMsgs)
      <4>1. SUFFICES ASSUME j \in F
                     PROVE  AtRest(toBroker'[j], toWorker[j], worker, j) /\ Lacks(toBroker'[j], ReadyMsgs)
        OBVIOUS
      <4>2. j = i /\ Head(toBroker[i]).cmd \in {"READY", "REPLY"}
        BY <4>1 DEF P!Ready
      <4>3. Turn(toBroker[i], toWorker[i], worker, broker, i)
        BY <3>0 DEF Turns
      <4>4. AtRest(Tail(toBroker[i]), toWorker[i], worker, i) /\ Lacks(Tail(toBroker[i]), ReadyMsgs)
        BY <2>2, <2>4, <4>2, <4>3, TurnReceived
      <4> QED BY <2>5, <4>2, <4>4
    <3> HIDE DEF F
    <3>4. P!Consistent(broker') /\ P!Serves(broker, broker', S, F) /\ P!Frees(broker', S)
      BY <2>1, <3>0 DEF Handled
    <3>5. Turn(toBroker'[j], toWorker'[j], worker, broker', j)
      BY <1>0, <3>0, <2>3, <3>1, <3>2, <3>3, <3>4, BrokerTurn
    <3> QED BY <2>2, <3>5
  <2>8. P!Consistent(broker') /\ (~ clash' => P!NoDuplicates(broker'))
    BY <1>0, <2>1 DEF Handled
  <2> QED BY <1>1, <1>2, <2>2, <2>6, <2>7, <2>8
<1>5. ASSUME NEW S, NEW q, Handled(broker', S, {}, q), UNCHANGED <<worker, toBroker, client>>,
             clientOut' \in ClientOut, clientIn' \in ClientIn
      PROVE  Inv'
  <2>1. /\ toWorker' \in ToWorker
        /\ \A j \in WorkerIds : \/ toWorker'[j] = toWorker[j]
                                \/ \E m \in S : m.to = j /\ toWorker'[j] = Append(toWorker[j], Told(m))
    BY <1>0, <1>5, DeliverOne DEF Handled, P!Serves
  <2>2. TypeInv'
    BY <1>0, <1>5, <2>1 DEF TypeInv
  <2>3. /\ P!Consistent(broker') /\ P!Serves(broker, broker', S, {})
        /\ ~ clash' => P!NoDuplicates(broker') /\ P!Frees(broker', S)
    BY <1>0, <1>5 DEF Handled
  <2>4. ASSUME ~ clash', NEW j \in WorkerIds
        PROVE  Turn(toBroker'[j], toWorker'[j], worker', broker', j)
    <3>0. Turns /\ P!Frees(broker', S)
      BY <1>0, <2>3, <2>4
    <3>1. toBroker[j] \in Seq(BrokerMsg) /\ Part(toBroker[j], toBroker[j])
      BY <1>0, PipesTyped, Parts
    <3>2. Turn(toBroker[j], toWorker'[j], worker, broker', j)
      BY <1>0, <2>1, <2>3, <3>0, <3>1, BrokerTurn
    <3> QED BY <1>5, <3>2
  <2> QED BY <1>1, <1>2, <1>5, <2>2, <2>3, <2>4
<1>6. ASSUME NEW c \in Clients, BrokerRecvClient(c) PROVE Inv'
  <2>1. \E S, q : Handled(broker', S, {}, q)
    BY <1>0, <1>6, ClientMessageHandled
  <2>2. UNCHANGED <<worker, client, toBroker>> /\ clientOut' = [clientOut EXCEPT ![c] = Tail(@)]
        /\ clientOut[c] # <<>>
    BY <1>6 DEF BrokerRecvClient
  <2>3. clientIn' \in ClientIn
    BY <1>0, <1>6, Answered
  <2>4. clientOut' \in ClientOut
    <3>1. Tail(clientOut[c]) \in Seq(ClientMsg)
      BY <1>0, <2>2 DEF TypeInv, ClientOut
    <3> QED BY <1>0, <2>2, <3>1 DEF TypeInv, ClientOut
  <2> QED BY <1>5, <2>1, <2>2, <2>3, <2>4
<1>7. CASE BrokerTimer
  <2>1. \E S, q : Handled(broker', S, {}, q)
    BY <1>0, <1>7, TimerHandled
  <2>2. UNCHANGED <<worker, client, toBroker, clientOut, clientIn>>
    BY <1>7 DEF BrokerTimer
  <2>3. clientOut' \in ClientOut /\ clientIn' \in ClientIn
    BY <1>0, <2>2 DEF TypeInv
  <2> QED BY <1>5, <2>1, <2>2, <2>3
<1>8. ASSUME NEW c \in Clients, ClientSend(c) \/ ClientRecv(c) \/ ClientTimeout(c) PROVE Inv'
  <2>1. /\ UNCHANGED <<broker, worker, toBroker, toWorker>>
        /\ client' \in [Clients -> ClientState] /\ clientOut' \in ClientOut /\ clientIn' \in ClientIn
    BY <1>0, <1>8, ClientKinds
  <2>2. TypeInv'
    BY <1>0, <2>1 DEF TypeInv
  <2>3. ~ clash' => \A i \in WorkerIds : Turn(toBroker'[i], toWorker'[i], worker', broker', i)
    BY <1>0, <2>1 DEF Turns
  <2>4. P!Consistent(broker') /\ (~ clash' => P!NoDuplicates(broker'))
    BY <1>0, <2>1
  <2> QED BY <1>1, <1>2, <2>1, <2>2, <2>3, <2>4
<1>9. CASE BrokerRestart
  <2>1. /\ broker' = P!EmptyBroker /\ P!Consistent(broker') /\ P!NoDuplicates(broker')
        /\ worker' \in [Workers -> WorkerState] /\ Distinct' /\ UNCHANGED client
        /\ \A i \in WorkerIds : Works(worker', i) =>
              Works(worker, i) \/ (toBroker'[i] = <<>> /\ toWorker'[i] = <<>>)
        /\ toBroker' \in ToBroker /\ \A i \in WorkerIds : Part(toBroker[i], toBroker'[i])
        /\ toWorker' \in ToWorker /\ \A i \in WorkerIds : Part(toWorker[i], toWorker'[i])
        /\ clientOut' \in ClientOut /\ clientIn' \in ClientIn
    BY <1>0, <1>9, RestartFacts
  <2>2. TypeInv'
    BY <1>0, <2>1 DEF TypeInv
  <2>3. ASSUME ~ clash', NEW i \in WorkerIds
        PROVE  Turn(toBroker'[i], toWorker'[i], worker', broker', i)
    <3>1. i \notin broker'.workers
      BY <2>1 DEF P!EmptyBroker
    <3>2. ~ P!Waiting(broker', i)
      BY <2>1, <3>1, WaitingKnown
    <3>3. CASE Works(worker', i) => Works(worker, i)
      <4>1. Calmer(worker, broker, worker', broker', i)
        BY <3>1, <3>2, <3>3, Zenon DEF Calmer
      <4>2. Turn(toBroker[i], toWorker[i], worker, broker, i)
        BY <1>0, <2>3 DEF Turns
      <4>3. /\ toBroker[i] \in Seq(BrokerMsg) /\ toWorker[i] \in Seq(WorkerMsg)
            /\ toBroker'[i] \in Seq(BrokerMsg) /\ toWorker'[i] \in Seq(WorkerMsg)
        BY <1>0, <2>1, PipesTyped DEF ToBroker, ToWorker
      <4> QED BY <2>1, <4>1, <4>2, <4>3, TurnShrinks
    <3>4. CASE toBroker'[i] = <<>> /\ toWorker'[i] = <<>>
      BY <3>2, <3>4, TurnNew
    <3> QED BY <2>1, <3>3, <3>4
  <2> QED BY <1>2, <2>1, <2>2, <2>3
<1>10. CASE Tick
  <2>1. /\ worker' \in [Workers -> WorkerState] /\ P!Consistent(broker')
        /\ \A w \in Workers : worker'[w].id = worker[w].id /\ worker'[w].pc = worker[w].pc
        /\ broker'.waiting = broker.waiting /\ broker'.workers = broker.workers
        /\ UNCHANGED <<client, toBroker, toWorker, clientOut, clientIn>>
    BY <1>0, <1>10, TickFacts
  <2>2. TypeInv'
    BY <1>0, <2>1 DEF TypeInv
  <2>3. Distinct'
    BY <1>0, <2>1 DEF Distinct
  <2>4. ASSUME ~ clash', NEW i \in WorkerIds
        PROVE  Turn(toBroker'[i], toWorker'[i], worker', broker', i)
    <3>0. Turns
      BY <1>0, <2>4
    <3>1. Works(worker', i) => Works(worker, i)
      BY <2>1 DEF Works
    <3>2. P!Waiting(broker', i) => P!Waiting(broker, i) /\ i \in broker'.workers
      BY <2>1, WaitingKnown DEF P!Waiting
    <3>3. Calmer(worker, broker, worker', broker', i)
      BY <2>1, <3>1, <3>2 DEF Calmer
    <3>4. Turn(toBroker[i], toWorker[i], worker, broker, i)
      BY <3>0 DEF Turns
    <3>5. Turn(toBroker[i], toWorker[i], worker', broker', i)
      BY <1>0, <3>0, <3>3, <3>4, PipesTyped, TurnFollows
    <3> QED BY <2>1, <3>5
  <2>5. ~ clash' => P!NoDuplicates(broker')
    BY <1>0, <2>1 DEF P!NoDuplicates
  <2> QED BY <1>2, <2>1, <2>2, <2>3, <2>4, <2>5
<1>11. CASE UNCHANGED vars
  <2>1. UNCHANGED <<broker, worker, client, toBroker, toWorker, clientOut, clientIn>>
    BY <1>11 DEF vars
  <2>2. TypeInv'
    BY <1>0, <2>1 DEF TypeInv
  <2>3. ~ clash' => \A i \in WorkerIds : Turn(toBroker'[i], toWorker'[i], worker', broker', i)
    BY <1>0, <2>1 DEF Turns
  <2>4. ~ clash' => P!NoDuplicates(broker')
    BY <1>0, <2>1
  <2> QED BY <1>0, <1>1, <1>2, <2>1, <2>2, <2>3, <2>4
<1> QED BY <1>3, <1>4, <1>6, <1>7, <1>8, <1>9, <1>10, <1>11 DEF Next

\* The turns are kept by every behaviour.
LEMMA Invariant == Spec => []Inv
<1>1. Init => Inv
  BY InitInv
<1>2. Inv /\ [Next]_vars => Inv'
  BY StepInv
<1> QED BY <1>1, <1>2, PTL DEF Spec

LEMMA AtMostOne ==
  ASSUME NEW S, \A x, y \in S : x = y
  PROVE  /\ Cardinality(S) \in 0 .. 1
         /\ S = {} => Cardinality(S) = 0
<1>1. S = {} => Cardinality(S) = 0
  BY FS_EmptySet
<1>2. ASSUME NEW x \in S PROVE Cardinality(S) = 1
  <2>1. S = {x}
    BY <1>2
  <2> QED BY <2>1, FS_Singleton
<1> QED BY <1>1, <1>2

\* As long as every identity drawn was free, what a worker identity is about to
\* receive, works on and has replied is one request at most: recv and send of mdwrkapi
\* alternate, and the broker dispatches to an identity only after its READY or its
\* reply.
THEOREM OneRequest == Spec => []OneRequestPerWorker
<1>1. Inv => OneRequestPerWorker
  <2> SUFFICES ASSUME Inv, ~ clash, NEW i \in WorkerIds
               PROVE  Outstanding(i) <= 1
    BY DEF OneRequestPerWorker
  <2> DEFINE A == {k \in 1 .. Len(toWorker[i]) : toWorker[i][k].cmd = "REQUEST"}
             W == {w \in Workers : worker[w].id = i /\ worker[w].pc = "work"}
             R == {k \in 1 .. Len(toBroker[i]) : toBroker[i][k].cmd = "REPLY"}
  <2>1. Turn(toBroker[i], toWorker[i], worker, broker, i)
    BY DEF Inv, Turns
  <2>2. /\ \A k \in 1 .. Len(toWorker[i]) : toWorker[i][k] \in WorkerMsg
        /\ \A k \in 1 .. Len(toBroker[i]) : toBroker[i][k] \in BrokerMsg
    BY PipesTyped DEF Inv
  <2>3. /\ \A k, l \in A : k = l
        /\ Lacks(toWorker[i], RequestMsgs) => A = {}
    BY <2>1, <2>2 DEF Turn, Single, Lacks, RequestMsgs
  <2>4. /\ \A k, l \in R : k = l
        /\ Lacks(toBroker[i], ReplyMsgs) => R = {}
    BY <2>1, <2>2 DEF Turn, Single, Lacks, ReplyMsgs
  <2>5. /\ \A v, w \in W : v = w
        /\ ~ Works(worker, i) => W = {}
    BY WorkersAssumption DEF Inv, Distinct, Works
  <2>6. /\ A = {} \/ R = {}
        /\ W = {} \/ (A = {} /\ R = {})
    BY <2>1, <2>3, <2>4, <2>5, Zenon DEF Turn
  <2> HIDE DEF A, W, R
  <2>7. /\ Cardinality(A) \in 0 .. 1 /\ (A = {} => Cardinality(A) = 0)
        /\ Cardinality(W) \in 0 .. 1 /\ (W = {} => Cardinality(W) = 0)
        /\ Cardinality(R) \in 0 .. 1 /\ (R = {} => Cardinality(R) = 0)
    BY <2>3, <2>4, <2>5, AtMostOne
  <2>8. Outstanding(i) = Cardinality(A) + Cardinality(W) + Cardinality(R)
    BY DEF Outstanding, A, W, R
  <2> QED BY <2>6, <2>7, <2>8
<1> QED BY <1>1, Invariant, PTL

-----------------------------------------------------------------------------
(***************************************************************************)
(* Custody: where the request of a client is.                              *)
(***************************************************************************)

\* The messages that carry a request of M.
AskedFor(M) == {m \in ClientMsg : m.request \in M}
SentFor(M) == {m \in WorkerMsg : m.request \in M}
RepliedFor(M) == {m \in BrokerMsg : m.request \in M}

\* The places of client c's requests, and of the answer to one.
Places == {"out", "queue", "sent", "work", "back", "in"}
Held == Places \ {"in"}

Empty(x, M, c) ==
    /\ x = "out" => None(clientOut, AskedFor(M))
    /\ x = "queue" => None(broker.requests, M)
    /\ x = "sent" => None(toWorker, SentFor(M))
    /\ x = "work" => \A w \in Workers : worker[w].request \notin M
    /\ x = "back" => None(toBroker, RepliedFor(M))
    /\ x = "in" => clientIn[c] = <<>>

Unique(x, M, c) ==
    /\ x = "out" => One(clientOut, AskedFor(M))
    /\ x = "queue" => One(broker.requests, M)
    /\ x = "sent" => One(toWorker, SentFor(M))
    /\ x = "work" => \A v, w \in Workers : worker[v].request \in M /\ worker[w].request \in M => v = w
    /\ x = "back" => One(toBroker, RepliedFor(M))
    /\ x = "in" => Len(clientIn[c]) <= 1

\* At most one of them is in one place.
Once(M, c) ==
    /\ \A x \in Places : Unique(x, M, c)
    /\ \E x \in Places : \A y \in Places : y # x => Empty(y, M, c)

\* The requests of c, and those that are not its call n.
Of(c) == {r \in Requests : r.client = c}
NotCall(c, n) == {r \in Of(c) : r.seq # n}
Foreign(c) == {m \in ClientMsg : m.request \notin Of(c)}

\* A client has one request on its way, that of its call, or its answer; none when
\* it is ready for the next.
Keep(c) ==
    /\ Once(Of(c), c)
    /\ client[c].pc = "ready" => \A x \in Places : Empty(x, Of(c), c)
    /\ client[c].pc # "wait" => clientIn[c] = <<>>
    /\ \A x \in Held : Empty(x, NotCall(c, client[c].seq), c)
    /\ \A k \in 1 .. Len(clientIn[c]) : clientIn[c][k].seq = client[c].seq
    /\ Lacks(clientOut[c], Foreign(c))

\* In a step, the place x gets nothing; what it had it may lose.
KeepsPlace(x, M, c) ==
    /\ Empty(x, M, c) => Empty(x, M, c)'
    /\ Unique(x, M, c) => Unique(x, M, c)'

\* What was in x is in y, or lost.
MovesOn(x, y, M, c) ==
    /\ ~ Empty(x, M, c)
    /\ Unique(x, M, c) => Empty(x, M, c)'
    /\ Empty(y, M, c) => Unique(y, M, c)'
    /\ \A z \in Places : z # x /\ z # y => KeepsPlace(z, M, c)

LEMMA EmptyIsUnique ==
  ASSUME NEW x, NEW M, NEW c
  PROVE  /\ Empty(x, M, c) => Unique(x, M, c)
         /\ Empty(x, M, c)' => Unique(x, M, c)'
<1>1. /\ None(clientOut, AskedFor(M)) => One(clientOut, AskedFor(M))
      /\ None(broker.requests, M) => One(broker.requests, M)
      /\ None(toWorker, SentFor(M)) => One(toWorker, SentFor(M))
      /\ None(toBroker, RepliedFor(M)) => One(toBroker, RepliedFor(M))
  BY NoneIsOne
<1>2. /\ None(clientOut', AskedFor(M)) => One(clientOut', AskedFor(M))
      /\ None(broker'.requests, M) => One(broker'.requests, M)
      /\ None(toWorker', SentFor(M)) => One(toWorker', SentFor(M))
      /\ None(toBroker', RepliedFor(M)) => One(toBroker', RepliedFor(M))
  BY NoneIsOne
<1>3. Len(<<>>) <= 1
  OBVIOUS
<1> QED BY <1>1, <1>2, <1>3 DEF Empty, Unique, AskedFor, SentFor, RepliedFor

LEMMA OnceMoves ==
  ASSUME NEW M, NEW c, Once(M, c),
         \/ \A x \in Places : KeepsPlace(x, M, c)
         \/ \E x, y \in Places : x # y /\ MovesOn(x, y, M, c)
  PROVE  Once(M, c)'
<1>1. PICK p \in Places : \A y \in Places : y # p => Empty(y, M, c)
  BY DEF Once
<1>2. \A x \in Places : Unique(x, M, c)
  BY DEF Once
<1>3. CASE \A x \in Places : KeepsPlace(x, M, c)
  <2>1. /\ \A x \in Places : Unique(x, M, c)'
        /\ \A y \in Places : y # p => Empty(y, M, c)'
    BY <1>1, <1>2, <1>3 DEF KeepsPlace
  <2> QED BY <2>1 DEF Once
<1>4. ASSUME NEW x \in Places, NEW y \in Places, x # y, MovesOn(x, y, M, c)
      PROVE  Once(M, c)'
  <2>1. p = x
    BY <1>1, <1>4 DEF MovesOn
  <2>2. Empty(x, M, c)' /\ Unique(y, M, c)'
    BY <1>1, <1>2, <1>4, <2>1 DEF MovesOn
  <2>3. \A z \in Places : z # x /\ z # y => Empty(z, M, c)'
    BY <1>1, <1>4, <2>1 DEF MovesOn, KeepsPlace
  <2>4. \A z \in Places : z # y => Empty(z, M, c)'
    BY <2>2, <2>3
  <2>5. \A z \in Places : Unique(z, M, c)'
    BY <2>2, <2>4, EmptyIsUnique
  <2> QED BY <2>4, <2>5 DEF Once
<1> QED BY <1>3, <1>4

LEMMA PlaceMeaning ==
  ASSUME NEW M, NEW c
  PROVE  /\ Empty("out", M, c) <=> None(clientOut, AskedFor(M))
         /\ Empty("queue", M, c) <=> None(broker.requests, M)
         /\ Empty("sent", M, c) <=> None(toWorker, SentFor(M))
         /\ Empty("work", M, c) <=> \A w \in Workers : worker[w].request \notin M
         /\ Empty("back", M, c) <=> None(toBroker, RepliedFor(M))
         /\ Empty("in", M, c) <=> clientIn[c] = <<>>
         /\ Unique("out", M, c) <=> One(clientOut, AskedFor(M))
         /\ Unique("queue", M, c) <=> One(broker.requests, M)
         /\ Unique("sent", M, c) <=> One(toWorker, SentFor(M))
         /\ Unique("work", M, c) <=>
               \A v, w \in Workers : worker[v].request \in M /\ worker[w].request \in M => v = w
         /\ Unique("back", M, c) <=> One(toBroker, RepliedFor(M))
         /\ Unique("in", M, c) <=> Len(clientIn[c]) <= 1
BY DEF Empty, Unique

LEMMA PlaceNext ==
  ASSUME NEW M, NEW c
  PROVE  /\ Empty("out", M, c)' <=> None(clientOut', AskedFor(M))
         /\ Empty("queue", M, c)' <=> None(broker'.requests, M)
         /\ Empty("sent", M, c)' <=> None(toWorker', SentFor(M))
         /\ Empty("work", M, c)' <=> \A w \in Workers : worker'[w].request \notin M
         /\ Empty("back", M, c)' <=> None(toBroker', RepliedFor(M))
         /\ Empty("in", M, c)' <=> clientIn'[c] = <<>>
         /\ Unique("out", M, c)' <=> One(clientOut', AskedFor(M))
         /\ Unique("queue", M, c)' <=> One(broker'.requests, M)
         /\ Unique("sent", M, c)' <=> One(toWorker', SentFor(M))
         /\ Unique("work", M, c)' <=>
               \A v, w \in Workers : worker'[v].request \in M /\ worker'[w].request \in M => v = w
         /\ Unique("back", M, c)' <=> One(toBroker', RepliedFor(M))
         /\ Unique("in", M, c)' <=> Len(clientIn'[c]) <= 1
BY DEF Empty, Unique, AskedFor, SentFor, RepliedFor

\* Places a step does not touch.
LEMMA PlaceUnchanged ==
  ASSUME NEW M, NEW c
  PROVE  /\ clientOut' = clientOut => KeepsPlace("out", M, c)
         /\ broker'.requests = broker.requests => KeepsPlace("queue", M, c)
         /\ toWorker' = toWorker => KeepsPlace("sent", M, c)
         /\ worker' = worker => KeepsPlace("work", M, c)
         /\ toBroker' = toBroker => KeepsPlace("back", M, c)
         /\ clientIn'[c] = clientIn[c] => KeepsPlace("in", M, c)
BY PlaceMeaning, PlaceNext DEF KeepsPlace

\* The pipes between the broker and the workers.
LEMMA PipePlaces ==
  ASSUME NEW M, NEW c
  PROVE  /\ /\ None(toWorker, SentFor(M)) => None(toWorker', SentFor(M))
            /\ One(toWorker, SentFor(M)) => One(toWorker', SentFor(M))
            => KeepsPlace("sent", M, c)
         /\ /\ None(toBroker, RepliedFor(M)) => None(toBroker', RepliedFor(M))
            /\ One(toBroker, RepliedFor(M)) => One(toBroker', RepliedFor(M))
            => KeepsPlace("back", M, c)
         /\ /\ None(clientOut, AskedFor(M)) => None(clientOut', AskedFor(M))
            /\ One(clientOut, AskedFor(M)) => One(clientOut', AskedFor(M))
            => KeepsPlace("out", M, c)
         /\ /\ None(broker.requests, M) => None(broker'.requests, M)
            /\ One(broker.requests, M) => One(broker'.requests, M)
            => KeepsPlace("queue", M, c)
BY PlaceMeaning, PlaceNext DEF KeepsPlace

\* What a worker has in its hands.
LEMMA WorkPlace ==
  ASSUME TypeInv, NEW M, NEW c, NEW w \in Workers, NEW s, worker' = [worker EXCEPT ![w] = s]
  PROVE  /\ s.request \notin M => KeepsPlace("work", M, c)
         /\ Empty("work", M, c) => Unique("work", M, c)'
         /\ worker[w].request \in M /\ s.request \notin M =>
               ~ Empty("work", M, c) /\ (Unique("work", M, c) => Empty("work", M, c)')
<1>1. worker'[w] = s /\ \A v \in Workers : v # w => worker'[v] = worker[v]
  BY DEF TypeInv
<1> QED BY <1>1, PlaceMeaning, PlaceNext DEF KeepsPlace

LEMMA AllPlaces ==
  ASSUME NEW M, NEW c, KeepsPlace("out", M, c), KeepsPlace("queue", M, c), KeepsPlace("sent", M, c),
         KeepsPlace("work", M, c), KeepsPlace("back", M, c), KeepsPlace("in", M, c)
  PROVE  \A x \in Places : KeepsPlace(x, M, c)
BY DEF Places

LEMMA ConnectCarries ==
  ASSUME TypeInv, NEW w \in Workers, NEW i \in WorkerIds \cup {NoId}, Connects(w, i),
         NEW M, NoRequest \notin M, NEW c
  PROVE  KeepsPlace("sent", M, c) /\ KeepsPlace("back", M, c) /\ KeepsPlace("work", M, c)
<1>1. /\ toBroker \in [WorkerIds -> Seq(BrokerMsg)] /\ toBroker' \in [WorkerIds -> Seq(BrokerMsg)]
      /\ toWorker \in [WorkerIds -> Seq(WorkerMsg)] /\ toWorker' \in [WorkerIds -> Seq(WorkerMsg)]
  BY DEF TypeInv, ToBroker, ToWorker, Connects
<1>2. i \in WorkerIds => Lacks(toBroker'[i], RepliedFor(M))
  <2>1. READY(w) \notin RepliedFor(M)
    BY DEF READY, FromWorker, RepliedFor
  <2> QED BY <2>1 DEF Connects, Lacks
<1>3. \A j \in WorkerIds : Part(toBroker[j], toBroker'[j]) \/ Lacks(toBroker'[j], RepliedFor(M))
  BY <1>2 DEF Connects
<1>4. \A j \in WorkerIds : Part(toWorker[j], toWorker'[j]) \/ Lacks(toWorker'[j], SentFor(M))
  BY DEF Connects
<1>5. KeepsPlace("back", M, c)
  BY <1>1, <1>3, LosesKeeps, PipePlaces
<1>6. KeepsPlace("sent", M, c)
  BY <1>1, <1>4, LosesKeeps, PipePlaces
<1>7. KeepsPlace("work", M, c)
  <2>1. PICK s \in Up({"recv"}, {NoRequest}) : s.id = i /\ worker' = [worker EXCEPT ![w] = s]
    BY DEF Connects
  <2>2. s.request = NoRequest
    BY DEF Up
  <2> QED BY <2>1, <2>2, WorkPlace
<1> QED BY <1>5, <1>6, <1>7

LEMMA WorkerCarries ==
  ASSUME TypeInv, NEW w \in Workers, WorkerStep(w) \/ WorkerDies(w),
         NEW M, NoRequest \notin M, NEW c
  PROVE  \/ \A x \in Places : KeepsPlace(x, M, c)
         \/ MovesOn("sent", "work", M, c)
         \/ MovesOn("work", "back", M, c)
<1> DEFINE i == worker[w].id
<1>1. worker[w] \in WorkerState
  BY DEF TypeInv
<1>2. i \notin WorkerIds => /\ \A t : [toBroker EXCEPT ![i] = t] = toBroker
                           /\ \A t : [toWorker EXCEPT ![i] = t] = toWorker
  BY DEF TypeInv, ToBroker, ToWorker
<1>3. /\ toBroker \in [WorkerIds -> Seq(BrokerMsg)] /\ toWorker \in [WorkerIds -> Seq(WorkerMsg)]
      /\ i \in WorkerIds => toBroker[i] \in Seq(BrokerMsg) /\ toWorker[i] \in Seq(WorkerMsg)
  BY DEF TypeInv, ToBroker, ToWorker
<1>4. UNCHANGED <<broker, client, clientOut, clientIn>>
  BY WorkerKinds
<1>5. KeepsPlace("out", M, c) /\ KeepsPlace("queue", M, c) /\ KeepsPlace("in", M, c)
  BY <1>4, PlaceUnchanged
<1>6. ASSUME KeepsPlace("sent", M, c), KeepsPlace("work", M, c), KeepsPlace("back", M, c)
      PROVE  \A x \in Places : KeepsPlace(x, M, c)
  BY <1>5, <1>6, AllPlaces
<1>7. ASSUME NEW s, s.request \notin M, worker' = [worker EXCEPT ![w] = s]
      PROVE  KeepsPlace("work", M, c)
  BY <1>7, WorkPlace
<1>8. ASSUME NEW t, i \in WorkerIds => t \in Seq(WorkerMsg) /\ Part(toWorker[i], t),
             toWorker' = [toWorker EXCEPT ![i] = t]
      PROVE  KeepsPlace("sent", M, c)
  <2>1. CASE i \notin WorkerIds
    <3>1. toWorker' = toWorker
      BY <1>2, <1>8, <2>1
    <3> QED BY <3>1, PlaceUnchanged
  <2>2. CASE i \in WorkerIds
    <3> HIDE DEF i
    <3> QED BY <1>3, <1>8, <2>2, OneShrinks, PipePlaces
  <2> QED BY <2>1, <2>2
<1>9. ASSUME NEW t, i \in WorkerIds => t \in Seq(BrokerMsg) /\ Part(toBroker[i], t),
             toBroker' = [toBroker EXCEPT ![i] = t]
      PROVE  KeepsPlace("back", M, c)
  <2>1. CASE i \notin WorkerIds
    <3>1. toBroker' = toBroker
      BY <1>2, <1>9, <2>1
    <3> QED BY <3>1, PlaceUnchanged
  <2>2. CASE i \in WorkerIds
    <3> HIDE DEF i
    <3> QED BY <1>3, <1>9, <2>2, OneShrinks, PipePlaces
  <2> QED BY <2>1, <2>2
<1>10. ASSUME NEW j \in WorkerIds \cup {NoId}, Connects(w, j)
       PROVE  \A x \in Places : KeepsPlace(x, M, c)
  BY <1>6, <1>10, ConnectCarries
<1>11. CASE Passes(w)
  <2>1. PICK s \in Up({"recv"}, {NoRequest}) : s.id = i /\ worker' = [worker EXCEPT ![w] = s]
    BY <1>11 DEF Passes
  <2>2. PICK t : /\ i \in WorkerIds => t \in Seq(WorkerMsg) /\ Part(toWorker[i], t)
                 /\ toWorker' = [toWorker EXCEPT ![i] = t]
    BY <1>11 DEF Passes
  <2>3. s.request = NoRequest
    BY DEF Up
  <2>4. KeepsPlace("back", M, c)
    <3>1. ASSUME toBroker' = toBroker PROVE KeepsPlace("back", M, c)
      BY <3>1, PlaceUnchanged
    <3>2. CASE toBroker' = [toBroker EXCEPT ![i] = Append(@, HEARTBEAT)] /\ i \in WorkerIds
      <4>1. HEARTBEAT \in BrokerMsg /\ HEARTBEAT \notin RepliedFor(M)
        BY Messages DEF HEARTBEAT, FromWorker, RepliedFor
      <4> HIDE DEF i
      <4>2. /\ None(toBroker, RepliedFor(M)) => None(toBroker', RepliedFor(M))
            /\ One(toBroker, RepliedFor(M)) => One(toBroker', RepliedFor(M))
        BY <1>3, <3>2, <4>1, OneAppends
      <4> QED BY <4>2, PipePlaces
    <3>3. CASE toBroker' = [toBroker EXCEPT ![i] = Append(@, HEARTBEAT)] /\ i \notin WorkerIds
      BY <1>2, <3>1, <3>3
    <3> QED BY <1>11, <3>1, <3>2, <3>3 DEF Passes
  <2> QED BY <1>6, <1>7, <1>8, <2>1, <2>2, <2>3, <2>4
<1>12. CASE Takes(w)
  <2> DEFINE m == Head(toWorker[i])
  <2>1. PICK s \in Up({"work"}, Requests) : s.request = m.request /\ worker' = [worker EXCEPT ![w] = s]
    BY <1>12 DEF Takes
  <2>2. /\ worker[w].pc = "recv" /\ toWorker[i] # <<>> /\ toBroker' = toBroker /\ i \in WorkerIds
        /\ toWorker' = [toWorker EXCEPT ![i] = Tail(@)]
    BY <1>12 DEF Takes
  <2>3. m \in WorkerMsg /\ Tail(toWorker[i]) \in Seq(WorkerMsg) /\ Part(toWorker[i], Tail(toWorker[i]))
    BY <1>3, <2>2, Parts
  <2>4. KeepsPlace("back", M, c)
    BY <2>2, PlaceUnchanged
  <2>5. CASE m.request \notin M
    <3>1. toWorker' = [toWorker EXCEPT ![i] = Tail(toWorker[i])]
      BY <2>2
    <3> HIDE DEF m, i
    <3> QED BY <1>6, <1>7, <1>8, <2>1, <2>2, <2>3, <2>4, <2>5, <3>1 DEF i
  <2>6. CASE m.request \in M
    <3>1. m \in SentFor(M)
      BY <2>3, <2>6 DEF SentFor
    <3>2. One(toWorker, SentFor(M)) => None(toWorker', SentFor(M))
      <4> HIDE DEF i
      <4> QED BY <1>3, <2>2, <3>1, ReadTakesOnly DEF m
    <3>3. ~ None(toWorker, SentFor(M))
      <4>1. ~ Lacks(toWorker[i], SentFor(M))
        BY <1>3, <2>2, <3>1, TailLacks
      <4> QED BY <1>3, <2>2, <4>1 DEF None, Lacks
    <3>4. Empty("work", M, c) => Unique("work", M, c)'
      BY <2>1, WorkPlace
    <3>5. ~ Empty("sent", M, c) /\ (Unique("sent", M, c) => Empty("sent", M, c)')
      BY <3>2, <3>3, PlaceMeaning, PlaceNext
    <3>6. \A z \in Places : z # "sent" /\ z # "work" => KeepsPlace(z, M, c)
      BY <1>5, <2>4 DEF Places
    <3>7. MovesOn("sent", "work", M, c)
      BY <3>4, <3>5, <3>6, Zenon DEF MovesOn
    <3> QED BY <3>7
  <2> QED BY <2>5, <2>6
<1>13. CASE Replies(w)
  <2> DEFINE m == FromWorker("REPLY", NoName, worker[w].request)
  <2>1. PICK s \in Up({"recv"}, {NoRequest}) : s.id = i /\ worker' = [worker EXCEPT ![w] = s]
    BY <1>13 DEF Replies
  <2>2. /\ toWorker' = toWorker /\ s.request = NoRequest /\ worker[w].request \in Requests
        /\ toBroker' = [toBroker EXCEPT ![i] = Append(@, m)]
    BY <1>13 DEF Replies, Up
  <2>3. m \in BrokerMsg /\ m.request = worker[w].request
    BY <2>2, Messages DEF FromWorker
  <2>4. KeepsPlace("sent", M, c)
    BY <2>2, PlaceUnchanged
  <2>9. CASE i \notin WorkerIds
    <3>1. toBroker' = toBroker
      BY <1>2, <2>2, <2>9
    <3>2. KeepsPlace("back", M, c)
      BY <3>1, PlaceUnchanged
    <3> QED BY <1>6, <1>7, <2>1, <2>2, <2>4, <3>2
  <2> HIDE DEF i, m
  <2>5. toBroker' = [toBroker EXCEPT ![i] = Append(@, m)]
    BY <2>2
  <2>6. i \in WorkerIds =>
        /\ m \notin RepliedFor(M) => /\ None(toBroker, RepliedFor(M)) => None(toBroker', RepliedFor(M))
                                     /\ One(toBroker, RepliedFor(M)) => One(toBroker', RepliedFor(M))
        /\ None(toBroker, RepliedFor(M)) => One(toBroker', RepliedFor(M))
    BY <1>3, <2>3, <2>5, OneAppends
  <2>7. CASE i \in WorkerIds /\ worker[w].request \notin M
    <3>1. m \notin RepliedFor(M)
      BY <2>3, <2>7 DEF RepliedFor
    <3>2. KeepsPlace("back", M, c)
      BY <2>6, <2>7, <3>1, PipePlaces
    <3> QED BY <1>6, <1>7, <2>1, <2>2, <2>4, <3>2
  <2>8. CASE i \in WorkerIds /\ worker[w].request \in M
    <3>1. ~ Empty("work", M, c) /\ (Unique("work", M, c) => Empty("work", M, c)')
      BY <2>1, <2>2, <2>8, WorkPlace
    <3>2. Empty("back", M, c) => Unique("back", M, c)'
      BY <2>6, <2>8, PlaceMeaning, PlaceNext
    <3>3. \A z \in Places : z # "work" /\ z # "back" => KeepsPlace(z, M, c)
      BY <1>5, <2>4 DEF Places
    <3>4. MovesOn("work", "back", M, c)
      BY <3>1, <3>2, <3>3, Zenon DEF MovesOn
    <3> QED BY <3>4
  <2> QED BY <2>7, <2>8, <2>9
<1>14. CASE Dies(w)
  <2>1. PICK t : /\ i \in WorkerIds => t \in Seq(BrokerMsg) /\ Part(toBroker[i], t)
                 /\ toBroker' = [toBroker EXCEPT ![i] = t]
    BY <1>14 DEF Dies
  <2>2. worker' = [worker EXCEPT ![w] = NoWorker] /\ toWorker' = [toWorker EXCEPT ![i] = <<>>]
    BY <1>14 DEF Dies
  <2>3. i \in WorkerIds => <<>> \in Seq(WorkerMsg) /\ Part(toWorker[i], <<>>)
    BY <1>3, Parts
  <2>4. NoWorker.request = NoRequest
    BY DEF NoWorker
  <2> QED BY <1>6, <1>7, <1>8, <1>9, <2>1, <2>2, <2>3, <2>4
<1> QED BY <1>10, <1>11, <1>12, <1>13, <1>14, WorkerKinds

\* The requests that the handlers dispatch, from the queues q on.
LEMMA DispatchCarries ==
  ASSUME TypeInv, NEW S, NEW F, NEW q, Handled(broker', S, F, q), NEW M, NoRequest \notin M
  PROVE  /\ None(q, M) =>
               /\ None(broker'.requests, M)
               /\ None(toWorker, SentFor(M)) => None(toWorker', SentFor(M))
               /\ One(toWorker, SentFor(M)) => One(toWorker', SentFor(M))
         /\ One(q, M) /\ None(toWorker, SentFor(M)) =>
               /\ One(broker'.requests, M) /\ One(toWorker', SentFor(M))
               /\ None(broker'.requests, M) \/ None(toWorker', SentFor(M))
<1>1. P!Moves(q, broker'.requests, S, M) /\ S \subseteq P!Outgoing
  BY DEF Handled, P!Serves
<1>2. /\ None(q, M) => None(broker'.requests, M) /\ \A m \in S : m.body \notin M
      /\ One(q, M) => /\ One(broker'.requests, M)
                      /\ \A m, l \in S : m.body \in M /\ l.body \in M => m.to = l.to
                      /\ None(broker'.requests, M) \/ \A m \in S : m.body \notin M
  <2>1. /\ P!None(q, M) <=> None(q, M)
        /\ P!None(broker'.requests, M) <=> None(broker'.requests, M)
        /\ P!One(q, M) <=> One(q, M)
        /\ P!One(broker'.requests, M) <=> One(broker'.requests, M)
    BY Zenon DEF P!None, None, P!One, One
  <2> QED BY <1>1, <2>1, Zenon DEF P!Moves
<1>3. PICK x : Given(S, x) /\ toWorker' = Sends(WorkerIds, toWorker, x)
  BY <1>1, DeliverFacts DEF Handled
<1>4. toWorker \in [WorkerIds -> Seq(WorkerMsg)] /\ x \in [WorkerIds -> Seq(WorkerMsg)]
  BY <1>3 DEF TypeInv, ToWorker, Given
<1>5. ASSUME NEW j \in WorkerIds, NEW k \in 1 .. Len(x[j]), x[j][k] \in SentFor(M)
      PROVE  k = 1 /\ \E m \in S : m.to = j /\ m.body \in M
  <2>1. x[j] # <<>>
    BY <1>5
  <2>2. PICK m \in S : m.to = j /\ x[j] = <<Told(m)>>
    BY <1>3, <2>1 DEF Given
  <2>3. k = 1 /\ x[j][k] = Told(m)
    BY <1>5, <2>2
  <2>4. m.body \in M
    BY <1>1, <1>5, <2>3, ToldFields DEF SentFor
  <2> QED BY <2>2, <2>3, <2>4
<1>6. (\A m \in S : m.body \notin M) => None(x, SentFor(M))
  BY <1>4, <1>5 DEF None
<1>7. ASSUME \A m, l \in S : m.body \in M /\ l.body \in M => m.to = l.to
      PROVE  One(x, SentFor(M))
  <2> SUFFICES ASSUME NEW v \in DOMAIN x, NEW w \in DOMAIN x, NEW k \in 1 .. Len(x[v]), NEW l \in 1 .. Len(x[w]),
                      x[v][k] \in SentFor(M), x[w][l] \in SentFor(M)
               PROVE  v = w /\ k = l
    BY DEF One
  <2>1. v \in WorkerIds /\ w \in WorkerIds
    BY <1>4
  <2>2. k = 1 /\ \E m \in S : m.to = v /\ m.body \in M
    BY <1>5, <2>1
  <2>3. l = 1 /\ \E m \in S : m.to = w /\ m.body \in M
    BY <1>5, <2>1
  <2> QED BY <1>7, <2>2, <2>3
<1>8. /\ None(x, SentFor(M)) /\ None(toWorker, SentFor(M)) => None(toWorker', SentFor(M))
      /\ None(x, SentFor(M)) /\ One(toWorker, SentFor(M)) => One(toWorker', SentFor(M))
      /\ One(x, SentFor(M)) /\ None(toWorker, SentFor(M)) => One(toWorker', SentFor(M))
  BY <1>3, <1>4, SendsKeep
<1> QED BY <1>2, <1>6, <1>7, <1>8, Zenon

\* The same, of places, when q is the queues before or differs by other requests.
LEMMA QueueSettles ==
  ASSUME TypeInv, NEW S, NEW F, NEW q, Handled(broker', S, F, q), NEW M, NoRequest \notin M, NEW c,
         None(broker.requests, M) => None(q, M),
         One(broker.requests, M) => One(q, M)
  PROVE  /\ Empty("queue", M, c) => KeepsPlace("queue", M, c) /\ KeepsPlace("sent", M, c)
         /\ Unique("queue", M, c) /\ Empty("sent", M, c) =>
               /\ Unique("queue", M, c)' /\ Unique("sent", M, c)'
               /\ Empty("queue", M, c)' \/ Empty("sent", M, c)'
<1>1. /\ None(q, M) =>
            /\ None(broker'.requests, M)
            /\ None(toWorker, SentFor(M)) => None(toWorker', SentFor(M))
            /\ One(toWorker, SentFor(M)) => One(toWorker', SentFor(M))
      /\ One(q, M) /\ None(toWorker, SentFor(M)) =>
            /\ One(broker'.requests, M) /\ One(toWorker', SentFor(M))
            /\ None(broker'.requests, M) \/ None(toWorker', SentFor(M))
  BY DispatchCarries
<1>2. None(broker'.requests, M) => One(broker'.requests, M)
  BY NoneIsOne
<1>3. ASSUME Empty("queue", M, c)
      PROVE  KeepsPlace("queue", M, c) /\ KeepsPlace("sent", M, c)
  <2>1. None(q, M)
    BY <1>3, PlaceMeaning
  <2> QED BY <1>1, <1>2, <2>1, PipePlaces
<1>4. ASSUME Unique("queue", M, c), Empty("sent", M, c)
      PROVE  /\ Unique("queue", M, c)' /\ Unique("sent", M, c)'
             /\ Empty("queue", M, c)' \/ Empty("sent", M, c)'
  <2>1. One(q, M) /\ None(toWorker, SentFor(M))
    BY <1>4, PlaceMeaning
  <2> QED BY <1>1, <2>1, PlaceNext
<1> QED BY <1>3, <1>4

\* The other places as they were, what was queued is queued or sent.
LEMMA OnceHandled ==
  ASSUME NEW M, NEW c, Once(M, c),
         KeepsPlace("out", M, c), KeepsPlace("work", M, c), KeepsPlace("back", M, c), KeepsPlace("in", M, c),
         Empty("queue", M, c) => KeepsPlace("queue", M, c) /\ KeepsPlace("sent", M, c),
         Unique("queue", M, c) /\ Empty("sent", M, c) =>
            /\ Unique("queue", M, c)' /\ Unique("sent", M, c)'
            /\ Empty("queue", M, c)' \/ Empty("sent", M, c)'
  PROVE  Once(M, c)'
<1>1. PICK p \in Places : \A y \in Places : y # p => Empty(y, M, c)
  BY DEF Once
<1>2. \A x \in Places : Unique(x, M, c)
  BY DEF Once
<1>3. CASE p # "queue"
  <2>1. Empty("queue", M, c)
    BY <1>1, <1>3 DEF Places
  <2> QED BY <2>1, AllPlaces, OnceMoves
<1>4. CASE p = "queue"
  <2>1. \A y \in {"out", "sent", "work", "back", "in"} : Empty(y, M, c)
    BY <1>1, <1>4 DEF Places
  <2>2. /\ Unique("queue", M, c)' /\ Unique("sent", M, c)'
        /\ Empty("queue", M, c)' \/ Empty("sent", M, c)'
    BY <1>2, <2>1 DEF Places
  <2>3. \A y \in {"out", "work", "back", "in"} : Empty(y, M, c)' /\ Unique(y, M, c)'
    BY <2>1, EmptyIsUnique DEF KeepsPlace
  <2>4. \A y \in Places : Unique(y, M, c)'
    BY <2>2, <2>3 DEF Places
  <2>5. CASE Empty("queue", M, c)'
    <3>1. "sent" \in Places /\ \A y \in Places : y # "sent" => Empty(y, M, c)'
      BY <2>3, <2>5 DEF Places
    <3> QED BY <2>4, <3>1, Zenon DEF Once
  <2>6. CASE Empty("sent", M, c)'
    <3>1. "queue" \in Places /\ \A y \in Places : y # "queue" => Empty(y, M, c)'
      BY <2>3, <2>6 DEF Places
    <3> QED BY <2>4, <3>1, Zenon DEF Once
  <2> QED BY <2>2, <2>5, <2>6
<1> QED BY <1>3, <1>4

LEMMA RequestSets ==
  ASSUME NEW c
  PROVE  /\ NoRequest \notin Of(c)
         /\ \A n : NoRequest \notin NotCall(c, n) /\ NotCall(c, n) \subseteq Of(c)
         /\ \A r \in Of(c) : r \in Requests /\ r.client = c
         /\ \A n : \A r \in Of(c) : r \notin NotCall(c, n) => r.seq = n
BY RequestsAssumption DEF Of, NotCall

LEMMA EmptyFewer ==
  ASSUME NEW M, NEW L, L \subseteq M, NEW c, NEW x \in Held, Empty(x, M, c)
  PROVE  Empty(x, L, c)
<1>1. AskedFor(L) \subseteq AskedFor(M) /\ SentFor(L) \subseteq SentFor(M) /\ RepliedFor(L) \subseteq RepliedFor(M)
  BY DEF AskedFor, SentFor, RepliedFor
<1> QED BY <1>1, NoneOfFewer DEF Empty, Held

\* A step that takes client c no further: its requests stay in custody, those that
\* are nowhere stay nowhere, and its pipe loses answers or gets that of its call.
Carries(c) ==
    /\ client'[c] = client[c]
    /\ Once(Of(c), c)'
    /\ \A L \in SUBSET Of(c) : (\A x \in Held : Empty(x, L, c)) => \A x \in Held : Empty(x, L, c)'
    /\ \/ Part(clientIn[c], clientIn'[c])
       \/ /\ client[c].pc = "wait"
          /\ \E e \in AnswerMsg : e.seq = client[c].seq /\ clientIn'[c] = Append(clientIn[c], e)
    /\ Part(clientOut[c], clientOut'[c])

LEMMA CarriesKeeps ==
  ASSUME TypeInv, TypeInv', NEW c \in Clients, Keep(c), Carries(c)
  PROVE  Keep(c)'
<1>1. /\ clientIn[c] \in Seq(AnswerMsg) /\ clientIn'[c] \in Seq(AnswerMsg)
      /\ clientOut[c] \in Seq(ClientMsg) /\ clientOut'[c] \in Seq(ClientMsg)
  BY DEF TypeInv, ClientIn, ClientOut
<1>2. ASSUME Part(clientIn[c], clientIn'[c])
      PROVE  /\ clientIn[c] = <<>> => clientIn'[c] = <<>>
             /\ (\A k \in 1 .. Len(clientIn[c]) : clientIn[c][k].seq = client[c].seq) =>
                  \A k \in 1 .. Len(clientIn'[c]) : clientIn'[c][k].seq = client[c].seq
  <2>1. PICK n \in 0 .. Len(clientIn[c]) :
           /\ Len(clientIn'[c]) + n <= Len(clientIn[c])
           /\ \A k \in 1 .. Len(clientIn'[c]) : clientIn'[c][k] = clientIn[c][k + n]
    BY <1>2 DEF Part
  <2>2. \A k \in 1 .. Len(clientIn'[c]) : k + n \in 1 .. Len(clientIn[c])
    BY <1>1, <2>1
  <2>3. clientIn[c] = <<>> => clientIn'[c] = <<>>
    BY <1>1, <2>1
  <2> QED BY <2>1, <2>2, <2>3
<1>3. client[c].pc # "wait" => Part(clientIn[c], clientIn'[c]) /\ clientIn'[c] = <<>>
  BY <1>2 DEF Keep, Carries
<1>4. \A k \in 1 .. Len(clientIn'[c]) : clientIn'[c][k].seq = client[c].seq
  <2>1. ASSUME NEW e \in AnswerMsg, e.seq = client[c].seq, clientIn'[c] = Append(clientIn[c], e)
        PROVE  \A k \in 1 .. Len(clientIn'[c]) : clientIn'[c][k].seq = client[c].seq
    BY <1>1, <2>1 DEF Keep
  <2> QED BY <1>2, <2>1 DEF Keep, Carries
<1>5. client[c].pc = "ready" => \A x \in Places : Empty(x, Of(c), c)'
  <2> SUFFICES ASSUME client[c].pc = "ready"
               PROVE  \A x \in Places : Empty(x, Of(c), c)'
    OBVIOUS
  <2>1. \A x \in Held : Empty(x, Of(c), c)
    BY DEF Keep, Held
  <2>2. \A x \in Held : Empty(x, Of(c), c)'
    BY <2>1 DEF Carries
  <2>3. Empty("in", Of(c), c)'
    BY <1>3, PlaceNext
  <2> QED BY <2>2, <2>3 DEF Held
<1>6. \A x \in Held : Empty(x, NotCall(c, client[c].seq), c)'
  <2> DEFINE L == NotCall(c, client[c].seq)
  <2>1. L \in SUBSET Of(c) /\ \A x \in Held : Empty(x, L, c)
    BY RequestSets DEF Keep
  <2>2. (\A x \in Held : Empty(x, L, c)) => \A x \in Held : Empty(x, L, c)'
    BY <2>1 DEF Carries
  <2> QED BY <2>1, <2>2
<1>7. Lacks(clientOut'[c], Foreign(c))
  BY <1>1, PartKeeps DEF Keep, Carries
<1>8. client'[c] = client[c] /\ Once(Of(c), c)'
  BY DEF Carries
<1> QED BY <1>3, <1>4, <1>5, <1>6, <1>7, <1>8 DEF Keep

\* A client that loses at most something of its pipes, while its requests stay where
\* they are or a worker takes or answers one.
LEMMA PlacesCarry ==
  ASSUME NEW c, Keep(c), client'[c] = client[c],
         Part(clientIn[c], clientIn'[c]), Part(clientOut[c], clientOut'[c]),
         \A M \in SUBSET Of(c) : \/ \A x \in Places : KeepsPlace(x, M, c)
                                 \/ MovesOn("sent", "work", M, c)
                                 \/ MovesOn("work", "back", M, c)
  PROVE  Carries(c)
<1>1. /\ "sent" \in Places /\ "work" \in Places /\ "back" \in Places
      /\ "sent" \in Held /\ "work" \in Held /\ Held \subseteq Places
  BY DEF Places, Held
<1>2. Once(Of(c), c)'
  <2>1. \/ \A x \in Places : KeepsPlace(x, Of(c), c)
        \/ \E x, y \in Places : x # y /\ MovesOn(x, y, Of(c), c)
    BY <1>1
  <2>2. Once(Of(c), c)
    BY DEF Keep
  <2> QED BY <2>1, <2>2, OnceMoves
<1>3. ASSUME NEW L \in SUBSET Of(c), \A x \in Held : Empty(x, L, c)
      PROVE  \A x \in Held : Empty(x, L, c)'
  <2>1. \A x \in Places : KeepsPlace(x, L, c)
    BY <1>1, <1>3 DEF MovesOn
  <2> QED BY <1>1, <1>3, <2>1 DEF KeepsPlace
<1> QED BY <1>2, <1>3 DEF Carries

\* What a client loses of its pipe.
LEMMA PartIn ==
  ASSUME NEW c, NEW M, Len(clientIn[c]) \in Nat, clientIn'[c] \in Seq(AnswerMsg),
         clientIn[c] = <<>> => Len(clientIn[c]) = 0, Part(clientIn[c], clientIn'[c])
  PROVE  KeepsPlace("in", M, c)
<1>1. Len(clientIn'[c]) <= Len(clientIn[c]) /\ Len(clientIn'[c]) \in Nat
  BY DEF Part
<1>2. Len(clientIn'[c]) = 0 => clientIn'[c] = <<>>
  OBVIOUS
<1> QED BY <1>1, <1>2, PlaceMeaning, PlaceNext DEF KeepsPlace

LEMMA ClientPipes ==
  ASSUME TypeInv, NEW c \in Clients
  PROVE  /\ clientIn[c] \in Seq(AnswerMsg) /\ Len(clientIn[c]) \in Nat
         /\ clientIn[c] = <<>> => Len(clientIn[c]) = 0
         /\ clientOut[c] \in Seq(ClientMsg) /\ Part(clientOut[c], clientOut[c])
         /\ Part(clientIn[c], clientIn[c])
<1>1. clientIn[c] \in Seq(AnswerMsg) /\ clientOut[c] \in Seq(ClientMsg)
  BY DEF TypeInv, ClientIn, ClientOut
<1>2. Part(clientOut[c], clientOut[c]) /\ Part(clientIn[c], clientIn[c])
  BY <1>1, Parts
<1> QED BY <1>1, <1>2

LEMMA WorkersCarry ==
  ASSUME TypeInv, NEW w \in Workers, WorkerStep(w) \/ WorkerDies(w),
         NEW c \in Clients, Keep(c)
  PROVE  Carries(c)
<1>1. UNCHANGED <<client, clientOut, clientIn>>
  BY WorkerKinds
<1>2. ASSUME NEW M \in SUBSET Of(c)
      PROVE  \/ \A x \in Places : KeepsPlace(x, M, c)
             \/ MovesOn("sent", "work", M, c)
             \/ MovesOn("work", "back", M, c)
  <2>1. NoRequest \notin M
    BY RequestSets
  <2> QED BY <2>1, WorkerCarries
<1> QED BY <1>1, <1>2, ClientPipes, PlacesCarry

LEMMA RestartCarries ==
  ASSUME TypeInv, BrokerRestart, NEW c \in Clients, Keep(c)
  PROVE  Carries(c)
<1>1. /\ broker' = P!EmptyBroker /\ UNCHANGED client
      /\ \A w \in Workers : worker'[w].request = worker[w].request
      /\ toBroker' \in ToBroker /\ \A i \in WorkerIds : Part(toBroker[i], toBroker'[i])
      /\ toWorker' \in ToWorker /\ \A i \in WorkerIds : Part(toWorker[i], toWorker'[i])
      /\ clientOut' \in ClientOut /\ \A d \in Clients : Part(clientOut[d], clientOut'[d])
      /\ clientIn' \in ClientIn /\ \A d \in Clients : Part(clientIn[d], clientIn'[d])
  BY RestartFacts
<1>2. ASSUME NEW M
      PROVE  \A x \in Places : KeepsPlace(x, M, c)
  <2>1. KeepsPlace("out", M, c)
    <3>1. clientOut \in [Clients -> Seq(ClientMsg)] /\ clientOut' \in [Clients -> Seq(ClientMsg)]
      BY <1>1 DEF TypeInv, ClientOut
    <3>2. \A d \in Clients : Part(clientOut[d], clientOut'[d])
      BY <1>1
    <3>3. /\ None(clientOut, AskedFor(M)) => None(clientOut', AskedFor(M))
          /\ One(clientOut, AskedFor(M)) => One(clientOut', AskedFor(M))
      BY <3>1, <3>2, LosesKeeps
    <3> QED BY <3>3, PipePlaces
  <2>2. KeepsPlace("sent", M, c)
    <3>1. toWorker \in [WorkerIds -> Seq(WorkerMsg)] /\ toWorker' \in [WorkerIds -> Seq(WorkerMsg)]
      BY <1>1 DEF TypeInv, ToWorker
    <3>2. \A i \in WorkerIds : Part(toWorker[i], toWorker'[i])
      BY <1>1
    <3>3. /\ None(toWorker, SentFor(M)) => None(toWorker', SentFor(M))
          /\ One(toWorker, SentFor(M)) => One(toWorker', SentFor(M))
      BY <3>1, <3>2, LosesKeeps
    <3> QED BY <3>3, PipePlaces
  <2>3. KeepsPlace("back", M, c)
    <3>1. toBroker \in [WorkerIds -> Seq(BrokerMsg)] /\ toBroker' \in [WorkerIds -> Seq(BrokerMsg)]
      BY <1>1 DEF TypeInv, ToBroker
    <3>2. \A i \in WorkerIds : Part(toBroker[i], toBroker'[i])
      BY <1>1
    <3>3. /\ None(toBroker, RepliedFor(M)) => None(toBroker', RepliedFor(M))
          /\ One(toBroker, RepliedFor(M)) => One(toBroker', RepliedFor(M))
      BY <3>1, <3>2, LosesKeeps
    <3> QED BY <3>3, PipePlaces
  <2>4. KeepsPlace("queue", M, c)
    <3>1. broker'.requests = [n \in Names |-> <<>>]
      BY <1>1 DEF P!EmptyBroker
    <3>2. None(broker'.requests, M)
      BY <3>1 DEF None
    <3> QED BY <3>2, NoneIsOne, PipePlaces
  <2>5. KeepsPlace("work", M, c)
    BY <1>1, PlaceMeaning, PlaceNext DEF KeepsPlace
  <2>6. KeepsPlace("in", M, c)
    <3>1. clientIn'[c] \in Seq(AnswerMsg) /\ Part(clientIn[c], clientIn'[c])
      BY <1>1 DEF ClientIn
    <3> QED BY <3>1, ClientPipes, PartIn
  <2> QED BY <2>1, <2>2, <2>3, <2>4, <2>5, <2>6, AllPlaces
<1>3. client'[c] = client[c] /\ Part(clientIn[c], clientIn'[c]) /\ Part(clientOut[c], clientOut'[c])
  BY <1>1
<1> QED BY <1>2, <1>3, PlacesCarry

LEMMA TickCarries ==
  ASSUME TypeInv, P!Consistent(broker), Tick, NEW c \in Clients, Keep(c)
  PROVE  Carries(c)
<1>1. /\ \A w \in Workers : worker'[w].request = worker[w].request
      /\ broker'.requests = broker.requests
      /\ UNCHANGED <<client, toBroker, toWorker, clientOut, clientIn>>
  BY TickFacts
<1>2. ASSUME NEW M
      PROVE  \A x \in Places : KeepsPlace(x, M, c)
  <2>1. KeepsPlace("work", M, c)
    BY <1>1, PlaceMeaning, PlaceNext DEF KeepsPlace
  <2> QED BY <1>1, <2>1, PlaceUnchanged, AllPlaces
<1> QED BY <1>1, <1>2, ClientPipes, PlacesCarry

\* Another client asks, reads or gives up.
LEMMA OthersCarry ==
  ASSUME TypeInv, NEW d \in Clients, ClientSend(d) \/ ClientRecv(d) \/ ClientTimeout(d),
         NEW c \in Clients, c # d, Keep(c)
  PROVE  Carries(c)
<1>1. Asks(d) \/ Reads(d) \/ GivesUp(d)
  BY ClientKinds
<1>2. UNCHANGED <<broker, worker, toBroker, toWorker>>
  BY ClientKinds
<1>3. client'[c] = client[c] /\ clientIn'[c] = clientIn[c] /\ clientOut'[c] = clientOut[c]
  <2>1. client \in [Clients -> ClientState] /\ clientIn \in ClientIn /\ clientOut \in ClientOut
    BY DEF TypeInv
  <2> QED BY <1>1, <2>1 DEF Asks, Reads, GivesUp, ClientIn, ClientOut
<1>4. clientOut \in [Clients -> Seq(ClientMsg)]
  BY DEF TypeInv, ClientOut
<1>5. ASSUME NEW M \in SUBSET Of(c)
      PROVE  \A x \in Places : KeepsPlace(x, M, c)
  <2>1. KeepsPlace("out", M, c)
    <3>1. CASE Asks(d)
      <4>1. PICK m \in ClientMsg : /\ m.request = [client |-> d, seq |-> client[d].seq]
                                   /\ clientOut' = [clientOut EXCEPT ![d] = Append(@, m)]
        BY <3>1 DEF Asks
      <4>2. m \notin AskedFor(M)
        BY <4>1, RequestSets DEF AskedFor
      <4>3. /\ None(clientOut, AskedFor(M)) => None(clientOut', AskedFor(M))
            /\ One(clientOut, AskedFor(M)) => One(clientOut', AskedFor(M))
        BY <1>4, <4>1, <4>2, OneAppends
      <4> QED BY <4>3, PipePlaces
    <3>2. CASE Reads(d)
      BY <3>2, PlaceUnchanged DEF Reads
    <3>3. CASE GivesUp(d)
      <4>1. PICK t \in Seq(ClientMsg) : Part(clientOut[d], t) /\ clientOut' = [clientOut EXCEPT ![d] = t]
        BY <3>3 DEF GivesUp
      <4>2. /\ None(clientOut, AskedFor(M)) => None(clientOut', AskedFor(M))
            /\ One(clientOut, AskedFor(M)) => One(clientOut', AskedFor(M))
        BY <1>4, <4>1, OneShrinks
      <4> QED BY <4>2, PipePlaces
    <3> QED BY <1>1, <3>1, <3>2, <3>3
  <2>2. broker'.requests = broker.requests
    BY <1>2
  <2> QED BY <1>2, <1>3, <2>1, <2>2, PlaceUnchanged, AllPlaces
<1> QED BY <1>3, <1>5, ClientPipes, PlacesCarry

\* What a handler does of requests that do not move between the clients, the workers
\* and the broker: they stay nowhere, or in custody.
LEMMA HandlerKeeps ==
  ASSUME TypeInv, NEW S, NEW F, NEW q, Handled(broker', S, F, q), worker' = worker,
         NEW c, NEW M \in SUBSET Of(c),
         KeepsPlace("out", M, c), KeepsPlace("back", M, c),
         None(broker.requests, M) => None(q, M),
         One(broker.requests, M) => One(q, M)
  PROVE  /\ (\A x \in Held : Empty(x, M, c)) => \A x \in Held : Empty(x, M, c)'
         /\ Once(M, c) /\ KeepsPlace("in", M, c) => Once(M, c)'
<1>1. NoRequest \notin M
  BY RequestSets
<1>2. /\ Empty("queue", M, c) => KeepsPlace("queue", M, c) /\ KeepsPlace("sent", M, c)
      /\ Unique("queue", M, c) /\ Empty("sent", M, c) =>
            /\ Unique("queue", M, c)' /\ Unique("sent", M, c)'
            /\ Empty("queue", M, c)' \/ Empty("sent", M, c)'
  BY <1>1, QueueSettles
<1>3. KeepsPlace("work", M, c)
  BY PlaceUnchanged
<1>4. ASSUME \A x \in Held : Empty(x, M, c)
      PROVE  \A x \in Held : Empty(x, M, c)'
  <2>1. /\ Empty("out", M, c) /\ Empty("queue", M, c) /\ Empty("sent", M, c)
        /\ Empty("work", M, c) /\ Empty("back", M, c)
    BY <1>4 DEF Held, Places
  <2>2. /\ Empty("out", M, c)' /\ Empty("queue", M, c)' /\ Empty("sent", M, c)'
        /\ Empty("work", M, c)' /\ Empty("back", M, c)'
    BY <1>2, <1>3, <2>1 DEF KeepsPlace
  <2> QED BY <2>2 DEF Held, Places
<1>5. ASSUME Once(M, c), KeepsPlace("in", M, c)
      PROVE  Once(M, c)'
  BY <1>2, <1>3, <1>5, OnceHandled
<1> QED BY <1>4, <1>5

\* A handler that neither takes a request of c from its pipe nor answers it.
LEMMA HandlerCarries ==
  ASSUME TypeInv, NEW S, NEW F, NEW q, Handled(broker', S, F, q), UNCHANGED <<worker, client>>,
         NEW c \in Clients, clientIn'[c] = clientIn[c], Keep(c), Part(clientOut[c], clientOut'[c]),
         \A M \in SUBSET Of(c) : /\ KeepsPlace("out", M, c) /\ KeepsPlace("back", M, c)
                                 /\ None(broker.requests, M) => None(q, M)
                                 /\ One(broker.requests, M) => One(q, M)
  PROVE  Carries(c)
<1>1. ASSUME NEW M \in SUBSET Of(c)
      PROVE  /\ (\A x \in Held : Empty(x, M, c)) => \A x \in Held : Empty(x, M, c)'
             /\ Once(M, c) /\ KeepsPlace("in", M, c) => Once(M, c)'
  BY HandlerKeeps
<1>2. \A M : KeepsPlace("in", M, c)
  BY PlaceUnchanged
<1>3. Once(Of(c), c)'
  BY <1>1, <1>2 DEF Keep
<1>4. Part(clientIn[c], clientIn'[c])
  BY ClientPipes
<1> QED BY <1>1, <1>3, <1>4 DEF Carries

LEMMA TimerCarries ==
  ASSUME TypeInv, P!Consistent(broker), BrokerTimer, NEW c \in Clients, Keep(c)
  PROVE  Carries(c)
<1>1. PICK S : Handled(broker', S, {}, broker.requests)
  BY TimerHandled
<1>2. UNCHANGED <<worker, client, toBroker, clientOut, clientIn>>
  BY DEF BrokerTimer
<1>3. \A M : KeepsPlace("out", M, c) /\ KeepsPlace("back", M, c)
  BY <1>2, PlaceUnchanged
<1> QED BY <1>1, <1>2, <1>3, ClientPipes, HandlerCarries

\* A request of c leaves the place x, when c gets an answer.
LEMMA AnswerCarries ==
  ASSUME TypeInv, NEW S, NEW F, Handled(broker', S, F, broker.requests), UNCHANGED <<worker, client>>,
         NEW c \in Clients, Keep(c), Part(clientOut[c], clientOut'[c]),
         \A M \in SUBSET Of(c) : KeepsPlace("out", M, c) /\ KeepsPlace("back", M, c),
         NEW x \in {"out", "back"},
         ~ Empty(x, Of(c), c), Unique(x, Of(c), c) => Empty(x, Of(c), c)',
         NEW r \in Of(c), ~ Empty(x, {r}, c),
         client[c].pc # "gone", NEW e \in AnswerMsg, e.seq = r.seq,
         clientIn'[c] = Append(clientIn[c], e)
  PROVE  Carries(c)
<1>1. x \in Places /\ x \in Held /\ x # "in" /\ x # "queue"
  BY DEF Places, Held
<1>2. Once(Of(c), c) /\ Of(c) \in SUBSET Of(c)
  BY DEF Keep
<1>3. \A y \in Places : y # x => Empty(y, Of(c), c)
  BY <1>1, <1>2 DEF Once
<1>4. Empty("queue", Of(c), c) /\ Empty("in", Of(c), c)
  BY <1>1, <1>3 DEF Places
<1>5. KeepsPlace("queue", Of(c), c) /\ KeepsPlace("sent", Of(c), c) /\ KeepsPlace("work", Of(c), c)
  BY <1>4, RequestSets, QueueSettles, PlaceUnchanged
<1>6. Unique("in", Of(c), c)'
  <2>1. clientIn[c] = <<>>
    BY <1>4, PlaceMeaning
  <2>2. Len(clientIn'[c]) = 1
    BY <2>1
  <2> QED BY <2>2, PlaceNext
<1>7. MovesOn(x, "in", Of(c), c)
  <2>1. \A z \in Places : z # x /\ z # "in" => KeepsPlace(z, Of(c), c)
    BY <1>2, <1>5 DEF Places
  <2> QED BY <1>6, <2>1, Zenon DEF MovesOn
<1>8. Once(Of(c), c)'
  <2>1. "in" \in Places
    BY DEF Places
  <2> QED BY <1>1, <1>2, <1>7, <2>1, OnceMoves
<1>9. \A L \in SUBSET Of(c) : (\A y \in Held : Empty(y, L, c)) => \A y \in Held : Empty(y, L, c)'
  BY HandlerKeeps
<1>10. client[c].pc = "wait"
  <2>1. client[c].pc # "ready"
    BY <1>1 DEF Keep
  <2>2. client[c].pc \in {"ready", "wait", "gone"}
    BY ClientFields DEF TypeInv
  <2> QED BY <2>1, <2>2
<1>11. e.seq = client[c].seq
  <2>1. SUFFICES ASSUME r.seq # client[c].seq PROVE FALSE
    OBVIOUS
  <2>2. {r} \subseteq NotCall(c, client[c].seq)
    BY <2>1 DEF NotCall
  <2>3. Empty(x, NotCall(c, client[c].seq), c)
    BY <1>1 DEF Keep
  <2> QED BY <1>1, <2>2, <2>3, EmptyFewer
<1> QED BY <1>8, <1>9, <1>10, <1>11 DEF Carries

LEMMA WorkerMessageCarries ==
  ASSUME TypeInv, P!Consistent(broker), NEW i \in WorkerIds, BrokerRecvWorker(i),
         NEW c \in Clients, Keep(c)
  PROVE  Carries(c)
<1> DEFINE m == Head(toBroker[i])
<1>1. PICK S : Handled(broker', S, P!Ready(broker, i, m.cmd), broker.requests)
  BY WorkerMessageHandled
<1>2. /\ UNCHANGED <<worker, client, clientOut>> /\ toBroker[i] # <<>>
      /\ toBroker' = [toBroker EXCEPT ![i] = Tail(toBroker[i])]
  BY DEF BrokerRecvWorker
<1>3. toBroker \in [WorkerIds -> Seq(BrokerMsg)] /\ toBroker[i] \in Seq(BrokerMsg)
  BY DEF TypeInv, ToBroker
<1>4. m \in BrokerMsg /\ Tail(toBroker[i]) \in Seq(BrokerMsg) /\ Part(toBroker[i], Tail(toBroker[i]))
  BY <1>2, <1>3, Parts
<1>5. \/ clientIn' = clientIn
      \/ /\ m.request \in Requests /\ client[m.request.client].pc # "gone"
         /\ clientIn' = [clientIn EXCEPT ![m.request.client] =
                            Append(@, [code |-> "reply", seq |-> m.request.seq])]
  BY Answered
<1>6. clientIn \in ClientIn
  BY DEF TypeInv
<1>7. ASSUME NEW M
      PROVE  /\ KeepsPlace("out", M, c) /\ KeepsPlace("back", M, c)
             /\ m.request \in M => /\ ~ Empty("back", M, c)
                                   /\ Unique("back", M, c) => Empty("back", M, c)'
  <2> HIDE DEF m
  <2>1. KeepsPlace("out", M, c)
    BY <1>2, PlaceUnchanged
  <2>2. /\ None(toBroker, RepliedFor(M)) => None(toBroker', RepliedFor(M))
        /\ One(toBroker, RepliedFor(M)) => One(toBroker', RepliedFor(M))
    BY <1>2, <1>3, <1>4, OneShrinks
  <2>3. KeepsPlace("back", M, c)
    BY <2>2, PipePlaces
  <2>4. ASSUME m.request \in M
        PROVE  ~ Empty("back", M, c) /\ (Unique("back", M, c) => Empty("back", M, c)')
    <3>1. m \in RepliedFor(M)
      BY <1>4, <2>4 DEF RepliedFor
    <3>2. ~ None(toBroker, RepliedFor(M))
      <4>1. ~ Lacks(toBroker[i], RepliedFor(M))
        BY <1>2, <1>3, <3>1, TailLacks DEF m
      <4> QED BY <1>3, <4>1 DEF None, Lacks
    <3>3. One(toBroker, RepliedFor(M)) => None(toBroker', RepliedFor(M))
      <4>1. toBroker' = [toBroker EXCEPT ![i] = Tail(@)]
        BY <1>2
      <4>2. toBroker[i] # <<>> /\ Head(toBroker[i]) \in RepliedFor(M)
        BY <1>2, <3>1 DEF m
      <4> QED BY <1>3, <4>1, <4>2, ReadTakesOnly
    <3> QED BY <3>2, <3>3, PlaceMeaning, PlaceNext
  <2> QED BY <2>1, <2>3, <2>4
<1>8. Part(clientOut[c], clientOut'[c])
  BY <1>2, ClientPipes
<1> DEFINE F == P!Ready(broker, i, m.cmd)
           e == [code |-> "reply", seq |-> m.request.seq]
<1>9. CASE clientIn'[c] = clientIn[c]
  <2> HIDE DEF m, F
  <2>1. Handled(broker', S, F, broker.requests)
    BY <1>1 DEF F
  <2> QED BY <1>2, <1>7, <1>8, <1>9, <2>1, HandlerCarries
<1>10. ASSUME m.request \in Requests, m.request.client = c, client[c].pc # "gone",
              clientIn'[c] = Append(clientIn[c], e)
       PROVE  Carries(c)
  <2>1. e \in AnswerMsg /\ e.seq = m.request.seq
    BY <1>10 DEF AnswerMsg, Requests
  <2>2. m.request \in Of(c)
    BY <1>10 DEF Of
  <2>3. /\ ~ Empty("back", Of(c), c) /\ (Unique("back", Of(c), c) => Empty("back", Of(c), c)')
        /\ ~ Empty("back", {m.request}, c)
    BY <1>7, <2>2
  <2> DEFINE r == m.request
  <2>4. r \in Of(c) /\ e.seq = r.seq /\ ~ Empty("back", {r}, c)
    BY <2>1, <2>2, <2>3
  <2>5. Handled(broker', S, F, broker.requests)
    BY <1>1
  <2>6. e \in AnswerMsg /\ clientIn'[c] = Append(clientIn[c], e)
    BY <1>10, <2>1
  <2> HIDE DEF m, F, e, r
  <2> QED BY <1>2, <1>7, <1>8, <1>10, <2>3, <2>4, <2>5, <2>6, AnswerCarries
<1>11. m.request \in Requests => m.request.client \in Clients
  BY DEF Requests
<1> QED BY <1>5, <1>6, <1>9, <1>10, <1>11 DEF ClientIn

\* A request in no place but the broker's queues or the pipe to a worker.
LEMMA OneOfTwo ==
  ASSUME NEW M, NEW c, \A y \in {"out", "work", "back", "in"} : Empty(y, M, c)',
         Unique("queue", M, c)', Unique("sent", M, c)',
         Empty("queue", M, c)' \/ Empty("sent", M, c)'
  PROVE  Once(M, c)'
<1>1. \A y \in {"out", "work", "back", "in"} : Unique(y, M, c)'
  BY EmptyIsUnique
<1>2. \A y \in Places : Unique(y, M, c)'
  BY <1>1 DEF Places
<1>3. CASE Empty("queue", M, c)'
  <2>1. "sent" \in Places /\ \A y \in Places : y # "sent" => Empty(y, M, c)'
    BY <1>3 DEF Places
  <2> QED BY <1>2, <2>1, Zenon DEF Once
<1>4. CASE Empty("sent", M, c)'
  <2>1. "queue" \in Places /\ \A y \in Places : y # "queue" => Empty(y, M, c)'
    BY <1>4 DEF Places
  <2> QED BY <1>2, <2>1, Zenon DEF Once
<1> QED BY <1>3, <1>4

\* The broker reads a request of client d.
LEMMA ClientMessageCarries ==
  ASSUME TypeInv, P!Consistent(broker), NEW d \in Clients, BrokerRecvClient(d), Keep(d),
         NEW c \in Clients, Keep(c)
  PROVE  Carries(c)
<1> DEFINE m == Head(clientOut[d])
           t == Tail(clientOut[d])
           q == IF m.name \in MmiLike THEN broker.requests
                ELSE [broker.requests EXCEPT ![m.name] = Append(@, m.request)]
<1>1. PICK S : Handled(broker', S, {}, q)
  BY ClientMessageHandled
<1>2. /\ UNCHANGED <<worker, client, toBroker>> /\ clientOut[d] # <<>>
      /\ clientOut' = [clientOut EXCEPT ![d] = t]
  BY DEF BrokerRecvClient
<1>3. clientOut \in [Clients -> Seq(ClientMsg)] /\ clientOut[d] \in Seq(ClientMsg)
  BY DEF TypeInv, ClientOut
<1>4. m \in ClientMsg /\ t \in Seq(ClientMsg) /\ Part(clientOut[d], t)
  BY <1>2, <1>3, Parts
<1>5. m.name \in Names /\ m.request \in Requests /\ m.request.seq \in 0 .. Calls
  BY <1>4 DEF ClientMsg, Requests
<1>6. m.request.client = d
  <2>1. m \notin Foreign(d)
    <3>1. 1 \in 1 .. Len(clientOut[d]) /\ m = clientOut[d][1]
      BY <1>2, <1>3
    <3> QED BY <3>1 DEF Keep, Lacks
  <2> QED BY <1>4, <2>1 DEF Foreign, Of
<1>7. \/ clientIn' = clientIn
      \/ /\ m.name \in MmiLike /\ client[d].pc # "gone"
         /\ \E code \in {"200", "404", "501"} :
              clientIn' = [clientIn EXCEPT ![d] = Append(@, [code |-> code, seq |-> m.request.seq])]
  BY Answered
<1>8. broker.requests \in [Names -> Seq(Requests)]
  BY DEF P!Consistent, P!Sound, P!BrokerState
<1>9. m.request \in Of(c) <=> d = c
  BY <1>5, <1>6 DEF Of
<1> HIDE DEF m, t
<1>10. ASSUME NEW M
       PROVE  /\ KeepsPlace("out", M, c) /\ KeepsPlace("back", M, c)
              /\ m.request \in M => /\ ~ Empty("out", M, c)
                                    /\ Unique("out", M, c) => Empty("out", M, c)'
  <2>1. KeepsPlace("back", M, c)
    BY <1>2, PlaceUnchanged
  <2>2. /\ None(clientOut, AskedFor(M)) => None(clientOut', AskedFor(M))
        /\ One(clientOut, AskedFor(M)) => One(clientOut', AskedFor(M))
    <3>1. clientOut' = [clientOut EXCEPT ![d] = t]
      BY <1>2
    <3> QED BY <1>3, <1>4, <3>1, OneShrinks
  <2>3. KeepsPlace("out", M, c)
    BY <2>2, PipePlaces
  <2>4. ASSUME m.request \in M
        PROVE  ~ Empty("out", M, c) /\ (Unique("out", M, c) => Empty("out", M, c)')
    <3>1. Head(clientOut[d]) \in AskedFor(M)
      BY <1>4, <2>4 DEF AskedFor, m
    <3>2. ~ None(clientOut, AskedFor(M))
      <4>1. ~ Lacks(clientOut[d], AskedFor(M))
        BY <1>2, <1>3, <3>1, TailLacks
      <4> QED BY <1>3, <4>1 DEF None, Lacks
    <3>3. clientOut[d] # <<>> /\ clientOut' = [clientOut EXCEPT ![d] = Tail(@)]
      BY <1>2 DEF t
    <3>4. One(clientOut, AskedFor(M)) => None(clientOut', AskedFor(M))
      BY <1>3, <3>1, <3>3, ReadTakesOnly
    <3> QED BY <3>2, <3>4, PlaceMeaning, PlaceNext
  <2> QED BY <2>1, <2>3, <2>4
<1>11. ASSUME NEW M
       PROVE  /\ m.request \notin M \/ m.name \in MmiLike =>
                    /\ None(broker.requests, M) => None(q, M)
                    /\ One(broker.requests, M) => One(q, M)
              /\ None(broker.requests, M) => One(q, M)
  <2>1. CASE m.name \in MmiLike
    BY <2>1, NoneIsOne
  <2>2. CASE m.name \notin MmiLike
    <3>1. q = [broker.requests EXCEPT ![m.name] = Append(@, m.request)]
      BY <2>2
    <3> HIDE DEF q
    <3>2. /\ m.request \notin M => /\ None(broker.requests, M) => None(q, M)
                                   /\ One(broker.requests, M) => One(q, M)
          /\ None(broker.requests, M) => One(q, M)
      <4>1. m.name \in Names /\ m.request \in Requests
        BY <1>5
      <4>2. /\ m.request \notin M =>
                 /\ None(broker.requests, M)
                      => None([broker.requests EXCEPT ![m.name] = Append(@, m.request)], M)
                 /\ One(broker.requests, M)
                      => One([broker.requests EXCEPT ![m.name] = Append(@, m.request)], M)
            /\ None(broker.requests, M)
                 => One([broker.requests EXCEPT ![m.name] = Append(@, m.request)], M)
        BY <1>8, <4>1, OneAppends
      <4> QED BY <3>1, <4>2, Zenon
    <3> QED BY <2>2, <3>2
  <2> QED BY <2>1, <2>2
<1>12. Part(clientOut[c], clientOut'[c])
  BY <1>2, <1>3, <1>4, ClientPipes
<1>13. clientIn'[c] = clientIn[c] \/ d = c
  BY <1>7 DEF TypeInv, ClientIn
<1> HIDE DEF q
<1>14. CASE d # c \/ (m.name \in MmiLike /\ clientIn'[c] = clientIn[c])
  <2>1. \A M \in SUBSET Of(c) : m.request \notin M \/ m.name \in MmiLike
    BY <1>9, <1>14
  <2>2. clientIn'[c] = clientIn[c]
    BY <1>13, <1>14
  <2> QED BY <1>1, <1>2, <1>10, <1>11, <1>12, <2>1, <2>2, HandlerCarries
<1>15. ASSUME d = c, m.name \in MmiLike, client[c].pc # "gone", NEW code \in {"200", "404", "501"},
              clientIn'[c] = Append(clientIn[c], [code |-> code, seq |-> m.request.seq])
       PROVE  Carries(c)
  <2> DEFINE e == [code |-> code, seq |-> m.request.seq]
             r == m.request
  <2>1. e \in AnswerMsg /\ e.seq = r.seq /\ clientIn'[c] = Append(clientIn[c], e)
    BY <1>5, <1>15 DEF AnswerMsg
  <2>2. r \in Of(c)
    BY <1>9, <1>15
  <2>3. /\ ~ Empty("out", Of(c), c) /\ (Unique("out", Of(c), c) => Empty("out", Of(c), c)')
        /\ ~ Empty("out", {r}, c)
    BY <1>10, <2>2
  <2>4. Handled(broker', S, {}, broker.requests)
    BY <1>1, <1>15 DEF q
  <2>5. \A M \in SUBSET Of(c) : KeepsPlace("out", M, c) /\ KeepsPlace("back", M, c)
    BY <1>10
  <2> HIDE DEF e, r
  <2> QED BY <1>2, <1>12, <1>15, <2>1, <2>2, <2>3, <2>4, <2>5, AnswerCarries
<1>16. CASE d = c /\ m.name \notin MmiLike
  <2>1. m.request \in Of(c) /\ clientIn' = clientIn
    BY <1>7, <1>9, <1>16
  <2>2. ~ Empty("out", Of(c), c) /\ (Unique("out", Of(c), c) => Empty("out", Of(c), c)')
    BY <1>10, <2>1
  <2>3. Once(Of(c), c)
    BY DEF Keep
  <2>4. \A y \in Places : y # "out" => Empty(y, Of(c), c)
    BY <2>2, <2>3 DEF Once, Places
  <2>5. Empty("out", Of(c), c)'
    BY <2>2, <2>3 DEF Once, Places
  <2>6. \A y \in {"out", "work", "back", "in"} : Empty(y, Of(c), c)'
    <3>1. KeepsPlace("work", Of(c), c) /\ KeepsPlace("back", Of(c), c) /\ KeepsPlace("in", Of(c), c)
      BY <1>2, <2>1, PlaceUnchanged
    <3>2. Empty("work", Of(c), c) /\ Empty("back", Of(c), c) /\ Empty("in", Of(c), c)
      BY <2>4 DEF Places
    <3> QED BY <2>5, <3>1, <3>2 DEF KeepsPlace
  <2>7. /\ Unique("queue", Of(c), c)' /\ Unique("sent", Of(c), c)'
        /\ Empty("queue", Of(c), c)' \/ Empty("sent", Of(c), c)'
    <3>1. None(broker.requests, Of(c)) /\ None(toWorker, SentFor(Of(c)))
      BY <2>4, PlaceMeaning DEF Places
    <3>2. One(q, Of(c))
      BY <1>11, <3>1
    <3>3. /\ One(broker'.requests, Of(c)) /\ One(toWorker', SentFor(Of(c)))
          /\ None(broker'.requests, Of(c)) \/ None(toWorker', SentFor(Of(c)))
      BY <1>1, <3>1, <3>2, RequestSets, DispatchCarries
    <3> QED BY <3>3, PlaceNext
  <2>8. Once(Of(c), c)'
    BY <2>6, <2>7, OneOfTwo
  <2>9. ASSUME NEW L \in SUBSET Of(c), \A x \in Held : Empty(x, L, c)
        PROVE  \A x \in Held : Empty(x, L, c)'
    <3>1. m.request \notin L
      <4>1. Empty("out", L, c)
        BY <2>9 DEF Held, Places
      <4> QED BY <1>10, <4>1
    <3> QED BY <1>1, <1>2, <1>10, <1>11, <2>9, <3>1, HandlerKeeps
  <2>10. client'[c] = client[c] /\ Part(clientIn[c], clientIn'[c])
    BY <1>2, <2>1, ClientPipes
  <2> QED BY <1>12, <2>8, <2>9, <2>10 DEF Carries
<1>17. ASSUME d = c, m.name \in MmiLike, clientIn' # clientIn
       PROVE  Carries(c)
  <2>1. client[c].pc # "gone"
    BY <1>7, <1>17
  <2>2. PICK code \in {"200", "404", "501"} :
           clientIn' = [clientIn EXCEPT ![c] = Append(@, [code |-> code, seq |-> m.request.seq])]
    BY <1>7, <1>17
  <2>3. clientIn'[c] = Append(clientIn[c], [code |-> code, seq |-> m.request.seq])
    BY <2>2 DEF TypeInv, ClientIn
  <2> QED BY <1>15, <1>17, <2>1, <2>3
<1> QED BY <1>14, <1>16, <1>17

\* The client's own steps.
LEMMA OwnKeeps ==
  ASSUME TypeInv, TypeInv', NEW c \in Clients, ClientSend(c) \/ ClientRecv(c) \/ ClientTimeout(c),
         Keep(c)
  PROVE  Keep(c)'
<1>0. PICK n : n = client[c].seq
  OBVIOUS
<1>1. Asks(c) \/ Reads(c) \/ GivesUp(c)
  BY ClientKinds
<1>2. UNCHANGED <<broker, worker, toBroker, toWorker>>
  BY ClientKinds
<1>3. /\ clientOut \in [Clients -> Seq(ClientMsg)] /\ clientIn \in [Clients -> Seq(AnswerMsg)]
      /\ client \in [Clients -> ClientState]
      /\ clientOut[c] \in Seq(ClientMsg) /\ clientIn[c] \in Seq(AnswerMsg)
  BY DEF TypeInv, ClientOut, ClientIn
<1>4. ASSUME NEW M
      PROVE  \A x \in {"queue", "sent", "work", "back"} : KeepsPlace(x, M, c)
  <2>1. broker'.requests = broker.requests
    BY <1>2
  <2> QED BY <1>2, <2>1, PlaceUnchanged
<1>5. Once(Of(c), c) /\ \A x \in Held : Empty(x, NotCall(c, n), c)
  BY <1>0 DEF Keep
<1>6. Empty("in", Of(c), c)' <=> clientIn'[c] = <<>>
  BY PlaceNext
<1>7. ASSUME clientIn'[c] = <<>>
      PROVE  \A k \in 1 .. Len(clientIn'[c]) : clientIn'[c][k].seq = client'[c].seq
  BY <1>7
<1>8. CASE Asks(c)
  <2>1. PICK m \in ClientMsg : /\ m.request = [client |-> c, seq |-> n]
                               /\ clientOut' = [clientOut EXCEPT ![c] = Append(@, m)]
    BY <1>0, <1>8 DEF Asks
  <2>2. /\ client[c].pc = "ready" /\ clientIn' = clientIn
        /\ client'[c] = [pc |-> "wait", seq |-> n]
    BY <1>0, <1>3, <1>8 DEF Asks
  <2>3. m.request \in Of(c) /\ m.request \notin NotCall(c, n)
    <3>1. m.request \in Requests
      BY DEF ClientMsg
    <3> QED BY <2>1, <3>1 DEF Of, NotCall
  <2>4. \A x \in Places : Empty(x, Of(c), c)
    BY <2>2 DEF Keep
  <2>5. clientIn'[c] = <<>>
    BY <2>2 DEF Keep
  <2>6. Unique("out", Of(c), c)'
    <3>1. None(clientOut, AskedFor(Of(c)))
      BY <2>4, PlaceMeaning DEF Places
    <3>2. One(clientOut', AskedFor(Of(c)))
      BY <1>3, <2>1, <3>1, OneAppends
    <3> QED BY <3>2, PlaceNext
  <2>7. \A y \in Places : y # "out" => Empty(y, Of(c), c)'
    BY <1>4, <1>6, <2>4, <2>5 DEF Places, KeepsPlace
  <2>8. Once(Of(c), c)'
    <3>1. \A y \in Places : Unique(y, Of(c), c)'
      BY <2>6, <2>7, EmptyIsUnique
    <3>2. "out" \in Places
      BY DEF Places
    <3> QED BY <2>7, <3>1, <3>2, Zenon DEF Once
  <2>9. \A x \in Held : Empty(x, NotCall(c, n), c)'
    <3>1. None(clientOut, AskedFor(NotCall(c, n)))
      BY <1>5, PlaceMeaning DEF Held, Places
    <3>2. m \notin AskedFor(NotCall(c, n))
      BY <2>3 DEF AskedFor
    <3>3. None(clientOut', AskedFor(NotCall(c, n)))
      <4> DEFINE M == AskedFor(NotCall(c, n))
      <4> HIDE DEF M
      <4>1. None(clientOut, M) /\ m \notin M
        BY <3>1, <3>2 DEF M
      <4>2. None(clientOut', M)
        BY <1>3, <2>1, <4>1, OneAppends
      <4> QED BY <4>2 DEF M
    <3>4. Empty("out", NotCall(c, n), c)'
      BY <3>3, PlaceNext
    <3> QED BY <1>4, <1>5, <3>4 DEF Held, Places, KeepsPlace
  <2>10. Lacks(clientOut'[c], Foreign(c))
    <3>1. m \notin Foreign(c)
      BY <2>3 DEF Foreign
    <3>2. Lacks(clientOut[c], Foreign(c))
      BY DEF Keep
    <3>3. clientOut'[c] = Append(clientOut[c], m)
      BY <1>3, <2>1
    <3> QED BY <1>3, <3>1, <3>2, <3>3, AppendKeeps
  <2>11. client'[c].pc = "wait" /\ client'[c].seq = n
    BY <2>2
  <2> QED BY <1>7, <2>5, <2>8, <2>9, <2>10, <2>11 DEF Keep
<1>9. CASE Reads(c)
  <2>1. clientOut' = clientOut /\ clientIn[c] # <<>>
    BY <1>9 DEF Reads
  <2>2. \A M : \A x \in Held : KeepsPlace(x, M, c)
    BY <1>4, <2>1, PlaceUnchanged DEF Held, Places
  <2>3. ~ Empty("in", Of(c), c) /\ Unique("in", Of(c), c)
    BY <1>5, <2>1, PlaceMeaning DEF Once, Places
  <2>4. \A x \in Held : Empty(x, Of(c), c)
    <3>1. PICK p \in Places : \A y \in Places : y # p => Empty(y, Of(c), c)
      BY <1>5 DEF Once
    <3>2. p = "in"
      BY <2>3, <3>1 DEF Places
    <3> QED BY <3>1, <3>2 DEF Held
  <2>5. clientIn'[c] = <<>>
    <3>1. Len(clientIn[c]) <= 1
      BY <2>3, PlaceMeaning
    <3>2. Tail(clientIn[c]) = <<>>
      <4> DEFINE s == clientIn[c]
      <4>1. s \in Seq(AnswerMsg) /\ s # <<>> /\ Len(s) <= 1
        BY <1>3, <2>1, <3>1
      <4> HIDE DEF s
      <4>2. Len(s) \in Nat /\ Len(s) # 0
        BY <4>1
      <4>3. Tail(s) \in Seq(AnswerMsg) /\ Len(Tail(s)) = Len(s) - 1
        BY <4>1
      <4>4. \A u \in Seq(AnswerMsg) : Len(u) = 0 => u = <<>>
        OBVIOUS
      <4>5. Tail(s) = <<>>
        BY <4>1, <4>2, <4>3, <4>4
      <4> QED BY <4>5 DEF s
    <3> QED BY <1>3, <1>9, <3>2 DEF Reads
  <2>6. \A x \in Places : Empty(x, Of(c), c)'
    BY <1>6, <2>2, <2>4, <2>5 DEF Held, KeepsPlace
  <2>7. Once(Of(c), c)'
    <3>1. \A y \in Places : Unique(y, Of(c), c)'
      BY <2>6, EmptyIsUnique
    <3> QED BY <2>6, <3>1 DEF Once, Places
  <2>8. ASSUME NEW k, NEW x \in Held PROVE Empty(x, NotCall(c, k), c)'
    <3>1. Empty(x, NotCall(c, k), c)
      BY <2>4, RequestSets, EmptyFewer
    <3> QED BY <2>2, <3>1 DEF KeepsPlace
  <2>9. PICK k : k = client'[c].seq
    OBVIOUS
  <2>10. \A x \in Held : Empty(x, NotCall(c, k), c)'
    BY <2>8
  <2>11. Lacks(clientOut'[c], Foreign(c))
    BY <2>1 DEF Keep
  <2> QED BY <1>7, <2>5, <2>6, <2>7, <2>9, <2>10, <2>11 DEF Keep
<1>10. CASE GivesUp(c)
  <2>1. PICK t \in Seq(ClientMsg) : Part(clientOut[c], t) /\ clientOut' = [clientOut EXCEPT ![c] = t]
    BY <1>10 DEF GivesUp
  <2>2. clientIn' = clientIn /\ clientIn[c] = <<>> /\ client'[c] = [pc |-> "gone", seq |-> n]
    BY <1>0, <1>3, <1>10 DEF GivesUp
  <2>3. ASSUME NEW M PROVE \A x \in Places : KeepsPlace(x, M, c)
    <3>1. /\ None(clientOut, AskedFor(M)) => None(clientOut', AskedFor(M))
          /\ One(clientOut, AskedFor(M)) => One(clientOut', AskedFor(M))
      BY <1>3, <2>1, OneShrinks
    <3>2. KeepsPlace("out", M, c)
      BY <3>1, PipePlaces
    <3>3. KeepsPlace("in", M, c)
      BY <2>2, PlaceUnchanged
    <3> QED BY <1>4, <3>2, <3>3 DEF Places
  <2>4. Once(Of(c), c)'
    BY <1>5, <2>3, OnceMoves
  <2>5. \A x \in Held : Empty(x, NotCall(c, n), c)'
    BY <1>5, <2>3 DEF Held, KeepsPlace
  <2>6. Lacks(clientOut'[c], Foreign(c))
    <3>1. clientOut'[c] = t
      BY <1>3, <2>1
    <3> QED BY <1>3, <2>1, <3>1, PartKeeps DEF Keep
  <2>7. client'[c].pc = "gone" /\ client'[c].seq = n /\ clientIn'[c] = <<>>
    BY <2>2
  <2> QED BY <1>7, <2>4, <2>5, <2>6, <2>7 DEF Keep
<1> QED BY <1>1, <1>8, <1>9, <1>10

\* The inductive invariant of the custody.
Keeps == \A c \in Clients : Keep(c)

LEMMA InitKeeps ==
  ASSUME Init
  PROVE  Keeps
<1>1. /\ clientOut = [c \in Clients |-> <<>>] /\ clientIn = [c \in Clients |-> <<>>]
      /\ toBroker = [i \in WorkerIds |-> <<>>] /\ toWorker = [i \in WorkerIds |-> <<>>]
      /\ client = [c \in Clients |-> [pc |-> "ready", seq |-> 0]]
      /\ \A w \in Workers : worker[w].request = NoRequest
  BY DEF Init, NoWorker
<1>2. broker.requests = [n \in Names |-> <<>>]
  BY SameBroker DEF Init, P!EmptyBroker
<1>3. ASSUME NEW c \in Clients, NEW M \in SUBSET Of(c), NEW x
      PROVE  Empty(x, M, c)
  <2>1. NoRequest \notin M
    BY RequestSets
  <2>2. /\ None(clientOut, AskedFor(M)) /\ None(broker.requests, M) /\ None(toWorker, SentFor(M))
        /\ None(toBroker, RepliedFor(M))
    BY <1>1, <1>2 DEF None
  <2>3. (\A w \in Workers : worker[w].request \notin M) /\ clientIn[c] = <<>>
    BY <1>1, <2>1
  <2> QED BY <2>2, <2>3 DEF Empty
<1>4. ASSUME NEW c \in Clients
      PROVE  Keep(c)
  <2>1. \A x \in Places : Empty(x, Of(c), c)
    BY <1>3
  <2>2. Once(Of(c), c)
    BY <2>1, EmptyIsUnique DEF Once, Places
  <2>3. \A x \in Held : Empty(x, NotCall(c, client[c].seq), c)
    BY <1>3, RequestSets
  <2>4. clientIn[c] = <<>> /\ Lacks(clientOut[c], Foreign(c))
    BY <1>1 DEF Lacks
  <2> QED BY <2>1, <2>2, <2>3, <2>4 DEF Keep
<1> QED BY <1>4 DEF Keeps

LEMMA StepKeeps ==
  ASSUME Inv, Inv', Keeps, [Next]_vars
  PROVE  Keeps'
<1>0. TypeInv /\ TypeInv' /\ P!Consistent(broker)
  BY DEF Inv
<1> SUFFICES ASSUME NEW c \in Clients
             PROVE  Keep(c)'
  BY DEF Keeps
<1>1. \A d \in Clients : Keep(d)
  BY DEF Keeps
<1>2. Carries(c) => Keep(c)'
  BY <1>0, <1>1, CarriesKeeps
<1>3. ASSUME NEW w \in Workers, WorkerStep(w) \/ WorkerDies(w) PROVE Keep(c)'
  BY <1>0, <1>1, <1>2, <1>3, WorkersCarry
<1>4. ASSUME NEW i \in WorkerIds, BrokerRecvWorker(i) PROVE Keep(c)'
  BY <1>0, <1>1, <1>2, <1>4, WorkerMessageCarries
<1>5. ASSUME NEW d \in Clients, BrokerRecvClient(d) PROVE Keep(c)'
  BY <1>0, <1>1, <1>2, <1>5, ClientMessageCarries
<1>6. ASSUME NEW d \in Clients, ClientSend(d) \/ ClientRecv(d) \/ ClientTimeout(d) PROVE Keep(c)'
  <2>1. CASE c = d
    BY <1>0, <1>1, <1>6, <2>1, OwnKeeps
  <2>2. CASE c # d
    BY <1>0, <1>1, <1>2, <1>6, <2>2, OthersCarry
  <2> QED BY <2>1, <2>2
<1>7. CASE BrokerTimer
  BY <1>0, <1>1, <1>2, <1>7, TimerCarries
<1>8. CASE BrokerRestart
  BY <1>0, <1>1, <1>2, <1>8, RestartCarries
<1>9. CASE Tick
  BY <1>0, <1>1, <1>2, <1>9, TickCarries
<1>10. CASE UNCHANGED vars
  <2>1. UNCHANGED <<broker, worker, client, toBroker, toWorker, clientOut, clientIn>>
    BY <1>10 DEF vars
  <2>2. broker'.requests = broker.requests
    BY <2>1
  <2>3. ASSUME NEW M PROVE \A x \in Places : KeepsPlace(x, M, c)
    BY <2>1, <2>2, PlaceUnchanged, AllPlaces
  <2>4. Part(clientIn[c], clientIn'[c]) /\ Part(clientOut[c], clientOut'[c])
    BY <1>0, <2>1, ClientPipes
  <2> QED BY <1>1, <1>2, <2>1, <2>3, <2>4, PlacesCarry
<1> QED BY <1>3, <1>4, <1>5, <1>6, <1>7, <1>8, <1>9, <1>10 DEF Next

\* The custody is kept by every behaviour.
LEMMA Custody == Spec => [](Inv /\ Keeps)
<1>1. Init => Inv /\ Keeps
  BY InitInv, InitKeeps
<1>2. Inv /\ Keeps /\ [Next]_vars => (Inv /\ Keeps)'
  BY StepInv, StepKeeps
<1> QED BY <1>1, <1>2, PTL DEF Spec

\* A client reads the answer to the call it waits for, and to none of its earlier
\* ones: those, answered or given up, have left nothing behind, whatever identities
\* the workers draw.
THEOREM AnswersOwnCall == Spec => []AnswersTheCall
<1>1. Inv /\ Keeps => AnswersTheCall
  <2> SUFFICES ASSUME Inv, Keeps, NEW c \in Clients, clientIn[c] # <<>>
               PROVE  client[c].pc = "wait" /\ Head(clientIn[c]).seq = client[c].seq
    BY DEF AnswersTheCall
  <2>1. Keep(c)
    BY DEF Keeps
  <2>2. clientIn[c] \in Seq(AnswerMsg)
    BY ClientPipes DEF Inv
  <2>3. Head(clientIn[c]) = clientIn[c][1] /\ 1 \in 1 .. Len(clientIn[c])
    BY <2>2
  <2> QED BY <2>1, <2>3 DEF Keep
<1> QED BY <1>1, Custody, PTL

LEMMA PositionIn ==
  ASSUME NEW S, NEW W, NEW p \in [W -> Seq(S)], NEW x \in Positions(p)
  PROVE  /\ x[1] \in W /\ x[2] \in 1 .. Len(p[x[1]]) /\ x = <<x[1], x[2]>>
         /\ p[x[1]][x[2]] \in S
<1>1. PICK w \in DOMAIN p : x \in {w} \X DOMAIN p[w]
  BY DEF Positions
<1>2. x = <<x[1], x[2]>> /\ x[1] = w /\ x[2] \in DOMAIN p[w]
  BY <1>1
<1>3. w \in W /\ p[w] \in Seq(S)
  BY <1>1
<1>4. DOMAIN p[w] = 1 .. Len(p[w]) /\ \A k \in 1 .. Len(p[w]) : p[w][k] \in S
  BY <1>3
<1> QED BY <1>2, <1>3, <1>4

\* How many messages of M some pipes hold.
LEMMA CountOne ==
  ASSUME NEW S, NEW W, NEW p \in [W -> Seq(S)], NEW M, One(p, M),
         NEW X, X \subseteq Positions(p), \A x \in X : p[x[1]][x[2]] \in M
  PROVE  /\ Cardinality(X) \in 0 .. 1
         /\ None(p, M) => Cardinality(X) = 0
<1>1. ASSUME NEW x \in X
      PROVE  x[1] \in W /\ x[2] \in 1 .. Len(p[x[1]]) /\ x = <<x[1], x[2]>>
  BY PositionIn
<1>2. ASSUME NEW x \in X, NEW y \in X PROVE x = y
  <2>1. x[1] = y[1] /\ x[2] = y[2]
    BY <1>1 DEF One
  <2> QED BY <1>1, <2>1
<1>3. None(p, M) => X = {}
  BY <1>1 DEF None
<1> QED BY <1>2, <1>3, AtMostOne

\* Across all pipes, queues, workers and restarts, and whatever identities the
\* workers draw, a request is in one place at most: it may be lost, but it is never
\* served or answered twice.
THEOREM OneCopy == Spec => []AtMostOneCopy
<1>1. Inv /\ Keeps => AtMostOneCopy
  <2> SUFFICES ASSUME Inv, Keeps, NEW r \in Requests
               PROVE  Copies(r) <= 1
    BY DEF AtMostOneCopy
  <2>1. PICK c \in Clients : c = r.client
    BY DEF Requests
  <2>2. Keep(c) /\ r \in Of(c)
    BY <2>1 DEF Keeps, Of
  <2> DEFINE M == Of(c)
             Out == {x \in Positions(clientOut) : clientOut[x[1]][x[2]].request = r}
             Queue == {x \in Positions(broker.requests) : broker.requests[x[1]][x[2]] = r}
             There == {x \in Positions(toWorker) : toWorker[x[1]][x[2]].request = r}
             Work == {w \in Workers : worker[w].request = r}
             Back == {x \in Positions(toBroker) : toBroker[x[1]][x[2]].request = r}
             In == {k \in DOMAIN clientIn[c] : clientIn[c][k].seq = r.seq}
  <2>3. /\ \A x \in Places : Unique(x, M, c)
        /\ \E x \in Places : \A y \in Places : y # x => Empty(y, M, c)
    BY <2>2 DEF Keep, Once
  <2>4. /\ clientOut \in [Clients -> Seq(ClientMsg)] /\ toWorker \in [WorkerIds -> Seq(WorkerMsg)]
        /\ toBroker \in [WorkerIds -> Seq(BrokerMsg)] /\ clientIn[c] \in Seq(AnswerMsg)
        /\ broker.requests \in [Names -> Seq(Requests)]
    BY DEF Inv, TypeInv, ClientOut, ToWorker, ToBroker, ClientIn, P!Consistent, P!Sound, P!BrokerState
  <2>5. Cardinality(Out) \in 0 .. 1 /\ (Empty("out", M, c) => Cardinality(Out) = 0)
    <3>1. Out \subseteq Positions(clientOut) /\ \A x \in Out : clientOut[x[1]][x[2]] \in AskedFor(M)
      <4>1. \A x \in Out : clientOut[x[1]][x[2]] \in ClientMsg
        BY <2>4, PositionIn
      <4> QED BY <2>2, <4>1 DEF AskedFor
    <3>2. One(clientOut, AskedFor(M)) /\ (Empty("out", M, c) <=> None(clientOut, AskedFor(M)))
      BY <2>3, PlaceMeaning DEF Places
    <3>3. clientOut \in [Clients -> Seq(ClientMsg)]
      BY <2>4
    <3> HIDE DEF Out, M
    <3>4. Cardinality(Out) \in 0 .. 1 /\ (None(clientOut, AskedFor(M)) => Cardinality(Out) = 0)
      BY <3>1, <3>2, <3>3, CountOne
    <3> QED BY <3>2, <3>4
  <2>6. Cardinality(Queue) \in 0 .. 1 /\ (Empty("queue", M, c) => Cardinality(Queue) = 0)
    <3>1. Queue \subseteq Positions(broker.requests) /\ \A x \in Queue : broker.requests[x[1]][x[2]] \in M
      BY <2>2
    <3>2. One(broker.requests, M) /\ (Empty("queue", M, c) <=> None(broker.requests, M))
      BY <2>3, PlaceMeaning DEF Places
    <3>3. broker.requests \in [Names -> Seq(Requests)]
      BY <2>4
    <3> HIDE DEF Queue, M
    <3>4. Cardinality(Queue) \in 0 .. 1 /\ (None(broker.requests, M) => Cardinality(Queue) = 0)
      BY <3>1, <3>2, <3>3, CountOne
    <3> QED BY <3>2, <3>4
  <2>7. Cardinality(There) \in 0 .. 1 /\ (Empty("sent", M, c) => Cardinality(There) = 0)
    <3>1. There \subseteq Positions(toWorker) /\ \A x \in There : toWorker[x[1]][x[2]] \in SentFor(M)
      <4>1. \A x \in There : toWorker[x[1]][x[2]] \in WorkerMsg
        BY <2>4, PositionIn
      <4> QED BY <2>2, <4>1 DEF SentFor
    <3>2. One(toWorker, SentFor(M)) /\ (Empty("sent", M, c) <=> None(toWorker, SentFor(M)))
      BY <2>3, PlaceMeaning DEF Places
    <3>3. toWorker \in [WorkerIds -> Seq(WorkerMsg)]
      BY <2>4
    <3> HIDE DEF There, M
    <3>4. Cardinality(There) \in 0 .. 1 /\ (None(toWorker, SentFor(M)) => Cardinality(There) = 0)
      BY <3>1, <3>2, <3>3, CountOne
    <3> QED BY <3>2, <3>4
  <2>8. Cardinality(Work) \in 0 .. 1 /\ (Empty("work", M, c) => Cardinality(Work) = 0)
    <3>1. /\ \A v, w \in Work : v = w
          /\ Empty("work", M, c) => Work = {}
      BY <2>2, <2>3, PlaceMeaning DEF Places
    <3> HIDE DEF Work, M
    <3> QED BY <3>1, AtMostOne
  <2>9. Cardinality(Back) \in 0 .. 1 /\ (Empty("back", M, c) => Cardinality(Back) = 0)
    <3>1. Back \subseteq Positions(toBroker) /\ \A x \in Back : toBroker[x[1]][x[2]] \in RepliedFor(M)
      <4>1. \A x \in Back : toBroker[x[1]][x[2]] \in BrokerMsg
        BY <2>4, PositionIn
      <4> QED BY <2>2, <4>1 DEF RepliedFor
    <3>2. One(toBroker, RepliedFor(M)) /\ (Empty("back", M, c) <=> None(toBroker, RepliedFor(M)))
      BY <2>3, PlaceMeaning DEF Places
    <3>3. toBroker \in [WorkerIds -> Seq(BrokerMsg)]
      BY <2>4
    <3> HIDE DEF Back, M
    <3>4. Cardinality(Back) \in 0 .. 1 /\ (None(toBroker, RepliedFor(M)) => Cardinality(Back) = 0)
      BY <3>1, <3>2, <3>3, CountOne
    <3> QED BY <3>2, <3>4
  <2>10. Cardinality(In) \in 0 .. 1 /\ (Empty("in", M, c) => Cardinality(In) = 0)
    <3>1. Len(clientIn[c]) <= 1 /\ (Empty("in", M, c) <=> clientIn[c] = <<>>)
      BY <2>3, PlaceMeaning DEF Places
    <3>2. /\ \A k, l \in In : k = l
          /\ clientIn[c] = <<>> => In = {}
      BY <2>4, <3>1
    <3> HIDE DEF In, M
    <3> QED BY <3>1, <3>2, AtMostOne
  <2>11. Copies(r) = Cardinality(Out) + Cardinality(Queue) + Cardinality(There) + Cardinality(Work)
                     + Cardinality(Back) + Cardinality(In)
    BY <2>1 DEF Copies
  <2> HIDE DEF M, Out, Queue, There, Work, Back, In
  <2>12. PICK x \in Places : \A y \in Places : y # x => Empty(y, M, c)
    BY <2>3
  <2> QED BY <2>5, <2>6, <2>7, <2>8, <2>9, <2>10, <2>11, <2>12 DEF Places
<1> QED BY <1>1, Custody, PTL

-----------------------------------------------------------------------------
(***************************************************************************)
(* The broker of the system is the broker of MDBroker.                     *)
(***************************************************************************)

\* A client that has a request to be received has none queued, and no other client
\* has two: a service's queue holds fewer than the model of the broker allows for.
LEMMA QueueHasRoom ==
  ASSUME Inv, Keeps, NEW c \in Clients, clientOut[c] # <<>>, NEW n \in Names
  PROVE  Len(broker.requests[n]) < MaxRequests
<1> DEFINE s == broker.requests[n]
           f == [k \in 1 .. Len(s) |-> s[k].client]
<1>1. broker.requests \in [Names -> Seq(Requests)] /\ s \in Seq(Requests) /\ Len(s) \in Nat
  BY DEF Inv, P!Consistent, P!Sound, P!BrokerState
<1>2. \A k \in 1 .. Len(s) : s[k] \in Requests /\ s[k].client \in Clients /\ s[k] \in Of(s[k].client)
  <2>1. \A r \in Requests : r.client \in Clients /\ r \in Of(r.client)
    BY DEF Requests, Of
  <2>2. \A k \in 1 .. Len(s) : s[k] \in Requests
    BY <1>1
  <2> HIDE DEF s
  <2> QED BY <2>1, <2>2
<1>3. None(broker.requests, Of(c))
  <2>1. Keep(c)
    BY DEF Keeps
  <2>2. clientOut \in [Clients -> Seq(ClientMsg)] /\ clientOut[c] \in Seq(ClientMsg)
    BY DEF Inv, TypeInv, ClientOut
  <2>3. 1 \in 1 .. Len(clientOut[c]) /\ clientOut[c][1] \in ClientMsg
    BY <2>2
  <2>4. clientOut[c][1] \in AskedFor(Of(c))
    BY <2>1, <2>3 DEF Keep, Lacks, Foreign, AskedFor
  <2>5. ~ Empty("out", Of(c), c)
    BY <2>2, <2>3, <2>4, PlaceMeaning DEF None
  <2>6. Empty("queue", Of(c), c)
    BY <2>1, <2>5 DEF Keep, Once, Places
  <2> QED BY <2>6, PlaceMeaning
<1>4. ASSUME NEW k \in 1 .. Len(s) PROVE f[k] \in Clients \ {c}
  <2>1. s[k] \notin Of(c)
    BY <1>1, <1>3 DEF None
  <2> QED BY <1>2, <2>1
<1>5. ASSUME NEW k \in 1 .. Len(s), NEW l \in 1 .. Len(s), f[k] = f[l] PROVE k = l
  <2>1. PICK d \in Clients : s[k] \in Of(d) /\ s[l] \in Of(d)
    BY <1>2, <1>5
  <2>2. One(broker.requests, Of(d))
    BY PlaceMeaning DEF Keeps, Keep, Once, Places
  <2> QED BY <1>1, <2>1, <2>2 DEF One
<1>6. f \in Injection(1 .. Len(s), Clients \ {c})
  BY <1>4, <1>5 DEF Injection, IsInjective
<1>7. IsFiniteSet(Clients \ {c}) /\ Cardinality(Clients \ {c}) = Cardinality(Clients) - 1
      /\ Cardinality(Clients) \in Nat
  BY ClientsAssumption, FS_RemoveElement, FS_CardinalityType
<1>8. Cardinality(1 .. Len(s)) = Len(s)
  BY <1>1, FS_Interval
<1> HIDE DEF f, s
<1>9. Cardinality(1 .. Len(s)) <= Cardinality(Clients \ {c})
  BY <1>6, <1>7, FS_Injection
<1>10. \A a, b \in Nat : a <= a * (b + 1)
  OBVIOUS
<1>11. Cardinality(Clients) <= MaxRequests
  BY <1>7, <1>10, BoundsAssumption DEF MaxRequests
<1>12. MaxRequests \in Nat
  BY BrokerAssumptions DEF P!MaxRequestsAssumption
<1> QED BY <1>1, <1>7, <1>8, <1>9, <1>11, <1>12 DEF s

\* Every step of the system is a step of that broker, or a late reply, or leaves it
\* as it is.
LEMMA StepOfBroker ==
  ASSUME Inv, Keeps, [Next]_vars
  PROVE  [B!Next \/ LateReply]_broker
<1>1. ~ broker.down /\ ~ broker.short /\ TypeInv /\ P!Consistent(broker)
  BY DEF Inv, P!Consistent, P!Sound
<1>2. ASSUME NEW i \in WorkerIds, BrokerRecvWorker(i)
      PROVE  B!WorkerMessage \/ LateReply
  <2> DEFINE m == Head(toBroker[i])
  <2>1. toBroker[i] \in Seq(BrokerMsg) /\ toBroker[i] # <<>>
        /\ broker' = B!worker_process(broker, i, m.cmd, m.name)
    BY <1>1, <1>2, PipesTyped DEF BrokerRecvWorker
  <2>2. m \in BrokerMsg
    BY <2>1
  <2>3. /\ m.cmd \in {"READY", "REPLY", "HEARTBEAT"} /\ m.name \in Names
        /\ m.cmd = "REPLY" => m.name = NoName
    BY <2>2, BrokerMsgFields DEF BrokerMsg
  <2>4. m.cmd \in B!Commands
    BY <2>3 DEF B!Commands
  <2>5. m.cmd = "REPLY" /\ ~ clash => ~ B!Waiting(broker, i)
    <3>1. ASSUME m.cmd = "REPLY" PROVE ~ Lacks(toBroker[i], ReplyMsgs)
      <4>1. m \in ReplyMsgs
        BY <2>2, <3>1 DEF ReplyMsgs
      <4> QED BY <2>1, <4>1, TailLacks
    <3>2. ~ clash => Turns
      BY DEF Inv
    <3>3. m.cmd = "REPLY" /\ ~ clash => ~ P!Waiting(broker, i)
      BY <3>1, <3>2, Zenon DEF Turns, Turn, AtRest
    <3> QED BY <3>3, SameBroker, Zenon
  <2> HIDE DEF m
  <2>6. CASE m.cmd = "REPLY" /\ clash
    <3>1. broker' = B!worker_process(broker, i, "REPLY", NoName)
      BY <2>1, <2>3, <2>6
    <3> QED BY <2>6, <3>1, Zenon DEF LateReply
  <2>7. CASE m.cmd = "REPLY" => ~ clash
    <3>1. B!MaySend(i, m.cmd)
      BY <2>5, <2>7, Zenon DEF B!MaySend
    <3> QED BY <2>1, <2>3, <2>4, <3>1, Zenon DEF B!WorkerMessage
  <2> QED BY <2>6, <2>7, Zenon
<1>3. ASSUME NEW c \in Clients, BrokerRecvClient(c)
      PROVE  B!ClientMessage
  <2> DEFINE m == Head(clientOut[c])
  <2>1. clientOut[c] \in Seq(ClientMsg) /\ clientOut[c] # <<>>
        /\ broker' = B!client_process(broker, m.name, m.request)
    BY <1>1, <1>3, ClientPipes DEF BrokerRecvClient
  <2>2. m \in ClientMsg
    BY <2>1
  <2>3. m.name \in Names /\ m.request \in Requests
    BY <2>2 DEF ClientMsg
  <2> HIDE DEF m
  <2>4. Len(broker.requests[m.name]) < MaxRequests
    BY <2>1, <2>3, QueueHasRoom
  <2> QED BY <2>1, <2>3, <2>4, Zenon DEF B!ClientMessage
<1>4. CASE BrokerTimer
  BY <1>1, <1>4, Zenon DEF BrokerTimer, B!Next
<1>5. CASE Tick
  BY <1>1, <1>5, Zenon DEF Tick, B!Next
<1>6. CASE BrokerRestart
  BY <1>6, Zenon DEF BrokerRestart, B!Restart, B!Next
<1>7. ASSUME NEW w \in Workers, WorkerStep(w) \/ WorkerDies(w) PROVE broker' = broker
  BY <1>1, <1>7, WorkerKinds
<1>8. ASSUME NEW c \in Clients, ClientSend(c) \/ ClientRecv(c) \/ ClientTimeout(c) PROVE broker' = broker
  BY <1>1, <1>8, ClientKinds
<1>9. CASE UNCHANGED vars
  BY <1>9 DEF vars
<1> QED BY <1>1, <1>2, <1>3, <1>4, <1>5, <1>6, <1>7, <1>8, <1>9 DEF Next, B!Next

\* The broker of the system is the broker of MDBroker.  Its workers keep the
\* assumption that MDBroker makes of every worker, not to answer while the broker
\* holds them for idle, until an identity is drawn that another socket has or that
\* the broker still knows; from then on they may break it, by late replies alone.
THEOREM ImplementsBroker == Spec => BrokerSpec
<1>1. Init => B!Init
  BY DEF Init, B!Init
<1>2. Inv /\ Keeps /\ [Next]_vars => [B!Next \/ LateReply]_broker
  BY StepOfBroker
<1> QED BY <1>1, <1>2, Custody, PTL DEF Spec, BrokerSpec

=============================================================================
