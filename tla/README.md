# TLA+ for ZeroMQ-RFC-Implementation

Specifications, model-checking configurations and proofs for the messaging
patterns this repository implements over ZeroMQ. All source paths below are
relative to `src/`.

## 1. The system

The repository implements six reliability patterns. They share no process and
no state, except that Titanic runs on Majordomo (its workers are `mdworker`s and
its client is an `mdcliapi`) and the clustered hashmap on `bstar`.

| part | source | state | operations |
|---|---|---|---|
| Majordomo broker | `7.MDF-Majordomo Protocol/broker/mdbroker.*` | `workers_` (identity, service name, expiry), `services_` (waiting identities, queued requests), the time of the next heartbeat | a client message, a worker message (READY, REPLY, HEARTBEAT, DISCONNECT), the timer |
| Majordomo worker session | `worker/mdwrkapi.*`, `worker/echoworker.cpp` | the DEALER socket and its random identity, `liveness_`, `heartbeat_at_`, `reply_to_` | `connect_to_broker`, `recv`, `send` |
| Majordomo client | `client/mdcliapi.*`, `client/main.cpp` | the DEALER socket | `send`, `recv` with a timeout of 3 s; discovery over `mmi.service`, then nine calls |
| Paranoid Pirate | `6.PPP-.../broker`, `worker`, `client` | a queue of idle workers with expiries; liveness and back-off of a worker; sequence and retries of a client | READY, HEARTBEAT, replies, requests, purge; reconnection; retry |
| Binary Star | `BSP-.../server1`, `server2`, `client` | state (primary, backup, active, passive), last event, the peer's expiry; the client's server index, sequence and retries | the peer's state, a client request, sending one's own state; retry and abandon |
| Freelance | `10.FLP-.../client/flcliapi.*`, `server/flserver.cpp` | servers with `alive_`, `ping_at_`, `expiry_`, the queue `actives_`, the current request, `seq_` | a command from the pipe, a server's message, a pass of the loop |
| Titanic | `9.TSP-.../titanic`, `client/ticlient.cpp` | files: requests, replies, a queue of `-`/`+` records | the request, reply and close services, the dispatch loop |
| Clustered hashmap | `12.CHP-.../kvmsg.cpp`, `server/clonesrv.cpp` | messages; a map with a sequence number (its `run()` is empty) | frame accessors, the snapshot handler |
| Lifecycle | `interface/iworker.cpp`, `admin/*` | a `jthread` per worker or broker, one more for the admin subscription | start, wait, the STOP command, destruction |
| Utilities | `utils/*`, `logger/*` | none | `save` and `load` of messages, configuration, logging |

How the parts interact. Every server part is one thread that polls sockets: a
handler runs to its end without interruption, so the concurrency is between
processes, not within an object. Processes talk through ZeroMQ sockets.
A ROUTER drops what it cannot route or what exceeds the high-water mark of a
pipe. Sockets closed with linger 0 lose what has not been transmitted. A process
that dies takes both ends of its pipes with it. Threads share memory only in
the lifecycle code. Titanic's workers and its dispatch loop share files.

What is hard:

* **two sides that disagree**: a worker gives up on the broker while the broker
  dispatches to it; the broker purges a worker that is merely busy; a restarted
  broker receives replies to requests it never saw;
* **redundant indexes**: the broker's waiting lists duplicate its worker table;
* **expiry without an event**: a worker, a peer or a request times out in
  between two messages, and only a purge at the right place notices;
* **late answers**: every client has a timeout, and most can read the answer of
  an earlier call afterwards;
* **split brain** in the binary star; **crashes between two file updates** in
  Titanic; **destruction order** in the lifecycle code.

What makes each part correct:

* Majordomo: the tables agree; an idle worker is given at most one request; no
  request waits beside an idle worker; requests leave in order and go to live
  workers in turn; a request is never in two places, not even across
  disconnections and restarts; workers register again after any fault; a client
  reads the answer of its own call.
* Paranoid Pirate: an identity is queued once; requests go to workers that were
  heard lately; a worker that was dropped joins again.
* Binary Star: at most one active server, or a stated set of conditions for two;
  the pair does not end with two passive servers; the client finds the active one.
* Freelance: one reply for each request, and the reply of that request.
* Titanic: a recorded request is served and its reply is kept, through crashes; it is not
  closed before a reply is begun.
* Lifecycle: a thread is joined before what it uses is destroyed.

`PROJECT.json` lists, under `hazards`, each place in the code where one of these
can go wrong, and the properties that would show it.

## 2. The modules

| module | contents |
|---|---|
| `StdErase` | `std::erase` on a sequence, as a recursive function, and what it does when it is given a reference into that sequence |
| `QueueTheorems` | what `Erase` returns, proved for every sequence; how many messages of a kind pipes hold when some are read, lost or sent |
| `MDBroker` | the broker, alone in an open environment |
| `MDBrokerProofs` | the broker's invariants and action properties (who is served, and in which order), proved for all constants |
| `Majordomo` | the broker with its workers, clients and pipes |
| `MajordomoProofs` | custody of requests and the refinement of `MDBroker`, for all constants |
| `BinaryStar` | the pair of servers, in both programs of the repository |
| `BinaryStarClient` | the pair with its client |
| `BinaryStarProofs` | that the pair is never left with two passive servers, for all constants; and when it has no two active ones |
| `BinaryStarClientProofs` | that the pair with its client is the pair, with its theorems |
| `Freelance` | the brokerless client's agent, its caller and the servers |
| `FreelanceProofs` | that the agent forgets no caller, its queue of servers, the order of answers and the types, for all constants |
| `ParanoidPirate` | the queue, its workers and its clients |
| `ParanoidPirateProofs` | the queue's invariants, custody of requests and the types, for all constants |
| `TitanicPromise` | what Titanic promises of a request: the abstract specification |
| `Titanic` | the four threads, their files, crashes and clients |
| `TitanicProofs` | that `Titanic` implements `TitanicPromise`, how often it serves, and the types, for all constants |
| `MCMDBroker`, `MCMajordomo`, `MCMajordomoFaults`, `MCFreelance` | instances for TLC (the others need none: model values and numbers do) |

Definitions whose comment begins with "Mutant" are wrong
variants of a definition, one for each way a bug could break a property
(`DispatchWithoutPurge`, `ConnectSilently`, ...). Nothing uses them: putting one
in the place of the definition it varies makes TLC find the property violated,
which shows that the property says something about that code.

### MDBroker

The object is one record, `broker`, with a field for each member of `mdbroker`
(`workers_` and `services_` are sets of keys with functions beside them). Each
method is an operator from a record to the record it leaves, with the name it
has in the code: `worker_require`, `service_require`, `worker_delete`,
`purge_workers`, `service_dispatch`, `worker_waiting`, `worker_process`,
`client_process`, `worker_send_heartbeat`. What a method hands to `socket_->send`
is a second operator, `...Sends`.

* The actions are `WorkerMessage` (any command of any identity, any name, whole or short),
  `ClientMessage` (whole or short), `Timer`, `Tick` (one heartbeat interval passes) and `Restart`
  (the process dies and starts with empty tables).
* Expiry is an age in heartbeat intervals; `now > expiry_` is `age > Liveness`.
* `service_dispatch`: its comparator compares a worker with itself, so `min_element` returns
  the first waiting worker. The loop makes one pass at most, since one of the two lists
  was empty before the handler added one element to one of them. `delete_waiting_worker` is given
  a reference to the element it erases; `EraseFirst` is what `std::erase` then does, which is
  right only for a list without repetitions.
* Two things end the loop, and with it the broker. A lookup of an identity that is not a key of
  `workers_` (an `Ensures` of `worker_delete` or `worker_send` fails, `workers_.at()` throws) sets
  `down`. A message that ends before a frame its handler reads sets `short`: `Ensures(msg.parts()
  >= 2)` at line 371, or `msg.get` at lines 107-115, 143, 173 and 192. A client's message
  with a name and no body is enough. (Frame 4 of a REPLY is popped unread, line 175; a message
  without it is one of those that go on, or one of those that end the loop.)
* `service_internal` answers 200 for every name in `services_`. That map grows with each
  name a client asks for and never shrinks, so that `mmi.service` says "was asked
  for once" rather than "is available" (the use made of it in `titanic.cpp:113`).
* `find_first_of("mmi.")` at position 0 holds for every text whose first character
  is `m`, `i` or `.`. `MmiLike` and `MmiLikeIds` are the names and identities of
  that kind.
* `Restart` stands for every way the broker's process can end, STOP included.

The environment is unrestricted but for one assumption, `MaySend`: an identity
that waits does not send REPLY. Without it a worker could enter a list twice. Workers built on
`mdwrkapi` keep it as long as every identity they draw is free, and not beyond: the run
`majordomo_faults` says both (`BrokerSpec`).

### Majordomo

`Majordomo` instantiates `MDBroker` as `B` over the same variable `broker` and adds
workers, clients and pipes. A worker is `down`, in `recv` (polling) or at `work`.
Its actions follow the passes of the loop in `mdwrkapi::recv`: `RecvRequest`
returns at once, before the heartbeat at the end of the pass; `RecvHeartbeat` and
`PollTimeout` end with that heartbeat if it is due (`EndOfPass`);
`RecvDisconnect`, and a timeout that brings `liveness_` to zero, connect anew.
`SendReply` is `send`. `BrokerRecvWorker`, `BrokerRecvClient` and `BrokerTimer` apply
the broker's operators and put what they send into the pipes. A client sends its
discovery and then its calls, and takes whatever arrives for the answer;
`ClientTimeout` ends it, as `main` ends (on an empty answer it returns, or reading
frame 0 throws).

ZeroMQ is modelled from how the code uses it: a pipe is a queue of at most `HWM`
messages; the ROUTER drops, a DEALER waits; closing a socket keeps an arbitrary
prefix of its outgoing messages, the ones transmitted; a restart of the broker
loses an arbitrary prefix of what is on its way to it (received, not read) and
an arbitrary suffix of what it sent (not transmitted).

Assumptions, each one visible in the module:

* *Identities.* A connect draws any of `WorkerIds` (one of 999 in the code, lines 46-52), those
  included that another socket has or that the broker still knows. A ROUTER ignores a
  socket whose identity it already has a pipe for; what such a socket sends is lost, and its
  worker finds out by silence. A worker that draws its own former identity may be
  accepted or ignored, according to when the ROUTER notices that the old socket is closed. A
  broker that starts again meets all sockets at once and knows one of those with the same
  drawn identity (`Accepted`). A socket that gains or loses its place in this way has empty pipes:
  that is an abstraction.
  The history variable `clash` records that an identity was drawn that was *not free*, taken
  at the ROUTER or still a key of `workers_`. After a clash the entry of the former holder can be
  given a request before the READY of the new holder is read; that READY is then invalid
  and deletes the entry, or (around a restart) puts an identity on the list that has a
  request under way. Its reply is a `LateReply`, and with it the identity waits twice.
* *The client is connected.* As it stands no program calls
  `mdcliapi::connect_to_broker`, and the first `send` of `client/main.cpp` goes
  through an empty pointer. The model is of `main` with that call.
* `Prompt` (only in `majordomo_live`): see fairness.

### BinaryStar and BinaryStarClient

`program` says which of the two programs the pair runs: `server2` (`bstar.cpp`,
`execute`) or `server1` (`binary_star_server1.cpp`, `update_state`). They share the wire protocol
and the shape of a thread around a `zmqpp::loop`; they differ in whether a pending
primary accepts clients, in what an error does (`bstar` ignores what `execute` returns
to `recv_state`; `server1` throws and ends), in the first expiry, and in how often the
state is really published (`MaxSilence`). Each is translated from its own function.

* `state[s]` is `state_`, or `DOWN`; `age[s]` the heartbeats since the peer was heard;
  `pipe[s]` what the peer published and `s` has not read.
* `SendState`, `RecvState`, `ClientRequest` are the three callbacks; `Start`, `Die` the
  process; `Lose` a dropped publication; `Tick` a heartbeat.
* A process that ends loses what it had not read; its peer keeps a beginning of what
  was sent to it.
* `Reliable` switches `Lose` off. `Prompt` says that a heartbeat is long compared with
  reading what has come and that a process takes at least one heartbeat to come back;
  connections are taken as made at once.

`BinaryStarClient` instantiates the pair as `B` and adds the loop of `bstarcli::start`. A
message carries whether its number is the current `seq`, which is all the client
compares. `Timeout` has the oddity of the code: a client that gives up changes `srv_index`
but goes on with the old socket until its next retry. `OtherRequest` is a request of
another client, or one left over from a closed socket. The callbacks of `new_active` and
`new_passive` only log and are left out.

### Freelance

`agent` is a record with the members of `flcliapi::agent` and, as functions of the
endpoint, those of its `server` objects. `Pass` is one pass of the loop in `agent::run`: the
reactor's calls (`control_message` if the pipe has a command, `route_message` if a server's
message has come), then `dispatch`, then `ping`. The request is *sent again at every pass*
while it is pending, as in the code. Times are in `INTERVAL`s; `elapsed` is a poll that
ran out. The caller is `client/main.cpp`: it connects to its endpoints in order, then
calls `request` (`Request`, `Return`) and sleeps. `Return` takes the next reply whatever it
answers, since replies carry no number to the caller. Servers answer each message or end,
at any time. The ROUTER drops what has no room or no peer. `down` is a failed
`Expects`, which terminates the process.

### ParanoidPirate

`queue` is the vector of `worker_queue` with, for each identity, the age of its `when_` in
`HEARTBEAT_INTERVAL`s; `push`, `erase`, `refresh`, `pop` and `purge` are its methods. One pass of
`ppbroker::run` is one step, `BrokerPass(b, r)`: at most one message of a worker, at most one
request of a client, the heartbeats if they are due, the purge. The order matters: the
frontend is polled only if somebody was queued *before* the poll, and the purge of the
pass before decides who may be popped in this one.

* A worker's passes are `WorkerReceive`, `PollTimeout`, `GiveUp` (its liveness runs out and it sleeps)
  and `Reconnect` (`BackOff`, then `init_socket`). Unlike a Majordomo worker it
  keeps its identity, given on the command line, and opens the new socket before it
  closes the old one: a ROUTER that still knows the old connection refuses the new one,
  which then leads nowhere until the next reconnection (`linked`, `MaxRefusals`).
* A client sends a sequence number with a body, and on a time-out the number
  alone from a new socket (`try` counts). The answer to a retry has no second frame:
  `msg.get(1)` throws and the client ends (`ClientRead`).
* `Tick` passes an interval when everybody is blocked in a poll or asleep, or else
  counts as a delay. Delays, deaths and restarts are bounded together (`MaxFaults`).
  The time-outs of clients are not timed.
* The wait of these programs returns at once, since their `sub_admin` is never
  started, and the program ends. The model is of programs that wait; `BrokerStop` and
  `WorkerStop` end them at any point.

### Titanic

Four threads share a directory. A request is its UUID. `reqs` and `reps` are the `.req` and
`.rep` files, `queue` the records of the queue file. Each access to a file is a step, so that
threads interleave, and a crash can come, between any two:

* request_worker: `SaveRequest`, `SendToPipe`, `AnswerRequest`;
* titanic::run: `Poll` (one message of the pipe is appended to the file, the scan begins), `Skip`,
  `Load`, the call (`Answered` or `CallTimeout`), `OpenReply`, `WriteReply`, `Mark` (the `+`),
  `EndOfScan`;
* reply_worker: `AnswerPoll`; close_worker: `RemoveRequest`, `RemoveReply`;
* the client: `ClientSend`, `ClientGivesUp`, `ClientCloses`.

`Crash` keeps the files and nothing else. A call of the dispatcher that nobody waits for any
more is lost, carried out, or carried out later (`Abandon`, `LateExecution`): this is what
`Majordomo` allows. `LoadFails` is the dispatcher meeting a record whose `.req` has been
removed: the exception ends `titanic::run` and begins to destroy the locals of
`titanic::start`. The first of them, the close worker, loses its session and then waits for a
thread that only a STOP ends, so that requests are accepted and replies handed out
while nothing is dispatched or closed. After a restart the same record fails again.

Also in the model: a `.rep` that is only partly written may be handed out
(`AnswerPoll`), and a system that refuses to remove an open file ends the close worker
(`RemoveReply`). The offsets of the scan (`UUID_LENGTH + 2`) are those of a file with two
characters at the end of a line; the model is of that build. As in Majordomo, clients and
dispatcher are taken to be connected, although nobody calls `connect_to_broker`.

`TitanicPromise` has one variable, the status of each request: new, taken, recorded, begun
(a `.rep` that is opened, empty or partly written), replied (a whole one), closed, or lost. It
allows a crash to lose what was taken and not recorded, and nothing else. A request may be
closed from "begun" as from "replied": `reply_worker.cpp:33` asks only whether the file exists
while `titanic.cpp:122` writes it, so that a client can read the beginning of a reply, take it for
the reply and close. `Status` is the refinement mapping, from the files and the memory.

## 3. The runs

| run | instance | checks | states |
|---|---|---|---|
| `mdbroker` | 3 identities (one like "mmi."), 2 services, the empty name, `mmi.service`, 2 requests, short messages, `Liveness` 1, 2 requests a queue | types, `RegisteredWaiting`, `NoDuplicateWaiting`, `NeverBothWaitingAndQueued`, `QueuesAreServices`, `LookupsSucceed`, `LongestIdleFirst`, `DispatchOnlyToLive`, `FifoRequests` | 302 046 |
| `mdbroker_recent` | the same | `MostRecentlySeenFirst`: violated | |
| `majordomo` | 2 workers, 2 identities, 2 clients with one discovery and one call each, `HWM` 1 | `AtMostOneCopy`, `OneRequestPerWorker`, `AnswersTheCall` | 1 686 762 |
| `majordomo_faults` | 1 worker, 2 identities, 1 client, `HWM` 2, one restart of the broker, one death of the worker | `AtMostOneCopy`, `BrokerSpec` | 662 430 |
| `majordomo_live` | the same with `Liveness` 2 and two calls | `WorkersRegister`, `QueueDrains` | 33 013 |
| `binary_star` | `PeerExpiry` 3, `HWM` 3, losses and delays | types, `NeverBothPassive`, `PassiveNeverHearsPassive` | 412 414 |
| `binary_star_takeover` | `PeerExpiry` 3, `HWM` 2, no loss, delays | `PeerGoesPassive`: violated | |
| `binary_star_client` | `PeerExpiry` 3, `HWM` 3, 3 retries, no loss, `Prompt` | types, `AtMostOneActive`, `PairSettles`, `ClientServed` | 44 876 |
| `freelance` | 2 servers, TTL 0, ping 0, timeout 1, `HWM` 1, 2 calls | types, `CallerNeverForgotten`, `AliveIsQueued`, `QueuedAtMostTwice`, `AnswersInOrder`, `CallerReturns` | 570 680 |
| `freelance_expects` | 2 servers, the times of the program, 3 calls | `ExpectsHolds`: violated | |
| `paranoid_pirate` | 2 workers, 1 client with two calls, `Liveness` 2, back-off up to 2, 1 retry, `HWM` 3, one fault, one refusal | types, `QueuedOnce`, `FreshWhenPopped`, `FailsOnlyAfterRetry`, `WorkersStayQueued` | 230 433 |
| `titanic` | 2 requests, one for a service that does not exist, 2 crashes, one time-out each | types, `OncePerAttempt`, `FailsOnlyAfterCrash`, `KeepsPromise`, `ServedUnlessCrashed`, `RecordedIsDone` | 84 357 |

What they show:

* `mdbroker`: whatever arrives in whatever order, whole or short, and whenever workers expire,
  the two indexes of workers agree, no lookup of a worker fails, no request lies beside an
  idle worker, workers are served in the order they became idle, requests in the
  order they came, and nobody expired is chosen. A message that is short of a frame ends the
  broker; nothing else does. This run has no assumption on clients and only
  `MaySend` on workers.
* `majordomo`: *custody*. A request is in one place at most (a pipe, a queue, a
  worker, an answer) even when a worker that was purged while it worked sends
  its reply late, under an identity that is gone or that somebody else has drawn, and a client
  never reads the answer of another call. An identity has at most one request
  outstanding while every identity drawn was free.
* `majordomo_faults`: custody across a restart and a death of the worker, and
  *refinement*: every step of the system is a step of `MDBroker!Spec`, a `LateReply` after a
  clash, or leaves the broker alone. So until a clash all that holds of the open broker holds of
  the broker inside the system. `MaySend` is a fact about `mdwrkapi` only
  until then: with `LateReply` left out of `BrokerSpec` TLC finds a violation after 15 states.
* `majordomo_live`: workers are registered again and again, whatever identities they draw, and a queued request
  leaves the queue (dispatched, or forgotten in a restart).
* `binary_star`: no loss, delay, death or restart leaves two passive servers, and a
  passive server never even reads PASSIVE: the "dual passives" branches are dead.
  With delays alone two servers *can* both be active; that is why the next run has its
  assumptions.
* `binary_star_client`: when nothing is lost and messages are read promptly there is at
  most one active server through any number of deaths and restarts, in either program;
  with `bstar` at most one would answer; the pair settles; and a client is answered again
  and again by what is left of the pair. The one exception is part of `ClientServed`: a
  backup that started alone refuses for ever.
* `freelance`: whichever servers come and go, a server taken for alive is in the queue,
  nobody is there more than twice (at connect, and when it comes to life), a caller that
  waits is not forgotten, answers never overtake, and `request` returns although no server
  ever answers.
* `paranoid_pirate`: READY, late answers and answers to requests of an earlier socket queue nobody
  twice. A popped worker was heard at most `Liveness` intervals before the poll that
  brought the request: *not* before the pop, since nothing is purged between the poll and
  the pop. The echo of a retry is the only thing a client cannot read. And whatever is
  forgotten on either side, once faults end every running worker is queued for good.
* `titanic`: the four threads and any crash keep the promise: what is recorded is never lost, and
  nothing is closed before a reply is begun (that it was whole when the client read it is *not* so,
  and not promised). A request runs more often than
  once only as time-outs and crashes explain. The dispatcher fails only after a crash: it takes a
  reply that was saved, a crash before the `+`, and a client that has closed meanwhile.
  Without a crash a client that was told 200 gets its reply, although another record stays
  pending for ever; and, crashes or not, what is recorded is done in the end. A
  request that was acknowledged and was still in the pipe at a crash *is* lost, in the model
  as in the code: its status is "lost", and `TitanicPromise` names this as what a crash may
  cost.

Three runs show that the code does not do what a comment says:

* `mdbroker.cpp:309` says "Choose the most recently seen idle worker; others might
  be about to expire". The comparator at line 313 reads `workers_.at(a)` on both
  sides. The first worker is taken, the one that has been idle longest. (That
  choice is what `LongestIdleFirst` checks, and it is a reasonable one.)
* `bstar.cpp:178` says "Peer is restarting - become active, peer will go passive". The peer
  may have become active in the meantime by a client request that it read before the
  ACTIVE already on its way; both are then active, `execute` returns false for "Fatal
  error - dual actives, aborting", `recv_state` ignores that, and they stay so.
* `flcliapi.cpp:58` says "Current request must be nullptr". A request sent at every pass is
  answered several times, each answer with the current number is handed to the caller,
  who takes the second one for the answer of its next request and so gets ahead
  of the agent. One request more meets a pending one, and `Expects` ends the process. The
  run uses the times of the program, the sleep of `main` included.

Bounds. In `MDBroker` three identities are enough for two idle workers and a third that is
unknown, expired or invalid. In `Majordomo` there are two (three exceed five minutes), so
that identities clash soon: a worker beside its predecessor in the broker's tables, two
workers with one identity, each with one of its own. Two requests distinguish order and duplication. Handlers
treat services independently except through the worker table, so two services show
interference. `Liveness` scales `HEARTBEAT_LIVENESS` (3) down: the code depends only on
"expired or not", and with 1 a worker can expire between any two events.
`HWM` 1 and 2 make a pipe full in reach. `MaxRequests` bounds a queue that the code
does not bound. In `Majordomo` it is the number of requests there are, so it never
cuts anything off. `Calls`, `MaxRestarts` and `MaxDeaths` bound the length of the story. The
symmetry sets of the Majordomo runs permute identities, workers, clients, requests or
services that the constants treat alike; the runs with liveness use none.

In the pair, `PeerExpiry` is the value of the program in heartbeats; `HWM` 3 lets one
server be three messages behind, longer than any story of the state machine; deaths and
restarts are not bounded. For the agent, `freelance` has the shortest times the
comparisons allow, so that servers expire and are pinged between any two events, and
`freelance_expects` the program's. Two servers are enough to pass expired ones over, two
requests to confuse one with the other, a third to fall over it. A full pipe of one
message is the ROUTER dropping. Two paranoid pirates make an order in the queue; `Liveness` 2
separates "missed one" from "missed all", `IntervalMax` 2 lets the back-off reach its end, and
one fault or delay at any point is enough for each of the two sides to forget the other. Two calls and one retry are what lets an answer to an
earlier call meet a later one; a second retry adds another closed socket and exceeds the time (the theorem `NoStaleAnswer` covers it).
For Titanic two records let a scan pass one over and fail at the other, and two
crashes let a restart be interrupted again. The theorems below have no such bounds.

Deadlock is checked in every run but `titanic`: timers tick for ever. Titanic's clients
make one request each, and when the dispatcher has failed, or all is done, there is
nothing left to do.

Fairness (`FairSpec`). For Majordomo: weak fairness of each worker's thread, of the broker's
loop for each pipe, of its timer, of a client that has a message to read, and of the
clock: threads that can run do run, and ZeroMQ queues fairly among peers. Nothing is
assumed of clients starting calls, of timeouts, deaths and restarts. `Prompt`
makes the clock wait for processing: an interval passes only when everybody is
blocked in a poll. It states that 2.5 s is long compared with reading the
messages at hand; without it a broker could take so long for each message that
workers time out for ever, and the code promises nothing then.

For the pair: weak fairness of the clock and of each server's timer and state socket,
and of the client's three steps and the requests at a server. For the agent: of its loop, of
the clock and of the caller's receive; nothing is asked of servers. (The fairness of the
loop is written out with `CanPass`, the condition under which its poll returns, because that
spares TLC the evaluation of `ENABLED`.) For the Paranoid Pirate: of the broker's pass for each
worker's messages, for some client's request and for the poll that runs out, of the workers'
threads, of the clock, and of starting a broker that has ended; clients, workers that
are started and deaths are free. For Titanic: of the threads of request_worker and the dispatcher, of
restarting, and of a client that polls, for whose answer no thread but reply_worker is
needed; close_worker, late executions and new clients are free. Time-outs are
bounded, so that a call is answered in the end.

## 4. The proofs

`tlapm` proves the following for every value of the constants that satisfies the named
assumptions of each module (`NamesAssumption`, `LivenessAssumption`, `TimesAssumption`, ...: distinct names and
positive numbers, finitely many clients, no more). A hypothesis beyond these is written in the
theorem, and named in the third column of this table.

| theorem | says | if |
|---|---|---|
| `BrokerConsistent` (`MDBrokerProofs`) | `Spec => []Tables(broker)`, the inductive invariant of the broker | |
| `TypeCorrect` | `Spec => []TypeOK` | |
| `WaitingIsRegistered`, `WaitsOnce`, `NoIdleWhileQueued`, `QueuesReachable`, `LookupsNeverFail` | the five safety invariants of the run `mdbroker` | |
| `LongestIdleServed`, `OnlyLiveServed`, `RequestsInOrder` | the three action properties of that run: `LongestIdleFirst`, `DispatchOnlyToLive`, `FifoRequests` | |
| `EraseFacts`, `EraseKeepsOrder` (`QueueTheorems`) | `std::erase` removes all it should and nothing else, adds nothing, keeps the order, and keeps lists without repetitions so | |
| `OneRequest` (`MajordomoProofs`) | `OneRequestPerWorker`: broker and worker take turns, as long as every identity drawn was free (`~ clash`, in the property) | |
| `OneCopy` | `AtMostOneCopy`: a request is in one place at most, whatever identities are drawn | |
| `AnswersOwnCall` | `AnswersTheCall`: a client can read the answer to its own call only, whatever identities are drawn | |
| `ImplementsBroker` | `Spec => BrokerSpec`: the whole system refines `MDBroker`, but for late replies after a clash | |
| `StarInvariant` (`BinaryStarProofs`) | `Spec => []Inductive`, the invariant of the pair | |
| `StarTypes`, `NoDualPassive`, `DualPassiveBranchDead` | the three invariants of the run `binary_star`, for every expiry and pipe, `Reliable` and `Prompt` or not | |
| `NoSplitBrain` | `AtMostOneActive` for the pair alone | `Prompt`, `Reliable`, `PeerExpiry >= 2` |
| `ClientRefinesPair` (`BinaryStarClientProofs`) | `Spec => B!Spec`: the pair with its client refines the pair | |
| `ClientNoDualPassive`, `ClientTypes` | `B!NeverBothPassive` and `ClientTypeOK` beside the client | |
| `ClientNoSplitBrain` | `AtMostOneActive`, the other invariant of the run `binary_star_client` | `Prompt`, `Reliable`, `PeerExpiry >= 2` |
| `NeverForgotten` (`FreelanceProofs`) | `Spec => []CallerNeverForgotten`, for any servers, times and number of calls | |
| `QueueKept` | the invariant of the agent's queue of servers | |
| `AliveServersQueued`, `QueueBounded`, `AnswersOrdered`, `FreelanceTypes` | the other invariants of the run `freelance`, `TypeOK` among them | |
| `QueueInvariant` (`ParanoidPirateProofs`) | the invariant of `worker_queue` | |
| `NeverQueuedTwice`, `PoppedIsFresh`, `PirateTypes` | `QueuedOnce`, `FreshWhenPopped` and `TypeOK` of the run `paranoid_pirate` | |
| `PirateCustody` | the invariant of where the requests of a client are | |
| `NoStaleAnswer` | `FailsOnlyAfterRetry` of that run | |
| `StoreInvariant` (`TitanicProofs`) | the invariant of the files and the threads | |
| `Implements` | `Spec => KeepsPromise`: Titanic refines `TitanicPromise` (a recorded request is never lost, none is closed before a reply is begun), for any requests and any number of crashes | |
| `Attempts` | the invariant of how often services are carried out | |
| `OncePerAttemptHolds`, `FailsOnlyAfterCrashHolds`, `TitanicTypes` | `OncePerAttempt`, `FailsOnlyAfterCrash` and `TypeOK` of the run `titanic` | |

The argument for the broker. None of the five is inductive alone. That nobody waits twice
needs, at a READY, that an identity without a record is in no list
(`Registered`); that no lookup fails needs the same; that deletion reaches
every list needs that lists exist only under keys of `services_` (`Listed`). The conjunction of
`Registered`, `Listed` and the types is `Sound`. A handler composes methods, and in the middle of a
handler a service may have both an idle worker and a request until the dispatch at
the end; `Consistent` is `Sound` with "one of the two lists is empty"
(`Exclusive`) for every service. That nobody waits twice (`NoDuplicates`) is apart from both: every
handler keeps it but that of a REPLY from an identity that waits, which is what `MaySend`
excludes here and a clash brings about in `Majordomo`. There is one lemma for each method
(`RequireSound`, `DeleteSound`, `PurgeSound`, `DispatchSound`, ...): a method keeps `Sound`, and
`service_dispatch(b, n)` turns "exclusive except at n" into "exclusive". The handlers
are then chains of these lemmas (`WorkerProcessConsistent`, `ClientProcessConsistent`,
`TimerConsistent`). `Tables`, the invariant, is all this whether or not a short message has ended the
loop, and `StepConsistent` has one case for each action.

The action properties are about the middle of a handler. `DispatchShape` says what a dispatch
makes of the two lists: expired workers are erased, then one element or none is taken from the
front of both. `TakenFromFront` derives from `EraseKeepsOrder` that nobody left was before somebody taken.

`Erase` is recursive, and induction principles that take an operator are not
available to the provers; `QueueTheorems` argues by least counterexample from the
fact that `<` is well founded on the naturals.

The argument for Majordomo has three parts. Each uses the theorems of the broker.

*Turns.* That an identity has one request at most is not inductive: it needs that the broker dispatches
only when nothing of the identity is under way. `Turn` says it for one identity: its request is in one of
three places (on the way to it, at it, on the way back); an identity that waits in the broker,
or whose READY is still to be read, is in none of them and sends READY first and once; and such a READY
finds no record. The last clause is where identities matter: one that the broker still knows may be given
a request before the READY of its new holder is read, and the READY or the reply then
meets a broker that is not waiting for it. So `Inv` claims `Turns`, and the broker's `NoDuplicates`, as long as
no identity was drawn that was not free; the broker's `Consistent`, the types, and that the ROUTER
knows no two sockets under one identity (`Distinct`) hold in any case. The lemmas of the last part of
`MDBrokerProofs` say what each handler sends: requests only to identities that waited
(`Serves`, `Moves`).

*Custody.* `Places` lists where the requests of a client can be, with the answer in its own pipe as the last.
`Keep(c)` says that at most one place holds something, one thing; that all of it is of the present
call of `c`; and that nothing is left when `c` is ready for its next call. Each step either adds
to no place (`KeepsPlace`) or takes the one thing there is from a place to the next (`MovesOn`),
and both keep `Keep` (`PlacesCarry`). None of this needs turns: a request is handed on by whoever has it, whatever the identity. A client that times out ends, so that its later
answers meet no later call. `AtMostOneCopy` and `AnswersTheCall` follow.

*Refinement.* `StepOfBroker` maps each action: `BrokerRecvWorker` is a `WorkerMessage` and `BrokerRecvClient` a
`ClientMessage`, timer, tick and restart are themselves, and every other step leaves the broker alone. `WorkerMessage` needs `MaySend`, which the
turns give until a clash; after one, a REPLY of an identity that waits is a `LateReply`. `ClientMessage` needs room in the bounded queue of the abstract broker: by custody
a request that is still to come is not queued, so that a queue holds fewer than there are requests
(`QueueHasRoom`), and `MaxRequests` never cuts anything off.

The argument for the pair. That two servers are not both passive is not inductive: a
pending server with an unread ACTIVE will be passive. `AtMostOneYields` says that at most one
server is passive or can still read ACTIVE without being active. It holds because a server
only publishes ACTIVE while it is active, and no event leads out of ACTIVE. `Ordered` adds what
the second invariant needs: on the way to a server that is not active no PASSIVE is behind an
ACTIVE, and on the way to a passive server there is no PASSIVE at all. `DownReadsNothing` is
where the end of a process counts: without it (the mutant `EndedKeepsInbox`) messages for an
earlier life reach the next. There is one lemma for each action.

That two servers are not both active holds only under assumptions (section 3), and its invariant `Calm`
is about what a server can know of the other. With prompt reading there is at most one
unread message, published since the last firing of its publisher's timer (`Single`). A running peer
is at least as far as its message says (`SameLife`). A message that would make its reader active comes
from a server that has not got beyond waiting (`Awaited`). A server that would become active when the
peer expires has heard from a running peer since that peer's last firing (`Hears`), so that it
never takes silence for death (`NotExpired`). `server1` may be silent for two heartbeats, and so the
expiry has to be two or more; with 1 a running server is taken for dead. Both programs have three.

The pair with its client refines the pair, since a client's request is one of the open environment
(`ClientRefinesPair`): the theorems are then cited, not proved again.

The argument for the agent is a chain of custody through one pass: `ControlKeeps` (a command
becomes a request), `RouteKeeps` (a request goes only for an answer that is passed on),
`DispatchKeeps` (it goes only with FAILED), `PingKeeps`; `PassRemembers` puts them together.
For its queue of servers, that nobody is there more than twice is not inductive: a dead
server that was there twice would be queued a third time when it is heard. `QueueOf` says what the
queue holds of a server: nothing before it is connected, one copy at most while it is not alive,
one or two while it is. It is kept because a server stops being alive only when the pass takes one
of its copies off the front. `Connecting` (what is on its way in the pipe is not known yet) rests on
`DistinctAssumption`: `main` connects to each server once.

The argument for `worker_queue` is short: `Sound` (no repetition; types) and `Within` (ages).
Age is kept at 0 outside the queue, and a purge at the end of each pass brings
ages back to `Liveness`, from which they grow with the wait of the poll and not beyond.

That a client ends only by the echo of a retry is about the whole path. `Custody` follows a client's requests
through the frontend, the pipes to the workers and back, and the answers: all of them are of its
present call, the answers on its present socket are to what it sent last, and until it retries there is one
at most in one place. Without the last part a second copy could outlive the call and answer the
next. There is one lemma for each half of the broker's pass, each step of a worker and of
a client, and for what a closed socket or a dead process loses.

The argument for Titanic. `StoreInv` has four parts: a UUID is saved once and is in the
pipe, with the taker or in the queue file, not in two of them (`SavedOnce`); what memory holds has its
`.req` (`InMemory`); a reply, begun or whole, exists only for a recorded request (`RepliesAreRecorded`); and the
dispatcher is at a record of the file (`AtRecord`). Under it each action either leaves
the status of every request alone (`SameStatus`) or moves one by an action of
`TitanicPromise` (`OneMoves`); `Crash` is its `Crash`. One lemma for each action gives both
the invariant and the mapped step.

How often a service is carried out is an invariant with a budget (`Budget`): executions done or still
to be done are at most the time-outs, the crashes, and one for a request that is `Settled`, answered in
this life of the process or marked in the file. It needs that a request has one record
(`RecordedOnce`) and that the dispatcher calls for pending records only (`AtPending`). That the
dispatcher finds every `.req` while nothing has crashed rests on `PastInv`: a client can see, and so
close, a reply only when the dispatcher has opened the `.rep`, and from then on to the `+` it does not
load the `.req` again.

The types are theorems as well. They carry bounds: the agent's numbers never pass the calls that were
made (`FreelanceTypes`), and the back-off of a worker ends at twice `IntervalMax`, since it is doubled after the comparison
(`PirateTypes`).

Only model-checked: the properties under fairness (`WorkersRegister`, `QueueDrains`, `PairSettles`,
`ClientServed`, `CallerReturns`, `WorkersStayQueued`, `ServedUnlessCrashed`, `RecordedIsDone`), which are beyond the prover. Every safety invariant and every action property
of a passing run is a theorem, as is each of the two refinements that a run checks. The three violated properties are counterexamples
and need no proof.

## 5. Not modelled

* *Message frames*, formatting, logging (`dump`, `logger`), and the reading of configuration: data
  and output without control. `save` and `load` are modelled as far as Titanic's crashes and
  missing files go; that a frame with a line end comes back as two is not.
* *The lifecycle of threads* (`iworker`, `sub_admin`, `pub_admin`, the `main` functions). A STOP ends
  `wait`, and then destruction order decides: `~mdworker` destroys the session while the thread of
  `iworker` still uses it. This is undefined behaviour, not a protocol; the models let every
  process end at any point instead. In the Paranoid Pirate the admin thread is never started, so
  that `wait` returns at once.
* *The clustered hashmap*. `clonesrv::run` is empty, nothing creates a `clonesrv`, nothing fills
  its map; `server/main.cpp` makes one `kvmsg` and ends. There is no behaviour over time to model,
  and no program that can reach what the snapshot handler or the accessors would do wrong.
* *The worker factory*: a table from names to classes.
* *ZeroMQ* beyond what section 2 says of it.

The plan, which is carried out: `MDBroker` and `Majordomo`; the pair and its client; `Freelance`;
`ParanoidPirate`; `Titanic`; each with its proofs.
