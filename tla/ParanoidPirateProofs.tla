------------------------ MODULE ParanoidPirateProofs ------------------------
(***************************************************************************)
(* For any workers, clients, times and bounds, of module ParanoidPirate:   *)
(*                                                                         *)
(* - the broker never has an identity twice in its queue, and never one    *)
(*   that was silent for longer than its last poll allows;                 *)
(* - everything keeps its type;                                            *)
(* - a client never takes an answer to an earlier call for an answer to its*)
(*   present one: the whole system holds at most one request of a client   *)
(*   that has not retried.                                                 *)
(***************************************************************************)
EXTENDS ParanoidPirate, QueueTheorems, TLAPS

QueueState == [ids : Seq(Workers), age : [Workers -> Nat]]

\* A queue that the methods of worker_queue leave well formed.
Sound(q) == q \in QueueState /\ NoRepeats(q.ids)

\* Nobody in the queue has been silent for more than n intervals.
Within(q, n) == \A w \in Workers : Queued(q, w) => q.age[w] <= n

\* The inductive invariant.  A broker that does not run has no queue: without
\* that, a tick would age its entries and not its poll.
QueueInv ==
    /\ Sound(queue)
    /\ broker.waited \in Nat
    /\ broker.up \in BOOLEAN
    /\ DOMAIN broker = {"up", "due", "waited"}
    /\ Within(queue, Liveness + broker.waited)
    /\ ~ broker.up => queue.ids = <<>>

-----------------------------------------------------------------------------
(* The methods of worker_queue.                                            *)

\* Appending a value adds that element, and repeats nothing when it is new.
LEMMA AppendFacts ==
  ASSUME NEW S, NEW s \in Seq(S), NEW x \in S
  PROVE  /\ Append(s, x) \in Seq(S)
         /\ Elements(Append(s, x)) = Elements(s) \cup {x}
         /\ NoRepeats(s) /\ x \notin Elements(s) => NoRepeats(Append(s, x))
BY DEF Elements, NoRepeats

\* What std::erase_if takes out is gone, whatever it is.
LEMMA EraseSound ==
  ASSUME NEW q, Sound(q), NEW D
  PROVE  /\ Sound(erase(q, D))
         /\ \A w \in Workers : Queued(erase(q, D), w) =>
               w \notin D /\ Queued(q, w) /\ erase(q, D).age[w] = q.age[w]
<1>1. q.ids \in Seq(Workers) /\ q.age \in [Workers -> Nat] /\ NoRepeats(q.ids)
  BY DEF Sound, QueueState
<1>2. /\ Erase(q.ids, D) \in Seq(Workers)
      /\ Elements(Erase(q.ids, D)) \subseteq Elements(q.ids) \ D
      /\ NoRepeats(Erase(q.ids, D))
  BY <1>1, EraseFacts, Zenon
<1>3. erase(q, D).ids = Erase(q.ids, D)
  BY DEF erase
<1>4. erase(q, D).age = [w \in Workers |-> IF w \in D THEN 0 ELSE q.age[w]]
  BY DEF erase
<1>5. erase(q, D) \in QueueState
  <2>1. [w \in Workers |-> IF w \in D THEN 0 ELSE q.age[w]] \in [Workers -> Nat]
    BY <1>1
  <2> QED BY <1>2, <2>1 DEF erase, QueueState
<1>6. Sound(erase(q, D))
  BY <1>2, <1>3, <1>5, Zenon DEF Sound
<1>7. \A w \in Workers : Queued(erase(q, D), w) => w \notin D /\ Queued(q, w)
  BY <1>2, <1>3, Zenon DEF Queued
<1> QED BY <1>4, <1>6, <1>7

\* push looks the identity up first.
LEMMA PushSound ==
  ASSUME NEW q, Sound(q), NEW w \in Workers
  PROVE  /\ Sound(push(q, w))
         /\ \A x \in Workers : Queued(push(q, w), x) =>
               push(q, w).age[x] = 0 \/ (Queued(q, x) /\ push(q, w).age[x] = q.age[x])
<1>1. q.ids \in Seq(Workers) /\ q.age \in [Workers -> Nat] /\ NoRepeats(q.ids)
  BY DEF Sound, QueueState
<1>2. CASE Queued(q, w)
  BY <1>2 DEF push
<1>3. CASE ~ Queued(q, w)
  <2>1. push(q, w) = [ids |-> Append(q.ids, w), age |-> [q.age EXCEPT ![w] = 0]]
    BY <1>3 DEF push
  <2>2. /\ Append(q.ids, w) \in Seq(Workers)
        /\ Elements(Append(q.ids, w)) = Elements(q.ids) \cup {w}
        /\ NoRepeats(Append(q.ids, w))
    <3>1. w \notin Elements(q.ids)
      BY <1>3, Zenon DEF Queued
    <3> QED BY <1>1, <3>1, AppendFacts, Zenon
  <2>3. Sound(push(q, w))
    <3>1. [q.age EXCEPT ![w] = 0] \in [Workers -> Nat]
      BY <1>1
    <3>2. push(q, w) \in QueueState
      BY <2>1, <2>2, <3>1 DEF QueueState
    <3>3. push(q, w).ids = Append(q.ids, w)
      BY <2>1
    <3> QED BY <2>2, <3>2, <3>3, Zenon DEF Sound
  <2>4. \A x \in Workers : Queued(push(q, w), x) <=> Queued(q, x) \/ x = w
    BY <2>1, <2>2 DEF Queued
  <2>5. push(q, w).age = [q.age EXCEPT ![w] = 0]
    BY <2>1
  <2>6. \A x \in Workers : push(q, w).age[x] = IF x = w THEN 0 ELSE q.age[x]
    BY <1>1, <2>5
  <2> QED BY <2>3, <2>4, <2>6
<1> QED BY <1>2, <1>3

\* A heartbeat renews an entry and adds none.
LEMMA RefreshSound ==
  ASSUME NEW q, Sound(q), NEW w \in Workers
  PROVE  /\ Sound(refresh(q, w))
         /\ \A x \in Workers : Queued(refresh(q, w), x) =>
               Queued(q, x) /\ refresh(q, w).age[x] <= q.age[x]
<1>1. q.ids \in Seq(Workers) /\ q.age \in [Workers -> Nat] /\ NoRepeats(q.ids)
  BY DEF Sound, QueueState
<1>2. refresh(q, w).ids = q.ids /\ refresh(q, w).age = [q.age EXCEPT ![w] = 0]
  BY DEF refresh, Sound, QueueState
<1>3. refresh(q, w) \in QueueState
  BY <1>1 DEF refresh, Sound, QueueState
<1>4. [q.age EXCEPT ![w] = 0] \in [Workers -> Nat]
      /\ \A x \in Workers : [q.age EXCEPT ![w] = 0][x] <= q.age[x]
  BY <1>1
<1> QED BY <1>1, <1>2, <1>3, <1>4, Zenon DEF Sound, Queued

\* The front of the queue goes; the others keep their place.
LEMMA PopSound ==
  ASSUME NEW q, Sound(q), q.ids # <<>>
  PROVE  /\ Sound(pop(q))
         /\ \A x \in Workers : Queued(pop(q), x) =>
               Queued(q, x) /\ pop(q).age[x] <= q.age[x]
<1>1. q.ids \in Seq(Workers) /\ q.age \in [Workers -> Nat] /\ NoRepeats(q.ids)
  BY DEF Sound, QueueState
<1>2. /\ Tail(q.ids) \in Seq(Workers) /\ Head(q.ids) \in Workers
      /\ Elements(Tail(q.ids)) \subseteq Elements(q.ids)
      /\ NoRepeats(Tail(q.ids))
  <2> DEFINE s == q.ids
             t == Tail(s)
  <2>1. /\ t \in Seq(Workers) /\ Head(s) = s[1] /\ Len(s) \in Nat \ {0}
        /\ Len(t) = Len(s) - 1 /\ \A i \in 1 .. Len(s) - 1 : t[i] = s[i + 1]
    BY <1>1
  <2>2. s[1] \in Workers /\ NoRepeats(s)
    BY <1>1, <2>1
  <2> HIDE DEF s, t
  <2>3. \A i \in 1 .. Len(t) : i + 1 \in 1 .. Len(s) /\ t[i] = s[i + 1]
    BY <2>1
  <2>4. Elements(t) \subseteq Elements(s)
    BY <2>3 DEF Elements
  <2>5. NoRepeats(t)
    <3>1. \A i, j \in 1 .. Len(t) : i + 1 = j + 1 => i = j
      BY <2>1
    <3> QED BY <2>2, <2>3, <3>1 DEF NoRepeats
  <2> QED BY <2>1, <2>2, <2>4, <2>5 DEF s, t
<1>3. pop(q).ids = Tail(q.ids) /\ pop(q).age = [q.age EXCEPT ![Head(q.ids)] = 0]
  BY DEF pop
<1>4. [q.age EXCEPT ![Head(q.ids)] = 0] \in [Workers -> Nat]
      /\ \A x \in Workers : [q.age EXCEPT ![Head(q.ids)] = 0][x] <= q.age[x]
  BY <1>1, <1>2
<1>5. pop(q) \in QueueState
  BY <1>2, <1>4 DEF pop, QueueState
<1> QED BY <1>2, <1>3, <1>4, <1>5, Zenon DEF Sound, Queued

\* The purge leaves nobody who has been silent for more than Liveness intervals.
LEMMA PurgeSound ==
  ASSUME NEW q, Sound(q)
  PROVE  Sound(purge(q)) /\ Within(purge(q), Liveness)
<1>1. q.age \in [Workers -> Nat]
  BY DEF Sound, QueueState
<1>2. Sound(purge(q))
  BY EraseSound, Zenon DEF purge
<1>3. \A w \in Workers : Queued(purge(q), w) =>
         w \notin Expired(q) /\ purge(q).age[w] = q.age[w]
  <2> DEFINE D == Expired(q)
  <2>1. purge(q) = erase(q, D)
    BY DEF purge
  <2> HIDE DEF D
  <2>2. \A w \in Workers : Queued(erase(q, D), w) =>
           w \notin D /\ Queued(q, w) /\ erase(q, D).age[w] = q.age[w]
    BY EraseSound
  <2>3. \A w \in Workers : Queued(purge(q), w) => w \notin D /\ purge(q).age[w] = q.age[w]
    BY <2>1, <2>2
  <2> QED BY <2>3 DEF D
<1> QED BY <1>1, <1>2, <1>3, TimesAssumption DEF Within, Expired

\* Whatever a worker sends, the queue stays sound.
LEMMA BackendSound ==
  ASSUME NEW q, Sound(q), NEW b \in Workers, NEW msg
  PROVE  Sound(BackendReceive(q, b, msg))
<1>1. Sound(push(erase(q, {b}), b))
  BY EraseSound, PushSound, Zenon
<1>2. Sound(push(q, b)) /\ Sound(refresh(q, b))
  BY PushSound, RefreshSound, Zenon
<1> QED BY <1>1, <1>2, Zenon DEF BackendReceive

-----------------------------------------------------------------------------
(* The steps.                                                              *)

\* The broker starts with an empty queue.
LEMMA InitQueue == Init => QueueInv
<1> SUFFICES ASSUME Init PROVE QueueInv OBVIOUS
<1>1. queue = [ids |-> <<>>, age |-> [w \in Workers |-> 0]]
      /\ broker = [up |-> TRUE, due |-> FALSE, waited |-> 0]
  BY DEF Init, EmptyQueue
<1> QED BY <1>1 DEF QueueInv, Sound, QueueState, Within, Queued, Elements, NoRepeats

\* A pass of the broker ends with the purge, after which the poll starts anew.
LEMMA PassQueue ==
  ASSUME QueueInv, NEW b \in Workers \cup {NoWorker}, NEW r, BrokerPass(b, r)
  PROVE  QueueInv'
<1> DEFINE q1 == IF b = NoWorker THEN queue
                 ELSE BackendReceive(queue, b, Head(toBroker[b]))
<1> DEFINE q2 == IF r # NoRequest /\ q1.ids # <<>> THEN pop(q1) ELSE q1
<1>1. Sound(queue) /\ broker.up /\ DOMAIN broker = {"up", "due", "waited"}
  BY DEF QueueInv, BrokerPass
<1>2. Sound(q1)
  BY <1>1, BackendSound, Zenon
<1>3. Sound(q2)
  BY <1>2, PopSound, Zenon
<1>4. queue' = purge(q2) /\ broker' = [broker EXCEPT !.due = FALSE, !.waited = 0]
  BY DEF BrokerPass
<1>5. Sound(queue') /\ Within(queue', Liveness)
  BY <1>3, <1>4, PurgeSound, Zenon
<1>6. broker'.up = TRUE /\ broker'.waited = 0 /\ DOMAIN broker' = {"up", "due", "waited"}
  <2> HIDE DEF q2
  <2> QED BY <1>1, <1>4
<1>7. Within(queue', Liveness + broker'.waited)
  <2>1. Liveness + broker'.waited = Liveness
    BY <1>6, TimesAssumption
  <2> QED BY <1>5, <2>1, Zenon
<1> QED
  <2>1. broker'.waited \in Nat /\ broker'.up \in BOOLEAN
    BY <1>6, 0 \in Nat, Zenon
  <2>2. Within(queue', Liveness + broker'.waited) <=> Within(queue, Liveness + broker.waited)'
    BY DEF Within, Queued, Elements
  <2> QED BY <1>5, <1>6, <1>7, <2>1, <2>2, Zenon DEF QueueInv, Sound, QueueState, NoRepeats

\* A broker that ends has no queue when it starts again.
LEMMA RestartQueue ==
  ASSUME QueueInv, BrokerStart \/ BrokerStop
  PROVE  QueueInv'
<1>1. CASE BrokerStart
  <2>1. queue.ids = <<>> /\ queue' = queue /\ broker' = [up |-> TRUE, due |-> FALSE, waited |-> 0]
    BY <1>1 DEF BrokerStart, QueueInv
  <2>2. \A w : ~ Queued(queue, w)'
    BY <2>1 DEF Queued, Elements
  <2> QED BY <2>1, <2>2 DEF QueueInv, Within, Sound, QueueState, NoRepeats
<1>2. CASE BrokerStop
  <2>1. queue' = [ids |-> <<>>, age |-> [w \in Workers |-> 0]]
        /\ broker' = [up |-> FALSE, due |-> FALSE, waited |-> 0]
    BY <1>2 DEF BrokerStop, EmptyQueue
  <2> QED BY <2>1 DEF QueueInv, Within, Sound, QueueState, NoRepeats, Queued, Elements
<1> QED BY <1>1, <1>2

\* A tick makes the entries and the poll older by the same interval.
LEMMA TickQueue ==
  ASSUME QueueInv, Tick
  PROVE  QueueInv'
<1> DEFINE aged == [w \in Workers |-> IF Queued(queue, w) THEN queue.age[w] + 1 ELSE 0]
<1>1. queue \in QueueState /\ NoRepeats(queue.ids) /\ Within(queue, Liveness + broker.waited)
      /\ broker.waited \in Nat
  BY DEF QueueInv, Sound
<1>2. queue' = [queue EXCEPT !.age = aged]
  BY DEF Tick
<1>3. queue.age \in [Workers -> Nat] /\ queue.ids \in Seq(Workers)
  BY <1>1 DEF QueueState
<1>4. aged \in [Workers -> Nat]
  BY <1>3
<1>5. queue'.ids = queue.ids /\ queue'.age = aged /\ queue' \in QueueState
  <2> HIDE DEF aged
  <2> QED BY <1>1, <1>2, <1>4 DEF QueueState
<1>6. \A w \in Workers : Queued(queue, w)' <=> Queued(queue, w)
  BY <1>5 DEF Queued
<1>7. CASE broker.up
  <2>1. broker' = [broker EXCEPT !.due = TRUE, !.waited = @ + 1]
    BY <1>7 DEF Tick
  <2>2. broker'.waited = broker.waited + 1 /\ broker'.up
        /\ DOMAIN broker' = {"up", "due", "waited"} /\ broker'.up = broker.up
    BY <1>7, <2>1 DEF QueueInv
  <2>3. Within(queue, Liveness + broker.waited)'
    BY <1>1, <1>3, <1>5, <1>6, <2>2, TimesAssumption DEF Within
  <2> QED BY <1>1, <1>5, <2>2, <2>3, <1>7 DEF QueueInv, Sound, QueueState
<1>8. CASE ~ broker.up
  <2>1. broker' = broker /\ queue.ids = <<>>
    BY <1>8 DEF Tick, QueueInv
  <2>2. \A w \in Workers : ~ Queued(queue, w)'
    BY <2>1, <1>6 DEF Queued, Elements
  <2> QED BY <1>1, <1>5, <2>1, <2>2 DEF QueueInv, Sound, QueueState, Within
<1> QED BY <1>7, <1>8

\* Only the broker touches its queue.
LEMMA OthersQueue ==
  ASSUME QueueInv, UNCHANGED <<queue, broker>>
  PROVE  QueueInv'
BY DEF QueueInv, Sound, QueueState, Within, Queued, Elements, NoRepeats

\* The invariant is inductive.
LEMMA StepQueue == QueueInv /\ [Next]_vars => QueueInv'
<1> SUFFICES ASSUME QueueInv, [Next]_vars PROVE QueueInv' OBVIOUS
<1>1. CASE \E b \in Workers \cup {NoWorker}, r \in front \cup {NoRequest} : BrokerPass(b, r)
  BY <1>1, PassQueue
<1>2. CASE BrokerStart \/ BrokerStop
  BY <1>2, RestartQueue
<1>3. CASE Tick
  BY <1>3, TickQueue
<1>4. CASE \E w \in Workers : WorkerStep(w) \/ WorkerStart(w) \/ WorkerStop(w)
  <2>1. UNCHANGED <<queue, broker>>
    BY <1>4 DEF WorkerStep, WorkerStart, WorkerStop, WorkerReceive, PollTimeout, GiveUp,
                Reconnect
  <2> QED BY <2>1, OthersQueue
<1>5. CASE \E c \in Clients : ClientSend(c) \/ ClientRead(c) \/ ClientTimeout(c)
  <2>1. UNCHANGED <<queue, broker>>
    BY <1>5 DEF ClientSend, ClientRead, ClientTimeout
  <2> QED BY <2>1, OthersQueue
<1>6. CASE UNCHANGED vars
  BY <1>6, OthersQueue DEF vars
<1> QED BY <1>1, <1>2, <1>3, <1>4, <1>5, <1>6 DEF Next

\* The queue of the broker is well formed and no older than its poll allows.
THEOREM QueueInvariant == Spec => []QueueInv
BY InitQueue, StepQueue, PTL DEF Spec

\* worker_queue::push and the READY handler never list an identity twice.
THEOREM NeverQueuedTwice == Spec => []QueuedOnce
<1>1. QueueInv => QueuedOnce
  BY DEF QueueInv, Sound, QueuedOnce
<1> QED BY <1>1, QueueInvariant, PTL

\* The worker that is popped was heard within Liveness intervals and one poll.
THEOREM PoppedIsFresh == Spec => []FreshWhenPopped
<1>1. QueueInv => FreshWhenPopped
  BY DEF QueueInv, Within, FreshWhenPopped
<1> QED BY <1>1, QueueInvariant, PTL

-----------------------------------------------------------------------------
(* Types.                                                                  *)

WorkerState ==
    [phase : {"down", "poll", "asleep"}, liveness : 1 .. Liveness,
     interval : 1 .. 2 * IntervalMax, sleep : 0 .. 2 * IntervalMax,
     waited : BOOLEAN, due : BOOLEAN, linked : BOOLEAN]

ClientState ==
    [phase : {"ready", "waiting", "abandoned", "failed"}, seq : 0 .. Calls,
     retries : 0 .. Retries]

Pipes == [Workers -> Seq(Message)]

\* The types are inductive with two facts about the clients: one that waits has
\* sent something and has a retry left, one that is ready has them all.
TypeInv ==
    /\ TypeOK
    /\ \A c \in Clients :
          /\ client[c].phase = "waiting" => client[c].retries >= 1 /\ client[c].seq >= 1
          /\ client[c].phase = "ready" => client[c].retries = Retries

LEMMA TypeFacts ==
  ASSUME TypeInv
  PROVE  /\ worker \in [Workers -> WorkerState] /\ client \in [Clients -> ClientState]
         /\ toBroker \in Pipes /\ toWorker \in Pipes
BY Zenon DEF TypeInv, TypeOK, WorkerState, ClientState, Pipes

\* What the constants are, for arithmetic.
LEMMA Numbers ==
  /\ Liveness \in Nat /\ Liveness >= 1 /\ IntervalMax \in Nat /\ IntervalMax >= 1
  /\ Retries \in Nat /\ Retries >= 1 /\ HWM \in Nat /\ HWM >= 1 /\ Calls \in Nat
  /\ MaxFaults \in Nat /\ MaxRefusals \in Nat
BY TimesAssumption, BoundsAssumption

\* The beginning of a pipe.
LEMMA FirstFacts ==
  ASSUME NEW S, NEW s \in Seq(S), NEW k \in 0 .. Len(s)
  PROVE  First(s, k) \in Seq(S) /\ Part(s, First(s, k))
BY Parts DEF First

\* The messages of one pass of the broker are put behind those of each pipe, and
\* what is too much for the pipe is lost.
LEMMA SentFacts ==
  ASSUME toWorker \in Pipes, NEW w, NEW r \in Request \cup {NoRequest}, NEW B,
         NEW M, READY \notin M, HEARTBEAT \notin M, NoRequest \notin M
  PROVE  /\ Sent(w, r, B) \in Pipes
         /\ None(toWorker, M) => One(Sent(w, r, B), M)
         /\ r \notin M /\ None(toWorker, M) => None(Sent(w, r, B), M)
         /\ r \notin M /\ One(toWorker, M) => One(Sent(w, r, B), M)
<1> DEFINE one(y) == IF y = w /\ r # NoRequest THEN <<r>> ELSE <<>>
           two(y) == IF y \in B THEN one(y) \o <<HEARTBEAT>> ELSE one(y)
           x == [y \in Workers |-> IF Routable(y) THEN two(y) ELSE <<>>]
           all == Sends(Workers, toWorker, x)
<1>0. \A y \in Workers : toWorker[y] \in Seq(Message)
  BY DEF Pipes
<1>1. ASSUME NEW y \in Workers
      PROVE  /\ two(y) \in Seq(Message)
             /\ \A i \in 1 .. Len(two(y)) : two(y)[i] \in M => i = 1 /\ y = w /\ two(y)[i] = r
  <2>1. r # NoRequest => r \in Message
    BY DEF Message
  <2>2. HEARTBEAT \in Message
    BY DEF Message
  <2>3. one(y) \in Seq(Message)
        /\ \A i \in 1 .. Len(one(y)) : i = 1 /\ y = w /\ one(y)[i] = r
    BY <2>1
  <2>4. one(y) \o <<HEARTBEAT>> \in Seq(Message)
        /\ \A i \in 1 .. Len(one(y) \o <<HEARTBEAT>>) :
              \/ i \in 1 .. Len(one(y)) /\ (one(y) \o <<HEARTBEAT>>)[i] = one(y)[i]
              \/ (one(y) \o <<HEARTBEAT>>)[i] = HEARTBEAT
    <3> HIDE DEF one
    <3> QED BY <2>2, <2>3
  <2> HIDE DEF one
  <2>5. CASE y \in B
    BY <2>3, <2>4, <2>5
  <2>6. CASE y \notin B
    BY <2>3, <2>6
  <2> QED BY <2>5, <2>6
<1> HIDE DEF two
<1>2. x \in Pipes /\ DOMAIN x = Workers
  BY <1>1 DEF Pipes
<1>3. \A y \in Workers : \A i \in 1 .. Len(x[y]) : x[y][i] \in M => i = 1 /\ y = w /\ x[y][i] = r
  BY <1>1
<1> HIDE DEF x
<1>4. One(x, M) /\ (r \notin M => None(x, M))
  BY <1>2, <1>3 DEF One, None
<1>5. all \in Pipes /\ DOMAIN all = Workers /\ \A y \in Workers : all[y] = toWorker[y] \o x[y]
  BY <1>2, SendsKeep DEF Pipes, Sends
<1>6. /\ None(toWorker, M) => One(all, M)
      /\ r \notin M /\ None(toWorker, M) => None(all, M)
      /\ r \notin M /\ One(toWorker, M) => One(all, M)
  BY <1>2, <1>4, SendsKeep, Zenon DEF Pipes
<1> HIDE DEF all
<1>7. ASSUME NEW y \in Workers
      PROVE  Sent(w, r, B)[y] \in Seq(Message) /\ Part(all[y], Sent(w, r, B)[y])
  <2>1. all[y] \in Seq(Message) /\ Len(all[y]) \in Nat
    BY <1>5 DEF Pipes
  <2>2. CASE Routable(y)
    <3> DEFINE k == Min2(HWM, Len(all[y]))
    <3>1. k \in 0 .. Len(all[y])
      BY <2>1, Numbers DEF Min2
    <3>2. all[y] = toWorker[y] \o two(y)
      BY <1>5, <2>2 DEF x
    <3>3. Sent(w, r, B)[y] = First(all[y], k)
      BY <2>2, <3>2, Zenon DEF Sent, two
    <3> HIDE DEF k
    <3> QED BY <2>1, <3>1, <3>3, FirstFacts
  <2>3. CASE ~ Routable(y)
    <3>1. Sent(w, r, B)[y] = toWorker[y]
      BY <2>3, Zenon DEF Sent
    <3>2. all[y] = toWorker[y] \o <<>>
      BY <1>5, <2>3 DEF x
    <3>3. all[y] = toWorker[y]
      BY <1>0, <3>2
    <3> QED BY <2>1, <3>1, <3>3, Parts
  <2> QED BY <2>2, <2>3
<1>8. DOMAIN Sent(w, r, B) = Workers /\ Sent(w, r, B) \in Pipes
  BY <1>7 DEF Sent, Pipes
<1>9. Shrink(all, Sent(w, r, B)) /\ \A y \in DOMAIN all : Len(all[y]) \in Nat
  BY <1>5, <1>7, <1>8 DEF Shrink, Pipes
<1> QED BY <1>6, <1>8, <1>9, ShrinkKeeps, Zenon

\* The locals of a worker, changed as its steps change them.
LEMMA WorkerFields ==
  ASSUME NEW s \in WorkerState
  PROVE  /\ [s EXCEPT !.waited = FALSE, !.due = FALSE] \in WorkerState
         /\ [s EXCEPT !.interval = 1, !.liveness = Liveness] \in WorkerState
         /\ s.liveness > 1 => [s EXCEPT !.liveness = @ - 1] \in WorkerState
         /\ [s EXCEPT !.phase = "asleep", !.sleep = s.interval] \in WorkerState
         /\ \A l \in BOOLEAN :
               [s EXCEPT !.phase = "poll", !.liveness = Liveness, !.linked = l,
                         !.interval = BackOff(@)] \in WorkerState
         /\ \A l \in BOOLEAN : [s EXCEPT !.linked = l] \in WorkerState
         /\ \A b \in BOOLEAN : [s EXCEPT !.due = TRUE, !.waited = b] \in WorkerState
         /\ [s EXCEPT !.due = TRUE, !.sleep = IF s.sleep > 0 THEN s.sleep - 1 ELSE 0]
              \in WorkerState
<1>1. /\ s.phase \in {"down", "poll", "asleep"} /\ s.liveness \in 1 .. Liveness
      /\ s.interval \in 1 .. 2 * IntervalMax /\ s.sleep \in 0 .. 2 * IntervalMax
      /\ s.waited \in BOOLEAN /\ s.due \in BOOLEAN /\ s.linked \in BOOLEAN
      /\ s = [phase |-> s.phase, liveness |-> s.liveness, interval |-> s.interval,
              sleep |-> s.sleep, waited |-> s.waited, due |-> s.due, linked |-> s.linked]
  BY DEF WorkerState
<1>2. 1 \in 1 .. 2 * IntervalMax /\ Liveness \in 1 .. Liveness
      /\ s.interval \in 0 .. 2 * IntervalMax
  BY <1>1, Numbers
<1>3. BackOff(s.interval) \in 1 .. 2 * IntervalMax
  BY <1>1, Numbers DEF BackOff
<1>4. s.liveness > 1 => s.liveness - 1 \in 1 .. Liveness
  BY <1>1, Numbers
<1>5. (IF s.sleep > 0 THEN s.sleep - 1 ELSE 0) \in 0 .. 2 * IntervalMax
  BY <1>1, Numbers
<1>6. [s EXCEPT !.waited = FALSE, !.due = FALSE] \in WorkerState
  BY <1>1 DEF WorkerState
<1>7. [s EXCEPT !.interval = 1, !.liveness = Liveness] \in WorkerState
  BY <1>1, <1>2 DEF WorkerState
<1>8. s.liveness > 1 => [s EXCEPT !.liveness = @ - 1] \in WorkerState
  BY <1>1, <1>4 DEF WorkerState
<1>9. [s EXCEPT !.phase = "asleep", !.sleep = s.interval] \in WorkerState
  BY <1>1, <1>2 DEF WorkerState
<1>10. ASSUME NEW l \in BOOLEAN
       PROVE  /\ [s EXCEPT !.phase = "poll", !.liveness = Liveness, !.linked = l,
                            !.interval = BackOff(@)] \in WorkerState
              /\ [s EXCEPT !.linked = l] \in WorkerState
  <2> DEFINE i == BackOff(s.interval)
  <2>1. i \in 1 .. 2 * IntervalMax
    BY <1>3
  <2> HIDE DEF i
  <2>2. [s EXCEPT !.phase = "poll", !.liveness = Liveness, !.linked = l, !.interval = i]
          \in WorkerState
    BY <1>1, <1>2, <2>1 DEF WorkerState
  <2>3. [s EXCEPT !.linked = l] \in WorkerState
    BY <1>1 DEF WorkerState
  <2> QED BY <2>2, <2>3 DEF i
<1>11. ASSUME NEW b \in BOOLEAN
       PROVE  [s EXCEPT !.due = TRUE, !.waited = b] \in WorkerState
  BY <1>1 DEF WorkerState
<1>12. [s EXCEPT !.due = TRUE, !.sleep = IF s.sleep > 0 THEN s.sleep - 1 ELSE 0] \in WorkerState
  <2> DEFINE n == IF s.sleep > 0 THEN s.sleep - 1 ELSE 0
  <2>1. n \in 0 .. 2 * IntervalMax
    BY <1>5
  <2> HIDE DEF n
  <2>2. [s EXCEPT !.due = TRUE, !.sleep = n] \in WorkerState
    BY <1>1, <2>1 DEF WorkerState
  <2> QED BY <2>2 DEF n
<1> QED BY <1>6, <1>7, <1>8, <1>9, <1>10, <1>11, <1>12

\* A stopped worker, before and as it starts.
LEMMA StoppedFields ==
  /\ StoppedWorker \in WorkerState
  /\ [StoppedWorker EXCEPT !.phase = "poll", !.linked = TRUE] \in WorkerState
<1>1. Liveness \in 1 .. Liveness /\ 1 \in 1 .. 2 * IntervalMax /\ 0 \in 0 .. 2 * IntervalMax
  BY Numbers
<1>2. StoppedWorker \in WorkerState
  BY <1>1 DEF StoppedWorker, WorkerState
<1>3. [StoppedWorker EXCEPT !.phase = "poll", !.linked = TRUE] \in WorkerState
  BY <1>1 DEF StoppedWorker, WorkerState
<1> QED BY <1>2, <1>3

\* A heartbeat, or nothing.
LEMMA Beats ==
  ASSUME NEW s
  PROVE  Beat(s) \in Seq(Message) /\ \A i \in 1 .. Len(Beat(s)) : Beat(s)[i] = HEARTBEAT
<1>1. HEARTBEAT \in Message
  BY DEF Message
<1> QED BY <1>1 DEF Beat

\* READY, and a heartbeat or nothing.
LEMMA ReadyAndBeat ==
  ASSUME NEW s
  PROVE  /\ <<READY>> \o Beat(s) \in Seq(Message)
         /\ \A i \in 1 .. Len(<<READY>> \o Beat(s)) :
               (<<READY>> \o Beat(s))[i] \in {READY, HEARTBEAT}
         /\ \A t \in Seq(Message) : t \o <<READY>> \o Beat(s) = t \o (<<READY>> \o Beat(s))
<1> DEFINE b == Beat(s)
           r == <<READY>>
<1>1. b \in Seq(Message) /\ \A i \in 1 .. Len(b) : b[i] = HEARTBEAT
  BY Beats
<1>2. r \in Seq(Message) /\ Len(r) = 1 /\ \A i \in 1 .. Len(r) : r[i] = READY
  <2>1. READY \in Message
    BY DEF Message
  <2> QED BY <2>1
<1> HIDE DEF b, r
<1>3. r \o b \in Seq(Message)
      /\ \A i \in 1 .. Len(r \o b) :
            \/ i \in 1 .. Len(r) /\ (r \o b)[i] = r[i]
            \/ i - Len(r) \in 1 .. Len(b) /\ (r \o b)[i] = b[i - Len(r)]
  BY <1>1, <1>2, ConcatFacts, Zenon
<1>4. \A t \in Seq(Message) : t \o r \o b = t \o (r \o b)
  BY <1>1, <1>2
<1>5. \A i \in 1 .. Len(r \o b) : (r \o b)[i] \in {READY, HEARTBEAT}
  BY <1>1, <1>2, <1>3
<1> QED BY <1>3, <1>4, <1>5, Zenon DEF b, r

\* What a worker sends at the end of a pass: a request it answers, a heartbeat.
LEMMA PassSends ==
  ASSUME toBroker \in Pipes, worker \in [Workers -> WorkerState],
         NEW w \in Workers, NEW s \in WorkerState, NEW m \in Seq(Message), Len(m) <= 1,
         EndOfPass(w, s, m),
         NEW M, HEARTBEAT \notin M
  PROVE  /\ worker' \in [Workers -> WorkerState] /\ toBroker' \in Pipes
         /\ None(toBroker, M) => One(toBroker', M)
         /\ (\A i \in 1 .. Len(m) : m[i] \notin M) =>
               /\ None(toBroker, M) => None(toBroker', M)
               /\ One(toBroker, M) => One(toBroker', M)
<1> DEFINE b == Beat(s)
           y == IF s.linked THEN m \o b ELSE <<>>
<1>1. worker' \in [Workers -> WorkerState]
  BY WorkerFields DEF EndOfPass
<1>2. b \in Seq(Message) /\ \A i \in 1 .. Len(b) : b[i] \notin M
  BY Beats
<1>3. toBroker' = [toBroker EXCEPT ![w] = IF s.linked THEN toBroker[w] \o (m \o b) ELSE toBroker[w]]
  BY Zenon DEF EndOfPass, SentBy
<1> HIDE DEF b
<1>4. m \o b \in Seq(Message)
      /\ \A i \in 1 .. Len(m \o b) :
            \/ i \in 1 .. Len(m) /\ (m \o b)[i] = m[i]
            \/ i - Len(m) \in 1 .. Len(b) /\ (m \o b)[i] = b[i - Len(m)]
  BY <1>2, ConcatFacts, Zenon
<1>5. Len(m) \in Nat
  OBVIOUS
<1>6. y \in Seq(Message) /\ \A i \in 1 .. Len(y) : y[i] \in M =>
                               i = 1 /\ i \in 1 .. Len(m) /\ m[i] \in M
  <2>1. \A i \in 1 .. Len(m \o b) : (m \o b)[i] \in M => i \in 1 .. Len(m) /\ m[i] \in M
    BY <1>2, <1>4
  <2>2. \A i \in 1 .. Len(m) : i = 1
    BY <1>5
  <2> QED BY <1>4, <2>1, <2>2
<1>7. toBroker' = [toBroker EXCEPT ![w] = @ \o y]
  <2>1. toBroker[w] \o <<>> = toBroker[w]
    BY DEF Pipes
  <2> QED BY <1>3, <2>1
<1> HIDE DEF y
<1>8. /\ toBroker' \in Pipes
      /\ (\A i \in 1 .. Len(y) : y[i] \notin M) =>
            /\ None(toBroker, M) => None(toBroker', M)
            /\ One(toBroker, M) => One(toBroker', M)
      /\ (\A i \in 1 .. Len(y) : y[i] \in M => i = 1) =>
            (None(toBroker, M) => One(toBroker', M))
  BY <1>6, <1>7, OneGets, Zenon DEF Pipes
<1> QED BY <1>1, <1>6, <1>8, Zenon

\* A worker's new socket: what its old one had not sent is lost, READY is behind
\* the rest, and what had come for the old one is gone.
LEMMA ConnectSends ==
  ASSUME toBroker \in Pipes, toWorker \in Pipes, worker \in [Workers -> WorkerState],
         NEW w \in Workers, NEW s \in WorkerState, NEW k \in 0 .. Len(toBroker[w]),
         init_socket(w, s, First(toBroker[w], k)),
         NEW M, READY \notin M, HEARTBEAT \notin M
  PROVE  /\ worker' \in [Workers -> WorkerState] /\ toBroker' \in Pipes /\ toWorker' \in Pipes
         /\ None(toBroker, M) => None(toBroker', M)
         /\ One(toBroker, M) => One(toBroker', M)
         /\ None(toWorker, M) => None(toWorker', M)
         /\ One(toWorker, M) => One(toWorker', M)
<1> DEFINE kept == First(toBroker[w], k)
           cut == [toBroker EXCEPT ![w] = kept]
           z == <<READY>> \o Beat(s)
           y == IF s.linked THEN z ELSE <<>>
<1>1. worker' \in [Workers -> WorkerState]
  BY WorkerFields DEF init_socket
<1>2. toBroker[w] \in Seq(Message) /\ toWorker[w] \in Seq(Message)
  BY DEF Pipes
<1>3. kept \in Seq(Message) /\ Part(toBroker[w], kept)
  BY <1>2, FirstFacts
<1>4. z \in Seq(Message) /\ \A i \in 1 .. Len(z) : z[i] \notin M
  <2>1. z \in Seq(Message) /\ \A i \in 1 .. Len(z) : z[i] \in {READY, HEARTBEAT}
    BY ReadyAndBeat, Zenon
  <2> HIDE DEF z
  <2> QED BY <2>1
<1>5. toBroker' = [toBroker EXCEPT ![w] = IF s.linked THEN kept \o z ELSE kept]
  <2>1. toBroker' = [toBroker EXCEPT ![w] =
                       IF s.linked THEN kept \o <<READY>> \o Beat(s) ELSE kept]
    BY Zenon DEF init_socket
  <2>2. kept \o <<READY>> \o Beat(s) = kept \o z
    BY <1>3, ReadyAndBeat, Zenon
  <2> QED BY <2>1, <2>2, Zenon
<1> HIDE DEF kept, z
<1>6. y \in Seq(Message) /\ \A i \in 1 .. Len(y) : y[i] \notin M
  BY <1>4
<1>7. toBroker' = [cut EXCEPT ![w] = @ \o y]
  <2>1. kept \o <<>> = kept
    BY <1>3
  <2> QED BY <1>5, <2>1 DEF Pipes
<1>8. /\ cut \in Pipes
      /\ None(toBroker, M) => None(cut, M)
      /\ One(toBroker, M) => One(cut, M)
  BY <1>3, OneShrinks, Zenon DEF Pipes
<1> HIDE DEF cut, y
<1>9. /\ toBroker' \in Pipes
      /\ None(cut, M) => None(toBroker', M)
      /\ One(cut, M) => One(toBroker', M)
  BY <1>6, <1>7, <1>8, OneGets, Zenon DEF Pipes
<1>10. toWorker' = [toWorker EXCEPT ![w] = <<>>]
  BY DEF init_socket
<1>11. <<>> \in Seq(Message) /\ Part(toWorker[w], <<>>)
  BY <1>2, Parts
<1>12. /\ toWorker' \in Pipes
       /\ None(toWorker, M) => None(toWorker', M)
       /\ One(toWorker, M) => One(toWorker', M)
  BY <1>10, <1>11, OneShrinks, Zenon DEF Pipes
<1> QED BY <1>1, <1>8, <1>9, <1>12

BrokerState == [up : BOOLEAN, due : BOOLEAN, waited : Nat]

\* The parts of TypeInv, for each step to give.
TypeParts ==
    /\ queue \in QueueState /\ broker \in BrokerState
    /\ worker \in [Workers -> WorkerState] /\ client \in [Clients -> ClientState]
    /\ toBroker \in Pipes /\ toWorker \in Pipes
    /\ front \subseteq Request /\ answers \subseteq Request
    /\ faults \in 0 .. MaxFaults /\ refusals \in 0 .. MaxRefusals

ClientCounts(c) ==
    /\ client[c].phase = "waiting" => client[c].retries >= 1 /\ client[c].seq >= 1
    /\ client[c].phase = "ready" => client[c].retries = Retries

LEMMA TypeInvParts == TypeInv <=> TypeParts /\ \A c \in Clients : ClientCounts(c)
BY Zenon DEF TypeInv, TypeOK, TypeParts, ClientCounts, QueueState, BrokerState, WorkerState,
             ClientState, Pipes

LEMMA TypeInvPartsNext ==
  ASSUME TypeParts', \A c \in Clients : ClientCounts(c)'
  PROVE  TypeInv'
BY Zenon DEF TypeInv, TypeOK, TypeParts, ClientCounts, QueueState, BrokerState, WorkerState,
             ClientState, Pipes

\* An answer is a message of a worker that is a request.
LEMMA DeliverFacts ==
  ASSUME answers \subseteq Request, NEW msg
  PROVE  Deliver(msg) \subseteq Request
BY DEF Deliver

LEMMA PassTypes ==
  ASSUME TypeInv, (queue \in QueueState)',
         NEW b \in Workers \cup {NoWorker}, NEW r \in front \cup {NoRequest}, BrokerPass(b, r)
  PROVE  TypeInv'
<1>1. TypeParts /\ \A c \in Clients : ClientCounts(c)
  BY TypeInvParts
<1>2. broker' \in BrokerState
  <2>1. broker \in BrokerState /\ broker' = [broker EXCEPT !.due = FALSE, !.waited = 0]
    BY <1>1 DEF TypeParts, BrokerPass
  <2> QED BY <2>1 DEF BrokerState
<1>3. toBroker' \in Pipes
  <2>1. CASE b = NoWorker
    BY <1>1, <2>1 DEF TypeParts, BrokerPass
  <2>2. CASE b # NoWorker
    <3>1. b \in Workers /\ toBroker[b] # <<>> /\ toBroker' = [toBroker EXCEPT ![b] = Tail(@)]
      BY <2>2 DEF BrokerPass
    <3>2. toBroker[b] \in Seq(Message) /\ Tail(toBroker[b]) \in Seq(Message)
      BY <1>1, <3>1, Parts DEF TypeParts, Pipes
    <3> QED BY <1>1, <3>1, <3>2 DEF TypeParts, Pipes
  <2> QED BY <2>1, <2>2
<1>4. answers' \subseteq Request /\ front' \subseteq Request
  <2>1. front' = front \ {r} /\ (answers' = answers \/ answers' = Deliver(Head(toBroker[b])))
    BY DEF BrokerPass
  <2> QED BY <1>1, <2>1, DeliverFacts DEF TypeParts
<1>5. toWorker' \in Pipes
  <2>1. PICK w, B : toWorker' = Sent(w, r, B)
    BY Zenon DEF BrokerPass
  <2>2. r \in Request \cup {NoRequest}
    BY <1>1 DEF TypeParts
  <2>3. toWorker \in Pipes
    BY <1>1 DEF TypeParts
  <2> QED BY <2>1, <2>2, <2>3, SentFacts, READY \notin {}, HEARTBEAT \notin {}, NoRequest \notin {}, Zenon
<1>6. UNCHANGED <<worker, client, faults, refusals>>
  BY DEF BrokerPass
<1>7. TypeParts'
  BY <1>1, <1>2, <1>3, <1>4, <1>5, <1>6 DEF TypeParts, QueueState, WorkerState, ClientState
<1>8. \A c \in Clients : ClientCounts(c)'
  BY <1>1, <1>6 DEF ClientCounts
<1> QED BY <1>7, <1>8, TypeInvPartsNext

\* What the process of the broker takes with it.
LEMMA StopCuts ==
  ASSUME TypeInv, BrokerStop, NEW M
  PROVE  /\ toBroker' \in Pipes /\ toWorker' \in Pipes
         /\ None(toBroker, M) => None(toBroker', M)
         /\ One(toBroker, M) => One(toBroker', M)
         /\ None(toWorker, M) => None(toWorker', M)
         /\ One(toWorker, M) => One(toWorker', M)
<1>1. toBroker \in Pipes /\ toWorker \in Pipes
  BY TypeFacts
<1>2. PICK lost \in [Workers -> 0 .. HWM], kept \in [Workers -> 0 .. HWM] :
          /\ \A w \in Workers : lost[w] <= Len(toBroker[w]) /\ kept[w] <= Len(toWorker[w])
          /\ toBroker' = [w \in Workers |-> SubSeq(toBroker[w], lost[w] + 1, Len(toBroker[w]))]
          /\ toWorker' = [w \in Workers |-> First(toWorker[w], kept[w])]
  BY DEF BrokerStop
<1>3. ASSUME NEW w \in Workers
      PROVE  /\ toBroker'[w] \in Seq(Message) /\ Part(toBroker[w], toBroker'[w])
             /\ toWorker'[w] \in Seq(Message) /\ Part(toWorker[w], toWorker'[w])
             /\ Len(toBroker[w]) \in Nat /\ Len(toWorker[w]) \in Nat
  <2>1. toBroker[w] \in Seq(Message) /\ toWorker[w] \in Seq(Message)
    BY <1>1 DEF Pipes
  <2>2. lost[w] \in 0 .. Len(toBroker[w]) /\ kept[w] \in 0 .. Len(toWorker[w])
    BY <1>2, <2>1
  <2>3. toBroker'[w] = SubSeq(toBroker[w], lost[w] + 1, Len(toBroker[w]))
        /\ toWorker'[w] = First(toWorker[w], kept[w])
    BY <1>2
  <2>4. toBroker'[w] \in Seq(Message) /\ Part(toBroker[w], toBroker'[w])
    BY <2>1, <2>2, <2>3, Parts
  <2>5. toWorker'[w] \in Seq(Message) /\ Part(toWorker[w], toWorker'[w])
    BY <2>1, <2>2, <2>3, FirstFacts
  <2> QED BY <2>1, <2>4, <2>5
<1>4. toBroker' \in Pipes /\ toWorker' \in Pipes
      /\ DOMAIN toBroker = Workers /\ DOMAIN toBroker' = Workers
      /\ DOMAIN toWorker = Workers /\ DOMAIN toWorker' = Workers
  BY <1>1, <1>2, <1>3 DEF Pipes
<1>5. Shrink(toBroker, toBroker') /\ Shrink(toWorker, toWorker')
  BY <1>3, <1>4, Zenon DEF Shrink
<1>6. /\ None(toBroker, M) => None(toBroker', M)
      /\ One(toBroker, M) => One(toBroker', M)
  BY <1>3, <1>4, <1>5, ShrinkKeeps
<1>7. /\ None(toWorker, M) => None(toWorker', M)
      /\ One(toWorker, M) => One(toWorker', M)
  BY <1>3, <1>4, <1>5, ShrinkKeeps
<1> QED BY <1>4, <1>6, <1>7

LEMMA RestartTypes ==
  ASSUME TypeInv, (queue \in QueueState)', BrokerStart \/ BrokerStop
  PROVE  TypeInv'
<1>1. TypeParts /\ \A c \in Clients : ClientCounts(c)
  BY TypeInvParts
<1>2. broker' \in BrokerState
  <2>1. \/ broker' = [up |-> TRUE, due |-> FALSE, waited |-> 0]
        \/ broker' = [up |-> FALSE, due |-> FALSE, waited |-> 0]
    BY Zenon DEF BrokerStart, BrokerStop
  <2>2. /\ [up |-> TRUE, due |-> FALSE, waited |-> 0] \in BrokerState
        /\ [up |-> FALSE, due |-> FALSE, waited |-> 0] \in BrokerState
    BY DEF BrokerState
  <2> QED BY <2>1, <2>2, Zenon
<1>3. worker' \in [Workers -> WorkerState]
  <2>1. CASE BrokerStart
    BY <1>1, <2>1 DEF BrokerStart, TypeParts
  <2>2. CASE BrokerStop
    <3>1. \A w \in Workers : [worker[w] EXCEPT !.linked = (worker[w].phase # "down")] \in WorkerState
      BY <1>1, WorkerFields, Zenon DEF TypeParts
    <3> QED BY <2>2, <3>1 DEF BrokerStop
  <2> QED BY <2>1, <2>2
<1>4. toBroker' \in Pipes /\ toWorker' \in Pipes
  BY <1>1, StopCuts DEF BrokerStart, TypeParts
<1>5. front' \subseteq Request /\ answers' \subseteq Request
  BY <1>1 DEF BrokerStart, BrokerStop, TypeParts
<1>6. faults' \in 0 .. MaxFaults /\ UNCHANGED <<client, refusals>>
  BY <1>1, Numbers DEF BrokerStart, BrokerStop, TypeParts
<1>7. TypeParts'
  BY <1>1, <1>2, <1>3, <1>4, <1>5, <1>6 DEF TypeParts, QueueState, ClientState
<1>8. \A c \in Clients : ClientCounts(c)'
  BY <1>1, <1>6 DEF ClientCounts
<1> QED BY <1>7, <1>8, TypeInvPartsNext

\* A pass of a worker reads nothing, or the head of its pipe, which it answers if
\* it is a request.
LEMMA WorkerReads ==
  ASSUME TypeInv, NEW w \in Workers, WorkerReceive(w), NEW M, HEARTBEAT \notin M
  PROVE  /\ worker' \in [Workers -> WorkerState] /\ toBroker' \in Pipes /\ toWorker' \in Pipes
         /\ None(toWorker, M) => None(toWorker', M)
         /\ One(toWorker, M) => One(toWorker', M)
         /\ Head(toWorker[w]) \notin M =>
               /\ None(toBroker, M) => None(toBroker', M)
               /\ One(toBroker, M) => One(toBroker', M)
         /\ None(toBroker, M) => One(toBroker', M)
         /\ Head(toWorker[w]) \in M /\ One(toWorker, M) => None(toWorker', M)
         /\ Head(toWorker[w]) \in M => ~ None(toWorker, M)
<1> DEFINE s == [worker[w] EXCEPT !.interval = 1, !.liveness = Liveness]
           h == Head(toWorker[w])
           m == IF h = HEARTBEAT THEN <<>> ELSE <<h>>
<1>1. toBroker \in Pipes /\ toWorker \in Pipes /\ worker \in [Workers -> WorkerState]
  BY TypeFacts
<1>2. toWorker[w] # <<>> /\ EndOfPass(w, s, m) /\ toWorker' = [toWorker EXCEPT ![w] = Tail(@)]
  BY Zenon DEF WorkerReceive
<1>3. s \in WorkerState
  BY <1>1, WorkerFields
<1>4. /\ toWorker[w] \in Seq(Message) /\ h \in Message /\ h = toWorker[w][1]
      /\ 1 \in 1 .. Len(toWorker[w]) /\ DOMAIN toWorker = Workers
  BY <1>1, <1>2 DEF Pipes
<1>5. m \in Seq(Message) /\ Len(m) <= 1 /\ \A i \in 1 .. Len(m) : m[i] = h
  <2> HIDE DEF h
  <2> QED BY <1>4
<1> HIDE DEF s, m
<1>6. /\ worker' \in [Workers -> WorkerState] /\ toBroker' \in Pipes
      /\ None(toBroker, M) => One(toBroker', M)
      /\ (\A i \in 1 .. Len(m) : m[i] \notin M) =>
            /\ None(toBroker, M) => None(toBroker', M)
            /\ One(toBroker, M) => One(toBroker', M)
  BY <1>1, <1>2, <1>3, <1>5, PassSends, Zenon
<1>7. Tail(toWorker[w]) \in Seq(Message) /\ Part(toWorker[w], Tail(toWorker[w]))
  BY <1>2, <1>4, Parts, Zenon
<1>8. /\ toWorker' \in Pipes
      /\ None(toWorker, M) => None(toWorker', M)
      /\ One(toWorker, M) => One(toWorker', M)
  BY <1>1, <1>2, <1>7, OneShrinks, Zenon DEF Pipes
<1>9. h \in M /\ One(toWorker, M) => None(toWorker', M)
  BY <1>1, <1>2, ReadTakesOnly, Zenon DEF Pipes
<1>10. h \in M => ~ None(toWorker, M)
  BY <1>4 DEF None
<1> QED BY <1>5, <1>6, <1>8, <1>9, <1>10, Zenon

\* A worker's other passes send no request and read none.
LEMMA WorkerPasses ==
  ASSUME TypeInv, NEW w \in Workers,
         PollTimeout(w) \/ GiveUp(w) \/ Reconnect(w) \/ WorkerStart(w) \/ WorkerStop(w),
         NEW M, READY \notin M, HEARTBEAT \notin M
  PROVE  /\ worker' \in [Workers -> WorkerState] /\ toBroker' \in Pipes /\ toWorker' \in Pipes
         /\ None(toBroker, M) => None(toBroker', M)
         /\ One(toBroker, M) => One(toBroker', M)
         /\ None(toWorker, M) => None(toWorker', M)
         /\ One(toWorker, M) => One(toWorker', M)
<1>1. toBroker \in Pipes /\ toWorker \in Pipes /\ worker \in [Workers -> WorkerState]
  BY TypeFacts
<1>2. worker[w] \in WorkerState /\ toBroker[w] \in Seq(Message) /\ toWorker[w] \in Seq(Message)
  BY <1>1 DEF Pipes
<1>3. CASE PollTimeout(w)
  <2> DEFINE s == [worker[w] EXCEPT !.liveness = @ - 1]
  <2>1. s \in WorkerState /\ EndOfPass(w, s, <<>>) /\ toWorker' = toWorker
    BY <1>2, <1>3, WorkerFields DEF PollTimeout
  <2>2. <<>> \in Seq(Message) /\ Len(<<>>) <= 1 /\ \A i \in 1 .. Len(<<>>) : <<>>[i] \notin M
    OBVIOUS
  <2> HIDE DEF s
  <2>3. /\ worker' \in [Workers -> WorkerState] /\ toBroker' \in Pipes
        /\ None(toBroker, M) => None(toBroker', M)
        /\ One(toBroker, M) => One(toBroker', M)
    BY <1>1, <2>1, <2>2, PassSends, Zenon
  <2> QED BY <1>1, <2>1, <2>3, Zenon
<1>4. CASE GiveUp(w)
  <2>1. toBroker' = toBroker /\ toWorker' = toWorker
        /\ worker' = [worker EXCEPT
                        ![w] = [worker[w] EXCEPT !.phase = "asleep", !.sleep = worker[w].interval]]
    BY <1>4 DEF GiveUp
  <2>2. worker' \in [Workers -> WorkerState]
    BY <1>1, <1>2, <2>1, WorkerFields
  <2> QED BY <1>1, <2>1, <2>2, Zenon
<1>5. CASE Reconnect(w)
  <2>1. PICK linked \in BOOLEAN, k \in 0 .. Len(toBroker[w]) :
           init_socket(w, [worker[w] EXCEPT !.phase = "poll", !.liveness = Liveness,
                                            !.linked = linked, !.interval = BackOff(@)],
                       First(toBroker[w], k))
    BY <1>5, Zenon DEF Reconnect
  <2>2. [worker[w] EXCEPT !.phase = "poll", !.liveness = Liveness,
                          !.linked = linked, !.interval = BackOff(@)] \in WorkerState
    BY <1>2, WorkerFields, Zenon
  <2> QED BY <1>1, <2>1, <2>2, ConnectSends, Zenon
<1>6. CASE WorkerStart(w)
  <2> DEFINE k == Len(toBroker[w])
  <2>1. init_socket(w, [StoppedWorker EXCEPT !.phase = "poll", !.linked = TRUE], toBroker[w])
    BY <1>6 DEF WorkerStart
  <2>2. toBroker[w] = First(toBroker[w], k) /\ k \in 0 .. Len(toBroker[w])
    BY <1>2 DEF First
  <2> HIDE DEF k
  <2>3. init_socket(w, [StoppedWorker EXCEPT !.phase = "poll", !.linked = TRUE],
                    First(toBroker[w], k))
    BY <2>1, <2>2, Zenon
  <2> QED BY <1>1, <2>2, <2>3, ConnectSends, StoppedFields, Zenon
<1>7. CASE WorkerStop(w)
  <2>1. PICK k \in 0 .. Len(toBroker[w]) :
           toBroker' = [toBroker EXCEPT ![w] = First(@, k)]
    BY <1>7 DEF WorkerStop
  <2>2. toWorker' = [toWorker EXCEPT ![w] = <<>>] /\ worker' = [worker EXCEPT ![w] = StoppedWorker]
    BY <1>7 DEF WorkerStop
  <2>3. First(toBroker[w], k) \in Seq(Message) /\ Part(toBroker[w], First(toBroker[w], k))
    BY <1>2, FirstFacts, Zenon
  <2>4. /\ toBroker' \in Pipes
        /\ None(toBroker, M) => None(toBroker', M)
        /\ One(toBroker, M) => One(toBroker', M)
    BY <1>1, <2>1, <2>3, OneShrinks, Zenon DEF Pipes
  <2>5. <<>> \in Seq(Message) /\ Part(toWorker[w], <<>>)
    BY <1>2, Parts
  <2>6. /\ toWorker' \in Pipes
        /\ None(toWorker, M) => None(toWorker', M)
        /\ One(toWorker, M) => One(toWorker', M)
    BY <1>1, <2>2, <2>5, OneShrinks, Zenon DEF Pipes
  <2>7. worker' \in [Workers -> WorkerState]
    BY <1>1, <2>2, StoppedFields
  <2> QED BY <2>4, <2>6, <2>7
<1> QED BY <1>3, <1>4, <1>5, <1>6, <1>7

LEMMA WorkerTypes ==
  ASSUME TypeInv, NEW w \in Workers, WorkerStep(w) \/ WorkerStart(w) \/ WorkerStop(w)
  PROVE  TypeInv'
<1>1. TypeParts /\ \A c \in Clients : ClientCounts(c)
  BY TypeInvParts
<1>2. worker' \in [Workers -> WorkerState] /\ toBroker' \in Pipes /\ toWorker' \in Pipes
  BY WorkerReads, WorkerPasses, READY \notin {}, HEARTBEAT \notin {}, Zenon DEF WorkerStep
<1>3. UNCHANGED <<queue, broker, client, front, answers>>
  BY DEF WorkerStep, WorkerStart, WorkerStop, WorkerReceive, PollTimeout, GiveUp, Reconnect
<1>4. faults' \in 0 .. MaxFaults
  <2>1. faults' = faults \/ (faults < MaxFaults /\ faults' = faults + 1)
    BY DEF WorkerStep, WorkerStart, WorkerStop, WorkerReceive, PollTimeout, GiveUp, Reconnect
  <2> QED BY <1>1, <2>1, Numbers DEF TypeParts
<1>5. refusals' \in 0 .. MaxRefusals
  <2>1. refusals' = refusals \/ (refusals < MaxRefusals /\ refusals' = refusals + 1)
    BY DEF WorkerStep, WorkerStart, WorkerStop, WorkerReceive, PollTimeout, GiveUp, Reconnect
  <2> QED BY <1>1, <2>1, Numbers DEF TypeParts
<1>6. TypeParts'
  BY <1>1, <1>2, <1>3, <1>4, <1>5 DEF TypeParts, QueueState, BrokerState, ClientState
<1>7. \A c \in Clients : ClientCounts(c)'
  BY <1>1, <1>3 DEF ClientCounts
<1> QED BY <1>6, <1>7, TypeInvPartsNext

\* The locals of a client, changed as its steps change them.
LEMMA ClientFields ==
  ASSUME NEW a \in ClientState
  PROVE  /\ a.phase = "ready" /\ a.seq < Calls =>
               /\ [a EXCEPT !.phase = "waiting", !.seq = a.seq + 1] \in ClientState
               /\ a.seq + 1 \in 1 .. Calls
         /\ [a EXCEPT !.phase = "failed"] \in ClientState
         /\ [a EXCEPT !.phase = "ready", !.retries = Retries] \in ClientState
         /\ \A p \in {"abandoned", "waiting"} : a.retries >= 1 =>
               [a EXCEPT !.retries = a.retries - 1, !.phase = p] \in ClientState
         /\ \A n \in 0 .. Retries : Retries - n \in 0 .. Retries
         /\ a.retries >= 1 => a.retries - 1 \in 0 .. Retries
         /\ a.seq >= 1 => a.seq \in 1 .. Calls
<1>1. /\ a.phase \in {"ready", "waiting", "abandoned", "failed"} /\ a.seq \in 0 .. Calls
      /\ a.retries \in 0 .. Retries
      /\ a = [phase |-> a.phase, seq |-> a.seq, retries |-> a.retries]
  BY DEF ClientState
<1>2. /\ a.seq < Calls => a.seq + 1 \in 0 .. Calls /\ a.seq + 1 \in 1 .. Calls
      /\ Retries \in 0 .. Retries
      /\ a.retries >= 1 => a.retries - 1 \in 0 .. Retries
      /\ \A n \in 0 .. Retries : Retries - n \in 0 .. Retries
      /\ a.seq >= 1 => a.seq \in 1 .. Calls
  BY <1>1, Numbers
<1>3. a.seq < Calls => [a EXCEPT !.phase = "waiting", !.seq = a.seq + 1] \in ClientState
  BY <1>1, <1>2 DEF ClientState
<1>4. [a EXCEPT !.phase = "failed"] \in ClientState
  BY <1>1 DEF ClientState
<1>5. [a EXCEPT !.phase = "ready", !.retries = Retries] \in ClientState
  BY <1>1, <1>2 DEF ClientState
<1>6. ASSUME NEW p \in {"abandoned", "waiting"}, a.retries >= 1
      PROVE  [a EXCEPT !.retries = a.retries - 1, !.phase = p] \in ClientState
  BY <1>1, <1>2, <1>6 DEF ClientState
<1> QED BY <1>2, <1>3, <1>4, <1>5, <1>6

LEMMA CurrentIsRequest ==
  ASSUME NEW c \in Clients, client[c] \in ClientState, client[c].seq >= 1, NEW n \in 0 .. Retries
  PROVE  Current(c, n) \in Request /\ Current(c, n).client = c /\ Current(c, n).seq = client[c].seq
<1>1. client[c].seq \in 1 .. Calls /\ Retries - n \in 0 .. Retries
  BY ClientFields
<1> QED BY <1>1 DEF Current, Request

LEMMA ClientTypes ==
  ASSUME TypeInv, NEW c \in Clients, ClientSend(c) \/ ClientRead(c) \/ ClientTimeout(c)
  PROVE  TypeInv'
<1>1. TypeParts /\ \A d \in Clients : ClientCounts(d)
  BY TypeInvParts
<1>2. client[c] \in ClientState /\ client \in [Clients -> ClientState]
  BY <1>1 DEF TypeParts
<1>3. UNCHANGED <<queue, broker, worker, toBroker, toWorker, faults, refusals>>
  BY DEF ClientSend, ClientRead, ClientTimeout
<1>4. ASSUME NEW a \in ClientState, client' = [client EXCEPT ![c] = a],
             a.phase = "waiting" => a.retries >= 1 /\ a.seq >= 1,
             a.phase = "ready" => a.retries = Retries,
             front' \subseteq Request, answers' \subseteq Request
      PROVE  TypeInv'
  <2>1. client' \in [Clients -> ClientState] /\ client'[c] = a
        /\ \A d \in Clients : d # c => client'[d] = client[d]
    BY <1>2, <1>4
  <2>2. TypeParts'
    BY <1>1, <1>3, <1>4, <2>1 DEF TypeParts, QueueState, BrokerState, WorkerState, Pipes
  <2>3. \A d \in Clients : ClientCounts(d)'
    BY <1>1, <1>4, <2>1 DEF ClientCounts
  <2> QED BY <2>2, <2>3, TypeInvPartsNext
<1>5. CASE ClientSend(c)
  <2> DEFINE a == [client[c] EXCEPT !.phase = "waiting", !.seq = client[c].seq + 1]
             r == [client |-> c, seq |-> client[c].seq + 1, try |-> Retries - client[c].retries]
  <2>1. client[c].phase = "ready" /\ client[c].seq < Calls /\ client' = [client EXCEPT ![c] = a]
        /\ front' = front \cup {r} /\ answers' = answers
    BY <1>5 DEF ClientSend
  <2>2. a \in ClientState /\ client[c].seq + 1 \in 1 .. Calls
    BY <1>2, <2>1, ClientFields
  <2>3. r \in Request
    <3>1. Retries - client[c].retries \in 0 .. Retries
      BY <1>2, ClientFields DEF ClientState
    <3> QED BY <2>2, <3>1 DEF Request
  <2>4. a.phase = "waiting" /\ a.retries = client[c].retries /\ a.seq = client[c].seq + 1
    BY <1>2 DEF ClientState
  <2>5. client[c].retries = Retries
    BY <1>1, <2>1 DEF ClientCounts
  <2>6. front' \subseteq Request /\ answers' \subseteq Request
    BY <1>1, <2>1, <2>3 DEF TypeParts
  <2>7. a.retries >= 1 /\ a.seq >= 1
    BY <2>2, <2>4, <2>5, Numbers
  <2> HIDE DEF a, r
  <2> QED BY <1>4, <2>1, <2>2, <2>4, <2>6, <2>7
<1>6. CASE ClientRead(c)
  <2>1. PICK r \in Own(answers, c) :
          /\ answers' \subseteq answers
          /\ client' = [client EXCEPT ![c] =
                IF r.try > 0 THEN [client[c] EXCEPT !.phase = "failed"]
                ELSE IF r.seq = client[c].seq
                THEN [client[c] EXCEPT !.phase = "ready", !.retries = Retries]
                ELSE client[c]]
    BY <1>6 DEF ClientRead
  <2>2. front' \subseteq Request /\ answers' \subseteq Request
    BY <1>1, <1>6, <2>1 DEF TypeParts, ClientRead
  <2>3. CASE r.try > 0
    <3> DEFINE a == [client[c] EXCEPT !.phase = "failed"]
    <3>1. a \in ClientState /\ a.phase = "failed" /\ client' = [client EXCEPT ![c] = a]
      BY <1>2, <2>1, <2>3, ClientFields DEF ClientState
    <3> HIDE DEF a
    <3> QED BY <1>4, <2>2, <3>1
  <2>4. CASE ~ (r.try > 0) /\ r.seq = client[c].seq
    <3> DEFINE a == [client[c] EXCEPT !.phase = "ready", !.retries = Retries]
    <3>1. a \in ClientState /\ a.phase = "ready" /\ a.retries = Retries
          /\ client' = [client EXCEPT ![c] = a]
      BY <1>2, <2>1, <2>4, ClientFields DEF ClientState
    <3> HIDE DEF a
    <3> QED BY <1>4, <2>2, <3>1
  <2>5. CASE ~ (r.try > 0) /\ r.seq # client[c].seq
    <3>1. client' = [client EXCEPT ![c] = client[c]]
      BY <2>1, <2>5
    <3>2. client[c].phase = "waiting" /\ client[c].retries >= 1 /\ client[c].seq >= 1
      BY <1>1, <1>6 DEF ClientRead, ClientCounts
    <3> QED BY <1>2, <1>4, <2>2, <3>1, <3>2
  <2> QED BY <2>3, <2>4, <2>5
<1>7. CASE ClientTimeout(c)
  <2> DEFINE p == IF client[c].retries = 1 THEN "abandoned" ELSE "waiting"
             a == [client[c] EXCEPT !.retries = client[c].retries - 1, !.phase = p]
  <2>1. client[c].phase = "waiting" /\ client[c].retries >= 1 /\ client[c].seq >= 1
    BY <1>1, <1>7 DEF ClientTimeout, ClientCounts
  <2>2. client' = [client EXCEPT ![c] = a]
    BY <1>7, <2>1 DEF ClientTimeout
  <2>3. a \in ClientState /\ a.phase = p /\ a.retries = client[c].retries - 1
        /\ a.seq = client[c].seq
    BY <1>2, <2>1, ClientFields DEF ClientState
  <2>4. a.phase = "waiting" => a.retries >= 1
    BY <1>2, <2>1, <2>3 DEF ClientState
  <2>5. a.phase # "ready"
    BY <2>3
  <2> HIDE DEF a, p
  <2>6. answers' \subseteq Request
    BY <1>1, <1>7 DEF TypeParts, ClientTimeout
  <2>7. front' \subseteq Request
    <3>1. Current(c, client[c].retries - 1) \in Request
      <4>1. client[c].retries - 1 \in 0 .. Retries
        BY <1>2, <2>1, ClientFields
      <4> QED BY <1>2, <2>1, <4>1, CurrentIsRequest
    <3>2. PICK kept \in SUBSET Own(front, c) :
            front' = (front \ Own(front, c)) \cup kept \cup
                     IF client[c].retries = 1 THEN {} ELSE {Current(c, client[c].retries - 1)}
      BY <1>7 DEF ClientTimeout
    <3> QED BY <1>1, <3>1, <3>2 DEF TypeParts, Own
  <2> QED BY <1>4, <2>1, <2>2, <2>3, <2>4, <2>5, <2>6, <2>7
<1> QED BY <1>5, <1>6, <1>7

LEMMA TickTypes ==
  ASSUME TypeInv, (queue \in QueueState)', Tick
  PROVE  TypeInv'
<1>1. TypeParts /\ \A c \in Clients : ClientCounts(c)
  BY TypeInvParts
<1>2. broker' \in BrokerState
  <2>1. broker \in BrokerState
    BY <1>1 DEF TypeParts
  <2>2. [broker EXCEPT !.due = TRUE, !.waited = @ + 1] \in BrokerState
    <3>1. broker = [up |-> broker.up, due |-> broker.due, waited |-> broker.waited]
          /\ broker.up \in BOOLEAN /\ broker.waited \in Nat /\ broker.waited + 1 \in Nat
      BY <2>1 DEF BrokerState
    <3> QED BY <3>1 DEF BrokerState
  <2> QED BY <2>1, <2>2 DEF Tick
<1>3. worker' \in [Workers -> WorkerState]
  <2>1. ASSUME NEW w \in Workers PROVE worker'[w] \in WorkerState
    <3>1. worker[w] \in WorkerState /\ worker[w].waited \in BOOLEAN
      BY <1>1 DEF TypeParts, WorkerState
    <3>2. CASE worker[w].phase = "poll"
      <4> DEFINE b == worker[w].waited \/ toWorker[w] = <<>>
      <4>1. worker'[w] = [worker[w] EXCEPT !.due = TRUE, !.waited = b]
        BY <3>2 DEF Tick
      <4>2. b \in BOOLEAN
        BY <3>1
      <4> HIDE DEF b
      <4> QED BY <3>1, <4>1, <4>2, WorkerFields
    <3>3. CASE worker[w].phase = "asleep"
      <4>1. worker'[w] = [worker[w] EXCEPT !.due = TRUE,
                              !.sleep = IF worker[w].sleep > 0 THEN worker[w].sleep - 1 ELSE 0]
        BY <3>3 DEF Tick
      <4> QED BY <3>1, <4>1, WorkerFields, Zenon
    <3>4. CASE worker[w].phase \notin {"poll", "asleep"}
      <4>1. worker'[w] = worker[w]
        BY <3>4 DEF Tick
      <4> QED BY <3>1, <4>1
    <3> QED BY <3>2, <3>3, <3>4
  <2>2. worker' = [w \in Workers |-> worker'[w]]
    <3> DEFINE next(w) ==
          CASE worker[w].phase = "poll" ->
                 [worker[w] EXCEPT !.due = TRUE, !.waited = @ \/ toWorker[w] = <<>>]
            [] worker[w].phase = "asleep" ->
                 [worker[w] EXCEPT !.due = TRUE, !.sleep = IF @ > 0 THEN @ - 1 ELSE 0]
            [] OTHER -> worker[w]
    <3>1. worker' = [w \in Workers |-> next(w)]
      BY Zenon DEF Tick
    <3> HIDE DEF next
    <3> QED BY <3>1
  <2> QED BY <2>1, <2>2
<1>4. faults' \in 0 .. MaxFaults
  <2>1. faults' = faults \/ (faults < MaxFaults /\ faults' = faults + 1)
    BY DEF Tick
  <2> QED BY <1>1, <2>1, Numbers DEF TypeParts
<1>5. UNCHANGED <<toBroker, toWorker, client, front, answers, refusals>>
  BY DEF Tick
<1>6. TypeParts'
  BY <1>1, <1>2, <1>3, <1>4, <1>5 DEF TypeParts, QueueState, ClientState, Pipes
<1>7. \A c \in Clients : ClientCounts(c)'
  BY <1>1, <1>5 DEF ClientCounts
<1> QED BY <1>6, <1>7, TypeInvPartsNext

LEMMA InitTypes == Init => TypeInv
<1> SUFFICES ASSUME Init PROVE TypeInv OBVIOUS
<1>1. queue \in QueueState
  BY InitQueue DEF QueueInv, Sound
<1>2. broker \in BrokerState
  BY DEF Init, BrokerState
<1>3. worker \in [Workers -> WorkerState]
  BY StoppedFields DEF Init
<1>4. <<>> \in Seq(Message)
  OBVIOUS
<1>5. toBroker \in Pipes /\ toWorker \in Pipes
  BY <1>4 DEF Init, Pipes
<1>6. [phase |-> "ready", seq |-> 0, retries |-> Retries] \in ClientState
  BY Numbers DEF ClientState
<1>7. client = [c \in Clients |-> [phase |-> "ready", seq |-> 0, retries |-> Retries]]
  BY DEF Init
<1>8. front = {} /\ answers = {} /\ faults = 0 /\ refusals = 0
  BY DEF Init
<1>9. 0 \in 0 .. MaxFaults /\ 0 \in 0 .. MaxRefusals
  BY Numbers
<1>10. TypeParts
  BY <1>1, <1>2, <1>3, <1>5, <1>6, <1>7, <1>8, <1>9 DEF TypeParts
<1>11. \A c \in Clients : ClientCounts(c)
  BY <1>7 DEF ClientCounts
<1> QED BY <1>10, <1>11, TypeInvParts

LEMMA StepTypes == QueueInv /\ TypeInv /\ [Next]_vars => TypeInv'
<1> SUFFICES ASSUME QueueInv, TypeInv, [Next]_vars PROVE TypeInv' OBVIOUS
<1>0. (queue \in QueueState)'
  <2>1. QueueInv'
    BY StepQueue
  <2> QED BY <2>1 DEF QueueInv, Sound
<1>1. CASE \E b \in Workers \cup {NoWorker}, r \in front \cup {NoRequest} : BrokerPass(b, r)
  BY <1>0, <1>1, PassTypes
<1>2. CASE BrokerStart \/ BrokerStop
  BY <1>0, <1>2, RestartTypes
<1>3. CASE \E w \in Workers : WorkerStep(w) \/ WorkerStart(w) \/ WorkerStop(w)
  BY <1>3, WorkerTypes
<1>4. CASE \E c \in Clients : ClientSend(c) \/ ClientRead(c) \/ ClientTimeout(c)
  BY <1>4, ClientTypes
<1>5. CASE Tick
  BY <1>0, <1>5, TickTypes
<1>6. CASE UNCHANGED vars
  <2>1. TypeParts /\ \A c \in Clients : ClientCounts(c)
    BY TypeInvParts
  <2>2. TypeParts' /\ \A c \in Clients : ClientCounts(c)'
    BY <1>6, <2>1 DEF vars, TypeParts, ClientCounts, QueueState, BrokerState, WorkerState,
                      ClientState, Pipes
  <2> QED BY <2>2, TypeInvPartsNext
<1> QED BY <1>1, <1>2, <1>3, <1>4, <1>5, <1>6 DEF Next

\* Everything keeps its type: the back-off of a worker stays within its limit,
\* liveness and retries never pass zero, no pipe ever holds anything else.
THEOREM PirateTypes == Spec => []TypeOK
<1>1. TypeInv => TypeOK
  BY DEF TypeInv
<1> QED BY <1>1, InitTypes, StepTypes, QueueInvariant, PTL DEF Spec

-----------------------------------------------------------------------------
(* Custody: where the requests of a client are.                            *)

\* The requests of client c, and those that are not of its call n.
Of(c) == {r \in Request : r.client = c}
Stale(c, n) == {r \in Of(c) : r.seq # n}

Alone(S) == \A x, y \in S : x = y

\* The pipes to and from the workers, the requests f at the frontend and the
\* answers a hold nothing of client c; or at most one request in one place.
Nowhere(tb, tw, f, a, c) ==
    None(tb, Of(c)) /\ None(tw, Of(c)) /\ Own(f, c) = {} /\ Own(a, c) = {}

Once(tb, tw, f, a, c) ==
    /\ One(tb, Of(c)) /\ One(tw, Of(c)) /\ Alone(Own(f, c)) /\ Alone(Own(a, c))
    /\ None(tb, Of(c)) \/ None(tw, Of(c))
    /\ None(tb, Of(c)) \/ Own(f, c) = {}
    /\ None(tb, Of(c)) \/ Own(a, c) = {}
    /\ None(tw, Of(c)) \/ Own(f, c) = {}
    /\ None(tw, Of(c)) \/ Own(a, c) = {}
    /\ Own(f, c) = {} \/ Own(a, c) = {}

Fresh(tb, tw, f, c, n) ==
    None(tb, Stale(c, n)) /\ None(tw, Stale(c, n)) /\ f \cap Stale(c, n) = {}

\* The inductive invariant, for a client c in state s.  Everything under way is of
\* its present call.  While it has not retried there is one request at most, and
\* none when it is about to make its next call: that is why no answer to an
\* earlier call is ever taken for an answer to the present one.
Keeping(tb, tw, f, a, s, c) ==
    /\ Fresh(tb, tw, f, c, s.seq)
    /\ s.phase \in {"ready", "waiting"} /\ s.retries = Retries => Once(tb, tw, f, a, c)
    /\ s.phase = "ready" => Nowhere(tb, tw, f, a, c)
    /\ s.phase = "failed" => s.retries < Retries
    /\ \A r \in Own(a, c) :
          s.phase = "waiting" /\ r.seq = s.seq /\ r.try = Retries - s.retries

Custody == \A c \in Clients : Keeping(toBroker, toWorker, front, answers, client[c], c)

LEMMA CustodyNext ==
  ASSUME \A c \in Clients : Keeping(toBroker', toWorker', front', answers', client'[c], c)
  PROVE  Custody'
BY Zenon DEF Custody, Keeping, Fresh, Once, Nowhere, Alone, Own, None, One, Of, Stale

\* Requests are neither READY nor heartbeats, nor the absence of a request.
LEMMA OfFacts ==
  ASSUME NEW c
  PROVE  /\ READY \notin Of(c) /\ HEARTBEAT \notin Of(c) /\ NoRequest \notin Of(c)
         /\ \A n : READY \notin Stale(c, n) /\ HEARTBEAT \notin Stale(c, n)
                  /\ NoRequest \notin Stale(c, n)
         /\ \A n : Stale(c, n) \subseteq Of(c)
BY NamesAssumption, MessagesAssumption DEF Of, Stale

\* Only one place holds requests of c, and it holds one.
LEMMA OnceIn ==
  ASSUME NEW tb, NEW tw, NEW f, NEW a, NEW c,
         \/ One(tb, Of(c)) /\ None(tw, Of(c)) /\ Own(f, c) = {} /\ Own(a, c) = {}
         \/ None(tb, Of(c)) /\ One(tw, Of(c)) /\ Own(f, c) = {} /\ Own(a, c) = {}
         \/ None(tb, Of(c)) /\ None(tw, Of(c)) /\ Alone(Own(f, c)) /\ Own(a, c) = {}
         \/ None(tb, Of(c)) /\ None(tw, Of(c)) /\ Own(f, c) = {} /\ Alone(Own(a, c))
  PROVE  Once(tb, tw, f, a, c)
<1>1. Alone({})
  BY DEF Alone
<1> QED BY <1>1, NoneIsOne, Zenon DEF Once

\* Pipes q hold no more messages of the set M than the pipes p did.
Keeps(p, q, M) == (None(p, M) => None(q, M)) /\ (One(p, M) => One(q, M))

\* A step that brings client c nothing new.
LEMMA NothingNew ==
  ASSUME NEW tb, NEW tw, NEW f, NEW a, NEW s, NEW c,
         Keeping(tb, tw, f, a, s, c),
         NEW tb2, NEW tw2, NEW f2, NEW a2,
         Keeps(tb, tb2, Of(c)), Keeps(tw, tw2, Of(c)),
         Keeps(tb, tb2, Stale(c, s.seq)), Keeps(tw, tw2, Stale(c, s.seq)),
         Own(f2, c) \subseteq Own(f, c), Own(a2, c) \subseteq Own(a, c)
  PROVE  Keeping(tb2, tw2, f2, a2, s, c)
<1>1. Fresh(tb2, tw2, f2, c, s.seq)
  <2>1. f2 \cap Stale(c, s.seq) \subseteq f
    BY DEF Own, Stale, Of
  <2> QED BY <2>1 DEF Keeping, Fresh, Keeps
<1>2. Nowhere(tb, tw, f, a, c) => Nowhere(tb2, tw2, f2, a2, c)
  BY DEF Nowhere, Keeps
<1>3. ASSUME Once(tb, tw, f, a, c) PROVE Once(tb2, tw2, f2, a2, c)
  <2>1. Alone(Own(f2, c)) /\ Alone(Own(a2, c))
    BY <1>3 DEF Alone, Once
  <2>2. (Own(f, c) = {} => Own(f2, c) = {}) /\ (Own(a, c) = {} => Own(a2, c) = {})
    OBVIOUS
  <2> QED BY <1>3, <2>1, <2>2, Zenon DEF Once, Keeps
<1>4. \A r \in Own(a2, c) : r \in Own(a, c)
  OBVIOUS
<1> QED BY <1>1, <1>2, <1>3, <1>4, Zenon DEF Keeping

\* What a pass of the broker does to the messages of a set L.
LEMMA PassPlaces ==
  ASSUME TypeInv, NEW b \in Workers \cup {NoWorker}, NEW r \in front \cup {NoRequest},
         BrokerPass(b, r),
         NEW L, READY \notin L, HEARTBEAT \notin L, NoRequest \notin L
  PROVE  /\ Keeps(toBroker, toBroker', L)
         /\ b # NoWorker /\ Head(toBroker[b]) \in L =>
               /\ ~ None(toBroker, L)
               /\ One(toBroker, L) => None(toBroker', L)
         /\ r \notin L => Keeps(toWorker, toWorker', L)
         /\ None(toWorker, L) => One(toWorker', L)
<1>1. toBroker \in Pipes /\ toWorker \in Pipes
  BY TypeFacts
<1>2. ASSUME b # NoWorker
      PROVE  /\ b \in Workers /\ toBroker[b] # <<>> /\ toBroker' = [toBroker EXCEPT ![b] = Tail(@)]
             /\ toBroker[b] \in Seq(Message) /\ 1 \in 1 .. Len(toBroker[b])
             /\ Head(toBroker[b]) = toBroker[b][1] /\ DOMAIN toBroker = Workers
  <2>1. b \in Workers /\ toBroker[b] # <<>> /\ toBroker' = [toBroker EXCEPT ![b] = Tail(@)]
    BY <1>2 DEF BrokerPass
  <2> QED BY <1>1, <2>1 DEF Pipes
<1>3. Keeps(toBroker, toBroker', L)
  <2>1. CASE b = NoWorker
    BY <2>1 DEF BrokerPass, Keeps
  <2>2. CASE b # NoWorker
    <3>1. Tail(toBroker[b]) \in Seq(Message) /\ Part(toBroker[b], Tail(toBroker[b]))
      BY <1>2, <2>2, Parts
    <3>2. b \in Workers /\ toBroker' = [toBroker EXCEPT ![b] = Tail(toBroker[b])]
      BY <1>2, <2>2
    <3>3. /\ None(toBroker, L) => None(toBroker', L)
          /\ One(toBroker, L) => One(toBroker', L)
      BY <1>1, <3>1, <3>2, OneShrinks, Zenon DEF Pipes
    <3> QED BY <3>3 DEF Keeps
  <2> QED BY <2>1, <2>2
<1>4. ASSUME b # NoWorker, Head(toBroker[b]) \in L
      PROVE  ~ None(toBroker, L) /\ (One(toBroker, L) => None(toBroker', L))
  <2>1. ~ None(toBroker, L)
    BY <1>2, <1>4 DEF None
  <2>2. One(toBroker, L) => None(toBroker', L)
    <3>1. b \in Workers /\ toBroker[b] # <<>> /\ toBroker' = [toBroker EXCEPT ![b] = Tail(@)]
      BY <1>2, <1>4
    <3> QED BY <1>1, <1>4, <3>1, ReadTakesOnly, Zenon DEF Pipes
  <2> QED BY <2>1, <2>2
<1>5. (r \notin L => Keeps(toWorker, toWorker', L)) /\ (None(toWorker, L) => One(toWorker', L))
  <2>1. PICK w, B : toWorker' = Sent(w, r, B)
    BY Zenon DEF BrokerPass
  <2>2. r \in Request \cup {NoRequest}
    BY TypeInvParts DEF TypeParts
  <2> QED BY <1>1, <2>1, <2>2, SentFacts, Zenon DEF Keeps
<1> QED BY <1>3, <1>4, <1>5

LEMMA PassCustody ==
  ASSUME TypeInv, Custody, NEW b \in Workers \cup {NoWorker}, NEW r \in front \cup {NoRequest},
         BrokerPass(b, r), NEW c \in Clients
  PROVE  Keeping(toBroker', toWorker', front', answers', client[c], c)
<1> DEFINE h == Head(toBroker[b])
           reads == b # NoWorker
           s == client[c]
           M == Of(c)
           L == Stale(c, s.seq)
<1>1. Keeping(toBroker, toWorker, front, answers, s, c)
  BY DEF Custody
<1>2. READY \notin M /\ HEARTBEAT \notin M /\ NoRequest \notin M
      /\ READY \notin L /\ HEARTBEAT \notin L /\ NoRequest \notin L /\ L \subseteq M
  BY OfFacts
<1>3. front' = front \ {r} /\ front \subseteq Request
  BY TypeInvParts DEF BrokerPass, TypeParts
<1>4. \A x \in Own(answers', c) :
         x \in Own(answers, c) \/ (reads /\ x = h /\ h \in M /\ SocketOpen(h))
  BY DEF BrokerPass, Deliver, Own, Of
<1> HIDE DEF h, reads, s, M, L
<1>5. Fresh(toBroker, toWorker, front, c, s.seq)
  BY <1>1, Zenon DEF Keeping
<1>6. /\ Keeps(toBroker, toBroker', M)
      /\ reads /\ h \in M => ~ None(toBroker, M) /\ (One(toBroker, M) => None(toBroker', M))
      /\ r \notin M => Keeps(toWorker, toWorker', M)
      /\ None(toWorker, M) => One(toWorker', M)
  BY <1>2, PassPlaces, Zenon DEF h, reads
<1>7. /\ Keeps(toBroker, toBroker', L) /\ Keeps(toWorker, toWorker', L)
      /\ reads => h \notin L
  <2>1. r \notin L
    BY <1>2, <1>5 DEF Fresh, L
  <2>2. None(toBroker, L)
    BY <1>5 DEF Fresh, L
  <2> QED BY <1>2, <2>1, <2>2, PassPlaces, Zenon DEF h, reads
<1>8. r \in M => r \in Own(front, c) /\ Own(front', c) = Own(front, c) \ {r}
  BY <1>2, <1>3 DEF M, Own, Of
<1>9. Own(front', c) \subseteq Own(front, c)
  BY <1>3 DEF Own
<1>10. CASE ~ (reads /\ h \in M) /\ r \notin M
  <2>1. Own(answers', c) \subseteq Own(answers, c)
    BY <1>4, <1>10
  <2>2. Keeps(toBroker, toBroker', M) /\ Keeps(toWorker, toWorker', M)
    BY <1>6, <1>10
  <2> QED BY <1>1, <1>7, <1>9, <2>1, <2>2, NothingNew, Zenon DEF M, L, s
<1>11. CASE (reads /\ h \in M) \/ r \in M
  <2>1. s.phase # "ready"
    <3>1. ~ Nowhere(toBroker, toWorker, front, answers, c)
      BY <1>6, <1>8, <1>11 DEF Nowhere, M
    <3> QED BY <1>1, <3>1 DEF Keeping
  <2>2. Fresh(toBroker', toWorker', front', c, s.seq)
    BY <1>3, <1>5, <1>7 DEF Fresh, Keeps, L
  <2>3. \A x \in Own(answers', c) :
           s.phase = "waiting" /\ x.seq = s.seq /\ x.try = Retries - s.retries
    <3>1. ASSUME reads, h \in M, SocketOpen(h)
          PROVE  s.phase = "waiting" /\ h.seq = s.seq /\ h.try = Retries - s.retries
      <4>1. h.client = c /\ h \in Request /\ h.seq = s.seq
        BY <1>7, <3>1 DEF M, L, Of, Stale
      <4> QED BY <2>1, <3>1, <4>1 DEF SocketOpen, s
    <3>2. \A x \in Own(answers, c) :
             s.phase = "waiting" /\ x.seq = s.seq /\ x.try = Retries - s.retries
      BY <1>1 DEF Keeping
    <3> QED BY <1>4, <3>1, <3>2
  <2>4. ASSUME Once(toBroker, toWorker, front, answers, c)
        PROVE  Once(toBroker', toWorker', front', answers', c)
    <3>0. /\ One(toBroker, M) /\ Alone(Own(front, c))
          /\ None(toBroker, M) \/ None(toWorker, M)
          /\ None(toBroker, M) \/ Own(front, c) = {}
          /\ None(toBroker, M) \/ Own(answers, c) = {}
          /\ None(toWorker, M) \/ Own(front, c) = {}
          /\ Own(front, c) = {} \/ Own(answers, c) = {}
      BY <2>4 DEF Once, M
    <3>1. CASE reads /\ h \in M
      <4>1. /\ None(toBroker', M) /\ None(toWorker, M) /\ Own(front, c) = {}
            /\ Own(answers, c) = {}
        BY <1>6, <3>0, <3>1
      <4>2. r \notin M
        BY <1>8, <4>1
      <4>3. None(toWorker', M) /\ Own(front', c) = {}
        BY <1>6, <1>9, <4>1, <4>2 DEF Keeps
      <4>4. Alone(Own(answers', c))
        BY <1>4, <4>1 DEF Alone
      <4> QED BY <4>1, <4>3, <4>4, OnceIn, Zenon DEF M
    <3>2. CASE ~ (reads /\ h \in M) /\ r \in M
      <4>1. /\ None(toBroker, M) /\ None(toWorker, M) /\ Own(answers, c) = {}
            /\ Own(front', c) = {}
        BY <1>8, <3>0, <3>2 DEF Alone
      <4>2. None(toBroker', M) /\ One(toWorker', M)
        BY <1>6, <4>1 DEF Keeps
      <4>3. Own(answers', c) = {}
        BY <1>4, <3>2, <4>1
      <4> QED BY <4>1, <4>2, <4>3, OnceIn, Zenon DEF M
    <3> QED BY <1>11, <3>1, <3>2
  <2>5. s.phase = "failed" => s.retries < Retries
    BY <1>1 DEF Keeping
  <2>6. s.phase \in {"ready", "waiting"} /\ s.retries = Retries =>
           Once(toBroker, toWorker, front, answers, c)
    BY <1>1 DEF Keeping
  <2>7. Keeping(toBroker', toWorker', front', answers', s, c)
    BY <2>1, <2>2, <2>3, <2>4, <2>5, <2>6, Zenon DEF Keeping
  <2> QED BY <2>7 DEF s
<1> QED BY <1>10, <1>11

LEMMA ReceiveCustody ==
  ASSUME TypeInv, Custody, NEW w \in Workers, WorkerReceive(w), NEW c \in Clients
  PROVE  Keeping(toBroker', toWorker', front', answers', client[c], c)
<1> DEFINE h == Head(toWorker[w])
           s == client[c]
           M == Of(c)
           L == Stale(c, s.seq)
<1>1. Keeping(toBroker, toWorker, front, answers, s, c)
  BY DEF Custody
<1>2. HEARTBEAT \notin M /\ HEARTBEAT \notin L /\ L \subseteq M
  BY OfFacts
<1>3. front' = front /\ answers' = answers
  BY DEF WorkerReceive
<1> HIDE DEF h, s, M, L
<1>4. /\ None(toWorker, M) => None(toWorker', M)
      /\ One(toWorker, M) => One(toWorker', M)
      /\ h \notin M =>
            /\ None(toBroker, M) => None(toBroker', M)
            /\ One(toBroker, M) => One(toBroker', M)
      /\ None(toBroker, M) => One(toBroker', M)
      /\ h \in M /\ One(toWorker, M) => None(toWorker', M)
      /\ h \in M => ~ None(toWorker, M)
  BY <1>2, WorkerReads, Zenon DEF h
<1>5. Fresh(toBroker, toWorker, front, c, s.seq)
  BY <1>1, Zenon DEF Keeping
<1>6. Keeps(toBroker, toBroker', L) /\ Keeps(toWorker, toWorker', L)
  <2>1. h \notin L
    <3>1. None(toWorker, L)
      BY <1>5 DEF Fresh, L
    <3> QED BY <1>2, <3>1, WorkerReads, Zenon DEF h
  <2> QED BY <1>2, <2>1, WorkerReads, Zenon DEF h, Keeps
<1>7. CASE h \notin M
  <2>1. Keeps(toBroker, toBroker', M) /\ Keeps(toWorker, toWorker', M)
    BY <1>4, <1>7 DEF Keeps
  <2>2. Own(front', c) \subseteq Own(front, c) /\ Own(answers', c) \subseteq Own(answers, c)
    BY <1>3
  <2> QED BY <1>1, <1>6, <2>1, <2>2, NothingNew, Zenon DEF M, L, s
<1>8. CASE h \in M
  <2>1. s.phase # "ready"
    <3>1. ~ Nowhere(toBroker, toWorker, front, answers, c)
      BY <1>4, <1>8 DEF Nowhere, M
    <3> QED BY <1>1, <3>1 DEF Keeping
  <2>2. Fresh(toBroker', toWorker', front', c, s.seq)
    BY <1>3, <1>5, <1>6 DEF Fresh, Keeps, L
  <2>3. ASSUME Once(toBroker, toWorker, front, answers, c)
        PROVE  Once(toBroker', toWorker', front', answers', c)
    <3>1. /\ One(toWorker, M)
          /\ None(toBroker, M) \/ None(toWorker, M)
          /\ None(toWorker, M) \/ Own(front, c) = {}
          /\ None(toWorker, M) \/ Own(answers, c) = {}
      BY <2>3 DEF Once, M
    <3>2. /\ One(toBroker', M) /\ None(toWorker', M)
          /\ Own(front', c) = {} /\ Own(answers', c) = {}
      BY <1>3, <1>4, <1>8, <3>1
    <3> QED BY <3>2, OnceIn, Zenon DEF M
  <2>4. Keeping(toBroker', toWorker', front', answers', s, c)
    BY <1>1, <1>3, <2>1, <2>2, <2>3, Zenon DEF Keeping
  <2> QED BY <2>4 DEF s
<1> QED BY <1>7, <1>8

\* The passes of workers and the end of the broker that move no request.
LEMMA LossCustody ==
  ASSUME TypeInv, Custody, NEW c \in Clients,
         \/ \E w \in Workers :
            PollTimeout(w) \/ GiveUp(w) \/ Reconnect(w) \/ WorkerStart(w) \/ WorkerStop(w)
         \/ BrokerStop
  PROVE  Keeping(toBroker', toWorker', front', answers', client[c], c)
<1> DEFINE s == client[c]
           M == Of(c)
           L == Stale(c, s.seq)
<1>1. Keeping(toBroker, toWorker, front, answers, s, c)
  BY DEF Custody
<1>2. READY \notin M /\ HEARTBEAT \notin M /\ READY \notin L /\ HEARTBEAT \notin L
  BY OfFacts
<1> HIDE DEF s, M, L
<1>3. /\ Keeps(toBroker, toBroker', M) /\ Keeps(toWorker, toWorker', M)
      /\ Keeps(toBroker, toBroker', L) /\ Keeps(toWorker, toWorker', L)
  BY <1>2, WorkerPasses, StopCuts, Zenon DEF Keeps
<1>4. front' \subseteq front /\ answers' \subseteq answers
  BY DEF PollTimeout, GiveUp, Reconnect, WorkerStart, WorkerStop, BrokerStop
<1>5. Own(front', c) \subseteq Own(front, c) /\ Own(answers', c) \subseteq Own(answers, c)
  BY <1>4 DEF Own
<1> QED BY <1>1, <1>3, <1>5, NothingNew, Zenon DEF M, L, s

\* The steps of client d bring another client c nothing.
LEMMA OtherClient ==
  ASSUME TypeInv, Custody, NEW d \in Clients, ClientSend(d) \/ ClientRead(d) \/ ClientTimeout(d),
         NEW c \in Clients, c # d
  PROVE  /\ client'[c] = client[c]
         /\ Keeping(toBroker', toWorker', front', answers', client[c], c)
<1>1. TypeParts /\ client \in [Clients -> ClientState]
  BY TypeInvParts DEF TypeParts
<1>2. client'[c] = client[c]
  BY <1>1 DEF ClientSend, ClientRead, ClientTimeout
<1>3. toBroker' = toBroker /\ toWorker' = toWorker
  BY DEF ClientSend, ClientRead, ClientTimeout
<1>4. Own(front', c) \subseteq Own(front, c)
  <2>1. \A x \in front' : x \in front \/ x.client = d
    <3>1. CASE ClientSend(d)
      BY <3>1 DEF ClientSend
    <3>2. CASE ClientRead(d)
      BY <3>2 DEF ClientRead
    <3>3. CASE ClientTimeout(d)
      <4>1. PICK kept \in SUBSET Own(front, d) :
              front' = (front \ Own(front, d)) \cup kept \cup
                       IF client[d].retries = 1 THEN {} ELSE {Current(d, client[d].retries - 1)}
        BY <3>3 DEF ClientTimeout
      <4>2. Current(d, client[d].retries - 1).client = d
        BY DEF Current
      <4> QED BY <4>1, <4>2 DEF Own
    <3> QED BY <3>1, <3>2, <3>3
  <2> QED BY <2>1 DEF Own
<1>5. Own(answers', c) \subseteq Own(answers, c)
  BY DEF ClientSend, ClientRead, ClientTimeout, Own
<1>6. Keeping(toBroker, toWorker, front, answers, client[c], c)
  BY DEF Custody
<1>7. /\ Keeps(toBroker, toBroker', Of(c)) /\ Keeps(toWorker, toWorker', Of(c))
      /\ Keeps(toBroker, toBroker', Stale(c, client[c].seq))
      /\ Keeps(toWorker, toWorker', Stale(c, client[c].seq))
  BY <1>3 DEF Keeps
<1> QED BY <1>2, <1>4, <1>5, <1>6, <1>7, NothingNew, Zenon

\* A client whose call was answered has nothing under way when it calls again.
LEMMA SendCustody ==
  ASSUME TypeInv, Custody, NEW c \in Clients, ClientSend(c)
  PROVE  Keeping(toBroker', toWorker', front', answers', client'[c], c)
<1> DEFINE s == client[c]
           a == client'[c]
           r == [client |-> c, seq |-> client[c].seq + 1, try |-> Retries - client[c].retries]
<1>1. TypeParts /\ client[c] \in ClientState /\ client \in [Clients -> ClientState]
  BY TypeInvParts DEF TypeParts
<1>2. /\ s.phase = "ready" /\ client' = [client EXCEPT ![c].phase = "waiting", ![c].seq = @ + 1]
      /\ front' = front \cup {r} /\ answers' = answers
      /\ toBroker' = toBroker /\ toWorker' = toWorker
  BY DEF ClientSend
<1>3. a.phase = "waiting" /\ a.seq = s.seq + 1 /\ a.retries = s.retries
  BY <1>1, <1>2 DEF ClientState
<1>4. r.client = c /\ r.seq = s.seq + 1
  OBVIOUS
<1> HIDE DEF s, a, r
<1>5. Nowhere(toBroker, toWorker, front, answers, c)
  BY <1>2 DEF Custody, Keeping, s
<1>6. /\ None(toBroker', Of(c)) /\ None(toWorker', Of(c)) /\ Own(answers', c) = {}
      /\ Own(front, c) = {}
  BY <1>2, <1>5 DEF Nowhere
<1>7. Own(front', c) = {r}
  BY <1>2, <1>4, <1>6 DEF Own
<1>8. Once(toBroker', toWorker', front', answers', c)
  <2>1. Alone(Own(front', c))
    BY <1>7 DEF Alone
  <2> QED BY <1>6, <2>1, OnceIn, Zenon
<1>9. Fresh(toBroker', toWorker', front', c, a.seq)
  <2>1. None(toBroker', Stale(c, a.seq)) /\ None(toWorker', Stale(c, a.seq))
    BY <1>6, OfFacts, NoneOfFewer, Zenon
  <2>2. front' \cap Stale(c, a.seq) = {}
    <3>1. \A x \in front' \cap Stale(c, a.seq) : x = r
      BY <1>7 DEF Stale, Of, Own
    <3> QED BY <1>3, <1>4, <3>1 DEF Stale
  <2> QED BY <2>1, <2>2 DEF Fresh
<1>10. Keeping(toBroker', toWorker', front', answers', a, c)
  <2>1. \A x : x \notin Own(answers', c)
    BY <1>6
  <2> QED BY <1>3, <1>8, <1>9, <2>1 DEF Keeping
<1> QED BY <1>10 DEF a

\* An answer to a first attempt was all that was under way.
LEMMA ReadCustody ==
  ASSUME TypeInv, Custody, NEW c \in Clients, ClientRead(c)
  PROVE  Keeping(toBroker', toWorker', front', answers', client'[c], c)
<1> DEFINE s == client[c]
           a == client'[c]
<1>1. TypeParts /\ client[c] \in ClientState /\ client \in [Clients -> ClientState]
  BY TypeInvParts DEF TypeParts
<1>2. PICK r \in Own(answers, c) :
        /\ answers' = answers \ (IF r.try > 0 THEN Own(answers, c) ELSE {r})
        /\ client' = [client EXCEPT ![c] =
              IF r.try > 0 THEN [client[c] EXCEPT !.phase = "failed"]
              ELSE IF r.seq = client[c].seq
              THEN [client[c] EXCEPT !.phase = "ready", !.retries = Retries]
              ELSE client[c]]
  BY DEF ClientRead
<1>3. front' = front /\ toBroker' = toBroker /\ toWorker' = toWorker
  BY DEF ClientRead
<1>4. Keeping(toBroker, toWorker, front, answers, s, c)
  BY DEF Custody
<1>5. s.phase = "waiting" /\ r.seq = s.seq /\ r.try = Retries - s.retries
  BY <1>4 DEF Keeping
<1>6. s.retries \in 0 .. Retries
  BY <1>1 DEF ClientState
<1>7. Fresh(toBroker', toWorker', front', c, s.seq)
  BY <1>3, <1>4 DEF Keeping
<1>8. CASE r.try > 0
  <2>1. client'[c] = [client[c] EXCEPT !.phase = "failed"] /\ answers' = answers \ Own(answers, c)
    BY <1>1, <1>2, <1>8
  <2>2. a.phase = "failed" /\ a.seq = s.seq /\ a.retries = s.retries /\ Own(answers', c) = {}
    BY <1>1, <2>1 DEF ClientState, Own
  <2>3. a.retries < Retries
    BY <1>5, <1>6, <1>8, <2>2, Numbers
  <2> HIDE DEF a, s
  <2>4. Fresh(toBroker', toWorker', front', c, a.seq)
    BY <1>7, <2>2
  <2>5. Keeping(toBroker', toWorker', front', answers', a, c)
    BY <2>2, <2>3, <2>4 DEF Keeping
  <2> QED BY <2>5 DEF a
<1>9. CASE ~ (r.try > 0)
  <2>1. s.retries = Retries
    BY <1>5, <1>6, <1>9, Numbers
  <2>2. Once(toBroker, toWorker, front, answers, c)
    BY <1>4, <1>5, <2>1, Zenon DEF Keeping
  <2>3. client'[c] = [client[c] EXCEPT !.phase = "ready", !.retries = Retries]
        /\ answers' = answers \ {r}
    BY <1>1, <1>2, <1>5, <1>9
  <2>4. a.phase = "ready" /\ a.seq = s.seq /\ a.retries = Retries
    BY <1>1, <2>3 DEF ClientState
  <2> HIDE DEF a, s
  <2>5. Own(answers', c) = {}
    BY <2>2, <2>3 DEF Own, Once, Alone
  <2>6. /\ None(toBroker', Of(c)) /\ None(toWorker', Of(c)) /\ Own(front', c) = {}
    BY <1>3, <2>2 DEF Once
  <2>7. Nowhere(toBroker', toWorker', front', answers', c)
    BY <2>5, <2>6 DEF Nowhere
  <2>8. Once(toBroker', toWorker', front', answers', c)
    <3>1. Alone(Own(front', c))
      BY <2>6 DEF Alone
    <3> QED BY <2>5, <2>6, <3>1, OnceIn, Zenon
  <2>9. Fresh(toBroker', toWorker', front', c, a.seq)
    BY <1>7, <2>4
  <2>10. Keeping(toBroker', toWorker', front', answers', a, c)
    <3>1. \A x : x \notin Own(answers', c)
      BY <2>5
    <3> QED BY <2>4, <2>7, <2>8, <2>9, <3>1 DEF Keeping
  <2> QED BY <2>10 DEF a
<1> QED BY <1>8, <1>9

\* After a retry only the call matters: its requests may be many.
LEMMA TimeoutCustody ==
  ASSUME TypeInv, Custody, NEW c \in Clients, ClientTimeout(c)
  PROVE  Keeping(toBroker', toWorker', front', answers', client'[c], c)
<1> DEFINE s == client[c]
           a == client'[c]
           again == Current(c, client[c].retries - 1)
<1>1. TypeParts /\ client[c] \in ClientState /\ client \in [Clients -> ClientState]
      /\ ClientCounts(c)
  BY TypeInvParts DEF TypeParts
<1>2. s.phase = "waiting" /\ s.retries \in 0 .. Retries /\ s.retries >= 1 /\ s.seq >= 1
  BY <1>1 DEF ClientTimeout, ClientCounts, ClientState
<1>3. client' = [client EXCEPT ![c].retries = @ - 1,
                               ![c].phase = IF client[c].retries = 1 THEN "abandoned" ELSE @]
      /\ answers' = answers \ Own(answers, c)
      /\ toBroker' = toBroker /\ toWorker' = toWorker
  BY DEF ClientTimeout
<1>4. a.seq = s.seq /\ a.retries = s.retries - 1 /\ a.phase \in {"waiting", "abandoned"}
  BY <1>1, <1>2, <1>3 DEF ClientState
<1>5. again.seq = s.seq
  BY DEF Current
<1>6. \A x \in front' : x \in front \/ x = again
  <2>1. PICK kept \in SUBSET Own(front, c) :
          front' = (front \ Own(front, c)) \cup kept \cup
                   IF client[c].retries = 1 THEN {} ELSE {Current(c, client[c].retries - 1)}
    BY DEF ClientTimeout
  <2> QED BY <2>1 DEF Own
<1> HIDE DEF s, a, again
<1>7. Own(answers', c) = {}
  BY <1>3 DEF Own
<1>8. Fresh(toBroker, toWorker, front, c, s.seq)
  BY DEF Custody, Keeping, s
<1>9. Fresh(toBroker', toWorker', front', c, a.seq)
  <2>1. front' \cap Stale(c, s.seq) = {}
    BY <1>5, <1>6, <1>8 DEF Fresh, Stale
  <2> QED BY <1>3, <1>4, <1>8, <2>1 DEF Fresh
<1>10. a.retries < Retries /\ a.retries # Retries
  BY <1>2, <1>4, Numbers
<1>11. Keeping(toBroker', toWorker', front', answers', a, c)
  <2>1. \A x : x \notin Own(answers', c)
    BY <1>7
  <2> QED BY <1>4, <1>9, <1>10, <2>1 DEF Keeping
<1> QED BY <1>11 DEF a

LEMMA InitCustody == Init => Custody
<1> SUFFICES ASSUME Init, NEW c \in Clients
    PROVE  Keeping(toBroker, toWorker, front, answers, client[c], c)
  BY DEF Custody
<1>1. /\ toBroker = [w \in Workers |-> <<>>] /\ toWorker = [w \in Workers |-> <<>>]
      /\ front = {} /\ answers = {} /\ client[c].phase = "ready"
  BY DEF Init
<1>2. \A M : None(toBroker, M) /\ None(toWorker, M)
  BY <1>1 DEF None
<1>3. Own(front, c) = {} /\ Own(answers, c) = {} /\ \A x : x \notin Own(answers, c)
  BY <1>1 DEF Own
<1>4. Alone(Own(front, c))
  BY <1>3 DEF Alone
<1>5. Once(toBroker, toWorker, front, answers, c)
  BY <1>2, <1>3, <1>4, OnceIn, NoneIsOne, Zenon
<1>6. Nowhere(toBroker, toWorker, front, answers, c)
  BY <1>2, <1>3 DEF Nowhere
<1>7. Fresh(toBroker, toWorker, front, c, client[c].seq)
  BY <1>1, <1>2 DEF Fresh
<1> QED BY <1>1, <1>3, <1>5, <1>6, <1>7 DEF Keeping

LEMMA StepCustody == TypeInv /\ Custody /\ [Next]_vars => Custody'
<1> SUFFICES ASSUME TypeInv, Custody, [Next]_vars PROVE Custody' OBVIOUS
<1> SUFFICES ASSUME NEW c \in Clients
    PROVE  Keeping(toBroker', toWorker', front', answers', client'[c], c)
  BY CustodyNext
<1>1. CASE \E b \in Workers \cup {NoWorker}, r \in front \cup {NoRequest} : BrokerPass(b, r)
  <2>1. client' = client
    BY <1>1 DEF BrokerPass
  <2> QED BY <1>1, <2>1, PassCustody
<1>2. CASE BrokerStart \/ Tick \/ UNCHANGED vars
  <2>1. UNCHANGED <<toBroker, toWorker, front, answers, client>>
    BY <1>2 DEF BrokerStart, Tick, vars
  <2> QED BY <2>1 DEF Custody
<1>3. CASE BrokerStop
  <2>1. client' = client
    BY <1>3 DEF BrokerStop
  <2> QED BY <1>3, <2>1, LossCustody
<1>4. CASE \E w \in Workers : WorkerStep(w) \/ WorkerStart(w) \/ WorkerStop(w)
  <2>1. client' = client
    BY <1>4 DEF WorkerStep, WorkerStart, WorkerStop, WorkerReceive, PollTimeout, GiveUp, Reconnect
  <2>2. CASE \E w \in Workers : WorkerReceive(w)
    BY <2>1, <2>2, ReceiveCustody
  <2>3. CASE \E w \in Workers :
                PollTimeout(w) \/ GiveUp(w) \/ Reconnect(w) \/ WorkerStart(w) \/ WorkerStop(w)
    BY <2>1, <2>3, LossCustody
  <2> QED BY <1>4, <2>2, <2>3 DEF WorkerStep
<1>5. ASSUME NEW d \in Clients, ClientSend(d) \/ ClientRead(d) \/ ClientTimeout(d)
      PROVE  Keeping(toBroker', toWorker', front', answers', client'[c], c)
  <2>1. CASE c = d
    BY <1>5, <2>1, SendCustody, ReadCustody, TimeoutCustody
  <2>2. CASE c # d
    <3>1. client'[c] = client[c]
          /\ Keeping(toBroker', toWorker', front', answers', client[c], c)
      BY <1>5, <2>2, OtherClient, Zenon
    <3> QED BY <3>1
  <2> QED BY <2>1, <2>2
<1> QED BY <1>1, <1>2, <1>3, <1>4, <1>5 DEF Next

\* At most one request of a client that has not retried is anywhere in the
\* system, and everything under way for a client is of its present call.
THEOREM PirateCustody == Spec => []Custody
BY InitTypes, StepTypes, InitCustody, StepCustody, QueueInvariant, PTL DEF Spec

\* An answer that a client reads is an answer to what it sent last; the client
\* ends with an exception only when it has retried.
THEOREM NoStaleAnswer == Spec => []FailsOnlyAfterRetry
<1>1. Custody /\ TypeInv => FailsOnlyAfterRetry
  <2> SUFFICES ASSUME Custody, TypeInv PROVE FailsOnlyAfterRetry OBVIOUS
  <2>1. ASSUME NEW c \in Clients, client[c].phase = "failed" PROVE client[c].retries < Retries
    BY <2>1 DEF Custody, Keeping
  <2>2. ASSUME NEW r \in answers PROVE r = Current(r.client, client[r.client].retries)
    <3>1. r \in Request
      BY TypeInvParts DEF TypeParts
    <3>2. r.client \in Clients /\ r \in Own(answers, r.client)
          /\ r = [client |-> r.client, seq |-> r.seq, try |-> r.try]
      BY <3>1 DEF Request, Own
    <3>3. r.seq = client[r.client].seq /\ r.try = Retries - client[r.client].retries
      BY <3>2 DEF Custody, Keeping
    <3> QED BY <3>2, <3>3 DEF Current
  <2> QED BY <2>1, <2>2 DEF FailsOnlyAfterRetry
<1> QED BY <1>1, InitTypes, StepTypes, QueueInvariant, PirateCustody, PTL DEF Spec

=============================================================================
