--------------------------- MODULE MDBrokerProofs ---------------------------
(***************************************************************************)
(* The broker keeps its tables consistent: proofs for every set of workers,*)
(* names and requests, every Liveness and every bound of the queues.       *)
(*                                                                         *)
(* The inductive invariant is Tables.  The waiting lists alone are not     *)
(* inductive: that no identity waits twice needs that a waiting identity is*)
(* registered (so that a READY of an unknown identity cannot find it in a  *)
(* list), and that no lookup fails needs the same.  A handler is a         *)
(* composition of methods, some of which leave a service with both a       *)
(* waiting worker and a request until the dispatch at its end; Sound is the*)
(* part each method keeps, and there is one lemma for each method.         *)
(*                                                                         *)
(* Sound and Consistent hold of the broker whatever its workers do.  That  *)
(* no identity waits twice (NoDuplicates) is apart from them: it is kept by*)
(* every handler but the one of a REPLY from an identity that waits, so the*)
(* lemmas state it as a conclusion of its own, with that hypothesis.       *)
(*                                                                         *)
(* The last part is about what a handler sends, for the proofs of the whole*)
(* system: to whom requests go, and that none is doubled on the way.       *)
(***************************************************************************)
EXTENDS MDBroker, QueueTheorems, SequenceTheorems

\* RegisteredWaiting, NoDuplicateWaiting, NeverBothWaitingAndQueued and
\* QueuesAreServices of a broker record b.
Registered(b) ==
    \A n \in Names : \A id \in Elements(b.waiting[n]) :
        id \in b.workers /\ b.service_name[id] = n

NoDuplicates(b) == \A n \in Names : NoRepeats(b.waiting[n])

Exclusive(b, n) == b.waiting[n] = <<>> \/ b.requests[n] = <<>>

Listed(b) == \A n \in Names \ b.services : b.waiting[n] = <<>> /\ b.requests[n] = <<>>

\* What every method keeps, whatever the state of the queues.
Sound(b) ==
    /\ b \in BrokerState
    /\ Registered(b)
    /\ Listed(b)
    /\ ~ b.down /\ ~ b.short

\* worker_require finds or creates the record and touches no list.
LEMMA RequireSound ==
  ASSUME NEW b, Sound(b), NEW id \in WorkerIds
  PROVE  LET r == worker_require(b, id) IN
         /\ Sound(r)
         /\ id \in r.workers
         /\ r.waiting = b.waiting /\ r.requests = b.requests
<1> DEFINE r == worker_require(b, id)
<1>0. b \in BrokerState BY DEF Sound
<1>1. CASE id \in b.workers
  BY <1>1 DEF worker_require
<1>2. CASE id \notin b.workers
  <2>1. r = [b EXCEPT !.workers = @ \cup {id},
                   !.service_name[id] = NoName,
                   !.age[id] = 0]
    BY <1>2 DEF worker_require
  <2>2. /\ r.workers = b.workers \cup {id}
        /\ r.service_name = [b.service_name EXCEPT ![id] = NoName]
        /\ r.age = [b.age EXCEPT ![id] = 0]
        /\ r.services = b.services /\ r.waiting = b.waiting /\ r.requests = b.requests
        /\ r.heartbeat_due = b.heartbeat_due /\ r.down = b.down /\ r.short = b.short
    BY <2>1, <1>0 DEF BrokerState
  <2>3. r \in BrokerState
    <3>1. r = [b EXCEPT !.workers = r.workers, !.service_name = r.service_name, !.age = r.age]
      BY <2>1, <1>0 DEF BrokerState
    <3>2. r.service_name \in [WorkerIds -> Names] BY <2>2, <1>0, NamesAssumption DEF BrokerState
    <3>3. r.age \in [WorkerIds -> Ages] BY <2>2, <1>0, LivenessAssumption DEF BrokerState, Ages
    <3>4. r.workers \in SUBSET WorkerIds BY <2>2, <1>0 DEF BrokerState
    <3> HIDE DEF r
    <3> QED BY <3>1, <3>2, <3>3, <3>4, <1>0 DEF BrokerState
  <2>4. Registered(r)
    BY <2>2, <1>0, <1>2 DEF Sound, Registered, BrokerState
  <2> QED BY <2>2, <2>3, <2>4 DEF Sound, Listed
<1> QED BY <1>1, <1>2

\* worker_delete takes the identities out of the records and out of every waiting
\* list, so that what still waits is still registered.
LEMMA DeleteSound ==
  ASSUME NEW b, Sound(b), NEW D
  PROVE  /\ Sound(worker_delete(b, D))
         /\ \A n \in Names : worker_delete(b, D).waiting[n] = Erase(b.waiting[n], D)
         /\ worker_delete(b, D).requests = b.requests
         /\ worker_delete(b, D).services = b.services
         /\ worker_delete(b, D).workers = b.workers \ D
         /\ NoDuplicates(b) => NoDuplicates(worker_delete(b, D))
<1> DEFINE r == worker_delete(b, D)
<1>0. b \in BrokerState BY DEF Sound
<1>1. /\ r.workers = b.workers \ D
      /\ r.service_name = [w \in WorkerIds |-> IF w \in D THEN NoName ELSE b.service_name[w]]
      /\ r.age = [w \in WorkerIds |-> IF w \in D THEN 0 ELSE b.age[w]]
      /\ r.waiting = [n \in Names |-> Erase(b.waiting[n], D)]
      /\ r.services = b.services /\ r.requests = b.requests
      /\ r.heartbeat_due = b.heartbeat_due /\ r.down = b.down /\ r.short = b.short
  BY <1>0 DEF BrokerState, worker_delete
<1>2. \A n \in Names : b.waiting[n] \in Seq(WorkerIds)
  BY <1>0 DEF BrokerState
<1>3. \A n \in Names :
        /\ r.waiting[n] \in Seq(WorkerIds)
        /\ Len(r.waiting[n]) <= Len(b.waiting[n])
        /\ Elements(r.waiting[n]) \subseteq Elements(b.waiting[n]) \ D
        /\ NoRepeats(b.waiting[n]) => NoRepeats(r.waiting[n])
  BY <1>1, <1>2, EraseFacts
<1>4. r \in BrokerState
  <2>1. r = [b EXCEPT !.workers = r.workers, !.service_name = r.service_name,
                      !.age = r.age, !.waiting = r.waiting]
    BY <1>0, <1>1 DEF worker_delete, BrokerState
  <2>2. r.waiting \in [Names -> Seq(WorkerIds)] BY <1>1, <1>3
  <2>3. r.service_name \in [WorkerIds -> Names] BY <1>0, <1>1, NamesAssumption DEF BrokerState
  <2>4. r.age \in [WorkerIds -> Ages] BY <1>0, <1>1, LivenessAssumption DEF BrokerState, Ages
  <2>5. r.workers \in SUBSET WorkerIds BY <1>0, <1>1 DEF BrokerState
  <2> HIDE DEF r
  <2> QED BY <2>1, <2>2, <2>3, <2>4, <2>5, <1>0 DEF BrokerState
<1>4a. \A w \in WorkerIds \ D : r.service_name[w] = b.service_name[w] /\ r.age[w] = b.age[w]
  BY <1>1
<1>5. Registered(r)
  <2> SUFFICES ASSUME NEW n \in Names, NEW id \in Elements(r.waiting[n])
               PROVE  id \in r.workers /\ r.service_name[id] = n
    BY DEF Registered
  <2>1. id \in Elements(b.waiting[n]) /\ id \notin D BY <1>3
  <2>2. id \in b.workers /\ b.service_name[id] = n BY <2>1 DEF Sound, Registered
  <2>3. id \in WorkerIds BY <2>2, <1>0 DEF BrokerState
  <2> QED BY <2>1, <2>2, <2>3, <1>1, <1>4a
<1>6. NoDuplicates(b) => NoDuplicates(r)
  BY <1>3 DEF NoDuplicates
<1>7. Listed(r)
  BY <1>1, <1>2, <1>3 DEF Sound, Listed
<1> QED BY <1>1, <1>4, <1>4a, <1>5, <1>6, <1>7 DEF Sound

\* purge_workers deletes the expired identities: no request is touched and no
\* waiting list grows.
LEMMA PurgeSound ==
  ASSUME NEW b, Sound(b)
  PROVE  LET r == purge_workers(b) IN
         /\ Sound(r)
         /\ r.requests = b.requests /\ r.services = b.services
         /\ \A n \in Names : /\ r.waiting[n] \in Seq(WorkerIds)
                           /\ Len(r.waiting[n]) <= Len(b.waiting[n])
         /\ NoDuplicates(b) => NoDuplicates(r)
<1> DEFINE D == {w \in b.workers : Expired(b, w)}
<1>1. purge_workers(b) = worker_delete(b, D) BY DEF purge_workers
<1> HIDE DEF D
<1>2. \A n \in Names : b.waiting[n] \in Seq(WorkerIds) BY DEF Sound, BrokerState
<1>3. \A n \in Names : /\ Erase(b.waiting[n], D) \in Seq(WorkerIds)
                      /\ Len(Erase(b.waiting[n], D)) <= Len(b.waiting[n])
  BY <1>2, EraseFacts
<1> DEFINE r == worker_delete(b, D)
<1>4. /\ Sound(r)
      /\ \A n \in Names : r.waiting[n] = Erase(b.waiting[n], D)
      /\ r.requests = b.requests /\ r.services = b.services
      /\ NoDuplicates(b) => NoDuplicates(r)
  BY DeleteSound
<1> HIDE DEF r
<1>5. \A n \in Names : r.waiting[n] \in Seq(WorkerIds) /\ Len(r.waiting[n]) <= Len(b.waiting[n])
  BY <1>3, <1>4
<1> QED BY <1>1, <1>4, <1>5, Zenon DEF r

\* What is left of a list when its first k elements are taken.
LEMMA RestFacts ==
  ASSUME NEW S, NEW s \in Seq(S), NEW k \in 0 .. Len(s)
  PROVE  /\ Rest(s, k) \in Seq(S)
         /\ Len(Rest(s, k)) = Len(s) - k
         /\ \A i \in 1 .. Len(s) - k : Rest(s, k)[i] = s[k + i]
         /\ Elements(Rest(s, k)) \subseteq Elements(s)
         /\ NoRepeats(s) => NoRepeats(Rest(s, k))
<1>1. Len(s) \in Nat /\ k \in Nat /\ k + 1 \in Int OBVIOUS
<1>2. \A i \in k + 1 .. Len(s) : s[i] \in S BY <1>1
<1>3. /\ Rest(s, k) \in Seq(S)
      /\ Len(Rest(s, k)) = IF k + 1 <= Len(s) THEN Len(s) - (k + 1) + 1 ELSE 0
      /\ \A i \in 1 .. Len(s) - (k + 1) + 1 : Rest(s, k)[i] = s[k + 1 + i - 1]
  BY <1>1, <1>2, SubSeqProperties DEF Rest
<1>4. Len(Rest(s, k)) = Len(s) - k BY <1>1, <1>3
<1>5. \A i \in 1 .. Len(s) - k : Rest(s, k)[i] = s[k + i] BY <1>1, <1>3
<1>6. \A i \in 1 .. Len(s) - k : k + i \in 1 .. Len(s) BY <1>1
<1>7. Elements(Rest(s, k)) \subseteq Elements(s) BY <1>4, <1>5, <1>6 DEF Elements
<1>8. NoRepeats(s) => NoRepeats(Rest(s, k)) BY <1>1, <1>4, <1>5, <1>6 DEF NoRepeats
<1> QED BY <1>3, <1>4, <1>5, <1>7, <1>8

\* What service_dispatch does: the expired identities leave; then, when the service
\* has both a worker and a request, the first of each goes.  No identity that it
\* looks up is unknown.
LEMMA DispatchFields ==
  ASSUME NEW b, Sound(b), NEW n \in b.services
  PROVE  LET D == {w \in b.workers : Expired(b, w)}
             p == purge_workers(b)
             r == service_dispatch(b, n)
         IN  /\ n \in Names /\ Sound(p) /\ (NoDuplicates(b) => NoDuplicates(p))
             /\ p.workers = b.workers \ D
             /\ p.requests = b.requests /\ p.services = b.services
             /\ \A m \in Names : p.waiting[m] = Erase(b.waiting[m], D)
             /\ ~ Serving(p, n) => r = p
             /\ Serving(p, n) =>
                   /\ r = [p EXCEPT !.requests[n] = Tail(@), !.waiting[n] = EraseFirst(@)]
                   /\ r.workers = p.workers /\ r.service_name = p.service_name /\ r.age = p.age
                   /\ r.services = p.services /\ r.down = p.down /\ r.short = p.short
                   /\ r.requests = [p.requests EXCEPT ![n] = Tail(@)]
                   /\ r.waiting = [p.waiting EXCEPT ![n] = EraseFirst(@)]
<1> DEFINE D == {w \in b.workers : Expired(b, w)}
           p == purge_workers(b)
           r == service_dispatch(b, n)
<1>0. n \in Names BY DEF Sound, BrokerState
<1>1. p = worker_delete(b, D) BY DEF purge_workers
<1>2. r = IF ~ Serving(p, n) THEN p
          ELSE IF ~ (Elements(p.waiting[n]) \subseteq p.workers) THEN [p EXCEPT !.down = TRUE]
          ELSE [p EXCEPT !.requests[n] = Tail(@), !.waiting[n] = EraseFirst(@)]
  BY DEF service_dispatch
<1> HIDE DEF D, p, r
<1>3. /\ Sound(p) /\ (NoDuplicates(b) => NoDuplicates(p))
      /\ p.workers = b.workers \ D /\ p.requests = b.requests /\ p.services = b.services
      /\ \A m \in Names : p.waiting[m] = Erase(b.waiting[m], D)
  BY <1>1, DeleteSound
<1>4. ~ Serving(p, n) => r = p BY <1>2
<1>5. Elements(p.waiting[n]) \subseteq p.workers
  BY <1>0, <1>3 DEF Sound, Registered
<1>6. ASSUME Serving(p, n)
      PROVE  r = [p EXCEPT !.requests[n] = Tail(@), !.waiting[n] = EraseFirst(@)]
  BY <1>2, <1>5, <1>6
<1>7. ASSUME Serving(p, n)
      PROVE  /\ r.workers = p.workers /\ r.service_name = p.service_name /\ r.age = p.age
             /\ r.services = p.services /\ r.down = p.down /\ r.short = p.short
             /\ r.requests = [p.requests EXCEPT ![n] = Tail(@)]
             /\ r.waiting = [p.waiting EXCEPT ![n] = EraseFirst(@)]
  <2>1. p \in BrokerState BY <1>3 DEF Sound
  <2>2. r = [p EXCEPT !.requests[n] = Tail(@), !.waiting[n] = EraseFirst(@)] BY <1>6, <1>7
  <2> QED BY <2>1, <2>2 DEF BrokerState
<1> QED BY <1>0, <1>3, <1>4, <1>6, <1>7 DEF D, p, r

\* service_dispatch ends with one of the two lists of the service empty, when the
\* other services had one empty before and this one had no more than one element
\* in one of them: its one pass leaves nothing to match.
LEMMA DispatchSound ==
  ASSUME NEW b, Sound(b), NEW n \in b.services,
         \A m \in Names \ {n} : Exclusive(b, m),
         Len(b.waiting[n]) <= 1 \/ Len(b.requests[n]) <= 1
  PROVE  LET r == service_dispatch(b, n) IN
         /\ Sound(r) /\ \A m \in Names : Exclusive(r, m)
         /\ NoDuplicates(b) => NoDuplicates(r)
<1> DEFINE D == {w \in b.workers : Expired(b, w)}
           p == purge_workers(b)
           r == service_dispatch(b, n)
<1>1. /\ n \in Names /\ Sound(p) /\ (NoDuplicates(b) => NoDuplicates(p))
      /\ p.requests = b.requests
      /\ \A m \in Names : p.waiting[m] = Erase(b.waiting[m], D)
      /\ ~ Serving(p, n) => r = p
      /\ Serving(p, n) =>
            /\ r = [p EXCEPT !.requests[n] = Tail(@), !.waiting[n] = EraseFirst(@)]
            /\ r.workers = p.workers /\ r.service_name = p.service_name /\ r.age = p.age
            /\ r.services = p.services /\ r.down = p.down /\ r.short = p.short
            /\ r.requests = [p.requests EXCEPT ![n] = Tail(@)]
            /\ r.waiting = [p.waiting EXCEPT ![n] = EraseFirst(@)]
  BY DispatchFields
<1> HIDE DEF D, p, r
<1>2. p \in BrokerState /\ b \in BrokerState BY <1>1 DEF Sound
<1>3. /\ p.waiting[n] \in Seq(WorkerIds) /\ p.requests[n] \in Seq(Requests)
      /\ \A m \in Names : b.waiting[m] \in Seq(WorkerIds)
  BY <1>1, <1>2 DEF BrokerState
<1>4. \A m \in Names : /\ Len(p.waiting[m]) <= Len(b.waiting[m])
                       /\ b.waiting[m] = <<>> => p.waiting[m] = <<>>
  <2> TAKE m \in Names
  <2>1. /\ Erase(b.waiting[m], D) \in Seq(WorkerIds)
        /\ Len(Erase(b.waiting[m], D)) <= Len(b.waiting[m])
    BY <1>3, EraseFacts
  <2> QED BY <1>1, <1>3, <2>1
<1>5. \A m \in Names \ {n} : Exclusive(p, m)
  BY <1>1, <1>4 DEF Exclusive
<1>6. CASE ~ Serving(p, n)
  <2>1. r = p BY <1>1, <1>6
  <2>2. Exclusive(p, n) BY <1>6 DEF Serving, Exclusive
  <2>3. \A m \in Names : Exclusive(p, m) BY <1>5, <2>2
  <2> QED BY <1>1, <2>1, <2>3 DEF r
<1>7. CASE Serving(p, n)
  <2>1. p.waiting[n] # <<>> /\ p.requests[n] # <<>> BY <1>7 DEF Serving
  <2>2. /\ EraseFirst(p.waiting[n]) \in Seq(WorkerIds)
        /\ Len(EraseFirst(p.waiting[n])) < Len(p.waiting[n])
        /\ Elements(EraseFirst(p.waiting[n])) \subseteq Elements(p.waiting[n])
        /\ NoRepeats(p.waiting[n]) => EraseFirst(p.waiting[n]) = Tail(p.waiting[n])
    BY <1>3, <2>1, EraseFirstFacts
  <2>3. Tail(p.requests[n]) \in Seq(Requests) /\ Len(Tail(p.requests[n])) = Len(p.requests[n]) - 1
    BY <1>3, <2>1
  <2>4. /\ r.waiting \in [Names -> Seq(WorkerIds)]
        /\ r.requests \in [Names -> Seq(Requests)]
        /\ \A m \in Names \ {n} : r.waiting[m] = p.waiting[m] /\ r.requests[m] = p.requests[m]
        /\ r.waiting[n] = EraseFirst(p.waiting[n]) /\ r.requests[n] = Tail(p.requests[n])
    <3>1. /\ p.waiting \in [Names -> Seq(WorkerIds)] /\ p.requests \in [Names -> Seq(Requests)]
          /\ n \in Names
      BY <1>1, <1>2 DEF BrokerState
    <3>2. r.waiting = [p.waiting EXCEPT ![n] = EraseFirst(@)] BY <1>1, <1>7
    <3>3. r.requests = [p.requests EXCEPT ![n] = Tail(@)] BY <1>1, <1>7
    <3>4. /\ r.waiting \in [Names -> Seq(WorkerIds)] /\ r.waiting[n] = EraseFirst(p.waiting[n])
          /\ \A m \in Names \ {n} : r.waiting[m] = p.waiting[m]
      BY <2>2, <3>1, <3>2
    <3>5. /\ r.requests \in [Names -> Seq(Requests)] /\ r.requests[n] = Tail(p.requests[n])
          /\ \A m \in Names \ {n} : r.requests[m] = p.requests[m]
      BY <2>3, <3>1, <3>3
    <3> QED BY <3>4, <3>5
  <2>5. r \in BrokerState
    <3>1. r = [p EXCEPT !.requests = r.requests, !.waiting = r.waiting]
      BY <1>1, <1>2, <1>7 DEF BrokerState
    <3> QED BY <3>1, <1>2, <2>4 DEF BrokerState
  <2>6. \A m \in Names : Elements(r.waiting[m]) \subseteq Elements(p.waiting[m])
    BY <2>2, <2>4
  <2>7. Registered(r)
    BY <1>1, <1>7, <2>6 DEF Sound, Registered
  <2>8. Listed(r)
    BY <1>1, <1>7, <2>1, <2>4 DEF Sound, Listed
  <2>9. Sound(r) BY <1>1, <1>7, <2>5, <2>7, <2>8 DEF Sound
  <2>10. Exclusive(r, n)
    <3>1. Len(p.waiting[n]) <= 1 \/ Len(p.requests[n]) <= 1
      <4>1. Len(b.waiting[n]) \in Nat /\ Len(p.waiting[n]) \in Nat BY <1>1, <1>3
      <4> QED BY <1>1, <1>4, <4>1
    <3>2. Len(p.waiting[n]) <= 1 => EraseFirst(p.waiting[n]) = <<>>
      <4> DEFINE e == EraseFirst(p.waiting[n])
      <4>1. e \in Seq(WorkerIds) /\ Len(e) < Len(p.waiting[n]) BY <2>2
      <4> HIDE DEF e
      <4>2. Len(p.waiting[n]) <= 1 => Len(e) = 0 BY <1>3, <4>1
      <4> QED BY <4>1, <4>2 DEF e
    <3>3. Len(p.requests[n]) <= 1 => Tail(p.requests[n]) = <<>>
      <4> DEFINE e == Tail(p.requests[n])
                 l == Len(p.requests[n])
                 k == Len(e)
      <4>1. e \in Seq(Requests) /\ k = l - 1 BY <2>3
      <4>2. k \in Nat /\ l \in Nat BY <1>3, <4>1
      <4> HIDE DEF e, l, k
      <4>3. l <= 1 => k = 0 BY <4>1, <4>2
      <4> QED BY <4>1, <4>3 DEF e, l, k
    <3> QED BY <2>4, <3>1, <3>2, <3>3 DEF Exclusive
  <2>11. \A m \in Names : Exclusive(r, m)
    BY <1>5, <2>4, <2>10 DEF Exclusive
  <2>12. NoDuplicates(p) => NoDuplicates(r)
    <3>1. NoRepeats(p.waiting[n]) => NoRepeats(Tail(p.waiting[n]))
      <4>1. /\ Len(Tail(p.waiting[n])) = Len(p.waiting[n]) - 1
            /\ \A i \in 1 .. Len(p.waiting[n]) - 1 : Tail(p.waiting[n])[i] = p.waiting[n][i + 1]
        BY <1>3, <2>1
      <4>2. \A i \in 1 .. Len(p.waiting[n]) - 1 : i + 1 \in 1 .. Len(p.waiting[n])
        BY <1>3
      <4> QED BY <4>1, <4>2 DEF NoRepeats
    <3> QED BY <1>1, <2>2, <2>4, <3>1 DEF NoDuplicates
  <2> QED BY <1>1, <2>9, <2>11, <2>12 DEF r
<1> QED BY <1>6, <1>7

\* update_expiry changes the age of one identity only.
LEMMA UpdateExpirySound ==
  ASSUME NEW b, Sound(b), NEW id \in WorkerIds
  PROVE  LET r == update_expiry(b, id) IN
         /\ Sound(r)
         /\ r.waiting = b.waiting /\ r.requests = b.requests /\ r.workers = b.workers
         /\ r.service_name = b.service_name /\ r.services = b.services
         /\ r.age = [b.age EXCEPT ![id] = 0]
<1> DEFINE r == update_expiry(b, id)
<1>0. b \in BrokerState BY DEF Sound
<1>1. /\ r.workers = b.workers /\ r.service_name = b.service_name
      /\ r.age = [b.age EXCEPT ![id] = 0]
      /\ r.services = b.services /\ r.waiting = b.waiting /\ r.requests = b.requests
      /\ r.heartbeat_due = b.heartbeat_due /\ r.down = b.down /\ r.short = b.short
  BY <1>0 DEF BrokerState, update_expiry
<1>2. r \in BrokerState
  <2>1. r = [b EXCEPT !.age = r.age] BY <1>0 DEF BrokerState, update_expiry
  <2>2. r.age \in [WorkerIds -> Ages] BY <1>0, <1>1, LivenessAssumption DEF BrokerState, Ages
  <2> HIDE DEF r
  <2> QED BY <2>1, <2>2, <1>0 DEF BrokerState
<1> HIDE DEF r
<1>3. Sound(r) BY <1>1, <1>2 DEF Sound, Registered, Listed
<1> QED BY <1>1, <1>3 DEF r

\* service_require makes the service exist and touches no list.
LEMMA ServiceRequireSound ==
  ASSUME NEW b, Sound(b), NEW n \in Names
  PROVE  LET r == service_require(b, n) IN
         /\ Sound(r) /\ n \in r.services
         /\ r.waiting = b.waiting /\ r.requests = b.requests /\ r.workers = b.workers
         /\ r.service_name = b.service_name /\ r.age = b.age
<1> DEFINE r == service_require(b, n)
<1>0. b \in BrokerState BY DEF Sound
<1>1. /\ r.workers = b.workers /\ r.service_name = b.service_name /\ r.age = b.age
      /\ r.services = b.services \cup {n} /\ r.waiting = b.waiting /\ r.requests = b.requests
      /\ r.heartbeat_due = b.heartbeat_due /\ r.down = b.down /\ r.short = b.short
  BY <1>0 DEF BrokerState, service_require
<1>2. r \in BrokerState
  <2>1. r = [b EXCEPT !.services = r.services] BY <1>0 DEF BrokerState, service_require
  <2>2. r.services \in SUBSET Names BY <1>0, <1>1 DEF BrokerState
  <2> HIDE DEF r
  <2> QED BY <2>1, <2>2, <1>0 DEF BrokerState
<1> HIDE DEF r
<1>3. Sound(r) BY <1>1, <1>2 DEF Sound, Registered, Listed
<1> QED BY <1>1, <1>3 DEF r

\* What push_back makes of a list.
LEMMA AppendFacts ==
  ASSUME NEW S, NEW s \in Seq(S), NEW e \in S
  PROVE  /\ Append(s, e) \in Seq(S) /\ Append(s, e) # <<>>
         /\ Elements(Append(s, e)) = Elements(s) \cup {e}
         /\ NoRepeats(s) /\ e \notin Elements(s) => NoRepeats(Append(s, e))
<1> DEFINE a == Append(s, e)
<1>1. /\ a \in Seq(S) /\ Len(a) = Len(s) + 1 /\ Len(s) \in Nat
      /\ a[Len(s) + 1] = e /\ \A i \in 1 .. Len(s) : a[i] = s[i]
  OBVIOUS
<1> HIDE DEF a
<1>2. \A i \in 1 .. Len(a) : i \in 1 .. Len(s) \/ i = Len(s) + 1 BY <1>1
<1>3. Elements(a) = Elements(s) \cup {e}
  <2>1. Elements(a) \subseteq Elements(s) \cup {e} BY <1>1, <1>2 DEF Elements
  <2>2. Elements(s) \subseteq Elements(a) BY <1>1 DEF Elements
  <2>3. e \in Elements(a)
    <3>1. Len(s) + 1 \in 1 .. Len(a) BY <1>1
    <3> QED BY <3>1, <1>1 DEF Elements
  <2> QED BY <2>1, <2>2, <2>3
<1>4. ASSUME NoRepeats(s), e \notin Elements(s) PROVE NoRepeats(a)
  <2>1. \A i \in 1 .. Len(s) : s[i] # e BY <1>4 DEF Elements
  <2> QED BY <1>1, <1>2, <1>4, <2>1 DEF NoRepeats
<1>5. a # <<>> BY <1>1
<1> QED BY <1>1, <1>3, <1>4, <1>5 DEF a

\* An identity becomes the last of the waiting list of its service, and nothing
\* waits twice if it did not wait before.
LEMMA IdleSound ==
  ASSUME NEW b, Sound(b), NEW id \in b.workers
  PROVE  LET i == Idle(b, id)
             n == b.service_name[id]
         IN  /\ Sound(i) /\ n \in i.services
             /\ NoDuplicates(b) /\ ~ Waiting(b, id) => NoDuplicates(i)
             /\ i.requests = b.requests /\ i.workers = b.workers
             /\ i.age = [b.age EXCEPT ![id] = 0]
             /\ i.waiting[n] = Append(b.waiting[n], id)
             /\ \A m \in Names \ {n} : i.waiting[m] = b.waiting[m]
<1> DEFINE n == b.service_name[id]
           u == update_expiry(b, id)
           s == service_require(u, n)
           i == Idle(b, id)
<1>1. id \in WorkerIds /\ n \in Names BY DEF Sound, BrokerState
<1>2. /\ Sound(u)
      /\ u.waiting = b.waiting /\ u.requests = b.requests /\ u.workers = b.workers
      /\ u.service_name = b.service_name /\ u.age = [b.age EXCEPT ![id] = 0]
  BY <1>1, UpdateExpirySound
<1> HIDE DEF u
<1>3. /\ Sound(s) /\ n \in s.services
      /\ s.waiting = b.waiting /\ s.requests = b.requests /\ s.workers = b.workers
      /\ s.service_name = b.service_name /\ s.age = u.age
  BY <1>1, <1>2, ServiceRequireSound
<1>4. i = [s EXCEPT !.waiting[n] = Append(@, id)] BY DEF Idle, u
<1> HIDE DEF s, i
<1>5. s \in BrokerState BY <1>3 DEF Sound
<1>6. s.waiting[n] \in Seq(WorkerIds) BY <1>1, <1>5 DEF BrokerState
<1>7. ~ Waiting(b, id) => id \notin Elements(s.waiting[n]) BY <1>1, <1>3 DEF Waiting
<1>8. /\ Append(s.waiting[n], id) \in Seq(WorkerIds)
      /\ Elements(Append(s.waiting[n], id)) = Elements(s.waiting[n]) \cup {id}
      /\ NoRepeats(s.waiting[n]) /\ ~ Waiting(b, id) => NoRepeats(Append(s.waiting[n], id))
  BY <1>1, <1>6, <1>7, AppendFacts
<1>9. /\ i.workers = s.workers /\ i.service_name = s.service_name /\ i.age = s.age
      /\ i.services = s.services /\ i.heartbeat_due = s.heartbeat_due /\ i.down = s.down /\ i.short = s.short
      /\ i.requests = s.requests
      /\ i.waiting = [s.waiting EXCEPT ![n] = Append(@, id)]
  BY <1>4, <1>5 DEF BrokerState
<1>10. /\ i.waiting \in [Names -> Seq(WorkerIds)]
       /\ i.waiting[n] = Append(s.waiting[n], id)
       /\ \A m \in Names \ {n} : i.waiting[m] = s.waiting[m]
  BY <1>1, <1>5, <1>8, <1>9 DEF BrokerState
<1>11. i \in BrokerState
  <2>1. i = [s EXCEPT !.waiting = i.waiting] BY <1>4, <1>5 DEF BrokerState
  <2> QED BY <2>1, <1>5, <1>10 DEF BrokerState
<1>12. Registered(i)
  BY <1>1, <1>3, <1>8, <1>9, <1>10 DEF Sound, Registered
<1>13. NoDuplicates(b) /\ ~ Waiting(b, id) => NoDuplicates(i)
  BY <1>3, <1>8, <1>10 DEF NoDuplicates
<1>14. Listed(i) BY <1>3, <1>9, <1>10 DEF Sound, Listed
<1>15. Sound(i) BY <1>3, <1>9, <1>11, <1>12, <1>14 DEF Sound
<1>16. n \in i.services BY <1>3, <1>9
<1> HIDE DEF n
<1>17. /\ i.requests = b.requests /\ i.workers = b.workers
       /\ i.age = [b.age EXCEPT ![id] = 0]
       /\ i.waiting[n] = Append(b.waiting[n], id)
       /\ \A m \in Names \ {n} : i.waiting[m] = b.waiting[m]
  BY <1>2, <1>3, <1>9, <1>10
<1> QED BY <1>13, <1>15, <1>16, <1>17 DEF i, n

\* worker_waiting dispatches to the identity it made idle: no service is left with
\* both a worker and a request.
LEMMA WorkerWaitingSound ==
  ASSUME NEW b, Sound(b), \A m \in Names : Exclusive(b, m),
         NEW id \in b.workers
  PROVE  LET r == worker_waiting(b, id) IN
         /\ Sound(r) /\ \A m \in Names : Exclusive(r, m)
         /\ NoDuplicates(b) /\ ~ Waiting(b, id) => NoDuplicates(r)
<1> DEFINE n == b.service_name[id]
           i == Idle(b, id)
<1>1. worker_waiting(b, id) = service_dispatch(i, n) BY DEF worker_waiting
<1>2. /\ Sound(i) /\ n \in i.services
      /\ NoDuplicates(b) /\ ~ Waiting(b, id) => NoDuplicates(i)
      /\ i.requests = b.requests
      /\ i.waiting[n] = Append(b.waiting[n], id)
      /\ \A m \in Names \ {n} : i.waiting[m] = b.waiting[m]
  BY IdleSound
<1>0. n \in Names /\ id \in WorkerIds /\ b.waiting \in [Names -> Seq(WorkerIds)]
  BY DEF Sound, BrokerState
<1> HIDE DEF i, n
<1>3. \A m \in Names \ {n} : Exclusive(i, m) BY <1>2 DEF Exclusive
<1>4. Len(i.waiting[n]) <= 1 \/ Len(i.requests[n]) <= 1
  <2>1. CASE b.waiting[n] = <<>>
    BY <1>0, <1>2, <2>1
  <2>2. CASE b.requests[n] = <<>>
    BY <1>2, <2>2
  <2> QED BY <1>0, <2>1, <2>2 DEF Exclusive
<1>5. LET r == service_dispatch(i, n) IN
      /\ Sound(r) /\ \A m \in Names : Exclusive(r, m)
      /\ NoDuplicates(i) => NoDuplicates(r)
  BY <1>2, <1>3, <1>4, DispatchSound
<1> QED BY <1>1, <1>2, <1>5

\* A READY of an unknown identity: naming its service cannot change the name of
\* an identity that waits.
LEMMA NamedSound ==
  ASSUME NEW b, Sound(b), NEW id \in WorkerIds, id \notin b.workers, NEW n \in Names
  PROVE  LET r == Named(b, id, n) IN
         /\ Sound(r) /\ id \in r.workers /\ r.service_name[id] = n
         /\ r.waiting = b.waiting /\ r.requests = b.requests
<1> DEFINE q == worker_require(b, id)
           r == Named(b, id, n)
<1>1. /\ Sound(q) /\ id \in q.workers
      /\ q.waiting = b.waiting /\ q.requests = b.requests
  BY RequireSound
<1>2. r = [q EXCEPT !.service_name[id] = n] BY DEF Named
<1> HIDE DEF q, r
<1>3. q \in BrokerState BY <1>1 DEF Sound
<1>4. /\ r.workers = q.workers /\ r.service_name = [q.service_name EXCEPT ![id] = n]
      /\ r.age = q.age /\ r.services = q.services /\ r.waiting = q.waiting
      /\ r.requests = q.requests /\ r.heartbeat_due = q.heartbeat_due /\ r.down = q.down /\ r.short = q.short
  BY <1>2, <1>3 DEF BrokerState
<1>5. /\ r.service_name \in [WorkerIds -> Names] /\ r.service_name[id] = n
      /\ \A w \in WorkerIds \ {id} : r.service_name[w] = q.service_name[w]
  BY <1>3, <1>4 DEF BrokerState
<1>6. r \in BrokerState
  <2>1. r = [q EXCEPT !.service_name = r.service_name] BY <1>2, <1>3 DEF BrokerState
  <2> QED BY <2>1, <1>3, <1>5 DEF BrokerState
<1>7. Registered(r)
  <2> SUFFICES ASSUME NEW m \in Names, NEW w \in Elements(r.waiting[m])
               PROVE  w \in r.workers /\ r.service_name[w] = m
    BY DEF Registered
  <2>1. w \in b.workers BY <1>1, <1>4 DEF Sound, Registered
  <2>2. w \in q.workers /\ q.service_name[w] = m BY <1>1, <1>4 DEF Sound, Registered
  <2>3. w # id /\ w \in WorkerIds BY <2>1 DEF Sound, BrokerState
  <2> QED BY <2>2, <2>3, <1>4, <1>5
<1>8. Sound(r) BY <1>1, <1>4, <1>6, <1>7 DEF Sound, Listed
<1> QED BY <1>1, <1>4, <1>5, <1>8 DEF r

\* Every handler of a message that is whole leaves the record so: no method leaves
\* a queue half served.
Consistent(b) == Sound(b) /\ \A n \in Names : Exclusive(b, n)

\* Deleting identities cannot leave a worker waiting beside a request.
LEMMA DeleteConsistent ==
  ASSUME NEW b, Consistent(b), NEW D
  PROVE  /\ Consistent(worker_delete(b, D))
         /\ NoDuplicates(b) => NoDuplicates(worker_delete(b, D))
<1> DEFINE r == worker_delete(b, D)
<1>1. /\ Sound(r)
      /\ \A n \in Names : r.waiting[n] = Erase(b.waiting[n], D)
      /\ r.requests = b.requests
      /\ NoDuplicates(b) => NoDuplicates(r)
  BY DeleteSound DEF Consistent
<1> HIDE DEF r
<1>2. ASSUME NEW n \in Names PROVE Exclusive(r, n)
  <2>1. b.waiting[n] \in Seq(WorkerIds) BY DEF Consistent, Sound, BrokerState
  <2>2. /\ Erase(b.waiting[n], D) \in Seq(WorkerIds)
        /\ Len(Erase(b.waiting[n], D)) <= Len(b.waiting[n])
    BY <2>1, EraseFacts
  <2>3. b.waiting[n] = <<>> => Erase(b.waiting[n], D) = <<>> BY <2>1, <2>2
  <2> QED BY <1>1, <2>3 DEF Consistent, Exclusive
<1> QED BY <1>1, <1>2 DEF Consistent, r

\* worker_process, command by command, of a message that is whole.
LEMMA WorkerProcessConsistent ==
  ASSUME NEW b, Consistent(b), NEW id \in WorkerIds, NEW cmd \in Commands, NEW n \in Names
  PROVE  LET c == worker_process(b, id, cmd, n) IN
         /\ Consistent(c)
         /\ NoDuplicates(b) /\ (cmd = "REPLY" => ~ Waiting(b, id)) => NoDuplicates(c)
<1> DEFINE r == worker_require(b, id)
           c == worker_process(b, id, cmd, n)
           May == NoDuplicates(b) /\ (cmd = "REPLY" => ~ Waiting(b, id))
<1>0. Sound(b) /\ \A m \in Names : Exclusive(b, m) BY DEF Consistent
<1>0a. cmd # NoFrame /\ n # NoFrame BY FrameAssumption
<1>1. /\ Sound(r) /\ id \in r.workers
      /\ r.waiting = b.waiting /\ r.requests = b.requests
  BY <1>0, RequireSound
<1>2. Consistent(r) /\ (NoDuplicates(b) => NoDuplicates(r))
  BY <1>0, <1>1 DEF Consistent, Exclusive, NoDuplicates
<1>3. /\ Consistent(worker_delete(r, {id}))
      /\ NoDuplicates(b) => NoDuplicates(worker_delete(r, {id}))
  BY <1>2, DeleteConsistent
<1>4. Waiting(r, id) <=> Waiting(b, id) BY <1>1 DEF Waiting
<1>5. CASE NotValid(b, id, cmd)
  BY <1>0a, <1>3, <1>5 DEF worker_process
<1>6. CASE ~ NotValid(b, id, cmd) /\ cmd = "HEARTBEAT"
  <2> DEFINE u == update_expiry(r, id)
  <2>1. Sound(u) /\ u.waiting = r.waiting /\ u.requests = r.requests
    BY <1>1, UpdateExpirySound
  <2>2. Consistent(u) /\ (NoDuplicates(b) => NoDuplicates(u))
    <3> HIDE DEF u, r
    <3> QED BY <1>2, <2>1 DEF Consistent, Exclusive, NoDuplicates
  <2>3. worker_process(b, id, cmd, n) = u BY <1>0a, <1>6 DEF worker_process
  <2> QED BY <2>2, <2>3
<1>7. CASE ~ NotValid(b, id, cmd) /\ cmd = "REPLY"
  <2> DEFINE v == worker_waiting(r, id)
  <2>1. Consistent(v) /\ (NoDuplicates(r) /\ ~ Waiting(r, id) => NoDuplicates(v))
    <3> HIDE DEF r
    <3> QED BY <1>1, <1>2, WorkerWaitingSound DEF Consistent
  <2>2. worker_process(b, id, cmd, n) = v BY <1>0a, <1>7 DEF worker_process
  <2> HIDE DEF v, r
  <2> QED BY <1>2, <1>4, <1>7, <2>1, <2>2
<1>8. CASE ~ NotValid(b, id, cmd) /\ cmd = "READY"
  <2> DEFINE k == Named(b, id, n)
             v == worker_waiting(k, id)
  <2>1. id \notin b.workers BY <1>8 DEF NotValid
  <2>2. Sound(k) /\ id \in k.workers /\ k.waiting = b.waiting /\ k.requests = b.requests
    BY <1>0, <2>1, NamedSound
  <2>3. ~ Waiting(b, id)
    BY <1>0, <2>1 DEF Sound, Registered, Waiting
  <2>4. ~ Waiting(k, id) /\ Consistent(k) /\ (NoDuplicates(b) => NoDuplicates(k))
    <3> HIDE DEF k
    <3> QED BY <1>0, <2>2, <2>3 DEF Waiting, Consistent, Exclusive, NoDuplicates
  <2>5. Consistent(v) /\ (NoDuplicates(k) => NoDuplicates(v))
    <3> HIDE DEF k
    <3> QED BY <2>2, <2>4, WorkerWaitingSound DEF Consistent
  <2>6. worker_process(b, id, cmd, n) = v BY <1>0a, <1>8 DEF worker_process
  <2> HIDE DEF v, k
  <2> QED BY <2>4, <2>5, <2>6
<1>9. CASE ~ NotValid(b, id, cmd) /\ cmd = "DISCONNECT"
  BY <1>0a, <1>3, <1>9 DEF worker_process
<1>10. CASE ~ NotValid(b, id, cmd) /\ cmd = "OTHER"
  BY <1>0a, <1>2, <1>10 DEF worker_process
<1> QED BY <1>5, <1>6, <1>7, <1>8, <1>9, <1>10 DEF Commands

\* A request becomes the last of the queue of its service.
LEMMA QueuedSound ==
  ASSUME NEW b, Sound(b), NEW n \in Names, NEW req \in Requests
  PROVE  LET q == Queued(b, n, req)
         IN  /\ Sound(q) /\ n \in q.services
             /\ q.waiting = b.waiting /\ q.workers = b.workers /\ q.age = b.age
             /\ q.requests = [b.requests EXCEPT ![n] = Append(@, req)]
<1> DEFINE s == service_require(b, n)
           q == Queued(b, n, req)
<1>1. /\ Sound(s) /\ n \in s.services
      /\ s.waiting = b.waiting /\ s.requests = b.requests
      /\ s.workers = b.workers /\ s.age = b.age
  BY ServiceRequireSound
<1>2. q = [s EXCEPT !.requests[n] = Append(@, req)] BY DEF Queued
<1> HIDE DEF s, q
<1>3. s \in BrokerState BY <1>1 DEF Sound
<1>4. /\ q.workers = s.workers /\ q.service_name = s.service_name /\ q.age = s.age
      /\ q.services = s.services /\ q.waiting = s.waiting
      /\ q.heartbeat_due = s.heartbeat_due /\ q.down = s.down /\ q.short = s.short
      /\ q.requests = [s.requests EXCEPT ![n] = Append(@, req)]
  BY <1>2, <1>3 DEF BrokerState
<1>5. Append(s.requests[n], req) \in Seq(Requests)
  <2>1. s.requests[n] \in Seq(Requests) BY <1>3 DEF BrokerState
  <2> QED BY <2>1, AppendFacts
<1>6. /\ q.requests \in [Names -> Seq(Requests)]
      /\ \A m \in Names \ {n} : q.requests[m] = s.requests[m]
  BY <1>3, <1>4, <1>5 DEF BrokerState
<1>7. q \in BrokerState
  <2>1. q = [s EXCEPT !.requests = q.requests] BY <1>2, <1>3 DEF BrokerState
  <2> QED BY <2>1, <1>3, <1>6 DEF BrokerState
<1>8. Registered(q)
  BY <1>1, <1>4 DEF Sound, Registered
<1>9. Listed(q) BY <1>1, <1>4, <1>6 DEF Sound, Listed
<1>10. Sound(q) BY <1>1, <1>4, <1>7, <1>8, <1>9 DEF Sound
<1> QED BY <1>1, <1>4, <1>10 DEF q

\* client_process of a message with a body, for a name the broker answers itself
\* and for a service.
LEMMA ClientProcessConsistent ==
  ASSUME NEW b, Consistent(b), NEW n \in Names, NEW req \in Requests
  PROVE  LET c == client_process(b, n, req) IN
         Consistent(c) /\ (NoDuplicates(b) => NoDuplicates(c))
<1>0. req # NoFrame BY FrameAssumption
<1>1. CASE n \in MmiLike
  <2> DEFINE s == service_require(b, n)
  <2>1. Sound(s) /\ s.waiting = b.waiting /\ s.requests = b.requests
    BY ServiceRequireSound DEF Consistent
  <2> HIDE DEF s
  <2>2. Consistent(s) /\ (NoDuplicates(b) => NoDuplicates(s))
    BY <2>1 DEF Consistent, Exclusive, NoDuplicates
  <2>3. client_process(b, n, req) = s BY <1>0, <1>1 DEF client_process, s
  <2> QED BY <2>2, <2>3
<1>2. CASE n \notin MmiLike
  <2> DEFINE q == Queued(b, n, req)
             c == service_dispatch(q, n)
  <2>1. /\ Sound(q) /\ n \in q.services /\ q.waiting = b.waiting
        /\ q.requests = [b.requests EXCEPT ![n] = Append(@, req)]
    BY QueuedSound DEF Consistent
  <2>2. b \in BrokerState BY DEF Consistent, Sound
  <2> HIDE DEF q
  <2>3. \A m \in Names \ {n} : Exclusive(q, m)
    BY <2>1, <2>2 DEF Consistent, BrokerState, Exclusive
  <2>4. Len(q.waiting[n]) <= 1 \/ Len(q.requests[n]) <= 1
    <3>1. CASE b.waiting[n] = <<>>
      BY <2>1, <3>1
    <3>2. CASE b.requests[n] = <<>>
      <4>1. q.requests[n] = <<req>> BY <2>1, <2>2, <3>2 DEF BrokerState
      <4> QED BY <4>1
    <3> QED BY <3>1, <3>2 DEF Consistent, Exclusive
  <2>5. Consistent(c) /\ (NoDuplicates(q) => NoDuplicates(c))
    BY <2>1, <2>3, <2>4, DispatchSound DEF Consistent
  <2>6. client_process(b, n, req) = c BY <1>0, <1>2 DEF client_process, q
  <2> HIDE DEF c
  <2> QED BY <2>1, <2>5, <2>6 DEF NoDuplicates
<1> QED BY <1>1, <1>2

\* A step that changes only the clock fields of the record keeps the invariant.
LEMMA ClockConsistent ==
  ASSUME NEW b, Consistent(b), NEW a \in [WorkerIds -> Ages], NEW h \in BOOLEAN
  PROVE  LET r == [b EXCEPT !.age = a, !.heartbeat_due = h]
         IN  Consistent(r) /\ (NoDuplicates(b) => NoDuplicates(r))
<1> DEFINE r == [b EXCEPT !.age = a, !.heartbeat_due = h]
<1>1. b \in BrokerState BY DEF Consistent, Sound
<1>2. r \in BrokerState BY <1>1 DEF BrokerState
<1>3. /\ r.workers = b.workers /\ r.service_name = b.service_name /\ r.waiting = b.waiting
      /\ r.requests = b.requests /\ r.services = b.services /\ r.down = b.down /\ r.short = b.short
  BY <1>1 DEF BrokerState
<1> HIDE DEF r
<1>4. Sound(r) BY <1>2, <1>3 DEF Consistent, Sound, Registered, NoDuplicates, Listed
<1>5. Consistent(r) /\ (NoDuplicates(b) => NoDuplicates(r))
  BY <1>3, <1>4 DEF Consistent, Exclusive, NoDuplicates
<1> QED BY <1>5 DEF r

\* The timer deletes the expired workers; every identity it then sends a
\* heartbeat to is registered, so that no assertion fails.
LEMMA TimerConsistent ==
  ASSUME NEW b, Consistent(b)
  PROVE  Consistent(timer(b)) /\ (NoDuplicates(b) => NoDuplicates(timer(b)))
<1> DEFINE p == purge_workers(b)
           h == worker_send_heartbeat(p)
<1>1. Consistent(p) /\ (NoDuplicates(b) => NoDuplicates(p)) BY DeleteConsistent DEF purge_workers
<1> HIDE DEF p
<1>2. p \in BrokerState /\ ~ p.down BY <1>1 DEF Consistent, Sound
<1>3. \A n \in p.services : Elements(p.waiting[n]) \subseteq p.workers
  BY <1>1, <1>2 DEF Consistent, Sound, Registered, BrokerState
<1>4. h = [p EXCEPT !.down = FALSE] BY <1>3 DEF worker_send_heartbeat
<1>5. h = p BY <1>2, <1>4 DEF BrokerState
<1>6. timer(b) = [p EXCEPT !.age = p.age, !.heartbeat_due = FALSE]
  <2>1. timer(b) = [h EXCEPT !.heartbeat_due = FALSE] BY DEF timer, p
  <2> HIDE DEF h
  <2> QED BY <2>1, <1>2, <1>5 DEF BrokerState
<1>7. p.age \in [WorkerIds -> Ages] BY <1>2 DEF BrokerState
<1> DEFINE r == [p EXCEPT !.age = p.age, !.heartbeat_due = FALSE]
<1>8. Consistent(r) /\ (NoDuplicates(p) => NoDuplicates(r))
  BY <1>1, <1>7, FALSE \in BOOLEAN, ClockConsistent
<1> HIDE DEF r
<1> QED BY <1>1, <1>6, <1>8 DEF r

\* One interval passes.
LEMMA TickConsistent ==
  ASSUME Consistent(broker), Tick
  PROVE  Consistent(broker') /\ (NoDuplicates(broker) => NoDuplicates(broker'))
<1> DEFINE a == [w \in WorkerIds |-> IF w \in broker.workers /\ broker.age[w] <= Liveness
                                     THEN broker.age[w] + 1 ELSE broker.age[w]]
           t == [broker EXCEPT !.age = a, !.heartbeat_due = TRUE]
<1>1. broker \in BrokerState BY DEF Consistent, Sound
<1>2. broker' = t BY <1>1 DEF Tick, BrokerState
<1>3. a \in [WorkerIds -> Ages] BY <1>1, LivenessAssumption DEF BrokerState, Ages
<1> HIDE DEF a
<1>4. Consistent(t) /\ (NoDuplicates(broker) => NoDuplicates(t))
  BY <1>3, TRUE \in BOOLEAN, ClockConsistent
<1> HIDE DEF t
<1> QED BY <1>2, <1>4

\* A broker process starts with empty tables.
LEMMA EmptyConsistent == Consistent(EmptyBroker) /\ NoDuplicates(EmptyBroker)
<1>1. EmptyBroker \in BrokerState
  BY NamesAssumption, LivenessAssumption DEF EmptyBroker, BrokerState, Ages
<1>2. /\ EmptyBroker.waiting = [n \in Names |-> <<>>]
      /\ EmptyBroker.requests = [n \in Names |-> <<>>]
      /\ ~ EmptyBroker.down /\ ~ EmptyBroker.short
  BY DEF EmptyBroker
<1>3. Elements(<<>>) = {} /\ NoRepeats(<<>>) BY DEF Elements, NoRepeats
<1> QED BY <1>1, <1>2, <1>3 DEF Consistent, Sound, Registered, NoDuplicates, Listed, Exclusive

\* The invariant.  The broker that a short message has ended holds the tables that
\* it held before; no identity waits twice.
Tables(b) ==
    /\ b \in BrokerState
    /\ Consistent([b EXCEPT !.short = FALSE])
    /\ NoDuplicates(b)

\* What the invariant says of the record itself.
LEMMA TablesFacts ==
  ASSUME NEW b, Tables(b)
  PROVE  /\ b \in BrokerState /\ Registered(b) /\ NoDuplicates(b) /\ Listed(b) /\ ~ b.down
         /\ \A n \in Names : Exclusive(b, n)
         /\ ~ b.short => Consistent(b)
<1> DEFINE r == [b EXCEPT !.short = FALSE]
<1>1. /\ r.workers = b.workers /\ r.service_name = b.service_name /\ r.waiting = b.waiting
      /\ r.requests = b.requests /\ r.services = b.services /\ r.down = b.down
      /\ ~ b.short => r = b
  BY DEF Tables, BrokerState
<1>2. Consistent(r) BY DEF Tables
<1> HIDE DEF r
<1> QED BY <1>1, <1>2 DEF Tables, Consistent, Sound, Registered, Listed, Exclusive

\* A record that every method keeps consistent, before and after a short message.
LEMMA WholeTables ==
  ASSUME NEW b, Consistent(b), NoDuplicates(b)
  PROVE  Tables(b) /\ Tables(CutShort(b))
<1>1. b \in BrokerState /\ b.short = FALSE BY DEF Consistent, Sound, BrokerState
<1>2. [b EXCEPT !.short = FALSE] = b BY <1>1 DEF BrokerState
<1> DEFINE c == CutShort(b)
<1>3. /\ c \in BrokerState /\ [c EXCEPT !.short = FALSE] = b
      /\ c.waiting = b.waiting
  BY <1>1 DEF CutShort, BrokerState
<1>4. NoDuplicates(c) BY <1>3 DEF NoDuplicates
<1> QED BY <1>1, <1>2, <1>3, <1>4 DEF Tables

\* Every message of a worker, whole or short.
LEMMA WorkerMessageTables ==
  ASSUME NEW b, Consistent(b), NoDuplicates(b), NEW id \in WorkerIds,
         NEW cmd \in Commands \cup {NoFrame}, NEW n \in Names \cup {NoFrame},
         cmd = "REPLY" => ~ Waiting(b, id)
  PROVE  Tables(worker_process(b, id, cmd, n))
<1> DEFINE r == worker_require(b, id)
           c == worker_process(b, id, cmd, n)
<1>0. Sound(b) BY DEF Consistent
<1>1. Consistent(r) /\ NoDuplicates(r)
  <2>1. Sound(r) /\ r.waiting = b.waiting /\ r.requests = b.requests BY <1>0, RequireSound
  <2> HIDE DEF r
  <2> QED BY <2>1 DEF Consistent, Exclusive, NoDuplicates
<1>2. CASE cmd = NoFrame
  <2>1. c = CutShort(b) BY <1>2 DEF worker_process
  <2> QED BY <2>1, WholeTables
<1>3. CASE cmd # NoFrame /\ n \in Names
  <2>1. cmd \in Commands BY <1>3
  <2>2. Consistent(c) /\ NoDuplicates(c) BY <1>3, <2>1, WorkerProcessConsistent
  <2> HIDE DEF c
  <2>3. Tables(c) BY <2>2, WholeTables
  <2> QED BY <2>3 DEF c
<1>4. CASE cmd # NoFrame /\ n = NoFrame
  <2>1. CASE NotValid(b, id, cmd)
    <3>1. c = worker_delete(r, {id}) BY <1>4, <2>1 DEF worker_process
    <3> HIDE DEF c, r
    <3>2. Consistent(c) /\ NoDuplicates(c) BY <1>1, <3>1, DeleteConsistent
    <3>3. Tables(c) BY <3>2, WholeTables
    <3> QED BY <3>3 DEF c
  <2>2. CASE ~ NotValid(b, id, cmd) /\ cmd \in {"REPLY", "READY"}
    <3>1. c = CutShort(r) BY <1>4, <2>2 DEF worker_process
    <3> HIDE DEF r
    <3> QED BY <1>1, <3>1, WholeTables
  <2>3. CASE ~ NotValid(b, id, cmd) /\ cmd \notin {"REPLY", "READY"}
    <3>0. NoName \in Names BY NamesAssumption
    <3>1. c = worker_process(b, id, cmd, NoName)
      BY <1>4, <2>3 DEF worker_process
    <3>2. cmd \in Commands BY <1>4
    <3>3. Consistent(c) /\ NoDuplicates(c)
      <4> HIDE DEF c
      <4> QED BY <2>3, <3>0, <3>1, <3>2, WorkerProcessConsistent
    <3> HIDE DEF c
    <3>4. Tables(c) BY <3>3, WholeTables
    <3> QED BY <3>4 DEF c
  <2> QED BY <2>1, <2>2, <2>3
<1> QED BY <1>2, <1>3, <1>4

\* Every step of the broker and of its environment keeps the invariant.
LEMMA StepConsistent ==
  ASSUME Tables(broker), [Next]_broker
  PROVE  Tables(broker)'
<1>0. /\ broker \in BrokerState /\ NoDuplicates(broker)
      /\ ~ broker.short => Consistent(broker)
  BY TablesFacts
<1>1. CASE ~ broker.short /\ WorkerMessage
  <2>1. PICK id \in WorkerIds, cmd \in Commands \cup {NoFrame}, n \in Names \cup {NoFrame} :
          /\ MaySend(id, cmd)
          /\ broker' = worker_process(broker, id, cmd, n)
    BY <1>1 DEF WorkerMessage
  <2>2. Tables(worker_process(broker, id, cmd, n))
    BY <1>0, <1>1, <2>1, WorkerMessageTables DEF MaySend
  <2> QED BY <2>1, <2>2
<1>2. CASE ~ broker.short /\ ClientMessage
  <2>1. PICK n \in Names, req \in Requests \cup {NoFrame} :
          broker' = client_process(broker, n, req)
    BY <1>2 DEF ClientMessage
  <2>2. CASE req = NoFrame
    <3>1. broker' = CutShort(broker) BY <2>1, <2>2 DEF client_process
    <3>2. Tables(CutShort(broker)) BY <1>0, <1>2, WholeTables
    <3> QED BY <3>1, <3>2
  <2>3. CASE req \in Requests
    <3>1. /\ Consistent(client_process(broker, n, req))
          /\ NoDuplicates(client_process(broker, n, req))
      BY <1>0, <1>2, <2>3, ClientProcessConsistent
    <3>2. Tables(client_process(broker, n, req)) BY <3>1, WholeTables
    <3> QED BY <2>1, <3>2
  <2> QED BY <2>2, <2>3
<1>3. CASE ~ broker.short /\ Timer
  <2>1. Consistent(timer(broker)) /\ NoDuplicates(timer(broker))
    BY <1>0, <1>3, TimerConsistent
  <2>2. Tables(timer(broker)) BY <2>1, WholeTables
  <2> QED BY <1>3, <2>2 DEF Timer
<1>4. CASE ~ broker.short /\ Tick
  <2>1. Consistent(broker') /\ NoDuplicates(broker') BY <1>0, <1>4, TickConsistent
  <2> QED BY <2>1, WholeTables
<1>5. CASE Restart
  <2>1. Tables(EmptyBroker) BY EmptyConsistent, WholeTables
  <2> QED BY <1>5, <2>1 DEF Restart
<1>6. CASE UNCHANGED broker
  BY <1>6
<1> QED BY <1>1, <1>2, <1>3, <1>4, <1>5, <1>6 DEF Next

\* The tables of the broker are consistent after every handler, one that a short
\* message ends included.
THEOREM BrokerConsistent == Spec => []Tables(broker)
<1>1. Init => Tables(broker) BY EmptyConsistent, WholeTables DEF Init
<1>2. Tables(broker) /\ [Next]_broker => Tables(broker)' BY StepConsistent
<1> QED BY <1>1, <1>2, PTL DEF Spec

\* The members of mdbroker keep their types and the ages their bound.
THEOREM TypeCorrect == Spec => []TypeOK
<1>1. Tables(broker) => TypeOK BY DEF Tables, TypeOK
<1> QED BY <1>1, BrokerConsistent, PTL

\* A waiting identity is a key of workers_, registered for that very service.
THEOREM WaitingIsRegistered == Spec => []RegisteredWaiting
<1>1. Tables(broker) => RegisteredWaiting
  BY TablesFacts DEF Registered, RegisteredWaiting
<1> QED BY <1>1, BrokerConsistent, PTL

\* No identity is in a waiting list twice.
THEOREM WaitsOnce == Spec => []NoDuplicateWaiting
<1>1. Tables(broker) => NoDuplicateWaiting
  BY DEF Tables, NoDuplicates, NoDuplicateWaiting
<1> QED BY <1>1, BrokerConsistent, PTL

\* No request lies in a queue while a worker of its service is idle.
THEOREM NoIdleWhileQueued == Spec => []NeverBothWaitingAndQueued
<1>1. Tables(broker) => NeverBothWaitingAndQueued
  BY TablesFacts DEF Exclusive, NeverBothWaitingAndQueued
<1> QED BY <1>1, BrokerConsistent, PTL

\* What is queued or waiting is reachable from services_.
THEOREM QueuesReachable == Spec => []QueuesAreServices
<1>1. Tables(broker) => QueuesAreServices
  BY TablesFacts DEF Listed, QueuesAreServices
<1> QED BY <1>1, BrokerConsistent, PTL

\* No handler looks up an identity that is not a key of workers_, so that neither
\* worker_delete nor worker_send fails its Ensures and workers_.at() never throws.
\* A message short of a frame does end the broker: that is the field short.
THEOREM LookupsNeverFail == Spec => []LookupsSucceed
<1>1. Tables(broker) => LookupsSucceed
  BY TablesFacts DEF LookupsSucceed
<1> QED BY <1>1, BrokerConsistent, PTL

-----------------------------------------------------------------------------
(***************************************************************************)
(* What a step of the broker may do to its two lists of a service: the     *)
(* action properties of module MDBroker, for every value of the constants. *)
(*                                                                         *)
(* They are about the middle of a handler, where the purge, the choice of  *)
(* the worker and the dispatch follow each other.  Dispatching is taking k *)
(* elements from the front of both lists after the expired workers have    *)
(* been erased (DispatchShape); that the lists were not both non-empty     *)
(* before the handler makes k at most one.                                 *)
(***************************************************************************)

\* The three properties of a step from b to c, for the service n.
ServedBy(b, c, n) ==
    {id \in Elements(b.waiting[n]) \cap c.workers : id \notin Elements(c.waiting[n])}

LongestFirst(b, c, n) ==
    /\ \A i, j \in 1 .. Len(b.waiting[n]) :
          i < j /\ b.waiting[n][j] \in ServedBy(b, c, n) =>
             b.waiting[n][i] \notin Elements(c.waiting[n])
    /\ \A k \in 1 .. Len(c.waiting[n]) :
          c.waiting[n][k] \notin Elements(b.waiting[n]) => k = Len(c.waiting[n])

OnlyLive(b, c, n) == \A id \in ServedBy(b, c, n) : ~ Expired(b, id)

Fifo(b, c, n) ==
    \/ c.requests[n] = b.requests[n]
    \/ b.requests[n] # <<>> /\ c.requests[n] = Rest(b.requests[n], 1)
    \/ /\ Len(c.requests[n]) = Len(b.requests[n]) + 1
       /\ SubSeq(c.requests[n], 1, Len(b.requests[n])) = b.requests[n]

Orderly(b, c, n) == LongestFirst(b, c, n) /\ OnlyLive(b, c, n) /\ Fifo(b, c, n)

\* Deleting identities serves nobody and leaves the requests alone.
LEMMA ErasingIsOrderly ==
  ASSUME NEW b, Sound(b), NEW c, NEW n \in Names, NEW D,
         c.requests[n] = b.requests[n],
         c.waiting[n] = Erase(b.waiting[n], D),
         c.workers \cap D = {}
  PROVE  Orderly(b, c, n)
<1>1. b.waiting[n] \in Seq(WorkerIds) BY DEF Sound, BrokerState
<1>2. Elements(c.waiting[n]) \subseteq Elements(b.waiting[n]) BY <1>1, EraseFacts
<1>3. \A id \in Elements(b.waiting[n]) : id \notin D => id \in Elements(c.waiting[n])
  BY <1>1, EraseKeepsOrder DEF KeepsOrder, Elements
<1>4. ServedBy(b, c, n) = {} BY <1>3 DEF ServedBy
<1>5. \A k \in 1 .. Len(c.waiting[n]) : c.waiting[n][k] \in Elements(b.waiting[n])
  BY <1>2 DEF Elements
<1> QED BY <1>4, <1>5 DEF Orderly, LongestFirst, OnlyLive, Fifo

\* A step that leaves the lists of the service alone.
LEMMA QuietIsOrderly ==
  ASSUME NEW b, NEW c, NEW n,
         c.requests[n] = b.requests[n], c.waiting[n] = b.waiting[n]
  PROVE  Orderly(b, c, n)
<1>1. ServedBy(b, c, n) = {} BY DEF ServedBy
<1>2. \A k \in 1 .. Len(c.waiting[n]) : c.waiting[n][k] \in Elements(b.waiting[n])
  BY DEF Elements
<1> QED BY <1>1, <1>2 DEF Orderly, LongestFirst, OnlyLive, Fifo

\* service_dispatch, when no identity waits twice: the expired identities leave,
\* k elements go from the front of both lists of the service, and no other service
\* is touched.
LEMMA DispatchShape ==
  ASSUME NEW b, Sound(b), NoDuplicates(b), NEW n \in b.services
  PROVE  LET c == service_dispatch(b, n)
             D == {w \in b.workers : Expired(b, w)}
             e == Erase(b.waiting[n], D)
         IN  /\ c.workers = b.workers \ D
             /\ \A m \in Names \ {n} : /\ c.waiting[m] = Erase(b.waiting[m], D)
                                       /\ c.requests[m] = b.requests[m]
             /\ \E k \in 0 .. Len(e) :
                  /\ k \in 0 .. Len(b.requests[n])
                  /\ c.waiting[n] = Rest(e, k)
                  /\ c.requests[n] = Rest(b.requests[n], k)
<1> DEFINE D == {w \in b.workers : Expired(b, w)}
           p == purge_workers(b)
           c == service_dispatch(b, n)
<1>1. /\ n \in Names /\ Sound(p) /\ NoDuplicates(p)
      /\ p.workers = b.workers \ D /\ p.requests = b.requests
      /\ \A m \in Names : p.waiting[m] = Erase(b.waiting[m], D)
      /\ ~ Serving(p, n) => c = p
      /\ Serving(p, n) =>
            /\ c.workers = p.workers
            /\ c.requests = [p.requests EXCEPT ![n] = Tail(@)]
            /\ c.waiting = [p.waiting EXCEPT ![n] = EraseFirst(@)]
  BY DispatchFields
<1> HIDE DEF D, p, c
<1>2. p \in BrokerState BY <1>1 DEF Sound
<1>3. p.waiting[n] \in Seq(WorkerIds) /\ p.requests[n] \in Seq(Requests)
  BY <1>1, <1>2 DEF BrokerState
<1>4. /\ c.workers = p.workers
      /\ \A m \in Names \ {n} : c.waiting[m] = p.waiting[m] /\ c.requests[m] = p.requests[m]
  BY <1>1, <1>2 DEF BrokerState
<1>5. \E k \in 0 .. Len(p.waiting[n]) :
        /\ k \in 0 .. Len(p.requests[n])
        /\ c.waiting[n] = Rest(p.waiting[n], k)
        /\ c.requests[n] = Rest(p.requests[n], k)
  <2>1. CASE ~ Serving(p, n)
    <3>1. c = p BY <1>1, <2>1
    <3>2. 0 \in 0 .. Len(p.waiting[n]) /\ 0 \in 0 .. Len(p.requests[n]) BY <1>3
    <3>3. p.waiting[n] = Rest(p.waiting[n], 0) /\ p.requests[n] = Rest(p.requests[n], 0)
      BY <1>3 DEF Rest
    <3> QED BY <3>1, <3>2, <3>3
  <2>2. CASE Serving(p, n)
    <3>1. p.waiting[n] # <<>> /\ p.requests[n] # <<>> BY <2>2 DEF Serving
    <3>2. 1 \in 0 .. Len(p.waiting[n]) /\ 1 \in 0 .. Len(p.requests[n]) BY <1>3, <3>1
    <3>3. EraseFirst(p.waiting[n]) = Tail(p.waiting[n])
      <4>1. NoRepeats(p.waiting[n]) BY <1>1 DEF NoDuplicates
      <4> QED BY <1>3, <3>1, <4>1, EraseFirstFacts
    <3>4. c.waiting[n] = Tail(p.waiting[n]) /\ c.requests[n] = Tail(p.requests[n])
      BY <1>1, <1>2, <2>2, <3>3 DEF BrokerState
    <3>5. Tail(p.waiting[n]) = Rest(p.waiting[n], 1) /\ Tail(p.requests[n]) = Rest(p.requests[n], 1)
      BY <1>3 DEF Rest
    <3> QED BY <3>2, <3>4, <3>5
  <2> QED BY <2>1, <2>2
<1>10. /\ c.workers = b.workers \ D
       /\ \A m \in Names \ {n} : /\ c.waiting[m] = Erase(b.waiting[m], D)
                                 /\ c.requests[m] = b.requests[m]
       /\ \E l \in 0 .. Len(Erase(b.waiting[n], D)) :
            /\ l \in 0 .. Len(b.requests[n])
            /\ c.waiting[n] = Rest(Erase(b.waiting[n], D), l)
            /\ c.requests[n] = Rest(b.requests[n], l)
  BY <1>1, <1>4, <1>5
<1> QED BY <1>10, Zenon DEF c, D

\* Erasing and then taking from the front: whoever is taken had nobody before it
\* that is left, and the last element of the list can only be the last that is left.
LEMMA TakenFromFront ==
  ASSUME NEW S, NEW s \in Seq(S), NoRepeats(s), NEW D,
         NEW k \in 0 .. Len(Erase(s, D))
  PROVE  LET r == Rest(Erase(s, D), k) IN
         /\ r \in Seq(S) /\ Elements(r) \subseteq Elements(s)
         /\ \A i, j \in 1 .. Len(s) :
              i < j /\ s[j] \notin D /\ s[j] \notin Elements(r) => s[i] \notin Elements(r)
         /\ \A l \in 1 .. Len(r) : r[l] = s[Len(s)] => l = Len(r)
<1> DEFINE e == Erase(s, D)
           r == Rest(e, k)
<1>1. /\ e \in Seq(S) /\ NoRepeats(e) /\ Elements(e) \subseteq Elements(s) \ D
  BY EraseFacts
<1>2. KeepsOrder(s, D, e)
  BY EraseKeepsOrder
<1> HIDE DEF e
<1>3. /\ r \in Seq(S) /\ Len(r) = Len(e) - k
      /\ \A i \in 1 .. Len(e) - k : r[i] = e[k + i]
      /\ Elements(r) \subseteq Elements(e)
  BY <1>1, RestFacts DEF e
<1> HIDE DEF r
<1>4. Len(e) \in Nat /\ Len(s) \in Nat /\ Len(r) \in Nat /\ k \in 0 .. Len(e)
  BY <1>1, <1>3 DEF e
<1>5. ASSUME NEW i \in 1 .. Len(s), NEW j \in 1 .. Len(s), i < j, s[j] \notin D,
             s[j] \notin Elements(r), s[i] \in Elements(r)
      PROVE  FALSE
  <2>1. PICK x \in 1 .. Len(r) : s[i] = r[x] BY <1>5 DEF Elements
  <2>2. s[i] \notin D BY <1>1, <1>3, <1>5
  <2>3. PICK l \in 1 .. Len(e) :
             /\ e[l] = s[j]
             /\ \A a \in 1 .. j - 1 : s[a] \notin D => \E m \in 1 .. l - 1 : e[m] = s[a]
    BY <1>2, <1>5 DEF KeepsOrder
  <2>4. i \in 1 .. j - 1 BY <1>5
  <2>5. PICK m \in 1 .. l - 1 : e[m] = s[i] BY <2>2, <2>3, <2>4
  <2>6. k + x \in 1 .. Len(e) /\ e[k + x] = s[i]
    <3>1. x \in Nat /\ k \in Nat /\ x >= 1 /\ x <= Len(r) BY <1>4, <2>1
    <3>2. x \in 1 .. Len(e) - k /\ k + x \in 1 .. Len(e) BY <1>3, <1>4, <3>1
    <3>3. r[x] = e[k + x] BY <1>3, <3>2
    <3> QED BY <2>1, <3>2, <3>3
  <2>7. m = k + x BY <1>1, <1>4, <2>3, <2>5, <2>6 DEF NoRepeats
  <2>8. l - k \in 1 .. Len(r) /\ k + (l - k) = l
    <3>1. l \in Nat /\ l <= Len(e) /\ m < l /\ k \in Nat /\ x >= 1 BY <1>4, <2>1, <2>3, <2>5
    <3>2. l - k >= 1 BY <2>7, <3>1
    <3> QED BY <1>3, <1>4, <3>1, <3>2
  <2>9. r[l - k] = s[j] BY <1>3, <2>3, <2>8
  <2> QED BY <1>5, <2>8, <2>9 DEF Elements
<1>6. ASSUME NEW x \in 1 .. Len(r), r[x] = s[Len(s)], x # Len(r)
      PROVE  FALSE
  <2>1. /\ k + x \in 1 .. Len(e) /\ k + (x + 1) \in 1 .. Len(e)
        /\ r[x] = e[k + x] /\ r[x + 1] = e[k + (x + 1)]
    <3>1. /\ x \in Nat /\ k \in Nat /\ x >= 1 /\ x < Len(r) BY <1>4, <1>6
    <3>2. x \in 1 .. Len(e) - k /\ x + 1 \in 1 .. Len(e) - k BY <1>3, <1>4, <3>1
    <3>3. k + x \in 1 .. Len(e) /\ k + (x + 1) \in 1 .. Len(e) BY <1>4, <3>1, <3>2
    <3> QED BY <1>3, <3>2, <3>3
  <2>2. e[k + x] \notin D /\ e[k + (x + 1)] \in Elements(s) \ D
    BY <1>1, <2>1 DEF Elements
  <2>3. PICK a \in 1 .. Len(s) : e[k + (x + 1)] = s[a] BY <2>2 DEF Elements
  <2>4. a # Len(s)
    <3>1. k + x # k + (x + 1) BY <1>4
    <3>2. e[k + x] # e[k + (x + 1)] BY <1>1, <2>1, <3>1 DEF NoRepeats
    <3> QED BY <1>6, <2>1, <2>3, <3>2
  <2>5. Len(s) \in 1 .. Len(s) /\ a \in 1 .. Len(s) - 1 BY <1>4, <2>3, <2>4
  <2>6. PICK l \in 1 .. Len(e) :
             /\ e[l] = s[Len(s)]
             /\ \A i \in 1 .. Len(s) - 1 : s[i] \notin D => \E m \in 1 .. l - 1 : e[m] = s[i]
    BY <1>2, <1>6, <2>1, <2>2, <2>5 DEF KeepsOrder
  <2>7. PICK m \in 1 .. l - 1 : e[m] = s[a] BY <2>2, <2>3, <2>5, <2>6
  <2>8. l = k + x BY <1>1, <1>6, <2>1, <2>6 DEF NoRepeats
  <2>9. m = k + (x + 1) BY <1>1, <1>4, <2>1, <2>3, <2>6, <2>7 DEF NoRepeats
  <2> QED BY <1>4, <2>7, <2>8, <2>9
<1>7. Elements(r) \subseteq Elements(s) BY <1>1, <1>3
<1> QED BY <1>3, <1>5, <1>6, <1>7 DEF r, e

\* Taking none leaves a list as it is, and so does looking at it before a push_back.
LEMMA PrefixFacts ==
  ASSUME NEW S, NEW s \in Seq(S), NEW e \in S
  PROVE  /\ Rest(s, 0) = s
         /\ SubSeq(Append(s, e), 1, Len(s)) = s
         /\ s = <<>> => Rest(Append(s, e), 1) = s
<1>1. Rest(s, 0) = s BY DEF Rest
<1>2. SubSeq(Append(s, e), 1, Len(s)) = s OBVIOUS
<1>3. s = <<>> => Rest(Append(s, e), 1) = s BY DEF Rest
<1> QED BY <1>1, <1>2, <1>3

\* What the two lists of the service n are when service_dispatch is called: one
\* request more, or one worker more that did not wait.
OneMore(b, i, n) ==
    \/ /\ i.waiting[n] = b.waiting[n]
       /\ \E req \in Requests : i.requests[n] = Append(b.requests[n], req)
    \/ /\ i.requests[n] = b.requests[n]
       /\ \E id \in WorkerIds \ Elements(b.waiting[n]) : i.waiting[n] = Append(b.waiting[n], id)

\* With one list empty before, the dispatch has at most one request to take.
LEMMA DispatchIsFifo ==
  ASSUME NEW b, Consistent(b), NEW i, Sound(i), NEW n \in Names, OneMore(b, i, n),
         NEW c, NEW k \in Nat, k <= Len(i.waiting[n]), k <= Len(i.requests[n]),
         c.requests[n] = Rest(i.requests[n], k)
  PROVE  Fifo(b, c, n)
<1> DEFINE q == b.requests[n]
           w == b.waiting[n]
<1>1. q \in Seq(Requests) /\ w \in Seq(WorkerIds) BY DEF Consistent, Sound, BrokerState
<1>2. q = <<>> \/ w = <<>> BY DEF Consistent, Exclusive
<1>3. Len(q) \in Nat /\ Len(w) \in Nat BY <1>1
<1>4. CASE /\ i.waiting[n] = w
           /\ \E req \in Requests : i.requests[n] = Append(q, req)
  <2>1. PICK req \in Requests : i.requests[n] = Append(q, req) BY <1>4
  <2>2. /\ Rest(Append(q, req), 0) = Append(q, req)
        /\ SubSeq(Append(q, req), 1, Len(q)) = q
        /\ q = <<>> => Rest(Append(q, req), 1) = q
        /\ Len(Append(q, req)) = Len(q) + 1
    <3>1. Append(q, req) \in Seq(Requests) /\ Len(Append(q, req)) = Len(q) + 1
      BY <1>1
    <3>2. Rest(Append(q, req), 0) = Append(q, req) BY <3>1, PrefixFacts
    <3>3. /\ SubSeq(Append(q, req), 1, Len(q)) = q
          /\ q = <<>> => Rest(Append(q, req), 1) = q
      BY <1>1, PrefixFacts
    <3> QED BY <3>1, <3>2, <3>3
  <2>3. q = <<>> => Len(q) = 0 BY <1>1
  <2>4. w = <<>> => Len(w) = 0 BY <1>1
  <2>5. k = 0 \/ (k = 1 /\ q = <<>>)
    <3>1. k <= Len(w) /\ k <= Len(q) + 1 BY <1>4, <2>1, <2>2
    <3> HIDE DEF q, w
    <3> QED BY <1>2, <1>3, <2>3, <2>4, <3>1
  <2> QED BY <2>1, <2>2, <2>5 DEF Fifo
<1>5. CASE /\ i.requests[n] = q
           /\ \E id \in WorkerIds \ Elements(w) : i.waiting[n] = Append(w, id)
  <2>1. Len(i.waiting[n]) = Len(w) + 1 BY <1>1, <1>5
  <2>2. k = 0 \/ (k = 1 /\ q # <<>>)
    BY <1>1, <1>2, <1>3, <1>5, <2>1
  <2>3. Rest(q, 0) = q BY <1>1 DEF Rest
  <2> QED BY <1>5, <2>2, <2>3 DEF Fifo
<1> QED BY <1>4, <1>5 DEF OneMore

\* The worker that has been idle longest is taken.
LEMMA DispatchIsLongestFirst ==
  ASSUME NEW b, Sound(b), NEW i, Sound(i), NoDuplicates(i), NEW n \in Names, OneMore(b, i, n),
         NEW D, NEW c, c.workers \cap D = {},
         NEW k \in 0 .. Len(Erase(i.waiting[n], D)),
         c.waiting[n] = Rest(Erase(i.waiting[n], D), k)
  PROVE  LongestFirst(b, c, n)
<1> DEFINE q == b.waiting[n]
           s == i.waiting[n]
           r == c.waiting[n]
<1>1. q \in Seq(WorkerIds) /\ s \in Seq(WorkerIds) /\ NoRepeats(s)
  BY DEF Sound, NoDuplicates, BrokerState
<1>2. /\ Len(q) \in Nat /\ Len(q) <= Len(s)
      /\ \A j \in 1 .. Len(q) : s[j] = q[j]
      /\ Elements(s) \ Elements(q) \subseteq {s[Len(s)]}
  <2>1. CASE s = q
    <3> HIDE DEF s, q
    <3> QED BY <1>1, <2>1
  <2>2. CASE \E id \in WorkerIds \ Elements(q) : s = Append(q, id)
    <3>1. PICK id \in WorkerIds \ Elements(q) : s = Append(q, id) BY <2>2
    <3>2. Elements(Append(q, id)) = Elements(q) \cup {id} BY <1>1, AppendFacts
    <3> HIDE DEF s, q
    <3>3. /\ Len(s) = Len(q) + 1 /\ Len(q) \in Nat /\ s[Len(q) + 1] = id
          /\ \A j \in 1 .. Len(q) : s[j] = q[j]
      BY <1>1, <3>1
    <3> QED BY <3>1, <3>2, <3>3
  <2> QED BY <2>1, <2>2 DEF OneMore
<1>3. /\ Elements(r) \subseteq Elements(s)
      /\ \A x, y \in 1 .. Len(s) :
           x < y /\ s[y] \notin D /\ s[y] \notin Elements(r) => s[x] \notin Elements(r)
      /\ \A l \in 1 .. Len(r) : r[l] = s[Len(s)] => l = Len(r)
  BY <1>1, TakenFromFront
<1> HIDE DEF q, s, r
<1>4. ASSUME NEW x \in 1 .. Len(q), NEW y \in 1 .. Len(q), x < y,
             q[y] \in c.workers, q[y] \notin Elements(r)
      PROVE  q[x] \notin Elements(r)
  <2>1. x \in 1 .. Len(s) /\ y \in 1 .. Len(s) /\ s[x] = q[x] /\ s[y] = q[y]
    <3>1. Len(s) \in Nat BY <1>1
    <3> QED BY <1>2, <3>1
  <2>2. s[y] \notin D BY <1>4, <2>1
  <2> QED BY <1>3, <1>4, <2>1, <2>2
<1>5. ASSUME NEW l \in 1 .. Len(r), r[l] \notin Elements(q)
      PROVE  l = Len(r)
  <2>1. r[l] \in Elements(s) BY <1>3 DEF Elements
  <2> QED BY <1>2, <1>3, <1>5, <2>1
<1> QED BY <1>4, <1>5 DEF LongestFirst, ServedBy, q, r

\* A handler that adds to one of the two lists and dispatches.
LEMMA DispatchIsOrderly ==
  ASSUME NEW b, Consistent(b), NEW i, Sound(i), NoDuplicates(i),
         NEW n \in i.services, OneMore(b, i, n),
         \A m \in Names \ {n} : i.waiting[m] = b.waiting[m] /\ i.requests[m] = b.requests[m],
         \A m \in Names : \A w \in Elements(b.waiting[m]) : w \in i.workers /\ i.age[w] = b.age[w]
  PROVE  \A m \in Names : Orderly(b, service_dispatch(i, n), m)
<1> DEFINE c == service_dispatch(i, n)
           D == {w \in i.workers : Expired(i, w)}
           e == Erase(i.waiting[n], D)
<1>0. n \in Names BY DEF Sound, BrokerState
<1>1. /\ c.workers = i.workers \ D
      /\ \A m \in Names \ {n} : /\ c.waiting[m] = Erase(i.waiting[m], D)
                                /\ c.requests[m] = i.requests[m]
      /\ \E k \in 0 .. Len(e) :
           /\ k \in 0 .. Len(i.requests[n])
           /\ c.waiting[n] = Rest(e, k)
           /\ c.requests[n] = Rest(i.requests[n], k)
  BY DispatchShape
<1>2. \A m \in Names : OnlyLive(b, c, m)
  <2> SUFFICES ASSUME NEW m \in Names, NEW w \in ServedBy(b, c, m)
               PROVE  ~ Expired(b, w)
    BY DEF OnlyLive
  <2>1. w \in Elements(b.waiting[m]) /\ w \in c.workers BY DEF ServedBy
  <2>2. ~ Expired(i, w) BY <1>1, <2>1
  <2> QED BY <2>1, <2>2 DEF Expired
<1> HIDE DEF D, c
<1>3. \A m \in Names \ {n} : Orderly(b, c, m)
  <2> SUFFICES ASSUME NEW m \in Names \ {n} PROVE Orderly(b, c, m) OBVIOUS
  <2>1. /\ c.requests[m] = b.requests[m] /\ c.waiting[m] = Erase(b.waiting[m], D)
        /\ c.workers \cap D = {}
    BY <1>1
  <2> QED BY <2>1, ErasingIsOrderly DEF Consistent
<1>4. PICK k \in 0 .. Len(e) :
           /\ k \in 0 .. Len(i.requests[n])
           /\ c.waiting[n] = Rest(e, k)
           /\ c.requests[n] = Rest(i.requests[n], k)
  BY <1>1
<1>5. Len(e) <= Len(i.waiting[n]) /\ Len(e) \in Nat /\ Len(i.waiting[n]) \in Nat
  <2>1. i.waiting[n] \in Seq(WorkerIds) BY <1>0 DEF Sound, BrokerState
  <2>2. e \in Seq(WorkerIds) /\ Len(e) <= Len(i.waiting[n]) BY <2>1, EraseFacts
  <2> HIDE DEF e
  <2> QED BY <2>1, <2>2
<1>6. LongestFirst(b, c, n)
  <2>1. c.workers \cap D = {} BY <1>1
  <2> QED BY <1>0, <1>4, <2>1, DispatchIsLongestFirst DEF Consistent
<1>7. Fifo(b, c, n)
  <2>1. Len(i.requests[n]) \in Nat BY <1>0 DEF Sound, BrokerState
  <2> HIDE DEF e
  <2>2. k \in Nat /\ k <= Len(i.waiting[n]) /\ k <= Len(i.requests[n])
    BY <1>4, <1>5, <2>1
  <2> QED BY <1>0, <1>4, <2>2, DispatchIsFifo
<1> QED BY <1>2, <1>3, <1>6, <1>7 DEF Orderly, c

\* worker_waiting, of a record k that differs from b in what is known of id alone.
LEMMA WaitingIsOrderly ==
  ASSUME NEW b, Consistent(b), NoDuplicates(b), NEW k, Sound(k),
         NEW id \in k.workers, ~ Waiting(b, id),
         k.waiting = b.waiting, k.requests = b.requests, b.workers \subseteq k.workers,
         \A w \in WorkerIds \ {id} : k.age[w] = b.age[w]
  PROVE  \A m \in Names : Orderly(b, worker_waiting(k, id), m)
<1> DEFINE n == k.service_name[id]
           i == Idle(k, id)
<1>1. ~ Waiting(k, id) /\ NoDuplicates(k) BY DEF Waiting, NoDuplicates
<1>2. /\ Sound(i) /\ NoDuplicates(i) /\ n \in i.services
      /\ i.requests = k.requests /\ i.workers = k.workers
      /\ i.age = [k.age EXCEPT ![id] = 0]
      /\ i.waiting[n] = Append(k.waiting[n], id)
      /\ \A m \in Names \ {n} : i.waiting[m] = k.waiting[m]
  BY <1>1, IdleSound
<1>3. id \in WorkerIds /\ n \in Names /\ k.age \in [WorkerIds -> Ages]
  BY DEF Sound, BrokerState
<1>4. worker_waiting(k, id) = service_dispatch(i, n) BY DEF worker_waiting
<1> HIDE DEF i, n
<1>5. OneMore(b, i, n)
  <2>1. id \notin Elements(b.waiting[n]) BY <1>3 DEF Waiting
  <2> QED BY <1>2, <1>3, <2>1 DEF OneMore
<1>6. \A m \in Names : \A w \in Elements(b.waiting[m]) : w \in i.workers /\ i.age[w] = b.age[w]
  <2> SUFFICES ASSUME NEW m \in Names, NEW w \in Elements(b.waiting[m])
               PROVE  w \in i.workers /\ i.age[w] = b.age[w]
    OBVIOUS
  <2>1. w # id BY DEF Waiting
  <2>2. w \in b.workers /\ w \in WorkerIds
    BY DEF Consistent, Sound, Registered, BrokerState
  <2>3. i.age[w] = k.age[w] BY <1>2, <1>3, <2>1, <2>2
  <2> QED BY <1>2, <2>1, <2>2, <2>3
<1>7. \A m \in Names \ {n} : i.waiting[m] = b.waiting[m] /\ i.requests[m] = b.requests[m]
  BY <1>2
<1>8. Sound(i) /\ NoDuplicates(i) /\ n \in i.services BY <1>2
<1>9. \A m \in Names : Orderly(b, service_dispatch(i, n), m)
  BY <1>5, <1>6, <1>7, <1>8, DispatchIsOrderly
<1> QED BY <1>4, <1>9

\* worker_process, command by command, of a message that is whole.
LEMMA WorkerProcessOrderly ==
  ASSUME NEW b, Consistent(b), NoDuplicates(b),
         NEW id \in WorkerIds, NEW cmd \in Commands, NEW n \in Names,
         cmd = "REPLY" => ~ Waiting(b, id)
  PROVE  \A m \in Names : Orderly(b, worker_process(b, id, cmd, n), m)
<1> DEFINE r == worker_require(b, id)
           c == worker_process(b, id, cmd, n)
<1>0. Sound(b) BY DEF Consistent
<1>0a. cmd # NoFrame /\ n # NoFrame BY FrameAssumption
<1>1. Sound(r) /\ id \in r.workers /\ r.waiting = b.waiting /\ r.requests = b.requests
  BY <1>0, RequireSound
<1>2. ASSUME c = worker_delete(r, {id}) PROVE \A m \in Names : Orderly(b, c, m)
  <2> HIDE DEF r, c
  <2>1. /\ \A m \in Names : c.waiting[m] = Erase(b.waiting[m], {id})
        /\ c.requests = b.requests /\ c.workers \cap {id} = {}
    BY <1>1, <1>2, DeleteSound
  <2> QED BY <1>0, <2>1, ErasingIsOrderly
<1>3. CASE NotValid(b, id, cmd)
  BY <1>0a, <1>2, <1>3 DEF worker_process
<1>4. CASE ~ NotValid(b, id, cmd) /\ cmd = "HEARTBEAT"
  <2>1. c = update_expiry(r, id) BY <1>0a, <1>4 DEF worker_process
  <2> HIDE DEF r, c
  <2>2. c.waiting = b.waiting /\ c.requests = b.requests
    BY <1>1, <2>1, UpdateExpirySound
  <2> QED BY <2>2, QuietIsOrderly DEF c
<1>5. CASE ~ NotValid(b, id, cmd) /\ cmd = "REPLY"
  <2>1. c = worker_waiting(r, id) BY <1>0a, <1>5 DEF worker_process
  <2>2. r = b BY <1>5 DEF NotValid, worker_require
  <2>3. ~ Waiting(b, id) BY <1>5
  <2> HIDE DEF r, c
  <2> QED BY <1>0, <1>1, <2>1, <2>2, <2>3, WaitingIsOrderly DEF c
<1>6. CASE ~ NotValid(b, id, cmd) /\ cmd = "READY"
  <2> DEFINE k == Named(b, id, n)
  <2>1. c = worker_waiting(k, id) BY <1>0a, <1>6 DEF worker_process
  <2>2. id \notin b.workers BY <1>6 DEF NotValid
  <2>3. Sound(k) /\ id \in k.workers /\ k.waiting = b.waiting /\ k.requests = b.requests
    BY <1>0, <2>2, NamedSound
  <2>4. ~ Waiting(b, id) BY <1>0, <2>2 DEF Sound, Registered, Waiting
  <2>5. k.workers = b.workers \cup {id} /\ k.age = [b.age EXCEPT ![id] = 0]
    <3>1. r.workers = b.workers \cup {id} /\ r.age = [b.age EXCEPT ![id] = 0]
      BY <1>0, <2>2 DEF Sound, BrokerState, worker_require
    <3>2. r \in BrokerState BY <1>1 DEF Sound
    <3>3. k = [r EXCEPT !.service_name[id] = n] BY DEF Named
    <3> HIDE DEF r, k
    <3>4. k.workers = r.workers /\ k.age = r.age BY <3>2, <3>3 DEF BrokerState
    <3> QED BY <3>1, <3>4
  <2>6. \A w \in WorkerIds \ {id} : k.age[w] = b.age[w]
    BY <1>0, <2>5 DEF Sound, BrokerState
  <2>7. b.workers \subseteq k.workers BY <2>5
  <2> HIDE DEF k, c
  <2>8. \A m \in Names : Orderly(b, worker_waiting(k, id), m)
    BY <2>3, <2>4, <2>6, <2>7, WaitingIsOrderly
  <2> QED BY <2>1, <2>8 DEF c
<1>7. CASE ~ NotValid(b, id, cmd) /\ cmd = "DISCONNECT"
  BY <1>0a, <1>2, <1>7 DEF worker_process
<1>8. CASE ~ NotValid(b, id, cmd) /\ cmd = "OTHER"
  <2>1. c = r BY <1>0a, <1>8 DEF worker_process
  <2> HIDE DEF r, c
  <2> QED BY <1>1, <2>1, QuietIsOrderly DEF c
<1> QED BY <1>3, <1>4, <1>5, <1>6, <1>7, <1>8 DEF Commands

\* client_process of a message with a body.
LEMMA ClientProcessOrderly ==
  ASSUME NEW b, Consistent(b), NoDuplicates(b), NEW n \in Names, NEW req \in Requests
  PROVE  \A m \in Names : Orderly(b, client_process(b, n, req), m)
<1>0. Sound(b) /\ req # NoFrame BY FrameAssumption DEF Consistent
<1>1. CASE n \in MmiLike
  <2> DEFINE c == service_require(b, n)
  <2>1. c.waiting = b.waiting /\ c.requests = b.requests BY <1>0, ServiceRequireSound
  <2> HIDE DEF c
  <2>2. \A m \in Names : Orderly(b, c, m) BY <2>1, QuietIsOrderly
  <2> QED BY <1>0, <1>1, <2>2 DEF client_process, c
<1>2. CASE n \notin MmiLike
  <2> DEFINE q == Queued(b, n, req)
  <2>1. /\ Sound(q) /\ n \in q.services
        /\ q.waiting = b.waiting /\ q.workers = b.workers /\ q.age = b.age
        /\ q.requests = [b.requests EXCEPT ![n] = Append(@, req)]
    BY <1>0, QueuedSound
  <2> HIDE DEF q
  <2>2. b.requests \in [Names -> Seq(Requests)] BY <1>0 DEF Sound, BrokerState
  <2>2a. NoDuplicates(q) BY <2>1 DEF NoDuplicates
  <2>3. OneMore(b, q, n) BY <2>1, <2>2 DEF OneMore
  <2>4. \A m \in Names \ {n} : q.waiting[m] = b.waiting[m] /\ q.requests[m] = b.requests[m]
    BY <2>1, <2>2
  <2>5. \A m \in Names : \A w \in Elements(b.waiting[m]) : w \in q.workers /\ q.age[w] = b.age[w]
    BY <1>0, <2>1 DEF Sound, Registered
  <2>6. \A m \in Names : Orderly(b, service_dispatch(q, n), m)
    BY <2>1, <2>2a, <2>3, <2>4, <2>5, DispatchIsOrderly
  <2> QED BY <1>0, <1>2, <2>6 DEF client_process, q
<1> QED BY <1>1, <1>2

\* The timer erases the expired identities and touches no request.
LEMMA TimerOrderly ==
  ASSUME NEW b, Consistent(b)
  PROVE  \A m \in Names : Orderly(b, timer(b), m)
<1> DEFINE D == {w \in b.workers : Expired(b, w)}
           p == purge_workers(b)
           c == timer(b)
<1>0. Sound(b) BY DEF Consistent
<1>1. p = worker_delete(b, D) BY DEF purge_workers
<1> HIDE DEF D
<1>2. /\ Sound(p) /\ p.requests = b.requests /\ p.workers = b.workers \ D
      /\ \A m \in Names : p.waiting[m] = Erase(b.waiting[m], D)
  BY <1>0, <1>1, DeleteSound
<1>3. c.workers = p.workers /\ c.waiting = p.waiting /\ c.requests = p.requests
  <2>1. p \in BrokerState BY <1>2 DEF Sound
  <2>2. c = [worker_send_heartbeat(p) EXCEPT !.heartbeat_due = FALSE] BY DEF timer
  <2> HIDE DEF p, c
  <2> QED BY <2>1, <2>2 DEF worker_send_heartbeat, BrokerState
<1> HIDE DEF p, c
<1>4. /\ \A m \in Names : c.waiting[m] = Erase(b.waiting[m], D) /\ c.requests[m] = b.requests[m]
      /\ c.workers \cap D = {}
  BY <1>2, <1>3
<1>5. \A m \in Names : Orderly(b, c, m) BY <1>0, <1>4, ErasingIsOrderly
<1> QED BY <1>5 DEF c

\* A broker started again has served nobody.
LEMMA RestartServesNobody ==
  ASSUME NEW b, NEW n \in Names
  PROVE  LongestFirst(b, EmptyBroker, n) /\ OnlyLive(b, EmptyBroker, n)
<1>1. EmptyBroker.workers = {} /\ EmptyBroker.waiting[n] = <<>> BY DEF EmptyBroker
<1>2. ServedBy(b, EmptyBroker, n) = {} BY <1>1 DEF ServedBy
<1> QED BY <1>1, <1>2 DEF LongestFirst, OnlyLive

\* A message short of a frame ends the broker with its lists as they were.
LEMMA ShortIsOrderly ==
  ASSUME NEW b, Consistent(b), NEW c, c \in {CutShort(b)} \cup
           {CutShort(worker_require(b, id)) : id \in WorkerIds}
  PROVE  \A n \in Names : Orderly(b, c, n)
<1>1. c.waiting = b.waiting /\ c.requests = b.requests
  <2>0. Sound(b) BY DEF Consistent
  <2>1. ASSUME NEW r, r \in BrokerState
        PROVE  CutShort(r).waiting = r.waiting /\ CutShort(r).requests = r.requests
    BY <2>1 DEF CutShort, BrokerState
  <2>2. ASSUME NEW id \in WorkerIds
        PROVE  /\ worker_require(b, id) \in BrokerState
               /\ worker_require(b, id).waiting = b.waiting
               /\ worker_require(b, id).requests = b.requests
    BY <2>0, RequireSound DEF Sound
  <2>3. CASE c = CutShort(b) BY <2>0, <2>1, <2>3 DEF Sound
  <2>4. CASE \E id \in WorkerIds : c = CutShort(worker_require(b, id))
    <3>1. PICK id \in WorkerIds : c = CutShort(worker_require(b, id)) BY <2>4
    <3> QED BY <2>1, <2>2, <3>1
  <2> QED BY <2>3, <2>4
<1> QED BY <1>1, QuietIsOrderly

\* Every step, the end of the process aside.
LEMMA StepOrderly ==
  ASSUME Tables(broker), [Next]_broker
  PROVE  (\A n \in Names : Orderly(broker, broker', n)) \/ broker' = EmptyBroker
<1>0. /\ broker \in BrokerState /\ NoDuplicates(broker)
      /\ ~ broker.short => Consistent(broker)
  BY TablesFacts
<1>1. CASE ~ broker.short /\ WorkerMessage
  <2>1. PICK id \in WorkerIds, cmd \in Commands \cup {NoFrame}, n \in Names \cup {NoFrame} :
          /\ MaySend(id, cmd)
          /\ broker' = worker_process(broker, id, cmd, n)
    BY <1>1 DEF WorkerMessage
  <2>2. CASE cmd = NoFrame
    <3>1. broker' = CutShort(broker) BY <2>1, <2>2 DEF worker_process
    <3> QED BY <1>0, <1>1, <3>1, ShortIsOrderly
  <2>3. CASE cmd # NoFrame /\ cmd \in {"REPLY", "READY"} /\ n = NoFrame /\ ~ NotValid(broker, id, cmd)
    <3>1. broker' = CutShort(worker_require(broker, id)) BY <2>1, <2>3 DEF worker_process
    <3> QED BY <1>0, <1>1, <3>1, ShortIsOrderly
  <2>4. CASE cmd # NoFrame /\ ~ (cmd \in {"REPLY", "READY"} /\ n = NoFrame /\ ~ NotValid(broker, id, cmd))
    <3> DEFINE m == IF n \in Names THEN n ELSE NoName
    <3>1. m \in Names /\ cmd \in Commands BY <2>4, NamesAssumption
    <3>2. broker' = worker_process(broker, id, cmd, m)
      BY <2>1, <2>4, FrameAssumption DEF worker_process
    <3> HIDE DEF m
    <3>3. \A x \in Names : Orderly(broker, worker_process(broker, id, cmd, m), x)
      BY <1>0, <1>1, <2>1, <3>1, WorkerProcessOrderly DEF MaySend
    <3> QED BY <3>2, <3>3
  <2> QED BY <2>2, <2>3, <2>4
<1>2. CASE ~ broker.short /\ ClientMessage
  <2>1. PICK n \in Names, req \in Requests \cup {NoFrame} :
          broker' = client_process(broker, n, req)
    BY <1>2 DEF ClientMessage
  <2>2. CASE req = NoFrame
    <3>1. broker' = CutShort(broker) BY <2>1, <2>2 DEF client_process
    <3> QED BY <1>0, <1>2, <3>1, ShortIsOrderly
  <2>3. CASE req \in Requests
    BY <1>0, <1>2, <2>1, <2>3, ClientProcessOrderly
  <2> QED BY <2>2, <2>3
<1>3. CASE ~ broker.short /\ Timer
  BY <1>0, <1>3, TimerOrderly DEF Timer
<1>4. CASE ~ broker.short /\ Tick
  <2>2. broker'.waiting = broker.waiting /\ broker'.requests = broker.requests
    BY <1>0, <1>4 DEF Tick, BrokerState
  <2> QED BY <2>2, QuietIsOrderly
<1>5. CASE Restart
  BY <1>5 DEF Restart
<1>6. CASE UNCHANGED broker
  BY <1>6, QuietIsOrderly
<1> QED BY <1>1, <1>2, <1>3, <1>4, <1>5, <1>6 DEF Next

\* Idle workers are a queue: a request goes to the worker of its service that has
\* been idle longest, whatever expires, disconnects or answers in between.
THEOREM LongestIdleServed == Spec => LongestIdleFirst
<1>1. Tables(broker) /\ [Next]_broker =>
        [\A n \in Names : LongestFirst(broker, broker', n)]_broker
  BY StepOrderly, RestartServesNobody DEF Orderly
<1>2. [\A n \in Names : LongestFirst(broker, broker', n)]_broker =>
        [\A n \in Names : LET q == broker.waiting[n]  r == broker'.waiting[n] IN
          /\ \A i, j \in 1 .. Len(q) :
                i < j /\ q[j] \in Dispatched(n) => q[i] \notin Elements(r)
          /\ \A k \in 1 .. Len(r) : r[k] \notin Elements(q) => k = Len(r)]_broker
  BY Zenon DEF LongestFirst, ServedBy, Dispatched
<1> QED BY <1>1, <1>2, BrokerConsistent, PTL DEF Spec, LongestIdleFirst

\* No request is handed to a worker whose expiry has passed, although workers expire
\* without any event.
THEOREM OnlyLiveServed == Spec => DispatchOnlyToLive
<1>1. Tables(broker) /\ [Next]_broker =>
        [\A n \in Names : OnlyLive(broker, broker', n)]_broker
  BY StepOrderly, RestartServesNobody DEF Orderly
<1>2. [\A n \in Names : OnlyLive(broker, broker', n)]_broker =>
        [\A n \in Names : \A id \in Dispatched(n) : ~ Expired(broker, id)]_broker
  BY Zenon DEF OnlyLive, ServedBy, Dispatched
<1> QED BY <1>1, <1>2, BrokerConsistent, PTL DEF Spec, DispatchOnlyToLive

\* While the broker lives, no request of a service is lost, overtaken or doubled in
\* its queue.
THEOREM RequestsInOrder == Spec => FifoRequests
<1>1. Tables(broker) /\ [Next]_broker =>
        [\A n \in Names : LET q == broker.requests[n]  r == broker'.requests[n] IN
          \/ r = q
          \/ q # <<>> /\ r = Rest(q, 1)
          \/ Len(r) = Len(q) + 1 /\ SubSeq(r, 1, Len(q)) = q
          \/ broker' = EmptyBroker]_broker
  BY StepOrderly, Zenon DEF Orderly, Fifo
<1> QED BY <1>1, BrokerConsistent, PTL DEF Spec, FifoRequests

-----------------------------------------------------------------------------
(***************************************************************************)
(* What the handlers send.                                                 *)
(***************************************************************************)

Outgoing == [to : WorkerIds, cmd : {"REQUEST"}, body : Requests]
       \cup [to : WorkerIds, cmd : {"HEARTBEAT", "DISCONNECT"}, body : {NoRequest}]

\* A handler leads from b to c and sends S: a request goes to an identity that
\* waited, or has just become idle (F); no other begins to wait or becomes known.
Serves(b, c, S, F) ==
    /\ S \subseteq Outgoing
    /\ \A m \in S : m.cmd = "REQUEST" => Waiting(b, m.to) \/ m.to \in F
    /\ \A id \in WorkerIds : Waiting(c, id) => Waiting(b, id) \/ id \in F
    /\ c.workers \subseteq b.workers \cup F

\* Who is sent a request waits no more.  This is what is lost when an identity
\* waits twice.
Frees(c, S) == \A m \in S : m.cmd = "REQUEST" => ~ Waiting(c, m.to)

\* Of the requests M, the queues r and the messages S together hold no more than
\* the queues q did.
Moves(q, r, S, M) ==
    /\ None(q, M) => None(r, M) /\ \A m \in S : m.body \notin M
    /\ One(q, M) => /\ One(r, M)
                    /\ \A m, l \in S : m.body \in M /\ l.body \in M => m.to = l.to
                    /\ None(r, M) \/ \A m \in S : m.body \notin M

LEMMA NothingMoves ==
  ASSUME NEW q, NEW S, NEW M, \A m \in S : m.body \notin M
  PROVE  Moves(q, q, S, M)
BY DEF Moves

\* The dispatch gives the request it takes out of the queue to the identity whose
\* entry it takes off the waiting list.
LEMMA DispatchSent ==
  ASSUME NEW b, Sound(b), NEW n \in b.services, NEW M
  PROVE  LET c == service_dispatch(b, n)
             S == DispatchSends(b, n)
         IN  /\ Serves(b, c, S, {}) /\ Moves(b.requests, c.requests, S, M)
             /\ NoDuplicates(b) => Frees(c, S)
<1> DEFINE D == {w \in b.workers : Expired(b, w)}
           p == purge_workers(b)
           c == service_dispatch(b, n)
           S == DispatchSends(b, n)
           v == p.waiting[n]
           q == p.requests[n]
           one == ToWorker(Head(v), "REQUEST", Head(q))
<1>1. /\ n \in Names /\ Sound(p) /\ (NoDuplicates(b) => NoDuplicates(p))
      /\ p.workers = b.workers \ D /\ p.requests = b.requests
      /\ \A m \in Names : p.waiting[m] = Erase(b.waiting[m], D)
      /\ ~ Serving(p, n) => c = p
      /\ Serving(p, n) =>
            /\ c.workers = p.workers
            /\ c.requests = [p.requests EXCEPT ![n] = Tail(@)]
            /\ c.waiting = [p.waiting EXCEPT ![n] = EraseFirst(@)]
  BY DispatchFields
<1>2. S = IF Serving(p, n) THEN {one} ELSE {}
  BY DEF DispatchSends
<1> HIDE DEF D, p, c, S
<1>3. p \in BrokerState /\ b \in BrokerState BY <1>1 DEF Sound
<1>4. /\ v \in Seq(WorkerIds) /\ q \in Seq(Requests)
      /\ b.requests[n] = q /\ DOMAIN b.requests = Names
  BY <1>1, <1>3 DEF BrokerState
<1>5. \A m \in Names : Elements(p.waiting[m]) \subseteq Elements(b.waiting[m])
  <2> TAKE m \in Names
  <2>1. b.waiting[m] \in Seq(WorkerIds) BY <1>3 DEF BrokerState
  <2> QED BY <1>1, <2>1, EraseFacts
<1>6. \A id : Waiting(p, id) => Waiting(b, id) BY <1>5 DEF Waiting
<1>7. CASE ~ Serving(p, n)
  <2>1. c = p /\ S = {} BY <1>1, <1>2, <1>7
  <2>2. Serves(b, c, S, {}) /\ Frees(c, S) BY <1>1, <1>6, <2>1 DEF Serves, Frees
  <2>3. Moves(b.requests, c.requests, S, M) BY <1>1, <2>1, NothingMoves
  <2> QED BY <2>2, <2>3 DEF c, S
<1>8. CASE Serving(p, n)
  <2>1. v # <<>> /\ q # <<>> BY <1>8 DEF Serving
  <2>2. S = {one} /\ one.to = Head(v) /\ one.cmd = "REQUEST" /\ one.body = Head(q)
    BY <1>2, <1>8 DEF ToWorker
  <2>3. /\ Head(v) \in WorkerIds /\ Head(v) \in Elements(v) /\ Head(q) \in Requests
        /\ Head(q) = q[1] /\ Head(v) = v[1] /\ 1 \in 1 .. Len(q) /\ 1 \in 1 .. Len(v)
    BY <1>4, <2>1 DEF Elements
  <2>4. one \in Outgoing BY <2>3 DEF ToWorker, Outgoing
  <2>5. /\ Elements(EraseFirst(v)) \subseteq Elements(v)
        /\ NoRepeats(v) => EraseFirst(v) = Tail(v)
    BY <1>4, <2>1, EraseFirstFacts
  <2>6. /\ c.waiting[n] = EraseFirst(v) /\ c.requests[n] = Tail(q)
        /\ \A m \in Names \ {n} : c.waiting[m] = p.waiting[m] /\ c.requests[m] = b.requests[m]
        /\ DOMAIN c.requests = Names
    <3>1. /\ p.waiting \in [Names -> Seq(WorkerIds)] /\ p.requests \in [Names -> Seq(Requests)]
          /\ n \in Names /\ p.requests = b.requests
      BY <1>1, <1>3 DEF BrokerState
    <3>2. c.waiting = [p.waiting EXCEPT ![n] = EraseFirst(@)] BY <1>1, <1>8
    <3>3. c.requests = [p.requests EXCEPT ![n] = Tail(@)] BY <1>1, <1>8
    <3>4. /\ c.waiting[n] = EraseFirst(v)
          /\ \A m \in Names \ {n} : c.waiting[m] = p.waiting[m]
      BY <3>1, <3>2
    <3>5. /\ c.requests[n] = Tail(q) /\ DOMAIN c.requests = Names
          /\ \A m \in Names \ {n} : c.requests[m] = b.requests[m]
      BY <3>1, <3>3
    <3> QED BY <3>4, <3>5
  <2>7. \A id : Waiting(c, id) => Waiting(b, id)
    <3>1. \A m \in Names : Elements(c.waiting[m]) \subseteq Elements(p.waiting[m])
      BY <2>5, <2>6
    <3> QED BY <1>6, <3>1 DEF Waiting
  <2>8. Waiting(b, Head(v)) BY <1>1, <1>6, <2>3 DEF Waiting
  <2> HIDE DEF one
  <2>9. Serves(b, c, S, {})
    BY <1>1, <1>8, <2>2, <2>4, <2>7, <2>8 DEF Serves
  <2>10. ASSUME NoDuplicates(b) PROVE Frees(c, S)
    <3>1. NoRepeats(v) BY <1>1, <2>10 DEF NoDuplicates
    <3>2. Head(v) \notin Elements(Tail(v))
      <4>1. /\ Len(Tail(v)) = Len(v) - 1 /\ Len(v) \in Nat
            /\ \A i \in 1 .. Len(v) - 1 : Tail(v)[i] = v[i + 1]
        BY <1>4, <2>1
      <4> SUFFICES ASSUME NEW i \in 1 .. Len(Tail(v)), Tail(v)[i] = Head(v) PROVE FALSE
        BY DEF Elements
      <4>2. i + 1 \in 1 .. Len(v) /\ i + 1 # 1 /\ v[i + 1] = v[1] BY <2>3, <4>1
      <4> QED BY <2>3, <3>1, <4>2 DEF NoRepeats
    <3>3. ASSUME NEW x \in Names, Head(v) \in Elements(c.waiting[x]) PROVE FALSE
      <4>1. Head(v) \in Elements(p.waiting[x])
        BY <2>5, <2>6, <3>3
      <4>2. x = n
        <5>1. Registered(p) /\ n \in Names BY <1>1 DEF Sound
        <5>2. Head(v) \in Elements(p.waiting[n]) BY <2>3
        <5> QED BY <4>1, <5>1, <5>2 DEF Registered
      <4> QED BY <2>5, <2>6, <3>1, <3>2, <3>3, <4>2
    <3> QED BY <2>2, <3>3 DEF Frees, Waiting
  <2> HIDE DEF v, q
  <2>11. Shrink(b.requests, c.requests) /\ \A m \in Names : Len(b.requests[m]) \in Nat
    <3>1. ASSUME NEW m \in Names PROVE Part(b.requests[m], c.requests[m]) /\ Len(b.requests[m]) \in Nat
      <4>0. b.requests[m] \in Seq(Requests) BY <1>3 DEF BrokerState
      <4>1. CASE m # n
        BY <2>6, <4>0, <4>1, Parts
      <4>2. CASE m = n
        <5>1. Part(q, Tail(q)) BY <1>4, <2>1, Parts
        <5>2. b.requests[m] = q /\ c.requests[m] = Tail(q) BY <1>4, <2>6, <4>2
        <5>3. Len(b.requests[m]) \in Nat BY <4>0
        <5> QED BY <5>1, <5>2, <5>3
      <4> QED BY <4>1, <4>2
    <3> QED BY <1>4, <2>6, <3>1, Zenon DEF Shrink
  <2>12. (None(b.requests, M) => None(c.requests, M)) /\ (One(b.requests, M) => One(c.requests, M))
    BY <1>4, <2>11, ShrinkKeeps
  <2>13. ASSUME None(b.requests, M) PROVE \A m \in S : m.body \notin M
    BY <1>1, <1>4, <2>2, <2>3, <2>13 DEF None
  <2>14. ASSUME One(b.requests, M), Head(q) \in M,
                NEW x \in Names, NEW j \in 1 .. Len(c.requests[x]), c.requests[x][j] \in M
         PROVE  FALSE
    <3>1. \E y \in Names : \E a \in 1 .. Len(b.requests[y]) :
            b.requests[y][a] \in M /\ (y = n => a # 1)
      <4>1. CASE x = n
        <5>1. /\ Len(Tail(q)) = Len(q) - 1 /\ Len(q) \in Nat
              /\ \A i \in 1 .. Len(q) - 1 : Tail(q)[i] = q[i + 1]
          BY <1>4, <2>1
        <5>2. j + 1 \in 1 .. Len(q) /\ j + 1 # 1 /\ q[j + 1] \in M
          BY <2>6, <2>14, <4>1, <5>1
        <5> QED BY <1>1, <1>4, <5>2
      <4>2. CASE x # n
        BY <2>6, <2>14, <4>2
      <4> QED BY <4>1, <4>2
    <3>2. PICK y \in Names : \E a \in 1 .. Len(b.requests[y]) :
            b.requests[y][a] \in M /\ (y = n => a # 1)
      BY <3>1
    <3>3. PICK a \in 1 .. Len(b.requests[y]) :
            b.requests[y][a] \in M /\ (y = n => a # 1)
      BY <3>2
    <3>4. /\ n \in DOMAIN b.requests /\ y \in DOMAIN b.requests
          /\ 1 \in 1 .. Len(b.requests[n]) /\ a \in 1 .. Len(b.requests[y])
          /\ b.requests[n][1] \in M /\ b.requests[y][a] \in M
      BY <1>1, <1>4, <2>3, <2>14, <3>3
    <3>5. n = y /\ 1 = a
      BY <2>14, <3>4, Zenon DEF One
    <3> QED BY <3>3, <3>5
  <2>15. ASSUME One(b.requests, M)
         PROVE  /\ \A m, l \in S : m.body \in M /\ l.body \in M => m.to = l.to
                /\ None(c.requests, M) \/ \A m \in S : m.body \notin M
    <3>1. \A m, l \in S : m.to = l.to BY <2>2
    <3>2. None(c.requests, M) \/ Head(q) \notin M
      BY <2>6, <2>14, <2>15 DEF None
    <3> QED BY <2>2, <3>1, <3>2
  <2>16. Moves(b.requests, c.requests, S, M)
    BY <2>12, <2>13, <2>15 DEF Moves
  <2> QED BY <2>9, <2>10, <2>16 DEF c, S
<1> QED BY <1>7, <1>8

\* The requests of a handler that touches no queue and tells workers at most that
\* they are alive or unknown.
LEMMA SignalsSent ==
  ASSUME NEW b, NEW c, NEW S, NEW F, NEW M, NoRequest \notin M,
         c.requests = b.requests,
         S \subseteq [to : WorkerIds, cmd : {"HEARTBEAT", "DISCONNECT"}, body : {NoRequest}],
         \A m \in Names : Elements(c.waiting[m]) \subseteq Elements(b.waiting[m]),
         c.workers \subseteq b.workers
  PROVE  Serves(b, c, S, F) /\ Moves(b.requests, c.requests, S, M) /\ Frees(c, S)
<1>1. \A m \in S : m.body \notin M /\ m.cmd # "REQUEST" /\ m \in Outgoing
  BY DEF Outgoing
<1>2. \A id \in WorkerIds : Waiting(c, id) => Waiting(b, id)
  BY DEF Waiting
<1>3. Serves(b, c, S, F) /\ Frees(c, S)
  BY <1>1, <1>2 DEF Serves, Frees
<1> QED BY <1>1, <1>3, NothingMoves

\* worker_waiting: the worker waits and may be given a request at once.
LEMMA WorkerWaitingSent ==
  ASSUME NEW b, Sound(b), NEW id \in b.workers, NEW M
  PROVE  LET c == worker_waiting(b, id)
             S == DispatchSends(Idle(b, id), b.service_name[id])
         IN  /\ Serves(b, c, S, {id}) /\ Moves(b.requests, c.requests, S, M)
             /\ NoDuplicates(b) /\ ~ Waiting(b, id) => Frees(c, S)
<1> DEFINE n == b.service_name[id]
           i == Idle(b, id)
           c == service_dispatch(i, n)
           S == DispatchSends(i, n)
<1>1. worker_waiting(b, id) = c BY DEF worker_waiting
<1>2. /\ Sound(i) /\ n \in i.services
      /\ NoDuplicates(b) /\ ~ Waiting(b, id) => NoDuplicates(i)
      /\ i.requests = b.requests /\ i.workers = b.workers
      /\ i.waiting[n] = Append(b.waiting[n], id)
      /\ \A m \in Names \ {n} : i.waiting[m] = b.waiting[m]
  BY IdleSound
<1>3. b \in BrokerState /\ n \in Names /\ id \in WorkerIds
  BY DEF Sound, BrokerState
<1> HIDE DEF i, n
<1>4. /\ Serves(i, c, S, {}) /\ Moves(i.requests, c.requests, S, M)
      /\ NoDuplicates(i) => Frees(c, S)
  BY <1>2, DispatchSent
<1>5. Elements(i.waiting[n]) = Elements(b.waiting[n]) \cup {id}
  <2>1. b.waiting[n] \in Seq(WorkerIds)
    BY <1>3 DEF BrokerState
  <2> QED BY <1>2, <1>3, <2>1, AppendFacts
<1>6. \A w : Waiting(i, w) => Waiting(b, w) \/ w = id
  BY <1>2, <1>5 DEF Waiting
<1> HIDE DEF c, S
<1>7. Serves(b, c, S, {id})
  BY <1>2, <1>4, <1>6 DEF Serves
<1> QED BY <1>1, <1>2, <1>4, <1>7 DEF S, n, i

\* Who may begin to wait in worker_process.
Ready(b, id, cmd) ==
    IF cmd \in {"READY", "REPLY"} /\ ~ NotValid(b, id, cmd) THEN {id} ELSE {}

LEMMA WorkerProcessSent ==
  ASSUME NEW b, Consistent(b), NEW id \in WorkerIds, NEW cmd \in {"READY", "REPLY", "HEARTBEAT"},
         NEW n \in Names, NEW M, NoRequest \notin M
  PROVE  LET c == worker_process(b, id, cmd, n)
             S == WorkerProcessSends(b, id, cmd, n)
         IN  /\ Serves(b, c, S, Ready(b, id, cmd))
             /\ Moves(b.requests, c.requests, S, M)
             /\ NoDuplicates(b) /\ (cmd = "REPLY" => ~ Waiting(b, id)) => Frees(c, S)
<1> DEFINE r == worker_require(b, id)
           c == worker_process(b, id, cmd, n)
           S == WorkerProcessSends(b, id, cmd, n)
           F == Ready(b, id, cmd)
<1>0. Sound(b) /\ b \in BrokerState BY DEF Consistent, Sound
<1>0a. cmd # NoFrame /\ n # NoFrame
  BY FrameAssumption DEF Commands
<1>1. Sound(r) /\ id \in r.workers /\ r.waiting = b.waiting /\ r.requests = b.requests
  BY <1>0, RequireSound
<1>2. r.workers = b.workers \cup {id}
  BY <1>0 DEF worker_require, BrokerState
<1>3. id \in b.workers => r = b
  BY DEF worker_require
<1> HIDE DEF r
<1>4. CASE NotValid(b, id, cmd)
  <2> DEFINE d == worker_delete(r, {id})
  <2>1. c = d /\ S = {ToWorker(id, "DISCONNECT", NoRequest)}
    BY <1>0a, <1>4 DEF worker_process, WorkerProcessSends, r
  <2>2. d.requests = r.requests /\ d.workers = r.workers \ {id}
        /\ \A m \in Names : d.waiting[m] = Erase(r.waiting[m], {id})
    BY <1>1, DeleteSound
  <2> HIDE DEF d, c, S
  <2>3. \A m \in Names : Elements(c.waiting[m]) \subseteq Elements(b.waiting[m])
    <3> TAKE m \in Names
    <3>1. b.waiting[m] \in Seq(WorkerIds) BY <1>0 DEF BrokerState
    <3> QED BY <1>1, <2>1, <2>2, <3>1, EraseFacts
  <2>4. c.requests = b.requests /\ c.workers \subseteq b.workers
    BY <1>1, <1>2, <2>1, <2>2
  <2>5. S \subseteq [to : WorkerIds, cmd : {"HEARTBEAT", "DISCONNECT"}, body : {NoRequest}]
    BY <2>1 DEF ToWorker
  <2>6. Serves(b, c, S, F) /\ Moves(b.requests, c.requests, S, M) /\ Frees(c, S)
    BY <2>3, <2>4, <2>5, SignalsSent
  <2> QED BY <2>6 DEF c, S
<1>5. CASE ~ NotValid(b, id, cmd) /\ cmd = "HEARTBEAT"
  <2> DEFINE u == update_expiry(r, id)
  <2>1. c = u /\ S = {}
    BY <1>0a, <1>5 DEF worker_process, WorkerProcessSends, r
  <2>2. u.waiting = r.waiting /\ u.requests = r.requests /\ u.workers = r.workers
    BY <1>1, UpdateExpirySound
  <2>3. id \in b.workers
    BY <1>5 DEF NotValid
  <2> HIDE DEF u, c, S
  <2>4. \A m \in Names : Elements(c.waiting[m]) \subseteq Elements(b.waiting[m])
    BY <1>1, <2>1, <2>2
  <2>5. c.requests = b.requests /\ c.workers \subseteq b.workers
    BY <1>1, <1>2, <2>1, <2>2, <2>3
  <2>6. Serves(b, c, S, F) /\ Moves(b.requests, c.requests, S, M) /\ Frees(c, S)
    BY <2>1, <2>4, <2>5, SignalsSent
  <2> QED BY <2>6 DEF c, S
<1>6. CASE ~ NotValid(b, id, cmd) /\ cmd = "REPLY"
  <2>1. id \in b.workers
    BY <1>6 DEF NotValid
  <2>2. c = worker_waiting(b, id) /\ S = DispatchSends(Idle(b, id), b.service_name[id])
    BY <1>0a, <1>3, <1>6, <2>1 DEF worker_process, WorkerProcessSends, r
  <2>3. F = {id}
    BY <1>6 DEF Ready
  <2> HIDE DEF c, S, F
  <2>4. /\ Serves(b, c, S, F) /\ Moves(b.requests, c.requests, S, M)
        /\ NoDuplicates(b) /\ ~ Waiting(b, id) => Frees(c, S)
    BY <1>0, <1>6, <2>1, <2>2, <2>3, WorkerWaitingSent
  <2> QED BY <1>6, <2>4 DEF c, S, F
<1>7. CASE ~ NotValid(b, id, cmd) /\ cmd = "READY"
  <2> DEFINE k == Named(b, id, n)
  <2>1. id \notin b.workers BY <1>7 DEF NotValid
  <2>2. /\ Sound(k) /\ id \in k.workers /\ k.service_name[id] = n
        /\ k.waiting = b.waiting /\ k.requests = b.requests
    BY <1>0, <2>1, NamedSound
  <2>3. k.workers = r.workers
    <3>1. k = [r EXCEPT !.service_name[id] = n] BY DEF Named, r
    <3>2. r \in BrokerState BY <1>1 DEF Sound
    <3> HIDE DEF k
    <3> QED BY <3>1, <3>2 DEF BrokerState
  <2>4. ~ Waiting(b, id)
    BY <1>0, <2>1 DEF Sound, Registered, Waiting
  <2>5. c = worker_waiting(k, id) /\ S = DispatchSends(Idle(k, id), n)
    BY <1>0a, <1>7 DEF worker_process, WorkerProcessSends
  <2>6. F = {id}
    BY <1>7 DEF Ready
  <2> HIDE DEF c, S, F, k
  <2>7. ~ Waiting(k, id)
    BY <2>2, <2>4 DEF Waiting
  <2>7a. NoDuplicates(b) => NoDuplicates(k)
    BY <2>2 DEF NoDuplicates
  <2>8. /\ Serves(k, c, S, {id}) /\ Moves(k.requests, c.requests, S, M)
        /\ NoDuplicates(k) /\ ~ Waiting(k, id) => Frees(c, S)
    BY <2>2, <2>5, <2>7, WorkerWaitingSent
  <2>9. \A w : Waiting(k, w) => Waiting(b, w)
    BY <2>2 DEF Waiting
  <2>10. Serves(b, c, S, F)
    BY <1>2, <2>3, <2>6, <2>8, <2>9 DEF Serves
  <2> QED BY <2>2, <2>7, <2>7a, <2>8, <2>10 DEF c, S, F
<1> QED BY <1>4, <1>5, <1>6, <1>7

\* client_process, from the queues with the request in its place.
LEMMA ClientProcessSent ==
  ASSUME NEW b, Consistent(b), NEW n \in Names, NEW req \in Requests, NEW M, NoRequest \notin M
  PROVE  LET c == client_process(b, n, req)
             S == ClientProcessSends(b, n, req)
             q == IF n \in MmiLike THEN b.requests ELSE [b.requests EXCEPT ![n] = Append(@, req)]
         IN  /\ Serves(b, c, S, {}) /\ Moves(q, c.requests, S, M)
             /\ NoDuplicates(b) => Frees(c, S)
<1>0. Sound(b) /\ req # NoFrame BY FrameAssumption DEF Consistent
<1>1. CASE n \in MmiLike
  <2> DEFINE s == service_require(b, n)
  <2>1. s.waiting = b.waiting /\ s.requests = b.requests /\ s.workers = b.workers
    BY <1>0, ServiceRequireSound
  <2>2. client_process(b, n, req) = s /\ ClientProcessSends(b, n, req) = {}
    BY <1>0, <1>1 DEF client_process, ClientProcessSends
  <2> HIDE DEF s
  <2>3. Serves(b, s, {}, {}) /\ Moves(b.requests, s.requests, {}, M) /\ Frees(s, {})
    BY <2>1, SignalsSent
  <2> QED BY <1>1, <2>2, <2>3
<1>2. CASE n \notin MmiLike
  <2> DEFINE q == Queued(b, n, req)
             c == service_dispatch(q, n)
             S == DispatchSends(q, n)
  <2>1. /\ Sound(q) /\ n \in q.services /\ q.waiting = b.waiting /\ q.workers = b.workers
        /\ q.requests = [b.requests EXCEPT ![n] = Append(@, req)]
    BY <1>0, QueuedSound
  <2>2. client_process(b, n, req) = c /\ ClientProcessSends(b, n, req) = S
    BY <1>0, <1>2 DEF client_process, ClientProcessSends
  <2> HIDE DEF q
  <2>2a. NoDuplicates(b) => NoDuplicates(q) BY <2>1 DEF NoDuplicates
  <2>3. /\ Serves(q, c, S, {}) /\ Moves(q.requests, c.requests, S, M)
        /\ NoDuplicates(q) => Frees(c, S)
    BY <2>1, DispatchSent
  <2> HIDE DEF c, S
  <2>4. Serves(b, c, S, {})
    BY <2>1, <2>3 DEF Serves, Waiting
  <2> QED BY <1>2, <2>1, <2>2, <2>2a, <2>3, <2>4
<1> QED BY <1>1, <1>2

LEMMA TimerSent ==
  ASSUME NEW b, Consistent(b), NEW M, NoRequest \notin M
  PROVE  LET c == timer(b)
             S == TimerSends(b)
         IN  Serves(b, c, S, {}) /\ Moves(b.requests, c.requests, S, M) /\ Frees(c, S)
<1> DEFINE D == {w \in b.workers : Expired(b, w)}
           p == purge_workers(b)
           c == timer(b)
           S == TimerSends(b)
<1>0. Sound(b) /\ b \in BrokerState BY DEF Consistent, Sound
<1>1. p = worker_delete(b, D) BY DEF purge_workers
<1> HIDE DEF D
<1>2. /\ Sound(p) /\ p.requests = b.requests /\ p.workers = b.workers \ D
      /\ p.services = b.services
      /\ \A m \in Names : p.waiting[m] = Erase(b.waiting[m], D)
  BY <1>0, <1>1, DeleteSound
<1>3. c = [worker_send_heartbeat(p) EXCEPT !.heartbeat_due = FALSE]
      /\ S = {ToWorker(id, "HEARTBEAT", NoRequest) :
                id \in UNION {Elements(p.waiting[n]) : n \in p.services}}
  BY DEF timer, TimerSends
<1> HIDE DEF p, c, S
<1>4. p \in BrokerState BY <1>2 DEF Sound
<1>5. c.requests = p.requests /\ c.workers = p.workers /\ c.waiting = p.waiting
  BY <1>3, <1>4 DEF worker_send_heartbeat, BrokerState
<1>6. \A m \in Names : Elements(c.waiting[m]) \subseteq Elements(b.waiting[m])
  <2> TAKE m \in Names
  <2>1. b.waiting[m] \in Seq(WorkerIds) BY <1>0 DEF BrokerState
  <2> QED BY <1>2, <1>5, <2>1, EraseFacts
<1>7. S \subseteq [to : WorkerIds, cmd : {"HEARTBEAT", "DISCONNECT"}, body : {NoRequest}]
  <2> SUFFICES ASSUME NEW m \in S
      PROVE  m \in [to : WorkerIds, cmd : {"HEARTBEAT", "DISCONNECT"}, body : {NoRequest}]
    OBVIOUS
  <2>1. PICK n \in p.services : \E id \in Elements(p.waiting[n]) : m = ToWorker(id, "HEARTBEAT", NoRequest)
    BY <1>3
  <2>2. PICK id \in Elements(p.waiting[n]) : m = ToWorker(id, "HEARTBEAT", NoRequest)
    BY <2>1
  <2>3. id \in WorkerIds
    BY <1>2, <1>4, <2>2 DEF Sound, Registered, BrokerState
  <2> QED BY <2>2, <2>3 DEF ToWorker
<1>8. c.requests = b.requests /\ c.workers \subseteq b.workers
  BY <1>2, <1>5
<1>9. Serves(b, c, S, {}) /\ Moves(b.requests, c.requests, S, M) /\ Frees(c, S)
  BY <1>6, <1>7, <1>8, SignalsSent
<1> QED BY <1>9 DEF c, S
=============================================================================
