--------------------------- MODULE TitanicProofs ----------------------------
(***************************************************************************)
(* Titanic implements TitanicPromise, for any requests, services and       *)
(* bounds: the files and the memory of the process always say of a request *)
(* what the promise says, step by step, crashes included.                  *)
(*                                                                         *)
(* Then how often a service is carried out, when the dispatcher can fail,  *)
(* and the types: all counters, files and pipes within their bounds.       *)
(***************************************************************************)
EXTENDS Titanic, TLAPS

StatusMap == [u \in Requests |-> Status(u)]

\* The types that the argument needs.
StoreTypes ==
    /\ reqs \subseteq Requests
    /\ reps \in [Requests -> {"none", "partial", "whole"}]
    /\ queue \in Seq(Record)
    /\ taker \in [phase : {"idle", "saved", "piped"}, req : Requests \cup {NoOne}]
    /\ taker.phase # "idle" => taker.req \in Requests
    /\ pipe \in Seq(Requests)
    /\ disp \in [phase : {"poll", "scan", "call", "save", "saving", "mark", "failed"},
                 at : Nat, size : Nat]
    /\ closer \in Requests \cup {NoOne}
    /\ client \in [Requests -> {"new", "sent", "polling", "replied", "finished", "ended"}]
    /\ calls \subseteq Requests /\ closes \subseteq Requests

\* A request is saved once: nothing is known of one that still is with its client.
SavedOnce ==
    \A u \in Requests :
       /\ client[u] = "new" \/ u \in calls => u \notin reqs /\ ~ InQueue(u)
       /\ u \in calls => client[u] # "new"

\* What request_worker and the pipe hold is saved, and not in the queue file yet.
InMemory ==
    /\ \A u \in Requests : InPipe(u) => u \in reqs /\ ~ InQueue(u)
    /\ \A i, j \in DOMAIN pipe : pipe[i] = pipe[j] => i = j
    /\ \A u \in Requests : taker.phase = "saved" /\ taker.req = u =>
          u \in reqs /\ ~ InQueue(u) /\ ~ InPipe(u)

\* There is a .rep for recorded requests only, and whoever may close a request
\* has seen it.
RepliesAreRecorded ==
    /\ \A u \in Requests : reps[u] # "none" => InQueue(u)
    /\ \A u \in Requests : u \in closes \/ client[u] = "replied" =>
          InQueue(u) /\ (u \in reqs => reps[u] # "none")
    /\ closer # NoOne => closer \notin reqs /\ InQueue(closer)

\* A scan stays within what the queue file held when it began.
AtRecord ==
    disp.phase \notin {"poll", "failed"} =>
       /\ 1 <= disp.at /\ disp.size <= Len(queue)
       /\ disp.phase # "scan" => disp.at <= disp.size

StoreInv == StoreTypes /\ SavedOnce /\ InMemory /\ RepliesAreRecorded /\ AtRecord

\* A step that the promise allows.
Allowed == Promise!Next \/ StatusMap' = StatusMap

-----------------------------------------------------------------------------

\* A request keeps its status when the store and the memory say the same of it.
LEMMA SameStatus ==
  ASSUME \A u \in Requests :
            /\ u \in reqs' <=> u \in reqs
            /\ InQueue(u)' <=> InQueue(u)
            /\ reps'[u] = reps[u]
            /\ (InPipe(u) \/ (taker.phase = "saved" /\ taker.req = u))' <=>
               (InPipe(u) \/ (taker.phase = "saved" /\ taker.req = u))
  PROVE  StatusMap' = StatusMap
BY DEF StatusMap, Status

\* One request moves from one status to another.
LEMMA OneMoves ==
  ASSUME NEW u \in Requests, NEW from, NEW to, Status(u) = from, Status(u)' = to,
         \A x \in Requests \ {u} : Status(x)' = Status(x)
  PROVE  /\ StatusMap[u] = from
         /\ StatusMap' = [StatusMap EXCEPT ![u] = to]
BY DEF StatusMap

\* Nothing is known of any request at the start.
LEMMA InitStore == Init => StoreInv /\ Promise!Init
<1> SUFFICES ASSUME Init PROVE StoreInv /\ Promise!Init OBVIOUS
<1>1. \A u : ~ InQueue(u) /\ ~ InPipe(u)
  <2>1. queue = <<>> /\ pipe = <<>>
    BY DEF Init
  <2>2. DOMAIN queue = {} /\ DOMAIN pipe = {}
    BY <2>1
  <2> QED BY <2>2 DEF InQueue, InPipe
<1>2. StoreInv
  BY <1>1 DEF Init, StoreInv, StoreTypes, SavedOnce, InMemory, RepliesAreRecorded, AtRecord,
              Idle, Polling
<1>3. Promise!Init
  BY <1>1 DEF Init, Promise!Init, Status
<1> QED BY <1>2, <1>3

\* Steps that touch no file and no memory but for one field.
LEMMA ClientKeeps ==
  ASSUME StoreInv, NEW u \in Requests,
         ClientSend(u) \/ ClientGivesUp(u) \/ ClientCloses(u) \/ AnswerPoll(u)
  PROVE  StoreInv' /\ Allowed
<1>1. UNCHANGED <<files, threads>>
  BY DEF ClientSend, ClientGivesUp, ClientCloses, AnswerPoll
<1>2. UNCHANGED <<reqs, reps, queue, taker, pipe, disp, closer>>
  BY <1>1 DEF files, threads
<1>3. /\ \A x : InQueue(x)' <=> InQueue(x)
      /\ \A x : InPipe(x)' <=> InPipe(x)
  BY <1>2 DEF InQueue, InPipe
<1>4. StatusMap' = StatusMap
  BY <1>2, <1>3, SameStatus
<1>5. StoreTypes' /\ InMemory' /\ AtRecord'
  BY <1>2, <1>3 DEF StoreInv, StoreTypes, InMemory, AtRecord, ClientSend, ClientGivesUp,
                    ClientCloses, AnswerPoll
<1>6. SavedOnce'
  BY <1>2, <1>3 DEF StoreInv, StoreTypes, SavedOnce, ClientSend, ClientGivesUp, ClientCloses,
                    AnswerPoll
<1>7. RepliesAreRecorded'
  BY <1>2, <1>3 DEF StoreInv, StoreTypes, RepliesAreRecorded, ClientSend, ClientGivesUp,
                    ClientCloses, AnswerPoll
<1> QED BY <1>4, <1>5, <1>6, <1>7 DEF StoreInv, Allowed

\* A saved request is taken.
LEMMA SaveTakes ==
  ASSUME StoreInv, NEW u \in Requests, SaveRequest(u)
  PROVE  StoreInv' /\ Allowed
<1>1. /\ UNCHANGED <<reps, queue, pipe, disp, closer, client, closes>>
      /\ reqs' = reqs \cup {u} /\ taker' = [phase |-> "saved", req |-> u]
      /\ u \in calls /\ calls' = calls \ {u} /\ taker.phase = "idle"
  BY DEF SaveRequest
<1>2. /\ \A x : InQueue(x)' <=> InQueue(x)
      /\ \A x : InPipe(x)' <=> InPipe(x)
  BY <1>1 DEF InQueue, InPipe
<1>3. u \notin reqs /\ ~ InQueue(u) /\ ~ InPipe(u) /\ client[u] # "new"
  BY <1>1 DEF StoreInv, SavedOnce, InMemory, InPipe
<1>4. Status(u) = "new" /\ Status(u)' = "taken"
  BY <1>1, <1>2, <1>3 DEF Status
<1>5. \A x \in Requests \ {u} : Status(x)' = Status(x)
  BY <1>1, <1>2 DEF Status
<1>6. Promise!Take(u)
  BY <1>4, <1>5, OneMoves DEF Promise!Take, Promise!Move, StatusMap
<1>7. StoreTypes' /\ AtRecord'
  BY <1>1 DEF StoreInv, StoreTypes, AtRecord
<1>8. SavedOnce'
  BY <1>1, <1>2, <1>3 DEF StoreInv, StoreTypes, SavedOnce
<1>9. InMemory'
  BY <1>1, <1>2, <1>3 DEF StoreInv, StoreTypes, InMemory
<1>10. RepliesAreRecorded'
  BY <1>1, <1>2, <1>3 DEF StoreInv, StoreTypes, RepliesAreRecorded
<1> QED BY <1>6, <1>7, <1>8, <1>9, <1>10 DEF StoreInv, Allowed, Promise!Next

\* The pipe takes over what request_worker holds.
LEMMA PipeKeeps ==
  ASSUME StoreInv, SendToPipe
  PROVE  StoreInv' /\ Allowed
<1>1. /\ UNCHANGED <<reqs, reps, queue, disp, closer, client, calls, closes>>
      /\ pipe' = Append(pipe, taker.req) /\ taker' = [taker EXCEPT !.phase = "piped"]
      /\ taker.phase = "saved"
  BY DEF SendToPipe, files, clients
<1>2. /\ taker.req \in Requests /\ pipe \in Seq(Requests) /\ pipe' \in Seq(Requests)
      /\ taker' = [phase |-> "piped", req |-> taker.req]
  BY <1>1 DEF StoreInv, StoreTypes
<1>3. \A x : InPipe(x)' <=> InPipe(x) \/ x = taker.req
  <2>1. /\ Len(pipe') = Len(pipe) + 1 /\ DOMAIN pipe' = 1 .. Len(pipe')
        /\ \A i \in 1 .. Len(pipe) : pipe'[i] = pipe[i]
        /\ pipe'[Len(pipe) + 1] = taker.req /\ Len(pipe) \in Nat
        /\ DOMAIN pipe = 1 .. Len(pipe)
    BY <1>1, <1>2
  <2> QED BY <2>1 DEF InPipe
<1>4. \A x : InQueue(x)' <=> InQueue(x)
  BY <1>1 DEF InQueue
<1>5. StatusMap' = StatusMap
  BY <1>1, <1>2, <1>3, <1>4, SameStatus
<1>6. StoreTypes' /\ AtRecord' /\ SavedOnce' /\ RepliesAreRecorded'
  BY <1>1, <1>2, <1>4 DEF StoreInv, StoreTypes, AtRecord, SavedOnce, RepliesAreRecorded
<1>7. InMemory'
  <2>1. taker.req \in reqs /\ ~ InQueue(taker.req) /\ ~ InPipe(taker.req)
    BY <1>1, <1>2 DEF StoreInv, InMemory
  <2>2. /\ DOMAIN pipe' = 1 .. Len(pipe) + 1 /\ DOMAIN pipe = 1 .. Len(pipe)
        /\ \A i \in 1 .. Len(pipe) : pipe'[i] = pipe[i]
        /\ pipe'[Len(pipe) + 1] = taker.req /\ Len(pipe) \in Nat
    BY <1>1, <1>2
  <2>3. \A i \in DOMAIN pipe : pipe[i] # taker.req
    BY <2>1 DEF InPipe
  <2>4. \A u \in Requests : InPipe(u)' => u \in reqs' /\ ~ InQueue(u)'
    BY <1>1, <1>3, <1>4, <2>1 DEF StoreInv, InMemory
  <2>5. \A i, j \in DOMAIN pipe' : pipe'[i] = pipe'[j] => i = j
    BY <2>2, <2>3 DEF StoreInv, InMemory
  <2>6. taker'.phase # "saved"
    BY <1>2
  <2> QED BY <2>4, <2>5, <2>6 DEF InMemory
<1> QED BY <1>5, <1>6, <1>7 DEF StoreInv, Allowed

\* Telling the client changes nothing that is kept.
LEMMA AnswerKeeps ==
  ASSUME StoreInv, AnswerRequest
  PROVE  StoreInv' /\ Allowed
<1>1. /\ UNCHANGED <<reqs, reps, queue, pipe, disp, closer, calls, closes>>
      /\ taker' = [phase |-> "idle", req |-> NoOne] /\ taker.phase = "piped"
      /\ client' = [client EXCEPT ![taker.req] = IF @ = "sent" THEN "polling" ELSE @]
  BY DEF AnswerRequest, files, Idle
<1>2. /\ \A x : InQueue(x)' <=> InQueue(x)
      /\ \A x : InPipe(x)' <=> InPipe(x)
  BY <1>1 DEF InQueue, InPipe
<1>3. /\ client' \in [Requests ->
                        {"new", "sent", "polling", "replied", "finished", "ended"}]
      /\ \A x \in Requests : client'[x] = "new" <=> client[x] = "new"
      /\ \A x \in Requests : client'[x] = "replied" <=> client[x] = "replied"
  BY <1>1 DEF StoreInv, StoreTypes
<1>4. StatusMap' = StatusMap
  BY <1>1, <1>2, SameStatus
<1>5. StoreTypes' /\ AtRecord' /\ SavedOnce' /\ RepliesAreRecorded' /\ InMemory'
  BY <1>1, <1>2, <1>3 DEF StoreInv, StoreTypes, AtRecord, SavedOnce, RepliesAreRecorded,
                          InMemory
<1> QED BY <1>4, <1>5 DEF StoreInv, Allowed

\* Steps of the dispatcher, and of the services, that touch no file.
LEMMA DispatcherKeeps ==
  ASSUME StoreInv,
         \/ EndOfScan \/ Skip \/ Load \/ LoadFails \/ Answered \/ CallTimeout \/ Restart
         \/ \E u \in Requests : LateExecution(u)
  PROVE  StoreInv' /\ Allowed
<1>1. UNCHANGED <<reqs, reps, queue, taker, pipe, closer, client, calls, closes>>
  BY DEF EndOfScan, Skip, Load, LoadFails, Answered, CallTimeout, Restart, LateExecution,
         files, clients, threads
<1>2. /\ \A x : InQueue(x)' <=> InQueue(x)
      /\ \A x : InPipe(x)' <=> InPipe(x)
  BY <1>1 DEF InQueue, InPipe
<1>3. StatusMap' = StatusMap
  BY <1>1, <1>2, SameStatus
<1>4. SavedOnce' /\ InMemory' /\ RepliesAreRecorded'
  BY <1>1, <1>2 DEF StoreInv, SavedOnce, InMemory, RepliesAreRecorded
<1>5. \/ disp' = disp
      \/ disp' = [phase |-> "poll", at |-> 0, size |-> 0]
      \/ disp' = [disp EXCEPT !.phase = "failed"]
      \/ /\ disp.phase = "scan" /\ disp.at <= disp.size
         /\ disp' = [disp EXCEPT !.phase = "call"]
      \/ disp.phase = "call" /\ disp' = [disp EXCEPT !.phase = "save"]
      \/ /\ disp.phase \in {"scan", "call"}
         /\ disp' = [disp EXCEPT !.phase = "scan", !.at = @ + 1]
  BY DEF EndOfScan, Skip, Load, LoadFails, Answered, CallTimeout, Restart, LateExecution,
         threads, Scanning, NextRecord, Polling
<1>6. /\ disp' \in [phase : {"poll", "scan", "call", "save", "saving", "mark", "failed"},
                    at : Nat, size : Nat]
      /\ AtRecord'
  <2>1. /\ disp.at \in Nat /\ disp.size \in Nat
        /\ disp = [phase |-> disp.phase, at |-> disp.at, size |-> disp.size]
    BY DEF StoreInv, StoreTypes
  <2>2. CASE disp' = disp
    BY <1>1, <2>2 DEF StoreInv, StoreTypes, AtRecord
  <2>3. CASE \/ disp' = [phase |-> "poll", at |-> 0, size |-> 0]
             \/ disp' = [disp EXCEPT !.phase = "failed"]
    <3>1. disp'.phase \in {"poll", "failed"} /\ disp'.at \in Nat /\ disp'.size \in Nat
          /\ disp' = [phase |-> disp'.phase, at |-> disp'.at, size |-> disp'.size]
      BY <2>1, <2>3
    <3> QED BY <3>1 DEF AtRecord
  <2>4. CASE \/ /\ disp.phase = "scan" /\ disp.at <= disp.size
                /\ disp' = [disp EXCEPT !.phase = "call"]
             \/ disp.phase = "call" /\ disp' = [disp EXCEPT !.phase = "save"]
    <3>1. /\ disp'.phase \in {"call", "save"} /\ disp'.at = disp.at /\ disp'.size = disp.size
          /\ disp' = [phase |-> disp'.phase, at |-> disp'.at, size |-> disp'.size]
      BY <2>1, <2>4
    <3>2. 1 <= disp.at /\ disp.size <= Len(queue) /\ disp.at <= disp.size
      BY <2>4 DEF StoreInv, AtRecord
    <3> QED BY <1>1, <2>1, <3>1, <3>2 DEF AtRecord
  <2>5. CASE /\ disp.phase \in {"scan", "call"}
             /\ disp' = [disp EXCEPT !.phase = "scan", !.at = @ + 1]
    <3>1. disp' = [phase |-> "scan", at |-> disp.at + 1, size |-> disp.size]
      BY <2>1, <2>5
    <3>2. 1 <= disp.at /\ disp.size <= Len(queue)
      BY <2>5 DEF StoreInv, AtRecord
    <3> QED BY <1>1, <2>1, <3>1, <3>2 DEF AtRecord
  <2> QED BY <1>5, <2>2, <2>3, <2>4, <2>5
<1>7. StoreTypes'
  BY <1>1, <1>6 DEF StoreInv, StoreTypes
<1> QED BY <1>3, <1>4, <1>6, <1>7 DEF StoreInv, Allowed

\* A request that is read from the pipe is recorded.
LEMMA PollRecords ==
  ASSUME StoreInv, Poll
  PROVE  StoreInv' /\ Allowed
<1>1. /\ UNCHANGED <<reqs, reps, taker, closer, client, calls, closes>>
      /\ disp' = [phase |-> "scan", at |-> 1, size |-> Len(queue')]
      /\ queue' # <<>>
  BY DEF Poll, clients
<1>2. CASE pipe = <<>>
  <2>1. UNCHANGED <<queue, pipe>>
    BY <1>2 DEF Poll
  <2>2. /\ \A x : InQueue(x)' <=> InQueue(x)
        /\ \A x : InPipe(x)' <=> InPipe(x)
    BY <2>1 DEF InQueue, InPipe
  <2>3. StatusMap' = StatusMap
    BY <1>1, <2>2, SameStatus
  <2>4. SavedOnce' /\ InMemory' /\ RepliesAreRecorded'
    BY <1>1, <2>1, <2>2 DEF StoreInv, SavedOnce, InMemory, RepliesAreRecorded
  <2>5. StoreTypes' /\ AtRecord'
    BY <1>1, <2>1 DEF StoreInv, StoreTypes, AtRecord
  <2> QED BY <2>3, <2>4, <2>5 DEF StoreInv, Allowed
<1>3. CASE pipe # <<>>
  <2>0. PICK u \in Requests : u = Head(pipe)
    BY <1>3 DEF StoreInv, StoreTypes
  <2>1. queue' = Append(queue, [req |-> u, done |-> FALSE]) /\ pipe' = Tail(pipe)
    BY <1>3, <2>0 DEF Poll
  <2>2. /\ pipe \in Seq(Requests) /\ queue \in Seq(Record)
        /\ u \in Requests /\ pipe' \in Seq(Requests)
        /\ Len(pipe) \in Nat \ {0} /\ DOMAIN pipe = 1 .. Len(pipe) /\ pipe[1] = u
        /\ DOMAIN pipe' = 1 .. Len(pipe) - 1
        /\ \A i \in DOMAIN pipe' : pipe'[i] = pipe[i + 1]
    BY <1>3, <2>0, <2>1 DEF StoreInv, StoreTypes
  <2>3. [req |-> u, done |-> FALSE] \in Record
    BY <2>2 DEF Record
  <2>4. /\ queue' \in Seq(Record) /\ Len(queue') = Len(queue) + 1 /\ Len(queue) \in Nat
        /\ DOMAIN queue = 1 .. Len(queue) /\ DOMAIN queue' = 1 .. Len(queue) + 1
        /\ \A i \in 1 .. Len(queue) : queue'[i] = queue[i]
        /\ queue'[Len(queue) + 1] = [req |-> u, done |-> FALSE]
    BY <2>1, <2>2, <2>3
  <2>5. \A x : InQueue(x)' <=> InQueue(x) \/ x = u
    <3>1. (queue'[Len(queue) + 1]).req = u
      BY <2>4
    <3> QED BY <2>4, <3>1 DEF InQueue
  <2>6. \A x : InPipe(x)' <=> InPipe(x) /\ x # u
    <3>1. \A i, j \in DOMAIN pipe : pipe[i] = pipe[j] => i = j
      BY DEF StoreInv, InMemory
    <3>2. \A i \in DOMAIN pipe' : i + 1 \in DOMAIN pipe /\ pipe[i + 1] # u
      BY <2>2, <3>1
    <3>3. \A i \in DOMAIN pipe : i # 1 => i - 1 \in DOMAIN pipe' /\ pipe'[i - 1] = pipe[i]
      BY <2>2
    <3> QED BY <2>2, <3>2, <3>3 DEF InPipe
  <2>7. InPipe(u)
    BY <2>2 DEF InPipe
  <2>8. u \in reqs /\ ~ InQueue(u) /\ ~ (taker.phase = "saved" /\ taker.req = u)
    BY <2>2, <2>7 DEF StoreInv, InMemory
  <2>9. reps[u] = "none"
    BY <2>2, <2>8 DEF StoreInv, RepliesAreRecorded
  <2>10. Status(u) = "taken" /\ Status(u)' = "recorded"
    BY <1>1, <2>5, <2>7, <2>8, <2>9 DEF Status
  <2>11. \A x \in Requests \ {u} : Status(x)' = Status(x)
    BY <1>1, <2>5, <2>6 DEF Status
  <2>12. Promise!Record(u)
    BY <2>2, <2>10, <2>11, OneMoves DEF Promise!Record, Promise!Move, StatusMap
  <2>13. StoreTypes' /\ AtRecord'
    BY <1>1, <2>2, <2>4 DEF StoreInv, StoreTypes, AtRecord
  <2>14. SavedOnce'
    BY <1>1, <2>5, <2>8 DEF StoreInv, SavedOnce
  <2>15. InMemory'
    <3>1. \A x \in Requests : InPipe(x)' => x \in reqs' /\ ~ InQueue(x)'
      BY <1>1, <2>5, <2>6 DEF StoreInv, InMemory
    <3>2. \A i, j \in DOMAIN pipe' : pipe'[i] = pipe'[j] => i = j
      <4>1. \A i \in DOMAIN pipe' : i \in Nat /\ i + 1 \in DOMAIN pipe
        BY <2>2
      <4>2. \A i, j \in DOMAIN pipe : pipe[i] = pipe[j] => i = j
        BY DEF StoreInv, InMemory
      <4> QED BY <2>2, <4>1, <4>2
    <3>3. \A x \in Requests : taker'.phase = "saved" /\ taker'.req = x =>
             x \in reqs' /\ ~ InQueue(x)' /\ ~ InPipe(x)'
      BY <1>1, <2>5, <2>6, <2>8 DEF StoreInv, InMemory
    <3> QED BY <3>1, <3>2, <3>3 DEF InMemory
  <2>16. RepliesAreRecorded'
    BY <1>1, <2>5 DEF StoreInv, RepliesAreRecorded
  <2> QED BY <2>2, <2>12, <2>13, <2>14, <2>15, <2>16 DEF StoreInv, Allowed, Promise!Next
<1> QED BY <1>2, <1>3

\* The dispatcher saves replies of recorded requests only.
LEMMA ThisIsRecorded ==
  ASSUME StoreInv, disp.phase \in {"call", "save", "saving", "mark"}
  PROVE  /\ disp.at \in DOMAIN queue
         /\ This \in Requests /\ InQueue(This)
<1>1. disp.at \in 1 .. Len(queue) /\ queue \in Seq(Record)
  <2>1. /\ queue \in Seq(Record) /\ disp.at \in Nat /\ disp.size \in Nat
        /\ 1 <= disp.at /\ disp.at <= disp.size /\ disp.size <= Len(queue)
    BY DEF StoreInv, StoreTypes, AtRecord
  <2>2. Len(queue) \in Nat
    BY <2>1
  <2> QED BY <2>1, <2>2
<1>2. disp.at \in DOMAIN queue /\ queue[disp.at] \in Record
  BY <1>1
<1> QED BY <1>2 DEF This, InQueue, Record

\* Opening the .rep of a request begins its reply, for the first time or anew.
LEMMA OpenReplies ==
  ASSUME StoreInv, OpenReply
  PROVE  StoreInv' /\ Allowed
<1>1. /\ UNCHANGED <<reqs, queue, taker, pipe, closer, client, calls, closes>>
      /\ disp.phase = "save" /\ disp' = [disp EXCEPT !.phase = "saving"]
      /\ reps' = [reps EXCEPT ![This] = "partial"]
  BY DEF OpenReply, clients
<1>2. /\ \A x : InQueue(x)' <=> InQueue(x)
      /\ \A x : InPipe(x)' <=> InPipe(x)
  BY <1>1 DEF InQueue, InPipe
<1>3. PICK u \in Requests : u = This /\ InQueue(u)
  BY <1>1, ThisIsRecorded
<1>4. /\ reps' \in [Requests -> {"none", "partial", "whole"}]
      /\ reps'[u] = "partial"
      /\ \A x \in Requests \ {u} : reps'[x] = reps[x]
  BY <1>1, <1>3 DEF StoreInv, StoreTypes
<1>5. Allowed
  <2>1. \A x \in Requests \ {u} : Status(x)' = Status(x)
    BY <1>1, <1>2, <1>4 DEF Status
  <2>2. CASE u \in reqs /\ reps[u] # "partial"
    <3>1. Status(u) \in {"recorded", "replied"} /\ Status(u)' = "begun"
      BY <1>1, <1>2, <1>3, <1>4, <2>2 DEF Status, StoreInv, StoreTypes
    <3>2. Promise!Begin(u)
      BY <2>1, <3>1, OneMoves DEF Promise!Begin, Promise!Move, StatusMap
    <3> QED BY <1>3, <3>2 DEF Allowed, Promise!Next
  <2>3. CASE ~ (u \in reqs /\ reps[u] # "partial")
    <3>1. Status(u)' = Status(u)
      BY <1>1, <1>2, <1>3, <1>4, <2>3 DEF Status
    <3> QED BY <2>1, <3>1 DEF Allowed, StatusMap
  <2> QED BY <2>2, <2>3
<1>6. StoreTypes' /\ AtRecord'
  BY <1>1, <1>4 DEF StoreInv, StoreTypes, AtRecord
<1>7. SavedOnce' /\ InMemory'
  BY <1>1, <1>2 DEF StoreInv, SavedOnce, InMemory
<1>8. RepliesAreRecorded'
  BY <1>1, <1>2, <1>3, <1>4 DEF StoreInv, RepliesAreRecorded
<1> QED BY <1>5, <1>6, <1>7, <1>8 DEF StoreInv

\* Writing it replies to the request, unless it has been closed meanwhile.
LEMMA WriteReplies ==
  ASSUME StoreInv, WriteReply
  PROVE  StoreInv' /\ Allowed
<1>1. /\ UNCHANGED <<reqs, queue, taker, pipe, closer, client, calls, closes>>
      /\ disp.phase = "saving" /\ disp' = [disp EXCEPT !.phase = "mark"]
      /\ reps' = [reps EXCEPT ![This] = IF @ = "none" THEN @ ELSE "whole"]
  BY DEF WriteReply, clients
<1>2. /\ \A x : InQueue(x)' <=> InQueue(x)
      /\ \A x : InPipe(x)' <=> InPipe(x)
  BY <1>1 DEF InQueue, InPipe
<1>3. PICK u \in Requests : u = This /\ InQueue(u)
  BY <1>1, ThisIsRecorded
<1>4. /\ reps' \in [Requests -> {"none", "partial", "whole"}]
      /\ reps'[u] = IF reps[u] = "none" THEN "none" ELSE "whole"
      /\ \A x \in Requests \ {u} : reps'[x] = reps[x]
  BY <1>1, <1>3 DEF StoreInv, StoreTypes
<1>5. Allowed
  <2>1. \A x \in Requests \ {u} : Status(x)' = Status(x)
    BY <1>1, <1>2, <1>4 DEF Status
  <2>2. CASE u \in reqs /\ reps[u] = "partial"
    <3>1. Status(u) = "begun" /\ Status(u)' = "replied"
      BY <1>1, <1>2, <1>3, <1>4, <2>2 DEF Status
    <3>2. Promise!Reply(u)
      BY <2>1, <3>1, OneMoves DEF Promise!Reply, Promise!Move, StatusMap
    <3> QED BY <1>3, <3>2 DEF Allowed, Promise!Next
  <2>3. CASE ~ (u \in reqs /\ reps[u] = "partial")
    <3>1. reps[u] \in {"none", "partial", "whole"}
      BY DEF StoreInv, StoreTypes
    <3>2. Status(u)' = Status(u)
      BY <1>1, <1>2, <1>3, <1>4, <2>3, <3>1 DEF Status
    <3> QED BY <2>1, <3>2 DEF Allowed, StatusMap
  <2> QED BY <2>2, <2>3
<1>6. \A x \in Requests : reps'[x] = "none" <=> reps[x] = "none"
  BY <1>4
<1>7. StoreTypes' /\ AtRecord'
  BY <1>1, <1>4 DEF StoreInv, StoreTypes, AtRecord
<1>8. SavedOnce' /\ InMemory' /\ RepliesAreRecorded'
  BY <1>1, <1>2, <1>6 DEF StoreInv, SavedOnce, InMemory, RepliesAreRecorded
<1> QED BY <1>5, <1>7, <1>8 DEF StoreInv

\* The '+' changes no status.
LEMMA MarkKeeps ==
  ASSUME StoreInv, Mark
  PROVE  StoreInv' /\ Allowed
<1>1. /\ UNCHANGED <<reqs, reps, taker, pipe, closer, client, calls, closes>>
      /\ disp.phase = "mark" /\ disp' = [disp EXCEPT !.phase = "scan", !.at = @ + 1]
      /\ queue' = [queue EXCEPT ![disp.at].done = TRUE]
  BY DEF Mark, NextRecord, clients
<1> DEFINE d == disp.at
<1>2. d \in DOMAIN queue /\ queue \in Seq(Record)
  BY <1>1, ThisIsRecorded DEF StoreInv, StoreTypes
<1> HIDE DEF d
<1>3. queue[d] \in Record
  BY <1>2
<1>4. queue' = [queue EXCEPT ![d] = [queue[d] EXCEPT !.done = TRUE]]
  BY <1>1 DEF d
<1>5. /\ [queue[d] EXCEPT !.done = TRUE] \in Record
      /\ [queue[d] EXCEPT !.done = TRUE].req = queue[d].req
  BY <1>3 DEF Record
<1>6. /\ queue' \in Seq(Record) /\ Len(queue') = Len(queue) /\ DOMAIN queue' = DOMAIN queue
      /\ \A i \in DOMAIN queue : queue'[i].req = queue[i].req
  BY <1>2, <1>4, <1>5
<1>7. /\ \A x : InQueue(x)' <=> InQueue(x)
      /\ \A x : InPipe(x)' <=> InPipe(x)
  BY <1>1, <1>6 DEF InQueue, InPipe
<1>8. StatusMap' = StatusMap
  BY <1>1, <1>7, SameStatus
<1>9. StoreTypes' /\ AtRecord'
  <2>1. /\ disp.at \in Nat /\ disp.size \in Nat
        /\ disp = [phase |-> disp.phase, at |-> disp.at, size |-> disp.size]
    BY DEF StoreInv, StoreTypes
  <2>2. disp' = [phase |-> "scan", at |-> disp.at + 1, size |-> disp.size]
    BY <1>1, <2>1
  <2>3. 1 <= disp.at /\ disp.size <= Len(queue)
    BY <1>1 DEF StoreInv, AtRecord
  <2> QED BY <1>1, <1>6, <2>1, <2>2, <2>3 DEF StoreInv, StoreTypes, AtRecord
<1>10. SavedOnce' /\ InMemory' /\ RepliesAreRecorded'
  BY <1>1, <1>7 DEF StoreInv, SavedOnce, InMemory, RepliesAreRecorded
<1> QED BY <1>8, <1>9, <1>10 DEF StoreInv, Allowed

\* A request that is removed has a reply, if only the beginning of one, and is closed.
LEMMA RemoveCloses ==
  ASSUME StoreInv, NEW u \in Requests, RemoveRequest(u)
  PROVE  StoreInv' /\ Allowed
<1>1. /\ UNCHANGED <<reps, queue, taker, pipe, disp, client, calls>>
      /\ u \in closes /\ closes' = closes \ {u} /\ closer' = u /\ reqs' = reqs \ {u}
  BY DEF RemoveRequest
<1>2. /\ \A x : InQueue(x)' <=> InQueue(x)
      /\ \A x : InPipe(x)' <=> InPipe(x)
  BY <1>1 DEF InQueue, InPipe
<1>3. InQueue(u) /\ (u \in reqs => reps[u] # "none")
  BY <1>1 DEF StoreInv, RepliesAreRecorded
<1>4. Allowed
  <2>1. \A x \in Requests \ {u} : Status(x)' = Status(x)
    BY <1>1, <1>2 DEF Status
  <2>2. CASE u \in reqs
    <3>1. Status(u) \in {"begun", "replied"} /\ Status(u)' = "closed"
      BY <1>1, <1>2, <1>3, <2>2 DEF Status, StoreInv, StoreTypes
    <3>2. Promise!Close(u)
      BY <2>1, <3>1, OneMoves DEF Promise!Close, Promise!Move, StatusMap
    <3> QED BY <3>2 DEF Allowed, Promise!Next
  <2>3. CASE u \notin reqs
    <3>1. Status(u)' = Status(u)
      BY <1>1, <1>2, <2>3 DEF Status
    <3> QED BY <2>1, <3>1 DEF Allowed, StatusMap
  <2> QED BY <2>2, <2>3
<1>5. StoreTypes' /\ AtRecord'
  BY <1>1 DEF StoreInv, StoreTypes, AtRecord
<1>6. SavedOnce' /\ RepliesAreRecorded'
  BY <1>1, <1>2, <1>3 DEF StoreInv, SavedOnce, RepliesAreRecorded
<1>7. InMemory'
  BY <1>1, <1>2, <1>3 DEF StoreInv, InMemory
<1> QED BY <1>4, <1>5, <1>6, <1>7 DEF StoreInv

\* Removing the .rep of a closed request changes no status.
LEMMA RemoveKeeps ==
  ASSUME StoreInv, RemoveReply
  PROVE  StoreInv' /\ Allowed
<1>1. /\ UNCHANGED <<reqs, queue, taker, pipe, disp, client, calls, closes>>
      /\ closer # NoOne /\ closer' = NoOne
      /\ reps' = [reps EXCEPT ![closer] = "none"] \/ reps' = reps
  BY DEF RemoveReply, clients
<1>2. /\ \A x : InQueue(x)' <=> InQueue(x)
      /\ \A x : InPipe(x)' <=> InPipe(x)
  BY <1>1 DEF InQueue, InPipe
<1>3. closer \in Requests /\ closer \notin reqs
  BY <1>1 DEF StoreInv, StoreTypes, RepliesAreRecorded
<1>4. /\ reps' \in [Requests -> {"none", "partial", "whole"}]
      /\ \A x \in Requests : reps'[x] # "none" => reps[x] # "none"
      /\ \A x \in reqs : reps'[x] = reps[x]
  BY <1>1, <1>3 DEF StoreInv, StoreTypes
<1>5. \A x \in Requests : Status(x)' = Status(x)
  BY <1>1, <1>2, <1>4 DEF Status
<1>6. StoreTypes' /\ AtRecord'
  BY <1>1, <1>4 DEF StoreInv, StoreTypes, AtRecord
<1>7. SavedOnce' /\ InMemory'
  BY <1>1, <1>2 DEF StoreInv, SavedOnce, InMemory
<1>8. RepliesAreRecorded'
  BY <1>1, <1>2, <1>4 DEF StoreInv, RepliesAreRecorded
<1> QED BY <1>5, <1>6, <1>7, <1>8 DEF StoreInv, Allowed, StatusMap

\* A crash loses what was taken and nothing else.
LEMMA CrashLoses ==
  ASSUME StoreInv, Crash
  PROVE  StoreInv' /\ Allowed
<1>1. /\ UNCHANGED <<reqs, reps, queue, client, calls, closes>>
      /\ taker' = [phase |-> "idle", req |-> NoOne] /\ pipe' = <<>>
      /\ disp' = [phase |-> "poll", at |-> 0, size |-> 0] /\ closer' = NoOne
  BY DEF Crash, files, clients, Idle, Polling
<1>2. pipe' \in Seq(Requests) /\ DOMAIN pipe' = {}
  BY <1>1
<1>3. /\ \A x : InQueue(x)' <=> InQueue(x)
      /\ \A x : ~ InPipe(x)'
  BY <1>1, <1>2 DEF InQueue, InPipe
<1>4. \A x \in Requests : Status(x)' = IF Status(x) = "taken" THEN "lost" ELSE Status(x)
  BY <1>1, <1>3 DEF Status
<1>5. Promise!Crash
  BY <1>4 DEF Promise!Crash
<1>6. StoreTypes' /\ AtRecord'
  BY <1>1, <1>2 DEF StoreInv, StoreTypes, AtRecord
<1>7. SavedOnce' /\ RepliesAreRecorded'
  BY <1>1, <1>3 DEF StoreInv, SavedOnce, RepliesAreRecorded
<1>8. InMemory'
  BY <1>1, <1>2, <1>3 DEF InMemory
<1> QED BY <1>5, <1>6, <1>7, <1>8 DEF StoreInv, Allowed, Promise!Next

\* Every step keeps the invariant and is allowed by the promise.
LEMMA StepKeeps ==
  ASSUME StoreInv, [Next]_vars
  PROVE  StoreInv' /\ Allowed
<1>1. CASE Next
  <2>1. ASSUME NEW u \in Requests,
               ClientSend(u) \/ ClientGivesUp(u) \/ ClientCloses(u) \/ AnswerPoll(u)
        PROVE  StoreInv' /\ Allowed
    BY <2>1, ClientKeeps
  <2>2. ASSUME NEW u \in Requests, SaveRequest(u)
        PROVE  StoreInv' /\ Allowed
    BY <2>2, SaveTakes
  <2>3. ASSUME NEW u \in Requests, RemoveRequest(u)
        PROVE  StoreInv' /\ Allowed
    BY <2>3, RemoveCloses
  <2>4. ASSUME NEW u \in Requests, LateExecution(u)
        PROVE  StoreInv' /\ Allowed
    BY <2>4, DispatcherKeeps
  <2>5. CASE Taker
    BY <2>5, PipeKeeps, AnswerKeeps DEF Taker
  <2>6. CASE Dispatcher
    BY <2>6, DispatcherKeeps, PollRecords, OpenReplies, WriteReplies, MarkKeeps DEF Dispatcher
  <2>7. CASE RemoveReply
    BY <2>7, RemoveKeeps
  <2>8. CASE Crash
    BY <2>8, CrashLoses
  <2>9. CASE Restart
    BY <2>9, DispatcherKeeps
  <2> QED BY <1>1, <2>1, <2>2, <2>3, <2>4, <2>5, <2>6, <2>7, <2>8, <2>9 DEF Next
<1>2. CASE UNCHANGED vars
  <2>1. UNCHANGED <<reqs, reps, queue, taker, pipe, disp, closer, client, calls, closes>>
    BY <1>2 DEF vars, files, threads, clients
  <2>2. /\ \A x : InQueue(x)' <=> InQueue(x)
        /\ \A x : InPipe(x)' <=> InPipe(x)
    BY <2>1 DEF InQueue, InPipe
  <2>3. StatusMap' = StatusMap
    BY <2>1, <2>2, SameStatus
  <2>4. StoreTypes' /\ AtRecord' /\ SavedOnce' /\ InMemory' /\ RepliesAreRecorded'
    BY <2>1, <2>2 DEF StoreInv, StoreTypes, AtRecord, SavedOnce, InMemory, RepliesAreRecorded
  <2> QED BY <2>3, <2>4 DEF StoreInv, Allowed
<1> QED BY <1>1, <1>2

-----------------------------------------------------------------------------

\* What the files and the memory hold fits together in every state
\* (request_worker.cpp:33-46, titanic.cpp:64-122, close_worker.cpp:28-36).
THEOREM StoreInvariant == Spec => []StoreInv
<1>1. Init => StoreInv
  BY InitStore
<1>2. StoreInv /\ [Next]_vars => StoreInv'
  BY StepKeeps
<1> QED BY <1>1, <1>2, PTL DEF Spec

\* Titanic keeps its promise: a recorded request is never lost, whatever crashes,
\* and no request is closed of which no reply was begun; that the reply was complete
\* when the client read it is not promised (titanic.cpp:122, reply_worker.cpp:33).
THEOREM Implements == Spec => KeepsPromise
<1>1. Init => Promise!Init
  BY InitStore
<1>2. StoreInv /\ [Next]_vars => [Promise!Next]_StatusMap
  BY StepKeeps DEF Allowed
<1>3. KeepsPromise <=> Promise!Init /\ [][Promise!Next]_StatusMap
  BY DEF KeepsPromise, Promise!Spec, StatusMap
<1> QED BY <1>1, <1>2, <1>3, StoreInvariant, PTL DEF Spec

-----------------------------------------------------------------------------
(* How often a service is carried out, and when the dispatcher can fail.   *)

\* A request has one record in the queue file.
RecordedOnce ==
    \A i, j \in DOMAIN queue : queue[i].req = queue[j].req => i = j

CountTypes ==
    /\ late \in [Requests -> Nat] /\ executed \in [Requests -> Nat]
    /\ timeouts \in [Requests -> Nat] /\ crashes \in Nat

\* The record the dispatcher works at is pending.
AtPending ==
    disp.phase \in {"call", "save", "saving", "mark"} => ~ queue[disp.at].done

\* The service of u has been carried out and the dispatcher knows it.
Settled(u) == Done(u) \/ (disp.phase \in {"save", "saving", "mark"} /\ This = u)

Budget ==
    \A u \in Requests :
       /\ executed[u] + late[u] <= timeouts[u] + crashes + (IF Settled(u) THEN 1 ELSE 0)
       /\ Settled(u) => executed[u] > 0

AttemptInv == CountTypes /\ RecordedOnce /\ AtPending /\ Budget

\* The dispatcher will not load the .req of u again, unless it is started anew.
Past(u) == Done(u) \/ (disp.phase \in {"saving", "mark"} /\ This = u)

\* The client of u has seen a reply or can see one, or its request is removed.
HasReply(u) ==
    \/ reps[u] # "none" \/ u \in closes \/ client[u] = "replied"
    \/ u \notin reqs /\ InQueue(u)

\* Without a crash whatever a client can do about a reply comes after that point.
PastInv ==
    crashes = 0 => /\ disp.phase # "failed"
                   /\ \A u \in Requests : HasReply(u) => Past(u)

\* What the queue file says after Poll: a record more, which is pending.
LEMMA PollAppends ==
  ASSUME StoreInv, Poll
  PROVE  /\ queue \in Seq(Record)
         /\ \/ queue' = queue /\ pipe' = pipe
            \/ \E u \in Requests : /\ queue' = Append(queue, [req |-> u, done |-> FALSE])
                                   /\ u \in reqs /\ ~ InQueue(u)
         /\ disp' = [phase |-> "scan", at |-> 1, size |-> Len(queue')]
<1>1. CASE pipe = <<>>
  BY <1>1 DEF Poll, StoreInv, StoreTypes
<1>2. CASE pipe # <<>>
  <2>1. PICK u \in Requests : u = Head(pipe)
    BY <1>2 DEF StoreInv, StoreTypes
  <2>2. queue' = Append(queue, [req |-> u, done |-> FALSE])
    BY <1>2, <2>1 DEF Poll
  <2>3. 1 \in DOMAIN pipe /\ pipe[1] = u
    BY <1>2, <2>1 DEF StoreInv, StoreTypes
  <2>4. u \in reqs /\ ~ InQueue(u)
    BY <2>3 DEF StoreInv, InMemory, InPipe
  <2> QED BY <2>2, <2>4 DEF Poll, StoreInv, StoreTypes
<1> QED BY <1>1, <1>2

\* Such a record is no record of anything done.
LEMMA PollSettlesNothing ==
  ASSUME StoreInv, Poll
  PROVE  /\ \A u \in Requests : Done(u)' <=> Done(u)
         /\ RecordedOnce => RecordedOnce'
         /\ \A u \in Requests : u \notin reqs => (InQueue(u)' <=> InQueue(u))
<1>1. CASE queue' = queue
  BY <1>1 DEF Done, RecordedOnce, InQueue
<1>2. CASE \E u \in Requests : /\ queue' = Append(queue, [req |-> u, done |-> FALSE])
                               /\ u \in reqs /\ ~ InQueue(u)
  <2>1. PICK u \in Requests : /\ queue' = Append(queue, [req |-> u, done |-> FALSE])
                              /\ u \in reqs /\ ~ InQueue(u)
    BY <1>2
  <2>2. queue \in Seq(Record) /\ [req |-> u, done |-> FALSE] \in Record
    BY PollAppends DEF Record
  <2>3. /\ DOMAIN queue = 1 .. Len(queue) /\ DOMAIN queue' = 1 .. Len(queue) + 1
        /\ Len(queue) \in Nat
        /\ \A i \in 1 .. Len(queue) : queue'[i] = queue[i]
        /\ queue'[Len(queue) + 1].req = u /\ queue'[Len(queue) + 1].done = FALSE
    BY <2>1, <2>2
  <2>4. \A i \in DOMAIN queue' : i \in DOMAIN queue \/ i = Len(queue) + 1
    BY <2>3
  <2>5. \A i \in DOMAIN queue : i \in DOMAIN queue' /\ queue'[i] = queue[i]
    BY <2>3
  <2>6. \A i \in DOMAIN queue : queue[i].req # u
    BY <2>1 DEF InQueue
  <2>7. \A x \in Requests : Done(x)' <=> Done(x)
    BY <2>3, <2>4, <2>5 DEF Done
  <2>8. RecordedOnce => RecordedOnce'
    BY <2>3, <2>4, <2>5, <2>6 DEF RecordedOnce
  <2>9. \A x \in Requests : x \notin reqs => (InQueue(x)' <=> InQueue(x))
    BY <2>1, <2>3, <2>4, <2>5 DEF InQueue
  <2> QED BY <2>7, <2>8, <2>9
<1> QED BY <1>1, <1>2, PollAppends

\* The '+' of this record, and of no other.
LEMMA MarkSettles ==
  ASSUME StoreInv, Mark
  PROVE  /\ \A u \in Requests : Done(u)' <=> Done(u) \/ u = This
         /\ RecordedOnce => RecordedOnce'
         /\ \A u \in Requests : InQueue(u)' <=> InQueue(u)
<1> DEFINE d == disp.at
<1>1. /\ d \in DOMAIN queue /\ queue \in Seq(Record) /\ This = queue[d].req
      /\ queue' = [queue EXCEPT ![d].done = TRUE]
  BY ThisIsRecorded DEF Mark, StoreInv, StoreTypes, This
<1> HIDE DEF d
<1>2. queue[d] \in Record
  BY <1>1
<1>3. queue' = [queue EXCEPT ![d] = [queue[d] EXCEPT !.done = TRUE]]
  BY <1>1
<1>4. /\ [queue[d] EXCEPT !.done = TRUE].req = queue[d].req
      /\ [queue[d] EXCEPT !.done = TRUE].done = TRUE
  BY <1>2 DEF Record
<1>5. /\ DOMAIN queue' = DOMAIN queue
      /\ \A i \in DOMAIN queue : queue'[i].req = queue[i].req
      /\ \A i \in DOMAIN queue : i # d => queue'[i].done = queue[i].done
      /\ queue'[d].done = TRUE
  BY <1>1, <1>3, <1>4
<1>6. \A u \in Requests : Done(u)' <=> Done(u) \/ u = This
  BY <1>1, <1>5, Zenon DEF Done
<1>7. RecordedOnce => RecordedOnce'
  BY <1>5 DEF RecordedOnce
<1>8. \A u \in Requests : InQueue(u)' <=> InQueue(u)
  BY <1>5 DEF InQueue
<1> QED BY <1>6, <1>7, <1>8

\* A call that nobody waits for is carried out once, at once or later, or not.
LEMMA AbandonCounts ==
  ASSUME CountTypes, NEW u \in Requests, Abandon(u)
  PROVE  /\ late' \in [Requests -> Nat] /\ executed' \in [Requests -> Nat]
         /\ \A x \in Requests :
              /\ executed'[x] >= executed[x]
              /\ executed'[x] + late'[x] <= executed[x] + late[x] + (IF x = u THEN 1 ELSE 0)
<1>1. CASE UNCHANGED <<late, executed>>
  BY <1>1 DEF CountTypes
<1>2. CASE executed' = [executed EXCEPT ![u] = @ + 1] /\ UNCHANGED late
  BY <1>2 DEF CountTypes
<1>3. CASE late' = [late EXCEPT ![u] = @ + 1] /\ UNCHANGED executed
  BY <1>3 DEF CountTypes
<1> QED BY <1>1, <1>2, <1>3 DEF Abandon

\* The record of a call that is made is pending, so that it is the first of this life.
LEMMA CallIsUnsettled ==
  ASSUME StoreInv, AttemptInv, disp.phase = "call"
  PROVE  This \in Requests /\ ~ Done(This)
<1>1. disp.at \in DOMAIN queue /\ This \in Requests
  BY ThisIsRecorded
<1>2. ~ queue[disp.at].done
  BY DEF AttemptInv, AtPending
<1> QED BY <1>1, <1>2 DEF AttemptInv, RecordedOnce, Done, This

\* Steps that neither the dispatcher nor a service makes.
LEMMA OthersAttemptNothing ==
  ASSUME AttemptInv, UNCHANGED <<queue, disp, service, crashes>>
  PROVE  AttemptInv'
<1>1. UNCHANGED <<late, executed, timeouts>>
  BY DEF service
<1>2. \A u \in Requests : Settled(u)' <=> Settled(u)
  BY DEF Settled, Done, This
<1>3. CountTypes' /\ RecordedOnce' /\ AtPending'
  BY <1>1 DEF AttemptInv, CountTypes, RecordedOnce, AtPending
<1>4. Budget'
  BY <1>1, <1>2 DEF AttemptInv, Budget
<1> QED BY <1>3, <1>4 DEF AttemptInv

\* An abandoned call that is carried out was counted before.
LEMMA LateIsCounted ==
  ASSUME AttemptInv, NEW u \in Requests, LateExecution(u)
  PROVE  AttemptInv'
<1>1. /\ UNCHANGED <<queue, disp, timeouts, crashes>>
      /\ late[u] > 0
      /\ late' = [late EXCEPT ![u] = @ - 1] /\ executed' = [executed EXCEPT ![u] = @ + 1]
  BY DEF LateExecution, files, threads
<1>2. \A x \in Requests : Settled(x)' <=> Settled(x)
  BY <1>1 DEF Settled, Done, This
<1>3. /\ late \in [Requests -> Nat] /\ executed \in [Requests -> Nat]
      /\ timeouts \in [Requests -> Nat] /\ crashes \in Nat
  BY DEF AttemptInv, CountTypes
<1>4. /\ late' \in [Requests -> Nat] /\ executed' \in [Requests -> Nat]
      /\ \A x \in Requests : /\ executed'[x] + late'[x] = executed[x] + late[x]
                             /\ executed'[x] >= executed[x]
  BY <1>1, <1>3
<1>5. CountTypes' /\ RecordedOnce' /\ AtPending'
  BY <1>1, <1>3, <1>4 DEF AttemptInv, CountTypes, RecordedOnce, AtPending
<1>6. Budget'
  <2> SUFFICES ASSUME NEW x \in Requests
               PROVE  /\ executed'[x] + late'[x] <=
                           timeouts'[x] + crashes' + (IF Settled(x)' THEN 1 ELSE 0)
                      /\ Settled(x)' => executed'[x] > 0
    BY DEF Budget
  <2>1. /\ executed[x] + late[x] <= timeouts[x] + crashes + (IF Settled(x) THEN 1 ELSE 0)
        /\ Settled(x) => executed[x] > 0
    BY DEF AttemptInv, Budget
  <2>2. executed[x] \in Nat /\ executed'[x] \in Nat
    BY <1>3, <1>4
  <2> QED BY <1>1, <1>2, <1>4, <2>1, <2>2
<1> QED BY <1>5, <1>6 DEF AttemptInv

\* The scan, up to the call; a time-out of mmi.service only adds to the budget.
LEMMA ScanAttemptsNothing ==
  ASSUME StoreInv, AttemptInv, EndOfScan \/ Skip \/ Load \/ LoadFails
  PROVE  AttemptInv'
<1>1. /\ UNCHANGED <<queue, late, executed, crashes>>
      /\ disp.phase = "scan"
      /\ \/ timeouts' = timeouts
         \/ timeouts' = [timeouts EXCEPT ![This] = @ + 1]
  BY DEF EndOfScan, Skip, Load, LoadFails, files, service, Scanning
<1>2. \/ disp'.phase \in {"poll", "scan", "failed"}
      \/ disp'.phase = "call" /\ disp'.at = disp.at /\ ~ queue[disp.at].done
  <2>1. disp = [phase |-> disp.phase, at |-> disp.at, size |-> disp.size]
    BY DEF StoreInv, StoreTypes
  <2>2. CASE EndOfScan
    BY <2>2 DEF EndOfScan, Polling
  <2>3. CASE Skip
    BY <2>1, <2>3 DEF Skip, NextRecord
  <2>4. CASE Load
    <3>1. /\ disp' = [disp EXCEPT !.phase = "call"] \/ disp' = NextRecord
          /\ ~ queue[disp.at].done
      BY <2>4 DEF Load
    <3> QED BY <2>1, <3>1 DEF NextRecord
  <2>5. CASE LoadFails
    BY <2>1, <2>5 DEF LoadFails
  <2> QED BY <2>2, <2>3, <2>4, <2>5
<1>3. \A x \in Requests : Settled(x)' <=> Settled(x)
  BY <1>1, <1>2 DEF Settled, Done
<1>4. /\ late \in [Requests -> Nat] /\ executed \in [Requests -> Nat]
      /\ timeouts \in [Requests -> Nat] /\ crashes \in Nat
  BY DEF AttemptInv, CountTypes
<1>5. timeouts' \in [Requests -> Nat] /\ \A x \in Requests : timeouts'[x] >= timeouts[x]
  BY <1>1, <1>4
<1>6. CountTypes' /\ RecordedOnce' /\ AtPending'
  BY <1>1, <1>2, <1>4, <1>5 DEF AttemptInv, CountTypes, RecordedOnce, AtPending
<1>7. Budget'
  <2> SUFFICES ASSUME NEW x \in Requests
               PROVE  /\ executed'[x] + late'[x] <=
                           timeouts'[x] + crashes' + (IF Settled(x)' THEN 1 ELSE 0)
                      /\ Settled(x)' => executed'[x] > 0
    BY DEF Budget
  <2>1. /\ executed[x] + late[x] <= timeouts[x] + crashes + (IF Settled(x) THEN 1 ELSE 0)
        /\ Settled(x) => executed[x] > 0
    BY DEF AttemptInv, Budget
  <2>2. /\ executed[x] \in Nat /\ late[x] \in Nat
        /\ timeouts[x] \in Nat /\ timeouts'[x] \in Nat
    BY <1>4, <1>5
  <2> QED BY <1>1, <1>3, <1>4, <1>5, <2>1, <2>2
<1> QED BY <1>6, <1>7 DEF AttemptInv

\* A new record is pending.
LEMMA PollAttemptsNothing ==
  ASSUME StoreInv, AttemptInv, Poll
  PROVE  AttemptInv'
<1>1. /\ UNCHANGED <<late, executed, timeouts, crashes>>
      /\ disp.phase = "poll" /\ disp'.phase = "scan"
  BY DEF Poll, service
<1>2. (\A u \in Requests : Done(u)' <=> Done(u)) /\ RecordedOnce'
  BY PollSettlesNothing DEF AttemptInv
<1>3. \A x \in Requests : Settled(x)' <=> Settled(x)
  BY <1>1, <1>2 DEF Settled
<1>4. CountTypes' /\ AtPending'
  BY <1>1 DEF AttemptInv, CountTypes, AtPending
<1>5. Budget'
  BY <1>1, <1>3 DEF AttemptInv, Budget
<1> QED BY <1>2, <1>4, <1>5 DEF AttemptInv

\* An answer in time is the one attempt that settles the request.
LEMMA AnswerSettles ==
  ASSUME StoreInv, AttemptInv, Answered
  PROVE  AttemptInv'
<1>1. /\ UNCHANGED <<queue, late, timeouts, crashes>>
      /\ disp.phase = "call" /\ disp' = [disp EXCEPT !.phase = "save"]
      /\ executed' = [executed EXCEPT ![This] = @ + 1]
  BY DEF Answered, files
<1>2. PICK u \in Requests : u = This /\ ~ Done(u)
  BY <1>1, CallIsUnsettled
<1>3. disp'.phase = "save" /\ disp'.at = disp.at
  BY <1>1 DEF StoreInv, StoreTypes
<1>4. /\ ~ Settled(u) /\ Settled(u)'
      /\ \A x \in Requests \ {u} : Settled(x)' <=> Settled(x)
  BY <1>1, <1>2, <1>3 DEF Settled, Done, This
<1>5. /\ late \in [Requests -> Nat] /\ executed \in [Requests -> Nat]
      /\ timeouts \in [Requests -> Nat] /\ crashes \in Nat
  BY DEF AttemptInv, CountTypes
<1>6. /\ executed' \in [Requests -> Nat] /\ executed'[u] = executed[u] + 1
      /\ \A x \in Requests \ {u} : executed'[x] = executed[x]
  BY <1>1, <1>2, <1>5
<1>7. CountTypes' /\ RecordedOnce' /\ AtPending'
  BY <1>1, <1>3, <1>5, <1>6 DEF AttemptInv, CountTypes, RecordedOnce, AtPending
<1>8. Budget'
  <2> SUFFICES ASSUME NEW x \in Requests
               PROVE  /\ executed'[x] + late'[x] <=
                           timeouts'[x] + crashes' + (IF Settled(x)' THEN 1 ELSE 0)
                      /\ Settled(x)' => executed'[x] > 0
    BY DEF Budget
  <2>1. /\ executed[x] + late[x] <= timeouts[x] + crashes + (IF Settled(x) THEN 1 ELSE 0)
        /\ Settled(x) => executed[x] > 0
    BY DEF AttemptInv, Budget
  <2>2. executed[x] \in Nat /\ late[x] \in Nat /\ timeouts[x] \in Nat
    BY <1>5
  <2>3. CASE x = u
    BY <1>1, <1>4, <1>5, <1>6, <2>1, <2>2, <2>3
  <2>4. CASE x # u
    BY <1>1, <1>4, <1>6, <2>1, <2>4
  <2> QED BY <2>3, <2>4
<1> QED BY <1>7, <1>8 DEF AttemptInv

\* The reply is saved, and then the record is marked: settled it stays.
LEMMA SavingKeepsSettled ==
  ASSUME StoreInv, AttemptInv, OpenReply \/ WriteReply \/ Mark
  PROVE  AttemptInv'
<1>1. UNCHANGED <<late, executed, timeouts, crashes>>
  BY DEF OpenReply, WriteReply, Mark, service
<1>2. (\A x \in Requests : Settled(x)' <=> Settled(x)) /\ RecordedOnce' /\ AtPending'
  <2>1. CASE OpenReply \/ WriteReply
    <3>1. /\ queue' = queue /\ disp.phase \in {"save", "saving"}
          /\ disp' = [disp EXCEPT !.phase = "saving"] \/ disp' = [disp EXCEPT !.phase = "mark"]
      BY <2>1 DEF OpenReply, WriteReply
    <3>2. disp'.phase \in {"saving", "mark"} /\ disp'.at = disp.at
      BY <3>1 DEF StoreInv, StoreTypes
    <3> QED BY <3>1, <3>2 DEF AttemptInv, RecordedOnce, AtPending, Settled, Done, This
  <2>2. CASE Mark
    <3>1. disp.phase = "mark" /\ disp'.phase = "scan"
      BY <2>2 DEF Mark, NextRecord, StoreInv, StoreTypes
    <3>2. (\A u \in Requests : Done(u)' <=> Done(u) \/ u = This) /\ RecordedOnce'
      BY <2>2, MarkSettles DEF AttemptInv
    <3> QED BY <3>1, <3>2 DEF AtPending, Settled
  <2> QED BY <2>1, <2>2
<1>3. CountTypes' /\ Budget'
  BY <1>1, <1>2 DEF AttemptInv, CountTypes, Budget
<1> QED BY <1>2, <1>3 DEF AttemptInv

\* A call that is abandoned, by a time-out or by a crash, is counted by either; a
\* crash between the answer and the '+' makes a settled request pending again.
LEMMA AbandonIsCounted ==
  ASSUME StoreInv, AttemptInv, CallTimeout \/ Crash
  PROVE  AttemptInv'
<1>1. /\ queue' = queue
      /\ disp'.phase \in {"poll", "scan"}
  <2>1. CASE CallTimeout
    <3>1. disp' = [disp EXCEPT !.phase = "scan", !.at = @ + 1] /\ queue' = queue
      BY <2>1 DEF CallTimeout, NextRecord, files
    <3> QED BY <3>1 DEF StoreInv, StoreTypes
  <2>2. CASE Crash
    BY <2>2 DEF Crash, files, Polling
  <2> QED BY <2>1, <2>2
<1>2. /\ late \in [Requests -> Nat] /\ executed \in [Requests -> Nat]
      /\ timeouts \in [Requests -> Nat] /\ crashes \in Nat
  BY DEF AttemptInv, CountTypes
<1>3. /\ late' \in [Requests -> Nat] /\ executed' \in [Requests -> Nat]
      /\ timeouts' \in [Requests -> Nat] /\ crashes' \in Nat
      /\ \A x \in Requests :
           /\ executed'[x] >= executed[x]
           /\ executed'[x] + late'[x] + (IF Settled(x) THEN 1 ELSE 0) <=
                executed[x] + late[x] + (timeouts'[x] - timeouts[x]) + (crashes' - crashes)
                  + (IF Done(x) THEN 1 ELSE 0)
  <2>1. CASE disp.phase = "call"
    <3>1. PICK u \in Requests : u = This
      BY <2>1, CallIsUnsettled
    <3>2. Abandon(u)
      BY <2>1, <3>1 DEF CallTimeout, Crash, Abandon
    <3>3. /\ late' \in [Requests -> Nat] /\ executed' \in [Requests -> Nat]
          /\ \A x \in Requests :
               /\ executed'[x] >= executed[x]
               /\ executed'[x] + late'[x] <= executed[x] + late[x] + (IF x = u THEN 1 ELSE 0)
      BY <3>2, AbandonCounts DEF AttemptInv
    <3>4. \A x \in Requests : Settled(x) <=> Done(x)
      BY <2>1 DEF Settled
    <3>5. \/ crashes' = crashes + 1 /\ timeouts' = timeouts
          \/ crashes' = crashes /\ timeouts' = [timeouts EXCEPT ![u] = @ + 1]
      BY <3>1 DEF CallTimeout, Crash
    <3>6. /\ timeouts' \in [Requests -> Nat] /\ crashes' \in Nat
          /\ \A x \in Requests :
               (IF x = u THEN 1 ELSE 0) <= (timeouts'[x] - timeouts[x]) + (crashes' - crashes)
      BY <1>2, <3>5
    <3>7. ASSUME NEW x \in Requests
          PROVE  executed'[x] + late'[x] + (IF Settled(x) THEN 1 ELSE 0) <=
                   executed[x] + late[x] + (timeouts'[x] - timeouts[x]) + (crashes' - crashes)
                     + (IF Done(x) THEN 1 ELSE 0)
      <4>1. /\ executed[x] \in Nat /\ late[x] \in Nat /\ timeouts[x] \in Nat
            /\ executed'[x] \in Nat /\ late'[x] \in Nat /\ timeouts'[x] \in Nat
        BY <1>2, <3>3, <3>6
      <4>2. executed'[x] + late'[x] <= executed[x] + late[x] + (IF x = u THEN 1 ELSE 0)
        BY <3>3
      <4>3. (IF x = u THEN 1 ELSE 0) <= (timeouts'[x] - timeouts[x]) + (crashes' - crashes)
        BY <3>6
      <4>4. (IF Settled(x) THEN 1 ELSE 0) = (IF Done(x) THEN 1 ELSE 0)
        BY <3>4
      <4> QED BY <1>2, <3>6, <4>1, <4>2, <4>3, <4>4
    <3> QED BY <3>3, <3>6, <3>7
  <2>2. CASE disp.phase # "call"
    <3>1. UNCHANGED <<late, executed, timeouts>> /\ crashes' = crashes + 1
      BY <2>2 DEF CallTimeout, Crash
    <3> QED BY <1>2, <3>1
  <2> QED BY <2>1, <2>2
<1>4. \A x \in Requests : Settled(x)' <=> Done(x)
  BY <1>1 DEF Settled, Done
<1>5. CountTypes' /\ RecordedOnce' /\ AtPending'
  BY <1>1, <1>3 DEF AttemptInv, CountTypes, RecordedOnce, AtPending
<1>6. Budget'
  <2> SUFFICES ASSUME NEW x \in Requests
               PROVE  /\ executed'[x] + late'[x] <=
                           timeouts'[x] + crashes' + (IF Settled(x)' THEN 1 ELSE 0)
                      /\ Settled(x)' => executed'[x] > 0
    BY DEF Budget
  <2>1. /\ executed[x] + late[x] <= timeouts[x] + crashes + (IF Settled(x) THEN 1 ELSE 0)
        /\ Settled(x) => executed[x] > 0
    BY DEF AttemptInv, Budget
  <2>2. /\ executed[x] \in Nat /\ late[x] \in Nat /\ timeouts[x] \in Nat
        /\ executed'[x] \in Nat /\ late'[x] \in Nat /\ timeouts'[x] \in Nat
    BY <1>2, <1>3
  <2>3. Done(x) => Settled(x)
    BY DEF Settled
  <2> QED BY <1>2, <1>3, <1>4, <2>1, <2>2, <2>3
<1> QED BY <1>5, <1>6 DEF AttemptInv

\* Every step keeps the budget.
LEMMA StepAttempts ==
  ASSUME StoreInv, AttemptInv, [Next]_vars
  PROVE  AttemptInv'
<1>1. CASE Next
  <2>1. ASSUME NEW u \in Requests,
               \/ ClientSend(u) \/ ClientGivesUp(u) \/ ClientCloses(u)
               \/ SaveRequest(u) \/ AnswerPoll(u) \/ RemoveRequest(u)
        PROVE  AttemptInv'
    BY <2>1, OthersAttemptNothing DEF ClientSend, ClientGivesUp, ClientCloses, SaveRequest,
       AnswerPoll, RemoveRequest, files, threads
  <2>2. ASSUME NEW u \in Requests, LateExecution(u)
        PROVE  AttemptInv'
    BY <2>2, LateIsCounted
  <2>3. CASE Taker \/ RemoveReply \/ Restart
    BY <2>3, OthersAttemptNothing DEF Taker, SendToPipe, AnswerRequest, RemoveReply, Restart,
       files, threads
  <2>4. CASE Dispatcher
    BY <2>4, ScanAttemptsNothing, PollAttemptsNothing, AnswerSettles, SavingKeepsSettled,
       AbandonIsCounted DEF Dispatcher
  <2>5. CASE Crash
    BY <2>5, AbandonIsCounted
  <2> QED BY <1>1, <2>1, <2>2, <2>3, <2>4, <2>5 DEF Next
<1>2. CASE UNCHANGED vars
  BY <1>2, OthersAttemptNothing DEF vars, files, threads
<1> QED BY <1>1, <1>2

\* The counts, the records and what the dispatcher is at fit together
\* (titanic.cpp:84-122).
THEOREM Attempts == Spec => []AttemptInv
<1>1. Init => AttemptInv
  <2> SUFFICES ASSUME Init PROVE AttemptInv OBVIOUS
  <2>1. DOMAIN queue = {} /\ disp.phase = "poll"
    BY DEF Init, Polling
  <2>2. /\ late = [u \in Requests |-> 0] /\ executed = [u \in Requests |-> 0]
        /\ timeouts = [u \in Requests |-> 0] /\ crashes = 0
    BY DEF Init
  <2>3. \A u \in Requests : ~ Settled(u)
    BY <2>1 DEF Settled, Done
  <2> QED BY <2>1, <2>2, <2>3 DEF AttemptInv, CountTypes, RecordedOnce, AtPending, Budget
<1>2. StoreInv /\ AttemptInv /\ [Next]_vars => AttemptInv'
  BY StepAttempts
<1> QED BY <1>1, <1>2, StoreInvariant, PTL DEF Spec

\* At least once, and not more often than time-outs and crashes explain: whatever the
\* order in which the reply is saved, the record marked and the process killed.
THEOREM OncePerAttemptHolds == Spec => []OncePerAttempt
<1>1. AttemptInv => OncePerAttempt
  <2> SUFFICES ASSUME AttemptInv, NEW u \in Requests
               PROVE  /\ executed[u] + late[u] <= 1 + timeouts[u] + crashes
                      /\ Done(u) => executed[u] > 0
    BY DEF OncePerAttempt
  <2>1. /\ executed[u] + late[u] <= timeouts[u] + crashes + (IF Settled(u) THEN 1 ELSE 0)
        /\ Settled(u) => executed[u] > 0
    BY DEF AttemptInv, Budget
  <2>2. executed[u] \in Nat /\ late[u] \in Nat /\ timeouts[u] \in Nat /\ crashes \in Nat
    BY DEF AttemptInv, CountTypes
  <2>3. Done(u) => Settled(u)
    BY DEF Settled
  <2> QED BY <2>1, <2>2, <2>3
<1> QED BY <1>1, Attempts, PTL

\* What the clients and the other workers do about a reply, they do when there is one.
LEMMA OthersSeeReplies ==
  ASSUME StoreInv, PastInv, UNCHANGED <<queue, disp, crashes>>,
         \A u \in Requests : HasReply(u)' => HasReply(u)
  PROVE  PastInv'
<1>1. \A u \in Requests : Past(u)' <=> Past(u)
  BY DEF Past, Done, This
<1> QED BY <1>1 DEF PastInv

\* A client closes what it was shown, and what is closed was replied to.
LEMMA ClientsSeeReplies ==
  ASSUME StoreInv, PastInv, NEW u \in Requests,
         \/ ClientSend(u) \/ ClientGivesUp(u) \/ ClientCloses(u) \/ AnswerPoll(u)
         \/ SaveRequest(u) \/ RemoveRequest(u) \/ LateExecution(u)
  PROVE  PastInv'
<1>1. UNCHANGED <<queue, disp, crashes, reps>>
  BY DEF ClientSend, ClientGivesUp, ClientCloses, AnswerPoll, SaveRequest, RemoveRequest,
         LateExecution, files, threads
<1>2. \A x : InQueue(x)' <=> InQueue(x)
  BY <1>1 DEF InQueue
<1>3. client \in [Requests -> {"new", "sent", "polling", "replied", "finished", "ended"}]
  BY DEF StoreInv, StoreTypes
<1>4. \A x \in Requests : HasReply(x)' => HasReply(x)
  <2>1. CASE ClientSend(u) \/ ClientGivesUp(u) \/ LateExecution(u)
    BY <1>1, <1>2, <1>3, <2>1
    DEF ClientSend, ClientGivesUp, LateExecution, HasReply, files, threads, clients
  <2>2. CASE ClientCloses(u)
    BY <1>1, <1>2, <1>3, <2>2 DEF ClientCloses, HasReply, files, threads
  <2>3. CASE AnswerPoll(u)
    BY <1>1, <1>2, <1>3, <2>3 DEF AnswerPoll, HasReply, files, threads
  <2>4. CASE SaveRequest(u)
    BY <1>1, <1>2, <2>4 DEF SaveRequest, HasReply
  <2>5. CASE RemoveRequest(u)
    BY <1>1, <1>2, <2>5 DEF RemoveRequest, HasReply
  <2> QED BY <2>1, <2>2, <2>3, <2>4, <2>5
<1> QED BY <1>1, <1>4, OthersSeeReplies

\* Telling the client 200 and removing a .rep make nothing to close.
LEMMA WorkersSeeReplies ==
  ASSUME StoreInv, PastInv, Taker \/ RemoveReply \/ Restart \/ UNCHANGED vars
  PROVE  PastInv'
<1>1. /\ UNCHANGED <<queue, disp, crashes, reqs, closes>>
      /\ \A u \in Requests : reps'[u] # "none" => reps[u] # "none"
      /\ \A u \in Requests : client'[u] = "replied" => client[u] = "replied"
  <2>1. reps \in [Requests -> {"none", "partial", "whole"}]
    BY DEF StoreInv, StoreTypes
  <2>2. client \in [Requests -> {"new", "sent", "polling", "replied", "finished", "ended"}]
    BY DEF StoreInv, StoreTypes
  <2>3. CASE Taker
    BY <2>2, <2>3 DEF Taker, SendToPipe, AnswerRequest, files, threads, clients
  <2>4. CASE RemoveReply
    <3>1. /\ UNCHANGED <<queue, disp, crashes, reqs, closes, client>>
          /\ reps' = [reps EXCEPT ![closer] = "none"] \/ reps' = reps
      BY <2>4 DEF RemoveReply, clients
    <3> QED BY <2>1, <3>1
  <2>5. CASE Restart \/ UNCHANGED vars
    BY <2>5 DEF Restart, vars, files, threads, clients
  <2> QED BY <2>3, <2>4, <2>5
<1>2. \A u : InQueue(u)' <=> InQueue(u)
  BY <1>1 DEF InQueue
<1>3. \A u \in Requests : HasReply(u)' => HasReply(u)
  BY <1>1, <1>2 DEF HasReply
<1> QED BY <1>1, <1>3, OthersSeeReplies

\* The scan finds the .req of every pending record, and leaves what is done done.
LEMMA ScanFindsRequests ==
  ASSUME StoreInv, AttemptInv, PastInv,
         EndOfScan \/ Skip \/ Load \/ LoadFails \/ Answered \/ CallTimeout
  PROVE  PastInv'
<1> SUFFICES ASSUME crashes' = 0
             PROVE  disp'.phase # "failed" /\ \A u \in Requests : HasReply(u)' => Past(u)'
  BY DEF PastInv
<1>1. /\ UNCHANGED <<reqs, reps, queue, client, closes, crashes>>
      /\ disp.phase \in {"scan", "call"}
  BY DEF EndOfScan, Skip, Load, LoadFails, Answered, CallTimeout, files, clients, Scanning
<1>2. \A u \in Requests : HasReply(u) => Past(u)
  BY <1>1 DEF PastInv
<1>3. ~ LoadFails
  <2> SUFFICES ASSUME LoadFails PROVE FALSE OBVIOUS
  <2>1. /\ disp.phase = "scan" /\ disp.at <= disp.size
        /\ ~ queue[disp.at].done /\ This \notin reqs
    BY DEF LoadFails, Scanning
  <2>2. disp.at \in 1 .. Len(queue) /\ queue \in Seq(Record)
    <3>1. /\ queue \in Seq(Record) /\ disp.at \in Nat /\ disp.size \in Nat
          /\ 1 <= disp.at /\ disp.size <= Len(queue)
      BY <2>1 DEF StoreInv, StoreTypes, AtRecord
    <3>2. Len(queue) \in Nat
      BY <3>1
    <3> QED BY <2>1, <3>1, <3>2
  <2>3. disp.at \in DOMAIN queue /\ This \in Requests
    <3>1. disp.at \in DOMAIN queue /\ queue[disp.at] \in Record
      BY <2>2
    <3> QED BY <3>1 DEF This, Record
  <2>4. HasReply(This)
    BY <2>1, <2>3 DEF HasReply, InQueue, This
  <2>5. Done(This)
    BY <1>2, <2>1, <2>3, <2>4 DEF Past
  <2> QED BY <2>1, <2>3, <2>5 DEF Done, AttemptInv, RecordedOnce, This
<1>4. disp'.phase # "failed"
  <2>1. disp \in [phase : {"poll", "scan", "call", "save", "saving", "mark", "failed"},
                   at : Nat, size : Nat]
    BY DEF StoreInv, StoreTypes
  <2>2. \/ disp' = [phase |-> "poll", at |-> 0, size |-> 0]
        \/ disp' = [disp EXCEPT !.phase = "call"] \/ disp' = [disp EXCEPT !.phase = "save"]
        \/ disp' = [disp EXCEPT !.phase = "scan", !.at = @ + 1]
    BY <1>3 DEF EndOfScan, Skip, Load, Answered, CallTimeout, NextRecord, Polling
  <2>3. CASE disp' = [phase |-> "poll", at |-> 0, size |-> 0]
    BY <2>3
  <2>4. CASE disp' = [disp EXCEPT !.phase = "call"] \/ disp' = [disp EXCEPT !.phase = "save"]
    BY <2>1, <2>4
  <2>5. CASE disp' = [disp EXCEPT !.phase = "scan", !.at = @ + 1]
    BY <2>1, <2>5
  <2> QED BY <2>2, <2>3, <2>4, <2>5
<1>5. \A u \in Requests : HasReply(u)' <=> HasReply(u)
  BY <1>1 DEF HasReply, InQueue
<1>6. \A u \in Requests : Past(u) => Past(u)'
  BY <1>1 DEF Past, Done
<1> QED BY <1>2, <1>4, <1>5, <1>6

\* What the dispatcher records, saves and marks.
LEMMA DispatcherPasses ==
  ASSUME StoreInv, AttemptInv, PastInv, Poll \/ OpenReply \/ WriteReply \/ Mark
  PROVE  PastInv'
<1> SUFFICES ASSUME crashes' = 0
             PROVE  disp'.phase # "failed" /\ \A u \in Requests : HasReply(u)' => Past(u)'
  BY DEF PastInv
<1>1. UNCHANGED <<reqs, client, closes, crashes>>
  BY DEF Poll, OpenReply, WriteReply, Mark, clients
<1>2. \A u \in Requests : HasReply(u) => Past(u)
  BY <1>1 DEF PastInv
<1>3. reps \in [Requests -> {"none", "partial", "whole"}]
  BY DEF StoreInv, StoreTypes
<1>4. CASE Poll
  <2>1. disp.phase = "poll" /\ disp'.phase = "scan" /\ reps' = reps
    BY <1>4 DEF Poll
  <2>2. /\ \A u \in Requests : Done(u)' <=> Done(u)
        /\ \A u \in Requests : u \notin reqs => (InQueue(u)' <=> InQueue(u))
    BY <1>4, PollSettlesNothing
  <2>3. \A u \in Requests : HasReply(u)' => HasReply(u)
    BY <1>1, <2>1, <2>2 DEF HasReply
  <2> QED BY <1>2, <2>1, <2>2, <2>3 DEF Past
<1>5. CASE OpenReply
  <2>1. /\ disp.phase = "save" /\ disp' = [disp EXCEPT !.phase = "saving"] /\ queue' = queue
        /\ reps' = [reps EXCEPT ![This] = "partial"]
    BY <1>5 DEF OpenReply
  <2>2. disp'.phase = "saving" /\ disp'.at = disp.at
    BY <2>1 DEF StoreInv, StoreTypes
  <2>3. \A u \in Requests : HasReply(u)' => HasReply(u) \/ u = This
    BY <1>1, <1>3, <2>1 DEF HasReply, InQueue
  <2>4. \A u \in Requests : Past(u) \/ u = This => Past(u)'
    BY <2>1, <2>2 DEF Past, Done, This
  <2> QED BY <1>2, <2>2, <2>3, <2>4
<1>6. CASE WriteReply
  <2>1. /\ disp.phase = "saving" /\ disp' = [disp EXCEPT !.phase = "mark"] /\ queue' = queue
        /\ reps' = [reps EXCEPT ![This] = IF @ = "none" THEN @ ELSE "whole"]
    BY <1>6 DEF WriteReply
  <2>2. disp'.phase = "mark" /\ disp'.at = disp.at
    BY <2>1 DEF StoreInv, StoreTypes
  <2>3. \A u \in Requests : HasReply(u)' => HasReply(u)
    BY <1>1, <1>3, <2>1 DEF HasReply, InQueue
  <2>4. \A u \in Requests : Past(u) => Past(u)'
    BY <2>1, <2>2 DEF Past, Done, This
  <2> QED BY <1>2, <2>2, <2>3, <2>4
<1>7. CASE Mark
  <2>1. disp.phase = "mark" /\ disp'.phase = "scan" /\ reps' = reps
    BY <1>7 DEF Mark, NextRecord, StoreInv, StoreTypes
  <2>2. /\ \A u \in Requests : Done(u)' <=> Done(u) \/ u = This
        /\ \A u \in Requests : InQueue(u)' <=> InQueue(u)
    BY <1>7, MarkSettles
  <2>3. \A u \in Requests : HasReply(u)' => HasReply(u)
    BY <1>1, <2>1, <2>2 DEF HasReply
  <2> QED BY <1>2, <2>1, <2>2, <2>3 DEF Past
<1> QED BY <1>4, <1>5, <1>6, <1>7

\* The dispatcher fails only after a crash: however the closing of requests and the scan
\* interleave, a .req goes only when its record is past.
THEOREM FailsOnlyAfterCrashHolds == Spec => []FailsOnlyAfterCrash
<1>1. Init => PastInv
  <2> SUFFICES ASSUME Init PROVE PastInv OBVIOUS
  <2>1. DOMAIN queue = {} /\ disp.phase = "poll"
    BY DEF Init, Polling
  <2>2. \A u \in Requests : ~ HasReply(u)
    BY <2>1 DEF Init, HasReply, InQueue
  <2> QED BY <2>1, <2>2 DEF PastInv
<1>2. StoreInv /\ AttemptInv /\ PastInv /\ [Next]_vars => PastInv'
  <2> SUFFICES ASSUME StoreInv, AttemptInv, PastInv, [Next]_vars PROVE PastInv' OBVIOUS
  <2>1. ASSUME NEW u \in Requests,
               \/ ClientSend(u) \/ ClientGivesUp(u) \/ ClientCloses(u) \/ AnswerPoll(u)
               \/ SaveRequest(u) \/ RemoveRequest(u) \/ LateExecution(u)
        PROVE  PastInv'
    BY <2>1, ClientsSeeReplies
  <2>2. CASE Taker \/ RemoveReply \/ Restart \/ UNCHANGED vars
    BY <2>2, WorkersSeeReplies
  <2>3. CASE Dispatcher
    BY <2>3, ScanFindsRequests, DispatcherPasses DEF Dispatcher
  <2>4. CASE Crash
    <3>1. crashes' # 0
      BY <2>4 DEF Crash, AttemptInv, CountTypes
    <3> QED BY <3>1 DEF PastInv
  <2> QED BY <2>1, <2>2, <2>3, <2>4 DEF Next
<1>3. PastInv /\ AttemptInv => FailsOnlyAfterCrash
  BY DEF PastInv, AttemptInv, CountTypes, FailsOnlyAfterCrash
<1> QED BY <1>1, <1>2, <1>3, StoreInvariant, Attempts, PTL DEF Spec

-----------------------------------------------------------------------------
(* The types that the arguments above did not need.                        *)

Limits ==
    /\ up \in BOOLEAN /\ closing \in BOOLEAN
    /\ timeouts \in [Requests -> 0 .. MaxTimeouts]
    /\ crashes \in 0 .. MaxCrashes

\* A time-out and a crash happen below their bounds only.
LEMMA StepLimits ==
  ASSUME Limits, [Next]_vars
  PROVE  Limits'
<1>1. closing' \in BOOLEAN /\ up' \in BOOLEAN
  <2>1. closing' \in {closing, TRUE, FALSE} /\ up' \in {up, TRUE, FALSE}
    BY DEF Next, ClientSend, ClientGivesUp, ClientCloses, SaveRequest, AnswerPoll, RemoveRequest,
           LateExecution, Taker, SendToPipe, AnswerRequest, Dispatcher, Poll, EndOfScan, Skip, Load,
           LoadFails, Answered, CallTimeout, OpenReply, WriteReply, Mark, RemoveReply, Crash,
           Restart, vars, threads
  <2> QED BY <2>1 DEF Limits
<1>2. \/ timeouts' = timeouts
      \/ timeouts[This] < MaxTimeouts /\ timeouts' = [timeouts EXCEPT ![This] = @ + 1]
  BY DEF Next, ClientSend, ClientGivesUp, ClientCloses, SaveRequest, AnswerPoll, RemoveRequest,
         LateExecution, Taker, SendToPipe, AnswerRequest, Dispatcher, Poll, EndOfScan, Skip, Load,
         LoadFails, Answered, CallTimeout, OpenReply, WriteReply, Mark, RemoveReply, Crash,
         Restart, vars, service
<1>3. crashes' = crashes \/ (crashes < MaxCrashes /\ crashes' = crashes + 1)
  BY DEF Next, ClientSend, ClientGivesUp, ClientCloses, SaveRequest, AnswerPoll, RemoveRequest,
         LateExecution, Taker, SendToPipe, AnswerRequest, Dispatcher, Poll, EndOfScan, Skip, Load,
         LoadFails, Answered, CallTimeout, OpenReply, WriteReply, Mark, RemoveReply, Crash,
         Restart, vars
<1>4. MaxTimeouts \in Nat /\ MaxCrashes \in Nat
  BY BoundsAssumption
<1>5. timeouts' \in [Requests -> 0 .. MaxTimeouts]
  <2> DEFINE u == This
  <2>1. CASE timeouts[u] < MaxTimeouts /\ timeouts' = [timeouts EXCEPT ![u] = @ + 1]
    <3> HIDE DEF u
    <3>1. ASSUME NEW v \in Requests PROVE timeouts'[v] \in 0 .. MaxTimeouts
      BY <1>4, <2>1 DEF Limits
    <3> QED BY <2>1, <3>1 DEF Limits
  <2>2. CASE timeouts' = timeouts
    BY <2>2 DEF Limits
  <2> QED BY <1>2, <2>1, <2>2
<1>6. crashes' \in 0 .. MaxCrashes
  BY <1>3, <1>4 DEF Limits
<1> QED BY <1>1, <1>5, <1>6 DEF Limits

\* Everything keeps its type, whatever is lost in a crash and whenever it happens.
THEOREM TitanicTypes == Spec => []TypeOK
<1>1. Init => Limits
  BY BoundsAssumption DEF Init, Limits
<1>2. Limits /\ [Next]_vars => Limits'
  BY StepLimits
<1>3. StoreInv /\ AttemptInv /\ Limits => TypeOK
  BY DEF StoreInv, StoreTypes, AttemptInv, CountTypes, Limits, TypeOK
<1> QED BY <1>1, <1>2, <1>3, StoreInvariant, Attempts, PTL DEF Spec
=============================================================================
