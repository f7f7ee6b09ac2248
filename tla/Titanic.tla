------------------------------ MODULE Titanic -------------------------------
(***************************************************************************)
(* Titanic, the disk-based part of Majordomo (titanic/*.cpp) with its      *)
(* clients (client/ticlient.cpp).  Four threads share a directory: the     *)
(* workers of titanic.request, titanic.reply and titanic.close, and the    *)
(* dispatcher, titanic::run, which learns of requests over a pipe and      *)
(* writes them to a queue file.  Every access to a file is a step.         *)
(*                                                                         *)
(* The process can crash between any two steps: files stay, memory goes.   *)
(* A request stands for its UUID and for the client that makes it, which   *)
(* makes only one (client/main.cpp).  Majordomo is what the code sees of   *)
(* it: a call is answered, or times out and may be carried out later.      *)
(***************************************************************************)
EXTENDS Naturals, Sequences

CONSTANTS
    Requests,
    NoOne,         \* no request
    Available,     \* the requests whose service exists
    MaxCrashes,    \* bound of the model
    MaxTimeouts    \* bound of the model: calls of one request that time out

ASSUME RequestsAssumption == NoOne \notin Requests /\ Available \subseteq Requests
ASSUME BoundsAssumption == MaxCrashes \in Nat /\ MaxTimeouts \in Nat

VARIABLES
    reqs,       \* files: the requests that have a .req
    reps,       \* files: the .rep of each request
    queue,      \* files: the records of the queue file, '+' when done
    up,         \* the process runs
    taker,      \* request_worker: where it is with which request
    pipe,       \* from request_worker to the dispatcher
    disp,       \* titanic::run: where it is, at which record, how many it saw
    closer,     \* close_worker: the request whose .req it has removed
    closing,    \* close_worker is alive
    client,     \* client[u]: where the client of u is
    calls,      \* calls of titanic.request on their way
    closes,     \* calls of titanic.close on their way
    late,       \* late[u]: abandoned calls of u's service still to be carried out
    executed,   \* executed[u]: how often the service has been carried out for u
    timeouts,   \* timeouts[u]: calls of u's service that timed out
    crashes

files == <<reqs, reps, queue>>
threads == <<taker, pipe, disp, closer, closing>>
service == <<late, executed, timeouts>>
clients == <<client, calls, closes>>
vars == <<files, up, threads, clients, service, crashes>>

Record == [req : Requests, done : BOOLEAN]

TypeOK ==
    /\ reqs \subseteq Requests
    /\ reps \in [Requests -> {"none", "partial", "whole"}]
    /\ queue \in Seq(Record)
    /\ up \in BOOLEAN
    /\ taker \in [phase : {"idle", "saved", "piped"}, req : Requests \cup {NoOne}]
    /\ pipe \in Seq(Requests)
    /\ disp \in [phase : {"poll", "scan", "call", "save", "saving", "mark", "failed"},
                 at : Nat, size : Nat]
    /\ closer \in Requests \cup {NoOne}
    /\ closing \in BOOLEAN
    /\ client \in [Requests -> {"new", "sent", "polling", "replied", "finished", "ended"}]
    /\ calls \subseteq Requests /\ closes \subseteq Requests
    /\ late \in [Requests -> Nat]
    /\ executed \in [Requests -> Nat]
    /\ timeouts \in [Requests -> 0 .. MaxTimeouts]
    /\ crashes \in 0 .. MaxCrashes

Idle == [phase |-> "idle", req |-> NoOne]
Polling == [phase |-> "poll", at |-> 0, size |-> 0]

Init ==
    /\ reqs = {} /\ reps = [u \in Requests |-> "none"] /\ queue = <<>>
    /\ up = TRUE /\ taker = Idle /\ pipe = <<>> /\ disp = Polling
    /\ closer = NoOne /\ closing = TRUE
    /\ client = [u \in Requests |-> "new"] /\ calls = {} /\ closes = {}
    /\ late = [u \in Requests |-> 0]
    /\ executed = [u \in Requests |-> 0]
    /\ timeouts = [u \in Requests |-> 0]
    /\ crashes = 0

InQueue(u) == \E i \in DOMAIN queue : queue[i].req = u
InPipe(u) == \E i \in DOMAIN pipe : pipe[i] = u

-----------------------------------------------------------------------------
(* request_worker::run: the message is saved, the UUID goes to the pipe,   *)
(* the client is told.                                                     *)

SaveRequest(u) ==
    /\ up /\ taker.phase = "idle"
    /\ u \in calls
    /\ calls' = calls \ {u}
    /\ reqs' = reqs \cup {u}
    /\ taker' = [phase |-> "saved", req |-> u]
    /\ UNCHANGED <<reps, queue, up, pipe, disp, closer, closing, client, closes, service, crashes>>

\* Mutants: the UUID is not sent, or has been moved from before it is.
SendNothing ==
    /\ up /\ taker.phase = "saved"
    /\ taker' = [taker EXCEPT !.phase = "piped"]
    /\ UNCHANGED <<files, up, pipe, disp, closer, closing, clients, service, crashes>>
SendMovedFrom ==
    /\ up /\ taker.phase = "saved"
    /\ pipe' = Append(pipe, NoOne)
    /\ taker' = [taker EXCEPT !.phase = "piped"]
    /\ UNCHANGED <<files, up, disp, closer, closing, clients, service, crashes>>

SendToPipe ==
    /\ up /\ taker.phase = "saved"
    /\ pipe' = Append(pipe, taker.req)
    /\ taker' = [taker EXCEPT !.phase = "piped"]
    /\ UNCHANGED <<files, up, disp, closer, closing, clients, service, crashes>>

\* The client reads the status 200, unless it has given up.
AnswerRequest ==
    /\ up /\ taker.phase = "piped"
    /\ taker' = Idle
    /\ client' = [client EXCEPT ![taker.req] = IF @ = "sent" THEN "polling" ELSE @]
    /\ UNCHANGED <<files, up, pipe, disp, closer, closing, calls, closes, service, crashes>>

-----------------------------------------------------------------------------
(* titanic::run and titanic::service_success.                              *)

\* Mutant: the file is opened anew instead of appended to.
PollOverwrites ==
    /\ up /\ disp.phase = "poll"
    /\ IF pipe = <<>> THEN UNCHANGED <<queue, pipe>>
       ELSE /\ queue' = <<[req |-> Head(pipe), done |-> FALSE]>>
            /\ pipe' = Tail(pipe)
    /\ queue' # <<>>
    /\ disp' = [phase |-> "scan", at |-> 1, size |-> Len(queue')]
    /\ UNCHANGED <<reqs, reps, up, taker, closer, closing, clients, service, crashes>>

\* The end of a poll: one message of the pipe is appended to the queue file, and
\* the scan of what the file then holds begins, if there is one.
Poll ==
    /\ up /\ disp.phase = "poll"
    /\ IF pipe = <<>> THEN UNCHANGED <<queue, pipe>>
       ELSE /\ queue' = Append(queue, [req |-> Head(pipe), done |-> FALSE])
            /\ pipe' = Tail(pipe)
    /\ queue' # <<>>
    /\ disp' = [phase |-> "scan", at |-> 1, size |-> Len(queue')]
    /\ UNCHANGED <<reqs, reps, up, taker, closer, closing, clients, service, crashes>>

\* The request of the record the scan is at.
This == queue[disp.at].req

Scanning == up /\ disp.phase = "scan" /\ disp.at <= disp.size

NextRecord == [disp EXCEPT !.phase = "scan", !.at = @ + 1]

EndOfScan ==
    /\ up /\ disp.phase = "scan" /\ disp.at > disp.size
    /\ disp' = Polling
    /\ UNCHANGED <<files, up, taker, pipe, closer, closing, clients, service, crashes>>

Skip ==
    /\ Scanning /\ queue[disp.at].done
    /\ disp' = NextRecord
    /\ UNCHANGED <<files, up, taker, pipe, closer, closing, clients, service, crashes>>

\* Mutant: a service that is not there ends the scan.
LoadStops ==
    /\ Scanning /\ ~ queue[disp.at].done
    /\ This \in reqs
    /\ disp' = IF This \in Available THEN [disp EXCEPT !.phase = "call"] ELSE Polling
    /\ UNCHANGED <<files, up, taker, pipe, closer, closing, clients, service, crashes>>

\* The .req is loaded and the service asked for over mmi.service: it is there and
\* is called, or it is not and the record stays pending, or nobody answers.
Load ==
    /\ Scanning /\ ~ queue[disp.at].done
    /\ This \in reqs
    /\ \/ This \in Available /\ disp' = [disp EXCEPT !.phase = "call"] /\ UNCHANGED timeouts
       \/ This \notin Available /\ disp' = NextRecord /\ UNCHANGED timeouts
       \/ /\ timeouts[This] < MaxTimeouts
          /\ timeouts' = [timeouts EXCEPT ![This] = @ + 1]
          /\ disp' = NextRecord
    /\ UNCHANGED <<files, up, taker, pipe, closer, closing, clients, late, executed, crashes>>

\* A file that is not there is loaded as a message without frames, and reading
\* frame 0 throws.  The exception leaves titanic::start, which destroys its locals: the
\* session of close_worker goes while its thread uses it, and then the destructor
\* waits for the thread of its sub_admin, which ends with a STOP only.  So nothing
\* else is destroyed, and the other two workers go on.
LoadFails ==
    /\ Scanning /\ ~ queue[disp.at].done
    /\ This \notin reqs
    /\ disp' = [disp EXCEPT !.phase = "failed"]
    /\ UNCHANGED <<files, up, taker, pipe, closer, closing, clients, service, crashes>>

\* The service answers in time.
Answered ==
    /\ up /\ disp.phase = "call"
    /\ executed' = [executed EXCEPT ![This] = @ + 1]
    /\ disp' = [disp EXCEPT !.phase = "save"]
    /\ UNCHANGED <<files, up, taker, pipe, closer, closing, clients, late, timeouts, crashes>>

\* What becomes of a call that nobody waits for: lost, done, or done later.
Abandon(u) ==
    \/ UNCHANGED <<late, executed>>
    \/ executed' = [executed EXCEPT ![u] = @ + 1] /\ UNCHANGED late
    \/ late' = [late EXCEPT ![u] = @ + 1] /\ UNCHANGED executed

CallTimeout ==
    /\ up /\ disp.phase = "call"
    /\ timeouts[This] < MaxTimeouts
    /\ timeouts' = [timeouts EXCEPT ![This] = @ + 1]
    /\ Abandon(This)
    /\ disp' = NextRecord
    /\ UNCHANGED <<files, up, taker, pipe, closer, closing, clients, crashes>>

\* The broker still has an abandoned call and gives it to a worker.
LateExecution(u) ==
    /\ late[u] > 0
    /\ late' = [late EXCEPT ![u] = @ - 1]
    /\ executed' = [executed EXCEPT ![u] = @ + 1]
    /\ UNCHANGED <<files, up, threads, clients, timeouts, crashes>>

\* save opens the .rep, which empties it, and then writes it frame by frame.
OpenReply ==
    /\ up /\ disp.phase = "save"
    /\ reps' = [reps EXCEPT ![This] = "partial"]
    /\ disp' = [disp EXCEPT !.phase = "saving"]
    /\ UNCHANGED <<reqs, queue, up, taker, pipe, closer, closing, clients, service, crashes>>

\* A file that was removed while it was open stays removed.
WriteReply ==
    /\ up /\ disp.phase = "saving"
    /\ reps' = [reps EXCEPT ![This] = IF @ = "none" THEN @ ELSE "whole"]
    /\ disp' = [disp EXCEPT !.phase = "mark"]
    /\ UNCHANGED <<reqs, queue, up, taker, pipe, closer, closing, clients, service, crashes>>

\* Mutants: nothing is written, or at the beginning of the file.
MarkNothing ==
    /\ up /\ disp.phase = "mark"
    /\ disp' = NextRecord
    /\ UNCHANGED <<files, up, taker, pipe, closer, closing, clients, service, crashes>>
MarkFirst ==
    /\ up /\ disp.phase = "mark"
    /\ queue' = [queue EXCEPT ![1].done = TRUE]
    /\ disp' = NextRecord
    /\ UNCHANGED <<reqs, reps, up, taker, pipe, closer, closing, clients, service, crashes>>

Mark ==
    /\ up /\ disp.phase = "mark"
    /\ queue' = [queue EXCEPT ![disp.at].done = TRUE]
    /\ disp' = NextRecord
    /\ UNCHANGED <<reqs, reps, up, taker, pipe, closer, closing, clients, service, crashes>>

-----------------------------------------------------------------------------
(* The other two workers.                                                  *)

\* reply_worker::run: whatever the .rep holds goes to the client with status 200.
\* Without one the status is 300 or 400, after which, as after a time-out, the
\* client asks again.
AnswerPoll(u) ==
    /\ up
    /\ client[u] = "polling" /\ reps[u] # "none"
    /\ client' = [client EXCEPT ![u] = "replied"]
    /\ UNCHANGED <<files, up, threads, calls, closes, service, crashes>>

\* close_worker::run: fs::remove of the .req, then of the .rep.  Without its session
\* (LoadFails) it ends after the call it is at.
RemoveRequest(u) ==
    /\ up /\ disp.phase # "failed" /\ closing /\ closer = NoOne
    /\ u \in closes
    /\ closes' = closes \ {u}
    /\ closer' = u
    /\ reqs' = reqs \ {u}
    /\ UNCHANGED <<reps, queue, up, taker, pipe, disp, closing, client, calls, service, crashes>>

\* The dispatcher may have the .rep open: some systems then refuse to remove it,
\* and the exception ends the worker.
RemoveReply ==
    /\ up /\ closing /\ closer # NoOne
    /\ closer' = NoOne
    /\ \/ reps' = [reps EXCEPT ![closer] = "none"] /\ UNCHANGED closing
       \/ /\ disp.phase = "saving" /\ This = closer
          /\ closing' = FALSE /\ UNCHANGED reps
    /\ UNCHANGED <<reqs, queue, up, taker, pipe, disp, clients, service, crashes>>

-----------------------------------------------------------------------------
(* The client, ticlient.                                                   *)

\* ticlient::send.
ClientSend(u) ==
    /\ client[u] = "new"
    /\ client' = [client EXCEPT ![u] = "sent"]
    /\ calls' = calls \cup {u}
    /\ UNCHANGED <<files, up, threads, closes, service, crashes>>

\* No answer in time: send throws, and the client ends.
ClientGivesUp(u) ==
    /\ client[u] = "sent"
    /\ client' = [client EXCEPT ![u] = "ended"]
    /\ UNCHANGED <<files, up, threads, calls, closes, service, crashes>>

\* The end of ticlient::recv: one call of titanic.close, which may get lost.
ClientCloses(u) ==
    /\ client[u] = "replied"
    /\ client' = [client EXCEPT ![u] = "finished"]
    /\ closes' \in {closes, closes \cup {u}}
    /\ UNCHANGED <<files, up, threads, calls, service, crashes>>

-----------------------------------------------------------------------------

\* The process dies, and with it the pipe and whatever the threads were at.
Crash ==
    /\ up /\ crashes < MaxCrashes
    /\ crashes' = crashes + 1
    /\ up' = FALSE
    /\ taker' = Idle /\ pipe' = <<>> /\ disp' = Polling /\ closer' = NoOne /\ closing' = TRUE
    /\ IF disp.phase = "call" THEN Abandon(This) ELSE UNCHANGED <<late, executed>>
    /\ UNCHANGED <<files, clients, timeouts>>

Restart ==
    /\ ~ up
    /\ up' = TRUE
    /\ UNCHANGED <<files, threads, clients, service, crashes>>

Taker == SendToPipe \/ AnswerRequest

Dispatcher ==
    \/ Poll \/ EndOfScan \/ Skip \/ Load \/ LoadFails \/ Answered \/ CallTimeout
    \/ OpenReply \/ WriteReply \/ Mark

Next ==
    \/ \E u \in Requests :
          \/ ClientSend(u) \/ ClientGivesUp(u) \/ ClientCloses(u)
          \/ SaveRequest(u) \/ AnswerPoll(u) \/ RemoveRequest(u) \/ LateExecution(u)
    \/ Taker
    \/ Dispatcher
    \/ RemoveReply
    \/ Crash
    \/ Restart

Spec == Init /\ [][Next]_vars

\* The threads run, a crashed process is started again, and a client that asks
\* again and again is answered.
Fairness ==
    /\ WF_vars(Taker) /\ WF_vars(Dispatcher) /\ WF_vars(Restart)
    /\ \A u \in Requests : WF_vars(AnswerPoll(u)) /\ WF_vars(ClientCloses(u))

FairSpec == Spec /\ Fairness

-----------------------------------------------------------------------------
(* Properties.                                                             *)

\* What the files, and the memory of the process, say of a request.  It is replied
\* to as long as its .rep is whole: from the opening of the file to its last write
\* there is a beginning of one.
Status(u) ==
    IF u \notin reqs THEN IF InQueue(u) THEN "closed" ELSE "new"
    ELSE IF InQueue(u)
    THEN IF reps[u] = "none" THEN "recorded" ELSE IF reps[u] = "partial" THEN "begun" ELSE "replied"
    ELSE IF InPipe(u) \/ (taker.phase = "saved" /\ taker.req = u) THEN "taken"
    ELSE "lost"

Promise == INSTANCE TitanicPromise WITH status <- [u \in Requests |-> Status(u)]

\* Refinement.  No step of the four threads, of a client or of a crash loses a
\* request that is in the queue file or takes a reply back, but to write it anew, and
\* none is closed before a reply is begun.  A client that polls while the reply is
\* written may close a request of which no whole reply was ever there.  What a crash
\* loses is what titanic::run had not read from the pipe, told 200 or not.
KeepsPromise == Promise!Spec

Done(u) == \E i \in DOMAIN queue : queue[i].req = u /\ queue[i].done

\* At least once, and not more often than calls that timed out and crashes
\* explain: the '+' is written after the reply is saved (titanic.cpp:122 and 92),
\* so that a crash between the two makes the service run again.
OncePerAttempt ==
    \A u \in Requests :
       /\ executed[u] + late[u] <= 1 + timeouts[u] + crashes
       /\ Done(u) => executed[u] > 0

\* The dispatcher meets a pending record whose .req is gone (titanic.cpp:107
\* throws then, at every start anew) only after a crash: without one a client
\* cannot close a request before its record is past.
FailsOnlyAfterCrash ==
    disp.phase = "failed" => crashes > 0

\* Without a crash a client that was told 200 gets the reply, or what is written of it
\* when it polls, if its service exists, although other records stay pending for ever.
ServedUnlessCrashed ==
    \A u \in Available :
       client[u] = "polling" ~> (client[u] = "finished" \/ crashes > 0)

\* Crashes or not, what is in the queue file is done in the end, unless the
\* dispatcher itself has failed.
RecordedIsDone ==
    \A u \in Available : InQueue(u) ~> (Done(u) \/ disp.phase = "failed")

=============================================================================
