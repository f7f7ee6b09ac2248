-------------------------- MODULE BinaryStarClient --------------------------
(***************************************************************************)
(* The pair of module BinaryStar with its client, bstarcli.cpp: one        *)
(* request at a time, sent again to the same server after each silent      *)
(* second, given up after the third, when the client turns to the other    *)
(* server.                                                                 *)
(*                                                                         *)
(* seq is abstracted to what the client compares: a message carries TRUE   *)
(* when its number is the one of the current request.                      *)
(***************************************************************************)
EXTENDS Naturals, Sequences

CONSTANTS PeerExpiry, HWM, Reliable, Prompt,
    Retries       \* number_retries: silent seconds before a request is given up

ASSUME PeerExpiryAssumption == PeerExpiry \in Nat \ {0}
ASSUME HWMAssumption == HWM \in Nat \ {0}
ASSUME ReliableAssumption == Reliable \in BOOLEAN
ASSUME PromptAssumption == Prompt \in BOOLEAN
ASSUME RetriesAssumption == Retries \in Nat \ {0}

VARIABLES program, state, age, due, pipe,
    client        \* the locals of bstarcli::start and the two ways of its socket

B == INSTANCE BinaryStar

vars == <<program, state, age, due, pipe, client>>

\* phase: polling for a reply, or in the second of sleep before a request,
\* after an answer or after giving up.  elapsed: that second, or the second of
\* the poll, is over.  index: srv_index as a server; connected: the server
\* socket_ is connected to.  out and in: requests and replies under way.
Clients ==
    [phase     : {"polling", "answered", "abandoned"},
     elapsed   : BOOLEAN,
     retries   : 1 .. Retries,
     index     : B!Server,
     connected : B!Server,
     out       : Seq(BOOLEAN),
     in        : Seq(BOOLEAN)]

ClientTypeOK == client \in Clients

Init ==
    /\ B!Init
    /\ client = [phase |-> "abandoned", elapsed |-> FALSE, retries |-> Retries,
                 index |-> "primary", connected |-> "primary", out |-> <<>>, in |-> <<>>]

PairUnchanged == UNCHANGED <<program, state, age, due, pipe>>

\* After ++seq what is under way carries an older number.
Outdated(q) == [i \in DOMAIN q |-> FALSE]

Send ==
    /\ client.phase # "polling" /\ client.elapsed
    /\ client' = [client EXCEPT !.phase = "polling", !.elapsed = FALSE,
                                !.out = Append(Outdated(@), TRUE), !.in = Outdated(@)]
    /\ PairUnchanged

\* A reply that matches ends the request; any other one starts the poll again.
Receive ==
    /\ client.phase = "polling" /\ client.in # <<>>
    /\ client' = IF Head(client.in)
                 THEN [client EXCEPT !.phase = "answered", !.elapsed = FALSE,
                                     !.retries = Retries, !.in = Tail(@)]
                 ELSE [client EXCEPT !.elapsed = FALSE, !.in = Tail(@)]
    /\ PairUnchanged

\* connect_to_broker: a new socket; what waits in the old one is gone with it.
Connected(c) == [c EXCEPT !.connected = c.index, !.out = <<>>, !.in = <<>>]

\* Mutant: the client gives up and asks the same server for ever.
AbandonedStays(c) == [c EXCEPT !.phase = "abandoned", !.retries = Retries]

\* Mutant: the count of retries is not set again.
AbandonedSpent(c) ==
    [c EXCEPT !.phase = "abandoned", !.index = B!Other(@), !.retries = @ - 1]

\* The third silence: the next server, on the old socket until the next retry.
Abandoned(c) ==
    [c EXCEPT !.phase = "abandoned", !.index = B!Other(@), !.retries = Retries]

Timeout ==
    /\ client.phase = "polling" /\ client.elapsed /\ client.in = <<>>
    /\ client' = LET c == [client EXCEPT !.elapsed = FALSE] IN
                 IF client.retries = 1
                 THEN Abandoned(c)
                 ELSE [Connected(c) EXCEPT !.retries = @ - 1, !.out = <<TRUE>>]
    /\ PairUnchanged

\* A server takes the client's request and echoes it, or throws it away.
Serve(s) ==
    /\ client.connected = s /\ client.out # <<>>
    /\ B!ClientRequest(s)
    /\ client' = [client EXCEPT !.out = Tail(@),
                      !.in = IF B!Answers(s) THEN Append(@, Head(client.out)) ELSE @]

\* A request of another client, or of a socket this one has closed.
OtherRequest(s) == B!ClientRequest(s) /\ UNCHANGED client

\* A server that ends loses the requests it had received and the replies
\* it had not transmitted.
LosesWith(s) ==
    IF client.connected # s
    THEN UNCHANGED client
    ELSE \E n \in 0 .. Len(client.out), k \in 0 .. Len(client.in) :
            client' = [client EXCEPT !.out = SubSeq(@, n + 1, Len(@)), !.in = SubSeq(@, 1, k)]

Die(s) == B!Die(s) /\ LosesWith(s)

RecvState(s) ==
    /\ B!RecvState(s)
    /\ IF B!Throws(s, Head(pipe[s])) THEN LosesWith(s) ELSE UNCHANGED client

\* With Prompt, what can be read is read and what has elapsed is noticed.
ClientSettled ==
    /\ ~ client.elapsed
    /\ client.phase = "polling" => client.in = <<>>
    /\ B!Up(client.connected) => client.out = <<>>

Tick ==
    /\ Prompt => ClientSettled
    /\ B!Tick
    /\ client' = [client EXCEPT !.elapsed = TRUE]

Next ==
    \/ Tick
    \/ Send \/ Receive \/ Timeout
    \/ \E s \in B!Server :
        \/ Serve(s)
        \/ OtherRequest(s)
        \/ Die(s)
        \/ RecvState(s)
        \/ (B!Start(s) \/ B!SendState(s) \/ B!Lose(s)) /\ UNCHANGED client

Spec == Init /\ [][Next]_vars

Fairness ==
    /\ WF_vars(Tick)
    /\ WF_vars(Send) /\ WF_vars(Receive) /\ WF_vars(Timeout)
    /\ \A s \in B!Server :
        /\ WF_vars(Serve(s))
        /\ WF_vars(B!SendState(s) /\ UNCHANGED client)
        /\ WF_vars(RecvState(s))

FairSpec == Spec /\ Fairness

-----------------------------------------------------------------------------
(* Properties.                                                             *)

AtMostOneActive == B!AtMostOneActive
PairSettles == B!PairSettles

\* Once servers neither end nor start, the client is answered again and again:
\* its retries reach the server that serves, or make it serve.  There is one
\* exception, a backup that started without ever hearing a primary.
ClientServed ==
    \A S \in SUBSET B!Server \ {{}} :
        <>[](\A s \in B!Server : B!Up(s) <=> s \in S)
            => \/ []<>(client.phase = "answered")
               \/ S = {"backup"} /\ <>[](state["backup"] = "BACKUP")

=============================================================================
