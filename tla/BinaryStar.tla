----------------------------- MODULE BinaryStar -----------------------------
(***************************************************************************)
(* The high-availability pair of the Binary Star pattern, in both versions *)
(* of the repository: server1 (binary_star_server1.cpp, one function with  *)
(* callbacks) and server2 (bstar.cpp, a reactor class).  Each server       *)
(* publishes its state every heartbeat and takes what its peer publishes,  *)
(* and what clients ask, as events of a state machine.                     *)
(*                                                                         *)
(* A server is one thread around a zmqpp::loop, so a callback is one step. *)
(* Clients are the open environment here; module BinaryStarClient adds the *)
(* client.  Time is counted in heartbeats: age[s] > PeerExpiry stands for  *)
(* now > peer_expiry_.                                                     *)
(***************************************************************************)
EXTENDS Naturals, Sequences

CONSTANTS
    PeerExpiry,   \* heartbeats after which a silent peer is taken for dead (3)
    HWM,          \* what a state pipe holds; a publisher drops the rest
    Reliable,     \* TRUE: no state message is lost between running servers
    Prompt        \* TRUE: a heartbeat is long compared with reading messages

ASSUME PeerExpiryAssumption == PeerExpiry \in Nat \ {0}
ASSUME HWMAssumption == HWM \in Nat \ {0}
ASSUME ReliableAssumption == Reliable \in BOOLEAN
ASSUME PromptAssumption == Prompt \in BOOLEAN

VARIABLES
    program,   \* which of the two programs the pair runs
    state,     \* state_ of each server, or DOWN when its process does not run
    age,       \* heartbeats since the peer was heard (since the end, when down)
    due,       \* firings of the timer since the state was last published
    pipe       \* pipe[s]: what the peer published and s has not read

vars == <<program, state, age, due, pipe>>

Server == {"primary", "backup"}

Other(s) == IF s = "primary" THEN "backup" ELSE "primary"

\* state_t, as both programs number it; a peer's state is an event_t as it is.
States == {"PRIMARY", "BACKUP", "ACTIVE", "PASSIVE"}

Up(s) == state[s] # "DOWN"

Expired(s) == age[s] > PeerExpiry

\* server1 compares the clock with a deadline one heartbeat after the previous
\* message in a timer of one heartbeat, and may so publish at every second firing.
MaxSilence == IF program = "server1" THEN 2 ELSE 1

TypeOK ==
    /\ program \in {"server1", "server2"}
    /\ state \in [Server -> States \cup {"DOWN"}]
    /\ age \in [Server -> 0 .. PeerExpiry + 1]
    /\ due \in [Server -> 0 .. 2]
    /\ pipe \in [Server -> Seq(States)]

Init ==
    /\ program \in {"server1", "server2"}
    /\ state = [s \in Server |-> "DOWN"]
    /\ age = [s \in Server |-> PeerExpiry + 1]
    /\ due = [s \in Server |-> 0]
    /\ pipe = [s \in Server |-> <<>>]

-----------------------------------------------------------------------------
(* The state machine of each program.  Its events are the states of the    *)
(* peer and CLIENT_REQUEST.                                                *)

\* Mutant: a client makes the primary active without waiting for the expiry.
ExecuteHasty(st, ev, expired) ==
    [state |->
        IF \/ st = "PRIMARY" /\ ev = "BACKUP"
           \/ st = "PASSIVE" /\ ev \in {"PRIMARY", "BACKUP"}
           \/ st = "PRIMARY" /\ ev = "CLIENT_REQUEST"
           \/ st = "PASSIVE" /\ ev = "CLIENT_REQUEST" /\ expired
        THEN "ACTIVE"
        ELSE IF st \in {"PRIMARY", "BACKUP"} /\ ev = "ACTIVE" THEN "PASSIVE" ELSE st,
     rc |-> TRUE]

\* Mutant: a pending primary copies what it hears.
ExecuteCopies(st, ev, expired) ==
    [state |-> IF st = "PRIMARY" THEN ev ELSE st, rc |-> st = "ACTIVE"]

\* Mutant: two active servers give way to each other.
ExecuteYields(st, ev, expired) ==
    [state |->
        IF \/ st = "PRIMARY" /\ ev = "BACKUP"
           \/ st = "PASSIVE" /\ ev \in {"PRIMARY", "BACKUP"}
           \/ st \in {"PRIMARY", "PASSIVE"} /\ ev = "CLIENT_REQUEST" /\ expired
        THEN "ACTIVE"
        ELSE IF ev = "ACTIVE" THEN "PASSIVE" ELSE st,
     rc |-> ev # "CLIENT_REQUEST" \/ st = "ACTIVE" \/ (st # "BACKUP" /\ expired)]

\* Mutant: a passive server stays passive when its peer starts again.
ExecuteIgnoresRestart(st, ev, expired) ==
    [state |->
        IF \/ st = "PRIMARY" /\ ev = "BACKUP"
           \/ st \in {"PRIMARY", "PASSIVE"} /\ ev = "CLIENT_REQUEST" /\ expired
        THEN "ACTIVE"
        ELSE IF st \in {"PRIMARY", "BACKUP"} /\ ev = "ACTIVE" THEN "PASSIVE" ELSE st,
     rc |-> ev # "CLIENT_REQUEST" \/ st = "ACTIVE" \/ (st # "BACKUP" /\ expired)]

\* bstar::execute: the next state, and what it returns.
execute(st, ev, expired) ==
    [state |->
        IF \/ st = "PRIMARY" /\ ev = "BACKUP"
           \/ st = "PASSIVE" /\ ev \in {"PRIMARY", "BACKUP"}
           \/ st \in {"PRIMARY", "PASSIVE"} /\ ev = "CLIENT_REQUEST" /\ expired
        THEN "ACTIVE"
        ELSE IF st \in {"PRIMARY", "BACKUP"} /\ ev = "ACTIVE" THEN "PASSIVE" ELSE st,
     rc |-> ~ \/ st = "BACKUP" /\ ev = "CLIENT_REQUEST"
              \/ st \in {"PRIMARY", "PASSIVE"} /\ ev = "CLIENT_REQUEST" /\ ~ expired
              \/ st = "ACTIVE" /\ ev = "ACTIVE"
              \/ st = "PASSIVE" /\ ev = "PASSIVE"]

\* binary_star_server1::update_state: a pending primary accepts every client.
update_state(st, ev, expired) ==
    [state |->
        IF \/ st = "PRIMARY" /\ ev = "BACKUP"
           \/ st = "PASSIVE" /\ ev \in {"PRIMARY", "BACKUP"}
           \/ st = "PASSIVE" /\ ev = "CLIENT_REQUEST" /\ expired
        THEN "ACTIVE"
        ELSE IF st \in {"PRIMARY", "BACKUP"} /\ ev = "ACTIVE" THEN "PASSIVE" ELSE st,
     exception |-> \/ st = "BACKUP" /\ ev = "CLIENT_REQUEST"
                   \/ st = "PASSIVE" /\ ev = "CLIENT_REQUEST" /\ ~ expired
                   \/ st = "ACTIVE" /\ ev = "ACTIVE"
                   \/ st = "PASSIVE" /\ ev = "PASSIVE"]

Becomes(s, ev) ==
    IF program = "server1" THEN update_state(state[s], ev, Expired(s)).state
                           ELSE execute(state[s], ev, Expired(s)).state

\* A client's request is answered: the frontend callback echoes the message.
Answers(s) ==
    IF program = "server1"
    THEN ~ update_state(state[s], "CLIENT_REQUEST", Expired(s)).exception
    ELSE execute(state[s], "CLIENT_REQUEST", Expired(s)).rc

-----------------------------------------------------------------------------
(* Processes and pipes.  A process that ends takes with it what it has not *)
(* read; of what it published its peer may have received a beginning.      *)

\* Mutant: the messages for a process outlive it.
EndedKeepsInbox(s, q) == pipe' = [pipe EXCEPT ![Other(s)] = q]

Ended(s, q) == pipe' = [pipe EXCEPT ![s] = <<>>, ![Other(s)] = q]

Prefixes(q) == {SubSeq(q, 1, n) : n \in 0 .. Len(q)}

Goes(s) ==
    /\ state' = [state EXCEPT ![s] = "DOWN"]
    /\ age' = [age EXCEPT ![s] = 0]
    /\ due' = [due EXCEPT ![s] = 0]
    /\ \E q \in Prefixes(pipe[Other(s)]) : Ended(s, q)
    /\ UNCHANGED program

\* The constructor and start: bstar sets the expiry, server1 leaves it at the
\* beginning of time.  With Prompt a process takes a heartbeat to come back.
Start(s) ==
    /\ ~ Up(s)
    /\ Prompt => age[s] > 0
    /\ state' = [state EXCEPT ![s] = IF s = "primary" THEN "PRIMARY" ELSE "BACKUP"]
    /\ age' = [age EXCEPT ![s] = IF program = "server1" THEN PeerExpiry + 1 ELSE 0]
    /\ UNCHANGED <<program, due, pipe>>

Die(s) == Up(s) /\ Goes(s)

\* send_state and tm_cb, on the timer.
SendState(s) ==
    /\ Up(s) /\ due[s] > 0
    /\ due' = [due EXCEPT ![s] = 0]
    /\ IF Up(Other(s)) /\ Len(pipe[Other(s)]) < HWM
       THEN pipe' = [pipe EXCEPT ![Other(s)] = Append(@, state[s])]
       ELSE UNCHANGED pipe
    /\ UNCHANGED <<program, state, age>>

\* server1's sub_cb throws on an exception, which ends its loop and its process.
Throws(s, ev) ==
    program = "server1" /\ update_state(state[s], ev, Expired(s)).exception

\* recv_state and sub_cb.  bstar ignores what execute returns.
RecvState(s) ==
    /\ Up(s) /\ pipe[s] # <<>>
    /\ IF Throws(s, Head(pipe[s]))
       THEN Goes(s)
       ELSE /\ state' = [state EXCEPT ![s] = Becomes(s, Head(pipe[s]))]
            /\ age' = [age EXCEPT ![s] = 0]
            /\ pipe' = [pipe EXCEPT ![s] = Tail(@)]
            /\ UNCHANGED <<program, due>>

\* voter's callback and fe_cb: a request from any client.
ClientRequest(s) ==
    /\ Up(s)
    /\ state' = [state EXCEPT ![s] = Becomes(s, "CLIENT_REQUEST")]
    /\ UNCHANGED <<program, age, due, pipe>>

\* A full or broken connection: the publisher drops its newest message.
Lose(s) ==
    /\ ~ Reliable /\ pipe[s] # <<>>
    /\ pipe' = [pipe EXCEPT ![s] = SubSeq(@, 1, Len(@) - 1)]
    /\ UNCHANGED <<program, state, age, due>>

\* With Prompt time passes only when every server waits in its poll.
Settled == \A s \in Server : Up(s) => pipe[s] = <<>> /\ due[s] < MaxSilence

Tick ==
    /\ Prompt => Settled
    /\ age' = [s \in Server |-> IF Expired(s) THEN age[s] ELSE age[s] + 1]
    /\ due' = [s \in Server |-> IF Up(s) /\ due[s] < MaxSilence THEN due[s] + 1 ELSE due[s]]
    /\ UNCHANGED <<program, state, pipe>>

Next ==
    \/ Tick
    \/ \E s \in Server :
        \/ Start(s)
        \/ Die(s)
        \/ SendState(s)
        \/ RecvState(s)
        \/ ClientRequest(s)
        \/ Lose(s)

Spec == Init /\ [][Next]_vars

\* The threads run: timers fire and what has arrived is read.
Fairness ==
    /\ WF_vars(Tick)
    /\ \A s \in Server : WF_vars(SendState(s)) /\ WF_vars(RecvState(s))

FairSpec == Spec /\ Fairness

-----------------------------------------------------------------------------
(* Properties.                                                             *)

\* The pair never has two passive servers, whatever is lost, delayed or
\* restarted: bstar.cpp:188, "Two passives would mean cluster would be
\* non-responsive".
NeverBothPassive == ~ \A s \in Server : state[s] = "PASSIVE"

\* A passive server never reads PASSIVE, even from an earlier life of its peer:
\* the branch "Fatal error - dual passives, aborting" is dead code.
PassiveNeverHearsPassive ==
    \A s \in Server : state[s] = "PASSIVE" /\ pipe[s] # <<>> => Head(pipe[s]) # "PASSIVE"

\* No split brain while messages are read promptly and none is lost, through
\* any number of deaths and restarts of either server.  And with bstar no two
\* servers would answer a client at the same time: a request that waits at one
\* server cannot make it active beside the other.
AtMostOneActive ==
    /\ ~ \A s \in Server : state[s] = "ACTIVE"
    /\ program = "server2" => ~ \A s \in Server : Up(s) /\ Answers(s)

\* bstar.cpp:178 and :183, "Peer is restarting - become active, peer will go
\* passive": a server pending beside an active one becomes passive, unless
\* one of them dies.
PeerGoesPassive ==
    \A s \in Server :
        state[s] = "ACTIVE" /\ state[Other(s)] \in {"PRIMARY", "BACKUP"}
            ~> ~ Up(s) \/ state[Other(s)] \in {"PASSIVE", "DOWN"}

\* Two servers that stay up come to be one active and one passive.
PairSettles ==
    <>[](\A s \in Server : Up(s))
        => <>[](\E s \in Server : state[s] = "ACTIVE" /\ state[Other(s)] = "PASSIVE")

=============================================================================
