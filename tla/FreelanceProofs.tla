--------------------------- MODULE FreelanceProofs --------------------------
(***************************************************************************)
(* The Freelance client, for any servers, any timing and any number of     *)
(* requests: a caller is never forgotten by its agent; the queue of the    *)
(* agent holds the servers it should, and no more; answers come in order;  *)
(* everything keeps its types.                                             *)
(***************************************************************************)
EXTENDS Freelance, QueueTheorems, TLAPS

Fields == {"servers", "alive", "quiet", "age", "actives", "seq", "request", "waited", "down"}

\* What a handler is given and leaves: a record whose numbers count up from 0.
IsAgent(a) ==
    /\ a = [f \in Fields |-> a[f]]
    /\ a.seq \in Nat
    /\ a.request \in Nat

\* The types the argument needs: numbers without their bound, pipes of them.
Shape ==
    /\ IsAgent(agent)
    /\ caller = [f \in {"connected", "calls", "waiting", "rest"} |-> caller[f]]
    /\ caller.connected \in Nat
    /\ commands \in Seq(Command)
    /\ replies \in Seq(Nat)
    /\ inbox \in [Servers -> Seq(Nat)]
    /\ outbox \in [Servers -> Seq(Nat)]

\* What CallerNeverForgotten rests on.
Remembered == Shape /\ CallerNeverForgotten

\* The pipe keeps what it holds when something is put behind it.
LEMMA PutBehind ==
    ASSUME NEW S, NEW q \in Seq(S), NEW x \in S
    PROVE  /\ Append(q, x) \in Seq(S) /\ Append(q, x) # <<>>
           /\ Len(Append(q, x)) = Len(q) + 1
           /\ Append(q, x)[Len(q) + 1] = x
           /\ \A i \in DOMAIN q : i \in DOMAIN Append(q, x) /\ Append(q, x)[i] = q[i]
           /\ Len(q) + 1 \in DOMAIN Append(q, x)
  OBVIOUS

\* Of a pipe, every element but the head is in its tail.
LEMMA TailKeeps ==
    ASSUME NEW S, NEW q \in Seq(S), q # <<>>
    PROVE  /\ Head(q) \in S /\ Tail(q) \in Seq(S)
           /\ Head(q) = q[1]
           /\ \A i \in DOMAIN q : i # 1 =>
                i - 1 \in DOMAIN Tail(q) /\ Tail(q)[i - 1] = q[i]
  OBVIOUS

\* Something in either of two sequences is something in their concatenation.
LEMMA ConcatNotEmpty ==
    ASSUME NEW S, NEW p \in Seq(S), NEW q \in Seq(S), p # <<>> \/ q # <<>>
    PROVE  p \o q \in Seq(S) /\ p \o q # <<>>
  OBVIOUS

\* A prefix of what a server has sent is a sequence of the same numbers.
LEMMA PrefixIsSeq ==
    ASSUME NEW S, NEW q \in Seq(S), NEW n \in 0 .. Len(q)
    PROVE  SubSeq(q, 1, n) \in Seq(S)
  OBVIOUS

\* A pipe that drops still holds numbers.
LEMMA DeliverIsSeq ==
    ASSUME NEW q \in Seq(Nat), NEW s, NEW n \in Nat
    PROVE  Deliver(q, s, n) \in Seq(Nat)
  BY PutBehind DEF Deliver

\* reset_expiry touches the timers of one server only.
LEMMA ResetKeeps ==
    ASSUME NEW a, IsAgent(a), NEW s
    PROVE  IsAgent(reset_expiry(a, s)) /\ reset_expiry(a, s).request = a.request
  BY DEF IsAgent, Fields, reset_expiry

\* control_message: a request is taken, and never lost for another command.
LEMMA ControlKeeps ==
    ASSUME NEW a, IsAgent(a), NEW cmd \in Command
    PROVE  LET b == control_message(a, cmd) IN
           /\ IsAgent(b)
           /\ a.request # 0 => b.request # 0
           /\ cmd = NoServer => b.request # 0
<1>1. CASE cmd \in Servers
  <2> DEFINE r == IF cmd \in a.servers THEN a
                  ELSE [reset_expiry(a, cmd) EXCEPT !.servers = @ \cup {cmd}]
  <2>1. IsAgent(reset_expiry(a, cmd)) /\ reset_expiry(a, cmd).request = a.request
    BY ResetKeeps
  <2>2. IsAgent(r) /\ r.request = a.request
    BY <2>1 DEF IsAgent, Fields
  <2>3. control_message(a, cmd) = [r EXCEPT !.actives = Append(@, cmd)]
    BY <1>1 DEF control_message
  <2> HIDE DEF r
  <2>4. IsAgent(control_message(a, cmd)) /\ control_message(a, cmd).request = r.request
    BY <2>2, <2>3 DEF IsAgent, Fields
  <2>. QED  BY <1>1, <2>2, <2>4, NoServerAssumption
<1>2. CASE cmd \notin Servers /\ a.request # 0
  <2>1. control_message(a, cmd) = [a EXCEPT !.down = TRUE]
    BY <1>2 DEF control_message
  <2>. QED  BY <1>2, <2>1 DEF IsAgent, Fields
<1>3. CASE cmd \notin Servers /\ a.request = 0
  <2>1. control_message(a, cmd) =
            [a EXCEPT !.seq = @ + 1, !.request = a.seq + 1, !.waited = 0]
    BY <1>3 DEF control_message
  <2>2. /\ control_message(a, cmd).seq = a.seq + 1
        /\ control_message(a, cmd).request = a.seq + 1
    BY <2>1 DEF IsAgent, Fields
  <2>3. control_message(a, cmd) = [f \in Fields |-> control_message(a, cmd)[f]]
    BY <2>1 DEF IsAgent
  <2>4. a.seq + 1 \in Nat /\ a.seq + 1 # 0
    BY DEF IsAgent
  <2>5. IsAgent(control_message(a, cmd))
    BY <2>2, <2>3, <2>4 DEF IsAgent
  <2>. QED  BY <2>2, <2>4, <2>5
<1>. QED  BY <1>1, <1>2, <1>3

\* route_message: a request is let go only for an answer.
LEMMA RouteKeeps ==
    ASSUME NEW a, IsAgent(a), NEW s, NEW n
    PROVE  LET b == route_message(a, s, n) IN
           /\ IsAgent(b)
           /\ ~ Answers(a, n) => b.request = a.request
  BY DEF IsAgent, Fields, route_message, Heard, reset_expiry

\* The dispatch: a request is let go only when it has timed out.
LEMMA DispatchKeeps ==
    ASSUME NEW a, IsAgent(a)
    PROVE  LET b == dispatch(a) IN
           /\ IsAgent(b)
           /\ ~ TimedOut(a) => b.request = a.request
  BY DEF IsAgent, Fields, dispatch

\* The pings leave the request alone.
LEMMA PingKeeps ==
    ASSUME NEW a, IsAgent(a)
    PROVE  IsAgent(ping(a)) /\ ping(a).request = a.request
  BY DEF IsAgent, Fields, ping

-----------------------------------------------------------------------------
(* The steps.                                                              *)

\* What a pass leaves has the shape of what it found.
LEMMA PassShape ==
    ASSUME Shape, NEW s \in Servers \cup {NoServer}, Pass(s)
    PROVE  Shape'
<1> DEFINE cmd == commands # <<>>
           a == IF cmd THEN control_message(agent, Head(commands)) ELSE agent
           b == IF s \in Servers THEN route_message(a, s, Head(outbox[s])) ELSE a
           c == dispatch(b)
           ok == IF s \in Servers /\ Answers(a, Head(outbox[s]))
                 THEN <<Head(outbox[s])>> ELSE <<>>
<1>1. IsAgent(a) /\ (cmd => Tail(commands) \in Seq(Command))
  BY TailKeeps, ControlKeeps DEF Shape
<1>2. IsAgent(b)
  BY <1>1, RouteKeeps
<1>3. IsAgent(c) /\ IsAgent(ping(c))
  BY <1>2, DispatchKeeps, PingKeeps
<1>4. s \in Servers => Head(outbox[s]) \in Nat /\ Tail(outbox[s]) \in Seq(Nat)
  <2> SUFFICES ASSUME s \in Servers PROVE Head(outbox[s]) \in Nat /\ Tail(outbox[s]) \in Seq(Nat)
    OBVIOUS
  <2>1. outbox[s] \in Seq(Nat) /\ outbox[s] # <<>>
    BY DEF Shape, Pass
  <2>. QED  BY <2>1, TailKeeps
<1>5. CASE a.down
  BY <1>1, <1>5 DEF Pass, Shape
<1>6. CASE ~ a.down
  <2>1. /\ agent' = ping(c) /\ caller' = caller
        /\ commands' = IF cmd THEN Tail(commands) ELSE commands
        /\ replies' = replies \o ok \o Fails(b)
        /\ outbox' = IF s \in Servers THEN [outbox EXCEPT ![s] = Tail(@)] ELSE outbox
        /\ inbox' = [t \in Servers |->
                LET q == IF t \in Target(b) THEN Deliver(inbox[t], t, b.request)
                                            ELSE inbox[t]
                IN IF t \in Pinged(c) THEN Deliver(q, t, 0) ELSE q]
    BY <1>6 DEF Pass
  <2>2. ok \in Seq(Nat) /\ Fails(b) \in Seq(Nat)
    BY <1>4 DEF Fails
  <2>3. replies' \in Seq(Nat)
    <3> HIDE DEF ok
    <3>. QED  BY <2>1, <2>2 DEF Shape
  <2>4. inbox' \in [Servers -> Seq(Nat)]
    <3>1. ASSUME NEW t \in Servers
          PROVE  Deliver(inbox[t], t, b.request) \in Seq(Nat) /\ inbox[t] \in Seq(Nat)
      BY <1>2, DeliverIsSeq DEF IsAgent, Shape
    <3>2. ASSUME NEW t \in Servers, NEW q \in Seq(Nat)
          PROVE  Deliver(q, t, 0) \in Seq(Nat)
      BY DeliverIsSeq
    <3> HIDE DEF b, c
    <3>. QED  BY <2>1, <3>1, <3>2
  <2>5. outbox' \in [Servers -> Seq(Nat)]
    BY <1>4, <2>1 DEF Shape
  <2>. QED  BY <1>1, <1>3, <2>1, <2>3, <2>4, <2>5 DEF Shape
<1>. QED  BY <1>5, <1>6

\* A pass forgets no caller: what it takes out of the pipe the agent holds, and
\* what the agent lets go of is answered.
LEMMA PassRemembers ==
    ASSUME Remembered, NEW s \in Servers \cup {NoServer}, Pass(s)
    PROVE  CallerNeverForgotten'
<1> DEFINE cmd == commands # <<>>
           a == IF cmd THEN control_message(agent, Head(commands)) ELSE agent
           b == IF s \in Servers THEN route_message(a, s, Head(outbox[s])) ELSE a
           c == dispatch(b)
           ok == IF s \in Servers /\ Answers(a, Head(outbox[s]))
                 THEN <<Head(outbox[s])>> ELSE <<>>
<1>0. Shape /\ ~ agent.down /\ caller' = caller
  BY DEF Remembered, Pass
<1> SUFFICES ASSUME caller.waiting, ~ a.down
             PROVE  \/ \E i \in DOMAIN commands' : commands'[i] = NoServer
                    \/ agent'.request # 0
                    \/ replies' # <<>>
  <2>1. a.down => agent' = a
    BY DEF Pass
  <2>. QED  BY <1>0, <2>1 DEF CallerNeverForgotten
<1>1. /\ agent' = ping(c)
      /\ commands' = IF cmd THEN Tail(commands) ELSE commands
      /\ replies' = replies \o ok \o Fails(b)
  BY DEF Pass
<1>2. /\ IsAgent(a)
      /\ agent.request # 0 => a.request # 0
      /\ cmd /\ Head(commands) = NoServer => a.request # 0
  BY <1>0, TailKeeps, ControlKeeps DEF Shape
<1>3. IsAgent(b) /\ (ok = <<>> => b.request = a.request)
  BY <1>2, RouteKeeps
<1>4. IsAgent(c) /\ (~ TimedOut(b) => agent'.request = b.request)
  BY <1>1, <1>3, DispatchKeeps, PingKeeps
<1>5. ok \in Seq(Nat) /\ Fails(b) \in Seq(Nat) /\ (TimedOut(b) => Fails(b) # <<>>)
  <2>1. s \in Servers => Head(outbox[s]) \in Nat
    <3> SUFFICES ASSUME s \in Servers PROVE Head(outbox[s]) \in Nat
      OBVIOUS
    <3>1. outbox[s] \in Seq(Nat) /\ outbox[s] # <<>>
      BY <1>0 DEF Shape, Pass
    <3>. QED  BY <3>1, TailKeeps
  <2>. QED  BY <2>1 DEF Fails
<1>6. replies # <<>> \/ ok # <<>> \/ Fails(b) # <<>> => replies' # <<>>
  <2> HIDE DEF ok
  <2>1. replies \o ok \in Seq(Nat)
    BY <1>0, <1>5, ConcatNotEmpty DEF Shape
  <2>. QED  BY <1>0, <1>1, <1>5, <2>1, ConcatNotEmpty DEF Shape
<1>7. a.request # 0 => agent'.request # 0 \/ replies' # <<>>
  BY <1>3, <1>4, <1>5, <1>6
<1>8. \/ \E i \in DOMAIN commands : commands[i] = NoServer
      \/ agent.request # 0
      \/ replies # <<>>
  BY <1>0 DEF Remembered, CallerNeverForgotten
<1>9. ASSUME NEW i \in DOMAIN commands, commands[i] = NoServer
      PROVE  a.request # 0 \/ \E j \in DOMAIN commands' : commands'[j] = NoServer
  <2>1. cmd /\ commands \in Seq(Command)
    BY <1>0 DEF Shape
  <2>2. CASE i = 1
    BY <1>2, <1>9, <2>1, <2>2, TailKeeps
  <2>3. CASE i # 1
    BY <1>1, <1>9, <2>1, <2>3, TailKeeps
  <2>. QED  BY <2>2, <2>3
<1>. QED  BY <1>2, <1>6, <1>7, <1>8, <1>9

\* What the caller puts into the pipe when it connects is an endpoint.
LEMMA ConnectsServer ==
    ASSUME Shape, Connect
    PROVE  Endpoints[caller.connected + 1] \in Command
<1>1. caller.connected + 1 \in 1 .. Len(Endpoints)
  BY EndpointsAssumption DEF Shape, Connect
<1>. QED  BY <1>1, EndpointsAssumption DEF Command

\* Every step keeps the shape.
LEMMA StepShape ==
    ASSUME Shape, [Next]_vars
    PROVE  Shape'
<1>1. CASE Tick
  <2>1. IsAgent(agent')
    BY <1>1 DEF Tick, Shape, IsAgent, Fields
  <2>2. /\ caller' = [f \in {"connected", "calls", "waiting", "rest"} |-> caller'[f]]
        /\ caller'.connected = caller.connected
    BY <1>1 DEF Tick, Shape
  <2>. QED  BY <1>1, <2>1, <2>2 DEF Tick, Shape
<1>2. CASE AgentPass
  BY <1>2, PassShape DEF AgentPass
<1>3. CASE Connect
  <2>1. Endpoints[caller.connected + 1] \in Command
    BY <1>3, ConnectsServer
  <2>2. commands' \in Seq(Command)
    BY <1>3, <2>1, PutBehind DEF Connect, Shape
  <2>3. caller' = [f \in {"connected", "calls", "waiting", "rest"} |-> caller'[f]]
    BY <1>3 DEF Connect, Shape
  <2>4. caller'.connected \in Nat
    BY <1>3 DEF Connect, Shape
  <2>. QED  BY <1>3, <2>2, <2>3, <2>4 DEF Connect, Shape
<1>4. CASE Request
  <2>1. commands' \in Seq(Command)
    BY <1>4, PutBehind DEF Request, Shape, Command
  <2>. QED  BY <1>4, <2>1 DEF Request, Shape
<1>5. CASE Return
  <2>1. replies' \in Seq(Nat)
    BY <1>5, TailKeeps DEF Return, Shape
  <2>. QED  BY <1>5, <2>1 DEF Return, Shape
<1>6. ASSUME NEW s \in Servers, Serve(s)
      PROVE  Shape'
  <2>1. inbox[s] \in Seq(Nat) /\ inbox[s] # <<>> /\ outbox[s] \in Seq(Nat)
    BY <1>6 DEF Serve, Shape
  <2>2. Head(inbox[s]) \in Nat /\ Tail(inbox[s]) \in Seq(Nat)
    BY <2>1, TailKeeps
  <2>3. Deliver(outbox[s], s, Head(inbox[s])) \in Seq(Nat)
    BY <2>1, <2>2, DeliverIsSeq
  <2>. QED  BY <1>6, <2>2, <2>3 DEF Serve, Shape
<1>7. ASSUME NEW s \in Servers, ServerDies(s)
      PROVE  Shape'
  <2>1. PICK n \in 0 .. Len(outbox[s]) : outbox' = [outbox EXCEPT ![s] = SubSeq(@, 1, n)]
    BY <1>7 DEF ServerDies
  <2>2. SubSeq(outbox[s], 1, n) \in Seq(Nat)
    BY PrefixIsSeq DEF Shape
  <2>. QED  BY <1>7, <2>1, <2>2 DEF ServerDies, Shape
<1>8. ASSUME NEW s \in Servers, ServerStarts(s)
      PROVE  Shape'
  BY <1>8 DEF ServerStarts, Shape
<1>9. CASE UNCHANGED vars
  BY <1>9 DEF vars, Shape
<1>. QED  BY <1>1, <1>2, <1>3, <1>4, <1>5, <1>6, <1>7, <1>8, <1>9 DEF Next

\* Every step keeps a waiting caller remembered.
LEMMA StepRemembers ==
    ASSUME Remembered, [Next]_vars
    PROVE  CallerNeverForgotten'
<1>0. Shape /\ CallerNeverForgotten
  BY DEF Remembered
<1>1. CASE Tick
  <2>1. agent'.request = agent.request /\ agent'.down = agent.down
    BY <1>0, <1>1 DEF Tick, Shape, IsAgent, Fields
  <2>2. caller'.waiting = caller.waiting
    BY <1>0, <1>1 DEF Tick, Shape
  <2>. QED  BY <1>0, <1>1, <2>1, <2>2 DEF Tick, CallerNeverForgotten
<1>2. CASE AgentPass
  BY <1>2, PassRemembers DEF AgentPass
<1>3. CASE Connect
  <2>1. Endpoints[caller.connected + 1] \in Command
    BY <1>0, <1>3, ConnectsServer
  <2>2. \A i \in DOMAIN commands : i \in DOMAIN commands' /\ commands'[i] = commands[i]
    BY <1>0, <1>3, <2>1, PutBehind DEF Connect, Shape
  <2>3. caller'.waiting = caller.waiting
    BY <1>0, <1>3 DEF Connect, Shape
  <2>. QED  BY <1>0, <1>3, <2>2, <2>3 DEF Connect, CallerNeverForgotten
<1>4. CASE Request
  <2>1. commands'[Len(commands) + 1] = NoServer /\ Len(commands) + 1 \in DOMAIN commands'
    BY <1>0, <1>4, PutBehind DEF Request, Shape, Command
  <2>. QED  BY <2>1 DEF CallerNeverForgotten
<1>5. CASE Return
  <2>1. ~ caller'.waiting
    BY <1>0, <1>5 DEF Return, Shape
  <2>. QED  BY <2>1 DEF CallerNeverForgotten
<1>6. ASSUME NEW s \in Servers, Serve(s) \/ ServerDies(s) \/ ServerStarts(s)
      PROVE  CallerNeverForgotten'
  BY <1>0, <1>6 DEF Serve, ServerDies, ServerStarts, CallerNeverForgotten
<1>7. CASE UNCHANGED vars
  BY <1>0, <1>7 DEF vars, CallerNeverForgotten
<1>. QED  BY <1>1, <1>2, <1>3, <1>4, <1>5, <1>6, <1>7 DEF Next

\* request() of flcliapi.cpp is never forgotten: while its caller waits, the
\* command is on its way, or the agent holds the request, or there is a reply.
THEOREM NeverForgotten == Spec => []CallerNeverForgotten
<1>1. Init => Remembered
  <2> SUFFICES ASSUME Init PROVE Remembered
    OBVIOUS
  <2>1. IsAgent(agent)
    BY DEF Init, IsAgent, Fields
  <2>2. /\ caller = [f \in {"connected", "calls", "waiting", "rest"} |-> caller[f]]
        /\ caller.connected \in Nat /\ ~ caller.waiting
    BY DEF Init
  <2>3. /\ commands \in Seq(Command) /\ replies \in Seq(Nat)
        /\ inbox \in [Servers -> Seq(Nat)] /\ outbox \in [Servers -> Seq(Nat)]
    BY DEF Init
  <2>. QED  BY <2>1, <2>2, <2>3 DEF Remembered, Shape, CallerNeverForgotten
<1>2. Remembered /\ [Next]_vars => Remembered'
  BY StepShape, StepRemembers DEF Remembered
<1>3. Remembered => CallerNeverForgotten
  BY DEF Remembered
<1>. QED  BY <1>1, <1>2, <1>3, PTL DEF Spec

-----------------------------------------------------------------------------
(***************************************************************************)
(* The queue of the Freelance agent, actives_, and the order of the        *)
(* answers, for any servers, any timing and any number of requests.        *)
(***************************************************************************)

\* Not in the queue, once at most, twice at most.
Absent(q, s) == \A i \in DOMAIN q : q[i] # s
OnceAtMost(q, s) == \A i, j \in DOMAIN q : q[i] = s /\ q[j] = s => i = j
TwiceAtMost(q, s) ==
    \A i, j, k \in DOMAIN q : q[i] = s /\ q[j] = s /\ q[k] = s => i = j \/ j = k \/ i = k

\* What the queue holds of a server: nothing before it is known, one copy at most
\* of a server that is not alive, one or two of a server that is.
QueueOf(a, s) ==
    /\ s \notin a.servers => ~ a.alive[s] /\ Absent(a.actives, s)
    /\ ~ a.alive[s] => OnceAtMost(a.actives, s)
    /\ a.alive[s] => ~ Absent(a.actives, s)
    /\ TwiceAtMost(a.actives, s)

Queue(a) ==
    /\ a.servers \subseteq Servers
    /\ a.alive \in [Servers -> BOOLEAN]
    /\ a.actives \in Seq(Servers)
    /\ \A s \in Servers : QueueOf(a, s)

\* A server is connected to once: what is still in the pipe, or still to be put
\* there, is not known yet; who has been sent something is.
Connecting ==
    /\ \A i \in DOMAIN commands : commands[i] \in Servers =>
          /\ commands[i] \notin agent.servers
          /\ \E n \in 1 .. caller.connected : n \in DOMAIN Endpoints /\ commands[i] = Endpoints[n]
    /\ \A i, j \in DOMAIN commands :
          commands[i] \in Servers /\ commands[i] = commands[j] => i = j
    /\ \A s \in agent.servers :
          \E n \in 1 .. caller.connected : n \in DOMAIN Endpoints /\ s = Endpoints[n]

Known ==
    \A s \in Servers : inbox[s] # <<>> \/ outbox[s] # <<>> => s \in agent.servers

\* Answers are in order, none newer than m.
Ordered(q, m) ==
    /\ \A i, j \in DOMAIN q : i < j /\ q[i] # 0 /\ q[j] # 0 => q[i] <= q[j]
    /\ \A i \in DOMAIN q : q[i] <= m

Queued ==
    Shape /\ Queue(agent) /\ Connecting /\ Known /\ Ordered(replies, agent.seq)

-----------------------------------------------------------------------------
(* Sequences.                                                              *)

\* Behind a queue that does not hold s once more, s is held once more.
LEMMA AppendCopies ==
    ASSUME NEW q \in Seq(Servers), NEW x \in Servers, NEW s \in Servers
    PROVE  /\ Append(q, x) \in Seq(Servers)
           /\ s # x /\ Absent(q, s) => Absent(Append(q, x), s)
           /\ ~ Absent(q, s) => ~ Absent(Append(q, x), s)
           /\ s # x /\ OnceAtMost(q, s) => OnceAtMost(Append(q, x), s)
           /\ s # x /\ TwiceAtMost(q, s) => TwiceAtMost(Append(q, x), s)
           /\ ~ Absent(Append(q, x), x)
           /\ Absent(q, x) => OnceAtMost(Append(q, x), x)
           /\ OnceAtMost(q, x) => TwiceAtMost(Append(q, x), x)
<1> DEFINE p == Append(q, x)
<1>1. /\ p \in Seq(Servers) /\ Len(q) \in Nat
      /\ DOMAIN q = 1 .. Len(q) /\ DOMAIN p = 1 .. Len(q) + 1
      /\ \A i \in DOMAIN q : p[i] = q[i]
      /\ p[Len(q) + 1] = x
  OBVIOUS
<1> HIDE DEF p
<1>2. \A i \in DOMAIN p : i \in DOMAIN q \/ i = Len(q) + 1
  BY <1>1
<1>3. DOMAIN q \subseteq DOMAIN p /\ Len(q) + 1 \in DOMAIN p
  BY <1>1
<1>4. /\ s # x /\ Absent(q, s) => Absent(p, s)
      /\ ~ Absent(q, s) => ~ Absent(p, s)
      /\ ~ Absent(p, x)
  BY <1>1, <1>2, <1>3 DEF Absent
<1>5. s # x /\ OnceAtMost(q, s) => OnceAtMost(p, s)
  BY <1>1, <1>2 DEF OnceAtMost
<1>6. s # x /\ TwiceAtMost(q, s) => TwiceAtMost(p, s)
  BY <1>1, <1>2 DEF TwiceAtMost
<1>7. Absent(q, x) => OnceAtMost(p, x)
  BY <1>1, <1>2 DEF OnceAtMost, Absent
<1>8. OnceAtMost(q, x) => TwiceAtMost(p, x)
  BY <1>1, <1>2 DEF OnceAtMost, TwiceAtMost
<1> QED BY <1>1, <1>4, <1>5, <1>6, <1>7, <1>8 DEF p

\* What is behind the first n - 1 elements.
LEMMA SuffixCopies ==
    ASSUME NEW q \in Seq(Servers), NEW n \in 1 .. Len(q) + 1, NEW s \in Servers
    PROVE  LET p == SubSeq(q, n, Len(q)) IN
           /\ p \in Seq(Servers)
           /\ Absent(q, s) => Absent(p, s)
           /\ OnceAtMost(q, s) => OnceAtMost(p, s)
           /\ TwiceAtMost(q, s) => TwiceAtMost(p, s)
           /\ (\A i \in 1 .. n - 1 : q[i] # s) /\ ~ Absent(q, s) => ~ Absent(p, s)
           /\ (\E i \in 1 .. n - 1 : q[i] = s) /\ TwiceAtMost(q, s) => OnceAtMost(p, s)
<1> DEFINE p == SubSeq(q, n, Len(q))
<1>1. /\ Len(q) \in Nat /\ n \in Nat /\ DOMAIN q = 1 .. Len(q)
      /\ p \in Seq(Servers)
      /\ DOMAIN p = 1 .. Len(q) - n + 1
      /\ \A i \in DOMAIN p : p[i] = q[i + n - 1]
  OBVIOUS
<1> HIDE DEF p
<1>2. \A i \in DOMAIN p : i \in Nat /\ i + n - 1 \in DOMAIN q /\ i + n - 1 \notin 1 .. n - 1
  BY <1>1
<1>3. \A i \in DOMAIN q : i \notin 1 .. n - 1 =>
          i - n + 1 \in DOMAIN p /\ p[i - n + 1] = q[i]
  <2> SUFFICES ASSUME NEW i \in DOMAIN q, i \notin 1 .. n - 1
               PROVE  i - n + 1 \in DOMAIN p /\ p[i - n + 1] = q[i]
    OBVIOUS
  <2>1. i - n + 1 \in DOMAIN p /\ (i - n + 1) + n - 1 = i
    BY <1>1
  <2> QED BY <1>1, <2>1
<1>4. \A i, j \in DOMAIN p : i + n - 1 = j + n - 1 => i = j
  BY <1>1, <1>2
<1>5. Absent(q, s) => Absent(p, s)
  BY <1>1, <1>2 DEF Absent
<1>6. OnceAtMost(q, s) => OnceAtMost(p, s)
  BY <1>1, <1>2, <1>4 DEF OnceAtMost
<1>7. TwiceAtMost(q, s) => TwiceAtMost(p, s)
  BY <1>1, <1>2, <1>4 DEF TwiceAtMost
<1>8. (\A i \in 1 .. n - 1 : q[i] # s) /\ ~ Absent(q, s) => ~ Absent(p, s)
  BY <1>3 DEF Absent
<1>9. ASSUME NEW k \in 1 .. n - 1, q[k] = s, TwiceAtMost(q, s)
      PROVE  OnceAtMost(p, s)
  <2> SUFFICES ASSUME NEW i \in DOMAIN p, NEW j \in DOMAIN p, p[i] = s, p[j] = s
               PROVE  i = j
    BY DEF OnceAtMost
  <2>1. k \in DOMAIN q
    BY <1>1
  <2>2. /\ i + n - 1 \in DOMAIN q /\ q[i + n - 1] = s /\ i + n - 1 # k
        /\ j + n - 1 \in DOMAIN q /\ q[j + n - 1] = s /\ j + n - 1 # k
    BY <1>1, <1>2
  <2>3. i + n - 1 = j + n - 1
    BY <1>9, <2>1, <2>2 DEF TwiceAtMost
  <2> QED BY <1>4, <2>3
<1> QED BY <1>1, <1>5, <1>6, <1>7, <1>8, <1>9 DEF p

-----------------------------------------------------------------------------
(* The handlers.                                                           *)

\* The queue depends on three members.
LEMMA SameQueue ==
    ASSUME NEW a, NEW b, Queue(a),
           b.servers = a.servers, b.alive = a.alive, b.actives = a.actives
    PROVE  Queue(b)
BY DEF Queue, QueueOf

\* A CONNECT queues a server that is not known; a request queues nothing.
LEMMA ControlQueue ==
    ASSUME NEW a, IsAgent(a), Queue(a), NEW cmd \in Command,
           cmd \in Servers => cmd \notin a.servers
    PROVE  LET b == control_message(a, cmd) IN
           /\ Queue(b)
           /\ b.servers = a.servers \cup ({cmd} \cap Servers)
           /\ b.seq \in Nat /\ b.seq >= a.seq
<1> DEFINE b == control_message(a, cmd)
<1>1. CASE cmd \in Servers
  <2> DEFINE r == [reset_expiry(a, cmd) EXCEPT !.servers = @ \cup {cmd}]
  <2>1. r.servers = a.servers \cup {cmd} /\ r.alive = a.alive /\ r.actives = a.actives
        /\ r = [f \in Fields |-> r[f]] /\ r.seq = a.seq
    BY DEF reset_expiry, IsAgent, Fields
  <2>2. b = [r EXCEPT !.actives = Append(@, cmd)]
    BY <1>1 DEF control_message
  <2> HIDE DEF r, b
  <2>3. /\ b.servers = a.servers \cup {cmd} /\ b.alive = a.alive
        /\ b.actives = Append(a.actives, cmd) /\ b.seq = a.seq
    BY <2>1, <2>2 DEF Fields
  <2>4. ASSUME NEW s \in Servers PROVE QueueOf(b, s)
    <3>1. QueueOf(a, s) /\ QueueOf(a, cmd) /\ a.actives \in Seq(Servers)
      BY <1>1 DEF Queue
    <3>2. CASE s = cmd
      <4>1. ~ a.alive[cmd] /\ Absent(a.actives, cmd)
        BY <1>1, <3>1 DEF QueueOf
      <4>2. OnceAtMost(a.actives, cmd)
        BY <4>1 DEF Absent, OnceAtMost
      <4>3. /\ OnceAtMost(Append(a.actives, cmd), cmd)
            /\ TwiceAtMost(Append(a.actives, cmd), cmd)
        BY <1>1, <3>1, <4>1, <4>2, AppendCopies
      <4> QED BY <2>3, <3>2, <4>1, <4>3 DEF QueueOf
    <3>3. CASE s # cmd
      <4>1. /\ Absent(a.actives, s) => Absent(Append(a.actives, cmd), s)
            /\ ~ Absent(a.actives, s) => ~ Absent(Append(a.actives, cmd), s)
            /\ OnceAtMost(a.actives, s) => OnceAtMost(Append(a.actives, cmd), s)
            /\ TwiceAtMost(a.actives, s) => TwiceAtMost(Append(a.actives, cmd), s)
        BY <1>1, <3>1, <3>3, AppendCopies
      <4> QED BY <2>3, <3>1, <3>3, <4>1 DEF QueueOf
    <3> QED BY <3>2, <3>3
  <2>5. Append(a.actives, cmd) \in Seq(Servers)
    BY <1>1, AppendCopies DEF Queue
  <2>6. Queue(b)
    BY <1>1, <2>3, <2>4, <2>5 DEF Queue
  <2>7. a.seq \in Nat
    BY DEF IsAgent
  <2> QED BY <1>1, <2>3, <2>6, <2>7 DEF b
<1>2. CASE cmd \notin Servers
  <2>1. /\ b.servers = a.servers /\ b.alive = a.alive /\ b.actives = a.actives
        /\ b.seq = a.seq \/ b.seq = a.seq + 1
    BY <1>2 DEF control_message, IsAgent, Fields
  <2> HIDE DEF b
  <2>2. Queue(b)
    BY <2>1, SameQueue
  <2>3. a.seq \in Nat
    BY DEF IsAgent
  <2> QED BY <1>2, <2>1, <2>2, <2>3 DEF b
<1> QED BY <1>1, <1>2

\* A server that is heard is queued once more when it was not alive.
LEMMA RouteQueue ==
    ASSUME NEW a, IsAgent(a), Queue(a), NEW s \in a.servers, NEW n
    PROVE  LET b == route_message(a, s, n) IN
           Queue(b) /\ b.servers = a.servers /\ b.seq = a.seq
<1> DEFINE b == route_message(a, s, n)
<1>1. /\ b.servers = a.servers /\ b.seq = a.seq
      /\ b.alive = [a.alive EXCEPT ![s] = TRUE]
      /\ b.actives = IF a.alive[s] THEN a.actives ELSE Append(a.actives, s)
  BY DEF route_message, Heard, reset_expiry, IsAgent, Fields
<1> HIDE DEF b
<1>2. s \in Servers /\ a.actives \in Seq(Servers) /\ a.alive \in [Servers -> BOOLEAN]
  BY DEF Queue
<1>3. b.alive[s] = TRUE /\ \A x \in Servers \ {s} : b.alive[x] = a.alive[x]
  BY <1>1, <1>2
<1>4. b.actives \in Seq(Servers) /\ b.alive \in [Servers -> BOOLEAN]
  BY <1>1, <1>2, AppendCopies
<1>5. ASSUME NEW x \in Servers PROVE QueueOf(b, x)
  <2>1. QueueOf(a, x) /\ QueueOf(a, s)
    BY <1>2 DEF Queue
  <2>2. CASE a.alive[s]
    <3>1. b.actives = a.actives
      BY <1>1, <2>2
    <3>2. b.alive = a.alive
      BY <1>1, <1>2, <2>2
    <3> QED BY <1>1, <2>1, <3>1, <3>2 DEF QueueOf
  <2>3. CASE ~ a.alive[s]
    <3>1. b.actives = Append(a.actives, s)
      BY <1>1, <2>3
    <3>2. CASE x = s
      <4>1. OnceAtMost(a.actives, s)
        BY <2>1, <2>3 DEF QueueOf
      <4>2. TwiceAtMost(b.actives, s) /\ ~ Absent(b.actives, s)
        BY <1>2, <3>1, <4>1, AppendCopies
      <4> QED BY <1>1, <1>3, <3>2, <4>2 DEF QueueOf
    <3>3. CASE x # s
      <4>1. /\ Absent(a.actives, x) => Absent(b.actives, x)
            /\ ~ Absent(a.actives, x) => ~ Absent(b.actives, x)
            /\ OnceAtMost(a.actives, x) => OnceAtMost(b.actives, x)
            /\ TwiceAtMost(a.actives, x) => TwiceAtMost(b.actives, x)
        BY <1>2, <3>1, <3>3, AppendCopies
      <4>2. b.alive[x] = a.alive[x]
        BY <1>3, <3>3
      <4> QED BY <1>1, <2>1, <4>1, <4>2 DEF QueueOf
    <3> QED BY <3>2, <3>3
  <2> QED BY <2>2, <2>3
<1>6. Queue(b)
  BY <1>1, <1>4, <1>5 DEF Queue
<1> QED BY <1>1, <1>6 DEF b

\* The first server that has not expired is in the queue.
LEMMA FirstLiveInQueue ==
    ASSUME NEW a, Queue(a)
    PROVE  /\ FirstLive(a) \in 1 .. Len(a.actives) + 1
           /\ Live(a) # {} => FirstLive(a) \in DOMAIN a.actives
<1>1. a.actives \in Seq(Servers) /\ Len(a.actives) \in Nat
      /\ DOMAIN a.actives = 1 .. Len(a.actives)
  BY DEF Queue
<1>2. CASE Live(a) = {}
  BY <1>1, <1>2 DEF FirstLive
<1>3. CASE Live(a) # {}
  <2>1. Live(a) \subseteq Nat
    BY <1>1 DEF Live
  <2>2. \E i \in Live(a) : \A j \in Live(a) : i <= j
    BY <1>3, <2>1, LeastNat
  <2>3. FirstLive(a) \in Live(a)
    BY <1>3, <2>2 DEF FirstLive
  <2> QED BY <1>1, <2>3 DEF Live
<1> QED BY <1>2, <1>3

\* The dispatch takes out of the queue who is no longer alive then.
LEMMA DispatchQueue ==
    ASSUME NEW a, IsAgent(a), Queue(a)
    PROVE  LET b == dispatch(a) IN
           Queue(b) /\ b.servers = a.servers /\ b.seq = a.seq
<1> DEFINE b == dispatch(a)
           n == FirstLive(a)
<1>1. CASE a.request = 0 \/ TimedOut(a)
  <2>1. /\ b.servers = a.servers /\ b.seq = a.seq
        /\ b.alive = a.alive /\ b.actives = a.actives
    BY <1>1 DEF dispatch, IsAgent, Fields
  <2> HIDE DEF b
  <2>2. Queue(b)
    BY <2>1, SameQueue
  <2> QED BY <2>1, <2>2 DEF b
<1>2. CASE ~ (a.request = 0 \/ TimedOut(a))
  <2>1. /\ b.servers = a.servers /\ b.seq = a.seq
        /\ b.alive = [s \in Servers |->
                a.alive[s] /\ \A i \in 1 .. n - 1 : a.actives[i] # s]
        /\ b.actives = SubSeq(a.actives, n, Len(a.actives))
    BY <1>2 DEF dispatch, IsAgent, Fields
  <2>2. n \in 1 .. Len(a.actives) + 1 /\ a.actives \in Seq(Servers)
    BY FirstLiveInQueue DEF Queue
  <2> HIDE DEF b, n
  <2>3. b.alive \in [Servers -> BOOLEAN]
    BY <2>1, Zenon
  <2>4. ASSUME NEW s \in Servers PROVE QueueOf(b, s)
    <3>1. QueueOf(a, s)
      BY DEF Queue
    <3>2. b.alive[s] <=> a.alive[s] /\ \A i \in 1 .. n - 1 : a.actives[i] # s
      BY <2>1, Zenon
    <3>3. /\ Absent(a.actives, s) => Absent(b.actives, s)
          /\ OnceAtMost(a.actives, s) => OnceAtMost(b.actives, s)
          /\ TwiceAtMost(a.actives, s) => TwiceAtMost(b.actives, s)
          /\ (\A i \in 1 .. n - 1 : a.actives[i] # s) /\ ~ Absent(a.actives, s)
                => ~ Absent(b.actives, s)
          /\ (\E i \in 1 .. n - 1 : a.actives[i] = s) /\ TwiceAtMost(a.actives, s)
                => OnceAtMost(b.actives, s)
      BY <2>1, <2>2, SuffixCopies
    <3>4. s \notin b.servers => ~ b.alive[s] /\ Absent(b.actives, s)
      BY <2>1, <3>1, <3>2, <3>3, Zenon DEF QueueOf
    <3>5. ~ b.alive[s] => OnceAtMost(b.actives, s)
      BY <3>1, <3>2, <3>3, Zenon DEF QueueOf
    <3>6. b.alive[s] => ~ Absent(b.actives, s)
      BY <3>1, <3>2, <3>3, Zenon DEF QueueOf
    <3>7. TwiceAtMost(b.actives, s)
      BY <3>1, <3>3 DEF QueueOf
    <3> QED BY <3>4, <3>5, <3>6, <3>7 DEF QueueOf
  <2>5. b.actives \in Seq(Servers)
    BY <2>1, <2>2, SuffixCopies
  <2>6. Queue(b)
    BY <2>1, <2>3, <2>4, <2>5 DEF Queue
  <2> QED BY <2>1, <2>6 DEF b
<1> QED BY <1>1, <1>2

\* The pings change timers only.
LEMMA PingQueue ==
    ASSUME NEW a, IsAgent(a), Queue(a)
    PROVE  Queue(ping(a)) /\ ping(a).servers = a.servers /\ ping(a).seq = a.seq
<1>1. /\ ping(a).servers = a.servers /\ ping(a).alive = a.alive
      /\ ping(a).actives = a.actives /\ ping(a).seq = a.seq
  BY DEF ping, IsAgent, Fields
<1>2. Queue(ping(a))
  BY <1>1, SameQueue
<1> QED BY <1>1, <1>2

\* Who is sent a request, or a PING, is known.
LEMMA SentToKnown ==
    ASSUME NEW a, Queue(a)
    PROVE  Target(a) \subseteq a.servers /\ Pinged(a) \subseteq a.servers
<1>1. Pinged(a) \subseteq a.servers
  BY DEF Pinged
<1>2. ASSUME NEW s \in Target(a) PROVE s \in a.servers
  <2>1. Live(a) # {} /\ s = a.actives[FirstLive(a)]
    BY <1>2 DEF Target
  <2>2. FirstLive(a) \in DOMAIN a.actives /\ a.actives \in Seq(Servers)
    BY <2>1, FirstLiveInQueue DEF Queue
  <2>3. s \in Servers /\ ~ Absent(a.actives, s)
    BY <2>1, <2>2 DEF Absent
  <2> QED BY <2>3 DEF Queue, QueueOf
<1> QED BY <1>1, <1>2

\* Only a request can end the agent.
LEMMA ConnectKeepsUp ==
    ASSUME NEW a, IsAgent(a), ~ a.down, NEW cmd \in Servers
    PROVE  ~ control_message(a, cmd).down
BY DEF control_message, reset_expiry, IsAgent, Fields

\* FAILED, or an answer to the last request, behind ordered replies.
LEMMA OrderedConcat ==
    ASSUME NEW q \in Seq(Nat), NEW m \in Nat, NEW k \in Nat, m <= k, Ordered(q, m),
           NEW p, p \in {<<>>, << 0 >>, <<k>>}
    PROVE  q \o p \in Seq(Nat) /\ Ordered(q \o p, k)
<1>1. CASE p = <<>>
  <2>1. q \o p = q
    BY <1>1
  <2>2. \A i \in DOMAIN q : q[i] \in Nat
    OBVIOUS
  <2> QED BY <2>1, <2>2 DEF Ordered
<1>2. CASE p \in {<<0>>, <<k>>}
  <2>1. PICK x \in {0, k} : p = <<x>>
    BY <1>2
  <2> DEFINE o == q \o <<x>>
  <2>2. /\ o \in Seq(Nat) /\ Len(q) \in Nat
        /\ DOMAIN q = 1 .. Len(q) /\ DOMAIN o = 1 .. Len(q) + 1
        /\ \A i \in DOMAIN q : o[i] = q[i] /\ q[i] \in Nat
        /\ o[Len(q) + 1] = x
    OBVIOUS
  <2> HIDE DEF o
  <2>3. \A i \in DOMAIN o : o[i] <= k
    <3> SUFFICES ASSUME NEW i \in DOMAIN o PROVE o[i] <= k
      OBVIOUS
    <3>1. CASE i \in DOMAIN q
      BY <2>2, <3>1 DEF Ordered
    <3>2. CASE i = Len(q) + 1
      BY <2>2, <3>2
    <3> QED BY <2>2, <3>1, <3>2
  <2>4. ASSUME NEW i \in DOMAIN o, NEW j \in DOMAIN o, i < j, o[i] # 0, o[j] # 0
        PROVE  o[i] <= o[j]
    <3>1. i \in DOMAIN q
      BY <2>2, <2>4
    <3>2. CASE j \in DOMAIN q
      BY <2>2, <2>4, <3>1, <3>2 DEF Ordered
    <3>3. CASE j = Len(q) + 1
      BY <2>2, <2>3, <2>4, <3>3
    <3> QED BY <2>2, <3>2, <3>3
  <2> QED BY <2>1, <2>2, <2>3, <2>4 DEF Ordered, o
<1> QED BY <1>1, <1>2

\* What is behind the head is as ordered.
LEMMA OrderedTail ==
    ASSUME NEW q \in Seq(Nat), q # <<>>, NEW m \in Nat, Ordered(q, m)
    PROVE  Ordered(Tail(q), m)
<1>1. /\ Len(q) \in Nat /\ DOMAIN q = 1 .. Len(q) /\ DOMAIN Tail(q) = 1 .. Len(q) - 1
      /\ \A i \in DOMAIN Tail(q) : i \in Nat /\ i + 1 \in DOMAIN q /\ Tail(q)[i] = q[i + 1]
  OBVIOUS
<1>2. \A i, j \in DOMAIN Tail(q) : i < j => i + 1 < j + 1
  BY <1>1
<1> QED BY <1>1, <1>2 DEF Ordered

-----------------------------------------------------------------------------
(* The steps.                                                              *)

\* A pass: who is heard was known, who is connected to was not.
LEMMA PassQueued ==
    ASSUME Queued, NEW s \in Servers \cup {NoServer}, Pass(s)
    PROVE  Queue(agent') /\ Connecting' /\ Known' /\ Ordered(replies', agent'.seq)
<1> DEFINE cmd == commands # <<>>
           h == Head(commands)
           a == IF cmd THEN control_message(agent, h) ELSE agent
           b == IF s \in Servers THEN route_message(a, s, Head(outbox[s])) ELSE a
           c == dispatch(b)
           ok == IF s \in Servers /\ Answers(a, Head(outbox[s]))
                 THEN <<Head(outbox[s])>> ELSE <<>>
           new == IF cmd THEN {h} \cap Servers ELSE {}
<1>1. /\ Shape /\ Queue(agent) /\ Connecting /\ Known /\ Ordered(replies, agent.seq)
      /\ IsAgent(agent) /\ ~ agent.down /\ caller' = caller
      /\ commands \in Seq(Command)
  BY DEF Queued, Shape, Pass
<1>2. cmd => h \in Command /\ (h \in Servers => h \notin agent.servers)
  <2> SUFFICES ASSUME cmd PROVE h \in Command /\ (h \in Servers => h \notin agent.servers)
    OBVIOUS
  <2>1. h \in Command /\ h = commands[1] /\ 1 \in DOMAIN commands
    BY <1>1, TailKeeps
  <2> QED BY <1>1, <2>1 DEF Connecting
<1>3. /\ IsAgent(a) /\ Queue(a) /\ a.servers = agent.servers \cup new
      /\ a.seq \in Nat /\ agent.seq \in Nat /\ agent.seq <= a.seq
  <2>1. CASE cmd
    <3>1. h \in Command /\ (h \in Servers => h \notin agent.servers)
      BY <1>2, <2>1
    <3>2. a = control_message(agent, h) /\ new = {h} \cap Servers
      BY <2>1
    <3>3. agent.seq \in Nat
      BY <1>1 DEF IsAgent
    <3> HIDE DEF a, h, new
    <3>4. IsAgent(a)
      BY <1>1, <3>1, <3>2, ControlKeeps
    <3>5. /\ Queue(a) /\ a.servers = agent.servers \cup ({h} \cap Servers)
          /\ a.seq \in Nat /\ a.seq >= agent.seq
      BY <1>1, <3>1, <3>2, ControlQueue
    <3> QED BY <3>2, <3>3, <3>4, <3>5
  <2>2. CASE ~ cmd
    BY <1>1, <2>2 DEF IsAgent
  <2> QED BY <2>1, <2>2
<1>4. s \in Servers => s \in agent.servers
  BY <1>1 DEF Known, Pass
<1>5. IsAgent(b) /\ Queue(b) /\ b.servers = a.servers /\ b.seq = a.seq
  <2>1. CASE s \in Servers
    BY <1>3, <1>4, <2>1, RouteKeeps, RouteQueue
  <2>2. CASE s \notin Servers
    BY <1>3, <2>2
  <2> QED BY <2>1, <2>2
<1>6. /\ IsAgent(c) /\ Queue(c) /\ c.servers = a.servers /\ c.seq = a.seq
      /\ Queue(ping(c)) /\ ping(c).servers = a.servers /\ ping(c).seq = a.seq
  <2> HIDE DEF a, b
  <2>1. IsAgent(c) /\ Queue(c) /\ c.servers = a.servers /\ c.seq = a.seq
    BY <1>5, DispatchKeeps, DispatchQueue
  <2> HIDE DEF c
  <2> QED BY <2>1, PingQueue
<1>7. CASE a.down
  <2>1. agent' = a /\ UNCHANGED <<commands, replies, inbox, outbox>>
    BY <1>7 DEF Pass
  <2>2. a.servers = agent.servers
    <3>1. CASE cmd /\ h \in Servers
      BY <1>1, <1>7, <3>1, ConnectKeepsUp
    <3>2. CASE ~ (cmd /\ h \in Servers)
      BY <1>3, <3>2
    <3> QED BY <3>1, <3>2
  <2>3. Connecting' /\ Known'
    BY <1>1, <2>1, <2>2 DEF Connecting, Known
  <2>4. \A i \in DOMAIN replies : replies[i] \in Nat
    BY <1>1 DEF Shape
  <2>5. Ordered(replies, a.seq)
    BY <1>1, <1>3, <2>4 DEF Ordered
  <2> HIDE DEF a
  <2> QED BY <1>3, <2>1, <2>3, <2>5
<1>8. CASE ~ a.down
  <2>1. /\ agent' = ping(c)
        /\ commands' = IF cmd THEN Tail(commands) ELSE commands
        /\ replies' = replies \o ok \o Fails(b)
        /\ outbox' = IF s \in Servers THEN [outbox EXCEPT ![s] = Tail(@)] ELSE outbox
        /\ inbox' = [t \in Servers |->
                LET q == IF t \in Target(b) THEN Deliver(inbox[t], t, b.request)
                                            ELSE inbox[t]
                IN IF t \in Pinged(c) THEN Deliver(q, t, 0) ELSE q]
    BY <1>8 DEF Pass
  <2>2. agent'.servers = agent.servers \cup new /\ agent'.seq = a.seq /\ Queue(agent')
    BY <1>3, <1>6, <2>1
  <2>3. Ordered(replies', agent'.seq)
    <3>1. ok \in {<<>>, <<a.seq>>}
      BY DEF Answers
    <3>2. Fails(b) \in {<<>>, <<0>>}
      BY DEF Fails
    <3> HIDE DEF ok, a, b
    <3>3. replies \o ok \in Seq(Nat) /\ Ordered(replies \o ok, a.seq)
      BY <1>1, <1>3, <3>1, OrderedConcat DEF Shape
    <3>4. ASSUME NEW m \in Nat, NEW p \in Seq(Nat), Ordered(p, m), NEW f \in {<<>>, << 0 >>}
          PROVE  Ordered(p \o f, m)
      <4>1. m <= m /\ f \in {<<>>, <<0>>, <<m>>}
        OBVIOUS
      <4> QED BY <3>4, <4>1, OrderedConcat
    <3>5. Ordered((replies \o ok) \o Fails(b), a.seq)
      BY <1>3, <3>2, <3>3, <3>4
    <3> QED BY <2>1, <2>2, <3>5
  <2>4. Known'
    <3> SUFFICES ASSUME NEW t \in Servers, inbox'[t] # <<>> \/ outbox'[t] # <<>>
                 PROVE  t \in agent'.servers
      BY DEF Known
    <3>1. CASE t \in Target(b) \/ t \in Pinged(c)
      <4> HIDE DEF a, b, c
      <4> QED BY <1>3, <1>5, <1>6, <2>2, <3>1, SentToKnown
    <3>2. CASE ~ (t \in Target(b) \/ t \in Pinged(c))
      <4>1. inbox'[t] = inbox[t]
        BY <2>1, <3>2
      <4>2. outbox'[t] # <<>> => outbox[t] # <<>>
        BY <1>1, <2>1 DEF Shape, Pass
      <4> QED BY <1>1, <2>2, <4>1, <4>2 DEF Known
    <3> QED BY <3>1, <3>2
  <2>5. Connecting'
    <3>1. CASE ~ cmd
      BY <1>1, <2>1, <2>2, <3>1 DEF Connecting
    <3>2. CASE cmd
      <4>1. /\ commands' = Tail(commands) /\ h = commands[1] /\ 1 \in DOMAIN commands
            /\ DOMAIN commands' = 1 .. Len(commands) - 1
            /\ DOMAIN commands = 1 .. Len(commands) /\ Len(commands) \in Nat
            /\ \A i \in DOMAIN commands' : commands'[i] = commands[i + 1]
        BY <1>1, <2>1, <3>2
      <4>2. \A i \in DOMAIN commands' : i \in Nat /\ i + 1 \in DOMAIN commands /\ i + 1 # 1
        BY <4>1
      <4>3. ASSUME NEW i \in DOMAIN commands', commands'[i] \in Servers
            PROVE  /\ commands'[i] \notin agent'.servers
                   /\ \E n \in 1 .. caller'.connected :
                        n \in DOMAIN Endpoints /\ commands'[i] = Endpoints[n]
        <5>1. commands[i + 1] \notin agent.servers /\ commands[i + 1] # h
          BY <1>1, <4>1, <4>2, <4>3 DEF Connecting
        <5>2. \E n \in 1 .. caller.connected :
                 n \in DOMAIN Endpoints /\ commands[i + 1] = Endpoints[n]
          BY <1>1, <4>1, <4>2, <4>3 DEF Connecting
        <5> QED BY <1>1, <2>2, <4>1, <5>1, <5>2
      <4>4. \A i, j \in DOMAIN commands' :
               commands'[i] \in Servers /\ commands'[i] = commands'[j] => i = j
        <5>1. \A i, j \in DOMAIN commands' : i + 1 = j + 1 => i = j
          BY <4>2
        <5> QED BY <1>1, <4>1, <4>2, <5>1 DEF Connecting
      <4>5. \A x \in agent'.servers :
               \E n \in 1 .. caller'.connected : n \in DOMAIN Endpoints /\ x = Endpoints[n]
        <5>1. h \in Servers => \E n \in 1 .. caller.connected :
                                  n \in DOMAIN Endpoints /\ h = Endpoints[n]
          BY <1>1, <4>1 DEF Connecting
        <5>2. \A x \in agent'.servers : x \in agent.servers \/ (x = h /\ h \in Servers)
          BY <2>2
        <5> HIDE DEF h
        <5> QED BY <1>1, <5>1, <5>2 DEF Connecting
      <4> QED BY <4>3, <4>4, <4>5 DEF Connecting
    <3> QED BY <3>1, <3>2
  <2> QED BY <2>2, <2>3, <2>4, <2>5
<1> QED BY <1>7, <1>8

\* main connects to a server it has not connected to yet.
LEMMA ConnectQueued ==
    ASSUME Queued, Connect
    PROVE  Connecting'
<1> DEFINE k == caller.connected + 1
<1>1. /\ Shape /\ Connecting /\ commands \in Seq(Command)
      /\ agent' = agent /\ commands' = Append(commands, Endpoints[k])
      /\ caller'.connected = k
      /\ caller.connected \in Nat /\ caller.connected < Len(Endpoints)
  BY DEF Queued, Shape, Connect
<1>2. /\ Endpoints \in Seq(Servers) /\ k \in DOMAIN Endpoints /\ Endpoints[k] \in Servers
      /\ k \in Nat /\ k \in 1 .. k /\ k \notin 1 .. caller.connected
      /\ 1 .. caller.connected \subseteq 1 .. k
  BY <1>1, EndpointsAssumption
<1> HIDE DEF k
<1> DEFINE x == Endpoints[k]
<1>3. \A n \in 1 .. caller.connected : n \in DOMAIN Endpoints => Endpoints[n] # x
  BY <1>2, DistinctAssumption
<1>4. x \notin agent.servers /\ \A i \in DOMAIN commands : commands[i] # x
  BY <1>1, <1>2, <1>3 DEF Connecting
<1>5. /\ Len(commands) \in Nat /\ DOMAIN commands = 1 .. Len(commands)
      /\ DOMAIN commands' = 1 .. Len(commands) + 1
      /\ \A i \in DOMAIN commands : commands'[i] = commands[i]
      /\ commands'[Len(commands) + 1] = x
  <2>1. x \in Command
    BY <1>2 DEF Command
  <2> QED BY <1>1, <2>1
<1>6. \A i \in DOMAIN commands' : i \in DOMAIN commands \/ i = Len(commands) + 1
  BY <1>5
<1> HIDE DEF x
<1>7. \A i \in DOMAIN commands' : commands'[i] \in Servers =>
          /\ commands'[i] \notin agent.servers
          /\ \E n \in 1 .. k : n \in DOMAIN Endpoints /\ commands'[i] = Endpoints[n]
  <2> SUFFICES ASSUME NEW i \in DOMAIN commands', commands'[i] \in Servers
               PROVE  /\ commands'[i] \notin agent.servers
                      /\ \E n \in 1 .. k : n \in DOMAIN Endpoints /\ commands'[i] = Endpoints[n]
    OBVIOUS
  <2>1. CASE i \in DOMAIN commands
    BY <1>1, <1>2, <1>5, <2>1 DEF Connecting
  <2>2. CASE i = Len(commands) + 1
    BY <1>2, <1>4, <1>5, <2>2 DEF x
  <2> QED BY <1>6, <2>1, <2>2
<1>8. \A i, j \in DOMAIN commands' :
          commands'[i] \in Servers /\ commands'[i] = commands'[j] => i = j
  BY <1>1, <1>4, <1>5, <1>6 DEF Connecting
<1>9. \A y \in agent.servers : \E n \in 1 .. k : n \in DOMAIN Endpoints /\ y = Endpoints[n]
  BY <1>1, <1>2 DEF Connecting
<1> QED BY <1>1, <1>7, <1>8, <1>9 DEF Connecting

\* A request puts no server into the pipe.
LEMMA RequestQueued ==
    ASSUME Queued, Request
    PROVE  Connecting'
<1>1. /\ Connecting /\ commands \in Seq(Command) /\ agent' = agent
      /\ commands' = Append(commands, NoServer) /\ caller'.connected = caller.connected
  BY DEF Queued, Shape, Request
<1>2. /\ Len(commands) \in Nat /\ DOMAIN commands = 1 .. Len(commands)
      /\ DOMAIN commands' = 1 .. Len(commands) + 1
      /\ \A i \in DOMAIN commands : commands'[i] = commands[i]
      /\ commands'[Len(commands) + 1] = NoServer
  <2>1. NoServer \in Command
    BY DEF Command
  <2> QED BY <1>1, <2>1
<1>3. \A i \in DOMAIN commands' : commands'[i] \in Servers => i \in DOMAIN commands
  BY <1>2, NoServerAssumption
<1>4. \A i \in DOMAIN commands' : commands'[i] \in Servers =>
          /\ commands'[i] \notin agent.servers
          /\ \E n \in 1 .. caller.connected :
                n \in DOMAIN Endpoints /\ commands'[i] = Endpoints[n]
  BY <1>1, <1>2, <1>3 DEF Connecting
<1>5. \A i, j \in DOMAIN commands' :
          commands'[i] \in Servers /\ commands'[i] = commands'[j] => i = j
  BY <1>1, <1>2, <1>3 DEF Connecting
<1> QED BY <1>1, <1>4, <1>5 DEF Connecting

\* Every step keeps the queue and what it rests on.
LEMMA StepQueued ==
    ASSUME Queued, [Next]_vars
    PROVE  Queued'
<1>0. /\ Shape /\ Queue(agent) /\ Connecting /\ Known /\ Ordered(replies, agent.seq)
      /\ agent.seq \in Nat
  BY DEF Queued, Shape, IsAgent
<1>1. Shape'
  BY StepShape DEF Queued
<1> SUFFICES Queue(agent') /\ Connecting' /\ Known' /\ Ordered(replies', agent'.seq)
  BY <1>1 DEF Queued
<1>2. CASE Tick
  <2>1. /\ agent'.servers = agent.servers /\ agent'.alive = agent.alive
        /\ agent'.actives = agent.actives /\ agent'.seq = agent.seq
    BY <1>0, <1>2 DEF Tick, Shape, IsAgent, Fields
  <2>2. /\ UNCHANGED <<commands, replies, inbox, outbox>>
        /\ caller'.connected = caller.connected
    BY <1>0, <1>2 DEF Tick, Shape
  <2>3. Queue(agent')
    BY <1>0, <2>1, SameQueue
  <2> QED BY <1>0, <2>1, <2>2, <2>3 DEF Connecting, Known
<1>3. CASE AgentPass
  BY <1>3, PassQueued DEF AgentPass
<1>4. CASE Connect
  BY <1>0, <1>4, ConnectQueued DEF Connect, Known
<1>5. CASE Request
  BY <1>0, <1>5, RequestQueued DEF Request, Known
<1>6. CASE Return
  <2>1. /\ UNCHANGED <<agent, commands, inbox, outbox>>
        /\ replies # <<>> /\ replies' = Tail(replies)
        /\ caller'.connected = caller.connected
    BY <1>0, <1>6 DEF Return, Shape
  <2>2. Ordered(replies', agent.seq)
    BY <1>0, <2>1, OrderedTail DEF Shape
  <2> QED BY <1>0, <2>1, <2>2 DEF Connecting, Known
<1>7. ASSUME NEW s \in Servers, Serve(s) \/ ServerDies(s) \/ ServerStarts(s)
      PROVE  Queue(agent') /\ Connecting' /\ Known' /\ Ordered(replies', agent'.seq)
  <2>1. UNCHANGED <<agent, caller, commands, replies>>
    BY <1>7 DEF Serve, ServerDies, ServerStarts
  <2>2. Connecting'
    BY <1>0, <2>1 DEF Connecting
  <2>3. CASE Serve(s)
    <3>1. s \in agent.servers
      BY <1>0, <2>3 DEF Serve, Known
    <3>2. \A t \in Servers : t # s => inbox'[t] = inbox[t] /\ outbox'[t] = outbox[t]
      BY <1>0, <2>3 DEF Serve, Shape
    <3> QED BY <1>0, <2>1, <2>2, <3>1, <3>2 DEF Known
  <2>4. CASE ServerDies(s)
    <3>1. PICK n \in 0 .. Len(outbox[s]) : outbox' = [outbox EXCEPT ![s] = SubSeq(@, 1, n)]
      BY <2>4 DEF ServerDies
    <3>2. inbox' = [inbox EXCEPT ![s] = <<>>]
      BY <2>4 DEF ServerDies
    <3>3. SubSeq(outbox[s], 1, n) # <<>> => outbox[s] # <<>>
      <4>1. outbox[s] \in Seq(Nat)
        BY <1>0 DEF Shape
      <4> QED BY <4>1
    <3>4. \A t \in Servers : /\ inbox'[t] # <<>> => inbox[t] # <<>>
                             /\ outbox'[t] # <<>> => outbox[t] # <<>>
      BY <1>0, <3>1, <3>2, <3>3 DEF Shape
    <3> QED BY <1>0, <2>1, <2>2, <3>4 DEF Known
  <2>5. CASE ServerStarts(s)
    BY <1>0, <2>1, <2>2, <2>5 DEF ServerStarts, Known
  <2> QED BY <1>7, <2>3, <2>4, <2>5
<1>8. CASE UNCHANGED vars
  BY <1>0, <1>8 DEF vars, Connecting, Known
<1> QED BY <1>2, <1>3, <1>4, <1>5, <1>6, <1>7, <1>8 DEF Next

-----------------------------------------------------------------------------

\* The queue is empty first, and no server is known.
LEMMA QueuedFirst ==
    ASSUME Init
    PROVE  Queued
<1>1. Shape
  <2>1. IsAgent(agent)
    BY DEF Init, IsAgent, Fields
  <2>2. /\ caller = [f \in {"connected", "calls", "waiting", "rest"} |-> caller[f]]
        /\ caller.connected \in Nat
    BY DEF Init
  <2>3. /\ commands \in Seq(Command) /\ replies \in Seq(Nat)
        /\ inbox \in [Servers -> Seq(Nat)] /\ outbox \in [Servers -> Seq(Nat)]
    BY DEF Init
  <2> QED BY <2>1, <2>2, <2>3 DEF Shape
<1>2. /\ agent.servers = {} /\ agent.alive = [s \in Servers |-> FALSE]
      /\ agent.actives = <<>>
  BY DEF Init
<1>3. /\ commands = <<>> /\ replies = <<>>
      /\ \A s \in Servers : inbox[s] = <<>> /\ outbox[s] = <<>>
  BY DEF Init
<1>4. Queue(agent)
  BY <1>2 DEF Queue, QueueOf, Absent, OnceAtMost, TwiceAtMost
<1>5. Connecting /\ Known /\ Ordered(replies, agent.seq)
  BY <1>2, <1>3 DEF Connecting, Known, Ordered
<1> QED BY <1>1, <1>4, <1>5 DEF Queued

\* The agent knows each server of its queue, and the queue each server that is
\* taken for alive (flcliapi.cpp:55, 72-81, 120-128).
THEOREM QueueKept == Spec => []Queued
<1>1. Init => Queued
  BY QueuedFirst
<1>2. Queued /\ [Next]_vars => Queued'
  BY StepQueued
<1> QED BY <1>1, <1>2, PTL DEF Spec

\* A server that is taken for alive is in the queue: whoever is heard when it was
\* not alive is queued, whoever is taken out of the queue is no longer alive.
THEOREM AliveServersQueued == Spec => []AliveIsQueued
<1>1. Queued => AliveIsQueued
  BY DEF Queued, Queue, QueueOf, Absent, AliveIsQueued, Copies
<1> QED BY <1>1, QueueKept, PTL

\* actives_ does not grow: a server is in it twice at most.
THEOREM QueueBounded == Spec => []QueuedAtMostTwice
<1>1. Queued => QueuedAtMostTwice
  BY DEF Queued, Queue, QueueOf, TwiceAtMost, QueuedAtMostTwice, Copies
<1> QED BY <1>1, QueueKept, PTL

\* Answers reach the caller in the order of their requests: sequence_ only grows,
\* and an answer is passed on when it carries the last number.
THEOREM AnswersOrdered == Spec => []AnswersInOrder
<1>1. Queued => AnswersInOrder
  BY DEF Queued, Ordered, AnswersInOrder
<1> QED BY <1>1, QueueKept, PTL

-----------------------------------------------------------------------------
(***************************************************************************)
(* The types and bounds of the agent and its caller.  That a number stays  *)
(* within the calls made needs the pipe: each request in it will be given  *)
(* a number above those before it and not above the count of calls.        *)
(***************************************************************************)

\* f gives the requests in a pipe numbers above m, growing, up to n.
NumbersOf(q, f, m, n) ==
    /\ f \in [DOMAIN q -> Nat]
    /\ \A i \in DOMAIN q : q[i] = NoServer => f[i] > m /\ f[i] <= n
    /\ \A i, j \in DOMAIN q :
          i < j /\ q[i] = NoServer /\ q[j] = NoServer => f[i] < f[j]

Numbering(q, m, n) == \E f : NumbersOf(q, f, m, n)

Numbered ==
    /\ agent.seq <= caller.calls
    /\ Numbering(commands, agent.seq, caller.calls)

\* What the types of an agent bound, beside IsAgent and Queue.
Bounded(a) ==
    /\ a.quiet \in [Servers -> 0 .. PingInterval + 1]
    /\ a.age \in [Servers -> 0 .. ServerTTL + 1]
    /\ a.waited \in 0 .. GlobalTimeout + 1
    /\ a.down \in BOOLEAN
    /\ a.seq \in Numbers
    /\ a.request \in Numbers

\* Nothing is the least of each bounded member.
LEMMA ZeroBounded ==
    /\ 0 \in 0 .. PingInterval + 1 /\ 0 \in 0 .. ServerTTL + 1
    /\ 0 \in 0 .. GlobalTimeout + 1 /\ 0 \in Numbers /\ 0 \in 0 .. Sleep
  BY TimesAssumption, BoundsAssumption DEF Numbers

\* reset_expiry sets two timers to zero.
LEMMA ResetBounded ==
    ASSUME NEW a, IsAgent(a), Bounded(a), NEW s \in Servers
    PROVE  /\ IsAgent(reset_expiry(a, s)) /\ Bounded(reset_expiry(a, s))
           /\ reset_expiry(a, s).seq = a.seq
           /\ reset_expiry(a, s).down = a.down
<1> DEFINE b == reset_expiry(a, s)
<1>1. /\ IsAgent(b)
      /\ b.quiet = [a.quiet EXCEPT ![s] = 0] /\ b.age = [a.age EXCEPT ![s] = 0]
      /\ b.waited = a.waited /\ b.down = a.down /\ b.seq = a.seq /\ b.request = a.request
  BY DEF reset_expiry, IsAgent, Fields
<1> HIDE DEF b
<1>2. b.quiet \in [Servers -> 0 .. PingInterval + 1]
      /\ b.age \in [Servers -> 0 .. ServerTTL + 1]
  BY <1>1, ZeroBounded DEF Bounded
<1>3. Bounded(b) BY <1>1, <1>2 DEF Bounded
<1> QED BY <1>1, <1>3 DEF b

\* control_message keeps the bounds while numbers are left.
LEMMA ControlBounded ==
    ASSUME NEW a, IsAgent(a), Bounded(a), NEW cmd \in Command,
           cmd = NoServer => a.seq < Calls
    PROVE  LET b == control_message(a, cmd) IN
           /\ Bounded(b)
           /\ cmd # NoServer => b.seq = a.seq
           /\ b.down # a.down => b.seq = a.seq
           /\ cmd = NoServer /\ b.down = FALSE => b.seq = a.seq + 1
<1> DEFINE b == control_message(a, cmd)
<1>1. CASE cmd \in Servers
  <2> DEFINE r == IF cmd \in a.servers THEN a
                  ELSE [reset_expiry(a, cmd) EXCEPT !.servers = @ \cup {cmd}]
  <2>1. IsAgent(r) /\ Bounded(r) /\ r.seq = a.seq /\ r.down = a.down
    <3> DEFINE e == reset_expiry(a, cmd)
    <3>1. IsAgent(e) /\ Bounded(e) /\ e.seq = a.seq /\ e.down = a.down
      BY <1>1, ResetBounded
    <3>2. r = IF cmd \in a.servers THEN a ELSE [e EXCEPT !.servers = @ \cup {cmd}] OBVIOUS
    <3> HIDE DEF e, r
    <3> QED BY <3>1, <3>2 DEF IsAgent, Bounded, Fields
  <2>2. b = [r EXCEPT !.actives = Append(@, cmd)] BY <1>1 DEF control_message
  <2> HIDE DEF r, b
  <2>3. Bounded(b) /\ b.seq = r.seq /\ b.down = r.down
    BY <2>1, <2>2 DEF IsAgent, Bounded, Fields
  <2> QED BY <1>1, <2>1, <2>3, NoServerAssumption DEF b
<1>2. CASE cmd \notin Servers /\ a.request # 0
  <2>1. b = [a EXCEPT !.down = TRUE] BY <1>2 DEF control_message
  <2> HIDE DEF b
  <2>2. Bounded(b) /\ b.seq = a.seq /\ b.down = TRUE
    BY <2>1 DEF IsAgent, Bounded, Fields
  <2> QED BY <2>2 DEF b
<1>3. CASE cmd \notin Servers /\ a.request = 0
  <2>1. b = [a EXCEPT !.seq = @ + 1, !.request = a.seq + 1, !.waited = 0]
    BY <1>3 DEF control_message
  <2>2. cmd = NoServer BY <1>3 DEF Command
  <2>3. a.seq + 1 \in Numbers
    BY <2>2, BoundsAssumption DEF Numbers, Bounded
  <2> HIDE DEF b
  <2>4. /\ b.quiet = a.quiet /\ b.age = a.age /\ b.down = a.down
        /\ b.seq = a.seq + 1 /\ b.request = a.seq + 1 /\ b.waited = 0
    BY <2>1 DEF IsAgent, Fields
  <2>5. Bounded(b) BY <2>3, <2>4, ZeroBounded DEF Bounded
  <2> QED BY <2>2, <2>4, <2>5 DEF b
<1> QED BY <1>1, <1>2, <1>3

\* route_message keeps the bounds, and the last number.
LEMMA RouteBounded ==
    ASSUME NEW a, IsAgent(a), Bounded(a), NEW s \in Servers, NEW n
    PROVE  Bounded(route_message(a, s, n)) /\ route_message(a, s, n).seq = a.seq
<1> DEFINE r == reset_expiry(a, s)
           h == Heard(a, s)
<1>1. IsAgent(r) /\ Bounded(r) /\ r.seq = a.seq BY ResetBounded
<1>2. h = [r EXCEPT !.alive[s] = TRUE,
                    !.actives = IF a.alive[s] THEN @ ELSE Append(@, s)]
  BY DEF Heard
<1>3. route_message(a, s, n) = IF Answers(a, n) THEN [h EXCEPT !.request = 0] ELSE h
  BY DEF route_message
<1> HIDE DEF r, h
<1>4. IsAgent(h) /\ Bounded(h) /\ h.seq = r.seq
  BY <1>1, <1>2 DEF IsAgent, Bounded, Fields
<1>5. Bounded([h EXCEPT !.request = 0]) /\ [h EXCEPT !.request = 0].seq = h.seq
  BY <1>4, ZeroBounded DEF IsAgent, Bounded, Fields
<1> QED BY <1>1, <1>3, <1>4, <1>5

\* The dispatch keeps the bounds, and the last number.
LEMMA DispatchBounded ==
    ASSUME NEW a, IsAgent(a), Bounded(a)
    PROVE  Bounded(dispatch(a)) /\ dispatch(a).seq = a.seq
  BY ZeroBounded DEF dispatch, IsAgent, Bounded, Fields

\* The pings keep the bounds, and the last number.
LEMMA PingBounded ==
    ASSUME NEW a, IsAgent(a), Bounded(a)
    PROVE  Bounded(ping(a)) /\ ping(a).seq = a.seq
<1> DEFINE f == [s \in Servers |-> IF s \in Pinged(a) THEN 0 ELSE a.quiet[s]]
<1>1. f \in [Servers -> 0 .. PingInterval + 1] BY ZeroBounded DEF Bounded
<1> HIDE DEF f
<1>2. Bounded([a EXCEPT !.quiet = f]) /\ [a EXCEPT !.quiet = f].seq = a.seq
  BY <1>1 DEF IsAgent, Bounded, Fields
<1> QED BY <1>2 DEF ping, f

\* Taking a request out of the pipe uses up the first number.
LEMMA TakeNumber ==
    ASSUME NEW q \in Seq(Command), q # <<>>, NEW m \in Nat, NEW n \in Nat,
           Numbering(q, m, n)
    PROVE  LET k == IF Head(q) = NoServer THEN m + 1 ELSE m IN
           /\ Head(q) = NoServer => m < n
           /\ Numbering(Tail(q), k, n)
<1> DEFINE p == Tail(q)
           k == IF Head(q) = NoServer THEN m + 1 ELSE m
<1>0. PICK f : NumbersOf(q, f, m, n) BY DEF Numbering
<1> DEFINE g == [i \in DOMAIN p |-> f[i + 1]]
<1>1. /\ Len(q) \in Nat \ {0} /\ DOMAIN q = 1 .. Len(q)
      /\ Head(q) = q[1] /\ 1 \in DOMAIN q
      /\ DOMAIN p = 1 .. Len(q) - 1
      /\ \A i \in DOMAIN p : p[i] = q[i + 1]
  OBVIOUS
<1> HIDE DEF p
<1>2. \A i \in DOMAIN p : i + 1 \in DOMAIN q /\ 1 < i + 1 BY <1>1
<1>3. Head(q) = NoServer => f[1] \in Nat /\ m < f[1] /\ f[1] <= n
  BY <1>0, <1>1 DEF NumbersOf
<1>4. g \in [DOMAIN p -> Nat] BY <1>0, <1>2 DEF NumbersOf
<1>5. \A i \in DOMAIN p : p[i] = NoServer => g[i] > k /\ g[i] <= n
  <2> SUFFICES ASSUME NEW i \in DOMAIN p, p[i] = NoServer
               PROVE  g[i] > k /\ g[i] <= n
    OBVIOUS
  <2>1. /\ g[i] = f[i + 1] /\ f[i + 1] \in Nat /\ f[i + 1] > m /\ f[i + 1] <= n
        /\ Head(q) = NoServer => f[1] < f[i + 1]
    BY <1>0, <1>1, <1>2 DEF NumbersOf
  <2> QED BY <1>3, <2>1
<1>6. \A i, j \in DOMAIN p : i < j /\ p[i] = NoServer /\ p[j] = NoServer => g[i] < g[j]
  <2> SUFFICES ASSUME NEW i \in DOMAIN p, NEW j \in DOMAIN p, i < j,
                      p[i] = NoServer, p[j] = NoServer
               PROVE  g[i] < g[j]
    OBVIOUS
  <2>1. i + 1 < j + 1 BY <1>1
  <2> QED BY <2>1, <1>0, <1>1, <1>2 DEF NumbersOf
<1> HIDE DEF g, k
<1>7. NumbersOf(p, g, k, n) BY <1>4, <1>5, <1>6 DEF NumbersOf
<1>8. Head(q) = NoServer => m < n BY <1>3
<1> QED BY <1>7, <1>8 DEF k, p, Numbering

\* What is put into the pipe takes the next number.
LEMMA GiveNumber ==
    ASSUME NEW q \in Seq(Command), NEW x \in Command, NEW m \in Nat, NEW n \in Nat,
           m <= n, Numbering(q, m, n)
    PROVE  /\ Numbering(Append(q, x), m, n + 1)
           /\ x # NoServer => Numbering(Append(q, x), m, n)
<1> DEFINE p == Append(q, x)
<1>0. PICK f : NumbersOf(q, f, m, n) BY DEF Numbering
<1> DEFINE g == [i \in DOMAIN p |-> IF i \in DOMAIN q THEN f[i] ELSE n + 1]
<1>1. /\ Len(q) \in Nat /\ DOMAIN q = 1 .. Len(q)
      /\ DOMAIN p = 1 .. Len(q) + 1
      /\ \A i \in DOMAIN q : p[i] = q[i]
      /\ p[Len(q) + 1] = x
  OBVIOUS
<1> HIDE DEF p
<1>2. ASSUME NEW i \in DOMAIN p
      PROVE  \/ i \in DOMAIN q
             \/ i = Len(q) + 1 /\ i \notin DOMAIN q
  BY <1>1
<1>3. \A i \in DOMAIN q : f[i] \in Nat BY <1>0 DEF NumbersOf
<1>4. g \in [DOMAIN p -> Nat] BY <1>3
<1>5. ASSUME NEW i \in DOMAIN p, p[i] = NoServer
      PROVE  /\ g[i] > m /\ g[i] <= n + 1
             /\ x # NoServer => g[i] <= n
  <2>1. CASE i \in DOMAIN q
    <3>1. f[i] \in Nat /\ f[i] > m /\ f[i] <= n BY <1>0, <1>1, <1>5, <2>1 DEF NumbersOf
    <3> QED BY <2>1, <3>1
  <2>2. CASE i = Len(q) + 1 /\ i \notin DOMAIN q BY <1>1, <1>5, <2>2
  <2> QED BY <1>2, <2>1, <2>2
<1>6. \A i, j \in DOMAIN p : i < j /\ p[i] = NoServer /\ p[j] = NoServer => g[i] < g[j]
  <2> SUFFICES ASSUME NEW i \in DOMAIN p, NEW j \in DOMAIN p, i < j,
                      p[i] = NoServer, p[j] = NoServer
               PROVE  g[i] < g[j]
    OBVIOUS
  <2>1. i \in DOMAIN q /\ q[i] = NoServer BY <1>1
  <2>2. f[i] \in Nat /\ f[i] <= n BY <1>0, <2>1 DEF NumbersOf
  <2>3. CASE j \in DOMAIN q
    <3>1. f[i] < f[j] BY <1>0, <1>1, <2>1, <2>3 DEF NumbersOf
    <3> QED BY <2>1, <2>3, <3>1
  <2>4. CASE j \notin DOMAIN q BY <2>1, <2>2, <2>4
  <2> QED BY <2>3, <2>4
<1> HIDE DEF g
<1>7. NumbersOf(p, g, m, n + 1) BY <1>4, <1>5, <1>6 DEF NumbersOf
<1>8. x # NoServer => NumbersOf(p, g, m, n) BY <1>4, <1>5, <1>6 DEF NumbersOf
<1> QED BY <1>7, <1>8 DEF p, Numbering

\* The bounds of everything else.
Bounds ==
    /\ Bounded(agent)
    /\ caller \in [connected : 0 .. Len(Endpoints), calls : Numbers,
                   waiting : BOOLEAN, rest : 0 .. Sleep]
    /\ replies \in Seq(Numbers)
    /\ elapsed \in BOOLEAN
    /\ up \subseteq Servers
    /\ inbox \in [Servers -> Seq(Numbers)]
    /\ outbox \in [Servers -> Seq(Numbers)]

Typed == Queued /\ Bounds /\ Numbered

\* A pipe that drops holds nothing new but what it is given.
LEMMA DeliverTyped ==
    ASSUME NEW q \in Seq(Numbers), NEW s, NEW n \in Numbers
    PROVE  Deliver(q, s, n) \in Seq(Numbers)
  BY PutBehind DEF Deliver

\* The caller's members.
LEMMA CallerFields ==
    ASSUME Bounds
    PROVE  /\ caller.connected \in 0 .. Len(Endpoints) /\ caller.calls \in Numbers
           /\ caller.waiting \in BOOLEAN /\ caller.rest \in 0 .. Sleep
           /\ caller.calls \in Nat /\ caller.calls <= Calls
  BY BoundsAssumption DEF Bounds, Numbers

\* A pass takes a number when it takes a request, and sends no other number.
LEMMA PassTyped ==
    ASSUME Typed, NEW s \in Servers \cup {NoServer}, Pass(s)
    PROVE  Bounds' /\ Numbered'
<1> DEFINE cmd == commands # <<>>
           a == IF cmd THEN control_message(agent, Head(commands)) ELSE agent
           b == IF s \in Servers THEN route_message(a, s, Head(outbox[s])) ELSE a
           c == dispatch(b)
           ok == IF s \in Servers /\ Answers(a, Head(outbox[s]))
                 THEN <<Head(outbox[s])>> ELSE <<>>
<1>1. /\ Shape /\ IsAgent(agent) /\ Bounded(agent) /\ Bounds
      /\ commands \in Seq(Command) /\ agent.seq \in Nat
      /\ agent.seq <= caller.calls
      /\ Numbering(commands, agent.seq, caller.calls)
      /\ caller' = caller /\ up' = up /\ ~ agent.down
  BY DEF Typed, Queued, Shape, Bounds, Numbered, IsAgent, Pass
<1>2. caller.calls \in Nat /\ caller.calls <= Calls BY <1>1, CallerFields
<1>3. /\ IsAgent(a) /\ Bounded(a)
      /\ a.down => a.seq = agent.seq
      /\ ~ a.down => /\ a.seq <= caller.calls
                     /\ Numbering(IF cmd THEN Tail(commands) ELSE commands, a.seq, caller.calls)
  <2>1. CASE ~ cmd BY <1>1, <2>1
  <2>2. CASE cmd
    <3> DEFINE m == control_message(agent, Head(commands))
               k == IF Head(commands) = NoServer THEN agent.seq + 1 ELSE agent.seq
    <3>1. Head(commands) \in Command BY <1>1, <2>2, TailKeeps
    <3>2. /\ Head(commands) = NoServer => agent.seq < caller.calls
          /\ Numbering(Tail(commands), k, caller.calls)
      BY <1>1, <1>2, <2>2, TakeNumber
    <3>3. Head(commands) = NoServer => agent.seq < Calls
      BY <1>1, <1>2, <3>2, BoundsAssumption
    <3>4. IsAgent(m) BY <1>1, <3>1, ControlKeeps
    <3>5. /\ Bounded(m)
          /\ Head(commands) # NoServer => m.seq = agent.seq
          /\ m.down # agent.down => m.seq = agent.seq
          /\ Head(commands) = NoServer /\ m.down = FALSE => m.seq = agent.seq + 1
      BY <1>1, <3>1, <3>3, ControlBounded
    <3>6. m.down \in BOOLEAN BY <3>5 DEF Bounded
    <3> HIDE DEF m
    <3>7. ~ m.down => m.seq = k BY <3>5, <3>6
    <3>8. m.down => m.seq = agent.seq BY <1>1, <3>5, <3>6
    <3>9. a = m BY <2>2 DEF m
    <3> QED BY <1>1, <1>2, <2>2, <3>2, <3>4, <3>5, <3>7, <3>8, <3>9
  <2> QED BY <2>1, <2>2
<1>4. CASE a.down
  <2>1. /\ agent' = a
        /\ UNCHANGED <<commands, replies, elapsed, inbox, outbox>>
    BY <1>4 DEF Pass
  <2>2. Numbered'
    <3> HIDE DEF a
    <3> QED BY <1>1, <1>3, <1>4, <2>1 DEF Numbered
  <2>3. Bounds'
    <3> HIDE DEF a
    <3> QED BY <1>1, <1>3, <2>1 DEF Bounds
  <2> QED BY <2>2, <2>3
<1>5. CASE ~ a.down
  <2>1. /\ agent' = ping(c)
        /\ commands' = IF cmd THEN Tail(commands) ELSE commands
        /\ replies' = replies \o ok \o Fails(b)
        /\ elapsed' = FALSE
        /\ outbox' = IF s \in Servers THEN [outbox EXCEPT ![s] = Tail(@)] ELSE outbox
        /\ inbox' = [t \in Servers |->
                LET q == IF t \in Target(b) THEN Deliver(inbox[t], t, b.request)
                                            ELSE inbox[t]
                IN IF t \in Pinged(c) THEN Deliver(q, t, 0) ELSE q]
    BY <1>5 DEF Pass
  <2>2. s \in Servers => Head(outbox[s]) \in Numbers /\ Tail(outbox[s]) \in Seq(Numbers)
    <3> SUFFICES ASSUME s \in Servers
                 PROVE  Head(outbox[s]) \in Numbers /\ Tail(outbox[s]) \in Seq(Numbers)
      OBVIOUS
    <3>1. outbox[s] \in Seq(Numbers) /\ outbox[s] # <<>> BY <1>1 DEF Bounds, Pass
    <3> QED BY <3>1, TailKeeps
  <2>3. IsAgent(b) /\ Bounded(b) /\ b.seq = a.seq
    <3> DEFINE n == Head(outbox[s])
    <3> HIDE DEF a, n
    <3>1. IsAgent(route_message(a, s, n)) BY <1>3, RouteKeeps
    <3>2. s \in Servers => Bounded(route_message(a, s, n)) /\ route_message(a, s, n).seq = a.seq
      BY <1>3, RouteBounded
    <3> QED BY <1>3, <3>1, <3>2 DEF n
  <2> HIDE DEF b
  <2>4. IsAgent(c) /\ Bounded(c) /\ c.seq = b.seq
    BY <2>3, DispatchKeeps, DispatchBounded
  <2> HIDE DEF c
  <2>5. Bounded(agent') /\ agent'.seq = a.seq
    BY <2>1, <2>3, <2>4, PingBounded
  <2>6. replies' \in Seq(Numbers)
    <3>1. ok \in Seq(Numbers) BY <2>2
    <3>2. Fails(b) \in Seq(Numbers) BY ZeroBounded DEF Fails
    <3> HIDE DEF ok
    <3> QED BY <1>1, <2>1, <3>1, <3>2 DEF Bounds
  <2>7. inbox' \in [Servers -> Seq(Numbers)]
    <3>1. ASSUME NEW t \in Servers
          PROVE  Deliver(inbox[t], t, b.request) \in Seq(Numbers) /\ inbox[t] \in Seq(Numbers)
      BY <1>1, <2>3, DeliverTyped DEF Bounds, Bounded
    <3>2. ASSUME NEW t \in Servers, NEW q \in Seq(Numbers)
          PROVE  Deliver(q, t, 0) \in Seq(Numbers)
      BY DeliverTyped, ZeroBounded
    <3> QED BY <2>1, <3>1, <3>2
  <2>8. outbox' \in [Servers -> Seq(Numbers)] BY <1>1, <2>1, <2>2 DEF Bounds
  <2>9. Bounds' BY <1>1, <2>1, <2>5, <2>6, <2>7, <2>8 DEF Bounds
  <2>10. Numbered'
    <3> HIDE DEF a
    <3> QED BY <1>1, <1>3, <1>5, <2>1, <2>5 DEF Numbered
  <2> QED BY <2>9, <2>10
<1> QED BY <1>4, <1>5

\* Every step keeps the types and the numbers.
LEMMA StepTyped ==
    ASSUME Typed, [Next]_vars
    PROVE  Typed'
<1>0. /\ Queued /\ Bounds /\ Shape /\ commands \in Seq(Command)
      /\ agent.seq \in Nat /\ caller.calls \in Nat /\ caller.calls <= Calls
      /\ agent.seq <= caller.calls
      /\ Numbering(commands, agent.seq, caller.calls)
  BY CallerFields DEF Typed, Queued, Shape, IsAgent, Numbered
<1> SUFFICES Bounds' /\ Numbered' BY StepQueued DEF Typed
<1>1. CASE Tick
  <2> DEFINE q == [s \in Servers |-> IF s \in agent.servers /\ agent.quiet[s] <= PingInterval
                                     THEN agent.quiet[s] + 1 ELSE agent.quiet[s]]
             g == [s \in Servers |-> IF s \in agent.servers /\ agent.age[s] <= ServerTTL
                                     THEN agent.age[s] + 1 ELSE agent.age[s]]
             w == IF agent.request # 0 /\ agent.waited <= GlobalTimeout
                  THEN agent.waited + 1 ELSE agent.waited
  <2>1. agent' = [agent EXCEPT !.quiet = q, !.age = g, !.waited = w]
    BY <1>1 DEF Tick
  <2>2. q \in [Servers -> 0 .. PingInterval + 1]
    <3> SUFFICES ASSUME NEW s \in Servers PROVE q[s] \in 0 .. PingInterval + 1 OBVIOUS
    <3>1. agent.quiet[s] \in 0 .. PingInterval + 1 BY <1>0 DEF Bounds, Bounded
    <3> QED BY <3>1, TimesAssumption
  <2>3. g \in [Servers -> 0 .. ServerTTL + 1]
    <3> SUFFICES ASSUME NEW s \in Servers PROVE g[s] \in 0 .. ServerTTL + 1 OBVIOUS
    <3>1. agent.age[s] \in 0 .. ServerTTL + 1 BY <1>0 DEF Bounds, Bounded
    <3> QED BY <3>1, TimesAssumption
  <2>4. w \in 0 .. GlobalTimeout + 1 BY <1>0, TimesAssumption DEF Bounds, Bounded
  <2> HIDE DEF q, g, w
  <2>5. /\ agent'.quiet = q /\ agent'.age = g /\ agent'.waited = w
        /\ agent'.down = agent.down /\ agent'.seq = agent.seq
        /\ agent'.request = agent.request
    BY <1>0, <2>1 DEF Shape, IsAgent, Fields
  <2>6. Bounded(agent') BY <1>0, <2>2, <2>3, <2>4, <2>5 DEF Bounds, Bounded
  <2>7. (IF caller.rest > 0 THEN caller.rest - 1 ELSE 0) \in 0 .. Sleep
    BY <1>0, CallerFields, TimesAssumption
  <2>8. /\ caller' \in [connected : 0 .. Len(Endpoints), calls : Numbers,
                        waiting : BOOLEAN, rest : 0 .. Sleep]
        /\ caller'.calls = caller.calls
    BY <1>0, <1>1, <2>7 DEF Tick, Bounds
  <2>9. UNCHANGED <<commands, replies, up, inbox, outbox>> /\ elapsed' = TRUE
    BY <1>1 DEF Tick
  <2> QED BY <1>0, <2>5, <2>6, <2>8, <2>9 DEF Bounds, Numbered
<1>2. CASE AgentPass BY <1>2, PassTyped DEF AgentPass
<1>3. CASE Connect
  <2>1. Endpoints[caller.connected + 1] \in Command BY <1>0, <1>3, ConnectsServer
  <2>2. Endpoints[caller.connected + 1] # NoServer
    <3>1. caller.connected + 1 \in 1 .. Len(Endpoints)
      BY <1>0, <1>3, EndpointsAssumption, CallerFields DEF Connect
    <3> QED BY <3>1, EndpointsAssumption, NoServerAssumption
  <2>3. Numbering(commands', agent.seq, caller.calls)
    BY <1>0, <1>3, <2>1, <2>2, GiveNumber DEF Connect
  <2>4. caller.connected + 1 \in 0 .. Len(Endpoints)
    BY <1>0, <1>3, EndpointsAssumption, CallerFields DEF Connect
  <2>5. /\ caller' \in [connected : 0 .. Len(Endpoints), calls : Numbers,
                        waiting : BOOLEAN, rest : 0 .. Sleep]
        /\ caller'.calls = caller.calls
    BY <1>0, <1>3, <2>4 DEF Connect, Bounds
  <2> QED BY <1>0, <1>3, <2>3, <2>5 DEF Connect, Bounds, Numbered
<1>4. CASE Request
  <2>1. NoServer \in Command BY DEF Command
  <2>2. Numbering(commands', agent.seq, caller.calls + 1)
    BY <1>0, <1>4, <2>1, GiveNumber DEF Request
  <2>3. caller.calls + 1 \in Numbers BY <1>0, <1>4, BoundsAssumption DEF Request, Numbers
  <2>4. /\ caller' \in [connected : 0 .. Len(Endpoints), calls : Numbers,
                        waiting : BOOLEAN, rest : 0 .. Sleep]
        /\ caller'.calls = caller.calls + 1
    BY <1>0, <1>4, <2>3 DEF Request, Bounds
  <2>5. agent' = agent /\ agent.seq <= caller.calls + 1 BY <1>0, <1>4 DEF Request
  <2> QED BY <1>0, <1>4, <2>2, <2>4, <2>5 DEF Request, Bounds, Numbered
<1>5. CASE Return
  <2>1. replies' \in Seq(Numbers) BY <1>0, <1>5, TailKeeps DEF Return, Bounds
  <2>2. Sleep \in 0 .. Sleep BY TimesAssumption
  <2>3. /\ caller' \in [connected : 0 .. Len(Endpoints), calls : Numbers,
                        waiting : BOOLEAN, rest : 0 .. Sleep]
        /\ caller'.calls = caller.calls
    BY <1>0, <1>5, <2>2 DEF Return, Bounds
  <2> QED BY <1>0, <1>5, <2>1, <2>3 DEF Return, Bounds, Numbered
<1>6. ASSUME NEW s \in Servers, Serve(s) \/ ServerDies(s) \/ ServerStarts(s)
      PROVE  Bounds' /\ Numbered'
  <2>1. UNCHANGED <<agent, caller, commands, replies, elapsed>> /\ up' \subseteq Servers
    BY <1>0, <1>6 DEF Serve, ServerDies, ServerStarts, Bounds
  <2>2. inbox[s] \in Seq(Numbers) /\ outbox[s] \in Seq(Numbers) BY <1>0 DEF Bounds
  <2>3. inbox' \in [Servers -> Seq(Numbers)] /\ outbox' \in [Servers -> Seq(Numbers)]
    <3>1. CASE Serve(s)
      <4>1. Head(inbox[s]) \in Numbers /\ Tail(inbox[s]) \in Seq(Numbers)
        BY <2>2, <3>1, TailKeeps DEF Serve
      <4>2. Deliver(outbox[s], s, Head(inbox[s])) \in Seq(Numbers)
        BY <2>2, <4>1, DeliverTyped
      <4> QED BY <1>0, <3>1, <4>1, <4>2 DEF Serve, Bounds
    <3>2. CASE ServerDies(s)
      <4>1. PICK n \in 0 .. Len(outbox[s]) : outbox' = [outbox EXCEPT ![s] = SubSeq(@, 1, n)]
        BY <3>2 DEF ServerDies
      <4>2. SubSeq(outbox[s], 1, n) \in Seq(Numbers) BY <2>2, PrefixIsSeq
      <4> QED BY <1>0, <3>2, <4>1, <4>2 DEF ServerDies, Bounds
    <3>3. CASE ServerStarts(s) BY <1>0, <3>3 DEF ServerStarts, Bounds
    <3> QED BY <1>6, <3>1, <3>2, <3>3
  <2> QED BY <1>0, <2>1, <2>3 DEF Bounds, Numbered
<1>7. CASE UNCHANGED vars BY <1>0, <1>7 DEF vars, Bounds, Numbered
<1> QED BY <1>1, <1>2, <1>3, <1>4, <1>5, <1>6, <1>7 DEF Next

\* The members of the agent, its servers and its caller keep their types; no
\* number exceeds the calls that were made.
THEOREM FreelanceTypes == Spec => []TypeOK
<1>1. Init => Bounds /\ Numbered
  <2> SUFFICES ASSUME Init PROVE Bounds /\ Numbered OBVIOUS
  <2>1. Bounded(agent)
    <3>1. /\ agent.quiet = [s \in Servers |-> 0] /\ agent.age = [s \in Servers |-> 0]
          /\ agent.seq = 0 /\ agent.request = 0 /\ agent.waited = 0 /\ agent.down = FALSE
      BY DEF Init
    <3> QED BY <3>1, ZeroBounded DEF Bounded
  <2>2. caller \in [connected : 0 .. Len(Endpoints), calls : Numbers,
                   waiting : BOOLEAN, rest : 0 .. Sleep]
    BY ZeroBounded, EndpointsAssumption DEF Init
  <2>3. /\ replies \in Seq(Numbers) /\ elapsed \in BOOLEAN /\ up \subseteq Servers
        /\ inbox \in [Servers -> Seq(Numbers)] /\ outbox \in [Servers -> Seq(Numbers)]
    <3>1. <<>> \in Seq(Numbers) OBVIOUS
    <3>2. /\ replies = <<>> /\ elapsed = FALSE /\ up \in SUBSET Servers
          /\ inbox = [s \in Servers |-> <<>>] /\ outbox = [s \in Servers |-> <<>>]
      BY DEF Init
    <3> QED BY <3>1, <3>2
  <2>4. agent.seq = 0 /\ caller.calls = 0 /\ commands = <<>> BY DEF Init
  <2>5. NumbersOf(<<>>, <<>>, 0, 0) BY DEF NumbersOf
  <2>6. Bounds BY <2>1, <2>2, <2>3 DEF Bounds
  <2> QED BY <2>4, <2>5, <2>6 DEF Numbered, Numbering
<1>2. Typed /\ [Next]_vars => Typed' BY StepTyped
<1>3. Typed => TypeOK
  <2> SUFFICES ASSUME Typed PROVE TypeOK OBVIOUS
  <2>1. agent \in AgentState
    BY DEF Typed, Queued, Queue, Shape, Bounds, Bounded, IsAgent, Fields, AgentState
  <2> QED BY <2>1 DEF Typed, Queued, Shape, Bounds, TypeOK
<1>4. Init => Typed BY <1>1, QueuedFirst DEF Typed
<1> QED BY <1>2, <1>3, <1>4, PTL DEF Spec
=============================================================================
