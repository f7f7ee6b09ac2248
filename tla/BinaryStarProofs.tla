-------------------------- MODULE BinaryStarProofs --------------------------
(***************************************************************************)
(* Two things no schedule does to the pair, for every expiry and capacity. *)
(*                                                                         *)
(* First, neither program can leave it with two passive servers, with or   *)
(* without loss and prompt reading. NeverBothPassive is not inductive,     *)
(* since an ACTIVE on its way makes a server passive later. A server       *)
(* yields when it is passive or still can read ACTIVE while not being      *)
(* active itself; at most one server yields. What keeps this true is that  *)
(* the unread messages of a process end with it, and that no event leads   *)
(* out of ACTIVE.                                                          *)
(*                                                                         *)
(* Second, two servers are not both active when nothing is lost, messages  *)
(* are read promptly and a peer expires no sooner than after two           *)
(* heartbeats. The invariant Calm says what a server that is active, or    *)
(* has read or will read that the other is not, knows of the other, and    *)
(* how old what it knows can be.                                           *)
(***************************************************************************)
EXTENDS BinaryStar, SequenceTheorems, TLAPS

Has(q, m) == \E i \in 1 .. Len(q) : q[i] = m

\* No PASSIVE behind an ACTIVE.
InOrder(q) ==
    \A i, j \in 1 .. Len(q) : i < j /\ q[i] = "ACTIVE" => q[j] # "PASSIVE"

Yields(s) ==
    \/ state[s] = "PASSIVE"
    \/ state[s] # "ACTIVE" /\ Has(pipe[s], "ACTIVE")

AtMostOneYields == ~ \A s \in Server : Yields(s)

DownReadsNothing == \A s \in Server : ~ Up(s) => pipe[s] = <<>>

\* What is on its way to a server that is not active.
Ordered(s) ==
    state[s] # "ACTIVE" =>
        /\ InOrder(pipe[s])
        /\ state[s] = "PASSIVE" => ~ Has(pipe[s], "PASSIVE")

Inductive ==
    /\ TypeOK
    /\ DownReadsNothing
    /\ AtMostOneYields
    /\ \A s \in Server : Ordered(s)

-----------------------------------------------------------------------------
(* Pipes.                                                                  *)

\* Nothing is in an empty pipe.
LEMMA EmptyPipe ==
  /\ <<>> \in Seq(States)
  /\ \A m : ~ Has(<<>>, m)
  /\ InOrder(<<>>)
BY EmptySeq DEF Has, InOrder

\* Reading a pipe: what remains was there, in the same order.
LEMMA ReadPipe ==
  ASSUME NEW q \in Seq(States), q # <<>>
  PROVE  /\ Head(q) \in States
         /\ Tail(q) \in Seq(States)
         /\ Has(q, Head(q))
         /\ \A m : Has(Tail(q), m) => Has(q, m)
         /\ InOrder(q) => InOrder(Tail(q))
         /\ InOrder(q) /\ Head(q) = "ACTIVE" => ~ Has(Tail(q), "PASSIVE")
<1>1. /\ Head(q) \in States
      /\ Tail(q) \in Seq(States)
      /\ Len(Tail(q)) = Len(q) - 1
      /\ \A i \in 1 .. Len(Tail(q)) : Tail(q)[i] = q[i + 1]
  BY HeadTailProperties
<1>2. Len(q) \in Nat \ {0} /\ Head(q) = q[1] BY EmptySeq
<1>3. \A i \in 1 .. Len(Tail(q)) : i + 1 \in 1 .. Len(q) BY <1>1, <1>2
<1>4. Has(q, Head(q)) BY <1>2 DEF Has
<1>5. \A m : Has(Tail(q), m) => Has(q, m) BY <1>1, <1>3 DEF Has
<1>6. InOrder(q) => InOrder(Tail(q)) BY <1>1, <1>2, <1>3 DEF InOrder
<1>7. InOrder(q) /\ Head(q) = "ACTIVE" => ~ Has(Tail(q), "PASSIVE")
  BY <1>1, <1>2, <1>3 DEF InOrder, Has
<1> QED BY <1>1, <1>4, <1>5, <1>6, <1>7

\* Publishing into a pipe: one message more, at the end.
LEMMA PublishPipe ==
  ASSUME NEW q \in Seq(States), NEW m \in States
  PROVE  /\ Append(q, m) \in Seq(States)
         /\ \A k : Has(Append(q, m), k) => Has(q, k) \/ k = m
         /\ InOrder(q) /\ (m = "PASSIVE" => ~ Has(q, "ACTIVE")) => InOrder(Append(q, m))
<1> DEFINE r == Append(q, m)
<1>1. /\ r \in Seq(States)
      /\ Len(r) = Len(q) + 1
      /\ \A i \in 1 .. Len(q) : r[i] = q[i]
      /\ r[Len(q) + 1] = m
  BY AppendProperties
<1>2. Len(q) \in Nat BY LenProperties
<1>3. \A i \in 1 .. Len(r) : i \in 1 .. Len(q) \/ i = Len(q) + 1 BY <1>1, <1>2
<1> HIDE DEF r
<1>4. \A k : Has(r, k) => Has(q, k) \/ k = m BY <1>1, <1>3 DEF Has
<1>5. InOrder(q) /\ (m = "PASSIVE" => ~ Has(q, "ACTIVE")) => InOrder(r)
  BY <1>1, <1>2, <1>3 DEF InOrder, Has
<1> QED BY <1>1, <1>4, <1>5 DEF r

\* Losing the end of a pipe: what remains was there, in the same order.
LEMMA CutPipe ==
  ASSUME NEW q \in Seq(States), NEW n \in 0 .. Len(q)
  PROVE  /\ SubSeq(q, 1, n) \in Seq(States)
         /\ \A m : Has(SubSeq(q, 1, n), m) => Has(q, m)
         /\ InOrder(q) => InOrder(SubSeq(q, 1, n))
<1> DEFINE r == SubSeq(q, 1, n)
<1>1. Len(q) \in Nat /\ n \in Nat /\ n <= Len(q) BY LenProperties
<1>2. \A i \in 1 .. n : i \in 1 .. Len(q) /\ q[i] \in States BY <1>1, ElementOfSeq
<1>3. r \in Seq(States) /\ Len(r) = n /\ \A i \in 1 .. n : r[i] = q[i]
  BY <1>1, <1>2, SubSeqProperties
<1> HIDE DEF r
<1>4. \A m : Has(r, m) => Has(q, m) BY <1>2, <1>3 DEF Has
<1>5. InOrder(q) => InOrder(r) BY <1>1, <1>2, <1>3 DEF InOrder
<1> QED BY <1>3, <1>4, <1>5 DEF r

-----------------------------------------------------------------------------
(* The state machines.                                                     *)

\* In both programs nothing leads out of ACTIVE, and only ACTIVE leads into
\* PASSIVE.
LEMMA Transitions ==
  ASSUME NEW s, NEW ev, state[s] \in States, ev \in States \cup {"CLIENT_REQUEST"}
  PROVE  /\ Becomes(s, ev) \in States
         /\ state[s] = "ACTIVE" => Becomes(s, ev) = "ACTIVE"
         /\ Becomes(s, ev) = "PASSIVE" => state[s] = "PASSIVE" \/ ev = "ACTIVE"
BY DEF Becomes, execute, update_state, States

\* The peer of a server is the other one.
LEMMA Peers ==
  ASSUME NEW s \in Server
  PROVE  /\ Other(s) \in Server
         /\ Other(s) # s
         /\ \A t \in Server : t = s \/ t = Other(s)
BY DEF Server, Other

-----------------------------------------------------------------------------
(* The invariant.                                                          *)

\* If no server begins to yield, at most one yields.
LEMMA NobodyBeginsToYield ==
  ASSUME AtMostOneYields, \A s \in Server : Yields(s)' => Yields(s)
  PROVE  AtMostOneYields'
BY DEF AtMostOneYields

\* A process that ends reads nothing more, and its peer only what it received.
LEMMA EndKeeps ==
  ASSUME Inductive, NEW s \in Server, Goes(s)
  PROVE  Inductive'
<1> DEFINE o == Other(s)
<1>1. o \in Server /\ o # s /\ \A t \in Server : t = s \/ t = o BY Peers
<1>2. PICK n \in 0 .. Len(pipe[o]) : Ended(s, SubSeq(pipe[o], 1, n))
  BY DEF Goes, Prefixes
<1>3. pipe \in [Server -> Seq(States)] /\ state \in [Server -> States \cup {"DOWN"}]
  BY DEF Inductive, TypeOK
<1> HIDE DEF o
<1>4. state'[s] = "DOWN" /\ state'[o] = state[o] BY <1>1, <1>3 DEF Goes
<1>5. pipe'[s] = <<>> /\ pipe'[o] = SubSeq(pipe[o], 1, n)
  BY <1>1, <1>2, <1>3 DEF Ended, o
<1>6. /\ pipe'[o] \in Seq(States)
      /\ \A m : Has(pipe'[o], m) => Has(pipe[o], m)
      /\ InOrder(pipe[o]) => InOrder(pipe'[o])
  BY <1>1, <1>3, <1>5, CutPipe
<1>7. TypeOK'
  <2>1. pipe' \in [Server -> Seq(States)]
    BY <1>1, <1>2, <1>3, <1>5, <1>6, EmptyPipe DEF Ended, o
  <2>2. state' \in [Server -> States \cup {"DOWN"}] BY <1>3 DEF Goes
  <2>3. age' \in [Server -> 0 .. PeerExpiry + 1]
    BY PeerExpiryAssumption DEF Goes, Inductive, TypeOK
  <2>4. due' \in [Server -> 0 .. 2] BY DEF Goes, Inductive, TypeOK
  <2> QED BY <2>1, <2>2, <2>3, <2>4 DEF Goes, Inductive, TypeOK
<1>8. DownReadsNothing'
  <2>1. ~ Up(o) => pipe[o] = <<>> BY <1>1 DEF Inductive, DownReadsNothing
  <2>2. ~ Up(o)' => pipe'[o] = <<>>
    BY <1>3, <1>1, <1>4, <1>5, <1>2, <2>1, EmptySeq, SubSeqEmpty DEF Up
  <2> QED BY <1>1, <1>5, <2>2 DEF DownReadsNothing
<1>9. \A t \in Server : Yields(t)' => Yields(t)
  BY <1>1, <1>4, <1>5, <1>6, EmptyPipe DEF Yields
<1>10. \A t \in Server : Ordered(t)'
  <2>1. Ordered(o) BY <1>1 DEF Inductive
  <2>2. Ordered(o)' BY <2>1, <1>4, <1>6 DEF Ordered
  <2>3. Ordered(s)' BY <1>4, <1>5, EmptyPipe DEF Ordered
  <2> QED BY <1>1, <2>2, <2>3
<1> QED BY <1>7, <1>8, <1>9, <1>10, NobodyBeginsToYield DEF Inductive

\* A process that starts has nothing to read.
LEMMA StartKeeps ==
  ASSUME Inductive, NEW s \in Server, Start(s)
  PROVE  Inductive'
<1>1. pipe[s] = <<>> /\ pipe' = pipe BY DEF Start, Inductive, DownReadsNothing
<1>2. /\ state'[s] \in {"PRIMARY", "BACKUP"}
      /\ \A t \in Server : t # s => state'[t] = state[t]
  BY DEF Start, Inductive, TypeOK
<1>3. TypeOK'
  BY PeerExpiryAssumption DEF Start, Inductive, TypeOK, States
<1>4. DownReadsNothing'
  BY <1>1, <1>2 DEF Inductive, DownReadsNothing, Up
<1>5. \A t \in Server : Yields(t)' => Yields(t)
  BY <1>1, <1>2, EmptyPipe DEF Yields
<1>6. \A t \in Server : Ordered(t)'
  BY <1>1, <1>2, EmptyPipe DEF Inductive, Ordered
<1> QED BY <1>3, <1>4, <1>5, <1>6, NobodyBeginsToYield DEF Inductive

\* Publishing ACTIVE makes the peer yield, but who is active does not; and a
\* passive server publishes into a pipe without ACTIVE, or to an active peer.
LEMMA SendKeeps ==
  ASSUME Inductive, NEW s \in Server, SendState(s)
  PROVE  Inductive'
<1> DEFINE o == Other(s)
<1>1. o \in Server /\ o # s /\ \A t \in Server : t = s \/ t = o BY Peers
<1>2. pipe \in [Server -> Seq(States)] /\ state \in [Server -> States \cup {"DOWN"}]
  BY DEF Inductive, TypeOK
<1>3. state' = state /\ state[s] \in States /\ due' = [due EXCEPT ![s] = 0]
      /\ age' = age /\ program' = program
  BY <1>2 DEF SendState, Up
<1>4. CASE pipe' = pipe
  <2>1. TypeOK' BY <1>3, <1>4 DEF Inductive, TypeOK
  <2> QED BY <2>1, <1>3, <1>4
          DEF Inductive, DownReadsNothing, AtMostOneYields, Yields, Ordered, Up
<1>5. CASE Up(o) /\ pipe' = [pipe EXCEPT ![o] = Append(@, state[s])]
  <2> HIDE DEF o
  <2>1. pipe'[s] = pipe[s] /\ pipe'[o] = Append(pipe[o], state[s])
    BY <1>1, <1>2, <1>5
  <2>2. /\ pipe'[o] \in Seq(States)
        /\ \A k : Has(pipe'[o], k) => Has(pipe[o], k) \/ k = state[s]
        /\ InOrder(pipe[o]) /\ (state[s] = "PASSIVE" => ~ Has(pipe[o], "ACTIVE"))
              => InOrder(pipe'[o])
    BY <1>1, <1>2, <1>3, <2>1, PublishPipe
  <2>3. TypeOK'
    BY <1>1, <1>2, <1>3, <1>5, <2>1, <2>2 DEF Inductive, TypeOK
  <2>4. DownReadsNothing'
    BY <1>1, <1>3, <1>5, <2>1 DEF Inductive, DownReadsNothing, Up
  <2>5. ~ (Yields(s) /\ Yields(o)) BY <1>1 DEF Inductive, AtMostOneYields
  <2>6. AtMostOneYields'
    <3>1. Yields(s)' <=> Yields(s) BY <1>3, <2>1 DEF Yields
    <3>2. state[s] = "ACTIVE" => ~ Yields(s) BY DEF Yields
    <3>3. Yields(o)' => Yields(o) \/ state[s] = "ACTIVE" BY <1>3, <2>2 DEF Yields
    <3>4. ~ (Yields(s)' /\ Yields(o)') BY <2>5, <3>1, <3>2, <3>3
    <3> QED BY <1>1, <3>4 DEF AtMostOneYields
  <2>7. Ordered(o)'
    <3>1. Ordered(o) BY <1>1 DEF Inductive
    <3>2. state[s] = "PASSIVE" => Yields(s) BY DEF Yields
    <3>3. state[s] = "PASSIVE" /\ state[o] # "ACTIVE"
            => state[o] # "PASSIVE" /\ ~ Has(pipe[o], "ACTIVE")
      BY <2>5, <3>2 DEF Yields
    <3> QED BY <1>3, <2>2, <3>1, <3>3 DEF Ordered
  <2>8. Ordered(s)' BY <1>3, <2>1 DEF Inductive, Ordered
  <2> QED BY <1>1, <2>3, <2>4, <2>6, <2>7, <2>8 DEF Inductive
<1> QED BY <1>4, <1>5 DEF SendState

\* Reading makes passive only who yields, and behind ACTIVE comes no PASSIVE.
LEMMA ReadKeeps ==
  ASSUME Inductive, NEW s \in Server, Up(s), pipe[s] # <<>>,
         state' = [state EXCEPT ![s] = Becomes(s, Head(pipe[s]))],
         age' = [age EXCEPT ![s] = 0],
         pipe' = [pipe EXCEPT ![s] = Tail(@)],
         UNCHANGED <<program, due>>
  PROVE  Inductive'
<1> DEFINE q == pipe[s]
           ev == Head(pipe[s])
<1>1. pipe \in [Server -> Seq(States)] /\ state \in [Server -> States \cup {"DOWN"}]
  BY DEF Inductive, TypeOK
<1>2. state[s] \in States /\ q \in Seq(States) BY <1>1 DEF Up
<1>3. /\ ev \in States
      /\ Tail(q) \in Seq(States)
      /\ Has(q, ev)
      /\ \A m : Has(Tail(q), m) => Has(q, m)
      /\ InOrder(q) => InOrder(Tail(q))
      /\ InOrder(q) /\ ev = "ACTIVE" => ~ Has(Tail(q), "PASSIVE")
  BY <1>2, ReadPipe
<1> HIDE DEF ev
<1>4. /\ state'[s] \in States
      /\ state[s] = "ACTIVE" => state'[s] = "ACTIVE"
      /\ state'[s] = "PASSIVE" => state[s] = "PASSIVE" \/ ev = "ACTIVE"
  BY <1>1, <1>2, <1>3, Transitions DEF ev
<1>5. pipe'[s] = Tail(q) BY <1>1
<1>6. \A t \in Server : t # s => state'[t] = state[t] /\ pipe'[t] = pipe[t]
  BY <1>1
<1> HIDE DEF q
<1>7. TypeOK'
  <2>1. state' \in [Server -> States \cup {"DOWN"}] /\ pipe' \in [Server -> Seq(States)]
    BY <1>1, <1>3, <1>4, <1>5, <1>6
  <2>2. age' \in [Server -> 0 .. PeerExpiry + 1]
    BY PeerExpiryAssumption DEF Inductive, TypeOK
  <2> QED BY <2>1, <2>2 DEF Inductive, TypeOK
<1>8. DownReadsNothing'
  BY <1>4, <1>6 DEF Inductive, DownReadsNothing, Up, States
<1>9. \A t \in Server : Yields(t)' => Yields(t)
  <2>1. Yields(s)' => Yields(s) BY <1>3, <1>4, <1>5 DEF Yields, q
  <2> QED BY <2>1, <1>6 DEF Yields
<1>10. \A t \in Server : Ordered(t)'
  <2>1. Ordered(s) BY DEF Inductive
  <2>2. Ordered(s)' BY <2>1, <1>3, <1>4, <1>5 DEF Ordered, q
  <2> QED BY <2>2, <1>6 DEF Inductive, Ordered
<1> QED BY <1>7, <1>8, <1>9, <1>10, NobodyBeginsToYield DEF Inductive

\* A client makes a server active or changes nothing.
LEMMA RequestKeeps ==
  ASSUME Inductive, NEW s \in Server, ClientRequest(s)
  PROVE  Inductive'
<1>1. state \in [Server -> States \cup {"DOWN"}] BY DEF Inductive, TypeOK
<1>2. state[s] \in States BY <1>1 DEF ClientRequest, Up
<1>3. /\ state'[s] \in States
      /\ state[s] = "ACTIVE" => state'[s] = "ACTIVE"
      /\ state'[s] = "PASSIVE" => state[s] = "PASSIVE"
  BY <1>1, <1>2, Transitions DEF ClientRequest
<1>4. pipe' = pipe /\ \A t \in Server : t # s => state'[t] = state[t]
  BY <1>1 DEF ClientRequest
<1>5. TypeOK'
  <2>1. state' \in [Server -> States \cup {"DOWN"}] BY <1>1, <1>3, <1>4 DEF ClientRequest
  <2> QED BY <2>1 DEF Inductive, TypeOK, ClientRequest
<1>6. DownReadsNothing'
  BY <1>3, <1>4 DEF Inductive, DownReadsNothing, Up, States
<1>7. \A t \in Server : Yields(t)' => Yields(t) BY <1>3, <1>4 DEF Yields
<1>8. \A t \in Server : Ordered(t)' BY <1>3, <1>4 DEF Inductive, Ordered
<1> QED BY <1>5, <1>6, <1>7, <1>8, NobodyBeginsToYield DEF Inductive

\* Losing messages takes nothing but ends of pipes away.
LEMMA LoseKeeps ==
  ASSUME Inductive, NEW s \in Server, Lose(s)
  PROVE  Inductive'
<1>1. pipe \in [Server -> Seq(States)] BY DEF Inductive, TypeOK
<1>2. Len(pipe[s]) \in Nat \ {0} BY <1>1, EmptySeq DEF Lose
<1>3. Len(pipe[s]) - 1 \in 0 .. Len(pipe[s]) BY <1>2
<1>4. pipe'[s] = SubSeq(pipe[s], 1, Len(pipe[s]) - 1) BY <1>1 DEF Lose
<1>5. /\ pipe'[s] \in Seq(States)
      /\ \A m : Has(pipe'[s], m) => Has(pipe[s], m)
      /\ InOrder(pipe[s]) => InOrder(pipe'[s])
  BY <1>1, <1>3, <1>4, CutPipe
<1>6. state' = state /\ \A t \in Server : t # s => pipe'[t] = pipe[t]
  BY <1>1 DEF Lose
<1>7. TypeOK'
  <2>1. pipe' \in [Server -> Seq(States)] BY <1>1, <1>5, <1>6 DEF Lose
  <2> QED BY <2>1 DEF Inductive, TypeOK, Lose
<1>8. DownReadsNothing'
  BY <1>6 DEF Inductive, DownReadsNothing, Up, Lose
<1>9. \A t \in Server : Yields(t)' => Yields(t) BY <1>5, <1>6 DEF Yields
<1>10. \A t \in Server : Ordered(t)' BY <1>5, <1>6 DEF Inductive, Ordered
<1> QED BY <1>7, <1>8, <1>9, <1>10, NobodyBeginsToYield DEF Inductive

\* Time changes no state and no pipe.
LEMMA TickKeeps ==
  ASSUME Inductive, Tick
  PROVE  Inductive'
<1>1. state' = state /\ pipe' = pipe /\ program' = program BY DEF Tick
<1>2. age' \in [Server -> 0 .. PeerExpiry + 1]
  BY PeerExpiryAssumption DEF Tick, Inductive, TypeOK, Expired
<1>3. due' \in [Server -> 0 .. 2] BY DEF Tick, Inductive, TypeOK, MaxSilence
<1>4. TypeOK' BY <1>1, <1>2, <1>3 DEF Inductive, TypeOK
<1> QED BY <1>1, <1>4
        DEF Inductive, DownReadsNothing, AtMostOneYields, Yields, Ordered, Up

\* Every step keeps the invariant.
LEMMA StepKeeps ==
  ASSUME Inductive, [Next]_vars
  PROVE  Inductive'
<1>1. CASE Tick BY <1>1, TickKeeps
<1>2. ASSUME NEW s \in Server, Start(s) PROVE Inductive' BY <1>2, StartKeeps
<1>3. ASSUME NEW s \in Server, Die(s) PROVE Inductive' BY <1>3, EndKeeps DEF Die
<1>4. ASSUME NEW s \in Server, SendState(s) PROVE Inductive' BY <1>4, SendKeeps
<1>5. ASSUME NEW s \in Server, RecvState(s) PROVE Inductive'
  BY <1>5, EndKeeps, ReadKeeps DEF RecvState
<1>6. ASSUME NEW s \in Server, ClientRequest(s) PROVE Inductive' BY <1>6, RequestKeeps
<1>7. ASSUME NEW s \in Server, Lose(s) PROVE Inductive' BY <1>7, LoseKeeps
<1>8. CASE UNCHANGED vars
  BY <1>8 DEF vars, Inductive, TypeOK, DownReadsNothing, AtMostOneYields, Yields, Ordered, Up
<1> QED BY <1>1, <1>2, <1>3, <1>4, <1>5, <1>6, <1>7, <1>8 DEF Next

\* At most one server yields, in every reachable state.
THEOREM StarInvariant == Spec => []Inductive
<1>1. Init => Inductive
  <2>1. SUFFICES ASSUME Init PROVE Inductive OBVIOUS
  <2>2. TypeOK BY <2>1, EmptyPipe, PeerExpiryAssumption DEF Init, TypeOK
  <2>3. \A s \in Server : state[s] = "DOWN" /\ pipe[s] = <<>> BY <2>1 DEF Init
  <2> QED BY <2>2, <2>3, EmptyPipe
          DEF Inductive, DownReadsNothing, AtMostOneYields, Yields, Ordered, Server
<1>2. Inductive /\ [Next]_vars => Inductive' BY StepKeeps
<1> QED BY <1>1, <1>2, PTL DEF Spec

\* The members of both programs keep their types and bounds.
THEOREM StarTypes == Spec => []TypeOK
<1>1. Inductive => TypeOK BY DEF Inductive
<1> QED BY <1>1, StarInvariant, PTL

\* No loss, delay, death or restart leaves the pair with two passive servers.
THEOREM NoDualPassive == Spec => []NeverBothPassive
<1>1. Inductive => NeverBothPassive
  BY DEF Inductive, AtMostOneYields, Yields, NeverBothPassive
<1> QED BY <1>1, StarInvariant, PTL

\* The branch for two passive servers is never taken.
THEOREM DualPassiveBranchDead == Spec => []PassiveNeverHearsPassive
<1>1. Inductive => PassiveNeverHearsPassive
  <2>1. SUFFICES ASSUME Inductive, NEW s \in Server, state[s] = "PASSIVE", pipe[s] # <<>>
                 PROVE  Head(pipe[s]) # "PASSIVE"
    BY DEF PassiveNeverHearsPassive
  <2>2. pipe[s] \in Seq(States) BY <2>1 DEF Inductive, TypeOK
  <2>3. Has(pipe[s], Head(pipe[s])) BY <2>1, <2>2, ReadPipe
  <2>4. ~ Has(pipe[s], "PASSIVE") BY <2>1 DEF Inductive, Ordered
  <2> QED BY <2>3, <2>4
<1> QED BY <1>1, StarInvariant, PTL

-----------------------------------------------------------------------------
(* No split brain.  When messages are read promptly and none is lost, what *)
(* a server has not read is the last thing its peer published, and it has  *)
(* been published since the peer's last firing: a server that has reason   *)
(* to fear an active peer has heard from it, and never takes the silence   *)
(* of a running peer for its death.                                        *)

\* What a server reads next, if anything.
Unread(s) == IF pipe[s] = <<>> THEN "NOTHING" ELSE Head(pipe[s])

\* One message at a time, published after the last firing of the timer; the
\* publisher has not restarted since.
Single(s) ==
    /\ Len(pipe[s]) <= 1
    /\ Unread(s) # "NOTHING" =>
        /\ Up(s)
        /\ due[Other(s)] = 0
        /\ Up(Other(s)) \/ age[Other(s)] = 0

\* A running peer is at least as far as its message says.
SameLife(s) ==
    Up(Other(s)) =>
        /\ Unread(s) = "ACTIVE" => state[Other(s)] = "ACTIVE"
        /\ Unread(s) = "PASSIVE" => state[Other(s)] \in {"PASSIVE", "ACTIVE"}

\* The peer whose message makes a server active waits for its own first message.
Awaited(s) ==
    /\ state[s] = "PRIMARY" /\ Unread(s) = "BACKUP"
            => state[Other(s)] \in {"BACKUP", "DOWN"}
    /\ state[s] = "PASSIVE" /\ Unread(s) \in {"PRIMARY", "BACKUP"}
            => state[Other(s)] \in {"PRIMARY", "BACKUP", "DOWN"}

\* The expiry of this server would make it active.
Watches(s) ==
    \/ state[s] = "PASSIVE"
    \/ state[s] = "PRIMARY" /\ program = "server2"

\* Who watches a running peer has heard from it since its last firing, or can.
Hears(s) ==
    Watches(s) /\ state[Other(s)] \in {"PASSIVE", "ACTIVE"} =>
        \/ age[s] <= due[Other(s)]
        \/ Unread(s) # "NOTHING" /\ age[s] <= MaxSilence

\* A server publishes in time, and only the primary starts as PRIMARY.
Punctual(s) ==
    /\ due[s] <= MaxSilence
    /\ state[s] = "PRIMARY" => s = "primary"

BothActive == \A s \in Server : state[s] = "ACTIVE"

CalmAt(s) == Single(s) /\ SameLife(s) /\ Awaited(s) /\ Hears(s) /\ Punctual(s)

Calm == (\A s \in Server : CalmAt(s)) /\ ~ BothActive

\* What the code's timing gives: the expiry is longer than the pair's silences.
Calmly == Prompt /\ Reliable /\ PeerExpiry >= 2

\* The members of one server.
LEMMA MembersOf ==
  ASSUME TypeOK, NEW s \in Server
  PROVE  /\ state[s] \in States \cup {"DOWN"}
         /\ age[s] \in Nat
         /\ due[s] \in Nat
         /\ pipe[s] \in Seq(States)
<1>1. age[s] \in 0 .. PeerExpiry + 1 /\ due[s] \in 0 .. 2 BY DEF TypeOK
<1>2. age[s] \in Nat /\ due[s] \in Nat BY <1>1, PeerExpiryAssumption
<1> QED BY <1>2 DEF TypeOK

\* Nobody who watches a running peer sees it expired.
LEMMA NotExpired ==
  ASSUME Calmly, TypeOK, NEW s \in Server, CalmAt(s),
         Watches(s), state[Other(s)] \in {"PASSIVE", "ACTIVE"}
  PROVE  ~ Expired(s)
<1>1. MaxSilence \in {1, 2} BY DEF MaxSilence
<1>2. due[Other(s)] \in 0 .. 2 /\ age[s] \in Nat BY Peers, MembersOf DEF TypeOK
<1>3. age[s] <= 2 BY <1>1, <1>2 DEF CalmAt, Hears
<1> QED BY <1>2, <1>3, PeerExpiryAssumption DEF Calmly, Expired

\* Time passes only when everything is read: a firing, then a message.
LEMMA TickCalm ==
  ASSUME Calmly, Inductive, Calm, Tick
  PROVE  Calm'
<1>1. \A s \in Server : Unread(s) = "NOTHING" /\ (Up(s) => due[s] < MaxSilence)
  BY DEF Tick, Settled, Calmly, Inductive, DownReadsNothing, Unread
<1>2. /\ state' = state /\ pipe' = pipe /\ program' = program
      /\ MaxSilence' = MaxSilence /\ MaxSilence \in {1, 2}
  BY DEF Tick, MaxSilence
<1>3. \A s \in Server : Unread(s)' = Unread(s) BY <1>2 DEF Unread
<1>4. /\ \A s \in Server : age[s] \in Nat /\ due[s] \in Nat
      /\ \A s \in Server : age'[s] <= age[s] + 1
      /\ \A s \in Server : Up(s) => due'[s] = due[s] + 1
      /\ \A s \in Server : ~ Up(s) => due'[s] = due[s]
  <2>1. \A s \in Server : age[s] \in Nat /\ due[s] \in Nat BY MembersOf DEF Inductive
  <2> QED BY <1>1, <2>1 DEF Tick
<1>5. ASSUME NEW s \in Server PROVE CalmAt(s)'
  <2>1. CalmAt(s) BY DEF Calm
  <2>2. Other(s) \in Server BY Peers
  <2>3. Hears(s)'
    <3>1. SUFFICES ASSUME Watches(s), state[Other(s)] \in {"PASSIVE", "ACTIVE"}
                   PROVE  age'[s] <= due'[Other(s)]
      BY <1>2 DEF Hears, Watches
    <3>2. age[s] <= due[Other(s)] BY <2>1, <3>1, <1>1 DEF CalmAt, Hears
    <3>3. Up(Other(s)) BY <3>1 DEF Up
    <3>4. due'[Other(s)] = due[Other(s)] + 1 BY <2>2, <3>3, <1>4
    <3>5. age'[s] \in Nat BY <1>4 DEF Tick
    <3> QED BY <3>2, <3>4, <3>5, <1>4, <2>2
  <2>4. Punctual(s)'
    <3>1. due'[s] <= MaxSilence BY <1>1, <1>2, <1>4, <2>1 DEF CalmAt, Punctual
    <3> QED BY <3>1, <1>2, <2>1 DEF CalmAt, Punctual
  <2>5. Single(s)' /\ SameLife(s)' /\ Awaited(s)'
    BY <1>1, <1>2, <1>3, <2>1 DEF CalmAt, Single, SameLife, Awaited
  <2> QED BY <2>3, <2>4, <2>5 DEF CalmAt
<1> QED BY <1>5, <1>2 DEF Calm, BothActive

\* A process comes back to empty pipes.
LEMMA StartCalm ==
  ASSUME Calmly, Inductive, Calm, NEW s \in Server, Start(s)
  PROVE  Calm'
<1> DEFINE o == Other(s)
<1>1. o \in Server /\ o # s /\ Other(o) = s /\ \A t \in Server : t = s \/ t = o
  BY DEF Server, Other
<1>2. TypeOK BY DEF Inductive
<1>3. /\ state'[s] \in {"PRIMARY", "BACKUP"} /\ state'[o] = state[o]
      /\ state'[s] = "PRIMARY" => s = "primary"
      /\ age'[o] = age[o]
      /\ program = "server2" => age'[s] = 0
      /\ due' = due /\ program' = program /\ pipe' = pipe
  BY <1>1, <1>2 DEF Start, TypeOK
<1>4. Unread(s) = "NOTHING" BY DEF Start, Inductive, DownReadsNothing, Unread
<1>5. Unread(o) = "NOTHING"
  <2>1. age[s] \in Nat /\ age[s] > 0 BY <1>2, MembersOf DEF Start, Calmly
  <2> QED BY <2>1, <1>1 DEF Calm, CalmAt, Single, Start
<1>6. /\ Unread(s)' = "NOTHING" /\ Unread(o)' = "NOTHING"
      /\ MaxSilence' = MaxSilence
  BY <1>3, <1>4, <1>5 DEF Unread, MaxSilence
<1>7. due[o] \in Nat BY <1>1, <1>2, MembersOf
<1>8. CalmAt(s) /\ CalmAt(o) BY <1>1 DEF Calm
<1> HIDE DEF o
<1>9. CalmAt(s)'
  <2>1. Hears(s)'
    <3>1. Watches(s)' => age'[s] = 0 BY <1>3 DEF Watches
    <3> QED BY <3>1, <1>3, <1>7 DEF Hears, o
  <2> QED BY <2>1, <1>3, <1>6, <1>8
          DEF CalmAt, Single, SameLife, Awaited, Punctual
<1>10. CalmAt(o)'
  BY <1>1, <1>3, <1>6, <1>8 DEF CalmAt, Single, SameLife, Awaited, Punctual, Hears
<1>11. ~ BothActive' BY <1>3 DEF BothActive
<1> QED BY <1>1, <1>9, <1>10, <1>11 DEF Calm

\* Of a process that ends at most the last message remains.
LEMMA EndCalm ==
  ASSUME Calmly, Inductive, Calm, NEW s \in Server, Goes(s)
  PROVE  Calm'
<1> DEFINE o == Other(s)
<1>1. o \in Server /\ o # s /\ Other(o) = s /\ \A t \in Server : t = s \/ t = o
  BY DEF Server, Other
<1>2. TypeOK BY DEF Inductive
<1>3. CalmAt(s) /\ CalmAt(o) BY <1>1 DEF Calm
<1>4. PICK n \in 0 .. Len(pipe[o]) : Ended(s, SubSeq(pipe[o], 1, n))
  BY DEF Goes, Prefixes
<1>5. pipe[o] \in Seq(States) /\ Len(pipe[o]) \in Nat BY <1>1, <1>2 DEF TypeOK
<1> HIDE DEF o
<1>6. pipe'[s] = <<>> /\ pipe'[o] = SubSeq(pipe[o], 1, n)
  BY <1>1, <1>2, <1>4 DEF Ended, o, TypeOK
<1>7. pipe'[o] = <<>> \/ pipe'[o] = pipe[o]
  <2>1. n = 0 \/ n = Len(pipe[o]) BY <1>3, <1>5 DEF CalmAt, Single
  <2>2. CASE n = 0 BY <2>2, <1>6, <1>5, SubSeqEmpty
  <2>3. CASE n = Len(pipe[o]) BY <2>3, <1>6, <1>5, SubSeqFull
  <2> QED BY <2>1, <2>2, <2>3
<1>8. /\ state'[s] = "DOWN" /\ state'[o] = state[o]
      /\ age'[s] = 0 /\ age'[o] = age[o]
      /\ due'[s] = 0 /\ due'[o] = due[o]
      /\ program' = program /\ MaxSilence' = MaxSilence /\ MaxSilence \in {1, 2}
  BY <1>1, <1>2 DEF Goes, TypeOK, MaxSilence
<1>9. /\ Unread(s)' = "NOTHING"
      /\ Unread(o)' \in {"NOTHING", Unread(o)}
      /\ Len(pipe'[s]) = 0 /\ Len(pipe'[o]) <= 1
  BY <1>3, <1>5, <1>6, <1>7 DEF Unread, CalmAt, Single
<1>10. CalmAt(s)'
  BY <1>3, <1>8, <1>9 DEF CalmAt, Single, SameLife, Awaited, Hears, Punctual, Watches
<1>11. CalmAt(o)'
  BY <1>1, <1>3, <1>8, <1>9
  DEF CalmAt, Single, SameLife, Awaited, Hears, Punctual, Watches, Up
<1>12. ~ BothActive' BY <1>8 DEF BothActive
<1> QED BY <1>1, <1>10, <1>11, <1>12 DEF Calm

\* A firing is due, so that the peer has read the last message.
LEMMA SendCalm ==
  ASSUME Calmly, Inductive, Calm, NEW s \in Server, SendState(s)
  PROVE  Calm'
<1> DEFINE o == Other(s)
<1>1. o \in Server /\ o # s /\ Other(o) = s /\ \A t \in Server : t = s \/ t = o
  BY DEF Server, Other
<1>2. TypeOK BY DEF Inductive
<1>3. CalmAt(s) /\ CalmAt(o) BY <1>1 DEF Calm
<1>4. /\ state' = state /\ age' = age /\ program' = program
      /\ due'[s] = 0 /\ due'[o] = due[o] /\ due[s] > 0 /\ Up(s)
      /\ MaxSilence' = MaxSilence /\ MaxSilence \in {1, 2}
  BY <1>1, <1>2 DEF SendState, TypeOK, MaxSilence
<1>5. state[s] \in States /\ due[s] \in Nat /\ age[o] \in Nat
  BY <1>1, <1>2, <1>4, MembersOf DEF Up
<1>6. pipe[o] = <<>>
  <2>1. Unread(o) = "NOTHING" BY <1>1, <1>3, <1>4, <1>5 DEF CalmAt, Single
  <2>2. pipe[o] # <<>> => Head(pipe[o]) \in States BY <1>1, <1>2, ReadPipe DEF TypeOK
  <2> QED BY <2>1, <2>2 DEF Unread, States
<1>7. pipe'[s] = pipe[s] BY <1>1, <1>2 DEF SendState, TypeOK
<1> HIDE DEF o
<1>8. /\ Len(pipe'[o]) <= 1
      /\ Unread(o)' = IF Up(o) THEN state[s] ELSE "NOTHING"
  <2>1. CASE Up(o)
    <3>1. Len(pipe[o]) < HWM BY <1>6, HWMAssumption
    <3>2. pipe'[o] = Append(pipe[o], state[s])
      BY <1>1, <1>2, <2>1, <3>1 DEF SendState, TypeOK, o
    <3>3. pipe'[o] = <<state[s]>> BY <3>2, <1>6
    <3> QED BY <3>3, <2>1 DEF Unread
  <2>2. CASE ~ Up(o)
    <3>1. pipe' = pipe BY <2>2 DEF SendState, o
    <3> QED BY <3>1, <2>2, <1>6 DEF Unread
  <2> QED BY <2>1, <2>2
<1>9. CalmAt(s)'
  BY <1>3, <1>4, <1>7
  DEF CalmAt, Single, SameLife, Awaited, Hears, Punctual, Watches, Unread, Up, o
<1>10. CalmAt(o)'
  <2>1. Single(o)' BY <1>1, <1>4, <1>8 DEF Single, Up
  <2>2. SameLife(o)' BY <1>1, <1>4, <1>8 DEF SameLife
  <2>3. Awaited(o)' BY <1>1, <1>4, <1>8, <1>5 DEF Awaited
  <2>4. Hears(o)'
    <3>1. Watches(o) => Up(o) BY DEF Watches, Up
    <3>2. Unread(o) = "NOTHING" /\ due[s] <= MaxSilence
      BY <1>6, <1>3 DEF Unread, CalmAt, Punctual
    <3>3. Watches(o) /\ state[s] \in {"PASSIVE", "ACTIVE"} => age[o] <= MaxSilence
      BY <3>2, <1>1, <1>3, <1>4, <1>5 DEF CalmAt, Hears
    <3> QED BY <3>1, <3>3, <1>1, <1>4, <1>8 DEF Hears, Watches
  <2>5. Punctual(o)' BY <1>3, <1>4 DEF CalmAt, Punctual
  <2> QED BY <2>1, <2>2, <2>3, <2>4, <2>5 DEF CalmAt
<1>11. ~ BothActive' BY <1>4 DEF Calm, BothActive
<1> QED BY <1>1, <1>9, <1>10, <1>11 DEF Calm

\* What makes a server active: a peer that waits for its own first message, or
\* the expiry of a peer that is watched.
LEMMA Activation ==
  ASSUME TypeOK, NEW s \in Server, Up(s), NEW ev \in States \cup {"CLIENT_REQUEST"},
         Becomes(s, ev) # state[s]
  PROVE  \/ /\ Becomes(s, ev) = "PASSIVE"
            /\ state[s] \in {"PRIMARY", "BACKUP"} /\ ev = "ACTIVE"
         \/ /\ Becomes(s, ev) = "ACTIVE"
            /\ \/ state[s] = "PRIMARY" /\ ev = "BACKUP"
               \/ state[s] = "PASSIVE" /\ ev \in {"PRIMARY", "BACKUP"}
               \/ Watches(s) /\ ev = "CLIENT_REQUEST" /\ Expired(s)
<1>1. program \in {"server1", "server2"} /\ state[s] \in States
  BY MembersOf DEF TypeOK, Up
<1> QED BY <1>1 DEF Becomes, execute, update_state, States, Watches

\* Nothing remains behind a single message.
LEMMA ReadLast ==
  ASSUME NEW q \in Seq(States), q # <<>>, Len(q) <= 1
  PROVE  Tail(q) = <<>>
<1>1. Tail(q) \in Seq(States) /\ Len(Tail(q)) = Len(q) - 1 BY HeadTailProperties
<1>2. Len(q) \in Nat \ {0} BY EmptySeq
<1> QED BY <1>1, <1>2, EmptySeq

\* Reading a message that does not end the process.
Takes(s) ==
    /\ Up(s) /\ pipe[s] # <<>>
    /\ state' = [state EXCEPT ![s] = Becomes(s, Head(pipe[s]))]
    /\ age' = [age EXCEPT ![s] = 0]
    /\ pipe' = [pipe EXCEPT ![s] = Tail(@)]
    /\ UNCHANGED <<program, due>>

\* A message is read: the peer is not active beside a server it makes active.
LEMMA ReadCalm ==
  ASSUME Calmly, Inductive, Calm, NEW s \in Server, Takes(s)
  PROVE  Calm'
<1> DEFINE o == Other(s)
           ev == Unread(s)
<1>1. o \in Server /\ o # s /\ Other(o) = s /\ \A t \in Server : t = s \/ t = o
  BY DEF Server, Other
<1>2. TypeOK BY DEF Inductive
<1>3. CalmAt(s) /\ CalmAt(o) /\ ~ (state[s] = "ACTIVE" /\ state[o] = "ACTIVE")
  BY <1>1 DEF Calm, BothActive
<1>4. /\ state[s] \in States /\ state[o] \in States \cup {"DOWN"}
      /\ due[o] \in Nat
      /\ pipe[s] \in Seq(States)
  BY <1>1, <1>2, MembersOf DEF Takes, Up
<1>5. ev \in States /\ ev = Head(pipe[s]) BY <1>4, ReadPipe DEF Takes, Unread
<1> HIDE DEF o, ev
<1>6. /\ state'[o] = state[o] /\ age'[o] = age[o] /\ pipe'[o] = pipe[o]
      /\ state'[s] = Becomes(s, ev) /\ age'[s] = 0 /\ pipe'[s] = Tail(pipe[s])
      /\ due' = due /\ program' = program /\ MaxSilence' = MaxSilence
  BY <1>1, <1>2, <1>5 DEF Takes, TypeOK, MaxSilence
<1>7. pipe'[s] = <<>>
  <2>1. Len(pipe[s]) <= 1 BY <1>3 DEF CalmAt, Single
  <2>2. pipe[s] # <<>> BY DEF Takes
  <2> QED BY <2>1, <2>2, <1>4, <1>6, ReadLast
<1>8. Unread(s)' = "NOTHING" /\ Unread(o)' = Unread(o) BY <1>6, <1>7 DEF Unread
<1>9. /\ Up(o) /\ ev = "ACTIVE" => state[o] = "ACTIVE"
      /\ state[s] = "PRIMARY" /\ ev = "BACKUP" => state[o] \in {"BACKUP", "DOWN"}
      /\ state[s] = "PASSIVE" /\ ev \in {"PRIMARY", "BACKUP"}
            => state[o] \in {"PRIMARY", "BACKUP", "DOWN"}
  BY <1>3 DEF CalmAt, SameLife, Awaited, o, ev
<1>10. \/ state'[s] = state[s]
       \/ /\ state'[s] = "PASSIVE" /\ state[s] \in {"PRIMARY", "BACKUP"}
          /\ state[o] \in {"ACTIVE", "DOWN"}
       \/ /\ state'[s] = "ACTIVE" /\ state[s] = "PRIMARY"
          /\ state[o] \in {"BACKUP", "DOWN"}
       \/ /\ state'[s] = "ACTIVE" /\ state[s] = "PASSIVE"
          /\ state[o] \in {"PRIMARY", "BACKUP", "DOWN"}
  BY <1>2, <1>4, <1>5, <1>6, <1>9, Activation DEF Takes, Up, States
<1>11. CalmAt(s)'
  <2>1. Single(s)' BY <1>7, <1>8 DEF Single
  <2>2. SameLife(s)' /\ Awaited(s)' BY <1>8 DEF SameLife, Awaited
  <2>3. Hears(s)' BY <1>4, <1>6 DEF Hears, o
  <2>4. Punctual(s)' BY <1>3, <1>6, <1>10 DEF CalmAt, Punctual
  <2> QED BY <2>1, <2>2, <2>3, <2>4 DEF CalmAt
<1>12. CalmAt(o)'
  <2>1. Single(o)'
    BY <1>1, <1>3, <1>4, <1>6, <1>8, <1>10 DEF CalmAt, Single, Up, States
  <2>2. SameLife(o)'
    BY <1>1, <1>3, <1>6, <1>8, <1>10 DEF CalmAt, SameLife, Up
  <2>3. Awaited(o)'
    <3>1. Awaited(o) BY <1>3 DEF CalmAt
    <3>2. state'[o] \in {"PRIMARY", "PASSIVE"} => state'[s] = state[s] \/ state'[s] = "ACTIVE"
      BY <1>6, <1>10
    <3>3. CASE state'[s] = state[s] BY <3>1, <3>3, <1>1, <1>6, <1>8 DEF Awaited
    <3>4. CASE state'[s] # state[s]
      BY <3>1, <3>4, <1>1, <1>6, <1>8, <1>10 DEF Awaited
    <3> QED BY <3>3, <3>4
  <2>4. Hears(o)'
    BY <1>1, <1>3, <1>6, <1>8, <1>10 DEF CalmAt, Hears, Watches
  <2>5. Punctual(o)' BY <1>3, <1>6 DEF CalmAt, Punctual
  <2> QED BY <2>1, <2>2, <2>3, <2>4, <2>5 DEF CalmAt
<1>13. ~ BothActive' BY <1>1, <1>3, <1>6, <1>10 DEF BothActive
<1> QED BY <1>1, <1>11, <1>12, <1>13 DEF Calm

\* A client makes active only a server whose peer is not.
LEMMA RequestCalm ==
  ASSUME Calmly, Inductive, Calm, NEW s \in Server, ClientRequest(s)
  PROVE  Calm'
<1> DEFINE o == Other(s)
<1>1. /\ o \in Server /\ o # s /\ Other(o) = s /\ \A t \in Server : t = s \/ t = o
      /\ ~ (s = "primary" /\ o = "primary")
  BY DEF Server, Other
<1>2. TypeOK BY DEF Inductive
<1>3. CalmAt(s) /\ CalmAt(o) /\ ~ (state[s] = "ACTIVE" /\ state[o] = "ACTIVE")
  BY <1>1 DEF Calm, BothActive
<1>4. state[s] \in States /\ state[o] \in States \cup {"DOWN"}
  BY <1>1, <1>2, MembersOf DEF ClientRequest, Up
<1> HIDE DEF o
<1>5. /\ state'[o] = state[o] /\ state'[s] = Becomes(s, "CLIENT_REQUEST")
      /\ age' = age /\ due' = due /\ program' = program /\ pipe' = pipe
      /\ MaxSilence' = MaxSilence /\ Unread(s)' = Unread(s) /\ Unread(o)' = Unread(o)
  BY <1>1, <1>2 DEF ClientRequest, TypeOK, MaxSilence, Unread
<1>6. CASE state'[s] = state[s]
  <2>1. CalmAt(s)' /\ CalmAt(o)'
    BY <1>1, <1>3, <1>5, <1>6
    DEF CalmAt, Single, SameLife, Awaited, Hears, Punctual, Watches, Up, o
  <2> QED BY <2>1, <1>1, <1>3, <1>5, <1>6 DEF Calm, BothActive
<1>7. CASE state'[s] # state[s]
  <2>1. state'[s] = "ACTIVE" /\ Watches(s) /\ Expired(s)
    BY <1>2, <1>5, <1>7, Activation DEF ClientRequest, States
  <2>2. state[o] \notin {"PASSIVE", "ACTIVE"} BY <2>1, <1>2, <1>3, NotExpired DEF o
  <2>3. Punctual(s) /\ Punctual(o) BY <1>3 DEF CalmAt
  <2>4. CalmAt(s)'
    BY <1>3, <1>5, <2>1, <2>2, <2>3
    DEF CalmAt, Single, SameLife, Awaited, Hears, Punctual, Watches, Up, o
  <2>5. state[o] = "PRIMARY" => state[s] = "PASSIVE"
    BY <1>1, <2>1, <2>3 DEF Watches, Punctual
  <2>6. CalmAt(o)'
    <3>1. Single(o)' BY <1>1, <1>3, <1>5, <2>1 DEF CalmAt, Single, Up
    <3>2. SameLife(o)' BY <1>1, <1>3, <1>5, <2>1, <1>4 DEF CalmAt, SameLife, Up, States
    <3>3. Awaited(o)' BY <1>1, <1>3, <1>5, <2>2, <2>5 DEF CalmAt, Awaited
    <3>4. Hears(o)'
      BY <1>1, <1>3, <1>5, <2>1, <2>2, <2>5 DEF CalmAt, Hears, Watches
    <3>5. Punctual(o)' BY <1>3, <1>5 DEF CalmAt, Punctual
    <3> QED BY <3>1, <3>2, <3>3, <3>4, <3>5 DEF CalmAt
  <2> QED BY <1>1, <1>5, <2>2, <2>4, <2>6 DEF Calm, BothActive
<1> QED BY <1>6, <1>7

\* Every step keeps the pair calm.
LEMMA StepCalm ==
  ASSUME Calmly, Inductive, Calm, [Next]_vars
  PROVE  Calm'
<1>1. CASE Tick BY <1>1, TickCalm
<1>2. ASSUME NEW s \in Server, Start(s) PROVE Calm' BY <1>2, StartCalm
<1>3. ASSUME NEW s \in Server, Die(s) PROVE Calm' BY <1>3, EndCalm DEF Die
<1>4. ASSUME NEW s \in Server, SendState(s) PROVE Calm' BY <1>4, SendCalm
<1>5. ASSUME NEW s \in Server, RecvState(s) PROVE Calm'
  BY <1>5, EndCalm, ReadCalm DEF RecvState, Takes
<1>6. ASSUME NEW s \in Server, ClientRequest(s) PROVE Calm' BY <1>6, RequestCalm
<1>7. ASSUME NEW s \in Server, Lose(s) PROVE Calm' BY <1>7 DEF Lose, Calmly
<1>8. CASE UNCHANGED vars
  BY <1>8 DEF vars, Calm, CalmAt, Single, SameLife, Awaited, Hears, Punctual,
              BothActive, Watches, Unread, Up, MaxSilence
<1> QED BY <1>1, <1>2, <1>3, <1>4, <1>5, <1>6, <1>7, <1>8 DEF Next

\* A calm pair has one active server at most, and with bstar no two answer.
LEMMA CalmIsSafe ==
  ASSUME Calmly, Inductive, Calm
  PROVE  AtMostOneActive
<1>1. TypeOK BY DEF Inductive
<1>2. ~ \A s \in Server : state[s] = "ACTIVE" BY DEF Calm, BothActive
<1>3. ASSUME program = "server2", \A s \in Server : Up(s) /\ Answers(s)
      PROVE  FALSE
  <2>1. ASSUME NEW s \in Server
        PROVE  state[s] # "ACTIVE" => Watches(s) /\ Expired(s)
    <3>1. state[s] \in States BY <1>1, <1>3, MembersOf DEF Up
    <3> QED BY <3>1, <1>3 DEF Answers, execute, Watches, States
  <2>2. ASSUME NEW s \in Server, state[s] # "ACTIVE"
        PROVE  state[Other(s)] = "PRIMARY"
    <3>1. Watches(s) /\ Expired(s) BY <2>1, <2>2
    <3>2. state[Other(s)] \notin {"PASSIVE", "ACTIVE"}
      BY <1>1, <3>1, NotExpired DEF Calm
    <3> QED BY <3>2, <2>1, Peers DEF Watches
  <2>3. PICK s \in Server : state[s] # "ACTIVE" BY <1>2
  <2>4. state[Other(s)] = "PRIMARY" /\ Other(s) \in Server BY <2>2, <2>3, Peers
  <2>5. state[Other(Other(s))] = "PRIMARY" BY <2>2, <2>4
  <2>6. Other(Other(s)) = s BY DEF Server, Other
  <2>7. s = "primary" /\ Other(s) = "primary"
    BY <2>4, <2>5, <2>6 DEF Calm, CalmAt, Punctual
  <2> QED BY <2>7, Peers
<1> QED BY <1>2, <1>3 DEF AtMostOneActive

\* With prompt reading, no loss and an expiry of at least two heartbeats, no
\* sequence of deaths, restarts and requests leads to a split brain.
THEOREM NoSplitBrain ==
  ASSUME Prompt, Reliable, PeerExpiry >= 2
  PROVE  Spec => []AtMostOneActive
<1>1. Calmly BY DEF Calmly
<1>2. Init => Calm
  <2>1. SUFFICES ASSUME Init PROVE Calm OBVIOUS
  <2>2. \A s \in Server : state[s] = "DOWN" /\ Unread(s) = "NOTHING"
                         /\ pipe[s] = <<>> /\ due[s] = 0
    BY <2>1 DEF Init, Unread
  <2>3. MaxSilence \in {1, 2} BY DEF MaxSilence
  <2> QED BY <2>2, <2>3, Peers
          DEF Calm, CalmAt, Single, SameLife, Awaited, Hears, Punctual, BothActive,
              Watches, Server
<1>3. Inductive /\ Calm /\ [Next]_vars => Calm' BY <1>1, StepCalm
<1>4. Inductive /\ Calm => AtMostOneActive BY <1>1, CalmIsSafe
<1> QED BY <1>2, <1>3, <1>4, StarInvariant, PTL DEF Spec
=============================================================================
