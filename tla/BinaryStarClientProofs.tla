----------------------- MODULE BinaryStarClientProofs -----------------------
(***************************************************************************)
(* The pair with its client is the pair of module BinaryStar among other   *)
(* clients: whatever bstarcli does is a request of the open environment or *)
(* no step of the pair.  What is proved of the pair in BinaryStarProofs    *)
(* therefore holds beside the client, and is cited here, not proved again. *)
(***************************************************************************)
EXTENDS BinaryStarClient, SequenceTheorems, TLAPS

P == INSTANCE BinaryStarProofs

-----------------------------------------------------------------------------
(* The client's own members.                                               *)

\* Numbers grow old; a closed socket holds nothing.
LEMMA SocketTypes ==
  /\ <<>> \in Seq(BOOLEAN) /\ <<TRUE>> \in Seq(BOOLEAN)
  /\ \A q \in Seq(BOOLEAN) :
        /\ Outdated(q) \in Seq(BOOLEAN)
        /\ Append(Outdated(q), TRUE) \in Seq(BOOLEAN)
        /\ q # <<>> => Tail(q) \in Seq(BOOLEAN)
<1>1. <<>> \in Seq(BOOLEAN) /\ <<TRUE>> \in Seq(BOOLEAN) OBVIOUS
<1>2. ASSUME NEW q \in Seq(BOOLEAN) PROVE Outdated(q) \in Seq(BOOLEAN)
  <2>1. DOMAIN q = 1 .. Len(q) /\ Len(q) \in Nat BY LenProperties
  <2> QED BY <2>1, IsASeq DEF Outdated
<1>3. \A q \in Seq(BOOLEAN) : Append(Outdated(q), TRUE) \in Seq(BOOLEAN)
  BY <1>2, AppendProperties
<1>4. \A q \in Seq(BOOLEAN) : q # <<>> => Tail(q) \in Seq(BOOLEAN) BY HeadTailProperties
<1> QED BY <1>1, <1>2, <1>3, <1>4

\* The beginning and the end of what a socket holds.
LEMMA SocketParts ==
  ASSUME NEW q \in Seq(BOOLEAN), NEW n \in 0 .. Len(q)
  PROVE  SubSeq(q, 1, n) \in Seq(BOOLEAN) /\ SubSeq(q, n + 1, Len(q)) \in Seq(BOOLEAN)
<1>1. Len(q) \in Nat BY LenProperties
<1>2. \A i \in 1 .. Len(q) : q[i] \in BOOLEAN BY ElementOfSeq
<1>3. \A i \in 1 .. n : q[i] \in BOOLEAN BY <1>1, <1>2
<1>4. \A i \in (n + 1) .. Len(q) : q[i] \in BOOLEAN BY <1>1, <1>2
<1> QED BY <1>1, <1>3, <1>4, SubSeqProperties

\* The record, field by field.
LEMMA ClientFields ==
  ASSUME ClientTypeOK
  PROVE  /\ client.retries \in 1 .. Retries
         /\ client.index \in B!Server
         /\ client.connected \in B!Server
         /\ client.out \in Seq(BOOLEAN)
         /\ client.in \in Seq(BOOLEAN)
BY DEF ClientTypeOK, Clients

\* The servers of the pair.
LEMMA OtherServer == \A s \in B!Server : B!Other(s) \in B!Server
BY DEF B!Server, B!Other

\* A request of the client, sent again or given up.
LEMMA TimeoutType ==
  ASSUME ClientTypeOK, Timeout
  PROVE  ClientTypeOK'
<1> DEFINE c == [client EXCEPT !.elapsed = FALSE]
<1>1. c \in Clients /\ c.retries = client.retries BY DEF ClientTypeOK, Clients
<1>2. /\ client' = IF client.retries = 1
                  THEN Abandoned(c)
                  ELSE [Connected(c) EXCEPT !.retries = @ - 1, !.out = <<TRUE>>]
  BY DEF Timeout
<1> HIDE DEF c
<1>3. Abandoned(c) \in Clients
  <2>1. Retries \in 1 .. Retries BY RetriesAssumption
  <2>2. B!Other(c.index) \in B!Server BY <1>1, OtherServer DEF Clients
  <2> QED BY <1>1, <2>1, <2>2 DEF Abandoned, Clients
<1>4. Connected(c) \in Clients /\ Connected(c).retries = c.retries
  BY <1>1, SocketTypes DEF Connected, Clients
<1>5. client.retries # 1 => Connected(c).retries - 1 \in 1 .. Retries
  BY <1>1, <1>4, ClientFields, RetriesAssumption
<1>6. client.retries # 1
        => [Connected(c) EXCEPT !.retries = @ - 1, !.out = <<TRUE>>] \in Clients
  BY <1>4, <1>5, SocketTypes DEF Clients
<1> QED BY <1>2, <1>3, <1>6 DEF ClientTypeOK

\* A server that ends takes a part of the socket's contents with it.
LEMMA LossType ==
  ASSUME ClientTypeOK, NEW s \in B!Server, LosesWith(s)
  PROVE  ClientTypeOK'
<1>1. CASE UNCHANGED client BY <1>1 DEF ClientTypeOK
<1>2. CASE \E n \in 0 .. Len(client.out), k \in 0 .. Len(client.in) :
            client' = [client EXCEPT !.out = SubSeq(@, n + 1, Len(@)), !.in = SubSeq(@, 1, k)]
  <2>1. PICK n \in 0 .. Len(client.out), k \in 0 .. Len(client.in) :
            client' = [client EXCEPT !.out = SubSeq(@, n + 1, Len(@)), !.in = SubSeq(@, 1, k)]
    BY <1>2
  <2>2. /\ SubSeq(client.out, n + 1, Len(client.out)) \in Seq(BOOLEAN)
        /\ SubSeq(client.in, 1, k) \in Seq(BOOLEAN)
    BY ClientFields, SocketParts
  <2> QED BY <2>1, <2>2 DEF ClientTypeOK, Clients
<1> QED BY <1>1, <1>2 DEF LosesWith

\* Serving moves a request to the replies, or throws it away.
LEMMA ServeType ==
  ASSUME ClientTypeOK, NEW s \in B!Server, Serve(s)
  PROVE  ClientTypeOK'
<1>1. client.out \in Seq(BOOLEAN) /\ client.out # <<>> /\ client.in \in Seq(BOOLEAN)
  BY ClientFields DEF Serve
<1>2. /\ Tail(client.out) \in Seq(BOOLEAN)
      /\ Append(client.in, Head(client.out)) \in Seq(BOOLEAN)
  BY <1>1, HeadTailProperties, AppendProperties
<1>3. client' = [client EXCEPT !.out = Tail(@),
                      !.in = IF B!Answers(s) THEN Append(@, Head(client.out)) ELSE @]
  BY DEF Serve
<1>4. CASE B!Answers(s)
  <2>1. client' = [client EXCEPT !.out = Tail(@), !.in = Append(@, Head(client.out))]
    BY <1>3, <1>4
  <2> QED BY <1>2, <2>1 DEF ClientTypeOK, Clients
<1>5. CASE ~ B!Answers(s)
  <2>1. client' = [client EXCEPT !.out = Tail(@), !.in = @] BY <1>3, <1>5
  <2> QED BY <1>1, <1>2, <2>1 DEF ClientTypeOK, Clients
<1> QED BY <1>4, <1>5

\* Every step keeps the client's types.
LEMMA ClientStep ==
  ASSUME ClientTypeOK, [Next]_vars
  PROVE  ClientTypeOK'
<1>1. CASE Tick BY <1>1 DEF Tick, ClientTypeOK, Clients
<1>2. CASE Send
  <2>1. Append(Outdated(client.out), TRUE) \in Seq(BOOLEAN)
        /\ Outdated(client.in) \in Seq(BOOLEAN)
    BY ClientFields, SocketTypes
  <2> QED BY <1>2, <2>1 DEF Send, ClientTypeOK, Clients
<1>3. CASE Receive
  <2>1. Tail(client.in) \in Seq(BOOLEAN)
    BY <1>3, ClientFields, SocketTypes DEF Receive
  <2>2. Retries \in 1 .. Retries BY RetriesAssumption
  <2>3. CASE Head(client.in)
    <3>1. client' = [client EXCEPT !.phase = "answered", !.elapsed = FALSE,
                                   !.retries = Retries, !.in = Tail(@)]
      BY <1>3, <2>3 DEF Receive
    <3> QED BY <3>1, <2>1, <2>2 DEF ClientTypeOK, Clients
  <2>4. CASE ~ Head(client.in)
    <3>1. client' = [client EXCEPT !.elapsed = FALSE, !.in = Tail(@)]
      BY <1>3, <2>4 DEF Receive
    <3> QED BY <3>1, <2>1 DEF ClientTypeOK, Clients
  <2> QED BY <2>3, <2>4
<1>4. CASE Timeout BY <1>4, TimeoutType
<1>5. ASSUME NEW s \in B!Server, Serve(s) PROVE ClientTypeOK' BY <1>5, ServeType
<1>6. ASSUME NEW s \in B!Server, OtherRequest(s) PROVE ClientTypeOK'
  BY <1>6 DEF OtherRequest, ClientTypeOK
<1>7. ASSUME NEW s \in B!Server, Die(s) PROVE ClientTypeOK' BY <1>7, LossType DEF Die
<1>8. ASSUME NEW s \in B!Server, RecvState(s) PROVE ClientTypeOK'
  BY <1>8, LossType DEF RecvState, ClientTypeOK
<1>9. CASE UNCHANGED client BY <1>9 DEF ClientTypeOK
<1> QED BY <1>1, <1>2, <1>3, <1>4, <1>5, <1>6, <1>7, <1>8, <1>9 DEF Next, vars

\* The client counts its retries, and its sockets hold requests and replies.
THEOREM ClientTypes == Spec => []ClientTypeOK
<1>1. Init => ClientTypeOK
  BY RetriesAssumption, SocketTypes DEF Init, ClientTypeOK, Clients, B!Server
<1>2. ClientTypeOK /\ [Next]_vars => ClientTypeOK' BY ClientStep
<1> QED BY <1>1, <1>2, PTL DEF Spec

-----------------------------------------------------------------------------
(* The pair beside its client.                                             *)

\* A step of the system is a step of the pair, or leaves it alone.
LEMMA StepOfPair ==
  ASSUME [Next]_vars
  PROVE  [B!Next]_(B!vars)
<1>1. CASE Tick BY <1>1 DEF Tick, B!Next
<1>2. CASE Send \/ Receive \/ Timeout
  BY <1>2 DEF Send, Receive, Timeout, PairUnchanged, B!vars
<1>3. ASSUME NEW s \in B!Server, Serve(s) PROVE B!Next BY <1>3 DEF Serve, B!Next
<1>4. ASSUME NEW s \in B!Server, OtherRequest(s) PROVE B!Next
  BY <1>4 DEF OtherRequest, B!Next
<1>5. ASSUME NEW s \in B!Server, Die(s) PROVE B!Next BY <1>5 DEF Die, B!Next
<1>6. ASSUME NEW s \in B!Server, RecvState(s) PROVE B!Next BY <1>6 DEF RecvState, B!Next
<1>7. ASSUME NEW s \in B!Server, B!Start(s) \/ B!SendState(s) \/ B!Lose(s) PROVE B!Next
  BY <1>7 DEF B!Next
<1>8. CASE UNCHANGED vars BY <1>8 DEF vars, B!vars
<1> QED BY <1>1, <1>2, <1>3, <1>4, <1>5, <1>6, <1>7, <1>8 DEF Next

\* The pair with its client implements the pair: the client is one of the
\* clients of its open environment.
THEOREM ClientRefinesPair == Spec => B!Spec
<1>1. Init => B!Init BY DEF Init
<1>2. [Next]_vars => [B!Next]_(B!vars) BY StepOfPair
<1> QED BY <1>1, <1>2, PTL DEF Spec, B!Spec

\* The pair of this module and the pair the theorems are about are one.
LEMMA SamePair == B!Spec => P!Spec
<1>1. B!Init => P!Init BY DEF B!Init, P!Init, B!Server, P!Server
<1>2. [B!Next]_(B!vars) => [P!Next]_(P!vars)
  BY DEF B!vars, P!vars, B!Next, P!Next, B!Server, P!Server, B!Other, P!Other,
         B!Up, P!Up, B!Expired, P!Expired, B!MaxSilence, P!MaxSilence,
         B!execute, P!execute, B!update_state, P!update_state,
         B!Becomes, P!Becomes, B!Throws, P!Throws, B!Prefixes, P!Prefixes,
         B!Ended, P!Ended, B!Goes, P!Goes, B!Start, P!Start, B!Die, P!Die,
         B!SendState, P!SendState, B!RecvState, P!RecvState,
         B!ClientRequest, P!ClientRequest, B!Lose, P!Lose,
         B!Settled, P!Settled, B!Tick, P!Tick
<1> QED BY <1>1, <1>2, PTL DEF B!Spec, P!Spec

\* No split brain beside a client that retries and changes servers: its
\* requests are what makes a waiting server active.
THEOREM ClientNoSplitBrain ==
  ASSUME Prompt, Reliable, PeerExpiry >= 2
  PROVE  Spec => []AtMostOneActive
<1>1. P!Spec => []P!AtMostOneActive
  BY P!NoSplitBrain, PeerExpiryAssumption, HWMAssumption, ReliableAssumption, PromptAssumption
<1>2. P!AtMostOneActive => AtMostOneActive
  BY DEF AtMostOneActive, P!AtMostOneActive, B!AtMostOneActive, B!Server, P!Server,
         B!Up, P!Up, B!Answers, P!Answers, B!execute, P!execute,
         B!update_state, P!update_state, B!Expired, P!Expired
<1> QED BY <1>1, <1>2, ClientRefinesPair, SamePair, PTL

\* Nor do client and losses ever leave the pair with two passive servers.
THEOREM ClientNoDualPassive == Spec => []B!NeverBothPassive
<1>1. P!Spec => []P!NeverBothPassive
  BY P!NoDualPassive, PeerExpiryAssumption, HWMAssumption, ReliableAssumption, PromptAssumption
<1>2. P!NeverBothPassive => B!NeverBothPassive
  BY DEF P!NeverBothPassive, B!NeverBothPassive, P!Server, B!Server
<1> QED BY <1>1, <1>2, ClientRefinesPair, SamePair, PTL
=============================================================================
