----------------------------- MODULE HubProofs -----------------------------
(***************************************************************************)
(* Proofs about the hub, for any number of connections, any capacity of at *)
(* least two and any destinations: types, channels, the handshake.         *)
(***************************************************************************)
EXTENDS Hub, MessageProofs

-----------------------------------------------------------------------------
(* Type correctness.                                                       *)

\* What the server sends is a message.
LEMMA ServerMsgType ==
  ASSUME NEW type \in MessageType, NEW S \in SUBSET Conns
  PROVE  ServerMsg(type, S) \in Message
BY DEF ServerMsg, Message

\* What clients send, and the answer to it, are messages.
LEMMA ClientMsgType ==
  ASSUME NEW c \in Conns, NEW to \in Dests, NEW n \in Nat
  PROVE  SignalMsg(c, to, n) \in Message /\ ErrorMsg(c) \in Message
BY DEF SignalMsg, ErrorMsg, Message, MessageType

\* Offering a message to some peers keeps the types of the logs.
LEMMA OfferType ==
  ASSUME TypeOK, NEW S, NEW m \in Message, Offer(S, m)
  PROVE  log' \in [Conns -> Seq(Message)] /\ missed' \in [Conns -> SUBSET Conns]
<1>1. \A c \in Conns : Append(log[c], m) \in Seq(Message) /\ log[c] \in Seq(Message)
  BY DEF TypeOK
<1>2. log' \in [Conns -> Seq(Message)]
  BY <1>1 DEF Offer
<1>3. m.about \subseteq Conns
  BY DEF Message
<1>4. \A c \in Conns : missed[c] \subseteq Conns
  BY DEF TypeOK
<1>5. missed' \in [Conns -> SUBSET Conns]
  BY <1>3, <1>4 DEF Offer
<1> QED  BY <1>2, <1>5

\* So does a blocking send.
LEMMA SendBlockingType ==
  ASSUME TypeOK, NEW c \in Conns, NEW m \in Message, SendBlocking(c, m)
  PROVE  log' \in [Conns -> Seq(Message)] /\ missed' \in [Conns -> SUBSET Conns]
<1>1. Append(log[c], m) \in Seq(Message)
  BY DEF TypeOK
<1> QED  BY <1>1 DEF TypeOK, SendBlocking

-----------------------------------------------------------------------------
(* The inductive invariant for types, closed channels and the handshake.   *)

\* A handler works for a peer that is in the map.
Busy ==
  /\ hubPC = "select" <=> hubArg = None
  /\ hubPC # "select" => hubArg \in peers

\* The map holds whoever registered last, the others' channels are closed.
Membership ==
  /\ peers = {c \in Conns : stage[c] = "in"}
  /\ closed = {c \in Conns : stage[c] = "out"}

\* Only what is there is received, and nothing is there before handleRegister.
Backlog ==
  \A c \in Conns :
    /\ taken[c] <= Len(log[c])
    /\ stage[c] = "new" => log[c] = <<>>

\* How far the handshake with the peer being registered has got.
Greeting ==
  /\ hubPC = "sendRegistered" => log[hubArg] = <<>>
  /\ hubPC = "sendPeerList" => Len(log[hubArg]) = 1

IInv == TypeOK /\ Busy /\ Membership /\ Backlog /\ Greeting

LEMMA InitIInv == Init => IInv
BY NoneAssumption DEF Init, HubInit, IInv, TypeOK, Busy, Membership, Backlog, Greeting

\* While a handler runs, the peer it works for is a connection.
LEMMA HubArgType ==
  ASSUME TypeOK, Busy, hubPC # "select"
  PROVE  hubArg \in Conns
BY DEF TypeOK, Busy

LEMMA NextType == TypeOK /\ Busy /\ [Next]_vars => TypeOK'
<1> SUFFICES ASSUME TypeOK, Busy, [Next]_vars PROVE TypeOK'
  OBVIOUS
<1> USE DEF Goto
<1>1. CASE SendRegistered /\ UNCHANGED <<stage, routed>>
  <2>1. hubArg \in Conns
    BY <1>1, HubArgType DEF SendRegistered
  <2>2. ServerMsg("peer_registered", {hubArg}) \in Message
    BY <2>1, ServerMsgType DEF MessageType
  <2>3. log' \in [Conns -> Seq(Message)] /\ missed' \in [Conns -> SUBSET Conns]
    BY <1>1, <2>1, <2>2, SendBlockingType DEF SendRegistered
  <2> QED  BY <1>1, <2>1, <2>3 DEF SendRegistered, TypeOK
<1>2. CASE SendPeerList /\ UNCHANGED <<stage, routed>>
  <2>1. hubArg \in Conns
    BY <1>2, HubArgType DEF SendPeerList
  <2>2. ServerMsg("peer_list", peers \ {hubArg}) \in Message
    BY ServerMsgType DEF MessageType, TypeOK
  <2>3. log' \in [Conns -> Seq(Message)] /\ missed' \in [Conns -> SUBSET Conns]
    BY <1>2, <2>1, <2>2, SendBlockingType DEF SendPeerList
  <2> QED  BY <1>2, <2>1, <2>3 DEF SendPeerList, TypeOK
<1>3. CASE BroadcastJoined /\ UNCHANGED <<stage, routed>>
  <2>1. hubArg \in Conns
    BY <1>3, HubArgType DEF BroadcastJoined
  <2>2. ServerMsg("peer_joined", {hubArg}) \in Message
    BY <2>1, ServerMsgType DEF MessageType
  <2>3. log' \in [Conns -> Seq(Message)] /\ missed' \in [Conns -> SUBSET Conns]
    BY <1>3, <2>2, OfferType DEF BroadcastJoined
  <2> QED  BY <1>3, <2>3 DEF BroadcastJoined, TypeOK
<1>4. CASE SendError /\ UNCHANGED <<stage, routed>>
  <2>1. hubArg \in Conns
    BY <1>4, HubArgType DEF SendError
  <2>2. ErrorMsg(hubArg) \in Message
    BY <2>1 DEF ErrorMsg, Message, MessageType
  <2>3. log' \in [Conns -> Seq(Message)] /\ missed' \in [Conns -> SUBSET Conns]
    BY <1>4, <2>1, <2>2, SendBlockingType DEF SendError
  <2> QED  BY <1>4, <2>3 DEF SendError, TypeOK
<1>5. ASSUME NEW c \in Conns, Register(c) PROVE TypeOK'
  BY <1>5 DEF Register, HandleRegister, TypeOK
<1>6. ASSUME NEW c \in Conns, Unregister(c) PROVE TypeOK'
  <2>1. ServerMsg("peer_left", {c}) \in Message
    BY ServerMsgType DEF MessageType
  <2>2. log' \in [Conns -> Seq(Message)] /\ missed' \in [Conns -> SUBSET Conns]
    BY <1>6, <2>1, OfferType DEF Unregister, HandleUnregister
  <2> QED  BY <1>6, <2>2 DEF Unregister, HandleUnregister, TypeOK
<1>7. ASSUME NEW c \in Conns, NEW to \in Dests, Broadcast(c, to) PROVE TypeOK'
  <2>1. routed' \in Nat
    BY <1>7 DEF Broadcast, TypeOK
  <2>2. SignalMsg(c, to, routed') \in Message
    BY <2>1, ClientMsgType
  <2>3. log' \in [Conns -> Seq(Message)] /\ missed' \in [Conns -> SUBSET Conns]
    <3>1. CASE ForwardTo(c, to, routed') \/ ForwardToAll(c, to, routed')
      BY <3>1, <2>2, OfferType DEF ForwardTo, ForwardToAll
    <3>2. CASE TargetNotFound(c, to)
      BY <3>2 DEF TargetNotFound, TypeOK
    <3> QED  BY <1>7, <3>1, <3>2 DEF Broadcast, HandleBroadcast
  <2>4. hubPC' \in {"select", "sendError"} /\ hubArg' \in Conns \cup {None}
    BY <1>7 DEF Broadcast, HandleBroadcast, ForwardTo, TargetNotFound, ForwardToAll, TypeOK
  <2> QED  BY <1>7, <2>1, <2>3, <2>4 DEF Broadcast, HandleBroadcast, TypeOK
<1>8. ASSUME NEW c \in Conns, Take(c) PROVE TypeOK'
  BY <1>8 DEF Take, Receive, TypeOK
<1>9. CASE UNCHANGED vars
  BY <1>9 DEF vars, TypeOK
<1> QED  BY <1>1, <1>2, <1>3, <1>4, <1>5, <1>6, <1>7, <1>8, <1>9 DEF Next, HubStep

LEMMA NextBusy == IInv /\ [Next]_vars => Busy'
<1> SUFFICES ASSUME IInv, [Next]_vars PROVE Busy'
  OBVIOUS
<1> USE NoneAssumption DEF Goto, IInv
<1>1. CASE HubStep /\ UNCHANGED <<stage, routed>>
  BY <1>1 DEF HubStep, SendRegistered, SendPeerList, BroadcastJoined, SendError,
              Busy, TypeOK
<1>2. ASSUME NEW c \in Conns, Register(c) PROVE Busy'
  BY <1>2 DEF Register, HandleRegister, Busy, TypeOK
<1>3. ASSUME NEW c \in Conns, Unregister(c) PROVE Busy'
  BY <1>3 DEF Unregister, HandleUnregister, Busy
<1>4. ASSUME NEW c \in Conns, NEW to \in Dests, Broadcast(c, to) PROVE Busy'
  BY <1>4 DEF Broadcast, HandleBroadcast, ForwardTo, TargetNotFound, ForwardToAll,
              Busy, TypeOK
<1>5. ASSUME NEW c \in Conns, Take(c) PROVE Busy'
  BY <1>5 DEF Take, Busy
<1>6. CASE UNCHANGED vars
  BY <1>6 DEF vars, Busy
<1> QED  BY <1>1, <1>2, <1>3, <1>4, <1>5, <1>6 DEF Next

LEMMA NextMembership == IInv /\ [Next]_vars => Membership'
<1> SUFFICES ASSUME IInv, [Next]_vars PROVE Membership'
  OBVIOUS
<1> USE DEF IInv, Membership, TypeOK
<1>1. CASE HubStep /\ UNCHANGED <<stage, routed>>
  BY <1>1 DEF HubStep, SendRegistered, SendPeerList, BroadcastJoined, SendError
<1>2. ASSUME NEW c \in Conns, Register(c) PROVE Membership'
  BY <1>2 DEF Register, HandleRegister
<1>3. ASSUME NEW c \in Conns, Unregister(c) PROVE Membership'
  BY <1>3 DEF Unregister, HandleUnregister
<1>4. ASSUME NEW c \in Conns, NEW to \in Dests, Broadcast(c, to) PROVE Membership'
  BY <1>4 DEF Broadcast, HandleBroadcast
<1>5. ASSUME NEW c \in Conns, Take(c) PROVE Membership'
  BY <1>5 DEF Take
<1>6. CASE UNCHANGED vars
  BY <1>6 DEF vars
<1> QED  BY <1>1, <1>2, <1>3, <1>4, <1>5, <1>6 DEF Next

-----------------------------------------------------------------------------
(* How the channels grow.                                                  *)

\* A message that is offered to some peers is added to some of their channels.
LEMMA OfferGrows ==
  ASSUME TypeOK, NEW S, NEW m, Offer(S, m), NEW c \in Conns
  PROVE  log'[c] = log[c] \/ (c \in S /\ log'[c] = Append(log[c], m))
BY DEF Offer

\* A blocking send adds its message to one channel.
LEMMA SendBlockingGrows ==
  ASSUME TypeOK, NEW d \in Conns, NEW m, SendBlocking(d, m), NEW c \in Conns
  PROVE  IF c = d THEN log'[c] = Append(log[c], m) ELSE log'[c] = log[c]
BY DEF SendBlocking, TypeOK

\* The length of a channel after it has grown.
LEMMA AppendLen ==
  ASSUME NEW s \in Seq(Message), NEW m
  PROVE  Len(Append(s, m)) = Len(s) + 1 /\ Append(s, m) # <<>>
BY DEF Message

\* Whatever is sent, nobody receives more than is there and nothing is sent to
\* a connection that is not registered yet.
LEMMA GrowKeepsBacklog ==
  ASSUME TypeOK, Backlog, UNCHANGED taken,
         \A c \in Conns : \/ log'[c] = log[c]
                          \/ /\ stage'[c] # "new"
                             /\ \E m : log'[c] = Append(log[c], m),
         \A c \in Conns : stage'[c] = "new" => stage[c] = "new"
  PROVE  Backlog'
<1> SUFFICES ASSUME NEW c \in Conns
             PROVE  taken'[c] <= Len(log'[c]) /\ (stage'[c] = "new" => log'[c] = <<>>)
  BY DEF Backlog
<1>1. CASE log'[c] = log[c]
  BY <1>1 DEF Backlog
<1>2. CASE stage'[c] # "new" /\ \E m : log'[c] = Append(log[c], m)
  <2>1. PICK m : log'[c] = Append(log[c], m)
    BY <1>2
  <2>2. Len(log'[c]) = Len(log[c]) + 1
    BY <2>1, AppendLen DEF TypeOK
  <2> QED  BY <1>2, <2>2 DEF Backlog, TypeOK
<1> QED  BY <1>1, <1>2

LEMMA NextBacklog == IInv /\ [Next]_vars => Backlog'
<1> SUFFICES ASSUME IInv, [Next]_vars PROVE Backlog'
  OBVIOUS
<1> USE DEF IInv
<1>1. ASSUME UNCHANGED <<taken, stage>>, NEW d \in peers, NEW m, SendBlocking(d, m)
      PROVE  Backlog'
  <2>1. d \in Conns /\ stage[d] # "new"
    BY <1>1 DEF Membership
  <2> QED  BY <1>1, <2>1, SendBlockingGrows, GrowKeepsBacklog
<1>2. ASSUME UNCHANGED <<taken, stage>>, NEW S \in SUBSET peers, NEW m, Offer(S, m)
      PROVE  Backlog'
  <2>1. \A c \in S : stage[c] # "new"
    BY DEF Membership
  <2> QED  BY <1>2, <2>1, OfferGrows, GrowKeepsBacklog
<1>3. CASE HubStep /\ UNCHANGED <<stage, routed>>
  <2>1. hubPC # "select" => hubArg \in peers
    BY DEF Busy
  <2> QED  BY <1>1, <1>2, <1>3, <2>1
           DEF HubStep, SendRegistered, SendPeerList, BroadcastJoined, SendError
<1>4. ASSUME NEW c \in Conns, Register(c) PROVE Backlog'
  BY <1>4, GrowKeepsBacklog DEF Register, HandleRegister, TypeOK
<1>5. ASSUME NEW c \in Conns, Unregister(c) PROVE Backlog'
  <2>1. \A d \in peers' : stage'[d] # "new"
    BY <1>5 DEF Unregister, HandleUnregister, Membership, TypeOK
  <2> QED  BY <1>5, <2>1, OfferGrows, GrowKeepsBacklog
           DEF Unregister, HandleUnregister, TypeOK
<1>6. ASSUME NEW c \in Conns, NEW to \in Dests, Broadcast(c, to) PROVE Backlog'
  <2>1. UNCHANGED <<taken, stage>>
    BY <1>6 DEF Broadcast, HandleBroadcast
  <2>2. CASE ForwardTo(c, to, routed') \/ ForwardToAll(c, to, routed')
    BY <1>2, <2>1, <2>2 DEF ForwardTo, ForwardToAll
  <2>3. CASE TargetNotFound(c, to)
    BY <2>1, <2>3, GrowKeepsBacklog DEF TargetNotFound
  <2> QED  BY <1>6, <2>2, <2>3 DEF Broadcast, HandleBroadcast
<1>7. ASSUME NEW c \in Conns, Take(c) PROVE Backlog'
  BY <1>7 DEF Take, Receive, Backlog, TypeOK
<1>8. CASE UNCHANGED vars
  BY <1>8 DEF vars, Backlog
<1> QED  BY <1>3, <1>4, <1>5, <1>6, <1>7, <1>8 DEF Next

LEMMA NextGreeting == IInv /\ [Next]_vars => Greeting'
<1> SUFFICES ASSUME IInv, [Next]_vars PROVE Greeting'
  OBVIOUS
<1> USE DEF IInv, Goto
<1>1. CASE SendRegistered /\ UNCHANGED <<stage, routed>>
  <2>1. hubArg \in Conns /\ log[hubArg] = <<>> /\ hubPC = "sendRegistered"
    BY <1>1, HubArgType DEF SendRegistered, Greeting
  <2>2. Len(log'[hubArg]) = 1
    <3>1. log'[hubArg] = Append(log[hubArg], ServerMsg("peer_registered", {hubArg}))
      BY <1>1, <2>1, SendBlockingGrows DEF SendRegistered
    <3> QED  BY <2>1, <3>1, AppendLen DEF TypeOK
  <2> QED  BY <1>1, <2>2 DEF SendRegistered, Greeting
<1>2. CASE (SendPeerList \/ BroadcastJoined \/ SendError) /\ UNCHANGED <<stage, routed>>
  BY <1>2 DEF SendPeerList, BroadcastJoined, SendError, Greeting
<1>3. ASSUME NEW c \in Conns, Register(c) PROVE Greeting'
  BY <1>3 DEF Register, HandleRegister, Backlog, Greeting
<1>4. ASSUME NEW c \in Conns, Unregister(c) PROVE Greeting'
  BY <1>4 DEF Unregister, HandleUnregister, Greeting
<1>5. ASSUME NEW c \in Conns, NEW to \in Dests, Broadcast(c, to) PROVE Greeting'
  BY <1>5 DEF Broadcast, HandleBroadcast, ForwardTo, TargetNotFound, ForwardToAll, Greeting
<1>6. ASSUME NEW c \in Conns, Take(c) PROVE Greeting'
  BY <1>6 DEF Take, Greeting
<1>7. CASE UNCHANGED vars
  BY <1>7 DEF vars, Greeting
<1> QED  BY <1>1, <1>2, <1>3, <1>4, <1>5, <1>6, <1>7 DEF Next, HubStep

\* The invariant holds in every reachable state of the hub.
THEOREM Invariance == Spec => []IInv
<1>1. IInv /\ [Next]_vars => IInv'
  BY NextType, NextBusy, NextMembership, NextBacklog, NextGreeting DEF IInv
<1> QED  BY InitIInv, <1>1, PTL DEF Spec

(***************************************************************************)
(* Every variable of the hub keeps its type; in particular what is put in  *)
(* a channel is one of the messages of internal/signaling/message.go.      *)
(***************************************************************************)
THEOREM TypeCorrect == Spec => []TypeOK
BY Invariance, PTL DEF IInv

(***************************************************************************)
(* The hub never sends on a closed channel and never closes one twice      *)
(* (hub.go, handleRegister, handleUnregister and handleBroadcast).         *)
(***************************************************************************)
THEOREM NeverSendsOnClosed == Spec => []NoSendOnClosed
<1>1. IInv => NoSendOnClosed
  BY DEF IInv, Busy, Membership, NoSendOnClosed
<1> QED  BY Invariance, <1>1, PTL

(***************************************************************************)
(* The blocking sends of handleRegister and sendPeerList (hub.go) find     *)
(* room, as long as a channel has room for the two messages of the         *)
(* handshake.                                                              *)
(***************************************************************************)
THEOREM RegistrationDoesNotBlock == Spec => []RegistrationNeverBlocks
<1>1. IInv => RegistrationNeverBlocks
  <2> SUFFICES ASSUME IInv, hubPC \in {"sendRegistered", "sendPeerList"}
               PROVE  ~Full(hubArg)
    BY DEF RegistrationNeverBlocks
  <2>1. hubArg \in Conns
    BY HubArgType DEF IInv
  <2>2. Len(log[hubArg]) \in {0, 1}
    <3>1. CASE log[hubArg] = <<>>
      BY <3>1
    <3>2. CASE Len(log[hubArg]) = 1
      BY <3>2
    <3> QED  BY <3>1, <3>2 DEF IInv, Greeting
  <2>3. taken[hubArg] \in Nat
    BY <2>1 DEF IInv, TypeOK
  <2>4. \A n \in {0, 1}, t \in Nat : ~(n - t >= SendCap)
    BY CapAssumption
  <2> QED  BY <2>2, <2>3, <2>4 DEF Full
<1> QED  BY Invariance, <1>1, PTL

-----------------------------------------------------------------------------
(* What a step may add to a channel.                                       *)

\* A message that is sent to a peer whose handshake is complete.
Later(c, m) ==
  /\ c \in peers
  /\ hubPC \notin {"sendRegistered", "sendPeerList"} \/ hubArg # c
  /\ m \in Message /\ m.type \notin {"peer_registered", "peer_list"}
  /\ m.type = "peer_joined" =>
       /\ hubPC = "broadcastJoined" /\ hubPC' = "select"
       /\ c # hubArg /\ m.about = {hubArg}
  /\ m.type = "peer_left" =>
       hubPC' = "select" /\ \E x \in Conns \ {c} : m.about = {x} /\ stage[x] = "in"
  /\ m.type = "signal" =>
       /\ hubPC = "select" /\ routed' = routed + 1 /\ routed < MaxMsgs
       /\ m \in SignalsTo(c, {routed'}) /\ stage[m.from] # "new"
  /\ m.type # "signal" => m \in FromServer(c)
  /\ \A x \in Conns : Announces(m, x) => stage'[x] = "in"
  /\ \A x \in Conns : Retracts(m, x) => stage'[x] = "out"

Growth(c) ==
  \/ log'[c] = log[c]
  \/ /\ hubPC = "sendRegistered" /\ c = hubArg
     /\ log'[c] = Append(log[c], ServerMsg("peer_registered", {c}))
  \/ /\ hubPC = "sendPeerList" /\ c = hubArg
     /\ log'[c] = Append(log[c], ServerMsg("peer_list", peers \ {c}))
  \/ \E m : Later(c, m) /\ log'[c] = Append(log[c], m)

LEMMA NextGrowth ==
  ASSUME IInv, [Next]_vars, NEW c \in Conns
  PROVE  Growth(c)
<1> USE DEF IInv, Goto
<1>1. CASE SendRegistered /\ UNCHANGED <<stage, routed>>
  <2>1. hubArg \in Conns /\ hubPC = "sendRegistered"
    BY <1>1, HubArgType DEF SendRegistered
  <2> QED  BY <1>1, <2>1, SendBlockingGrows DEF SendRegistered, Growth
<1>2. CASE SendPeerList /\ UNCHANGED <<stage, routed>>
  <2>1. hubArg \in Conns /\ hubPC = "sendPeerList"
    BY <1>2, HubArgType DEF SendPeerList
  <2> QED  BY <1>2, <2>1, SendBlockingGrows DEF SendPeerList, Growth
<1>3. CASE BroadcastJoined /\ UNCHANGED <<stage, routed>>
  <2> DEFINE m == ServerMsg("peer_joined", {hubArg})
  <2>1. hubArg \in peers /\ hubPC = "broadcastJoined" /\ hubPC' = "select"
    BY <1>3 DEF BroadcastJoined, Busy
  <2>2. stage'[hubArg] = "in" /\ hubArg \in Conns
    BY <1>3, <2>1 DEF Membership, TypeOK
  <2>3. m \in Message
    BY <2>2, ServerMsgType DEF MessageType
  <2>6. m \in FromServer(c)
    BY <2>2 DEF FromServer
  <2>4. c \in peers \ {hubArg} => Later(c, m)
    BY <2>1, <2>2, <2>3, <2>6 DEF Later, ServerMsg, Announces, Retracts
  <2>5. log'[c] = log[c] \/ (c \in peers \ {hubArg} /\ log'[c] = Append(log[c], m))
    BY <1>3, OfferGrows DEF BroadcastJoined
  <2> QED  BY <2>4, <2>5 DEF Growth
<1>4. CASE SendError /\ UNCHANGED <<stage, routed>>
  <2> DEFINE m == ErrorMsg(hubArg)
  <2>1. hubArg \in peers /\ hubArg \in Conns /\ hubPC = "sendError"
    BY <1>4, HubArgType DEF SendError, Busy
  <2>2. m \in Message
    BY <2>1 DEF ErrorMsg, Message, MessageType
  <2>5. m \in FromServer(hubArg)
    BY DEF FromServer
  <2>3. Later(hubArg, m)
    BY <2>1, <2>2, <2>5 DEF Later, ErrorMsg, Announces, Retracts
  <2>4. IF c = hubArg THEN log'[c] = Append(log[c], m) ELSE log'[c] = log[c]
    BY <1>4, <2>1, SendBlockingGrows DEF SendError
  <2> QED  BY <2>3, <2>4 DEF Growth
<1>5. ASSUME NEW d \in Conns, Register(d) PROVE Growth(c)
  BY <1>5 DEF Register, HandleRegister, Growth
<1>6. ASSUME NEW d \in Conns, Unregister(d) PROVE Growth(c)
  <2> DEFINE m == ServerMsg("peer_left", {d})
  <2>1. /\ hubPC = "select" /\ hubPC' = "select" /\ peers' = peers \ {d}
        /\ stage[d] = "in" /\ stage'[d] = "out"
    BY <1>6 DEF Unregister, HandleUnregister, TypeOK
  <2>2. m \in Message
    BY ServerMsgType DEF MessageType
  <2>5. m \in FromServer(c)
    BY DEF FromServer
  <2>3. c \in peers' => Later(c, m)
    BY <2>1, <2>2, <2>5 DEF Later, ServerMsg, Announces, Retracts
  <2>4. log'[c] = log[c] \/ (c \in peers' /\ log'[c] = Append(log[c], m))
    BY <1>6, OfferGrows DEF Unregister, HandleUnregister
  <2> QED  BY <2>3, <2>4 DEF Growth
<1>7. ASSUME NEW d \in Conns, NEW to \in Dests, Broadcast(d, to) PROVE Growth(c)
  <2> DEFINE m == SignalMsg(d, to, routed')
  <2>1. /\ hubPC = "select" /\ routed' = routed + 1 /\ routed' \in Nat
        /\ routed < MaxMsgs /\ stage[d] # "new"
    BY <1>7 DEF Broadcast, HandleBroadcast, TypeOK
  <2>2. m \in Message
    BY <2>1, ClientMsgType
  <2>5. to \in {c, None} => m \in SignalsTo(c, {routed'})
    BY DEF SignalMsg, SignalsTo
  <2>3. c \in peers /\ to \in {c, None} => Later(c, m)
    BY <2>1, <2>2, <2>5 DEF Later, SignalMsg, Announces, Retracts
  <2>4. \/ log'[c] = log[c]
        \/ c \in peers /\ to \in {c, None} /\ log'[c] = Append(log[c], m)
    <3>1. CASE ForwardTo(d, to, routed') \/ ForwardToAll(d, to, routed')
      BY <3>1, OfferGrows DEF ForwardTo, ForwardToAll
    <3>2. CASE TargetNotFound(d, to)
      BY <3>2 DEF TargetNotFound
    <3> QED  BY <1>7, <3>1, <3>2 DEF Broadcast, HandleBroadcast
  <2> QED  BY <2>3, <2>4 DEF Growth
<1>8. ASSUME NEW d \in Conns, Take(d) PROVE Growth(c)
  BY <1>8 DEF Take, Growth
<1>9. CASE UNCHANGED vars
  BY <1>9 DEF vars, Growth
<1> QED  BY <1>1, <1>2, <1>3, <1>4, <1>5, <1>6, <1>7, <1>8, <1>9 DEF Next, HubStep

-----------------------------------------------------------------------------
(* The handshake.                                                          *)

\* HandshakeFirst for the channel s of c.
Handshake(c, s) ==
  \A i \in 1..Len(s) :
    /\ s[i].type = "peer_registered" <=> i = 1
    /\ s[i].type = "peer_list" <=> i = 2
    /\ i = 1 => s[i].about = {c}

\* Outside its registration a registered peer has both messages.
Greeted ==
  \A c \in Conns :
    \/ stage[c] = "new"
    \/ c = hubArg /\ hubPC \in {"sendRegistered", "sendPeerList"}
    \/ Len(log[c]) >= 2

\* The three ways to continue a handshake.
LEMMA HandshakeAppend ==
  ASSUME NEW s \in Seq(Message), NEW m \in Message, NEW c, Handshake(c, s),
         \/ s = <<>> /\ m.type = "peer_registered" /\ m.about = {c}
         \/ Len(s) = 1 /\ m.type = "peer_list"
         \/ Len(s) >= 2 /\ m.type \notin {"peer_registered", "peer_list"}
  PROVE  Handshake(c, Append(s, m))
<1> DEFINE t == Append(s, m)
<1> SUFFICES ASSUME NEW i \in 1..Len(t)
             PROVE  /\ t[i].type = "peer_registered" <=> i = 1
                    /\ t[i].type = "peer_list" <=> i = 2
                    /\ i = 1 => t[i].about = {c}
  BY DEF Handshake
<1>1. Len(s) \in Nat /\ Len(t) = Len(s) + 1 /\ t[Len(s) + 1] = m
  BY AppendElements
<1>2. CASE i \in 1..Len(s)
  <2>1. t[i] = s[i]
    BY <1>2, AppendElements
  <2> QED  BY <1>2, <2>1 DEF Handshake
<1>3. CASE i = Len(s) + 1
  <2>1. t[i] = m
    BY <1>1, <1>3
  <2>2. CASE s = <<>> /\ m.type = "peer_registered" /\ m.about = {c}
    <3>1. i = 1
      BY <1>3, <2>2
    <3> QED  BY <2>1, <2>2, <3>1
  <2>3. CASE Len(s) = 1 /\ m.type = "peer_list"
    <3>1. i = 2
      BY <1>3, <2>3
    <3> QED  BY <2>1, <2>3, <3>1
  <2>4. CASE Len(s) >= 2 /\ m.type \notin {"peer_registered", "peer_list"}
    <3>1. i # 1 /\ i # 2
      BY <1>1, <1>3, <2>4
    <3> QED  BY <2>1, <2>4, <3>1
  <2> QED  BY <2>2, <2>3, <2>4
<1> QED  BY <1>1, <1>2, <1>3

HandshakeInv == (\A c \in Conns : Handshake(c, log[c])) /\ Greeted

LEMMA NextHandshake == IInv /\ HandshakeInv /\ [Next]_vars => HandshakeInv'
<1> SUFFICES ASSUME IInv, HandshakeInv, [Next]_vars PROVE HandshakeInv'
  OBVIOUS
<1>1. ASSUME NEW c \in Conns PROVE Handshake(c, log'[c])
  <2>0. log[c] \in Seq(Message) /\ Handshake(c, log[c])
    BY DEF IInv, TypeOK, HandshakeInv
  <2>1. CASE log'[c] = log[c]
    BY <2>0, <2>1
  <2>2. CASE /\ hubPC = "sendRegistered" /\ c = hubArg
             /\ log'[c] = Append(log[c], ServerMsg("peer_registered", {c}))
    <3> DEFINE m == ServerMsg("peer_registered", {c})
    <3>1. m \in Message /\ m.type = "peer_registered" /\ m.about = {c}
      BY ServerMsgType DEF ServerMsg, MessageType
    <3> HIDE DEF m
    <3> QED  BY <2>0, <2>2, <3>1, HandshakeAppend DEF IInv, Greeting, m
  <2>3. CASE /\ hubPC = "sendPeerList" /\ c = hubArg
             /\ log'[c] = Append(log[c], ServerMsg("peer_list", peers \ {c}))
    <3> DEFINE m == ServerMsg("peer_list", peers \ {c})
    <3>1. m \in Message /\ m.type = "peer_list"
      BY ServerMsgType DEF ServerMsg, MessageType, IInv, TypeOK
    <3> HIDE DEF m
    <3> QED  BY <2>0, <2>3, <3>1, HandshakeAppend DEF IInv, Greeting, m
  <2>4. CASE \E m : Later(c, m) /\ log'[c] = Append(log[c], m)
    <3>1. PICK m : Later(c, m) /\ log'[c] = Append(log[c], m)
      BY <2>4
    <3>2. m \in Message /\ m.type \notin {"peer_registered", "peer_list"}
      BY <3>1 DEF Later
    <3>3. Len(log[c]) >= 2
      BY <3>1 DEF Later, HandshakeInv, Greeted, IInv, Membership
    <3> QED  BY <2>0, <3>1, <3>2, <3>3, HandshakeAppend
  <2> QED  BY <2>1, <2>2, <2>3, <2>4, NextGrowth DEF Growth
<1>2. Greeted'
  <2> SUFFICES ASSUME NEW c \in Conns, stage'[c] # "new",
                      ~(c = hubArg' /\ hubPC' \in {"sendRegistered", "sendPeerList"})
               PROVE  Len(log'[c]) >= 2
    BY DEF Greeted
  <2>0. log[c] \in Seq(Message)
    BY DEF IInv, TypeOK
  <2>1. CASE Len(log[c]) >= 2
    <3>1. log'[c] = log[c] \/ \E m : log'[c] = Append(log[c], m)
      BY NextGrowth DEF Growth
    <3> QED  BY <2>0, <2>1, <3>1, AppendLen
  <2>2. CASE stage[c] = "new"
    <3>1. \E d \in Conns : Register(d) \/ Unregister(d)
      BY <2>2 DEF Next, vars, Broadcast, Take
    <3> QED  BY <2>2, <3>1
             DEF Register, Unregister, HandleRegister, Goto, IInv, TypeOK
  <2>3. CASE c = hubArg /\ hubPC = "sendRegistered"
    BY <2>3 DEF Next, vars, HubStep, SendRegistered, SendPeerList, BroadcastJoined,
                SendError, Register, HandleRegister, Unregister, HandleUnregister,
                Broadcast, HandleBroadcast, Take, Goto
  <2>4. CASE c = hubArg /\ hubPC = "sendPeerList"
    <3>1. SendPeerList
      BY <2>4 DEF Next, vars, HubStep, SendRegistered, SendPeerList, BroadcastJoined,
                  SendError, Register, HandleRegister, Unregister, HandleUnregister,
                  Broadcast, HandleBroadcast, Take, Goto
    <3>2. \E m : log'[c] = Append(log[c], m)
      BY <2>4, <3>1, SendBlockingGrows DEF SendPeerList, IInv
    <3>3. Len(log[c]) = 1
      BY <2>4 DEF IInv, Greeting
    <3> QED  BY <2>0, <3>2, <3>3, AppendLen
  <2> QED  BY <2>1, <2>2, <2>3, <2>4 DEF HandshakeInv, Greeted
<1> QED  BY <1>1, <1>2 DEF HandshakeInv

LEMMA HandshakeInvariance == Spec => []HandshakeInv
<1>1. Init => HandshakeInv
  BY DEF Init, HubInit, HandshakeInv, Handshake, Greeted
<1> QED  BY Invariance, NextHandshake, <1>1, PTL DEF Spec

(***************************************************************************)
(* A client learns its ID first and the list of the others second          *)
(* (handleRegister, sendPeerList), whatever else is sent meanwhile.        *)
(***************************************************************************)
THEOREM HandshakeIsFirst == Spec => []HandshakeFirst
<1>1. HandshakeInv => HandshakeFirst
  BY DEF HandshakeInv, Handshake, HandshakeFirst
<1> QED  BY HandshakeInvariance, <1>1, PTL

-----------------------------------------------------------------------------
(* Nobody comes back.                                                      *)

\* Only peers that have left are said to have left.
RetractsGone ==
  \A c, x \in Conns : \A i \in 1..Len(log[c]) :
    Retracts(log[c][i], x) => stage[x] = "out"

\* A peer that has left stays out.
LEMMA OutForEver ==
  ASSUME IInv, [Next]_vars, NEW x \in Conns, stage[x] = "out"
  PROVE  stage'[x] = "out"
<1>1. CASE UNCHANGED stage
  BY <1>1
<1>2. ASSUME NEW c \in Conns, Register(c) \/ Unregister(c) PROVE stage'[x] = "out"
  BY <1>2 DEF Register, Unregister, IInv, TypeOK
<1> QED  BY <1>1, <1>2 DEF Next, vars, Broadcast, Take

\* What is added announces only peers of the map and retracts only peers that
\* have just left it.
LEMMA GrowthMeaning ==
  ASSUME IInv, [Next]_vars, NEW c \in Conns, log'[c] # log[c]
  PROVE  \E m \in Message :
           /\ log'[c] = Append(log[c], m)
           /\ \A x \in Conns : Announces(m, x) => stage'[x] = "in"
           /\ \A x \in Conns : Retracts(m, x) => stage'[x] = "out"
<1>1. CASE /\ hubPC = "sendRegistered" /\ c = hubArg
           /\ log'[c] = Append(log[c], ServerMsg("peer_registered", {c}))
  <2> DEFINE m == ServerMsg("peer_registered", {c})
  <2>1. m \in Message
    BY ServerMsgType DEF MessageType
  <2>2. \A x \in Conns : ~Announces(m, x) /\ ~Retracts(m, x)
    BY DEF ServerMsg, Announces, Retracts
  <2> QED  BY <1>1, <2>1, <2>2
<1>2. CASE /\ hubPC = "sendPeerList" /\ c = hubArg
           /\ log'[c] = Append(log[c], ServerMsg("peer_list", peers \ {c}))
  <2> DEFINE m == ServerMsg("peer_list", peers \ {c})
  <2>1. m \in Message
    BY ServerMsgType DEF MessageType, IInv, TypeOK
  <2>2. UNCHANGED stage
    BY <1>2 DEF Next, vars, HubStep, Register, HandleRegister, Unregister,
                HandleUnregister, Broadcast, Take
  <2>3. \A x \in Conns : Announces(m, x) => stage'[x] = "in"
    BY <2>2 DEF ServerMsg, Announces, IInv, Membership
  <2>4. \A x \in Conns : ~Retracts(m, x)
    BY DEF ServerMsg, Retracts
  <2> QED  BY <1>2, <2>1, <2>3, <2>4
<1>3. CASE \E m : Later(c, m) /\ log'[c] = Append(log[c], m)
  BY <1>3 DEF Later
<1> QED  BY <1>1, <1>2, <1>3, NextGrowth DEF Growth

LEMMA NextRetractsGone == IInv /\ RetractsGone /\ [Next]_vars => RetractsGone'
<1> SUFFICES ASSUME IInv, RetractsGone, [Next]_vars, NEW c \in Conns, NEW x \in Conns,
                    NEW i \in 1..Len(log'[c]), Retracts(log'[c][i], x)
             PROVE  stage'[x] = "out"
  BY DEF RetractsGone
<1>0. log[c] \in Seq(Message)
  BY DEF IInv, TypeOK
<1>1. CASE log'[c] = log[c]
  BY <1>1, OutForEver DEF RetractsGone
<1>2. CASE log'[c] # log[c]
  <2>1. PICK m \in Message :
           /\ log'[c] = Append(log[c], m)
           /\ \A y \in Conns : Retracts(m, y) => stage'[y] = "out"
    BY <1>2, GrowthMeaning
  <2>2. CASE i \in 1..Len(log[c])
    <3>1. log'[c][i] = log[c][i]
      BY <1>0, <2>1, <2>2, AppendElements
    <3> QED  BY <2>2, <3>1, OutForEver DEF RetractsGone
  <2>3. CASE i = Len(log[c]) + 1
    <3>1. log'[c][i] = m
      BY <1>0, <2>1, <2>3, AppendElements
    <3> QED  BY <2>1, <3>1
  <2> QED  BY <1>0, <2>1, <2>2, <2>3, AppendElements
<1> QED  BY <1>1, <1>2

LEMMA NextNoResurrection ==
  IInv /\ RetractsGone /\ NoResurrection /\ [Next]_vars => NoResurrection'
<1> SUFFICES ASSUME IInv, RetractsGone, NoResurrection, [Next]_vars,
                    NEW c \in Conns, NEW x \in Conns,
                    NEW i \in 1..Len(log'[c]), NEW j \in 1..Len(log'[c]),
                    Retracts(log'[c][i], x), Announces(log'[c][j], x)
             PROVE  j < i
  BY DEF NoResurrection
<1>0. log[c] \in Seq(Message)
  BY DEF IInv, TypeOK
<1>1. CASE log'[c] = log[c]
  BY <1>1 DEF NoResurrection
<1>2. CASE log'[c] # log[c]
  <2>1. PICK m \in Message :
           /\ log'[c] = Append(log[c], m)
           /\ \A y \in Conns : Announces(m, y) => stage'[y] = "in"
           /\ \A y \in Conns : Retracts(m, y) => stage'[y] = "out"
    BY <1>2, GrowthMeaning
  <2>2. /\ Len(log'[c]) = Len(log[c]) + 1
        /\ \A k \in 1..Len(log[c]) : log'[c][k] = log[c][k]
        /\ log'[c][Len(log[c]) + 1] = m
    BY <1>0, <2>1, AppendElements
  <2>3. CASE i \in 1..Len(log[c]) /\ j \in 1..Len(log[c])
    BY <2>2, <2>3 DEF NoResurrection
  <2>4. CASE i \in 1..Len(log[c]) /\ j = Len(log[c]) + 1
    <3>1. stage'[x] = "in"
      BY <2>1, <2>2, <2>4
    <3>2. stage'[x] = "out"
      BY <2>2, <2>4, OutForEver DEF RetractsGone
    <3> QED  BY <3>1, <3>2
  <2>5. CASE i = Len(log[c]) + 1 /\ j \in 1..Len(log[c])
    BY <1>0, <2>5
  <2>6. CASE i = Len(log[c]) + 1 /\ j = Len(log[c]) + 1
    <3>1. Retracts(m, x) /\ Announces(m, x)
      BY <2>2, <2>6
    <3> QED  BY <3>1 DEF Retracts, Announces
  <2> QED  BY <1>0, <2>2, <2>3, <2>4, <2>5, <2>6
<1> QED  BY <1>1, <1>2

LEMMA RetractsInvariance == Spec => []RetractsGone
<1>1. Init => RetractsGone
  BY DEF Init, HubInit, RetractsGone
<1> QED  BY Invariance, NextRetractsGone, <1>1, PTL DEF Spec

(***************************************************************************)
(* However many announcements are dropped, no client is sent a peer_joined *)
(* or peer_list that contains x after it was sent peer_left(x):            *)
(* handleUnregister never interrupts a handleRegister.                     *)
(***************************************************************************)
THEOREM NobodyIsResurrected == Spec => []NoResurrection
<1>1. Init => NoResurrection
  BY DEF Init, HubInit, NoResurrection
<1> QED  BY Invariance, RetractsInvariance, NextNoResurrection, <1>1, PTL DEF Spec
=============================================================================
