--------------------------- MODULE SignalingProofs ---------------------------
(***************************************************************************)
(* Proofs about a client behind the hub, for any number of connections,    *)
(* any capacity of at least two and any application: what modules          *)
(* ChannelProofs and ClientProofs show of the two holds of them together,  *)
(* because the hub sends what the client assumes, and what the client has  *)
(* read is a prefix of what it was sent.                                   *)
(***************************************************************************)
EXTENDS Signaling, MessageProofs

HP == INSTANCE ChannelProofs WITH peers <- registered
CP == INSTANCE ClientProofs

-----------------------------------------------------------------------------
(* H and HP are instances of the same definitions, and so are C and CP.    *)

LEMMA SameMessages ==
  /\ HP!Message = Message /\ CP!Message = Message
  /\ \A c : HP!FromServer(c) = FromServer(c) /\ C!FromServer(c) = FromServer(c)
  /\ \A c, N : HP!SignalsTo(c, N) = SignalsTo(c, N)
  /\ \A m, x : (HP!Announces(m, x) <=> Announces(m, x))
               /\ (HP!Retracts(m, x) <=> Retracts(m, x))
BY DEF HP!Message, CP!Message, Message, HP!MessageType, CP!MessageType, MessageType,
       HP!FromServer, C!FromServer, FromServer, HP!SignalsTo, SignalsTo,
       HP!ServerMsg, C!ServerMsg, ServerMsg, HP!ErrorMsg, C!ErrorMsg, ErrorMsg,
       HP!Announces, Announces, HP!Retracts, Retracts

LEMMA SameBelieves ==
  /\ \A s, x : HP!Believes(s, x) <=> Believes(s, x)
  /\ \A s, x : CP!Believes(s, x) <=> Believes(s, x)
BY DEF HP!Believes, CP!Believes, Believes, HP!Announces, CP!Announces, Announces,
       HP!Retracts, CP!Retracts, Retracts

LEMMA SameMayFollow ==
  \A s, c, m : HP!MayFollow(s, c, m) <=> C!MayFollow(s, c, m)
BY DEF HP!MayFollow, C!MayFollow, HP!Heard, C!Heard, HP!HeardLeft, C!HeardLeft,
       HP!Announces, C!Announces, HP!Retracts, C!Retracts

LEMMA SameHub ==
  /\ HP!Init <=> H!Init
  /\ [HP!Next]_HP!vars <=> [H!Next]_H!vars
  /\ HP!Settled = H!Settled
BY DEF HP!Init, H!Init, HP!HubInit, H!HubInit,
       HP!Next, H!Next, HP!vars, H!vars, HP!HubStep, H!HubStep,
       HP!SendRegistered, H!SendRegistered, HP!SendPeerList, H!SendPeerList,
       HP!BroadcastJoined, H!BroadcastJoined, HP!SendError, H!SendError,
       HP!Register, H!Register, HP!HandleRegister, H!HandleRegister,
       HP!Unregister, H!Unregister, HP!HandleUnregister, H!HandleUnregister,
       HP!Broadcast, H!Broadcast, HP!HandleBroadcast, H!HandleBroadcast,
       HP!ForwardTo, H!ForwardTo, HP!TargetNotFound, H!TargetNotFound,
       HP!ForwardToAll, H!ForwardToAll, HP!Take, H!Take, HP!Receive, H!Receive,
       HP!Goto, H!Goto, HP!Offer, H!Offer, HP!SendBlocking, H!SendBlocking,
       HP!Full, H!Full, HP!ServerMsg, H!ServerMsg, HP!SignalMsg, H!SignalMsg,
       HP!ErrorMsg, H!ErrorMsg, HP!Settled, H!Settled

LEMMA SameClient ==
  /\ CP!Init <=> C!Init
  /\ [CP!Next]_CP!vars <=> [C!Next]_C!vars
<1>1. CP!Init <=> C!Init
  BY DEF CP!Init, C!Init, CP!Threads, C!Threads
<1>2. CP!Threads = C!Threads /\ CP!Methods = C!Methods
  BY DEF CP!Threads, C!Threads, CP!Methods, C!Methods
<1>3. CP!Read <=> C!Read
  BY DEF CP!Read, C!Read, CP!Receive, C!Receive, CP!FromServer, C!FromServer,
         CP!ServerMsg, C!ServerMsg, CP!ErrorMsg, C!ErrorMsg,
         CP!MayFollow, C!MayFollow, CP!Heard, C!Heard, CP!HeardLeft, C!HeardLeft,
         CP!Announces, C!Announces, CP!Retracts, C!Retracts,
         CP!connVars, C!connVars, CP!pingVars, C!pingVars,
         CP!appVars, C!appVars, CP!callVars, C!callVars
<1>4. CP!ReadPump <=> C!ReadPump
  BY DEF CP!ReadPump, C!ReadPump, CP!CheckContext, C!CheckContext, CP!Ends, C!Ends,
         CP!ReadFails, C!ReadFails, CP!Handle, C!Handle,
         CP!HandleRegistered, C!HandleRegistered, CP!HandlePeerEvent, C!HandlePeerEvent,
         CP!HandleSignal, C!HandleSignal, CP!HandleError, C!HandleError,
         CP!HandlerReturns, C!HandlerReturns, CP!Handling, C!Handling,
         CP!Subject, C!Subject, CP!connVars, C!connVars, CP!pingVars, C!pingVars,
         CP!appVars, C!appVars, CP!callVars, C!callVars
<1>5. CP!WritePump <=> C!WritePump
  BY DEF CP!WritePump, C!WritePump, CP!PingerStops, C!PingerStops, CP!Tick, C!Tick,
         CP!PingStarts, C!PingStarts, CP!PingEnds, C!PingEnds, CP!connVars, C!connVars,
         CP!pumpVars, C!pumpVars, CP!appVars, C!appVars, CP!callVars, C!callVars
<1>6. \A t, o : CP!Call(t, o) <=> C!Call(t, o)
  BY DEF CP!Call, C!Call, CP!MayCall, C!MayCall, CP!connVars, C!connVars,
         CP!pumpVars, C!pumpVars, CP!pingVars, C!pingVars, CP!appVars, C!appVars
<1>7. \A t : CP!Proceed(t) <=> C!Proceed(t)
  BY DEF CP!Proceed, C!Proceed, CP!Step, C!Step, CP!CloseCancels, C!CloseCancels,
         CP!CloseConn, C!CloseConn, CP!CloseReturns, C!CloseReturns,
         CP!SendStarts, C!SendStarts, CP!SendEnds, C!SendEnds, CP!Peers, C!Peers,
         CP!OnSignal, C!OnSignal, CP!OnPeerEvent, C!OnPeerEvent,
         CP!connVars, C!connVars, CP!pumpVars, C!pumpVars, CP!pingVars, C!pingVars,
         CP!appVars, C!appVars
<1>8. CP!Next <=> C!Next
  <2>1. ASSUME NEW t
        PROVE  CP!Proceed(t) \/ (\E o \in CP!Methods : CP!Call(t, o)) <=>
                 C!Proceed(t) \/ (\E o \in C!Methods : C!Call(t, o))
    BY <1>2, <1>6, <1>7
  <2> QED  BY <1>2, <1>3, <1>4, <1>5, <2>1 DEF CP!Next, C!Next, CP!Local, C!Local
<1>9. UNCHANGED CP!vars <=> UNCHANGED C!vars
  BY DEF CP!vars, C!vars, CP!connVars, C!connVars, CP!pumpVars, C!pumpVars,
         CP!pingVars, C!pingVars, CP!appVars, C!appVars, CP!callVars, C!callVars
<1> QED  BY <1>1, <1>8, <1>9

-----------------------------------------------------------------------------
(* The hub in the composition is the hub of module Hub.                    *)

LEMMA HubNext == [Next]_vars => [HP!Next]_HP!vars
<1> SUFFICES ASSUME [Next]_vars PROVE [H!Next]_H!vars
  BY SameHub
<1>1. UNCHANGED hubVars => UNCHANGED H!vars
  BY DEF hubVars, H!vars
<1> QED  BY <1>1 DEF Next, Receive, vars

LEMMA HubInSignaling == Spec => HP!Spec
<1>1. Init => HP!Init
  BY SameHub DEF Init
<1> QED  BY <1>1, HubNext, PTL DEF Spec, HP!Spec

\* What is used of the hub.
HubFacts ==
  /\ HP!IInv /\ HP!RetractsGone /\ HP!RosterExact /\ HP!SignalsInOrder
  /\ HP!FeedsClients /\ HP!WellFormed /\ HP!SendersKnown

LEMMA HubHolds == Spec => []HubFacts
BY HubInSignaling, HubAssumption, NoneAssumption, HP!Invariance, HP!RetractsInvariance,
   HP!RosterIsExact, HP!SignalsStayInOrder, HP!HubFeedsClients,
   HP!SendersKnownInvariance, PTL DEF HubFacts

-----------------------------------------------------------------------------
(* What the client has read is the beginning of what it was sent.          *)

\* The socket and the two pumps deliver in order, and nothing that was not sent.
Delivered ==
  /\ seen \in Seq(Message)
  /\ Len(seen) <= taken[Me]
  /\ IsPrefix(seen, log[Me])

\* The channel of the client, and how much of it was taken.
LEMMA Channel ==
  ASSUME HubFacts
  PROVE  /\ log[Me] \in Seq(Message) /\ taken[Me] \in Nat /\ Len(log[Me]) \in Nat
         /\ taken[Me] <= Len(log[Me])
<1>1. HP!TypeOK /\ HP!Backlog
  BY DEF HubFacts, HP!IInv
<1>2. log[Me] \in Seq(HP!Message) /\ taken[Me] \in Nat /\ taken[Me] <= Len(log[Me])
  BY <1>1, ClientAssumption DEF HP!TypeOK, HP!Backlog
<1> QED  BY <1>2, SameMessages

\* The hub only adds to the channel and the write pump only takes more of it.
LEMMA ChannelGrows ==
  ASSUME HubFacts, H!Next
  PROVE  taken[Me] <= taken'[Me] /\ IsPrefix(log[Me], log'[Me])
<1>1. [HP!Next]_HP!vars /\ HP!IInv /\ HP!TypeOK
  BY SameHub DEF HubFacts, HP!IInv
<1>2. HP!Growth(Me)
  BY <1>1, HP!NextGrowth, HubAssumption, NoneAssumption, ClientAssumption
<1>3. log[Me] \in Seq(Message)
  BY Channel
<1>4. log'[Me] = log[Me] \/ \E m \in Message : log'[Me] = Append(log[Me], m)
  BY <1>1, <1>2, HP!SignalGrowth, HubAssumption, NoneAssumption, ClientAssumption,
     SameMessages
<1>5. IsPrefix(log[Me], log'[Me])
  BY <1>3, <1>4, AppendElements DEF IsPrefix
<1>6. taken[Me] <= taken'[Me]
  <2>1. taken[Me] \in Nat /\ taken \in [Conns -> Nat]
    BY <1>1, ClientAssumption DEF HP!TypeOK
  <2>2. ASSUME NEW c \in Conns, HP!Take(c) PROVE taken[Me] <= taken'[Me]
    BY <2>1, <2>2, ClientAssumption DEF HP!Take, HP!Receive
  <2>3. taken' = taken => taken[Me] <= taken'[Me]
    BY <2>1
  <2>4. taken' = taken \/ \E c \in Conns : HP!Take(c)
    BY <1>1
       DEF HP!Next, HP!vars, HP!HubStep, HP!SendRegistered, HP!SendPeerList,
           HP!BroadcastJoined, HP!SendError, HP!Register, HP!HandleRegister,
           HP!Unregister, HP!HandleUnregister, HP!Broadcast, HP!HandleBroadcast
  <2> QED  BY <2>2, <2>3, <2>4
<1> QED  BY <1>5, <1>6

\* Only a read adds to what was read.
LEMMA LocalKeepsSeen == C!Local => UNCHANGED seen
<1>1. C!ReadPump => UNCHANGED seen
  BY DEF C!ReadPump, C!CheckContext, C!ReadFails, C!Handle, C!HandleRegistered,
         C!HandlePeerEvent, C!HandleSignal, C!HandleError, C!HandlerReturns
<1>2. C!WritePump => UNCHANGED seen
  BY DEF C!WritePump, C!PingerStops, C!Tick, C!PingStarts, C!PingEnds, C!pumpVars
<1>3. ASSUME NEW t, C!Proceed(t) \/ \E o \in C!Methods : C!Call(t, o)
      PROVE  UNCHANGED seen
  BY <1>3 DEF C!Proceed, C!Call, C!CloseCancels, C!CloseConn, C!CloseReturns,
              C!SendStarts, C!SendEnds, C!Peers, C!OnSignal, C!OnPeerEvent, C!pumpVars
<1> QED  BY <1>1, <1>2, <1>3 DEF C!Local

\* The message that is received next was sent.
LEMMA NextMessage ==
  ASSUME HubFacts, Delivered, Receive
  PROVE  /\ Len(seen) \in Nat /\ Len(seen) + 1 \in 1..Len(log[Me])
         /\ log[Me][Len(seen) + 1] \in Message
         /\ seen' = Append(seen, log[Me][Len(seen) + 1])
         /\ UNCHANGED <<log, taken>>
<1>1. Len(seen) \in Nat /\ Len(seen) < taken[Me]
  BY DEF Delivered, Receive
<1>2. Len(seen) + 1 \in 1..Len(log[Me])
  BY <1>1, Channel
<1>3. log[Me][Len(seen) + 1] \in Message
  BY <1>2, Channel
<1> QED  BY <1>1, <1>2, <1>3 DEF Receive, C!Receive, hubVars

LEMMA NextDelivered == HubFacts /\ Delivered /\ [Next]_vars => Delivered'
<1> SUFFICES ASSUME HubFacts, Delivered, [Next]_vars PROVE Delivered'
  OBVIOUS
<1>0. /\ seen \in Seq(Message) /\ Len(seen) \in Nat /\ Len(seen) <= taken[Me]
      /\ IsPrefix(seen, log[Me])
  BY DEF Delivered
<1>1. CASE H!Next /\ UNCHANGED clientVars
  <2>1. taken[Me] <= taken'[Me] /\ IsPrefix(log[Me], log'[Me]) /\ seen' = seen
    BY <1>1, ChannelGrows DEF clientVars
  <2>2. taken'[Me] \in Nat
    <3>1. HP!TypeOK /\ HP!Busy /\ [HP!Next]_HP!vars
      BY <1>1, SameHub DEF HubFacts, HP!IInv
    <3>2. HP!TypeOK'
      BY <3>1, HP!NextType, HubAssumption, NoneAssumption
    <3> QED  BY <3>2, ClientAssumption DEF HP!TypeOK
  <2>3. Len(seen) <= taken'[Me]
    BY <1>0, <2>1, <2>2, Channel
  <2>4. IsPrefix(seen, log'[Me])
    <3>1. Len(log[Me]) \in Nat /\ Len(log[Me]) <= Len(log'[Me])
      BY <2>1, Channel DEF IsPrefix
    <3>2. \A i \in 1..Len(seen) : i \in 1..Len(log[Me])
      BY <1>0, <3>1 DEF IsPrefix
    <3> QED  BY <1>0, <2>1, <3>1, <3>2 DEF IsPrefix
  <2> QED  BY <1>0, <2>1, <2>3, <2>4 DEF Delivered
<1>2. CASE Receive
  <2> DEFINE m == log[Me][Len(seen) + 1]
  <2>1. m \in Message /\ seen' = Append(seen, m) /\ UNCHANGED <<log, taken>>
        /\ Len(seen) + 1 \in 1..Len(log[Me])
    BY <1>2, NextMessage
  <2>2. Len(seen) + 1 <= taken[Me]
    BY <1>0, <1>2, Channel DEF Receive
  <2>3. m = log[Me][Len(seen) + 1]
    OBVIOUS
  <2> HIDE DEF m
  <2>4. /\ Append(seen, m) \in Seq(Message) /\ Len(Append(seen, m)) = Len(seen) + 1
        /\ \A i \in 1..Len(seen) : Append(seen, m)[i] = seen[i]
        /\ Append(seen, m)[Len(seen) + 1] = m
    BY <1>0, <2>1, AppendElements
  <2>5. IsPrefix(Append(seen, m), log[Me])
    BY <1>0, <2>1, <2>3, <2>4, Channel DEF IsPrefix
  <2> QED  BY <2>1, <2>2, <2>4, <2>5 DEF Delivered
<1>3. CASE UNCHANGED <<seen, log, taken>>
  BY <1>3 DEF Delivered
<1> QED  BY <1>1, <1>2, <1>3, LocalKeepsSeen DEF Next, vars, hubVars, clientVars

LEMMA DeliveredInvariance == Spec => [](HubFacts /\ Delivered)
<1>1. Init => Delivered
  <2>1. Init => seen = <<>> /\ taken[Me] = 0
    BY ClientAssumption DEF Init, C!Init, H!Init, H!HubInit
  <2>2. Init => log[Me] = <<>>
    BY ClientAssumption DEF Init, H!Init, H!HubInit
  <2> QED  BY <2>1, <2>2 DEF Delivered, IsPrefix
<1> QED  BY <1>1, HubHolds, NextDelivered, PTL DEF Spec

-----------------------------------------------------------------------------
(* The client in the composition is the client of module Client.           *)

\* What the hub sends is what module Client says may be read next.
LEMMA ReceiveIsRead ==
  ASSUME HubFacts, Delivered, Receive
  PROVE  C!Read
<1> DEFINE m == log[Me][Len(seen) + 1]
<1>1. /\ Len(seen) \in Nat /\ Len(seen) + 1 \in 1..Len(log[Me]) /\ Me \in Conns
  BY NextMessage, ClientAssumption
<1>2. m \in C!FromServer(Me) \cup Signals
  BY <1>1, SameMessages DEF HubFacts, HP!WellFormed, Signals
<1>3. C!MayFollow(SubSeq(log[Me], 1, (Len(seen) + 1) - 1), Me, m)
  BY <1>1, SameMayFollow DEF HubFacts, HP!FeedsClients
<1>4. (Len(seen) + 1) - 1 = Len(seen)
  BY <1>1
<1>5. SubSeq(log[Me], 1, Len(seen)) = seen
  BY PrefixIsSubSeq, Channel DEF Delivered
<1>6. C!MayFollow(seen, Me, m)
  BY <1>3, <1>4, <1>5
<1>7. C!Receive(m)
  BY DEF Receive
<1> QED  BY <1>2, <1>6, <1>7 DEF C!Read

(***************************************************************************)
(* A client behind the hub is a client of module Client: whatever joins,   *)
(* leaves, is routed or dropped, its reads get what module Client assumes  *)
(* (hub.go, handleRegister, handleUnregister, handleBroadcast).            *)
(***************************************************************************)
THEOREM ImplementsClient == Spec => ClientSpec
<1>1. Init => C!Init
  BY DEF Init
<1>2. HubFacts /\ Delivered /\ [Next]_vars => [C!Next]_C!vars
  <2>1. UNCHANGED clientVars => UNCHANGED C!vars
    BY DEF clientVars, C!vars, C!connVars, C!pumpVars, C!pingVars, C!appVars, C!callVars
  <2> QED  BY <2>1, ReceiveIsRead DEF Next, vars, C!Next
<1> QED  BY <1>1, <1>2, DeliveredInvariance, PTL DEF Spec, ClientSpec, C!Spec

\* What the other clients send is what module Client takes for a signal.
LEMMA SignalsAreMessages == \A m \in Signals : m \in Message /\ m.type = "signal"
BY ClientAssumption, HubAssumption DEF Signals, SignalsTo, Message, MessageType

LEMMA SameSignals == \A m \in Signals : m \in CP!Message /\ m.type = "signal"
BY SignalsAreMessages, SameMessages

\* What is used of the client.
ClientFacts == CP!PeersAreBelieved /\ CP!HandlesSignal

LEMMA ClientHolds == Spec => []ClientFacts
<1>1. Spec => CP!Spec
  BY ImplementsClient, SameClient, PTL DEF ClientSpec, C!Spec, CP!Spec
<1>2. SignalOps \subseteq CP!Methods /\ PeerOps \subseteq CP!Methods
  BY ClientAssumption DEF C!Methods, CP!Methods
<1> QED  BY <1>1, <1>2, CP!PeersFollowMessages, CP!HandlesSignalInvariance,
            ClientAssumption, NoneAssumption, SameSignals, PTL DEF ClientFacts

-----------------------------------------------------------------------------
(* What the two promise together.                                          *)

LEMMA LagsBehind == HubFacts /\ Delivered /\ ClientFacts => PeersLagBehind
<1> SUFFICES ASSUME HubFacts, Delivered, ClientFacts,
                    Me \in H!Settled, reader # "handle",
                    NEW x \in Conns \ missed[Me], ~UnderWay(x)
             PROVE  x \in peers <=> x \in H!Settled \ {Me}
  BY DEF PeersLagBehind
<1>1. x \in peers <=> Believes(seen, x)
  BY SameBelieves DEF ClientFacts, CP!PeersAreBelieved
<1>2. Believes(seen, x) <=> Believes(log[Me], x)
  BY BelievesPrefix, Channel DEF Delivered, UnderWay
<1>3. Believes(log[Me], x) <=> x \in H!Settled \ {Me}
  BY SameHub, SameBelieves DEF HubFacts, HP!RosterExact
<1> QED  BY <1>1, <1>2, <1>3

(***************************************************************************)
(* The peer map of a client (client.go, handlePeerEvent) differs from the  *)
(* hub's (hub.go, handleRegister, handleUnregister) only by peers about    *)
(* which a message is on its way or was dropped.                           *)
(***************************************************************************)
THEOREM PeersOnlyLagBehind == Spec => []PeersLagBehind
BY LagsBehind, DeliveredInvariance, ClientHolds, PTL

LEMMA ReadInOrder == HubFacts /\ Delivered => SignalsReadInOrder
<1> SUFFICES ASSUME HubFacts, Delivered,
                    NEW i \in 1..Len(seen), NEW j \in 1..Len(seen),
                    seen[i].type = "signal"
             PROVE  /\ seen[i].to \in {Me, None}
                    /\ i < j /\ seen[j].type = "signal" => seen[i].n < seen[j].n
  BY DEF SignalsReadInOrder
<1>1. Len(seen) \in Nat /\ Len(log[Me]) \in Nat /\ Len(seen) <= Len(log[Me])
  BY Channel DEF Delivered, IsPrefix
<1>2. /\ i \in 1..Len(log[Me]) /\ seen[i] = log[Me][i]
      /\ j \in 1..Len(log[Me]) /\ seen[j] = log[Me][j]
  BY <1>1 DEF Delivered, IsPrefix
<1> QED  BY <1>2, ClientAssumption DEF HubFacts, HP!SignalsInOrder

(***************************************************************************)
(* The signals that a client reads (websocket.go, readPump) are addressed  *)
(* to it or to everybody, and come in the order in which the hub received  *)
(* them (hub.go, handleBroadcast), none of them twice.                     *)
(***************************************************************************)
THEOREM SignalsAreReadInOrder == Spec => []SignalsReadInOrder
BY ReadInOrder, DeliveredInvariance, PTL

LEMMA ListedSender == HubFacts /\ Delivered /\ ClientFacts => SenderIsListed
<1> SUFFICES ASSUME HubFacts, Delivered, ClientFacts, reader = "inSignalHandler"
             PROVE  \/ seen[Len(seen)].from \in peers \cup missed[Me] \cup {Me}
                    \/ stage[seen[Len(seen)].from] = "out"
  BY DEF SenderIsListed
<1> DEFINE k == Len(seen)
           x == seen[k].from
<1>1. /\ seen \in Seq(Message) /\ k \in Nat /\ k \in 1..k /\ seen[k].type = "signal"
      /\ k <= Len(log[Me]) /\ Len(log[Me]) \in Nat
      /\ \A i \in 1..k : i \in 1..Len(log[Me]) /\ seen[i] = log[Me][i]
  <2>1. seen # <<>> /\ seen[k].type = "signal"
    BY DEF ClientFacts, CP!HandlesSignal
  <2>2. seen \in Seq(Message) /\ IsPrefix(seen, log[Me])
    BY DEF Delivered
  <2>3. k \in Nat /\ k # 0
    BY <2>1, <2>2
  <2> QED  BY <2>1, <2>2, <2>3, Channel DEF IsPrefix
<1> HIDE DEF k
<1>2. x \in Conns
  <2>1. log[Me][k] \in FromServer(Me) \cup SignalsTo(Me, 1..MaxMsgs)
    BY <1>1, ClientAssumption, SameMessages DEF HubFacts, HP!WellFormed
  <2>2. \A m \in FromServer(Me) : m.type # "signal"
    BY DEF FromServer, ServerMsg, ErrorMsg
  <2> QED  BY <1>1, <2>1, <2>2 DEF SignalsTo
<1>3. x \in {Me} \cup missed[Me] \/ stage[x] = "out" \/ HP!HeardBefore(Me, k, x)
  BY <1>1, ClientAssumption DEF HubFacts, HP!SendersKnown
<1>4. ASSUME HP!HeardBefore(Me, k, x), stage[x] # "out"
      PROVE  x \in peers
  <2>1. \A i \in 1..k : ~Retracts(seen[i], x)
    BY <1>1, <1>2, <1>4, ClientAssumption, SameMessages DEF HubFacts, HP!RetractsGone
  <2>2. PICK j \in 1..(k - 1) :
          HP!Announces(log[Me][j], x) \/ HP!Retracts(log[Me][j], x)
    BY <1>4 DEF HP!HeardBefore
  <2>3. j \in 1..k
    BY <1>1
  <2>4. Announces(seen[j], x)
    BY <1>1, <2>1, <2>2, <2>3, SameMessages
  <2>5. \A i \in (j + 1)..k : i \in 1..k
    BY <1>1, <2>3
  <2>6. Believes(seen, x)
    BY <2>1, <2>3, <2>4, <2>5 DEF Believes, k
  <2> QED  BY <1>2, <2>6, SameBelieves DEF ClientFacts, CP!PeersAreBelieved
<1> QED  BY <1>3, <1>4 DEF k

(***************************************************************************)
(* A signal handler (client.go, handleTransportMessage) is only called     *)
(* with the signal of a peer that Peers lists, apart from peers that have  *)
(* left and those whose announcement was dropped: Run in hub.go handles    *)
(* one request after the other, so that peer_joined goes out first.        *)
(***************************************************************************)
THEOREM SendersAreListed == Spec => []SenderIsListed
BY ListedSender, DeliveredInvariance, ClientHolds, PTL
=============================================================================
