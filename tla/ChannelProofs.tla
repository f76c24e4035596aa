---------------------------- MODULE ChannelProofs ----------------------------
(***************************************************************************)
(* Proofs of what every client's channel carries: who is there, so that    *)
(* the hub implements the directory of module Roster, signals in the order *)
(* of their arrival, and only messages that module Client expects.         *)
(***************************************************************************)
EXTENDS HubProofs, SequenceTheorems

-----------------------------------------------------------------------------
(* What the two ways of sending change of what clients believe.            *)

\* An offered message is believed by those whose channel has room.
LEMMA OfferBelief ==
  ASSUME TypeOK, NEW S, NEW m \in Message, Offer(S, m), NEW c \in Conns, NEW x \in Conns
  PROVE  /\ c \in S /\ ~Full(c) =>
              (Believes(log'[c], x) <=>
                 Announces(m, x) \/ (Believes(log[c], x) /\ ~Retracts(m, x)))
         /\ ~(c \in S /\ ~Full(c)) => log'[c] = log[c]
         /\ c \in S /\ Full(c) => missed'[c] = missed[c] \cup m.about
         /\ missed[c] \subseteq missed'[c]
<1>1. log[c] \in Seq(Message)
  BY DEF TypeOK
<1>2. c \in S /\ ~Full(c) => log'[c] = Append(log[c], m)
  BY DEF Offer
<1>3. ~(c \in S /\ ~Full(c)) => log'[c] = log[c]
  BY DEF Offer
<1>4. missed'[c] = IF c \in S /\ Full(c) THEN missed[c] \cup m.about ELSE missed[c]
  BY DEF Offer
<1> QED  BY <1>1, <1>2, <1>3, <1>4, BelievesAppend

\* A blocking send only changes what its receiver believes.
LEMMA SendBelief ==
  ASSUME TypeOK, NEW d \in Conns, NEW m \in Message, SendBlocking(d, m)
  PROVE  /\ \A c \in Conns \ {d} : log'[c] = log[c]
         /\ \A x \in Conns : Believes(log'[d], x) <=>
              Announces(m, x) \/ (Believes(log[d], x) /\ ~Retracts(m, x))
         /\ missed' = missed
<1>1. log[d] \in Seq(Message)
  BY DEF TypeOK
<1>2. log'[d] = Append(log[d], m) /\ \A c \in Conns \ {d} : log'[c] = log[c]
  BY SendBlockingGrows
<1>3. missed' = missed
  BY DEF SendBlocking
<1> QED  BY <1>1, <1>2, <1>3, BelievesAppend

\* Only these messages say anything about who is there.
LEMMA Meaning ==
  ASSUME NEW S \in SUBSET Conns, NEW x
  PROVE  /\ Announces(ServerMsg("peer_list", S), x) <=> x \in S
         /\ ~Retracts(ServerMsg("peer_list", S), x)
         /\ Announces(ServerMsg("peer_joined", S), x) <=> x \in S
         /\ ~Retracts(ServerMsg("peer_joined", S), x)
         /\ ~Announces(ServerMsg("peer_left", S), x)
         /\ Retracts(ServerMsg("peer_left", S), x) <=> x \in S
         /\ ~Announces(ServerMsg("peer_registered", S), x)
         /\ ~Retracts(ServerMsg("peer_registered", S), x)
         /\ \A c, to, n : ~Announces(SignalMsg(c, to, n), x)
                          /\ ~Retracts(SignalMsg(c, to, n), x)
         /\ \A c : ~Announces(ErrorMsg(c), x) /\ ~Retracts(ErrorMsg(c), x)
BY DEF Announces, Retracts, ServerMsg, SignalMsg, ErrorMsg

-----------------------------------------------------------------------------
(* The invariant.                                                          *)

\* After sendPeerList the new peer believes in all the others.
Told ==
  hubPC = "broadcastJoined" =>
    \A x \in Conns : Believes(log[hubArg], x) <=> x \in peers \ {hubArg}

\* Before it, in nobody.
LEMMA NotYetTold ==
  ASSUME IInv, HandshakeInv, hubPC = "sendPeerList", NEW x
  PROVE  ~Believes(log[hubArg], x)
<1>1. hubArg \in Conns /\ log[hubArg] \in Seq(Message) /\ Len(log[hubArg]) = 1
  BY HubArgType DEF IInv, TypeOK, Greeting
<1>2. Handshake(hubArg, log[hubArg])
  BY <1>1 DEF HandshakeInv
<1>3. log[hubArg][1].type = "peer_registered"
  BY <1>1, <1>2 DEF Handshake
<1> QED  BY <1>1, <1>3 DEF Believes, Announces

LEMMA NextTold == IInv /\ HandshakeInv /\ Told /\ [Next]_vars => Told'
<1> SUFFICES ASSUME IInv, HandshakeInv, Told, [Next]_vars, hubPC' = "broadcastJoined",
                    NEW x \in Conns
             PROVE  Believes(log'[hubArg'], x) <=> x \in peers' \ {hubArg'}
  BY DEF Told
<1> USE DEF IInv, Goto
<1>1. CASE SendPeerList /\ UNCHANGED <<stage, routed>>
  <2> DEFINE m == ServerMsg("peer_list", peers \ {hubArg})
  <2>1. hubArg \in Conns /\ hubPC = "sendPeerList" /\ UNCHANGED <<peers, hubArg>>
    BY <1>1, HubArgType DEF SendPeerList
  <2>2. m \in Message
    BY ServerMsgType DEF MessageType, TypeOK
  <2>3. Believes(log'[hubArg], x) <=>
          Announces(m, x) \/ (Believes(log[hubArg], x) /\ ~Retracts(m, x))
    BY <1>1, <2>1, <2>2, SendBelief DEF SendPeerList
  <2>4. Announces(m, x) <=> x \in peers \ {hubArg}
    BY Meaning DEF TypeOK
  <2> QED  BY <2>1, <2>3, <2>4, NotYetTold
<1>2. CASE UNCHANGED <<hubPC, hubArg, log, peers>>
  BY <1>2 DEF Told
<1>3. \/ SendPeerList /\ UNCHANGED <<stage, routed>>
      \/ UNCHANGED <<hubPC, hubArg, log, peers>>
  BY DEF Next, vars, HubStep, SendRegistered, BroadcastJoined, SendError, Register,
         HandleRegister, Unregister, HandleUnregister, Broadcast, HandleBroadcast,
         ForwardTo, ForwardToAll, TargetNotFound, Take
<1> QED  BY <1>1, <1>2, <1>3

-----------------------------------------------------------------------------
(* Steps that tell nobody anything: all but the announcement of a peer     *)
(* that joined and of one that left.                                       *)

Gone == {c \in Conns : stage[c] = "out"}

Quiet ==
  /\ Settled' = Settled /\ Gone' = Gone
  /\ \A c \in Settled, x \in Conns :
       /\ Believes(log'[c], x) <=> Believes(log[c], x)
       /\ missed[c] \subseteq missed'[c]

\* A message that is neither believed nor disbelieved changes no mind.
LEMMA OfferQuiet ==
  ASSUME TypeOK, NEW S, NEW m \in Message, Offer(S, m),
         \A x \in Conns : ~Announces(m, x) /\ ~Retracts(m, x),
         NEW c \in Conns, NEW x \in Conns
  PROVE  /\ Believes(log'[c], x) <=> Believes(log[c], x)
         /\ missed[c] \subseteq missed'[c]
<1>1. CASE c \in S /\ ~Full(c)
  BY <1>1, OfferBelief
<1>2. CASE ~(c \in S /\ ~Full(c))
  BY <1>2, OfferBelief
<1> QED  BY <1>1, <1>2

LEMMA QuietStep ==
  ASSUME IInv, [Next]_vars
  PROVE  \/ Quiet
         \/ BroadcastJoined /\ UNCHANGED stage
         \/ \E c \in Conns : Unregister(c)
<1> USE DEF IInv, Goto
<1>1. CASE (SendRegistered \/ SendPeerList) /\ UNCHANGED <<stage, routed>>
  <2>1. /\ hubPC \in {"sendRegistered", "sendPeerList"}
        /\ hubPC' \in {"sendPeerList", "broadcastJoined"}
        /\ UNCHANGED <<peers, hubArg, stage>> /\ hubArg \in Conns
    BY <1>1, HubArgType DEF SendRegistered, SendPeerList
  <2>2. \A c \in Settled : c \in Conns \ {hubArg}
    BY <2>1 DEF Settled, TypeOK
  <2>3. PICK m : SendBlocking(hubArg, m)
    BY <1>1 DEF SendRegistered, SendPeerList
  <2>4. missed' = missed /\ \A c \in Conns \ {hubArg} : log'[c] = log[c]
    BY <2>1, <2>3, SendBlockingGrows DEF SendBlocking
  <2> QED  BY <2>1, <2>2, <2>4 DEF Quiet, Settled, Gone
<1>2. CASE SendError /\ UNCHANGED <<stage, routed>>
  <2> DEFINE m == ErrorMsg(hubArg)
  <2>1. hubArg \in Conns /\ Settled = peers /\ Settled' = peers
    BY <1>2, HubArgType DEF SendError, Settled
  <2>2. m \in Message
    BY <2>1 DEF ErrorMsg, Message, MessageType
  <2>3. \A x : ~Announces(m, x) /\ ~Retracts(m, x)
    BY DEF ErrorMsg, Announces, Retracts
  <2>4. SendBlocking(hubArg, m)
    BY <1>2 DEF SendError
  <2> HIDE DEF m
  <2>5. /\ missed' = missed
        /\ \A c \in Conns, x \in Conns : Believes(log'[c], x) <=> Believes(log[c], x)
    BY <2>1, <2>2, <2>3, <2>4, SendBelief
  <2> QED  BY <1>2, <2>1, <2>5 DEF Quiet, Gone, TypeOK
<1>3. ASSUME NEW d \in Conns, Register(d) PROVE Quiet
  <2>1. /\ hubPC = "select" /\ hubPC' = "sendRegistered" /\ hubArg' = d
        /\ peers' = peers \cup {d} /\ UNCHANGED <<log, missed>>
    BY <1>3 DEF Register, HandleRegister
  <2>2. d \notin peers
    BY <1>3 DEF Register, Membership
  <2>3. Gone' = Gone
    BY <1>3 DEF Register, Gone, TypeOK
  <2> QED  BY <2>1, <2>2, <2>3 DEF Quiet, Settled
<1>4. ASSUME NEW d \in Conns, NEW to \in Dests, Broadcast(d, to) PROVE Quiet
  <2> DEFINE m == SignalMsg(d, to, routed')
  <2>1. /\ hubPC = "select" /\ routed' \in Nat /\ UNCHANGED <<peers, stage>>
        /\ hubPC' \in {"select", "sendError"}
    BY <1>4 DEF Broadcast, HandleBroadcast, ForwardTo, TargetNotFound, ForwardToAll, TypeOK
  <2>2. m \in Message
    BY <2>1, ClientMsgType
  <2>3. \A x : ~Announces(m, x) /\ ~Retracts(m, x)
    BY DEF SignalMsg, Announces, Retracts
  <2> HIDE DEF m
  <2>4. UNCHANGED <<log, missed>> \/ \E S : Offer(S, m)
    BY <1>4 DEF Broadcast, HandleBroadcast, ForwardTo, TargetNotFound, ForwardToAll, m
  <2>5. \A c \in Conns, x \in Conns :
          /\ Believes(log'[c], x) <=> Believes(log[c], x)
          /\ missed[c] \subseteq missed'[c]
    BY <2>2, <2>3, <2>4, OfferQuiet
  <2> QED  BY <2>1, <2>5 DEF Quiet, Settled, Gone, TypeOK
<1>5. CASE UNCHANGED <<peers, log, hubPC, hubArg, missed, stage>>
  BY <1>5 DEF Quiet, Settled, Gone
<1> QED  BY <1>1, <1>2, <1>3, <1>4, <1>5 DEF Next, vars, HubStep, Take

-----------------------------------------------------------------------------
(* The two steps that announce something.                                  *)

\* What the clients believe and have missed after peer_joined was broadcast.
LEMMA JoinedStep ==
  ASSUME IInv, Told, BroadcastJoined
  PROVE  /\ hubArg \in peers /\ hubPC = "broadcastJoined"
         /\ Settled = peers \ {hubArg} /\ Settled' = peers
         /\ \A x \in Conns : Believes(log'[hubArg], x) <=> x \in peers \ {hubArg}
         /\ \A c \in Settled, x \in Conns :
              /\ ~Full(c) => (Believes(log'[c], x) <=> x = hubArg \/ Believes(log[c], x))
              /\ Full(c) => /\ Believes(log'[c], x) <=> Believes(log[c], x)
                            /\ hubArg \in missed'[c]
              /\ missed[c] \subseteq missed'[c]
<1> DEFINE m == ServerMsg("peer_joined", {hubArg})
<1> USE DEF IInv, Goto
<1>1. hubPC = "broadcastJoined" /\ hubArg \in peers /\ hubArg \in Conns
  BY HubArgType DEF BroadcastJoined, Busy
<1>2. Settled = peers \ {hubArg} /\ Settled' = peers
  BY <1>1 DEF BroadcastJoined, Settled
<1>3. m \in Message /\ m.about = {hubArg}
  BY <1>1, ServerMsgType DEF MessageType, ServerMsg
<1>4. \A x : (Announces(m, x) <=> x = hubArg) /\ ~Retracts(m, x)
  BY DEF ServerMsg, Announces, Retracts
<1>5. Offer(Settled, m)
  BY <1>2 DEF BroadcastJoined
<1> HIDE DEF m
<1>6. log'[hubArg] = log[hubArg]
  BY <1>1, <1>2, <1>3, <1>5, OfferBelief
<1>7. \A x \in Conns : Believes(log'[hubArg], x) <=> x \in peers \ {hubArg}
  BY <1>1, <1>6 DEF Told
<1>8. ASSUME NEW c \in Settled, NEW x \in Conns
      PROVE  /\ ~Full(c) => (Believes(log'[c], x) <=> x = hubArg \/ Believes(log[c], x))
             /\ Full(c) => /\ Believes(log'[c], x) <=> Believes(log[c], x)
                           /\ hubArg \in missed'[c]
             /\ missed[c] \subseteq missed'[c]
  <2>1. c \in Conns
    BY <1>2 DEF TypeOK
  <2> QED  BY <1>3, <1>4, <1>5, <2>1, OfferBelief
<1> QED  BY <1>1, <1>2, <1>7, <1>8

\* The same after peer_left was.
LEMMA LeftStep ==
  ASSUME IInv, NEW d \in Conns, Unregister(d)
  PROVE  /\ d \in Settled /\ Settled' = Settled \ {d} /\ Gone' = Gone \cup {d}
         /\ hubPC' = "select"
         /\ \A c \in Settled', x \in Conns :
              /\ ~Full(c) => (Believes(log'[c], x) <=> x # d /\ Believes(log[c], x))
              /\ Full(c) => /\ Believes(log'[c], x) <=> Believes(log[c], x)
                            /\ d \in missed'[c]
              /\ missed[c] \subseteq missed'[c]
<1> DEFINE m == ServerMsg("peer_left", {d})
<1> USE DEF IInv
<1>1. /\ hubPC = "select" /\ hubPC' = "select" /\ peers' = peers \ {d}
      /\ stage[d] = "in" /\ stage' = [stage EXCEPT ![d] = "out"]
  BY DEF Unregister, HandleUnregister
<1>2. d \in peers /\ Settled = peers /\ Settled' = peers'
  BY <1>1 DEF Membership, Settled
<1>3. Gone' = Gone \cup {d}
  BY <1>1 DEF Gone, TypeOK
<1>4. m \in Message /\ m.about = {d}
  BY ServerMsgType DEF MessageType, ServerMsg
<1>5. \A x : (Retracts(m, x) <=> x = d) /\ ~Announces(m, x)
  BY DEF ServerMsg, Announces, Retracts
<1>6. Offer(Settled', m)
  BY <1>2 DEF Unregister, HandleUnregister
<1> HIDE DEF m
<1>7. ASSUME NEW c \in Settled', NEW x \in Conns
      PROVE  /\ ~Full(c) => (Believes(log'[c], x) <=> x # d /\ Believes(log[c], x))
             /\ Full(c) => /\ Believes(log'[c], x) <=> Believes(log[c], x)
                           /\ d \in missed'[c]
             /\ missed[c] \subseteq missed'[c]
  <2>1. c \in Conns
    BY <1>1, <1>2 DEF TypeOK
  <2> QED  BY <1>4, <1>5, <1>6, <2>1, OfferBelief
<1> QED  BY <1>1, <1>2, <1>3, <1>7

-----------------------------------------------------------------------------
(* The clients' view of the hub is exact.                                  *)

LEMMA NextRosterExact == IInv /\ Told /\ RosterExact /\ [Next]_vars => RosterExact'
<1> SUFFICES ASSUME IInv, Told, RosterExact, [Next]_vars,
                    NEW c \in Settled', NEW x \in Conns \ missed'[c]
             PROVE  Believes(log'[c], x) <=> x \in Settled' \ {c}
  BY DEF RosterExact
<1>1. CASE Quiet
  BY <1>1 DEF Quiet, RosterExact
<1>2. CASE BroadcastJoined
  <2>1. CASE c = hubArg
    BY <1>2, <2>1, JoinedStep
  <2>2. CASE c # hubArg
    <3>1. c \in Settled /\ x \notin missed[c]
      BY <1>2, <2>2, JoinedStep
    <3>2. Believes(log[c], x) <=> x \in Settled \ {c}
      BY <3>1 DEF RosterExact
    <3> QED  BY <1>2, <2>2, <3>1, <3>2, JoinedStep
  <2> QED  BY <2>1, <2>2
<1>3. ASSUME NEW d \in Conns, Unregister(d)
      PROVE  Believes(log'[c], x) <=> x \in Settled' \ {c}
  <2>1. c \in Settled /\ x \notin missed[c]
    BY <1>3, LeftStep
  <2>2. Believes(log[c], x) <=> x \in Settled \ {c}
    BY <2>1 DEF RosterExact
  <2> QED  BY <1>3, <2>1, <2>2, LeftStep
<1> QED  BY <1>1, <1>2, <1>3, QuietStep

LEMMA ToldInvariance == Spec => []Told
<1>1. Init => Told
  BY DEF Init, HubInit, Told
<1> QED  BY Invariance, HandshakeInvariance, NextTold, <1>1, PTL DEF Spec

(***************************************************************************)
(* Apart from announcements that found its channel full, every client has  *)
(* been told of exactly the peers that are registered (hub.go,             *)
(* handleRegister, sendPeerList, handleUnregister).                        *)
(***************************************************************************)
THEOREM RosterIsExact == Spec => []RosterExact
<1>1. Init => RosterExact
  BY DEF Init, HubInit, RosterExact, Settled
<1> QED  BY Invariance, ToldInvariance, NextRosterExact, <1>1, PTL DEF Spec

-----------------------------------------------------------------------------
(* The hub implements the directory.                                       *)

View == [c \in Conns |->
           IF c \in Settled THEN {x \in Conns : Believes(log[c], x)} ELSE {}]

LEMMA DirectoryInit == Init => Directory!Init
BY DEF Init, HubInit, Settled, Directory!Init

LEMMA DirectoryNext == IInv /\ Told /\ [Next]_vars => [Directory!Next]_(Directory!vars)
<1> SUFFICES ASSUME IInv, Told, [Next]_vars
             PROVE  Directory!Next \/ UNCHANGED <<Settled, Gone, View>>
  BY DEF Directory!vars, Gone, View
<1>1. CASE Quiet
  BY <1>1 DEF Quiet, View
<1>2. CASE BroadcastJoined /\ UNCHANGED stage
  <2> DEFINE heard == {c \in Settled : ~Full(c)}
  <2>1. /\ hubArg \in Conns /\ hubArg \notin Settled \cup Gone
        /\ Settled' = Settled \cup {hubArg} /\ Gone' = Gone
    BY <1>2, JoinedStep DEF IInv, TypeOK, Membership, Gone
  <2>2. View' = [d \in Conns |-> IF d = hubArg THEN Settled
                                 ELSE IF d \in heard THEN View[d] \cup {hubArg}
                                 ELSE View[d]]
    <3> SUFFICES ASSUME NEW d \in Conns
                 PROVE  View'[d] = IF d = hubArg THEN Settled
                                   ELSE IF d \in heard THEN View[d] \cup {hubArg}
                                   ELSE View[d]
      BY DEF View
    <3>0. Settled \subseteq Conns
      BY <1>2, JoinedStep DEF IInv, TypeOK
    <3>1. CASE d = hubArg
      BY <1>2, <2>1, <3>0, <3>1, JoinedStep DEF View
    <3>2. CASE d \in heard
      BY <1>2, <2>1, <3>2, JoinedStep DEF View
    <3>3. CASE d \in Settled \ heard
      BY <1>2, <2>1, <3>3, JoinedStep DEF View
    <3>4. CASE d \notin Settled \cup {hubArg}
      BY <2>1, <3>4 DEF View
    <3> QED  BY <2>1, <3>1, <3>2, <3>3, <3>4
  <2>3. heard \in SUBSET Settled
    OBVIOUS
  <2> HIDE DEF heard
  <2>4. PICK d \in Conns : d = hubArg
    BY <2>1
  <2>5. Directory!Join(d)
    BY <2>1, <2>2, <2>3, <2>4 DEF Directory!Join, Gone, View
  <2> QED  BY <2>5 DEF Directory!Next
<1>3. ASSUME NEW c \in Conns, Unregister(c) PROVE Directory!Next
  <2> DEFINE heard == {d \in Settled' : ~Full(d)}
  <2>1. c \in Settled /\ Settled' = Settled \ {c} /\ Gone' = Gone \cup {c}
    BY <1>3, LeftStep
  <2>2. View' = [d \in Conns |-> IF d = c THEN {}
                                 ELSE IF d \in heard THEN View[d] \ {c}
                                 ELSE View[d]]
    <3> SUFFICES ASSUME NEW d \in Conns
                 PROVE  View'[d] = IF d = c THEN {}
                                   ELSE IF d \in heard THEN View[d] \ {c}
                                   ELSE View[d]
      BY DEF View
    <3>1. CASE d \notin Settled'
      BY <2>1, <3>1 DEF View
    <3>2. CASE d \in heard
      BY <1>3, <2>1, <3>2, LeftStep DEF View
    <3>3. CASE d \in Settled' \ heard
      BY <1>3, <2>1, <3>3, LeftStep DEF View
    <3> QED  BY <3>1, <3>2, <3>3
  <2>3. heard \in SUBSET Settled'
    OBVIOUS
  <2> HIDE DEF heard
  <2>4. Directory!Leave(c)
    BY <2>1, <2>2, <2>3 DEF Directory!Leave, Gone, View
  <2> QED  BY <2>4 DEF Directory!Next
<1> QED  BY <1>1, <1>2, <1>3, QuietStep

(***************************************************************************)
(* The four steps of a registration and the one of a departure (hub.go)    *)
(* amount to single steps of a directory: whoever joins is given exactly   *)
(* the members, and each member hears of it at that moment or never.       *)
(***************************************************************************)
THEOREM ImplementsDirectory == Spec => DirectorySpec
BY Invariance, ToldInvariance, DirectoryInit, DirectoryNext, PTL
   DEF Spec, DirectorySpec, Directory!Spec

-----------------------------------------------------------------------------
(* Signals.                                                                *)

\* No signal in a channel is newer than the last one the hub received.
SignalsCounted ==
  \A c \in Conns : \A i \in 1..Len(log[c]) :
    log[c][i].type = "signal" => /\ log[c][i].to \in {c, None}
                                 /\ log[c][i].n <= routed

\* A step leaves a channel alone or adds a message to it, and a signal that it
\* adds is the next one.
LEMMA SignalGrowth ==
  ASSUME IInv, [Next]_vars, NEW c \in Conns, log'[c] # log[c]
  PROVE  \E m \in Message :
           /\ log'[c] = Append(log[c], m)
           /\ m.type = "signal" => m.to \in {c, None} /\ m.n = routed + 1 /\ routed' = m.n
<1>1. CASE log'[c] = Append(log[c], ServerMsg("peer_registered", {c}))
  <2>1. ServerMsg("peer_registered", {c}) \in Message
    BY ServerMsgType DEF MessageType
  <2>2. ServerMsg("peer_registered", {c}).type = "peer_registered"
    BY DEF ServerMsg
  <2> QED  BY <1>1, <2>1, <2>2
<1>2. CASE log'[c] = Append(log[c], ServerMsg("peer_list", peers \ {c}))
  <2>1. ServerMsg("peer_list", peers \ {c}) \in Message
    BY ServerMsgType DEF MessageType, IInv, TypeOK
  <2>2. ServerMsg("peer_list", peers \ {c}).type = "peer_list"
    BY DEF ServerMsg
  <2> QED  BY <1>2, <2>1, <2>2
<1>3. CASE \E m : Later(c, m) /\ log'[c] = Append(log[c], m)
  BY <1>3 DEF Later, SignalsTo
<1> QED  BY <1>1, <1>2, <1>3, NextGrowth DEF Growth

\* The hub's count of messages never decreases.
LEMMA RoutedGrows ==
  ASSUME IInv, [Next]_vars
  PROVE  routed \in Nat /\ routed' \in Nat /\ routed <= routed'
BY DEF IInv, TypeOK, Next, vars, HubStep, Register, Unregister, Broadcast, Take

LEMMA NextSignals ==
  IInv /\ SignalsCounted /\ SignalsInOrder /\ [Next]_vars
    => SignalsCounted' /\ SignalsInOrder'
<1> SUFFICES ASSUME IInv, SignalsCounted, SignalsInOrder, [Next]_vars
             PROVE  SignalsCounted' /\ SignalsInOrder'
  OBVIOUS
<1>0. routed \in Nat /\ routed' \in Nat /\ routed <= routed'
  BY RoutedGrows
<1>1. ASSUME NEW c \in Conns
      PROVE  \A i \in 1..Len(log'[c]) :
               log'[c][i].type = "signal" =>
                 /\ log'[c][i].to \in {c, None}
                 /\ log'[c][i].n <= routed'
                 /\ \A j \in 1..Len(log'[c]) :
                      i < j /\ log'[c][j].type = "signal" => log'[c][i].n < log'[c][j].n
  <2>0. /\ log[c] \in Seq(Message) /\ Len(log[c]) \in Nat
        /\ \A i \in 1..Len(log[c]) : log[c][i] \in Message /\ log[c][i].n \in Nat
    <3>1. log[c] \in Seq(Message)
      BY DEF IInv, TypeOK
    <3>2. \A m \in Message : m.n \in Nat
      BY DEF Message
    <3> QED  BY <3>1, <3>2
  <2>1. \A i \in 1..Len(log[c]) :
          log[c][i].type = "signal" =>
            /\ log[c][i].to \in {c, None}
            /\ log[c][i].n <= routed
            /\ \A j \in 1..Len(log[c]) :
                 i < j /\ log[c][j].type = "signal" => log[c][i].n < log[c][j].n
    BY DEF SignalsCounted, SignalsInOrder
  <2>2. CASE log'[c] = log[c]
    BY <1>0, <2>0, <2>1, <2>2
  <2>3. CASE log'[c] # log[c]
    <3>0. PICK m \in Message :
            /\ log'[c] = Append(log[c], m)
            /\ m.type = "signal" =>
                 m.to \in {c, None} /\ m.n = routed + 1 /\ routed' = m.n
      BY <2>3, SignalGrowth
    <3>1. /\ Len(log'[c]) = Len(log[c]) + 1
          /\ \A i \in 1..Len(log[c]) : log'[c][i] = log[c][i]
          /\ log'[c][Len(log[c]) + 1] = m
      BY <2>0, <3>0, AppendElements
    <3>3. ASSUME NEW i \in 1..Len(log[c]), log[c][i].type = "signal"
          PROVE  /\ log'[c][i].to \in {c, None}
                 /\ log'[c][i].n <= routed'
                 /\ \A j \in 1..Len(log'[c]) :
                      i < j /\ log'[c][j].type = "signal" => log'[c][i].n < log'[c][j].n
      <4>1. \A j \in 1..Len(log[c]) :
              i < j /\ log'[c][j].type = "signal" => log'[c][i].n < log'[c][j].n
        BY <2>1, <3>1, <3>3
      <4>2. m.type = "signal" => log'[c][i].n < m.n
        BY <1>0, <2>0, <2>1, <3>1, <3>0, <3>3
      <4>3. log'[c][i].to \in {c, None} /\ log'[c][i].n <= routed'
        BY <1>0, <2>0, <2>1, <3>1, <3>3
      <4> QED  BY <2>0, <3>1, <4>1, <4>2, <4>3
    <3>4. m.type = "signal" => m.to \in {c, None} /\ m.n <= routed'
      BY <1>0, <3>0
    <3> QED  BY <2>0, <3>1, <3>3, <3>4
  <2> QED  BY <2>2, <2>3
<1> QED  BY <1>1 DEF SignalsCounted, SignalsInOrder

(***************************************************************************)
(* A client only gets signals that are addressed to it or to everybody,    *)
(* each at most once, in the order in which the hub received them          *)
(* (hub.go, handleBroadcast; Go channels are first in, first out).         *)
(***************************************************************************)
THEOREM SignalsStayInOrder == Spec => []SignalsInOrder
<1>1. Init => SignalsCounted /\ SignalsInOrder
  BY DEF Init, HubInit, SignalsCounted, SignalsInOrder
<1> QED  BY Invariance, NextSignals, <1>1, PTL DEF Spec

-----------------------------------------------------------------------------
(* What clients may be sent.                                               *)

Registering == hubPC \in {"sendRegistered", "sendPeerList", "broadcastJoined"}

\* Nobody hears of itself, of a peer that has not registered, or of one whose
\* registration is not complete.
HeardInv ==
  \A c, x \in Conns :
    Heard(log[c], x) => /\ x # c /\ stage[x] # "new"
                        /\ ~(Registering /\ hubArg = x)

\* One more message, one more that is heard of.
LEMMA HeardAppend ==
  ASSUME NEW s \in Seq(Message), NEW m \in Message, NEW x, Heard(Append(s, m), x)
  PROVE  Heard(s, x) \/ Announces(m, x) \/ Retracts(m, x)
<1>1. PICK i \in 1..Len(Append(s, m)) :
             Announces(Append(s, m)[i], x) \/ Retracts(Append(s, m)[i], x)
  BY DEF Heard
<1>2. CASE i \in 1..Len(s)
  BY <1>1, <1>2, AppendElements DEF Heard
<1>3. CASE i = Len(s) + 1
  BY <1>1, <1>3, AppendElements
<1> QED  BY <1>2, <1>3, AppendElements

\* Every message is added where it is expected.
LEMMA ExpectedGrowth ==
  ASSUME IInv, HandshakeInv, RetractsGone, HeardInv, [Next]_vars,
         NEW c \in Conns, log'[c] # log[c]
  PROVE  \E m \in Message :
           /\ log'[c] = Append(log[c], m)
           /\ MayFollow(log[c], c, m)
           /\ \A x \in Conns : Announces(m, x) \/ Retracts(m, x) =>
                x # c /\ stage'[x] # "new" /\ ~(Registering' /\ hubArg' = x)
<1>0. log[c] \in Seq(Message) /\ Len(log[c]) \in Nat
  BY DEF IInv, TypeOK
<1>1. CASE /\ hubPC = "sendRegistered" /\ c = hubArg
           /\ log'[c] = Append(log[c], ServerMsg("peer_registered", {c}))
  <2> DEFINE m == ServerMsg("peer_registered", {c})
  <2>1. m \in Message /\ m.type = "peer_registered" /\ m.about = {c}
    BY ServerMsgType DEF MessageType, ServerMsg
  <2>2. Len(log[c]) = 0
    BY <1>1 DEF IInv, Greeting
  <2> HIDE DEF m
  <2>3. MayFollow(log[c], c, m)
    BY <2>1, <2>2 DEF MayFollow
  <2>4. \A x : ~Announces(m, x) /\ ~Retracts(m, x)
    BY <2>1 DEF Announces, Retracts
  <2> QED  BY <1>1, <2>1, <2>3, <2>4 DEF m
<1>2. CASE /\ hubPC = "sendPeerList" /\ c = hubArg
           /\ log'[c] = Append(log[c], ServerMsg("peer_list", peers \ {c}))
  <2> DEFINE m == ServerMsg("peer_list", peers \ {c})
  <2>1. m \in Message /\ m.type = "peer_list" /\ m.about = peers \ {c}
    BY ServerMsgType DEF MessageType, ServerMsg, IInv, TypeOK
  <2>2. Len(log[c]) = 1
    BY <1>2 DEF IInv, Greeting
  <2> HIDE DEF m
  <2>3. MayFollow(log[c], c, m)
    BY <2>1, <2>2 DEF MayFollow
  <2>4. \A x : ~Retracts(m, x) /\ (Announces(m, x) => x \in peers \ {c})
    BY <2>1 DEF Announces, Retracts
  <2>5. UNCHANGED <<stage, hubArg>>
    BY <1>2 DEF Next, vars, HubStep, SendRegistered, SendPeerList, BroadcastJoined,
                SendError, Register, HandleRegister, Unregister, HandleUnregister,
                Broadcast, HandleBroadcast, Take, Goto
  <2>6. \A x \in peers : stage[x] = "in"
    BY DEF IInv, Membership
  <2> QED  BY <1>2, <2>1, <2>3, <2>4, <2>5, <2>6 DEF m
<1>3. CASE \E m : Later(c, m) /\ log'[c] = Append(log[c], m)
  <2>1. PICK m : Later(c, m) /\ log'[c] = Append(log[c], m)
    BY <1>3
  <2>2. m \in Message /\ m.type \in {"peer_joined", "peer_left", "signal", "error"}
    BY <2>1 DEF Later, Message, MessageType
  <2>3. Len(log[c]) >= 2
    BY <2>1 DEF Later, HandshakeInv, Greeted, IInv, Membership
  <2>4. CASE m.type = "peer_joined"
    <3>1. /\ hubPC = "broadcastJoined" /\ hubPC' = "select"
          /\ c # hubArg /\ m.about = {hubArg} /\ hubArg \in Conns
      BY <2>1, <2>4, HubArgType DEF Later, IInv
    <3>2. ~Heard(log[c], hubArg)
      BY <3>1 DEF HeardInv, Registering
    <3>3. MayFollow(log[c], c, m)
      BY <1>0, <2>3, <2>4, <3>1, <3>2 DEF MayFollow
    <3>4. \A x \in Conns : Announces(m, x) \/ Retracts(m, x) => x = hubArg /\ stage'[x] = "in"
      BY <2>1, <2>4, <3>1 DEF Later, Announces, Retracts
    <3> QED  BY <2>1, <2>2, <3>1, <3>3, <3>4 DEF Registering
  <2>5. CASE m.type = "peer_left"
    <3>1. PICK d \in Conns \ {c} : m.about = {d} /\ stage[d] = "in"
      BY <2>1, <2>5 DEF Later
    <3>2. ~HeardLeft(log[c], d)
      BY <3>1 DEF RetractsGone, HeardLeft
    <3>3. MayFollow(log[c], c, m)
      BY <1>0, <2>3, <2>5, <3>1, <3>2 DEF MayFollow
    <3>4. \A x \in Conns : Announces(m, x) \/ Retracts(m, x) => x = d /\ stage'[x] = "out"
      BY <2>1, <2>5, <3>1 DEF Later, Announces, Retracts
    <3>5. hubPC' = "select"
      BY <2>1, <2>5 DEF Later
    <3> QED  BY <2>1, <2>2, <3>1, <3>3, <3>4, <3>5 DEF Registering
  <2>6. CASE m.type \in {"signal", "error"}
    <3>1. MayFollow(log[c], c, m)
      BY <1>0, <2>3, <2>6 DEF MayFollow
    <3>2. \A x : ~Announces(m, x) /\ ~Retracts(m, x)
      BY <2>6 DEF Announces, Retracts
    <3> QED  BY <2>1, <2>2, <3>1, <3>2
  <2> QED  BY <2>2, <2>4, <2>5, <2>6
<1> QED  BY <1>1, <1>2, <1>3, NextGrowth DEF Growth

\* A registration starts for a peer that is new and no step undoes one.
LEMMA StillHeard ==
  ASSUME IInv, [Next]_vars, NEW x \in Conns, stage[x] # "new",
         ~(Registering /\ hubArg = x)
  PROVE  stage'[x] # "new" /\ ~(Registering' /\ hubArg' = x)
<1> USE DEF Goto, Registering
<1>1. ASSUME NEW d \in Conns, Register(d)
      PROVE  stage'[x] # "new" /\ ~(Registering' /\ hubArg' = x)
  BY <1>1 DEF Register, HandleRegister, IInv, TypeOK
<1>2. ASSUME NEW d \in Conns, Unregister(d)
      PROVE  stage'[x] # "new" /\ ~(Registering' /\ hubArg' = x)
  BY <1>2 DEF Unregister, HandleUnregister, IInv, TypeOK
<1>3. ASSUME NEW d \in Conns, NEW to \in Dests, Broadcast(d, to)
      PROVE  stage'[x] # "new" /\ ~(Registering' /\ hubArg' = x)
  BY <1>3 DEF Broadcast, HandleBroadcast, ForwardTo, TargetNotFound, ForwardToAll
<1>4. CASE HubStep /\ UNCHANGED <<stage, routed>>
  BY <1>4 DEF HubStep, SendRegistered, SendPeerList, BroadcastJoined, SendError
<1>5. CASE UNCHANGED <<stage, hubPC, hubArg>>
  BY <1>5
<1> QED  BY <1>1, <1>2, <1>3, <1>4, <1>5 DEF Next, vars, Take

LEMMA NextHeard ==
  IInv /\ HandshakeInv /\ RetractsGone /\ HeardInv /\ [Next]_vars => HeardInv'
<1> SUFFICES ASSUME IInv, HandshakeInv, RetractsGone, HeardInv, [Next]_vars,
                    NEW c \in Conns, NEW x \in Conns, Heard(log'[c], x)
             PROVE  x # c /\ stage'[x] # "new" /\ ~(Registering' /\ hubArg' = x)
  BY DEF HeardInv
<1>0. log[c] \in Seq(Message)
  BY DEF IInv, TypeOK
<1>1. CASE Heard(log[c], x)
  BY <1>1, StillHeard DEF HeardInv
<1>2. CASE ~Heard(log[c], x)
  <2>1. PICK m \in Message :
          /\ log'[c] = Append(log[c], m)
          /\ \A y \in Conns : Announces(m, y) \/ Retracts(m, y) =>
               y # c /\ stage'[y] # "new" /\ ~(Registering' /\ hubArg' = y)
    BY <1>2, ExpectedGrowth
  <2> QED  BY <1>0, <1>2, <2>1, HeardAppend
<1> QED  BY <1>1, <1>2

\* What was sent before a message does not change when another one is added.
LEMMA PrefixOfAppend ==
  ASSUME NEW s \in Seq(Message), NEW m \in Message, NEW n \in 0..Len(s)
  PROVE  SubSeq(Append(s, m), 1, n) = SubSeq(s, 1, n)
<1>1. Append(s, m) \in Seq(Message) /\ Len(Append(s, m)) = Len(s) + 1
  BY AppendElements
<1>2. SubSeq(Append(s, m), 1, n) = [i \in 1..n |-> Append(s, m)[i]]
  BY <1>1
<1>3. SubSeq(s, 1, n) = [i \in 1..n |-> s[i]]
  OBVIOUS
<1>4. \A i \in 1..n : Append(s, m)[i] = s[i]
  BY AppendElements
<1> QED  BY <1>2, <1>3, <1>4

LEMMA NextFeedsClients ==
  IInv /\ HandshakeInv /\ RetractsGone /\ HeardInv /\ FeedsClients /\ [Next]_vars
    => FeedsClients'
<1> SUFFICES ASSUME IInv, HandshakeInv, RetractsGone, HeardInv, FeedsClients, [Next]_vars,
                    NEW c \in Conns, NEW i \in 1..Len(log'[c])
             PROVE  MayFollow(SubSeq(log'[c], 1, i - 1), c, log'[c][i])
  BY DEF FeedsClients
<1>0. log[c] \in Seq(Message) /\ Len(log[c]) \in Nat
  BY DEF IInv, TypeOK
<1>1. CASE log'[c] = log[c]
  BY <1>1 DEF FeedsClients
<1>2. CASE log'[c] # log[c]
  <2>1. PICK m \in Message : log'[c] = Append(log[c], m) /\ MayFollow(log[c], c, m)
    BY <1>2, ExpectedGrowth
  <2>2. CASE i \in 1..Len(log[c])
    <3>1. i - 1 \in 0..Len(log[c]) /\ log'[c][i] = log[c][i]
      BY <1>0, <2>1, <2>2, AppendElements
    <3>2. SubSeq(log'[c], 1, i - 1) = SubSeq(log[c], 1, i - 1)
      BY <1>0, <2>1, <3>1, PrefixOfAppend
    <3> QED  BY <2>2, <3>1, <3>2 DEF FeedsClients
  <2>3. CASE i = Len(log[c]) + 1
    <3>1. i - 1 = Len(log[c]) /\ log'[c][i] = m
      BY <1>0, <2>1, <2>3, AppendElements
    <3>2. SubSeq(log'[c], 1, Len(log[c])) = SubSeq(log[c], 1, Len(log[c]))
      BY <1>0, <2>1, PrefixOfAppend
    <3>3. SubSeq(log[c], 1, Len(log[c])) = log[c]
      BY <1>0, SubSeqFull
    <3> QED  BY <2>1, <3>1, <3>2, <3>3
  <2> QED  BY <1>0, <2>1, <2>2, <2>3, AppendElements
<1> QED  BY <1>1, <1>2

(***************************************************************************)
(* Whatever the hub drops, each client is only sent what module Client     *)
(* assumes (hub.go, handleRegister, handleUnregister, broadcastToOthers):  *)
(* the handshake first, then nobody joins twice or leaves twice.           *)
(***************************************************************************)
THEOREM HubFeedsClients == Spec => []FeedsClients
<1>1. Init => HeardInv /\ FeedsClients
  BY DEF Init, HubInit, HeardInv, FeedsClients, Heard
<1> QED  BY Invariance, HandshakeInvariance, RetractsInvariance, NextHeard,
            NextFeedsClients, <1>1, PTL DEF Spec

-----------------------------------------------------------------------------
(* Who is heard of before its signals are.                                 *)

\* Every message is one that module Client knows how to read.
WellFormed ==
  \A c \in Conns : \A i \in 1..Len(log[c]) :
    log[c][i] \in FromServer(c) \cup SignalsTo(c, 1..MaxMsgs)

\* Message i of c's channel is not the first that says anything about x.
HeardBefore(c, i, x) ==
  \E j \in 1..(i - 1) : Announces(log[c][j], x) \/ Retracts(log[c][j], x)

\* Whoever signals to c was announced to it before, unless it has left or the
\* announcement was dropped.
SendersKnown ==
  \A c \in Conns : \A i \in 1..Len(log[c]) :
    log[c][i].type = "signal" =>
      LET x == log[c][i].from
      IN  x \in {c} \cup missed[c] \/ stage[x] = "out" \/ HeardBefore(c, i, x)

\* What a step adds to a channel is well formed, and a signal has a known sender.
LEMMA KnownGrowth ==
  ASSUME IInv, RosterExact, [Next]_vars, NEW c \in Conns, log'[c] # log[c]
  PROVE  \E m \in Message :
           /\ log'[c] = Append(log[c], m)
           /\ m \in FromServer(c) \cup SignalsTo(c, 1..MaxMsgs)
           /\ m.type = "signal" =>
                /\ m.from \in Conns
                /\ \/ m.from \in {c} \cup missed[c]
                   \/ stage[m.from] = "out"
                   \/ Heard(log[c], m.from)
<1>1. CASE log'[c] = Append(log[c], ServerMsg("peer_registered", {c}))
  <2>1. ServerMsg("peer_registered", {c}) \in FromServer(c)
    BY DEF FromServer
  <2>2. ServerMsg("peer_registered", {c}).type = "peer_registered"
    BY DEF ServerMsg
  <2> QED  BY <1>1, <2>1, <2>2, FromServerType
<1>2. CASE log'[c] = Append(log[c], ServerMsg("peer_list", peers \ {c}))
  <2>1. peers \ {c} \in SUBSET Conns
    BY DEF IInv, TypeOK
  <2>2. ServerMsg("peer_list", peers \ {c}) \in FromServer(c)
    BY <2>1 DEF FromServer
  <2>3. ServerMsg("peer_list", peers \ {c}).type = "peer_list"
    BY DEF ServerMsg
  <2> QED  BY <1>2, <2>2, <2>3, FromServerType
<1>3. CASE \E m : Later(c, m) /\ log'[c] = Append(log[c], m)
  <2>1. PICK m : Later(c, m) /\ log'[c] = Append(log[c], m)
    BY <1>3
  <2>2. CASE m.type # "signal"
    BY <2>1, <2>2 DEF Later
  <2>3. CASE m.type = "signal"
    <3>1. /\ m \in SignalsTo(c, {routed'}) /\ stage[m.from] # "new"
          /\ hubPC = "select" /\ routed' = routed + 1 /\ routed < MaxMsgs
          /\ c \in peers
      BY <2>1, <2>3 DEF Later
    <3>2. m.from \in Conns
      BY <3>1 DEF SignalsTo
    <3>3. routed' \in 1..MaxMsgs
      BY <3>1, MsgsAssumption DEF IInv, TypeOK
    <3>4. m \in SignalsTo(c, 1..MaxMsgs)
      BY <3>1, <3>3 DEF SignalsTo
    <3>5. ASSUME m.from \notin {c} \cup missed[c], stage[m.from] # "out"
          PROVE  Heard(log[c], m.from)
      <4>1. Settled = peers /\ stage[m.from] = "in"
        BY <3>1, <3>2, <3>5 DEF Settled, IInv, TypeOK
      <4>2. m.from \in Settled \ {c} /\ c \in Settled
        BY <3>1, <3>2, <3>5, <4>1 DEF IInv, Membership
      <4>3. Believes(log[c], m.from)
        BY <3>2, <3>5, <4>2 DEF RosterExact
      <4> QED  BY <4>3 DEF Believes, Heard
    <3> QED  BY <2>1, <3>2, <3>4, <3>5 DEF Later
  <2> QED  BY <2>2, <2>3
<1> QED  BY <1>1, <1>2, <1>3, NextGrowth DEF Growth

\* What was missed stays missed.
LEMMA MissedGrows ==
  ASSUME TypeOK, [Next]_vars, NEW c \in Conns
  PROVE  missed[c] \subseteq missed'[c]
<1>1. ASSUME NEW S, NEW m, Offer(S, m) PROVE missed[c] \subseteq missed'[c]
  BY <1>1 DEF Offer
<1>2. CASE missed' = missed
  BY <1>2
<1> QED  BY <1>1, <1>2 DEF Next, vars, HubStep, SendRegistered, SendPeerList,
            BroadcastJoined, SendError, SendBlocking, Register, HandleRegister,
            Unregister, HandleUnregister, Broadcast, HandleBroadcast, ForwardTo,
            TargetNotFound, ForwardToAll, Take

LEMMA NextSendersKnown ==
  IInv /\ RosterExact /\ WellFormed /\ SendersKnown /\ [Next]_vars
    => WellFormed' /\ SendersKnown'
<1> SUFFICES ASSUME IInv, RosterExact, WellFormed, SendersKnown, [Next]_vars,
                    NEW c \in Conns, NEW i \in 1..Len(log'[c])
             PROVE  /\ log'[c][i] \in FromServer(c) \cup SignalsTo(c, 1..MaxMsgs)
                    /\ log'[c][i].type = "signal" =>
                         LET x == log'[c][i].from
                         IN  \/ x \in {c} \cup missed'[c]
                             \/ stage'[x] = "out"
                             \/ \E j \in 1..(i - 1) : \/ Announces(log'[c][j], x)
                                                     \/ Retracts(log'[c][j], x)
  BY DEF WellFormed, SendersKnown, HeardBefore
<1>0. log[c] \in Seq(Message) /\ Len(log[c]) \in Nat
  BY DEF IInv, TypeOK
<1>1. missed[c] \subseteq missed'[c]
  BY MissedGrows DEF IInv
<1>2. \A x \in Conns : stage[x] = "out" => stage'[x] = "out"
  BY OutForEver
<1>3. ASSUME i \in 1..Len(log[c]),
             \A k \in 1..Len(log[c]) : log'[c][k] = log[c][k]
      PROVE  /\ log'[c][i] \in FromServer(c) \cup SignalsTo(c, 1..MaxMsgs)
             /\ log'[c][i].type = "signal" =>
                  \/ log'[c][i].from \in {c} \cup missed'[c]
                  \/ stage'[log'[c][i].from] = "out"
                  \/ \E j \in 1..(i - 1) : \/ Announces(log'[c][j], log'[c][i].from)
                                          \/ Retracts(log'[c][j], log'[c][i].from)
  <2> DEFINE x == log[c][i].from
  <2>1. log'[c][i] = log[c][i] /\ log[c][i] \in FromServer(c) \cup SignalsTo(c, 1..MaxMsgs)
    BY <1>3 DEF WellFormed
  <2>2. ASSUME log[c][i].type = "signal"
        PROVE  \/ x \in {c} \cup missed'[c]
               \/ stage'[x] = "out"
               \/ \E j \in 1..(i - 1) : Announces(log'[c][j], x) \/ Retracts(log'[c][j], x)
    <3>1. x \in {c} \cup missed[c] \/ stage[x] = "out" \/ HeardBefore(c, i, x)
      BY <1>3, <2>2 DEF SendersKnown
    <3>2. x \in Conns
      <4>1. \A m \in FromServer(c) : m.type # "signal"
        BY DEF FromServer, ServerMsg, ErrorMsg
      <4> QED  BY <2>1, <2>2, <4>1 DEF SignalsTo
    <3>3. CASE HeardBefore(c, i, x)
      <4>1. PICK j \in 1..(i - 1) : Announces(log[c][j], x) \/ Retracts(log[c][j], x)
        BY <3>3 DEF HeardBefore
      <4>2. j \in 1..Len(log[c])
        BY <1>0, <1>3
      <4> QED  BY <1>3, <4>1, <4>2
    <3> QED  BY <1>1, <1>2, <3>1, <3>2, <3>3
  <2> QED  BY <2>1, <2>2
<1>4. CASE log'[c] = log[c]
  BY <1>3, <1>4
<1>5. CASE log'[c] # log[c]
  <2>1. PICK m \in Message :
           /\ log'[c] = Append(log[c], m)
           /\ m \in FromServer(c) \cup SignalsTo(c, 1..MaxMsgs)
           /\ m.type = "signal" =>
                /\ m.from \in Conns
                /\ \/ m.from \in {c} \cup missed[c]
                   \/ stage[m.from] = "out"
                   \/ Heard(log[c], m.from)
    BY <1>5, KnownGrowth
  <2>2. /\ Len(log'[c]) = Len(log[c]) + 1
        /\ \A k \in 1..Len(log[c]) : log'[c][k] = log[c][k]
        /\ log'[c][Len(log[c]) + 1] = m
    BY <1>0, <2>1, AppendElements
  <2>3. CASE i \in 1..Len(log[c])
    BY <1>3, <2>2, <2>3
  <2>4. CASE i = Len(log[c]) + 1
    <3>1. ASSUME Heard(log[c], m.from)
          PROVE  \E j \in 1..(i - 1) : \/ Announces(log'[c][j], m.from)
                                     \/ Retracts(log'[c][j], m.from)
      <4>1. PICK j \in 1..Len(log[c]) :
              Announces(log[c][j], m.from) \/ Retracts(log[c][j], m.from)
        BY <3>1 DEF Heard
      <4>2. j \in 1..(i - 1)
        BY <1>0, <2>4
      <4> QED  BY <2>2, <4>1, <4>2
    <3>2. log'[c][i] = m
      BY <2>2, <2>4
    <3> QED  BY <1>1, <1>2, <2>1, <3>1, <3>2
  <2> QED  BY <1>0, <2>2, <2>3, <2>4
<1> QED  BY <1>4, <1>5

LEMMA SendersKnownInvariance == Spec => [](WellFormed /\ SendersKnown)
<1>1. Init => WellFormed /\ SendersKnown
  BY DEF Init, HubInit, WellFormed, SendersKnown
<1> QED  BY Invariance, RosterIsExact, NextSendersKnown, <1>1, PTL DEF Spec
=============================================================================
