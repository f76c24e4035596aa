---------------------------- MODULE ServerProofs ----------------------------
(***************************************************************************)
(* Proofs about the server, for any number of connections: it drives the   *)
(* hub as module Hub assumes, so that what module ChannelProofs proves of   *)
(* the hub holds in the server, and the two pumps and the handler of every     *)
(* connection meet on done exactly once.                                   *)
(***************************************************************************)
EXTENDS Server, FiniteSetTheorems, TLAPS

HP == INSTANCE ChannelProofs WITH stage <- [c \in Conns |-> StageOf(c)]

-----------------------------------------------------------------------------
(* The inductive invariant of the goroutines.                              *)

Types ==
  /\ handler \in [Conns -> {"none", "registering", "serving", "unregistering",
                            "returning", "returned"}]
  /\ reader \in [Conns -> {"none", "reading", "forwarding", "exiting", "gone"}]
  /\ dest \in [Conns -> Dests \cup {None}]
  /\ writer \in [Conns -> {"none", "idle", "writing", "exiting", "closing", "gone"}]
  /\ sock \subseteq Conns

\* The pumps run once the peer is registered, and forward what was read.
Pumps ==
  \A c \in Conns :
    /\ handler[c] \in {"none", "registering"} <=> reader[c] = "none"
    /\ handler[c] \in {"none", "registering"} <=> writer[c] = "none"
    /\ reader[c] = "forwarding" => dest[c] \in Dests

\* What is routed or about to be is within the bound.
Budget ==
  /\ routed \in Nat
  /\ IsFiniteSet(Forwarding)
  /\ routed + Cardinality(Forwarding) <= MaxMsgs

PumpInv == Types /\ Pumps /\ OneExit

LEMMA InitPumpInv == Init => PumpInv /\ Budget
<1> SUFFICES ASSUME Init PROVE PumpInv /\ Budget
  OBVIOUS
<1>1. PumpInv
  BY DEF Init, PumpInv, Types, Pumps, OneExit
<1>2. Forwarding = {}
  BY DEF Init, Forwarding
<1>3. Budget
  BY <1>2, FS_EmptySet, ServerAssumption DEF Init, Budget
<1> QED  BY <1>1, <1>3

LEMMA NextPumpInv == PumpInv /\ [Next]_vars => PumpInv'
<1> SUFFICES ASSUME PumpInv, [Next]_vars PROVE PumpInv'
  OBVIOUS
<1> USE DEF PumpInv, Types, Pumps, OneExit
<1>1. ASSUME NEW c \in Conns, Accept(c) PROVE PumpInv'
  BY <1>1 DEF Accept
<1>2. ASSUME NEW c \in Conns, Register(c) PROVE PumpInv'
  BY <1>2 DEF Register
<1>3. ASSUME NEW c \in Conns, Unregister(c) PROVE PumpInv'
  BY <1>3 DEF Unregister
<1>4. ASSUME NEW c \in Conns, Return(c) PROVE PumpInv'
  BY <1>4 DEF Return
<1>5. ASSUME NEW c \in Conns, NEW to \in Dests, Read(c, to) PROVE PumpInv'
  BY <1>5 DEF Read
<1>6. ASSUME NEW c \in Conns, Forward(c) PROVE PumpInv'
  BY <1>6 DEF Forward
<1>7. ASSUME NEW c \in Conns, ReadFails(c) PROVE PumpInv'
  BY <1>7 DEF ReadFails
<1>8. ASSUME NEW c \in Conns, ReaderDone(c) PROVE PumpInv'
  BY <1>8 DEF ReaderDone
<1>9. ASSUME NEW c \in Conns, TakeMessage(c) PROVE PumpInv'
  BY <1>9 DEF TakeMessage
<1>10. ASSUME NEW c \in Conns, WriteSucceeds(c) \/ WriteFails(c) PROVE PumpInv'
  BY <1>10 DEF WriteSucceeds, WriteFails
<1>11. ASSUME NEW c \in Conns, PingFails(c) \/ SendClosed(c) PROVE PumpInv'
  BY <1>11 DEF PingFails, SendClosed
<1>12. ASSUME NEW c \in Conns, WriterDone(c) PROVE PumpInv'
  BY <1>12 DEF WriterDone
<1>13. ASSUME NEW c \in Conns, WriterCloses(c) PROVE PumpInv'
  BY <1>13 DEF WriterCloses
<1>14. CASE UNCHANGED connVars
  BY <1>14 DEF connVars
<1> QED  BY <1>1, <1>2, <1>3, <1>4, <1>5, <1>6, <1>7, <1>8, <1>9, <1>10, <1>11,
            <1>12, <1>13, <1>14 DEF Next, HubStep, AllReturned, vars

LEMMA NextBudget == PumpInv /\ Budget /\ [Next]_vars => Budget'
<1> SUFFICES ASSUME PumpInv, Budget, [Next]_vars PROVE Budget'
  OBVIOUS
<1>0. Cardinality(Forwarding) \in Nat
  BY FS_CardinalityType DEF Budget
<1>1. ASSUME NEW c \in Conns, NEW to \in Dests, Read(c, to) PROVE Budget'
  <2>1. Forwarding' = Forwarding \cup {c} /\ c \notin Forwarding
    BY <1>1 DEF Read, Forwarding, PumpInv, Types
  <2>2. routed' = routed /\ routed + Cardinality(Forwarding) < MaxMsgs
    BY <1>1 DEF Read, hubVars
  <2>3. IsFiniteSet(Forwarding') /\ Cardinality(Forwarding') = Cardinality(Forwarding) + 1
    BY <2>1, FS_AddElement DEF Budget
  <2> QED  BY <1>0, <2>2, <2>3, ServerAssumption DEF Budget
<1>2. ASSUME NEW c \in Conns, Forward(c) PROVE Budget'
  <2>1. Forwarding' = Forwarding \ {c} /\ c \in Forwarding
    BY <1>2 DEF Forward, Forwarding, PumpInv, Types
  <2>2. routed' = routed + 1
    BY <1>2 DEF Forward
  <2> QED  BY <1>0, <2>1, <2>2, FS_RemoveElement, ServerAssumption DEF Budget
<1>3. CASE UNCHANGED routed /\ Forwarding' = Forwarding
  BY <1>3 DEF Budget
<1>4. ASSUME NEW c \in Conns,
             Register(c) \/ ReadFails(c) \/ ReaderDone(c)
      PROVE  UNCHANGED routed /\ Forwarding' = Forwarding
  BY <1>4 DEF Register, ReadFails, ReaderDone, Forwarding, PumpInv, Types, Pumps, hubVars
<1>5. UNCHANGED <<routed, reader>> => UNCHANGED routed /\ Forwarding' = Forwarding
  BY DEF Forwarding
<1> QED  BY <1>1, <1>2, <1>3, <1>4, <1>5
         DEF Next, HubStep, AllReturned, vars, hubVars, connVars, Accept, Unregister,
             Return, TakeMessage, WriteSucceeds, WriteFails, PingFails, SendClosed,
             WriterDone, WriterCloses

LEMMA Invariance == Spec => [](PumpInv /\ Budget)
BY InitPumpInv, NextPumpInv, NextBudget, PTL DEF Spec

(***************************************************************************)
(* The handler of a connection (main.go, handleWebSocket) goes on after    *)
(* the first of its pumps has ended, and the other pump never gets past    *)
(* its send on done.                                                       *)
(***************************************************************************)
THEOREM ExactlyOneExit == Spec => []OneExit
BY Invariance, PTL DEF PumpInv

-----------------------------------------------------------------------------
(* The hub inside the server is the hub of module Hub.                     *)

Stage == [c \in Conns |-> StageOf(c)]

\* The handler's progress is what module Hub calls stage.
LEMMA StageMoves ==
  ASSUME PumpInv, NEW c \in Conns, NEW h \in {"none", "registering", "serving",
           "unregistering", "returning", "returned"},
         handler' = [handler EXCEPT ![c] = h]
  PROVE  Stage' = [Stage EXCEPT ![c] =
                     IF h \in {"none", "registering"} THEN "new"
                     ELSE IF h \in {"serving", "unregistering"} THEN "in" ELSE "out"]
<1>1. ASSUME NEW d \in Conns
      PROVE  Stage'[d] = IF d # c THEN Stage[d]
                         ELSE IF h \in {"none", "registering"} THEN "new"
                         ELSE IF h \in {"serving", "unregistering"} THEN "in" ELSE "out"
  BY DEF Stage, StageOf, PumpInv, Types
<1> QED  BY <1>1 DEF Stage

LEMMA HubNext == PumpInv /\ Budget /\ [Next]_vars => [H!Next]_H!vars
<1> SUFFICES ASSUME PumpInv, Budget, [Next]_vars PROVE [H!Next]_H!vars
  OBVIOUS
<1> DEFINE stutter == UNCHANGED <<hubVars, Stage>>
<1>0. stutter => [H!Next]_H!vars
  BY DEF hubVars, H!vars, Stage
<1>1. ASSUME NEW c \in Conns, Accept(c) PROVE stutter
  <2>1. Stage[c] = "new"
    BY <1>1 DEF Accept, Stage, StageOf
  <2>2. Stage' = [Stage EXCEPT ![c] = "new"]
    BY <1>1, StageMoves DEF Accept
  <2> QED  BY <1>1, <2>1, <2>2 DEF Accept, Stage
<1>2. ASSUME NEW c \in Conns, Register(c) PROVE H!Register(c)
  <2>1. Stage[c] = "new"
    BY <1>2 DEF Register, Stage, StageOf
  <2>2. Stage' = [Stage EXCEPT ![c] = "in"]
    BY <1>2, StageMoves DEF Register
  <2> QED  BY <1>2, <2>1, <2>2 DEF Register, H!Register, Stage
<1>3. ASSUME NEW c \in Conns, Unregister(c) PROVE H!Unregister(c)
  <2>1. Stage[c] = "in"
    BY <1>3 DEF Unregister, Stage, StageOf
  <2>2. Stage' = [Stage EXCEPT ![c] = "out"]
    BY <1>3, StageMoves DEF Unregister
  <2> QED  BY <1>3, <2>1, <2>2 DEF Unregister, H!Unregister, Stage
<1>4. ASSUME NEW c \in Conns, Return(c) PROVE stutter
  <2>1. Stage[c] = "out"
    BY <1>4 DEF Return, Stage, StageOf
  <2>2. Stage' = [Stage EXCEPT ![c] = "out"]
    BY <1>4, StageMoves DEF Return
  <2> QED  BY <1>4, <2>1, <2>2 DEF Return, Stage
<1>5. ASSUME NEW c \in Conns, ReaderDone(c) \/ WriterDone(c) PROVE stutter
  <2>1. Stage[c] = "in"
    BY <1>5 DEF ReaderDone, WriterDone, Stage, StageOf
  <2>2. Stage' = [Stage EXCEPT ![c] = "in"]
    BY <1>5, StageMoves DEF ReaderDone, WriterDone
  <2> QED  BY <1>5, <2>1, <2>2 DEF ReaderDone, WriterDone, Stage
<1>6. UNCHANGED handler => UNCHANGED Stage
  BY DEF Stage, StageOf
<1>7. ASSUME NEW c \in Conns, Forward(c) PROVE H!Broadcast(c, dest[c]) /\ dest[c] \in Dests
  <2>1. Stage[c] # "new" /\ dest[c] \in Dests
    BY <1>7 DEF Forward, Stage, StageOf, PumpInv, Types, Pumps
  <2>2. routed < MaxMsgs
    <3>1. c \in Forwarding
      BY <1>7 DEF Forward, Forwarding
    <3>2. Cardinality(Forwarding) \in Nat /\ Cardinality(Forwarding) # 0
      BY <3>1, FS_EmptySet, FS_CardinalityType DEF Budget
    <3> QED  BY <3>2, ServerAssumption DEF Budget
  <2>3. routed' = routed + 1 /\ UNCHANGED Stage
    BY <1>6, <1>7 DEF Forward
  <2> QED  BY <1>7, <2>1, <2>2, <2>3 DEF Forward, H!Broadcast, Stage
<1>8. ASSUME NEW c \in Conns, TakeMessage(c) PROVE H!Take(c)
  BY <1>6, <1>8 DEF TakeMessage, H!Take, Stage
<1>9. CASE HubStep
  BY <1>6, <1>9 DEF HubStep, connVars, H!Next, Stage
<1>10. UNCHANGED <<hubVars, handler>> => stutter
  BY <1>6
<1> HIDE DEF stutter
<1>11. \/ HubStep \/ UNCHANGED <<hubVars, handler>>
       \/ \E c \in Conns : \/ Accept(c) \/ Register(c) \/ Unregister(c) \/ Return(c)
                           \/ ReaderDone(c) \/ WriterDone(c) \/ Forward(c) \/ TakeMessage(c)
  BY DEF Next, AllReturned, vars, connVars, Read, ReadFails, WriteSucceeds, WriteFails,
         PingFails, SendClosed, WriterCloses
<1> QED  BY <1>0, <1>1, <1>2, <1>3, <1>4, <1>5, <1>7, <1>8, <1>9, <1>10, <1>11
         DEF H!Next, stutter

(***************************************************************************)
(* The handlers and pumps of main.go register each peer once, unregister   *)
(* it once after that, and route nothing for it before: the server         *)
(* implements the hub with the most general server around it.              *)
(***************************************************************************)
THEOREM ImplementsHub == Spec => HubSpec
<1>1. Init => H!Init
  BY DEF Init, H!Init, StageOf
<1> QED  BY <1>1, Invariance, HubNext, PTL DEF Spec, HubSpec, H!Spec

-----------------------------------------------------------------------------
(* What is proved of the hub holds in the server.                          *)

\* H and HP are instances of the same definitions.
LEMMA SameInit == HP!Init <=> H!Init
BY DEF HP!Init, H!Init, HP!HubInit, H!HubInit

LEMMA SameStep == [HP!Next]_HP!vars <=> [H!Next]_H!vars
BY DEF HP!Next, H!Next, HP!vars, H!vars, HP!HubStep, H!HubStep,
       HP!SendRegistered, H!SendRegistered, HP!SendPeerList, H!SendPeerList,
       HP!BroadcastJoined, H!BroadcastJoined, HP!SendError, H!SendError,
       HP!Register, H!Register, HP!HandleRegister, H!HandleRegister,
       HP!Unregister, H!Unregister, HP!HandleUnregister, H!HandleUnregister,
       HP!Broadcast, H!Broadcast, HP!HandleBroadcast, H!HandleBroadcast,
       HP!ForwardTo, H!ForwardTo, HP!TargetNotFound, H!TargetNotFound,
       HP!ForwardToAll, H!ForwardToAll, HP!Take, H!Take, HP!Receive, H!Receive,
       HP!Goto, H!Goto, HP!Offer, H!Offer, HP!SendBlocking, H!SendBlocking,
       HP!Full, H!Full, HP!ServerMsg, H!ServerMsg, HP!SignalMsg, H!SignalMsg,
       HP!ErrorMsg, H!ErrorMsg

LEMMA SameTypes == HP!TypeOK <=> H!TypeOK
BY DEF HP!TypeOK, H!TypeOK, HP!Message, H!Message, HP!MessageType, H!MessageType

LEMMA HubInServer == Spec => HP!Spec
BY ImplementsHub, SameInit, SameStep, PTL DEF HubSpec, HP!Spec, H!Spec

LEMMA HubTypeInvariance == Spec => []H!TypeOK
BY HubInServer, HP!TypeCorrect, SameTypes, ServerAssumption, PTL

LEMMA HubInvariance == Spec => [](HP!IInv /\ HP!RetractsGone)
BY HubInServer, HP!Invariance, HP!RetractsInvariance, ServerAssumption, PTL

\* The write pump counts what it received.
Written == written \in [Conns -> Nat]

LEMMA NextWritten == H!TypeOK /\ Written /\ [Next]_vars => Written'
<1> SUFFICES ASSUME H!TypeOK, Written, [Next]_vars PROVE Written'
  OBVIOUS
<1>1. ASSUME NEW c \in Conns, WriteSucceeds(c) PROVE Written'
  BY <1>1 DEF WriteSucceeds, H!TypeOK, Written
<1> QED  BY <1>1 DEF Written, Next, HubStep, AllReturned, vars, connVars, Accept, Register,
                     Unregister, Return, Read, Forward, ReadFails, ReaderDone,
                     TakeMessage, WriteFails, PingFails, SendClosed, WriterDone,
                     WriterCloses

(***************************************************************************)
(* Every variable of the server and of the hub in it keeps its type.       *)
(***************************************************************************)
THEOREM TypeCorrect == Spec => []TypeOK
<1>1. Init => Written
  BY DEF Init, Written
<1>2. PumpInv /\ H!TypeOK /\ Written => TypeOK
  BY DEF PumpInv, Types, TypeOK, Written
<1> QED  BY <1>1, <1>2, Invariance, HubTypeInvariance, NextWritten, PTL DEF Spec

(***************************************************************************)
(* No send on, and no second close of, a closed peer.Send (hub.go, main.go)*)
(* in any interleaving of handlers and pumps: the server does not panic.   *)
(***************************************************************************)
THEOREM ServerNeverSendsOnClosed == Spec => []H!NoSendOnClosed
<1>1. HP!NoSendOnClosed => H!NoSendOnClosed
  BY DEF HP!NoSendOnClosed, H!NoSendOnClosed
<1> QED  BY <1>1, HubInServer, HP!NeverSendsOnClosed, ServerAssumption, PTL

-----------------------------------------------------------------------------
(* Signals of peers that left.                                             *)

\* What a read pump forwards is a message from its client.
LEMMA SignalSender ==
  ASSUME NEW d \in Conns, NEW to \in Dests, NEW n \in Nat
  PROVE  H!SignalMsg(d, to, n) \in H!Message /\ H!SignalMsg(d, to, n).from = d
BY DEF H!SignalMsg, H!Message, H!MessageType

\* A message with a sender is put in a channel when that sender's read pump
\* forwards it.
LEMMA ForwardedBySender ==
  ASSUME PumpInv, HP!IInv, H!TypeOK, [Next]_vars, NEW c \in Conns, log'[c] # log[c]
  PROVE  \E m \in H!Message : /\ log'[c] = Append(log[c], m)
                              /\ m.from \in Conns => reader[m.from] = "forwarding"
<1> USE ServerAssumption
<1>1. ASSUME NEW d \in Conns, Forward(d)
      PROVE  \E m \in H!Message : /\ log'[c] = Append(log[c], m)
                                  /\ m.from \in Conns => reader[m.from] = "forwarding"
  <2> DEFINE m == H!SignalMsg(d, dest[d], routed + 1)
  <2>1. log'[c] = Append(log[c], m)
    BY <1>1 DEF Forward, H!HandleBroadcast, H!ForwardTo, H!ForwardToAll,
                H!TargetNotFound, H!Offer
  <2>2. reader[d] = "forwarding" /\ dest[d] \in Dests /\ routed + 1 \in Nat
    BY <1>1 DEF Forward, PumpInv, Pumps, H!TypeOK
  <2>3. m \in H!Message /\ m.from = d
    BY <2>2, SignalSender
  <2> HIDE DEF m
  <2> QED  BY <2>1, <2>2, <2>3
<1>2. ASSUME NEW m \in H!Message, log'[c] = Append(log[c], m), m.from = None
      PROVE  \E k \in H!Message : /\ log'[c] = Append(log[c], k)
                                  /\ k.from \in Conns => reader[k.from] = "forwarding"
  BY <1>2
<1>3. ASSUME NEW d \in Conns, Unregister(d)
      PROVE  \E m \in H!Message : log'[c] = Append(log[c], m) /\ m.from = None
  <2> DEFINE m == H!ServerMsg("peer_left", {d})
  <2>1. log'[c] = Append(log[c], m)
    BY <1>3 DEF Unregister, H!HandleUnregister, H!Offer
  <2>2. m \in H!Message /\ m.from = None
    BY DEF H!ServerMsg, H!Message, H!MessageType
  <2> HIDE DEF m
  <2> QED  BY <2>1, <2>2
<1>4. CASE HubStep
  <2>1. hubArg \in Conns /\ peers \subseteq Conns
    BY <1>4 DEF HubStep, H!HubStep, H!SendRegistered, H!SendPeerList, H!BroadcastJoined,
                H!SendError, HP!IInv, HP!Busy, H!TypeOK
  <2>2. \E m \in H!Message : log'[c] = Append(log[c], m) /\ m.from = None
    <3>1. CASE log'[c] = Append(log[c], H!ErrorMsg(hubArg))
      BY <2>1, <3>1 DEF H!ErrorMsg, H!Message, H!MessageType
    <3>2. ASSUME NEW t \in H!MessageType, NEW S \in SUBSET Conns,
                 log'[c] = Append(log[c], H!ServerMsg(t, S))
          PROVE  \E m \in H!Message : log'[c] = Append(log[c], m) /\ m.from = None
      BY <3>2 DEF H!ServerMsg, H!Message
    <3>3. \/ log'[c] = Append(log[c], H!ServerMsg("peer_registered", {hubArg}))
          \/ log'[c] = Append(log[c], H!ServerMsg("peer_list", peers \ {hubArg}))
          \/ log'[c] = Append(log[c], H!ServerMsg("peer_joined", {hubArg}))
          \/ log'[c] = Append(log[c], H!ErrorMsg(hubArg))
      BY <1>4 DEF HubStep, H!HubStep, H!SendRegistered, H!SendPeerList, H!BroadcastJoined,
                  H!SendError, H!SendBlocking, H!Offer, H!TypeOK
    <3> QED  BY <2>1, <3>1, <3>2, <3>3 DEF H!MessageType
  <2> QED  BY <2>2, <1>2
<1>5. \/ HubStep
      \/ \E d \in Conns : Forward(d) \/ Unregister(d)
  BY DEF Next, AllReturned, vars, hubVars, Accept, Register, H!HandleRegister, Return,
         Read, ReadFails, ReaderDone, TakeMessage, WriteSucceeds, WriteFails, PingFails,
         SendClosed, WriterDone, WriterCloses
<1> QED  BY <1>1, <1>2, <1>3, <1>4, <1>5

\* A channel after a message was added.
LEMMA AppendedTo ==
  ASSUME NEW s \in Seq(H!Message), NEW m \in H!Message
  PROVE  /\ Len(Append(s, m)) = Len(s) + 1 /\ Len(s) \in Nat
         /\ \A k \in 1..Len(s) : Append(s, m)[k] = s[k]
         /\ Append(s, m)[Len(s) + 1] = m
BY DEF H!Message

\* A write pump that got past its send on done stays past it.
LEMMA WriterStays ==
  ASSUME PumpInv, [Next]_vars, NEW x \in Conns, writer[x] \in {"closing", "gone"}
  PROVE  writer'[x] \in {"closing", "gone"}
BY DEF PumpInv, Types, Pumps, OneExit, Next, HubStep, AllReturned, vars, connVars, Accept,
       Register, Unregister, Return, Read, Forward, ReadFails, ReaderDone, TakeMessage,
       WriteSucceeds, WriteFails, PingFails, SendClosed, WriterDone, WriterCloses

LEMMA NextStragglers ==
  PumpInv /\ HP!IInv /\ H!TypeOK /\ HP!RetractsGone
    /\ StragglersOnlyAfterWriteFailure /\ [Next]_vars
    => StragglersOnlyAfterWriteFailure'
<1> SUFFICES ASSUME PumpInv, HP!IInv, H!TypeOK, HP!RetractsGone,
                    StragglersOnlyAfterWriteFailure, [Next]_vars,
                    NEW c \in Conns, NEW x \in Conns,
                    NEW i \in 1..Len(log'[c]), NEW j \in 1..Len(log'[c]), i < j,
                    H!Retracts(log'[c][i], x), log'[c][j].from = x
             PROVE  writer'[x] \in {"closing", "gone"}
  BY DEF StragglersOnlyAfterWriteFailure
<1>0. log[c] \in Seq(H!Message) /\ Len(log[c]) \in Nat
  BY DEF H!TypeOK
<1>1. CASE log'[c] = log[c]
  BY <1>1, WriterStays DEF StragglersOnlyAfterWriteFailure
<1>2. CASE log'[c] # log[c]
  <2>1. PICK m \in H!Message :
           /\ log'[c] = Append(log[c], m)
           /\ m.from \in Conns => reader[m.from] = "forwarding"
    BY <1>2, ForwardedBySender
  <2>2. /\ Len(log'[c]) = Len(log[c]) + 1
        /\ \A k \in 1..Len(log[c]) : log'[c][k] = log[c][k]
        /\ log'[c][Len(log[c]) + 1] = m
    BY <1>0, <2>1, AppendedTo
  <2>3. i \in 1..Len(log[c]) /\ H!Retracts(log[c][i], x)
    BY <1>0, <2>2 DEF H!Retracts
  <2>4. CASE j \in 1..Len(log[c])
    BY <2>2, <2>3, <2>4, WriterStays DEF StragglersOnlyAfterWriteFailure
  <2>5. CASE j = Len(log[c]) + 1
    <3>1. reader[x] = "forwarding"
      BY <2>1, <2>2, <2>5
    <3>2. HP!Retracts(log[c][i], x)
      BY <2>3 DEF HP!Retracts, H!Retracts
    <3>3. Stage[x] = "out"
      BY <2>3, <3>2 DEF HP!RetractsGone, Stage
    <3>4. handler[x] \in {"returning", "returned"}
      BY <3>3 DEF Stage, StageOf, PumpInv, Types
    <3>5. writer[x] \in {"closing", "gone"}
      BY <3>1, <3>4 DEF PumpInv, OneExit
    <3> QED  BY <3>5, WriterStays
  <2> QED  BY <1>0, <2>2, <2>4, <2>5
<1> QED  BY <1>1, <1>2

(***************************************************************************)
(* Only a peer whose write pump ended first can still be heard of after    *)
(* its peer_left (main.go, handleWebSocket unregisters it while its read   *)
(* pump may be running).                                                   *)
(***************************************************************************)
THEOREM StragglersAfterWriteFailure == Spec => []StragglersOnlyAfterWriteFailure
<1>1. Init => StragglersOnlyAfterWriteFailure
  BY DEF Init, H!HubInit, StragglersOnlyAfterWriteFailure
<1> QED  BY <1>1, Invariance, HubTypeInvariance, HubInvariance, NextStragglers, PTL
         DEF Spec

\* A sender that is not known is one that has left.
LEMMA UnknownSender ==
  ASSUME HP!IInv, HP!RosterExact, [HP!Next]_HP!vars, NEW c \in Conns, log'[c] # log[c]
  PROVE  \E m \in H!Message :
           /\ log'[c] = Append(log[c], m)
           /\ m.from \in Conns \ ({c} \cup missed[c]) =>
                Stage[m.from] = "out" \/ HP!Heard(log[c], m.from)
<1>1. PICK m \in HP!Message :
        /\ log'[c] = Append(log[c], m)
        /\ m \in HP!FromServer(c) \cup HP!SignalsTo(c, 1..MaxMsgs)
        /\ m.type = "signal" =>
             /\ m.from \in Conns
             /\ \/ m.from \in {c} \cup missed[c]
                \/ Stage[m.from] = "out"
                \/ HP!Heard(log[c], m.from)
  BY HP!KnownGrowth, ServerAssumption DEF Stage
<1>2. \A k \in HP!FromServer(c) : k.from = None
  BY DEF HP!FromServer, HP!ServerMsg, HP!ErrorMsg
<1>3. \A k \in HP!SignalsTo(c, 1..MaxMsgs) : k.type = "signal"
  BY DEF HP!SignalsTo
<1>4. m \in H!Message
  BY DEF H!Message, HP!Message, H!MessageType, HP!MessageType
<1> QED  BY <1>1, <1>2, <1>3, <1>4, ServerAssumption

LEMMA NextStrangers ==
  PumpInv /\ HP!IInv /\ H!TypeOK /\ HP!RetractsGone /\ HP!RosterExact
    /\ [HP!Next]_HP!vars /\ StrangersOnlyAfterWriteFailure /\ [Next]_vars
    => StrangersOnlyAfterWriteFailure'
<1> SUFFICES ASSUME PumpInv, HP!IInv, H!TypeOK, HP!RetractsGone, HP!RosterExact,
                    [HP!Next]_HP!vars, StrangersOnlyAfterWriteFailure, [Next]_vars,
                    NEW c \in Conns, NEW x \in Conns, NEW j \in 1..Len(log'[c]),
                    log'[c][j].from = x, x \notin {c} \cup missed'[c],
                    \A i \in 1..(j - 1) : ~H!Announces(log'[c][i], x)
             PROVE  writer'[x] \in {"closing", "gone"}
  BY DEF StrangersOnlyAfterWriteFailure, H!Announces
<1>0. log[c] \in Seq(H!Message) /\ Len(log[c]) \in Nat
  BY DEF H!TypeOK
<1>1. x \notin {c} \cup missed[c]
  BY HP!MissedGrows, ServerAssumption DEF HP!IInv
<1>2. ASSUME j \in 1..Len(log[c]),
             \A k \in 1..Len(log[c]) : log'[c][k] = log[c][k]
      PROVE  writer'[x] \in {"closing", "gone"}
  <2>1. \A i \in 1..(j - 1) : i \in 1..Len(log[c])
    BY <1>0, <1>2
  <2>2. \A i \in 1..(j - 1) : ~H!Announces(log[c][i], x)
    BY <1>2, <2>1
  <2>3. writer[x] \in {"closing", "gone"}
    BY <1>1, <1>2, <2>2 DEF StrangersOnlyAfterWriteFailure
  <2> QED  BY <2>3, WriterStays
<1>3. CASE log'[c] = log[c]
  BY <1>2, <1>3
<1>4. CASE log'[c] # log[c]
  <2>1. PICK m \in H!Message :
           /\ log'[c] = Append(log[c], m)
           /\ m.from \in Conns \ ({c} \cup missed[c]) =>
                Stage[m.from] = "out" \/ HP!Heard(log[c], m.from)
    BY <1>4, UnknownSender
  <2>2. /\ Len(log'[c]) = Len(log[c]) + 1
        /\ \A k \in 1..Len(log[c]) : log'[c][k] = log[c][k]
        /\ log'[c][Len(log[c]) + 1] = m
    BY <1>0, <2>1, AppendedTo
  <2>3. CASE j \in 1..Len(log[c])
    BY <1>2, <2>2, <2>3
  <2>4. CASE j = Len(log[c]) + 1
    <3>1. m.from = x /\ \A i \in 1..Len(log[c]) : ~H!Announces(log[c][i], x)
      BY <1>0, <2>2, <2>4
    <3>2. Stage[x] = "out"
      <4>1. ASSUME HP!Heard(log[c], x) PROVE Stage[x] = "out"
        <5>1. PICK i \in 1..Len(log[c]) :
                HP!Announces(log[c][i], x) \/ HP!Retracts(log[c][i], x)
          BY <4>1 DEF HP!Heard
        <5>2. HP!Retracts(log[c][i], x)
          BY <3>1, <5>1 DEF HP!Announces, H!Announces
        <5> QED  BY <5>2 DEF HP!RetractsGone, Stage
      <4> QED  BY <1>1, <2>1, <3>1, <4>1
    <3>3. PICK k \in H!Message : /\ log'[c] = Append(log[c], k)
                                 /\ k.from \in Conns => reader[k.from] = "forwarding"
      BY <1>4, ForwardedBySender
    <3>4. k = m
      BY <1>0, <2>2, <3>3, AppendedTo
    <3>5. reader[x] = "forwarding"
      BY <3>1, <3>3, <3>4
    <3>6. handler[x] \in {"returning", "returned"}
      BY <3>2 DEF Stage, StageOf, PumpInv, Types
    <3>7. writer[x] \in {"closing", "gone"}
      BY <3>5, <3>6 DEF PumpInv, OneExit
    <3> QED  BY <3>7, WriterStays
  <2> QED  BY <1>0, <2>2, <2>3, <2>4
<1> QED  BY <1>3, <1>4

LEMMA RosterInServer == Spec => []HP!RosterExact
BY HubInServer, HP!RosterIsExact, ServerAssumption, PTL

(***************************************************************************)
(* Nobody is sent a signal of a peer it was never told of (main.go,        *)
(* readPump; hub.go, handleBroadcast), unless the announcement was dropped *)
(* or the write pump of that peer failed while its read pump went on.      *)
(***************************************************************************)
THEOREM StrangersAfterWriteFailure == Spec => []StrangersOnlyAfterWriteFailure
<1>1. Init => StrangersOnlyAfterWriteFailure
  BY DEF Init, H!HubInit, StrangersOnlyAfterWriteFailure
<1>2. [Next]_vars /\ PumpInv /\ Budget => [HP!Next]_HP!vars
  BY HubNext, SameStep
<1> QED  BY <1>1, <1>2, Invariance, HubTypeInvariance, HubInvariance, RosterInServer,
            NextStrangers, PTL DEF Spec

-----------------------------------------------------------------------------
(* The promises of the hub hold of the server.                             *)

(***************************************************************************)
(* In every interleaving of handlers and pumps (main.go), membership is    *)
(* that of a directory whose members hear of each change at once or never. *)
(***************************************************************************)
THEOREM ServerIsDirectory == Spec => HP!DirectorySpec
BY HubInServer, HP!ImplementsDirectory, ServerAssumption, PTL

(***************************************************************************)
(* And every channel starts with the handshake, carries signals in their   *)
(* order and nothing but what module Client expects, and amounts to who is *)
(* registered, so that clients of this server behave as module Signaling   *)
(* says.                                                                   *)
(***************************************************************************)
THEOREM ServerFeedsClients ==
  Spec => [](HP!HandshakeFirst /\ HP!SignalsInOrder /\ HP!FeedsClients
             /\ HP!RosterExact /\ HP!NoResurrection)
BY HubInServer, HP!HandshakeIsFirst, HP!SignalsStayInOrder, HP!HubFeedsClients,
   HP!RosterIsExact, HP!NobodyIsResurrected, ServerAssumption, PTL
=============================================================================
