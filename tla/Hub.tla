-------------------------------- MODULE Hub --------------------------------
(***************************************************************************)
(* The signalling hub (internal/signaling/hub.go): one goroutine, Run,     *)
(* selects over the register, unregister and broadcast channels and runs   *)
(* the handler of what it received to the end.  A handler only blocks      *)
(* where it sends with `peer.Send <- msg`; those sends are actions of      *)
(* their own, everywhere else the hub uses select with a default case and  *)
(* drops the message when the peer's channel is full.                      *)
(*                                                                         *)
(* A connection is identified with the random ID its peer is given         *)
(* (generatePeerID), so an ID is never used twice.  The channel peer.Send  *)
(* is its whole history log[c] with the number taken[c] of messages its    *)
(* write pump has received: a Go channel is FIFO, so the messages it holds *)
(* are the last Len(log[c]) - taken[c].                                    *)
(***************************************************************************)
EXTENDS Messages, FiniteSets

CONSTANTS
  SendCap,   \* capacity of peer.Send, 256 in cmd/server/main.go
  MaxMsgs    \* bound: messages the hub routes in all

ASSUME CapAssumption == SendCap \in Nat /\ SendCap >= 2
ASSUME MsgsAssumption == MaxMsgs \in Nat

VARIABLES
  peers,    \* h.peers, the keys of the map
  log,      \* log[c]: every message ever put in c's Send channel
  taken,    \* taken[c]: how many of them c's write pump has received
  closed,   \* connections whose Send channel is closed
  hubPC,    \* where the hub goroutine is
  hubArg,   \* the peer its handler works for, None in select
  missed,   \* missed[c]: peers some announcement of which was dropped for c
  stage,    \* stage[c]: what c's HTTP handler has sent the hub so far
  routed    \* number of messages the hub has received for routing

hubVars == <<peers, log, taken, closed, hubPC, hubArg, missed>>
vars == <<peers, log, taken, closed, hubPC, hubArg, missed, stage, routed>>

-----------------------------------------------------------------------------
(* The channel peer.Send.                                                  *)

\* Mutant: one place of the channel is never used.
Full_OffByOne(c) == Len(log[c]) - taken[c] >= SendCap - 1

Full(c) == Len(log[c]) - taken[c] >= SendCap

\* select { case peer.Send <- m: default: } for every peer of S.
Offer(S, m) ==
  /\ log' = [c \in Conns |->
               IF c \in S /\ ~Full(c) THEN Append(log[c], m) ELSE log[c]]
  /\ missed' = [c \in Conns |->
                  IF c \in S /\ Full(c) THEN missed[c] \cup m.about ELSE missed[c]]

\* peer.Send <- m, which waits for room.
SendBlocking(c, m) ==
  /\ ~Full(c)
  /\ log' = [log EXCEPT ![c] = Append(@, m)]
  /\ UNCHANGED missed

\* The write pump receives the next message; a closed channel still drains.
Receive(c) ==
  /\ taken[c] < Len(log[c])
  /\ taken' = [taken EXCEPT ![c] = @ + 1]

-----------------------------------------------------------------------------
(* The handlers.                                                           *)

Goto(pc, c) == hubPC' = pc /\ hubArg' = c

\* Mutant: everyone, the new peer too, hears of it before the handshake.
HandleRegister_AnnounceFirst(c) ==
  /\ hubPC = "select"
  /\ peers' = peers \cup {c}
  /\ Offer(peers', ServerMsg("peer_joined", {c}))
  /\ Goto("sendRegistered", c)
  /\ UNCHANGED <<taken, closed>>

HandleRegister(c) ==
  /\ hubPC = "select"
  /\ peers' = peers \cup {c}
  /\ Goto("sendRegistered", c)
  /\ UNCHANGED <<log, taken, closed, missed>>

SendRegistered ==
  /\ hubPC = "sendRegistered"
  /\ SendBlocking(hubArg, ServerMsg("peer_registered", {hubArg}))
  /\ Goto("sendPeerList", hubArg)
  /\ UNCHANGED <<peers, taken, closed>>

\* Mutant: the list includes the peer it is sent to.
SendPeerList_WithSelf ==
  /\ hubPC = "sendPeerList"
  /\ SendBlocking(hubArg, ServerMsg("peer_list", peers))
  /\ Goto("broadcastJoined", hubArg)
  /\ UNCHANGED <<peers, taken, closed>>

SendPeerList ==
  /\ hubPC = "sendPeerList"
  /\ SendBlocking(hubArg, ServerMsg("peer_list", peers \ {hubArg}))
  /\ Goto("broadcastJoined", hubArg)
  /\ UNCHANGED <<peers, taken, closed>>

\* Mutant: broadcastToAll in place of broadcastToOthers.
BroadcastJoined_ToAll ==
  /\ hubPC = "broadcastJoined"
  /\ Offer(peers, ServerMsg("peer_joined", {hubArg}))
  /\ Goto("select", None)
  /\ UNCHANGED <<peers, taken, closed>>

BroadcastJoined ==
  /\ hubPC = "broadcastJoined"
  /\ Offer(peers \ {hubArg}, ServerMsg("peer_joined", {hubArg}))
  /\ Goto("select", None)
  /\ UNCHANGED <<peers, taken, closed>>

\* Mutant: the channel is closed but the peer stays in the map.
HandleUnregister_KeepPeer(c) ==
  /\ hubPC = "select"
  /\ closed' = closed \cup (peers \cap {c})
  /\ Offer(peers \ {c}, ServerMsg("peer_left", {c}))
  /\ UNCHANGED <<peers, taken, hubPC, hubArg>>

\* Mutant: Run starts the handler as a goroutine.
HandleUnregister_Async(c) ==
  /\ peers' = peers \ {c}
  /\ closed' = closed \cup (peers \cap {c})
  /\ Offer(peers', ServerMsg("peer_left", {c}))
  /\ UNCHANGED <<taken, hubPC, hubArg>>

HandleUnregister(c) ==
  /\ hubPC = "select"
  /\ peers' = peers \ {c}
  /\ closed' = closed \cup (peers \cap {c})
  /\ Offer(peers', ServerMsg("peer_left", {c}))
  /\ UNCHANGED <<taken, hubPC, hubArg>>

\* Mutant: the target only selects between the branches.
ForwardTo_Everyone(c, to, n) ==
  /\ to \in peers
  /\ Offer(peers, SignalMsg(c, to, n))
  /\ UNCHANGED <<hubPC, hubArg>>

\* Mutant: the error is sent to the target, not to the sender.
TargetNotFound_ReplyToTarget(c, to) ==
  /\ to \notin peers \cup {None}
  /\ IF c \in peers THEN Goto("sendError", to) ELSE UNCHANGED <<hubPC, hubArg>>
  /\ UNCHANGED <<log, missed>>

\* A message with a target goes to that peer only ...
ForwardTo(c, to, n) ==
  /\ to \in peers
  /\ Offer({to}, SignalMsg(c, to, n))
  /\ UNCHANGED <<hubPC, hubArg>>

\* ... an unknown target is reported to the sender, with a blocking send ...
TargetNotFound(c, to) ==
  /\ to \notin peers \cup {None}
  /\ IF c \in peers THEN Goto("sendError", c) ELSE UNCHANGED <<hubPC, hubArg>>
  /\ UNCHANGED <<log, missed>>

\* ... and a message without a target goes to everyone, its sender included.
ForwardToAll(c, to, n) ==
  /\ to = None
  /\ Offer(peers, SignalMsg(c, to, n))
  /\ UNCHANGED <<hubPC, hubArg>>

\* Mutant: Run starts the handler as a goroutine.
HandleBroadcast_Async(c, to, n) ==
  /\ \/ ForwardTo(c, to, n)
     \/ ForwardToAll(c, to, n)
     \/ hubPC = "select" /\ TargetNotFound(c, to)
  /\ UNCHANGED <<peers, taken, closed>>

HandleBroadcast(c, to, n) ==
  /\ hubPC = "select"
  /\ ForwardTo(c, to, n) \/ TargetNotFound(c, to) \/ ForwardToAll(c, to, n)
  /\ UNCHANGED <<peers, taken, closed>>

SendError ==
  /\ hubPC = "sendError"
  /\ SendBlocking(hubArg, ErrorMsg(hubArg))
  /\ Goto("select", None)
  /\ UNCHANGED <<peers, taken, closed>>

-----------------------------------------------------------------------------
(* The hub with the most general server around it: a connection registers  *)
(* once, unregisters once after that, and its read pump may still hand     *)
(* over messages while (and after) it is unregistered.                     *)

HubInit ==
  /\ peers = {}
  /\ log = [c \in Conns |-> <<>>]
  /\ taken = [c \in Conns |-> 0]
  /\ closed = {}
  /\ hubPC = "select"
  /\ hubArg = None
  /\ missed = [c \in Conns |-> {}]

Init ==
  /\ HubInit
  /\ stage = [c \in Conns |-> "new"]
  /\ routed = 0

Register(c) ==
  /\ stage[c] = "new"
  /\ stage' = [stage EXCEPT ![c] = "in"]
  /\ HandleRegister(c)
  /\ UNCHANGED routed

Unregister(c) ==
  /\ stage[c] = "in"
  /\ stage' = [stage EXCEPT ![c] = "out"]
  /\ HandleUnregister(c)
  /\ UNCHANGED routed

Broadcast(c, to) ==
  /\ stage[c] # "new"
  /\ routed < MaxMsgs
  /\ routed' = routed + 1
  /\ HandleBroadcast(c, to, routed')
  /\ UNCHANGED stage

\* The hub goroutine between two rounds of select.
HubStep == SendRegistered \/ SendPeerList \/ BroadcastJoined \/ SendError

Take(c) ==
  /\ Receive(c)
  /\ UNCHANGED <<peers, log, closed, hubPC, hubArg, missed, stage, routed>>

Next ==
  \/ HubStep /\ UNCHANGED <<stage, routed>>
  \/ \E c \in Conns :
       \/ Register(c)
       \/ Unregister(c)
       \/ \E to \in Dests : Broadcast(c, to)
       \/ Take(c)

Spec == Init /\ [][Next]_vars

-----------------------------------------------------------------------------
\* The peers whose registration the hub has completed.
Settled ==
  IF hubPC \in {"sendRegistered", "sendPeerList", "broadcastJoined"}
    THEN peers \ {hubArg} ELSE peers

(***************************************************************************)
(* The hub implements the directory of module Roster: although a           *)
(* registration takes four steps, it is as if the new peer joined, was     *)
(* given the list and was announced to the others all at once, in the step *)
(* in which handleRegister broadcasts peer_joined.                         *)
(***************************************************************************)
Directory == INSTANCE Roster WITH
  members <- Settled,
  gone <- {c \in Conns : stage[c] = "out"},
  view <- [c \in Conns |->
             IF c \in Settled THEN {x \in Conns : Believes(log[c], x)} ELSE {}]

DirectorySpec == Directory!Spec

-----------------------------------------------------------------------------
(* Properties.                                                             *)

TypeOK ==
  /\ peers \subseteq Conns
  /\ log \in [Conns -> Seq(Message)]
  /\ taken \in [Conns -> Nat]
  /\ closed \subseteq Conns
  /\ hubPC \in {"select", "sendRegistered", "sendPeerList", "broadcastJoined",
                "sendError"}
  /\ hubArg \in Conns \cup {None}
  /\ missed \in [Conns -> SUBSET Conns]
  /\ stage \in [Conns -> {"new", "in", "out"}]
  /\ routed \in Nat

(***************************************************************************)
(* The hub never sends on, or closes, a channel it closed before: either   *)
(* would panic and take the server down.  handleUnregister closes Send     *)
(* only while it removes the peer from the map, and every send goes to a   *)
(* peer of the map or to the peer the current handler works for.           *)
(***************************************************************************)
NoSendOnClosed ==
  /\ peers \cap closed = {}
  /\ hubPC # "select" => hubArg \in peers

(***************************************************************************)
(* The two unconditional sends of handleRegister never stop the hub: the   *)
(* channel of a peer that is being registered always has room.             *)
(***************************************************************************)
RegistrationNeverBlocks ==
  hubPC \in {"sendRegistered", "sendPeerList"} => ~Full(hubArg)

(***************************************************************************)
(* A peer is told its own ID first and the list of the others second, and  *)
(* neither of them ever again, whatever is broadcast or routed to it while *)
(* handleRegister runs.                                                    *)
(***************************************************************************)
HandshakeFirst ==
  \A c \in Conns : \A i \in 1..Len(log[c]) :
    /\ log[c][i].type = "peer_registered" <=> i = 1
    /\ log[c][i].type = "peer_list" <=> i = 2
    /\ i = 1 => log[c][i].about = {c}

(***************************************************************************)
(* What every channel carries is what module Client assumes of its server, *)
(* whatever is dropped: no peer joins twice or after it was listed or left,*)
(* none leaves twice, and nobody hears of itself.                          *)
(***************************************************************************)
FeedsClients ==
  \A c \in Conns : \A i \in 1..Len(log[c]) :
    MayFollow(SubSeq(log[c], 1, i - 1), c, log[c][i])

(***************************************************************************)
(* Apart from the peers of which an announcement to c was dropped, what c  *)
(* has been sent amounts to exactly the other peers of the hub: no peer is *)
(* forgotten and none that has left is still believed to be there.         *)
(***************************************************************************)
RosterExact ==
  \A c \in Settled : \A x \in Conns \ missed[c] :
    Believes(log[c], x) <=> x \in Settled \ {c}

(***************************************************************************)
(* A client's peer map lists the connected peers (client.go: "Peers        *)
(* returns a list of connected peer IDs"): with nothing left to receive,   *)
(* it believes in all the others.                                          *)
(***************************************************************************)
RosterComplete ==
  \A c \in Settled :
    taken[c] = Len(log[c]) => \A x \in Settled \ {c} : Believes(log[c], x)

(***************************************************************************)
(* Even when announcements are dropped, no peer comes back from the dead:  *)
(* once c was told that x left, nothing c is sent announces x.             *)
(***************************************************************************)
NoResurrection ==
  \A c, x \in Conns : \A i, j \in 1..Len(log[c]) :
    Retracts(log[c][i], x) /\ Announces(log[c][j], x) => j < i

(***************************************************************************)
(* Signals are routed to whom they are addressed, each at most once, and   *)
(* in the order in which the hub received them, whoever sent them.         *)
(***************************************************************************)
SignalsInOrder ==
  \A c \in Conns : \A i, j \in 1..Len(log[c]) :
    LET a == log[c][i]
        b == log[c][j]
    IN  a.type = "signal" =>
          /\ a.to \in {c, None}
          /\ i < j /\ b.type = "signal" => a.n < b.n
=============================================================================
