------------------------------ MODULE Signaling ------------------------------
(***************************************************************************)
(* The hub and one of its clients: what the peer map and the handlers of   *)
(* client Me have to do with who is connected.  The hub is module Hub with *)
(* the most general server around it, which module Server implements, and  *)
(* the client is module Client but for its reading: it receives the        *)
(* messages that the write pump of its connection has taken from the       *)
(* channel peer.Send (cmd/server/main.go, writePump), in their order and   *)
(* as long as the connection lasts.  The other connections' clients may do *)
(* anything.                                                               *)
(***************************************************************************)
EXTENDS Messages, FiniteSets

CONSTANTS
  SendCap, MaxMsgs,                       \* as in Hub
  Me, App, Pump, Handlers, SignalOps, PeerOps,
  MaxReads, MaxCalls                      \* as in Client

VARIABLES
  registered,  \* the hub's h.peers
  log, taken, closed, hubPC, hubArg, missed, stage, routed,  \* as in Hub
  open, cancelled, done, reader, pinger, writeMu, mu, myID, peers, handler,
  subscribed, captured, op, seen, installedAt, closers, calls  \* as in Client

Signals == SignalsTo(Me, 1..MaxMsgs)

H == INSTANCE Hub WITH peers <- registered
C == INSTANCE Client

ASSUME HubAssumption == SendCap \in Nat /\ SendCap >= 2 /\ MaxMsgs \in Nat
ASSUME ClientAssumption ==
  /\ Me \in Conns
  /\ Pump \notin App \cup {None} /\ None \notin App
  /\ "pinger" \notin App \cup {Pump, None}
  /\ None \notin Handlers
  /\ SignalOps \subseteq C!Methods /\ PeerOps \subseteq C!Methods
  /\ MaxReads \in Nat /\ MaxCalls \in Nat

hubVars == <<registered, log, taken, closed, hubPC, hubArg, missed, stage, routed>>
clientVars == <<open, cancelled, done, reader, pinger, writeMu, mu, myID, peers,
                handler, subscribed, captured, op, seen, installedAt, closers, calls>>
vars == <<hubVars, clientVars>>

Init == H!Init /\ C!Init

\* Mutant: what was taken last comes first.
Receive_Latest ==
  /\ Len(seen) < taken[Me]
  /\ C!Receive(log[Me][taken[Me]])
  /\ UNCHANGED hubVars

Receive ==
  /\ Len(seen) < taken[Me]
  /\ C!Receive(log[Me][Len(seen) + 1])
  /\ UNCHANGED hubVars

Next ==
  \/ H!Next /\ UNCHANGED clientVars
  \/ C!Local /\ UNCHANGED hubVars
  \/ Receive

Spec == Init /\ [][Next]_vars

(***************************************************************************)
(* What peer.Send holds is written, what is written is read unless the     *)
(* read fails, and the read pump goes on when it can.  A write that fails  *)
(* shows as a read that fails.  A read that finds nothing need not end.    *)
(***************************************************************************)
Fairness ==
  /\ WF_vars(H!Take(Me) /\ UNCHANGED clientVars)
  /\ WF_vars(\/ Receive
             \/ C!ReadFails /\ Len(seen) < taken[Me] /\ UNCHANGED hubVars
             \/ (C!CheckContext \/ C!Handle \/ C!HandlerReturns) /\ UNCHANGED hubVars)

FairSpec == Spec /\ Fairness

-----------------------------------------------------------------------------
(* Properties.                                                             *)

(***************************************************************************)
(* The client is only sent what module Client assumes of its server, so    *)
(* that everything shown of the client holds of one behind this hub.       *)
(***************************************************************************)
ClientSpec == C!Spec

\* A message that changes what c believes of x has not reached the client yet.
UnderWay(x) ==
  \E i \in (Len(seen) + 1)..Len(log[Me]) :
    Announces(log[Me][i], x) \/ Retracts(log[Me][i], x)

(***************************************************************************)
(* Peers is right about every peer but those of whom the client has yet to *)
(* hear and those of whom the hub dropped an announcement (client.go:      *)
(* "Peers returns a list of connected peer IDs").                          *)
(***************************************************************************)
PeersLagBehind ==
  Me \in H!Settled /\ reader # "handle" =>
    \A x \in Conns \ missed[Me] :
      (x \in peers <=> x \in H!Settled \ {Me}) \/ UnderWay(x)

(***************************************************************************)
(* Whoever the signal handler is called for is in the peer map, unless it  *)
(* has left or the client missed that it joined.  The hub routes nothing   *)
(* while it registers a peer, so that no signal overtakes an announcement. *)
(***************************************************************************)
SenderIsListed ==
  reader = "inSignalHandler" =>
    LET x == seen[Len(seen)].from
    IN  x \in peers \cup missed[Me] \cup {Me} \/ stage[x] = "out"

(***************************************************************************)
(* The signal handler is called for the signals that are addressed to this *)
(* client, each once, in the order in which they reached the hub.          *)
(***************************************************************************)
SignalsReadInOrder ==
  \A i, j \in 1..Len(seen) :
    seen[i].type = "signal" =>
      /\ seen[i].to \in {Me, None}
      /\ i < j /\ seen[j].type = "signal" => seen[i].n < seen[j].n

(***************************************************************************)
(* When peers stop coming and going, Peers is right about all of whom no   *)
(* announcement was dropped, unless the connection is lost, the hub has    *)
(* let go of the client, or a handler is trapped.                          *)
(***************************************************************************)
PeersConverge ==
  <>[](\/ reader = "ended" \/ Me \notin H!Settled \/ C!Trapped
       \/ peers \ missed[Me] = H!Settled \ (missed[Me] \cup {Me}))
=============================================================================
