------------------------------ MODULE Messages ------------------------------
(***************************************************************************)
(* The messages between the signalling server and its clients              *)
(* (internal/signaling/message.go, pkg/p2p/transport), all of one shape.   *)
(* The peers a message is about are its payload; a signal carries the      *)
(* number n it got when the hub received it in place of its contents.      *)
(***************************************************************************)
EXTENDS Naturals, Sequences

CONSTANTS
  Conns,     \* every WebSocket connection the server ever accepts
  None,      \* the empty string: no peer ID
  Dests      \* what clients put in "to": None to broadcast, the ID of a peer,
             \* or any other text

ASSUME NoneAssumption == None \notin Conns

MessageType == {"peer_registered", "peer_list", "peer_joined", "peer_left",
                "signal", "error"}

Message == [type : MessageType, from : Conns \cup {None},
            to : Conns \cup Dests \cup {None}, about : SUBSET Conns, n : Nat]

ServerMsg(type, S) ==
  [type |-> type, from |-> None, to |-> None, about |-> S, n |-> 0]

SignalMsg(c, to, n) ==
  [type |-> "signal", from |-> c, to |-> to, about |-> {}, n |-> n]

ErrorMsg(c) ==
  [type |-> "error", from |-> None, to |-> c, about |-> {}, n |-> 0]

\* The signals, of these numbers, that client c may be sent.
SignalsTo(c, numbers) ==
  [type : {"signal"}, from : Conns, to : {c, None}, about : {{}}, n : numbers]

\* What the server itself says to client c.
FromServer(c) ==
  {ServerMsg("peer_registered", {c}), ErrorMsg(c)}
  \cup {ServerMsg("peer_list", S) : S \in SUBSET Conns}
  \cup {ServerMsg("peer_joined", {x}) : x \in Conns}
  \cup {ServerMsg("peer_left", {x}) : x \in Conns}

-----------------------------------------------------------------------------
(* What a client makes of the messages it is sent: the peer map that       *)
(* handlePeerEvent (pkg/p2p/client.go) builds from list, joined and left.  *)

Announces(m, x) == m.type \in {"peer_list", "peer_joined"} /\ x \in m.about

Retracts(m, x) == m.type = "peer_left" /\ x \in m.about

Believes(s, x) ==
  \E i \in 1..Len(s) :
    /\ Announces(s[i], x)
    /\ \A j \in (i + 1)..Len(s) : ~Retracts(s[j], x)

-----------------------------------------------------------------------------
(* What the server may send client c after the messages s: the handshake   *)
(* first, then each other peer joins at most once, and not after it left.  *)
(* Module Client assumes it, module Hub shows it.                          *)

Heard(s, x) == \E i \in 1..Len(s) : Announces(s[i], x) \/ Retracts(s[i], x)
HeardLeft(s, x) == \E i \in 1..Len(s) : Retracts(s[i], x)

MayFollow(s, c, m) ==
  \/ Len(s) = 0 /\ m.type = "peer_registered" /\ m.about = {c}
  \/ Len(s) = 1 /\ m.type = "peer_list" /\ c \notin m.about
  \/ /\ Len(s) >= 2
     /\ \/ m.type = "peer_joined" /\ \E x \in Conns \ {c} : m.about = {x} /\ ~Heard(s, x)
        \/ m.type = "peer_left" /\ \E x \in Conns \ {c} : m.about = {x} /\ ~HeardLeft(s, x)
        \/ m.type \in {"signal", "error"}
=============================================================================
