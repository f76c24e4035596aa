------------------------------- MODULE Server -------------------------------
(***************************************************************************)
(* The signalling server (cmd/server/main.go) around the hub.  Every       *)
(* accepted WebSocket has three goroutines: the HTTP handler               *)
(* (handleWebSocket), which registers the peer, waits for one value on the *)
(* unbuffered channel done, unregisters and closes the socket; a read pump *)
(* that hands the client's messages to the hub; and a write pump that      *)
(* writes what the hub puts in peer.Send, and pings.  Both pumps send on   *)
(* done when they end.  The hub's channels are unbuffered, so a send to    *)
(* the hub and the hub's receive are one step.                             *)
(***************************************************************************)
EXTENDS Naturals, Sequences, FiniteSets

CONSTANTS Conns, None, SendCap, Dests, MaxMsgs

ASSUME ServerAssumption ==
  None \notin Conns /\ SendCap \in Nat /\ SendCap >= 2 /\ MaxMsgs \in Nat

VARIABLES
  peers, log, taken, closed, hubPC, hubArg, missed, routed,  \* as in Hub
  handler,  \* handler[c]: where c's handleWebSocket is
  reader,   \* reader[c]: where c's readPump is
  dest,     \* dest[c]: the "to" of the message c's readPump is forwarding
  writer,   \* writer[c]: where c's writePump is
  written,  \* written[c]: how many messages of log[c] are on the socket
  sock      \* connections whose socket the server holds open

StageOf(c) ==
  IF handler[c] \in {"none", "registering"} THEN "new"
  ELSE IF handler[c] \in {"serving", "unregistering"} THEN "in"
  ELSE "out"

H == INSTANCE Hub WITH stage <- [c \in Conns |-> StageOf(c)]

hubVars == <<peers, log, taken, closed, hubPC, hubArg, missed, routed>>
connVars == <<handler, reader, dest, writer, written, sock>>
vars == <<hubVars, connVars>>

Init ==
  /\ H!HubInit
  /\ routed = 0
  /\ handler = [c \in Conns |-> "none"]
  /\ reader = [c \in Conns |-> "none"]
  /\ dest = [c \in Conns |-> None]
  /\ writer = [c \in Conns |-> "none"]
  /\ written = [c \in Conns |-> 0]
  /\ sock = {}

-----------------------------------------------------------------------------
(* handleWebSocket.                                                        *)

\* Mutant: the pumps start before the peer is registered.
Accept_PumpsFirst(c) ==
  /\ handler[c] = "none"
  /\ handler' = [handler EXCEPT ![c] = "registering"]
  /\ sock' = sock \cup {c}
  /\ reader' = [reader EXCEPT ![c] = "reading"]
  /\ UNCHANGED <<hubVars, dest, writer, written>>

\* The upgrade succeeded and a fresh peer ID was drawn.
Accept(c) ==
  /\ handler[c] = "none"
  /\ handler' = [handler EXCEPT ![c] = "registering"]
  /\ sock' = sock \cup {c}
  /\ UNCHANGED <<hubVars, reader, dest, writer, written>>

\* The hub takes the peer, and the handler starts the pumps.
Register(c) ==
  /\ handler[c] = "registering"
  /\ H!HandleRegister(c)
  /\ handler' = [handler EXCEPT ![c] = "serving"]
  /\ reader' = [reader EXCEPT ![c] = "reading"]
  /\ writer' = [writer EXCEPT ![c] = "idle"]
  /\ UNCHANGED <<routed, dest, written, sock>>

Unregister(c) ==
  /\ handler[c] = "unregistering"
  /\ H!HandleUnregister(c)
  /\ handler' = [handler EXCEPT ![c] = "returning"]
  /\ UNCHANGED <<routed, reader, dest, writer, written, sock>>

\* The deferred conn.Close.
Return(c) ==
  /\ handler[c] = "returning"
  /\ handler' = [handler EXCEPT ![c] = "returned"]
  /\ sock' = sock \ {c}
  /\ UNCHANGED <<hubVars, reader, dest, writer, written>>

-----------------------------------------------------------------------------
(* readPump.                                                               *)

Forwarding == {c \in Conns : reader[c] = "forwarding"}

\* A message arrives; one already buffered is delivered even after a close.
Read(c, to) ==
  /\ reader[c] = "reading"
  /\ routed + Cardinality(Forwarding) < MaxMsgs
  /\ reader' = [reader EXCEPT ![c] = "forwarding"]
  /\ dest' = [dest EXCEPT ![c] = to]
  /\ UNCHANGED <<hubVars, handler, writer, written, sock>>

Forward(c) ==
  /\ reader[c] = "forwarding"
  /\ H!HandleBroadcast(c, dest[c], routed + 1)
  /\ routed' = routed + 1
  /\ reader' = [reader EXCEPT ![c] = "reading"]
  /\ dest' = [dest EXCEPT ![c] = None]
  /\ UNCHANGED <<handler, writer, written, sock>>

\* The client disconnected, its pongs stopped for 60 seconds, or the server
\* closed the socket.
ReadFails(c) ==
  /\ reader[c] = "reading"
  /\ reader' = [reader EXCEPT ![c] = "exiting"]
  /\ UNCHANGED <<hubVars, handler, dest, writer, written, sock>>

\* Mutant: done has room for a value nobody waits for.
ReaderDone_Buffered(c) ==
  /\ reader[c] = "exiting"
  /\ reader' = [reader EXCEPT ![c] = "gone"]
  /\ handler' = [handler EXCEPT ![c] = IF @ = "serving" THEN "unregistering" ELSE @]
  /\ UNCHANGED <<hubVars, dest, writer, written, sock>>

\* Mutant: messages are handed over by a goroutine of their own.
ReaderDone_HandOverLater(c) ==
  /\ reader[c] \in {"forwarding", "exiting"}
  /\ handler[c] = "serving"
  /\ reader' = [reader EXCEPT ![c] = IF @ = "exiting" THEN "gone" ELSE @]
  /\ handler' = [handler EXCEPT ![c] = "unregistering"]
  /\ UNCHANGED <<hubVars, dest, writer, written, sock>>

\* Mutant: the handler waits for both pumps.
ReaderDone_WaitForBoth(c) ==
  /\ reader[c] = "exiting"
  /\ handler[c] = "serving"
  /\ reader' = [reader EXCEPT ![c] = "gone"]
  /\ UNCHANGED <<hubVars, handler, dest, writer, written, sock>>

\* done <- struct{}{}, received by the handler.
ReaderDone(c) ==
  /\ reader[c] = "exiting"
  /\ handler[c] = "serving"
  /\ reader' = [reader EXCEPT ![c] = "gone"]
  /\ handler' = [handler EXCEPT ![c] = "unregistering"]
  /\ UNCHANGED <<hubVars, dest, writer, written, sock>>

-----------------------------------------------------------------------------
(* writePump.                                                              *)

\* Mutant: waits until there are two messages to take.
TakeMessage_OffByOne(c) ==
  /\ writer[c] = "idle"
  /\ taken[c] + 1 < Len(log[c])
  /\ H!Receive(c)
  /\ writer' = [writer EXCEPT ![c] = "writing"]
  /\ UNCHANGED <<peers, log, closed, hubPC, hubArg, missed, routed,
                 handler, reader, dest, written, sock>>

TakeMessage(c) ==
  /\ writer[c] = "idle"
  /\ H!Receive(c)
  /\ writer' = [writer EXCEPT ![c] = "writing"]
  /\ UNCHANGED <<peers, log, closed, hubPC, hubArg, missed, routed,
                 handler, reader, dest, written, sock>>

WriteSucceeds(c) ==
  /\ writer[c] = "writing"
  /\ c \in sock
  /\ writer' = [writer EXCEPT ![c] = "idle"]
  /\ written' = [written EXCEPT ![c] = taken[c]]
  /\ UNCHANGED <<hubVars, handler, reader, dest, sock>>

\* The write fails, at the latest when its deadline of 10 seconds expires.
WriteFails(c) ==
  /\ writer[c] = "writing"
  /\ writer' = [writer EXCEPT ![c] = "exiting"]
  /\ UNCHANGED <<hubVars, handler, reader, dest, written, sock>>

\* The ping that a tick of the 30-second ticker sends fails.
PingFails(c) ==
  /\ writer[c] = "idle"
  /\ writer' = [writer EXCEPT ![c] = "exiting"]
  /\ UNCHANGED <<hubVars, handler, reader, dest, written, sock>>

\* The hub closed peer.Send and the channel is drained.
SendClosed(c) ==
  /\ writer[c] = "idle"
  /\ c \in closed
  /\ taken[c] = Len(log[c])
  /\ writer' = [writer EXCEPT ![c] = "exiting"]
  /\ UNCHANGED <<hubVars, handler, reader, dest, written, sock>>

\* done <- struct{}{}; conn.Close() follows it in the deferred function.
WriterDone(c) ==
  /\ writer[c] = "exiting"
  /\ handler[c] = "serving"
  /\ writer' = [writer EXCEPT ![c] = "closing"]
  /\ handler' = [handler EXCEPT ![c] = "unregistering"]
  /\ UNCHANGED <<hubVars, reader, dest, written, sock>>

WriterCloses(c) ==
  /\ writer[c] = "closing"
  /\ writer' = [writer EXCEPT ![c] = "gone"]
  /\ sock' = sock \ {c}
  /\ UNCHANGED <<hubVars, handler, reader, dest, written>>

-----------------------------------------------------------------------------
(* The hub goroutine inside a handler, and the specification.              *)

HubStep == H!HubStep /\ UNCHANGED <<routed, connVars>>

\* Every connection has come and gone: the only way the server may stop.
AllReturned ==
  /\ \A c \in Conns : handler[c] = "returned"
  /\ UNCHANGED vars

Next ==
  \/ HubStep
  \/ AllReturned
  \/ \E c \in Conns :
       \/ Accept(c) \/ Register(c) \/ Unregister(c) \/ Return(c)
       \/ (\E to \in Dests : Read(c, to))
       \/ Forward(c) \/ ReadFails(c) \/ ReaderDone(c)
       \/ TakeMessage(c) \/ WriteSucceeds(c) \/ WriteFails(c) \/ PingFails(c)
       \/ SendClosed(c) \/ WriterDone(c) \/ WriterCloses(c)

Spec == Init /\ [][Next]_vars

(***************************************************************************)
(* Every goroutine that can go on eventually does.  A write returns, one   *)
(* way or the other, because of its deadline, and a read fails once the    *)
(* server has closed the socket.  What is read, and any other failure of a *)
(* read or of a ping, is up to the client and the network.                 *)
(***************************************************************************)
Fairness ==
  /\ WF_vars(HubStep)
  /\ \A c \in Conns :
       /\ WF_vars(Register(c)) /\ WF_vars(Unregister(c)) /\ WF_vars(Return(c))
       /\ WF_vars(Forward(c)) /\ WF_vars(c \notin sock /\ ReadFails(c)) /\ WF_vars(ReaderDone(c))
       /\ WF_vars(TakeMessage(c)) /\ WF_vars(SendClosed(c))
       /\ WF_vars(WriteSucceeds(c) \/ WriteFails(c))
       /\ WF_vars(WriterDone(c)) /\ WF_vars(WriterCloses(c))

FairSpec == Spec /\ Fairness

-----------------------------------------------------------------------------
(* Properties.                                                             *)

TypeOK ==
  /\ H!TypeOK
  /\ handler \in [Conns -> {"none", "registering", "serving", "unregistering",
                            "returning", "returned"}]
  /\ reader \in [Conns -> {"none", "reading", "forwarding", "exiting", "gone"}]
  /\ dest \in [Conns -> Dests \cup {None}]
  /\ writer \in [Conns -> {"none", "idle", "writing", "exiting", "closing", "gone"}]
  /\ written \in [Conns -> Nat]
  /\ sock \subseteq Conns

(***************************************************************************)
(* The server drives the hub as module Hub allows: a peer is registered    *)
(* once, unregistered once after that, and nothing is routed for a peer    *)
(* before it is registered.                                                *)
(***************************************************************************)
HubSpec == H!Spec

(***************************************************************************)
(* The handler unregisters its peer on the first value of done and on no   *)
(* other: until it stops waiting neither pump has got past its send, and   *)
(* from then on exactly one of them ever has.                              *)
(***************************************************************************)
OneExit ==
  \A c \in Conns :
    LET readerGone == reader[c] = "gone"
        writerGone == writer[c] \in {"closing", "gone"}
    IN  IF handler[c] \in {"none", "registering", "serving"}
          THEN ~readerGone /\ ~writerGone
          ELSE readerGone # writerGone

(***************************************************************************)
(* A signal of x can reach a peer after peer_left(x) only when it was x's  *)
(* write pump that ended first: handleWebSocket unregisters x at once,     *)
(* while x's read pump may still be handing over messages.  After a        *)
(* disconnect noticed by the read pump nothing of x follows peer_left(x).  *)
(***************************************************************************)
StragglersOnlyAfterWriteFailure ==
  \A c, x \in Conns : \A i, j \in 1..Len(log[c]) :
    i < j /\ H!Retracts(log[c][i], x) /\ log[c][j].from = x
      => writer[x] \in {"closing", "gone"}

(***************************************************************************)
(* Under the same condition alone can a peer get a signal of x without     *)
(* having been told of x, unless that announcement was dropped: x had left *)
(* when the peer was given its list.                                       *)
(***************************************************************************)
StrangersOnlyAfterWriteFailure ==
  \A c, x \in Conns : \A j \in 1..Len(log[c]) :
    /\ log[c][j].from = x
    /\ x \notin {c} \cup missed[c]
    /\ \A i \in 1..(j - 1) : ~H!Announces(log[c][i], x)
    => writer[x] \in {"closing", "gone"}

(***************************************************************************)
(* The handler receives one value from done, so of the two pumps exactly   *)
(* one gets past its send; the other stays there for the life of the       *)
(* server, one goroutine for every connection there ever was.              *)
(***************************************************************************)
OnePumpLeaks ==
  \A c \in Conns : handler[c] = "returned" ~>
    [](\/ reader[c] = "gone" /\ writer[c] = "exiting"
       \/ reader[c] = "exiting" /\ writer[c] = "gone")

(***************************************************************************)
(* A server that routes nothing always comes back to the hub's select      *)
(* loop: the blocking sends of a registration get through, whatever the    *)
(* pumps do.  The blocking error reply of handleBroadcast is another       *)
(* matter: see DisconnectAnnounced of a server with signals.               *)
(***************************************************************************)
HubKeepsServing == []<>(hubPC = "select")

(***************************************************************************)
(* Once a pump has noticed that the peer is gone, the peer is eventually   *)
(* removed from the hub, which is when peer_left is broadcast, and its     *)
(* socket is closed.                                                       *)
(***************************************************************************)
DisconnectAnnounced ==
  \A c \in Conns :
    c \in peers /\ "exiting" \in {reader[c], writer[c]} ~> c \notin peers \cup sock

(***************************************************************************)
(* What the hub has put in a peer's channel is eventually written to the   *)
(* peer's socket, unless the peer's write pump has ended first.            *)
(***************************************************************************)
QueuedIsWritten ==
  \A c \in Conns :
    written[c] < Len(log[c]) ~>
      (written[c] = Len(log[c]) \/ writer[c] \in {"exiting", "closing", "gone"})
=============================================================================
