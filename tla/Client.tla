------------------------------- MODULE Client -------------------------------
(***************************************************************************)
(* The client library: p2p.Client (pkg/p2p/client.go) over                 *)
(* transport.WebSocketClient (pkg/p2p/transport/websocket.go).  A          *)
(* connected client has a read pump, which handles one message at a time   *)
(* and calls the application's handlers, a write pump that only pings, and *)
(* the application's own goroutines, which call the client's methods.  A   *)
(* handler runs on the read pump and may call the same methods.            *)
(*                                                                         *)
(* p2p.Client.mu is held across steps only by handlePeerEvent, which keeps *)
(* it while the application's peer handler runs; every other critical      *)
(* section, of this lock and of the transport's, is one step.              *)
(***************************************************************************)
EXTENDS Messages, FiniteSets

CONSTANTS
  Me,         \* the ID the server gives this client
  App,        \* the application's goroutines
  Pump,       \* the goroutine of the read pump
  Handlers,   \* what the application passes to OnSignal
  SignalOps,  \* the methods that its signal handlers call
  PeerOps,    \* the methods that its peer handler calls
  Signals,    \* what other clients send it through the server
  MaxReads,   \* bound: messages read
  MaxCalls    \* bound: calls of the client's methods

Methods == {"close", "send", "peers", "onSignal", "onPeerEvent"}
LockMethods == {"peers", "onSignal", "onPeerEvent"}
Threads == App \cup {Pump}

ASSUME MeAssumption == Me \in Conns
ASSUME PumpAssumption == Pump \notin App \cup {None} /\ None \notin App
ASSUME PingerAssumption == "pinger" \notin App \cup {Pump, None}
ASSUME HandlersAssumption == None \notin Handlers
ASSUME SignalsAssumption == \A m \in Signals : m \in Message /\ m.type = "signal"
ASSUME OpsAssumption == SignalOps \subseteq Methods /\ PeerOps \subseteq Methods
ASSUME BoundsAssumption == MaxReads \in Nat /\ MaxCalls \in Nat

VARIABLES
  open,         \* c.conn has not been closed by Close
  cancelled,    \* c.ctx is cancelled
  done,         \* c.done is closed
  reader,       \* where readPump is
  pinger,       \* where writePump is
  writeMu,      \* who holds c.writeMu: a thread, "pinger", or None
  mu,           \* who holds p2p.Client.mu: Pump or None
  myID,         \* c.myID
  peers,        \* the keys of Client.peers
  handler,      \* Client.handler, None when nil
  subscribed,   \* Client.peerHandler is not nil
  captured,     \* the signal handler that the read pump took last
  op,           \* op[t]: where t is in a method of the client
  seen,         \* every message read so far
  installedAt,  \* Len(seen) when OnSignal was last called
  closers,      \* the threads to which Close has returned
  calls         \* number of calls

connVars == <<open, cancelled, done>>
pumpVars == <<reader, captured, seen, myID, peers>>
pingVars == <<pinger>>
appVars == <<handler, subscribed, installedAt>>
callVars == <<op, closers, calls>>
vars == <<connVars, pumpVars, pingVars, appVars, callVars, writeMu, mu>>

\* Connect has set the handlers of the transport, dialled and started the pumps.
Init ==
  /\ open = TRUE /\ cancelled = FALSE /\ done = FALSE
  /\ reader = "check" /\ pinger = "wait"
  /\ writeMu = None /\ mu = None
  /\ myID = None /\ peers = {}
  /\ handler = None /\ subscribed = FALSE /\ captured = None
  /\ op = [t \in Threads |-> "idle"]
  /\ seen = <<>> /\ installedAt = 0
  /\ closers = {} /\ calls = 0

-----------------------------------------------------------------------------
(* readPump.                                                               *)

Ends == reader' = "ended" /\ done' = TRUE

CheckContext ==
  /\ reader = "check"
  /\ IF cancelled THEN Ends ELSE reader' = "read" /\ UNCHANGED done
  /\ UNCHANGED <<open, cancelled, captured, seen, myID, peers, pingVars, appVars,
                 callVars, writeMu, mu>>

\* ReadMessage; what is buffered is still returned after the socket is closed.
Receive(m) ==
  /\ reader = "read"
  /\ Len(seen) < MaxReads
  /\ seen' = Append(seen, m)
  /\ reader' = "handle"
  /\ UNCHANGED <<connVars, captured, myID, peers, pingVars, appVars, callVars,
                 writeMu, mu>>

Read == \E m \in FromServer(Me) \cup Signals : MayFollow(seen, Me, m) /\ Receive(m)

\* The server or the network is gone, nothing came for 60 seconds, or Close.
ReadFails ==
  /\ reader = "read"
  /\ Ends
  /\ UNCHANGED <<open, cancelled, captured, seen, myID, peers, pingVars, appVars,
                 callVars, writeMu, mu>>

Handling(types) == reader = "handle" /\ seen[Len(seen)].type \in types
Subject == seen[Len(seen)].about

HandleRegistered ==
  /\ Handling({"peer_registered"})
  /\ mu = None
  /\ myID' = CHOOSE x \in Subject : TRUE
  /\ reader' = "check"
  /\ UNCHANGED <<connVars, captured, seen, peers, pingVars, appVars, callVars,
                 writeMu, mu>>

\* Mutant: a peer that leaves stays in the map.
HandlePeerEvent_KeepLeft ==
  /\ Handling({"peer_list", "peer_joined", "peer_left"})
  /\ mu = None
  /\ peers' = IF Handling({"peer_left"}) THEN peers ELSE peers \cup Subject
  /\ IF subscribed
       THEN reader' = "inPeerHandler" /\ mu' = Pump
       ELSE reader' = "check" /\ UNCHANGED mu
  /\ UNCHANGED <<connVars, captured, seen, myID, pingVars, appVars, callVars, writeMu>>

\* handlePeerEvent, up to the call of the peer handler if there is one.
HandlePeerEvent ==
  /\ Handling({"peer_list", "peer_joined", "peer_left"})
  /\ mu = None
  /\ peers' = IF Handling({"peer_left"}) THEN peers \ Subject ELSE peers \cup Subject
  /\ IF subscribed
       THEN reader' = "inPeerHandler" /\ mu' = Pump
       ELSE reader' = "check" /\ UNCHANGED mu
  /\ UNCHANGED <<connVars, captured, seen, myID, pingVars, appVars, callVars, writeMu>>

\* Mutant: the pump takes the handler once and keeps it.
HandleSignal_Cached ==
  /\ Handling({"signal"})
  /\ mu = None
  /\ captured' = IF captured = None THEN handler ELSE captured
  /\ reader' = IF captured' = None THEN "check" ELSE "inSignalHandler"
  /\ UNCHANGED <<connVars, seen, myID, peers, pingVars, appVars, callVars, writeMu, mu>>

\* handleTransportMessage, up to the call of the handler if there is one.
HandleSignal ==
  /\ Handling({"signal"})
  /\ mu = None
  /\ captured' = handler
  /\ reader' = IF handler = None THEN "check" ELSE "inSignalHandler"
  /\ UNCHANGED <<connVars, seen, myID, peers, pingVars, appVars, callVars, writeMu, mu>>

HandleError ==
  /\ Handling({"error"})
  /\ reader' = "check"
  /\ UNCHANGED <<connVars, captured, seen, myID, peers, pingVars, appVars, callVars,
                 writeMu, mu>>

\* Mutant: the lock is not released.
HandlerReturns_KeepLock ==
  /\ reader \in {"inPeerHandler", "inSignalHandler"}
  /\ op[Pump] = "idle"
  /\ reader' = "check"
  /\ UNCHANGED <<connVars, captured, seen, myID, peers, pingVars, appVars, callVars,
                 writeMu, mu>>

HandlerReturns ==
  /\ reader \in {"inPeerHandler", "inSignalHandler"}
  /\ op[Pump] = "idle"
  /\ reader' = "check"
  /\ mu' = None
  /\ UNCHANGED <<connVars, captured, seen, myID, peers, pingVars, appVars, callVars,
                 writeMu>>

Handle == HandleRegistered \/ HandlePeerEvent \/ HandleSignal \/ HandleError

\* All that the read pump does between two messages.
ReadPump == CheckContext \/ ReadFails \/ Handle \/ HandlerReturns

-----------------------------------------------------------------------------
(* writePump.                                                              *)

\* Mutant: the pump never looks at the context.
PingerStops_Never ==
  /\ FALSE
  /\ UNCHANGED vars

PingerStops ==
  /\ pinger = "wait"
  /\ cancelled
  /\ pinger' = "ended"
  /\ UNCHANGED <<connVars, pumpVars, appVars, callVars, writeMu, mu>>

Tick ==
  /\ pinger = "wait"
  /\ pinger' = "lock"
  /\ UNCHANGED <<connVars, pumpVars, appVars, callVars, writeMu, mu>>

\* Mutant: the ping is written without writeMu.
PingStarts_Unlocked ==
  /\ pinger = "lock"
  /\ pinger' = "writing"
  /\ UNCHANGED <<connVars, pumpVars, appVars, callVars, writeMu, mu>>

PingStarts ==
  /\ pinger = "lock"
  /\ writeMu = None
  /\ writeMu' = "pinger"
  /\ pinger' = "writing"
  /\ UNCHANGED <<connVars, pumpVars, appVars, callVars, mu>>

\* The pump goes on if the ping was written, and ends if it was not.
PingEnds ==
  /\ pinger = "writing"
  /\ writeMu' = None
  /\ \/ open /\ pinger' = "wait"
     \/ pinger' = "ended"
  /\ UNCHANGED <<connVars, pumpVars, appVars, callVars, mu>>

WritePump == PingerStops \/ Tick \/ PingStarts \/ PingEnds

-----------------------------------------------------------------------------
(* The client's methods.                                                   *)

\* Where a thread is allowed to call which method.
MayCall(t, o) ==
  \/ t \in App
  \/ t = Pump /\ reader = "inSignalHandler" /\ o \in SignalOps
  \/ t = Pump /\ reader = "inPeerHandler" /\ o \in PeerOps

Call(t, o) ==
  /\ op[t] = "idle"
  /\ MayCall(t, o)
  /\ calls < MaxCalls
  /\ calls' = calls + 1
  /\ op' = [op EXCEPT ![t] = o]
  /\ UNCHANGED <<connVars, pumpVars, pingVars, appVars, closers, writeMu, mu>>

Step(t, from, to) == op[t] = from /\ op' = [op EXCEPT ![t] = to]

\* Close: cancel the context, close the socket, wait for the read pump.
CloseCancels(t) ==
  /\ Step(t, "close", "closeConn")
  /\ cancelled' = TRUE
  /\ UNCHANGED <<open, done, pumpVars, pingVars, appVars, closers, calls, writeMu, mu>>

\* Mutant: only the context is cancelled, the socket stays open.
CloseConn_KeepOpen(t) ==
  /\ Step(t, "closeConn", "waitDone")
  /\ UNCHANGED <<connVars, pumpVars, pingVars, appVars, closers, calls, writeMu, mu>>

CloseConn(t) ==
  /\ Step(t, "closeConn", "waitDone")
  /\ open' = FALSE
  /\ UNCHANGED <<cancelled, done, pumpVars, pingVars, appVars, closers, calls,
                 writeMu, mu>>

\* Mutant: Close does not wait for the read pump.
CloseReturns_NoWait(t) ==
  /\ Step(t, "waitDone", "idle")
  /\ closers' = closers \cup {t}
  /\ UNCHANGED <<connVars, pumpVars, pingVars, appVars, calls, writeMu, mu>>

CloseReturns(t) ==
  /\ Step(t, "waitDone", "idle")
  /\ done
  /\ closers' = closers \cup {t}
  /\ UNCHANGED <<connVars, pumpVars, pingVars, appVars, calls, writeMu, mu>>

\* Send and its variants: sendMessage writes under writeMu.
SendStarts(t) ==
  /\ Step(t, "send", "writing")
  /\ writeMu = None
  /\ writeMu' = t
  /\ UNCHANGED <<connVars, pumpVars, pingVars, appVars, closers, calls, mu>>

SendEnds(t) ==
  /\ Step(t, "writing", "idle")
  /\ writeMu' = None
  /\ UNCHANGED <<connVars, pumpVars, pingVars, appVars, closers, calls, mu>>

Peers(t) ==
  /\ Step(t, "peers", "idle")
  /\ mu = None
  /\ UNCHANGED <<connVars, pumpVars, pingVars, appVars, closers, calls, writeMu, mu>>

OnSignal(t, h) ==
  /\ Step(t, "onSignal", "idle")
  /\ mu = None
  /\ handler' = h
  /\ installedAt' = Len(seen)
  /\ UNCHANGED <<connVars, pumpVars, pingVars, subscribed, closers, calls, writeMu, mu>>

OnPeerEvent(t) ==
  /\ Step(t, "onPeerEvent", "idle")
  /\ mu = None
  /\ subscribed' = TRUE
  /\ UNCHANGED <<connVars, pumpVars, pingVars, handler, installedAt, closers, calls,
                 writeMu, mu>>

Proceed(t) ==
  \/ CloseCancels(t) \/ CloseConn(t) \/ CloseReturns(t)
  \/ SendStarts(t) \/ SendEnds(t)
  \/ Peers(t) \/ (\E h \in Handlers : OnSignal(t, h)) \/ OnPeerEvent(t)

Local ==
  \/ ReadPump
  \/ WritePump
  \/ \E t \in Threads : Proceed(t) \/ \E o \in Methods : Call(t, o)

Next == Read \/ Local

Spec == Init /\ [][Next]_vars

(***************************************************************************)
(* Every goroutine that can go on eventually does: handlers return, writes *)
(* end because of their deadline, and a read fails once the socket is      *)
(* closed.  A message, a tick, a failure of the network and a call are     *)
(* never owed.                                                             *)
(***************************************************************************)
Fairness ==
  /\ WF_vars(CheckContext) /\ WF_vars(~open /\ ReadFails)
  /\ WF_vars(Handle) /\ WF_vars(HandlerReturns)
  /\ WF_vars(PingerStops) /\ SF_vars(PingStarts) /\ WF_vars(PingEnds)
  /\ \A t \in Threads : SF_vars(Proceed(t))

FairSpec == Spec /\ Fairness

-----------------------------------------------------------------------------
(* Properties.                                                             *)

InHandler == {"inPeerHandler", "inSignalHandler"}

TypeOK ==
  /\ open \in BOOLEAN /\ cancelled \in BOOLEAN /\ done \in BOOLEAN
  /\ reader \in {"check", "read", "handle", "ended"} \cup InHandler
  /\ pinger \in {"wait", "lock", "writing", "ended"}
  /\ writeMu \in Threads \cup {"pinger", None}
  /\ mu = IF reader = "inPeerHandler" THEN Pump ELSE None
  /\ myID \in {Me, None}
  /\ peers \subseteq Conns
  /\ handler \in Handlers \cup {None}
  /\ subscribed \in BOOLEAN
  /\ captured \in Handlers \cup {None}
  /\ op \in [Threads -> Methods \cup {"idle", "closeConn", "waitDone", "writing"}]
  /\ seen \in Seq(Message)
  /\ installedAt \in Nat
  /\ closers \subseteq Threads
  /\ calls \in Nat

(***************************************************************************)
(* Once Close has returned, to whichever goroutine, the application is     *)
(* called no more: no handler runs, and none will.                         *)
(***************************************************************************)
QuietAfterClose == closers # {} => reader = "ended"

(***************************************************************************)
(* Between two messages, Peers answers what the messages read so far       *)
(* amount to: who was listed or has joined and was not said to have left.  *)
(* Module Hub relates that to who is connected.                            *)
(***************************************************************************)
PeersAreBelieved ==
  reader # "handle" => peers = {x \in Conns : Believes(seen, x)}

(***************************************************************************)
(* A handler that was replaced may still be called after OnSignal has      *)
(* returned, but only for a signal that had been read before.              *)
(***************************************************************************)
ReplacedHandlerGetsOldSignals ==
  reader = "inSignalHandler" /\ captured # handler => Len(seen) <= installedAt

(***************************************************************************)
(* The WebSocket is never written to by two goroutines at a time, which    *)
(* the library under it does not support.                                  *)
(***************************************************************************)
WritersOf == {t \in Threads : op[t] = "writing"} \cup
             (IF pinger = "writing" THEN {"pinger"} ELSE {})

SerialWrites == \A t, u \in WritersOf : t = u

(***************************************************************************)
(* A handler that calls Close never gets back from it, because Close waits *)
(* for the read pump the handler runs on; and neither does a peer handler  *)
(* from a method that needs the lock under which it is called.             *)
(***************************************************************************)
Trapped ==
  \/ op[Pump] \in {"close", "closeConn", "waitDone"}
  \/ reader = "inPeerHandler" /\ op[Pump] \in LockMethods

TrappedForever == [][Trapped => Trapped']_vars

(***************************************************************************)
(* Nothing else can keep a call: every call of the application comes back, *)
(* Close included, even from a dead connection, unless a handler is        *)
(* trapped.                                                                *)
(***************************************************************************)
CallsReturn == \A t \in App : op[t] # "idle" ~> (op[t] = "idle" \/ Trapped)

(***************************************************************************)
(* Under the same condition, a closed client leaves no goroutine behind.   *)
(***************************************************************************)
PumpsEnd == cancelled ~> ((reader = "ended" /\ pinger = "ended") \/ Trapped)

(***************************************************************************)
(* Peers answers whoever asks, the peer handler included.                  *)
(***************************************************************************)
PeersAnswers == \A t \in Threads : op[t] = "peers" ~> op[t] = "idle"
=============================================================================
