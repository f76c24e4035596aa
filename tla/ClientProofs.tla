---------------------------- MODULE ClientProofs ----------------------------
(***************************************************************************)
(* Proofs about the client library, for any goroutines of the application, *)
(* any handlers, and whatever methods the handlers call.                   *)
(***************************************************************************)
EXTENDS Client, MessageProofs

-----------------------------------------------------------------------------
(* The inductive invariant.                                                *)

\* The read pump is inside a method of the client only while it is in a handler.
PumpBusy == op[Pump] # "idle" => reader \in InHandler

\* done is closed when the read pump ends, and Close waits for that.
Ended ==
  /\ done <=> reader = "ended"
  /\ closers # {} => done

\* Who writes to the WebSocket holds writeMu.
WriteLock ==
  /\ \A t \in Threads : op[t] = "writing" => writeMu = t
  /\ pinger = "writing" => writeMu = "pinger"

\* There is a message to handle, and peer_registered gives this client its ID.
HasRead ==
  /\ reader = "handle" => seen # <<>>
  /\ \A i \in 1..Len(seen) : seen[i].type = "peer_registered" => seen[i].about = {Me}

IInv == TypeOK /\ PumpBusy /\ Ended /\ WriteLock /\ HasRead

LEMMA InitIInv == Init => IInv
<1> SUFFICES ASSUME Init PROVE IInv
  OBVIOUS
<1>1. op = [t \in Threads |-> "idle"] /\ Pump \in Threads /\ op[Pump] = "idle"
  BY DEF Init, Threads
<1>2. TypeOK
  <2>1. op \in [Threads -> Methods \cup {"idle", "closeConn", "waitDone", "writing"}]
    BY <1>1
  <2>2. seen \in Seq(Message)
    BY DEF Init
  <2> QED  BY <2>1, <2>2 DEF Init, TypeOK
<1>3. WriteLock
  BY <1>1 DEF Init, WriteLock
<1> QED  BY <1>1, <1>2, <1>3 DEF Init, IInv, PumpBusy, Ended, HasRead

\* What is read is a message.
LEMMA ReceivedType == FromServer(Me) \cup Signals \subseteq Message
BY FromServerType, MeAssumption, SignalsAssumption

\* What the read pump handles is a message.
LEMMA LastType ==
  ASSUME TypeOK, seen # <<>>
  PROVE  /\ seen[Len(seen)] \in Message /\ Len(seen) \in 1..Len(seen)
         /\ Subject \subseteq Conns
<1>1. seen \in Seq(Message) /\ Len(seen) \in Nat /\ Len(seen) # 0
  BY DEF TypeOK
<1>2. Len(seen) \in 1..Len(seen)
  BY <1>1
<1>3. seen[Len(seen)] \in Message
  BY <1>1, <1>2
<1>4. \A m \in Message : m.about \subseteq Conns
  BY DEF Message
<1> QED  BY <1>2, <1>3, <1>4 DEF Subject

-----------------------------------------------------------------------------
(* One lemma for each of the pumps and one for the methods.                *)

LEMMA ReadPumpIInv ==
  ASSUME IInv, Read \/ ReadPump
  PROVE  IInv'
<1> USE PumpAssumption DEF IInv, InHandler, connVars, pingVars, appVars, callVars
<1>1. CASE CheckContext
  BY <1>1 DEF CheckContext, Ends, TypeOK, PumpBusy, Ended, WriteLock, HasRead
<1>2. CASE Read
  <2>1. PICK m \in Message : MayFollow(seen, Me, m) /\ seen' = Append(seen, m)
    BY <1>2, ReceivedType DEF Read, Receive
  <2>2. seen \in Seq(Message)
    BY DEF TypeOK
  <2>3. m.type = "peer_registered" => m.about = {Me}
    BY <2>1 DEF MayFollow
  <2>4. HasRead'
    BY <2>1, <2>2, <2>3, AppendElements DEF HasRead
  <2>5. TypeOK'
    BY <1>2, <2>1, <2>2, AppendElements DEF Read, Receive, TypeOK
  <2> QED  BY <1>2, <2>4, <2>5 DEF Read, Receive, PumpBusy, Ended, WriteLock
<1>3. CASE ReadFails
  BY <1>3 DEF ReadFails, Ends, TypeOK, PumpBusy, Ended, WriteLock, HasRead
<1>4. CASE HandleRegistered
  <2>1. Subject = {Me}
    BY <1>4, LastType DEF HandleRegistered, Handling, HasRead, Subject
  <2>2. myID' = Me
    BY <1>4, <2>1 DEF HandleRegistered
  <2> QED  BY <1>4, <2>2
           DEF HandleRegistered, Handling, TypeOK, PumpBusy, Ended, WriteLock, HasRead
<1>5. CASE HandlePeerEvent
  <2>1. Subject \subseteq Conns
    BY <1>5, LastType DEF HandlePeerEvent, Handling, HasRead
  <2>2. peers' \subseteq Conns
    BY <1>5, <2>1 DEF HandlePeerEvent, TypeOK
  <2> QED  BY <1>5, <2>2
           DEF HandlePeerEvent, Handling, TypeOK, PumpBusy, Ended, WriteLock, HasRead
<1>6. CASE HandleSignal
  BY <1>6 DEF HandleSignal, Handling, TypeOK, PumpBusy, Ended, WriteLock, HasRead
<1>7. CASE HandleError
  BY <1>7 DEF HandleError, Handling, TypeOK, PumpBusy, Ended, WriteLock, HasRead
<1>8. CASE HandlerReturns
  BY <1>8 DEF HandlerReturns, TypeOK, PumpBusy, Ended, WriteLock, HasRead
<1> QED  BY <1>1, <1>2, <1>3, <1>4, <1>5, <1>6, <1>7, <1>8
         DEF ReadPump, Handle

LEMMA WritePumpIInv ==
  ASSUME IInv, WritePump
  PROVE  IInv'
<1> USE PumpAssumption, PingerAssumption
    DEF IInv, Threads, TypeOK, PumpBusy, Ended, WriteLock, HasRead, connVars, pumpVars,
        appVars, callVars
<1>1. CASE PingerStops
  BY <1>1 DEF PingerStops
<1>2. CASE Tick
  BY <1>2 DEF Tick
<1>3. CASE PingStarts
  <2>1. WriteLock'
    BY <1>3 DEF PingStarts
  <2> QED  BY <1>3, <2>1 DEF PingStarts
<1>4. CASE PingEnds
  <2>1. TypeOK'
    BY <1>4 DEF PingEnds
  <2>2. WriteLock'
    BY <1>4 DEF PingEnds
  <2> QED  BY <1>4, <2>1, <2>2 DEF PingEnds
<1> QED  BY <1>1, <1>2, <1>3, <1>4 DEF WritePump

\* A thread that goes on within a method, or starts one, keeps the types, and the
\* invariant on the read pump if it is not the pump that goes on outside a handler.
LEMMA CallIInv ==
  ASSUME IInv, NEW t \in Threads, NEW o \in Methods, Call(t, o)
  PROVE  IInv'
<1> USE DEF IInv, connVars, pumpVars, pingVars, appVars
<1>1. TypeOK'
  BY DEF Call, TypeOK
<1>2. PumpBusy'
  BY PumpAssumption DEF Call, MayCall, PumpBusy, InHandler, TypeOK, Threads
<1>3. WriteLock'
  BY DEF Call, WriteLock, TypeOK, Methods
<1> QED  BY <1>1, <1>2, <1>3 DEF Call, Ended, HasRead

LEMMA ProceedIInv ==
  ASSUME IInv, NEW t \in Threads, Proceed(t)
  PROVE  IInv'
<1> USE PumpAssumption, PingerAssumption, HandlersAssumption
    DEF IInv, Step, connVars, pumpVars, pingVars, appVars
<1>0. op \in [Threads -> Methods \cup {"idle", "closeConn", "waitDone", "writing"}]
      /\ Pump \in Threads
  BY DEF TypeOK, Threads
<1>1. CASE CloseCancels(t)
  BY <1>0, <1>1 DEF CloseCancels, TypeOK, PumpBusy, Ended, WriteLock, HasRead
<1>2. CASE CloseConn(t)
  <2>1. TypeOK'
    BY <1>0, <1>2 DEF CloseConn, TypeOK
  <2>2. WriteLock'
    BY <1>0, <1>2 DEF CloseConn, TypeOK, WriteLock, Threads
  <2> QED  BY <1>0, <1>2, <2>1, <2>2 DEF CloseConn, PumpBusy, Ended, HasRead
<1>3. CASE CloseReturns(t)
  <2>1. TypeOK'
    BY <1>0, <1>3 DEF CloseReturns, TypeOK
  <2>2. WriteLock'
    BY <1>0, <1>3 DEF CloseReturns, TypeOK, WriteLock, Threads
  <2> QED  BY <1>0, <1>3, <2>1, <2>2 DEF CloseReturns, PumpBusy, Ended, HasRead
<1>4. CASE SendStarts(t)
  <2>1. TypeOK'
    BY <1>0, <1>4 DEF SendStarts, TypeOK
  <2>2. WriteLock'
    BY <1>0, <1>4 DEF SendStarts, TypeOK, WriteLock, Threads
  <2> QED  BY <1>0, <1>4, <2>1, <2>2 DEF SendStarts, PumpBusy, Ended, HasRead
<1>5. CASE SendEnds(t)
  <2>1. TypeOK'
    BY <1>0, <1>5 DEF SendEnds, TypeOK
  <2>2. WriteLock'
    BY <1>0, <1>5 DEF SendEnds, TypeOK, WriteLock, Threads
  <2> QED  BY <1>0, <1>5, <2>1, <2>2 DEF SendEnds, PumpBusy, Ended, HasRead
<1>6. CASE Peers(t)
  BY <1>0, <1>6 DEF Peers, TypeOK, PumpBusy, Ended, WriteLock, HasRead
<1>7. ASSUME NEW h \in Handlers, OnSignal(t, h) PROVE IInv'
  BY <1>0, <1>7 DEF OnSignal, TypeOK, PumpBusy, Ended, WriteLock, HasRead
<1>8. CASE OnPeerEvent(t)
  BY <1>0, <1>8 DEF OnPeerEvent, TypeOK, PumpBusy, Ended, WriteLock, HasRead
<1> QED  BY <1>1, <1>2, <1>3, <1>4, <1>5, <1>6, <1>7, <1>8 DEF Proceed

\* The invariant holds in every reachable state of the client.
THEOREM Invariance == Spec => []IInv
<1>1. IInv /\ [Next]_vars => IInv'
  <2>1. IInv /\ UNCHANGED vars => IInv'
    BY DEF vars, connVars, pumpVars, pingVars, appVars, callVars, IInv, TypeOK,
           PumpBusy, Ended, WriteLock, HasRead
  <2> QED  BY <2>1, ReadPumpIInv, WritePumpIInv, CallIInv, ProceedIInv DEF Next, Local
<1> QED  BY InitIInv, <1>1, PTL DEF Spec

(***************************************************************************)
(* Every variable of the client keeps its type; in particular p2p.Client.mu*)
(* is held for exactly as long as the peer handler runs.                   *)
(***************************************************************************)
THEOREM TypeCorrect == Spec => []TypeOK
BY Invariance, PTL DEF IInv

(***************************************************************************)
(* The WebSocket has one writer at a time (websocket.go, sendMessage and   *)
(* writePump): whoever writes holds writeMu.                               *)
(***************************************************************************)
THEOREM WritesAreSerial == Spec => []SerialWrites
<1>1. IInv => SerialWrites
  BY DEF IInv, WriteLock, SerialWrites, WritersOf
<1> QED  BY Invariance, <1>1, PTL

(***************************************************************************)
(* When Close has returned, the read pump has ended (websocket.go, Close   *)
(* and readPump), so no handler runs then or later.                        *)
(***************************************************************************)
THEOREM QuietOnceClosed == Spec => []QuietAfterClose
<1>1. IInv => QuietAfterClose
  BY DEF IInv, Ended, QuietAfterClose
<1> QED  BY Invariance, <1>1, PTL

-----------------------------------------------------------------------------
(* Handlers that are trapped.                                              *)

LEMMA TrappedStays ==
  ASSUME IInv, [Next]_vars, Trapped
  PROVE  Trapped'
<1> USE PumpAssumption DEF IInv
<1>0. Pump \in Threads /\ op[Pump] # "idle" /\ reader \in InHandler
      /\ op \in [Threads -> Methods \cup {"idle", "closeConn", "waitDone", "writing"}]
  BY DEF Trapped, PumpBusy, Threads, LockMethods, TypeOK
<1>1. CASE Read \/ ReadPump
  <2>1. FALSE
    BY <1>0, <1>1
       DEF ReadPump, CheckContext, Read, Receive, ReadFails, Handle, HandleRegistered,
           HandlePeerEvent, HandleSignal, HandleError, HandlerReturns, Handling, InHandler
  <2> QED  BY <2>1
<1>2. CASE UNCHANGED <<op, reader>>
  BY <1>2 DEF Trapped
<1>3. ASSUME NEW t \in Threads, NEW o \in Methods, Call(t, o) PROVE Trapped'
  BY <1>0, <1>3 DEF Call, pumpVars, Trapped
<1>4. ASSUME NEW t \in Threads \ {Pump}, Proceed(t) PROVE Trapped'
  BY <1>0, <1>4 DEF Proceed, CloseCancels, CloseConn, CloseReturns, SendStarts, SendEnds,
                    Peers, OnSignal, OnPeerEvent, Step, pumpVars, Trapped
<1>5. CASE Proceed(Pump)
  <2>1. ~done
    BY <1>0 DEF Ended, InHandler
  <2>2. CASE op[Pump] \in {"close", "closeConn", "waitDone"}
    BY <1>0, <1>5, <2>1, <2>2
       DEF Proceed, CloseCancels, CloseConn, CloseReturns, SendStarts, SendEnds, Peers,
           OnSignal, OnPeerEvent, Step, Trapped
  <2>3. CASE reader = "inPeerHandler" /\ op[Pump] \in LockMethods
    <3>1. mu # None
      BY <2>3 DEF TypeOK
    <3> QED  BY <1>5, <2>3, <3>1
             DEF Proceed, CloseCancels, CloseConn, CloseReturns, SendStarts, SendEnds,
                 Peers, OnSignal, OnPeerEvent, Step, LockMethods
  <2> QED  BY <2>2, <2>3 DEF Trapped
<1>6. CASE WritePump
  BY <1>2, <1>6 DEF WritePump, PingerStops, Tick, PingStarts, PingEnds, pumpVars, callVars
<1>7. CASE UNCHANGED vars
  BY <1>2, <1>7 DEF vars, pumpVars, callVars
<1> QED  BY <1>1, <1>3, <1>4, <1>5, <1>6, <1>7 DEF Next, Local

(***************************************************************************)
(* A handler that calls Close, or a peer handler that calls Peers, OnSignal*)
(* or OnPeerEvent (client.go handlePeerEvent, websocket.go Close), never   *)
(* gets back, whatever everybody else does.                                *)
(***************************************************************************)
THEOREM NobodyFreesTheTrapped == Spec => TrappedForever
<1>1. IInv /\ [Next]_vars => [Trapped => Trapped']_vars
  BY TrappedStays
<1> QED  BY Invariance, <1>1, PTL DEF Spec, TrappedForever

-----------------------------------------------------------------------------
(* Handlers that are replaced.                                             *)

LEMMA NextReplaced ==
  ASSUME IInv, [Next]_vars, ReplacedHandlerGetsOldSignals
  PROVE  ReplacedHandlerGetsOldSignals'
<1> USE DEF IInv, ReplacedHandlerGetsOldSignals
<1>1. CASE Read \/ ReadPump
  BY <1>1 DEF ReadPump, CheckContext, Read, Receive, ReadFails, Handle,
              HandleRegistered, HandlePeerEvent, HandleSignal, HandleError,
              HandlerReturns, Ends, appVars
<1>2. CASE UNCHANGED <<reader, captured, seen, handler, installedAt>>
  BY <1>2
<1>3. ASSUME NEW t \in Threads, NEW h \in Handlers, OnSignal(t, h)
      PROVE  ReplacedHandlerGetsOldSignals'
  <2>1. Len(seen) \in Nat /\ seen' = seen /\ installedAt' = Len(seen)
    BY <1>3 DEF OnSignal, pumpVars, TypeOK
  <2> QED  BY <2>1
<1>4. ASSUME NEW t \in Threads,
             \/ CloseCancels(t) \/ CloseConn(t) \/ CloseReturns(t)
             \/ SendStarts(t) \/ SendEnds(t) \/ Peers(t) \/ OnPeerEvent(t)
             \/ \E o \in Methods : Call(t, o)
      PROVE  ReplacedHandlerGetsOldSignals'
  BY <1>2, <1>4 DEF CloseCancels, CloseConn, CloseReturns, SendStarts, SendEnds, Peers,
                    OnPeerEvent, Call, pumpVars, appVars
<1>5. CASE WritePump \/ UNCHANGED vars
  BY <1>2, <1>5 DEF WritePump, PingerStops, Tick, PingStarts, PingEnds, pumpVars, appVars,
                    vars
<1> QED  BY <1>1, <1>3, <1>4, <1>5 DEF Next, Local, Proceed

(***************************************************************************)
(* A signal handler that OnSignal has replaced is called at most for a     *)
(* signal that was read before (client.go handleTransportMessage copies it *)
(* under the lock and calls it after).                                     *)
(***************************************************************************)
THEOREM ReplacedHandlerIsLate == Spec => []ReplacedHandlerGetsOldSignals
<1>1. Init => ReplacedHandlerGetsOldSignals
  BY DEF Init, ReplacedHandlerGetsOldSignals
<1> QED  BY Invariance, NextReplaced, <1>1, PTL DEF Spec

-----------------------------------------------------------------------------
(* The peer map.                                                           *)

\* While a message is handled, the map is still what the ones before it amount to.
MapFollows ==
  /\ reader # "handle" => peers = {x \in Conns : Believes(seen, x)}
  /\ reader = "handle" =>
       \E s \in Seq(Message), m \in Message :
         seen = Append(s, m) /\ peers = {x \in Conns : Believes(s, x)}

LEMMA NextMapFollows == IInv /\ MapFollows /\ [Next]_vars => MapFollows'
<1> SUFFICES ASSUME IInv, MapFollows, [Next]_vars PROVE MapFollows'
  OBVIOUS
<1> USE DEF IInv
<1>1. ASSUME UNCHANGED <<peers, seen>>, reader # "handle", reader' # "handle"
      PROVE  MapFollows'
  BY <1>1 DEF MapFollows
<1>2. ASSUME UNCHANGED <<peers, seen, reader>> PROVE MapFollows'
  BY <1>2 DEF MapFollows
<1>3. CASE Read
  <2>1. PICK m \in Message : seen' = Append(seen, m)
    BY <1>3, ReceivedType DEF Read, Receive
  <2>2. peers' = {x \in Conns : Believes(seen, x)} /\ reader' = "handle"
    BY <1>3 DEF Read, Receive, MapFollows
  <2> QED  BY <2>1, <2>2 DEF MapFollows, TypeOK
<1>4. ASSUME reader = "handle", reader' # "handle", UNCHANGED seen,
             peers' = {x \in Conns : \/ Announces(seen[Len(seen)], x)
                                     \/ x \in peers /\ ~Retracts(seen[Len(seen)], x)}
      PROVE  MapFollows'
  <2>1. PICK s \in Seq(Message), m \in Message :
           seen = Append(s, m) /\ peers = {x \in Conns : Believes(s, x)}
    BY <1>4 DEF MapFollows
  <2>2. seen[Len(seen)] = m
    BY <2>1, AppendElements
  <2>3. \A x : Believes(seen, x) <=> Announces(m, x) \/ (Believes(s, x) /\ ~Retracts(m, x))
    BY <2>1, BelievesAppend
  <2> QED  BY <1>4, <2>1, <2>2, <2>3 DEF MapFollows
<1>5. CASE HandlePeerEvent
  <2>1. Subject \subseteq Conns /\ peers \subseteq Conns
    BY <1>5, LastType DEF HandlePeerEvent, Handling, HasRead, TypeOK
  <2>2. peers' = {x \in Conns : \/ Announces(seen[Len(seen)], x)
                                \/ x \in peers /\ ~Retracts(seen[Len(seen)], x)}
    BY <1>5, <2>1 DEF HandlePeerEvent, Handling, Subject, Announces, Retracts
  <2>3. reader = "handle" /\ reader' # "handle" /\ UNCHANGED seen
    BY <1>5 DEF HandlePeerEvent, Handling
  <2> QED  BY <1>4, <2>2, <2>3
<1>6. CASE HandleRegistered \/ HandleSignal \/ HandleError
  <2>1. peers \subseteq Conns
    BY DEF TypeOK
  <2>2. peers' = {x \in Conns : \/ Announces(seen[Len(seen)], x)
                                \/ x \in peers /\ ~Retracts(seen[Len(seen)], x)}
    BY <1>6, <2>1
       DEF HandleRegistered, HandleSignal, HandleError, Handling, Announces, Retracts
  <2>3. reader = "handle" /\ reader' # "handle" /\ UNCHANGED seen
    BY <1>6 DEF HandleRegistered, HandleSignal, HandleError, Handling
  <2> QED  BY <1>4, <2>2, <2>3
<1>7. CASE CheckContext \/ ReadFails \/ HandlerReturns
  BY <1>1, <1>7 DEF CheckContext, ReadFails, HandlerReturns, Ends
<1>8. CASE WritePump
  BY <1>2, <1>8 DEF WritePump, PingerStops, Tick, PingStarts, PingEnds, pumpVars
<1>9. ASSUME NEW t \in Threads, Proceed(t) \/ \E o \in Methods : Call(t, o)
      PROVE  MapFollows'
  BY <1>2, <1>9 DEF Proceed, Call, CloseCancels, CloseConn, CloseReturns, SendStarts,
                    SendEnds, Peers, OnSignal, OnPeerEvent, pumpVars
<1>10. CASE UNCHANGED vars
  BY <1>2, <1>10 DEF vars, pumpVars
<1> QED  BY <1>3, <1>5, <1>6, <1>7, <1>8, <1>9, <1>10 DEF Next, Local, ReadPump, Handle

(***************************************************************************)
(* Peers answers what the messages read so far amount to (client.go,       *)
(* handlePeerEvent), whatever they were and whoever else uses the client.  *)
(***************************************************************************)
THEOREM PeersFollowMessages == Spec => []PeersAreBelieved
<1>1. Init => MapFollows
  BY DEF Init, MapFollows, Believes
<1>2. Spec => []MapFollows
  BY Invariance, NextMapFollows, <1>1, PTL DEF Spec
<1>3. MapFollows => PeersAreBelieved
  BY DEF MapFollows, PeersAreBelieved
<1> QED  BY <1>2, <1>3, PTL

-----------------------------------------------------------------------------
(* The message that is being handled.                                      *)

\* The signal handler is called for the signal that was read last.
HandlesSignal ==
  reader = "inSignalHandler" => seen # <<>> /\ seen[Len(seen)].type = "signal"

LEMMA HandlesSignalInvariance == Spec => []HandlesSignal
<1>1. Init => HandlesSignal
  BY DEF Init, HandlesSignal
<1>2. IInv /\ HandlesSignal /\ [Next]_vars => HandlesSignal'
  <2> SUFFICES ASSUME IInv, HandlesSignal, [Next]_vars PROVE HandlesSignal'
    OBVIOUS
  <2> USE DEF HandlesSignal
  <2>1. CASE Read \/ ReadPump
    BY <2>1 DEF ReadPump, CheckContext, Read, Receive, ReadFails, Handle, HandleRegistered,
                HandlePeerEvent, HandleSignal, HandleError, HandlerReturns, Handling, Ends,
                IInv, HasRead
  <2>2. CASE UNCHANGED <<reader, seen>>
    BY <2>2
  <2>3. ASSUME NEW t \in Threads, Proceed(t) \/ \E o \in Methods : Call(t, o)
        PROVE  UNCHANGED <<reader, seen>>
    BY <2>3 DEF Proceed, Call, CloseCancels, CloseConn, CloseReturns, SendStarts,
                SendEnds, Peers, OnSignal, OnPeerEvent, pumpVars
  <2>4. WritePump \/ UNCHANGED vars => UNCHANGED <<reader, seen>>
    BY DEF WritePump, PingerStops, Tick, PingStarts, PingEnds, pumpVars, vars
  <2> QED  BY <2>1, <2>2, <2>3, <2>4 DEF Next, Local
<1> QED  BY Invariance, <1>1, <1>2, PTL DEF Spec
=============================================================================
