------------------------------- MODULE Agent -------------------------------
(***************************************************************************)
(* ICE on one side: an Agent with its Gatherer (pkg/p2p/ice/gatherer.go)   *)
(* and the Connections it makes (pkg/p2p/ice/connection.go).  The gatherer *)
(* keeps two lists, the candidates it made and the UDP sockets it bound    *)
(* for them.  A connection reads its socket in a receive loop of its own,  *)
(* with a deadline of 100 ms so that it notices when it was closed, and    *)
(* calls the receive handler.                                              *)
(*                                                                         *)
(* Methods of the agent and of the gatherer hold a lock from beginning to  *)
(* end and are one step, except Gather: the agent stores what the gatherer *)
(* returned in a second one.  A socket is the number under which it was    *)
(* bound, a candidate is its address.                                      *)
(***************************************************************************)
EXTENDS Naturals, Sequences, SequencesExt, FiniteSetsExt

CONSTANTS
  None,        \* nil
  Threads,     \* goroutines that call Gather
  IpLists,     \* what getLocalIPs may return, one sequence of addresses each
  Ports,       \* the range PortStart..PortEnd
  Remotes,     \* addresses that peers advertise or send from
  Handlers,    \* what SetReceiveHandler is given
  MaxSockets, MaxConns, MaxRemotes, MaxPackets  \* bounds

ASSUME PortsAssumption == Ports \subseteq Nat
ASSUME NoneAssumption == None \notin Handlers

\* getLocalIPs returns a list, and an address belongs to one interface.
ASSUME IpListsAssumption ==
  \A ips \in IpLists : ips \in Seq(ToSet(ips)) /\ IsInjective(ips)

VARIABLES
  addr,        \* addr[s]: the address socket s is bound to
  live,        \* the sockets that are open
  candidates,  \* g.candidates
  listeners,   \* g.listeners
  gathered,    \* gathered[t]: what Gather of the gatherer returned to t, or None
  local,       \* a.localCandidates
  remotes,     \* a.remoteCandidates
  conns,       \* the connections made so far
  current,     \* a.connection: the index of a connection, or 0
  deadline,    \* the sockets on which a read deadline has been set
  inbox,       \* inbox[s]: who sent the packets that wait at socket s
  arrived,     \* number of packets that have arrived
  receiving,   \* the connection in whose Receive the application is, or 0
  crashed      \* the process has ended

gatherVars == <<addr, live, candidates, listeners>>
agentVars == <<local, remotes, current>>
netVars == <<inbox, arrived>>
vars == <<gatherVars, gathered, agentVars, conns, deadline, netVars, receiving, crashed>>

Init ==
  /\ addr = <<>> /\ live = {} /\ candidates = <<>> /\ listeners = <<>>
  /\ gathered = [t \in Threads |-> None]
  /\ local = <<>> /\ remotes = <<>> /\ current = 0
  /\ conns = <<>> /\ deadline = {}
  /\ inbox = <<>> /\ arrived = 0
  /\ receiving = 0
  /\ crashed = FALSE

-----------------------------------------------------------------------------
(* Gatherer.                                                               *)

\* What a socket may be bound to, and what a candidate says.
Address == (UNION {ToSet(ips) : ips \in IpLists}) \X Ports

FreePorts(ip, busy) ==
  {port \in Ports : <<ip, port>> \notin busy /\ \A s \in live : addr[s] # <<ip, port>>}

\* For each local IP, in order, bindUDP takes the first port that is free; an IP
\* without one is skipped.  Other programs hold the addresses busy.
Bound(ips, busy) ==
  LET socks == {<<ip, Min(FreePorts(ip, busy))>> :
                  ip \in {x \in ToSet(ips) : FreePorts(x, busy) # {}}}
  IN  {new \in SeqOf(Address, Len(ips)) :
         /\ ToSet(new) = socks
         /\ \A m, n \in DOMAIN new : m < n =>
              \E i, j \in DOMAIN ips : i < j /\ ips[i] = new[m][1] /\ ips[j] = new[n][1]}

\* Gather binds the sockets new.
GatherSockets(t, new) ==
  LET n == Len(addr)
  IN  /\ gathered[t] = None
      /\ n + Len(new) <= MaxSockets
      /\ Len(candidates) + Len(new) > 0
      /\ addr' = addr \o new
      /\ inbox' = inbox \o [i \in 1..Len(new) |-> <<>>]
      /\ live' = live \cup (n + 1)..(n + Len(new))
      /\ candidates' = candidates \o new
      /\ listeners' = listeners \o [i \in 1..Len(new) |-> n + i]
      /\ gathered' = [gathered EXCEPT ![t] = candidates']
      /\ UNCHANGED <<agentVars, conns, deadline, arrived, receiving, crashed>>

\* Mutant: what Gather returned with an error is stored as well.
GatherStores_IgnoresError(t) ==
  /\ local' = gathered[t]
  /\ gathered' = [gathered EXCEPT ![t] = None]
  /\ UNCHANGED <<gatherVars, remotes, current, conns, deadline, netVars, receiving,
                 crashed>>

GatherStores(t) ==
  /\ gathered[t] # None
  /\ local' = gathered[t]
  /\ gathered' = [gathered EXCEPT ![t] = None]
  /\ UNCHANGED <<gatherVars, remotes, current, conns, deadline, netVars, receiving,
                 crashed>>

-----------------------------------------------------------------------------
(* Agent.                                                                  *)

AddRemoteCandidate(r) ==
  /\ Len(remotes) < MaxRemotes
  /\ remotes' = Append(remotes, r)
  /\ UNCHANGED <<gatherVars, gathered, local, current, conns, deadline, netVars,
                 receiving, crashed>>

\* The read lock is taken and the write lock released, a fatal error of the
\* runtime whoever else holds the lock.
GetRemoteCandidates ==
  /\ crashed' = TRUE
  /\ UNCHANGED <<gatherVars, gathered, agentVars, conns, deadline, netVars, receiving>>

\* The last three are history that nothing reads: late counts the calls of a handler
\* after Close, missed the packets of the peer that have been taken from the socket
\* since the handler was set and not given to it, polled says that Receive was called.
NewConnection(l, r, s) ==
  [local |-> l, remote |-> r, sock |-> s, closed |-> FALSE, handler |-> None,
   loop |-> "check", taking |-> None, late |-> 0, missed |-> 0, polled |-> FALSE]

\* Mutant: the listener bound last is taken.
Connect_LastListener ==
  /\ Len(conns) < MaxConns
  /\ local # <<>> /\ remotes # <<>> /\ listeners # <<>>
  /\ conns' = Append(conns, NewConnection(local[1], remotes[1], Last(listeners)))
  /\ current' = Len(conns')
  /\ UNCHANGED <<gatherVars, gathered, local, remotes, deadline, netVars, receiving,
                 crashed>>

\* The first local candidate, the listener in its place, the first remote one.
Connect ==
  /\ Len(conns) < MaxConns
  /\ local # <<>> /\ remotes # <<>> /\ listeners # <<>>
  /\ conns' = Append(conns, NewConnection(local[1], remotes[1], listeners[1]))
  /\ current' = Len(conns')
  /\ UNCHANGED <<gatherVars, gathered, local, remotes, deadline, netVars, receiving,
                 crashed>>

\* Mutant: the closed sockets stay in the list.
Close_KeepListeners ==
  /\ conns' = IF current = 0 THEN conns ELSE [conns EXCEPT ![current].closed = TRUE]
  /\ live' = live \ ToSet(listeners)
  /\ UNCHANGED <<addr, candidates, listeners, gathered, agentVars, deadline, netVars,
                 receiving, crashed>>

\* The agent closes its latest connection and every socket.
Close ==
  /\ conns' = IF current = 0 THEN conns ELSE [conns EXCEPT ![current].closed = TRUE]
  /\ live' = live \ ToSet(listeners)
  /\ listeners' = <<>>
  /\ UNCHANGED <<addr, candidates, gathered, agentVars, deadline, netVars, receiving,
                 crashed>>

-----------------------------------------------------------------------------
(* Connection.                                                             *)

Conn == 1..Len(conns)

CloseConnection(k) ==
  /\ conns' = [conns EXCEPT ![k].closed = TRUE]
  /\ UNCHANGED <<gatherVars, gathered, agentVars, deadline, netVars, receiving, crashed>>

SetReceiveHandler(k, h) ==
  /\ conns' = [conns EXCEPT ![k].handler = h, ![k].missed = 0]
  /\ UNCHANGED <<gatherVars, gathered, agentVars, deadline, netVars, receiving, crashed>>

\* Mutant: the context is not looked at.
LoopStarts_NoContext(k) ==
  /\ conns[k].loop = "check"
  /\ conns' = [conns EXCEPT ![k].loop = "reading", ![k].taking = conns[k].handler]
  /\ deadline' = deadline \cup {conns[k].sock}
  /\ UNCHANGED <<gatherVars, gathered, agentVars, netVars, receiving, crashed>>

\* A turn of receiveLoop begins: the context, the handler and the deadline.
LoopStarts(k) ==
  /\ conns[k].loop = "check"
  /\ IF conns[k].closed
       THEN conns' = [conns EXCEPT ![k].loop = "ended"] /\ UNCHANGED deadline
       ELSE /\ conns' = [conns EXCEPT ![k].loop = "reading", ![k].taking = conns[k].handler]
            /\ deadline' = deadline \cup {conns[k].sock}
  /\ UNCHANGED <<gatherVars, gathered, agentVars, netVars, receiving, crashed>>

\* ReadFromUDP returns the first packet that waits at the socket.
Packet(k, from) ==
  LET s == conns[k].sock
  IN  /\ inbox[s] # <<>>
      /\ from = Head(inbox[s])
      /\ inbox' = [inbox EXCEPT ![s] = Tail(@)]

\* A packet taken from socket s is missed by the handlers of every connection to its
\* sender there, except the one that is to be called with it.
Missed(s, from, called) ==
  [k \in Conn |->
     IF k # called /\ conns[k].sock = s /\ conns[k].remote = from /\ conns[k].handler # None
       THEN [conns[k] EXCEPT !.missed = @ + 1] ELSE conns[k]]

\* Mutant: after a packet nobody takes the next one is read in the same turn.
LoopReceives_SameTurn(k, from) ==
  LET called == from = conns[k].remote /\ conns[k].taking # None
      after == Missed(conns[k].sock, from, IF called THEN k ELSE 0)
  IN  /\ conns[k].loop = "reading"
      /\ conns[k].sock \in live
      /\ Packet(k, from)
      /\ conns' = [after EXCEPT ![k].loop = IF called THEN "handling" ELSE @]
      /\ UNCHANGED <<gatherVars, gathered, agentVars, deadline, arrived, receiving,
                     crashed>>

\* A packet of the peer is for the handler, any other is discarded.
LoopReceives(k, from) ==
  LET called == from = conns[k].remote /\ conns[k].taking # None
      after == Missed(conns[k].sock, from, IF called THEN k ELSE 0)
  IN  /\ conns[k].loop = "reading"
      /\ conns[k].sock \in live
      /\ Packet(k, from)
      /\ conns' = [after EXCEPT ![k].loop = IF called THEN "handling" ELSE "check"]
      /\ UNCHANGED <<gatherVars, gathered, agentVars, deadline, arrived, receiving,
                     crashed>>

\* The handler that was read at the beginning of the turn is called.
LoopCalls(k) ==
  LET c == conns[k]
  IN  /\ c.loop = "handling"
      /\ conns' = [conns EXCEPT ![k] =
           [c EXCEPT !.loop = "check",
                     !.late = IF c.closed THEN @ + 1 ELSE @,
                     !.missed = IF c.taking # c.handler THEN @ + 1 ELSE @]]
      /\ UNCHANGED <<gatherVars, gathered, agentVars, deadline, netVars, receiving,
                     crashed>>

\* The 100 ms are over.
LoopTimesOut(k) ==
  /\ conns[k].loop = "reading"
  /\ conns[k].sock \in live
  /\ conns' = [conns EXCEPT ![k].loop = "check"]
  /\ UNCHANGED <<gatherVars, gathered, agentVars, deadline, netVars, receiving, crashed>>

\* Mutant: every error is taken for the deadline.
LoopFails_Continues(k) ==
  /\ conns[k].loop = "reading"
  /\ conns[k].sock \notin live
  /\ conns' = [conns EXCEPT ![k].loop = "check"]
  /\ UNCHANGED <<gatherVars, gathered, agentVars, deadline, netVars, receiving, crashed>>

\* The socket was closed.
LoopFails(k) ==
  /\ conns[k].loop = "reading"
  /\ conns[k].sock \notin live
  /\ conns' = [conns EXCEPT ![k].loop = "ended"]
  /\ UNCHANGED <<gatherVars, gathered, agentVars, deadline, netVars, receiving, crashed>>

\* Receive of the application, from the call to what it returns.
ReceiveStarts(k) ==
  /\ receiving = 0
  /\ ~conns[k].closed
  /\ receiving' = k
  /\ conns' = [conns EXCEPT ![k].polled = TRUE]
  /\ UNCHANGED <<gatherVars, gathered, agentVars, deadline, netVars, crashed>>

ReceiveReturns ==
  /\ receiving # 0
  /\ receiving' = 0
  /\ UNCHANGED <<gatherVars, gathered, agentVars, deadline, arrived, crashed>>

\* Data of the peer, or the error "unexpected sender".
ReceivePacket(from) ==
  /\ ReceiveReturns
  /\ conns[receiving].sock \in live
  /\ Packet(receiving, from)
  /\ conns' = Missed(conns[receiving].sock, from, 0)

\* The error of the deadline that receiveLoop has set on the socket.
ReceiveTimesOut ==
  /\ ReceiveReturns
  /\ conns[receiving].sock \in live \cap deadline
  /\ UNCHANGED <<inbox, conns>>

\* The error of a closed socket.
ReceiveFails ==
  /\ ReceiveReturns
  /\ conns[receiving].sock \notin live
  /\ UNCHANGED <<inbox, conns>>

\* A packet reaches an open socket.
Arrive(s, from) ==
  /\ arrived < MaxPackets
  /\ s \in live
  /\ inbox' = [inbox EXCEPT ![s] = Append(@, from)]
  /\ arrived' = arrived + 1
  /\ UNCHANGED <<gatherVars, gathered, agentVars, conns, deadline, receiving, crashed>>

-----------------------------------------------------------------------------
(* The specification.                                                      *)

Loop(k) == LoopStarts(k) \/ LoopTimesOut(k) \/ LoopFails(k) \/ LoopCalls(k)
           \/ \E from \in Remotes : LoopReceives(k, from)

Agent ==
  \/ \E t \in Threads :
       \/ \E ips \in IpLists, busy \in SUBSET Address :
            \E new \in Bound(ips, busy) : GatherSockets(t, new)
       \/ GatherStores(t)
  \/ \E r \in Remotes : AddRemoteCandidate(r)
  \/ GetRemoteCandidates \/ Connect \/ Close

Connection ==
  \/ \E k \in Conn :
       \/ CloseConnection(k) \/ ReceiveStarts(k) \/ Loop(k)
       \/ \E h \in Handlers : SetReceiveHandler(k, h)
  \/ (\E from \in Remotes : ReceivePacket(from)) \/ ReceiveTimesOut \/ ReceiveFails
  \/ \E s \in live, from \in Remotes : Arrive(s, from)

Next == ~crashed /\ (Agent \/ Connection)

Spec == Init /\ [][Next]_vars

(***************************************************************************)
(* The goroutine of every connection keeps running, and the deadline or a  *)
(* packet ends the read of a socket.  Goroutines that read one socket wait *)
(* for each other, and nothing promises a turn to any of them: one of them *)
(* gets on.                                                                *)
(***************************************************************************)
Fairness ==
  /\ \A k \in 1..MaxConns :
       WF_vars(~crashed /\ k \in Conn /\ (LoopStarts(k) \/ LoopFails(k) \/ LoopCalls(k)))
  /\ \A s \in 1..MaxSockets :
       WF_vars(~crashed /\ \E k \in Conn :
                 /\ conns[k].sock = s
                 /\ LoopTimesOut(k) \/ \E from \in Remotes : LoopReceives(k, from))

FairSpec == Spec /\ Fairness

-----------------------------------------------------------------------------
(* Properties.                                                             *)

\* The type of every variable.
TypeOK ==
  LET Sockets == 1..Len(addr)
  IN  /\ addr \in Seq(Address) /\ live \subseteq Sockets
      /\ candidates \in Seq(Address) /\ listeners \in Seq(Sockets)
      /\ gathered \in [Threads -> Seq(Address) \cup {None}]
      /\ local \in Seq(Address) /\ remotes \in Seq(Remotes)
      /\ conns \in Seq([local : Address, remote : Remotes, sock : Sockets,
                        closed : BOOLEAN, handler : Handlers \cup {None},
                        loop : {"check", "reading", "handling", "ended"},
                        taking : Handlers \cup {None}, late : Nat, missed : Nat,
                        polled : BOOLEAN])
      /\ current \in 0..Len(conns) /\ deadline \subseteq Sockets
      /\ inbox \in Seq(Seq(Remotes)) /\ Len(inbox) = Len(addr) /\ arrived \in Nat
      /\ receiving \in 0..Len(conns)
      /\ crashed \in BOOLEAN

\* The two lists of the gatherer never drift apart by more than what Close
\* removed: the listeners are the open sockets, in the order of the last
\* candidates, and every candidate the agent may have stored, however late, is
\* at its place in the gatherer's list (gatherer.go Gather and Close).
ListenersAreLatest ==
  LET removed == Len(candidates) - Len(listeners)
  IN  /\ removed >= 0
      /\ \A i \in DOMAIN listeners : addr[listeners[i]] = candidates[removed + i]
      /\ ToSet(listeners) = live
      /\ \A kept \in {local} \cup {gathered[t] : t \in {u \in Threads : gathered[u] # None}} :
           IsPrefix(kept, candidates)

\* What "the listener for this local candidate" (connection.go Connect) comes to:
\* a connection reads and writes another address than its local candidate only
\* if the agent was closed and gathered again.
PairedUnlessClosed ==
  \A k \in Conn :
    conns[k].local # addr[conns[k].sock] => Len(listeners) < Len(candidates)

\* A turn of receiveLoop that was under way when Close returned may call the
\* handler once more, no later one does.
OneLateCall == \A k \in Conn : conns[k].late <= 1

\* Others than its receive loop read the socket of a connection: Receive was called
\* on it, or Connect has given the socket to another connection too.
Shared(k) ==
  conns[k].polled \/ \E j \in Conn \ {k} : conns[j].sock = conns[k].sock

\* After SetReceiveHandler returned, a handler misses at most one packet that its peer
\* sent and that was taken from the socket, the one of the turn of receiveLoop that was
\* under way, unless others read the socket: Receive and the loops of other connections
\* take any number of packets from it (connection.go Receive and receiveLoop).
OneMissedUnlessShared == \A k \in Conn : Shared(k) \/ conns[k].missed <= 1

\* Nobody wants connection k to read: the socket was closed, or all the connections
\* that read it.
Abandoned(k) ==
  /\ k \in Conn
  /\ \/ conns[k].sock \notin live
     \/ \A j \in Conn : conns[j].sock = conns[k].sock => conns[j].closed

\* Closing the agent ends the goroutines that receiveLoop runs on, those of the
\* connections that a later Connect replaced included, and so does closing all the
\* connections that read a socket, unless Connect makes another one on it.
LoopsEnd ==
  \A k \in 1..MaxConns :
    Abandoned(k) ~> (crashed \/ ~Abandoned(k) \/ conns[k].loop = "ended")
=============================================================================
