---------------------------- MODULE AgentProofs ----------------------------
(***************************************************************************)
(* Proofs about the agent, its gatherer and its connections, for any       *)
(* interfaces, ports, goroutines, peers and handlers.                      *)
(***************************************************************************)
EXTENDS Agent, TLAPS

-----------------------------------------------------------------------------
(* Sequences.                                                              *)

\* Two lists one after the other.
LEMMA ConcatElements ==
  ASSUME NEW S, NEW s \in Seq(S), NEW t \in Seq(S)
  PROVE  /\ s \o t \in Seq(S)
         /\ Len(s) \in Nat /\ Len(t) \in Nat /\ Len(s \o t) = Len(s) + Len(t)
         /\ \A i \in 1..Len(s) : (s \o t)[i] = s[i]
         /\ \A i \in 1..Len(t) : (s \o t)[Len(s) + i] = t[i]
OBVIOUS

\* A list and one more element.
LEMMA AppendElements ==
  ASSUME NEW S, NEW s \in Seq(S), NEW e \in S
  PROVE  /\ Append(s, e) \in Seq(S)
         /\ Len(s) \in Nat /\ Len(Append(s, e)) = Len(s) + 1
         /\ \A i \in 1..Len(s) : Append(s, e)[i] = s[i]
         /\ Append(s, e)[Len(s) + 1] = e
OBVIOUS

\* What a list of S contains it contains as a list of any larger set.
LEMMA WiderSeq ==
  ASSUME NEW S, NEW T, S \subseteq T, NEW s \in Seq(S)
  PROVE  s \in Seq(T)
OBVIOUS

\* A prefix agrees with the list as far as it goes.
LEMMA PrefixElements ==
  ASSUME NEW S, NEW s \in Seq(S), NEW t \in Seq(S)
  PROVE  IsPrefix(s, t) <=> Len(s) <= Len(t) /\ \A i \in 1..Len(s) : s[i] = t[i]
<1>1. Len(s) \in Nat /\ Len(t) \in Nat
  OBVIOUS
<1>2. ASSUME Len(s) <= Len(t)
      PROVE  /\ SubSeq(s, 1, Len(s)) = s
             /\ SubSeq(t, 1, Len(s)) \in Seq(S) /\ Len(SubSeq(t, 1, Len(s))) = Len(s)
             /\ \A i \in 1..Len(s) : SubSeq(t, 1, Len(s))[i] = t[i]
  BY <1>1, <1>2
<1>3. ASSUME Len(s) <= Len(t)
      PROVE  s = SubSeq(t, 1, Len(s)) <=> \A i \in 1..Len(s) : s[i] = SubSeq(t, 1, Len(s))[i]
  BY <1>1, <1>2, <1>3
<1> QED  BY <1>1, <1>2, <1>3 DEF IsPrefix

\* The elements of two lists one after the other.
LEMMA ConcatToSet ==
  ASSUME NEW S, NEW s \in Seq(S), NEW t \in Seq(S)
  PROVE  ToSet(s \o t) = ToSet(s) \cup ToSet(t)
<1>1. /\ DOMAIN s = 1..Len(s) /\ DOMAIN t = 1..Len(t)
      /\ DOMAIN (s \o t) = 1..(Len(s) + Len(t))
      /\ Len(s) \in Nat /\ Len(t) \in Nat
  OBVIOUS
<1>2. ASSUME NEW x \in ToSet(s \o t) PROVE x \in ToSet(s) \cup ToSet(t)
  <2>1. PICK i \in 1..(Len(s) + Len(t)) : x = (s \o t)[i]
    BY <1>1, <1>2 DEF ToSet
  <2>2. CASE i <= Len(s)
    BY <1>1, <2>1, <2>2, ConcatElements DEF ToSet
  <2>3. CASE i > Len(s)
    <3>1. i - Len(s) \in 1..Len(t) /\ Len(s) + (i - Len(s)) = i
      BY <1>1, <2>1, <2>3
    <3>2. x = t[i - Len(s)]
      BY <2>1, <3>1, ConcatElements
    <3> QED  BY <1>1, <3>1, <3>2 DEF ToSet
  <2> QED  BY <1>1, <2>1, <2>2, <2>3
<1>3. ASSUME NEW x \in ToSet(s) \cup ToSet(t) PROVE x \in ToSet(s \o t)
  <2>1. CASE x \in ToSet(s)
    <3>1. PICK i \in 1..Len(s) : x = s[i]
      BY <1>1, <2>1 DEF ToSet
    <3>2. i \in 1..(Len(s) + Len(t)) /\ (s \o t)[i] = x
      BY <1>1, <3>1, ConcatElements
    <3> QED  BY <1>1, <3>2 DEF ToSet
  <2>2. CASE x \in ToSet(t)
    <3>1. PICK i \in 1..Len(t) : x = t[i]
      BY <1>1, <2>2 DEF ToSet
    <3>2. Len(s) + i \in 1..(Len(s) + Len(t)) /\ (s \o t)[Len(s) + i] = x
      BY <1>1, <3>1, ConcatElements
    <3> QED  BY <1>1, <3>2 DEF ToSet
  <2> QED  BY <1>3, <2>1, <2>2
<1> QED  BY <1>2, <1>3

-----------------------------------------------------------------------------
(* The inductive invariant.                                                *)

Sockets == 1..Len(addr)

ConnectionType ==
  [local : Address, remote : Remotes, sock : Sockets, closed : BOOLEAN,
   handler : Handlers \cup {None}, loop : {"check", "reading", "handling", "ended"},
   taking : Handlers \cup {None}, late : Nat, missed : Nat, polled : BOOLEAN]

\* A turn that called a handler after Close is over, and the next one sees that the
\* context has ended.
LateTurn(c) ==
  \/ c.late = 0
  \/ c.late = 1 /\ c.closed /\ c.loop \in {"check", "ended"}

\* A turn that kept a packet from the handler is over, and the next one takes the
\* handler, or has taken it.
MissedTurn(c) ==
  \/ c.missed = 0
  \/ c.missed = 1 /\ (c.loop \in {"check", "ended"} \/ c.taking = c.handler)

Turns ==
  /\ \A k \in Conn : LateTurn(conns[k]) /\ (Shared(k) \/ MissedTurn(conns[k]))
  /\ receiving # 0 => conns[receiving].polled

IInv == TypeOK /\ Turns /\ ListenersAreLatest /\ PairedUnlessClosed

LEMMA InitIInv == Init => IInv
<1> SUFFICES ASSUME Init PROVE IInv
  OBVIOUS
<1>1. TypeOK
  <2>1. \A S : <<>> \in Seq(S)
    OBVIOUS
  <2>2. gathered \in [Threads -> Seq(Address) \cup {None}]
    BY DEF Init
  <2>3. Len(conns) = 0 /\ Len(addr) = 0 /\ Len(inbox) = 0
    BY DEF Init
  <2>4. conns \in Seq(ConnectionType)
    BY <2>1 DEF Init
  <2>5. /\ addr \in Seq(Address) /\ candidates \in Seq(Address) /\ local \in Seq(Address)
        /\ listeners \in Seq(Sockets) /\ remotes \in Seq(Remotes)
        /\ inbox \in Seq(Seq(Remotes))
    BY <2>1 DEF Init
  <2>6. /\ live \subseteq Sockets /\ deadline \subseteq Sockets
        /\ current \in 0..Len(conns) /\ receiving \in 0..Len(conns)
        /\ Len(inbox) = Len(addr) /\ arrived \in Nat
    BY <2>3 DEF Init
  <2>7. crashed \in BOOLEAN
    BY DEF Init
  <2> QED  BY <2>2, <2>4, <2>5, <2>6, <2>7 DEF TypeOK, ConnectionType, Sockets
<1>2. Conn = {} /\ receiving = 0 /\ ListenersAreLatest
  <2>1. \A kept \in {local} \cup {gathered[t] : t \in {u \in Threads : gathered[u] # None}} :
          kept = <<>>
    BY DEF Init
  <2>2. IsPrefix(<<>>, candidates)
    BY DEF Init, IsPrefix
  <2>3. ToSet(<<>>) = {}
    BY DEF ToSet
  <2> QED  BY <2>1, <2>2, <2>3 DEF Init, Conn, ListenersAreLatest
<1> QED  BY <1>1, <1>2 DEF IInv, Turns, PairedUnlessClosed

\* What the gatherer returned is a prefix of what it has.
LEMMA KeptPrefix ==
  ASSUME ListenersAreLatest
  PROVE  /\ IsPrefix(local, candidates)
         /\ \A t \in Threads : gathered[t] # None => IsPrefix(gathered[t], candidates)
BY DEF ListenersAreLatest

-----------------------------------------------------------------------------
(* The connections.                                                        *)

\* The connections are no longer what they were, except for their ends.
LEMMA ConnectionsStep ==
  ASSUME IInv,
         conns' \in Seq(ConnectionType), Len(conns') = Len(conns),
         \A j \in Conn : /\ conns'[j].local = conns[j].local
                         /\ conns'[j].sock = conns[j].sock
                         /\ conns[j].polled => conns'[j].polled
                         /\ LateTurn(conns'[j])
                         /\ Shared(j) \/ MissedTurn(conns'[j]),
         UNCHANGED <<gatherVars, gathered, agentVars, crashed>>,
         arrived' \in Nat, deadline' \subseteq Sockets,
         receiving' \in 0..Len(conns), receiving' # 0 => conns'[receiving'].polled,
         inbox' \in Seq(Seq(Remotes)), Len(inbox') = Len(inbox)
  PROVE  IInv'
<1> USE DEF gatherVars, agentVars
<1>1. Conn' = Conn
  BY DEF Conn
<1>2. TypeOK'
  BY DEF IInv, TypeOK, ConnectionType, Sockets
<1>3. \A k \in Conn : Shared(k) => Shared(k)'
  BY <1>1 DEF Shared
<1>4. Turns'
  BY <1>1, <1>3 DEF Turns
<1>5. PairedUnlessClosed'
  BY <1>1 DEF IInv, PairedUnlessClosed
<1>6. ListenersAreLatest'
  BY DEF IInv, ListenersAreLatest
<1> QED  BY <1>2, <1>4, <1>5, <1>6 DEF IInv

\* What is known of every connection.
LEMMA EachConnection ==
  ASSUME IInv
  PROVE  /\ conns \in Seq(ConnectionType) /\ Conn = DOMAIN conns
         /\ \A k \in Conn : /\ conns[k] \in ConnectionType /\ conns[k].sock \in Sockets
                            /\ LateTurn(conns[k])
                            /\ Shared(k) \/ MissedTurn(conns[k])
<1>1. conns \in Seq(ConnectionType)
  BY DEF IInv, TypeOK, ConnectionType, Sockets
<1>2. Conn = DOMAIN conns /\ \A k \in Conn : conns[k] \in ConnectionType
  BY <1>1 DEF Conn
<1>3. \A k \in Conn : conns[k].sock \in Sockets
  BY <1>2 DEF ConnectionType
<1> QED  BY <1>1, <1>2, <1>3 DEF IInv, Turns

\* What is known of the reads.
LEMMA Reads ==
  ASSUME IInv
  PROVE  /\ arrived \in Nat /\ deadline \subseteq Sockets
         /\ receiving \in 0..Len(conns) /\ Len(conns) \in Nat
<1>1. arrived \in Nat /\ deadline \subseteq Sockets /\ receiving \in 0..Len(conns)
  BY DEF IInv, TypeOK, Sockets
<1>2. Len(conns) \in Nat
  BY EachConnection
<1> QED  BY <1>1, <1>2

\* A step of one connection.
LEMMA ConnectionStep ==
  ASSUME IInv, NEW k \in Conn, NEW c \in ConnectionType,
         LateTurn(c), Shared(k) \/ MissedTurn(c),
         c.local = conns[k].local, c.sock = conns[k].sock, conns[k].polled => c.polled,
         conns' = [conns EXCEPT ![k] = c],
         UNCHANGED <<gatherVars, gathered, agentVars, netVars, crashed>>,
         deadline' \subseteq Sockets,
         receiving' = receiving \/ (receiving' = k /\ c.polled)
  PROVE  IInv'
<1>1. /\ conns' \in Seq(ConnectionType) /\ Len(conns') = Len(conns)
      /\ conns'[k] = c /\ \A j \in Conn : j # k => conns'[j] = conns[j]
  BY EachConnection DEF Conn
<1>2. \A j \in Conn : /\ conns'[j].local = conns[j].local
                      /\ conns'[j].sock = conns[j].sock
                      /\ conns[j].polled => conns'[j].polled
                      /\ LateTurn(conns'[j])
                      /\ Shared(j) \/ MissedTurn(conns'[j])
  BY <1>1, EachConnection
<1>3. /\ inbox' \in Seq(Seq(Remotes)) /\ Len(inbox') = Len(inbox) /\ arrived' \in Nat
  BY DEF IInv, TypeOK, netVars
<1>4. receiving' \in 0..Len(conns) /\ (receiving' # 0 => conns'[receiving'].polled)
  <2>1. CASE receiving' = k /\ c.polled
    BY <1>1, <2>1, EachConnection DEF Conn
  <2>2. CASE receiving' = receiving
    <3>1. receiving \in 0..Len(conns) /\ (receiving # 0 => receiving \in Conn)
      BY EachConnection DEF IInv, TypeOK, Conn
    <3> QED  BY <1>2, <2>2, <3>1 DEF IInv, Turns
  <2> QED  BY <2>1, <2>2
<1> QED  BY <1>1, <1>2, <1>3, <1>4, ConnectionsStep

\* A packet that is taken from a socket.
LEMMA PacketType ==
  ASSUME IInv, NEW k \in Conn, NEW from \in Remotes, Packet(k, from)
  PROVE  inbox' \in Seq(Seq(Remotes)) /\ Len(inbox') = Len(inbox)
<1> DEFINE s == conns[k].sock
<1>1. inbox' = [inbox EXCEPT ![s] = Tail(inbox[s])] /\ inbox[s] # <<>>
  BY DEF Packet
<1>2. s \in 1..Len(inbox) /\ inbox \in Seq(Seq(Remotes))
  BY EachConnection DEF IInv, TypeOK, Sockets
<1> HIDE DEF s
<1>3. inbox[s] \in Seq(Remotes)
  BY <1>2
<1>4. Tail(inbox[s]) \in Seq(Remotes)
  BY <1>1, <1>3
<1> QED  BY <1>1, <1>2, <1>4

\* The connections differ from what they are in what their handlers have missed: the
\* handler of k, or one of a connection that shares the socket, has missed one more.
OnlyMissed(after, k, from, called) ==
  /\ after \in Seq(ConnectionType) /\ Len(after) = Len(conns)
  /\ \A j \in Conn :
       /\ after[j].local = conns[j].local /\ after[j].sock = conns[j].sock
       /\ after[j].closed = conns[j].closed /\ after[j].handler = conns[j].handler
       /\ after[j].loop = conns[j].loop /\ after[j].taking = conns[j].taking
       /\ after[j].late = conns[j].late /\ after[j].polled = conns[j].polled
       /\ \/ after[j].missed = conns[j].missed
          \/ /\ after[j].missed = conns[j].missed + 1
             /\ j # called /\ conns[j].remote = from /\ conns[j].handler # None
             /\ j # k => Shared(j)

\* What it means that a packet is taken from the socket of k.
LEMMA MissedPacket ==
  ASSUME IInv, NEW k \in Conn, NEW from, NEW called
  PROVE  OnlyMissed(Missed(conns[k].sock, from, called), k, from, called)
<1> DEFINE after == Missed(conns[k].sock, from, called)
<1>1. \A j \in Conn : after[j] =
        IF j # called /\ conns[j].sock = conns[k].sock /\ conns[j].remote = from
             /\ conns[j].handler # None
          THEN [conns[j] EXCEPT !.missed = conns[j].missed + 1] ELSE conns[j]
  BY DEF Missed
<1>2. after = [j \in 1..Len(conns) |-> after[j]]
  BY DEF Missed, Conn
<1> HIDE DEF after
<1>3. ASSUME NEW j \in Conn
      PROVE  /\ after[j] \in ConnectionType
             /\ after[j].local = conns[j].local /\ after[j].sock = conns[j].sock
             /\ after[j].closed = conns[j].closed /\ after[j].handler = conns[j].handler
             /\ after[j].loop = conns[j].loop /\ after[j].taking = conns[j].taking
             /\ after[j].late = conns[j].late /\ after[j].polled = conns[j].polled
             /\ \/ after[j].missed = conns[j].missed
                \/ /\ after[j].missed = conns[j].missed + 1
                   /\ j # called /\ conns[j].remote = from /\ conns[j].handler # None
                   /\ conns[j].sock = conns[k].sock
  <2>1. conns[j] \in ConnectionType
    BY EachConnection
  <2>2. CASE after[j] = conns[j]
    BY <2>1, <2>2
  <2>3. CASE /\ after[j] = [conns[j] EXCEPT !.missed = conns[j].missed + 1]
             /\ j # called /\ conns[j].remote = from /\ conns[j].handler # None
             /\ conns[j].sock = conns[k].sock
    BY <2>1, <2>3 DEF ConnectionType
  <2> QED  BY <1>1, <2>2, <2>3
<1>4. after \in Seq(ConnectionType) /\ Len(after) = Len(conns)
  <2>1. Len(conns) \in Nat /\ Conn = 1..Len(conns)
    BY EachConnection DEF Conn
  <2>2. after \in [1..Len(conns) -> ConnectionType]
    BY <1>2, <1>3, <2>1
  <2> QED  BY <2>1, <2>2
<1>5. \A j \in Conn : j # k /\ conns[j].sock = conns[k].sock => Shared(j)
  BY DEF Shared
<1>6. OnlyMissed(after, k, from, called)
  BY <1>3, <1>4, <1>5 DEF OnlyMissed
<1> QED  BY <1>6 DEF after

\* A packet that the loop of k takes from the socket.
LEMMA LoopReceivesIInv ==
  ASSUME IInv, NEW k \in Conn, NEW from \in Remotes, LoopReceives(k, from)
  PROVE  IInv'
<1> DEFINE called == from = conns[k].remote /\ conns[k].taking # None
           but == IF called THEN k ELSE 0
           after == Missed(conns[k].sock, from, but)
           loop == IF called THEN "handling" ELSE "check"
<1>1. /\ conns' = [after EXCEPT ![k].loop = loop]
      /\ conns[k].loop = "reading" /\ Packet(k, from)
      /\ UNCHANGED <<gatherVars, gathered, agentVars, deadline, arrived, receiving, crashed>>
  BY DEF LoopReceives
<1>2. OnlyMissed(after, k, from, but)
  BY MissedPacket
<1>3. loop \in {"check", "handling"} /\ (loop = "handling" => called /\ but = k)
  OBVIOUS
<1> HIDE DEF after, loop, but
<1>4. /\ Len(conns') = Len(conns) /\ conns' \in Seq(ConnectionType)
      /\ conns'[k] = [after[k] EXCEPT !.loop = loop]
      /\ \A j \in Conn : j # k => conns'[j] = after[j]
  <2>1. Conn = 1..Len(after) /\ after[k] \in ConnectionType /\ after \in Seq(ConnectionType)
        /\ Len(after) = Len(conns)
    BY <1>2 DEF Conn, OnlyMissed
  <2>2. [after[k] EXCEPT !.loop = loop] \in ConnectionType
    BY <1>3, <2>1 DEF ConnectionType
  <2> QED  BY <1>1, <2>1, <2>2
<1>5. /\ conns'[k].local = conns[k].local /\ conns'[k].sock = conns[k].sock
      /\ conns'[k].polled = conns[k].polled /\ conns'[k].closed = conns[k].closed
      /\ conns'[k].late = conns[k].late /\ conns'[k].loop = loop
      /\ conns'[k].taking = conns[k].taking /\ conns'[k].handler = conns[k].handler
      /\ \/ conns'[k].missed = conns[k].missed
         \/ conns'[k].missed = conns[k].missed + 1 /\ k # but /\ conns[k].remote = from
            /\ conns[k].handler # None
  <2>1. after[k] \in ConnectionType
    BY <1>2 DEF Conn, OnlyMissed
  <2> QED  BY <1>2, <1>4, <2>1 DEF ConnectionType, OnlyMissed
<1>6. LateTurn(conns'[k]) /\ (Shared(k) \/ MissedTurn(conns'[k]))
  <2>1. LateTurn(conns[k]) /\ (Shared(k) \/ MissedTurn(conns[k])) /\ conns[k] \in ConnectionType
    BY EachConnection
  <2>2. LateTurn(conns'[k])
    BY <1>1, <1>5, <2>1 DEF LateTurn
  <2>3. ASSUME MissedTurn(conns[k]) PROVE MissedTurn(conns'[k])
    <3>1. CASE loop = "check"
      <4>1. conns[k].missed = 0 \/ (conns[k].missed = 1 /\ conns[k].taking = conns[k].handler)
        BY <1>1, <2>3 DEF MissedTurn
      <4>2. CASE conns'[k].missed = conns[k].missed
        BY <1>5, <3>1, <4>1, <4>2 DEF MissedTurn
      <4>3. CASE conns'[k].missed = conns[k].missed + 1 /\ k # but /\ conns[k].remote = from
                 /\ conns[k].handler # None
        <5>1. conns[k].taking = None
          BY <4>3 DEF but
        <5> QED  BY <1>5, <3>1, <4>1, <4>3, <5>1 DEF MissedTurn
      <4> QED  BY <1>5, <4>2, <4>3
    <3>2. CASE loop = "handling"
      BY <1>1, <1>3, <1>5, <2>3, <3>2 DEF MissedTurn
    <3> QED  BY <1>3, <3>1, <3>2
  <2> QED  BY <2>1, <2>2, <2>3
<1>7. \A j \in Conn : /\ conns'[j].local = conns[j].local
                      /\ conns'[j].sock = conns[j].sock
                      /\ conns[j].polled => conns'[j].polled
                      /\ LateTurn(conns'[j])
                      /\ Shared(j) \/ MissedTurn(conns'[j])
  <2> SUFFICES ASSUME NEW j \in Conn, j # k
               PROVE  /\ conns'[j].local = conns[j].local
                      /\ conns'[j].sock = conns[j].sock
                      /\ conns[j].polled => conns'[j].polled
                      /\ LateTurn(conns'[j])
                      /\ Shared(j) \/ MissedTurn(conns'[j])
    BY <1>5, <1>6
  <2>1. conns[j] \in ConnectionType /\ LateTurn(conns[j]) /\ (Shared(j) \/ MissedTurn(conns[j]))
    BY EachConnection
  <2> QED  BY <1>2, <1>4, <2>1 DEF OnlyMissed, LateTurn, MissedTurn
<1>8. inbox' \in Seq(Seq(Remotes)) /\ Len(inbox') = Len(inbox)
  BY <1>1, PacketType
<1>9. /\ arrived' \in Nat /\ deadline' \subseteq Sockets
      /\ receiving' \in 0..Len(conns) /\ (receiving' # 0 => conns'[receiving'].polled)
  <2>1. receiving' = receiving /\ receiving \in 0..Len(conns)
        /\ (receiving # 0 => receiving \in Conn /\ conns[receiving].polled)
    BY <1>1, EachConnection DEF IInv, TypeOK, Turns, Conn
  <2> QED  BY <1>1, <1>7, <2>1 DEF IInv, TypeOK, Sockets
<1> QED  BY <1>1, <1>4, <1>7, <1>8, <1>9, ConnectionsStep

\* A packet that Receive takes from the socket: the connection is shared for good.
LEMMA ReceivePacketIInv ==
  ASSUME IInv, NEW from \in Remotes, ReceivePacket(from)
  PROVE  IInv'
<1> DEFINE k == receiving
           after == Missed(conns[k].sock, from, 0)
<1>1. /\ conns' = after /\ Packet(k, from) /\ receiving # 0 /\ receiving' = 0
      /\ UNCHANGED <<gatherVars, gathered, agentVars, deadline, arrived, crashed>>
  BY DEF ReceivePacket, ReceiveReturns
<1>2. k \in Conn /\ Shared(k)
  BY <1>1, EachConnection DEF IInv, TypeOK, Turns, Conn, Shared
<1>3. OnlyMissed(after, k, from, 0)
  BY <1>2, MissedPacket
<1> HIDE DEF after
<1>4. \A j \in Conn : /\ conns'[j].local = conns[j].local
                      /\ conns'[j].sock = conns[j].sock
                      /\ conns[j].polled => conns'[j].polled
                      /\ LateTurn(conns'[j])
                      /\ Shared(j) \/ MissedTurn(conns'[j])
  <2> TAKE j \in Conn
  <2>1. conns[j] \in ConnectionType /\ LateTurn(conns[j]) /\ (Shared(j) \/ MissedTurn(conns[j]))
    BY EachConnection
  <2> QED  BY <1>1, <1>2, <1>3, <2>1 DEF OnlyMissed, LateTurn, MissedTurn
<1>5. inbox' \in Seq(Seq(Remotes)) /\ Len(inbox') = Len(inbox)
  BY <1>1, <1>2, PacketType
<1>6. arrived' \in Nat /\ deadline' \subseteq Sockets /\ receiving' \in 0..Len(conns)
  BY <1>1, Reads
<1> QED  BY <1>1, <1>3, <1>4, <1>5, <1>6, ConnectionsStep DEF OnlyMissed

\* The other turns of receiveLoop, SetReceiveHandler, Receive and Close of a connection.
LEMMA LoopIInv ==
  ASSUME IInv, NEW k \in Conn,
         Loop(k) \/ CloseConnection(k) \/ ReceiveStarts(k)
           \/ \E h \in Handlers : SetReceiveHandler(k, h)
  PROVE  IInv'
<1> DEFINE c == conns[k]
<1>1. /\ c \in ConnectionType /\ c.sock \in Sockets /\ deadline \subseteq Sockets
      /\ LateTurn(c) /\ (Shared(k) \/ MissedTurn(c))
  BY EachConnection DEF IInv, TypeOK, Sockets
<1> USE <1>1 DEF ConnectionType, LateTurn, MissedTurn
<1>2. CASE CloseConnection(k)
  <2> DEFINE d == [c EXCEPT !.closed = TRUE]
  <2>1. conns' = [conns EXCEPT ![k] = d]
    BY <1>2 DEF CloseConnection
  <2>2. d \in ConnectionType /\ LateTurn(d) /\ (Shared(k) \/ MissedTurn(d))
    OBVIOUS
  <2> QED  BY <1>2, <2>1, <2>2, ConnectionStep DEF CloseConnection
<1>3. ASSUME NEW h \in Handlers, SetReceiveHandler(k, h) PROVE IInv'
  <2> DEFINE d == [c EXCEPT !.handler = h, !.missed = 0]
  <2>1. conns' = [conns EXCEPT ![k] = d]
    BY <1>3 DEF SetReceiveHandler
  <2>2. d \in ConnectionType /\ LateTurn(d) /\ (Shared(k) \/ MissedTurn(d))
    OBVIOUS
  <2> QED  BY <1>3, <2>1, <2>2, ConnectionStep DEF SetReceiveHandler
<1>4. CASE LoopStarts(k)
  <2>1. CASE c.closed
    <3> DEFINE d == [c EXCEPT !.loop = "ended"]
    <3>1. conns' = [conns EXCEPT ![k] = d] /\ deadline' = deadline
      BY <1>4, <2>1 DEF LoopStarts
    <3>2. d \in ConnectionType /\ LateTurn(d) /\ (Shared(k) \/ MissedTurn(d))
      BY <1>4 DEF LoopStarts
    <3> QED  BY <1>4, <3>1, <3>2, ConnectionStep DEF LoopStarts
  <2>2. CASE ~c.closed
    <3> DEFINE d == [c EXCEPT !.loop = "reading", !.taking = c.handler]
    <3>1. conns' = [conns EXCEPT ![k] = d] /\ deadline' = deadline \cup {c.sock}
      BY <1>4, <2>2 DEF LoopStarts
    <3>2. d \in ConnectionType /\ LateTurn(d) /\ (Shared(k) \/ MissedTurn(d))
      BY <2>2
    <3> QED  BY <1>4, <3>1, <3>2, ConnectionStep DEF LoopStarts
  <2> QED  BY <2>1, <2>2
<1>5. ASSUME NEW from \in Remotes, LoopReceives(k, from) PROVE IInv'
  BY <1>5, LoopReceivesIInv
<1>6. CASE LoopCalls(k)
  <2> DEFINE late == IF c.closed THEN c.late + 1 ELSE c.late
             missed == IF c.taking # c.handler THEN c.missed + 1 ELSE c.missed
             d == [c EXCEPT !.loop = "check", !.late = late, !.missed = missed]
  <2>1. conns' = [conns EXCEPT ![k] = d] /\ c.loop = "handling"
    BY <1>6 DEF LoopCalls
  <2>2. /\ late \in Nat /\ (late = 0 \/ (late = 1 /\ c.closed))
        /\ missed \in Nat /\ (Shared(k) \/ missed = 0 \/ missed = 1)
    BY <2>1
  <2> HIDE DEF late, missed
  <2>3. d \in ConnectionType
    BY <2>2
  <2>4. LateTurn(d) /\ (Shared(k) \/ MissedTurn(d))
    <3>1. d.late = late /\ d.missed = missed /\ d.loop = "check" /\ d.closed = c.closed
      BY DEF ConnectionType
    <3> HIDE DEF d
    <3>2. LateTurn(d)
      BY <2>2, <3>1
    <3>3. Shared(k) \/ MissedTurn(d)
      BY <2>2, <3>1
    <3> QED  BY <3>2, <3>3
  <2>5. d.local = c.local /\ d.sock = c.sock /\ d.polled = c.polled
    BY DEF ConnectionType
  <2>6. UNCHANGED <<gatherVars, gathered, agentVars, netVars, receiving, crashed, deadline>>
    BY <1>6 DEF LoopCalls
  <2> HIDE DEF d
  <2> QED  BY <2>1, <2>3, <2>4, <2>5, <2>6, ConnectionStep
<1>7. CASE LoopTimesOut(k)
  <2> DEFINE d == [c EXCEPT !.loop = "check"]
  <2>1. conns' = [conns EXCEPT ![k] = d] /\ c.loop = "reading"
    BY <1>7 DEF LoopTimesOut
  <2>2. d \in ConnectionType /\ LateTurn(d) /\ (Shared(k) \/ MissedTurn(d))
    BY <2>1
  <2> QED  BY <1>7, <2>1, <2>2, ConnectionStep DEF LoopTimesOut
<1>8. CASE LoopFails(k)
  <2> DEFINE d == [c EXCEPT !.loop = "ended"]
  <2>1. conns' = [conns EXCEPT ![k] = d] /\ c.loop = "reading"
    BY <1>8 DEF LoopFails
  <2>2. d \in ConnectionType /\ LateTurn(d) /\ (Shared(k) \/ MissedTurn(d))
    BY <2>1
  <2> QED  BY <1>8, <2>1, <2>2, ConnectionStep DEF LoopFails
<1>9. CASE ReceiveStarts(k)
  <2> DEFINE d == [c EXCEPT !.polled = TRUE]
  <2>1. conns' = [conns EXCEPT ![k] = d] /\ receiving' = k /\ d.polled
    BY <1>9 DEF ReceiveStarts
  <2>2. d \in ConnectionType /\ LateTurn(d) /\ (Shared(k) \/ MissedTurn(d))
    OBVIOUS
  <2> QED  BY <1>9, <2>1, <2>2, ConnectionStep DEF ReceiveStarts
<1> QED  BY <1>2, <1>3, <1>4, <1>5, <1>6, <1>7, <1>8, <1>9 DEF Loop

-----------------------------------------------------------------------------
(* The gatherer.                                                           *)

\* Sockets are bound to addresses.
LEMMA BoundType ==
  ASSUME NEW ips \in IpLists, NEW busy, NEW new \in Bound(ips, busy)
  PROVE  new \in Seq(Address)
<1>1. Len(ips) \in Nat
  BY IpListsAssumption
<1>2. new \in SeqOf(Address, Len(ips))
  BY DEF Bound
<1>3. PICK m \in 0..Len(ips) : new \in [1..m -> Address]
  BY <1>2 DEF SeqOf
<1> QED  BY <1>1, <1>3

\* A prefix of the candidates is one of the candidates and some more.
LEMMA LongerPrefix ==
  ASSUME NEW S, NEW s \in Seq(S), NEW t \in Seq(S), NEW u \in Seq(S), IsPrefix(s, t)
  PROVE  IsPrefix(s, t \o u)
<1>1. Len(s) <= Len(t) /\ \A i \in 1..Len(s) : s[i] = t[i]
  BY PrefixElements
<1>2. /\ t \o u \in Seq(S) /\ Len(t \o u) = Len(t) + Len(u)
      /\ Len(s) \in Nat /\ Len(t) \in Nat /\ Len(u) \in Nat
      /\ \A i \in 1..Len(t) : (t \o u)[i] = t[i]
  BY ConcatElements
<1>3. Len(s) <= Len(t \o u) /\ \A i \in 1..Len(s) : s[i] = (t \o u)[i]
  BY <1>1, <1>2
<1> QED  BY <1>2, <1>3, PrefixElements

LEMMA GatherIInv ==
  ASSUME IInv, NEW t \in Threads, NEW new \in Seq(Address), GatherSockets(t, new)
  PROVE  IInv'
<1> DEFINE n == Len(addr)
           fresh == [i \in 1..Len(new) |-> n + i]
           both == 1..(n + Len(new))
<1> USE DEF agentVars
<1>1. /\ addr' = addr \o new /\ candidates' = candidates \o new
      /\ listeners' = listeners \o fresh /\ live' = live \cup (n + 1)..(n + Len(new))
      /\ inbox' = inbox \o [i \in 1..Len(new) |-> <<>>]
      /\ gathered' = [gathered EXCEPT ![t] = candidates']
      /\ UNCHANGED <<local, remotes, current, conns, deadline, arrived, receiving, crashed>>
  BY DEF GatherSockets
<1>2. /\ addr \in Seq(Address) /\ candidates \in Seq(Address) /\ listeners \in Seq(Sockets)
      /\ inbox \in Seq(Seq(Remotes)) /\ conns \in Seq(ConnectionType)
      /\ Len(inbox) = n /\ n \in Nat /\ Len(new) \in Nat
      /\ local \in Seq(Address) /\ gathered \in [Threads -> Seq(Address) \cup {None}]
  BY DEF IInv, TypeOK, Sockets, ConnectionType
<1>3. /\ addr' \in Seq(Address) /\ Len(addr') = n + Len(new)
      /\ \A i \in 1..n : addr'[i] = addr[i]
      /\ \A i \in 1..Len(new) : addr'[n + i] = new[i]
  BY <1>1, <1>2, ConcatElements
<1>4. Sockets' = both /\ Sockets \subseteq both
  BY <1>2, <1>3 DEF Sockets
<1>5. /\ Len(candidates) \in Nat /\ Len(candidates') = Len(candidates) + Len(new)
      /\ candidates' \in Seq(Address)
      /\ \A i \in 1..Len(candidates) : candidates'[i] = candidates[i]
      /\ \A i \in 1..Len(new) : candidates'[Len(candidates) + i] = new[i]
  BY <1>1, <1>2, ConcatElements
<1>6. /\ fresh \in Seq(both) /\ Len(fresh) = Len(new)
      /\ \A i \in 1..Len(new) : fresh[i] = n + i
  BY <1>2
<1>7. ToSet(fresh) = (n + 1)..(n + Len(new))
  <2>1. ToSet(fresh) = {fresh[i] : i \in 1..Len(new)}
    BY DEF ToSet
  <2>2. \A x \in (n + 1)..(n + Len(new)) : x - n \in 1..Len(new) /\ n + (x - n) = x
    BY <1>2
  <2>3. \A i \in 1..Len(new) : n + i \in (n + 1)..(n + Len(new))
    BY <1>2
  <2> QED  BY <1>6, <2>1, <2>2, <2>3
<1> HIDE DEF fresh
<1>8. listeners \in Seq(both)
  BY <1>2, <1>4, WiderSeq
<1>9. /\ Len(listeners) \in Nat /\ Len(listeners') = Len(listeners) + Len(new)
      /\ listeners' \in Seq(both)
      /\ \A i \in 1..Len(listeners) : listeners'[i] = listeners[i]
      /\ \A i \in 1..Len(new) : listeners'[Len(listeners) + i] = n + i
      /\ ToSet(listeners') = ToSet(listeners) \cup (n + 1)..(n + Len(new))
  <2>1. /\ listeners \o fresh \in Seq(both) /\ Len(listeners) \in Nat
        /\ Len(listeners \o fresh) = Len(listeners) + Len(fresh)
        /\ \A i \in 1..Len(listeners) : (listeners \o fresh)[i] = listeners[i]
        /\ \A i \in 1..Len(fresh) : (listeners \o fresh)[Len(listeners) + i] = fresh[i]
    <3> HIDE DEF both
    <3>1. listeners \o fresh \in Seq(both)
      BY ONLY <1>6, <1>8, ConcatElements
    <3>2. Len(listeners) \in Nat /\ Len(listeners \o fresh) = Len(listeners) + Len(fresh)
      BY ONLY <1>6, <1>8, ConcatElements
    <3>3. \A i \in 1..Len(listeners) : (listeners \o fresh)[i] = listeners[i]
      BY ONLY <1>6, <1>8, ConcatElements
    <3>4. \A i \in 1..Len(fresh) : (listeners \o fresh)[Len(listeners) + i] = fresh[i]
      BY ONLY <1>6, <1>8, ConcatElements
    <3> QED  BY <3>1, <3>2, <3>3, <3>4
  <2>2. ToSet(listeners \o fresh) = ToSet(listeners) \cup ToSet(fresh)
    <3> HIDE DEF both
    <3> QED  BY ONLY <1>6, <1>8, ConcatToSet
  <2> QED  BY <1>1, <1>6, <1>7, <2>1, <2>2
<1>10. TypeOK'
  <2>1. inbox' \in Seq(Seq(Remotes)) /\ Len(inbox') = Len(addr')
    <3>0. inbox \in Seq(Seq(Remotes))
      BY <1>2
    <3> DEFINE blank == [i \in 1..Len(new) |-> <<>>]
    <3>1. <<>> \in Seq(Remotes)
      OBVIOUS
    <3>2. blank \in Seq(Seq(Remotes)) /\ Len(blank) = Len(new)
      BY <1>2, <3>1
    <3>3. inbox' = inbox \o blank
      BY <1>1
    <3> HIDE DEF blank
    <3>4. inbox \o blank \in Seq(Seq(Remotes)) /\ Len(inbox \o blank) = Len(inbox) + Len(blank)
      BY ONLY <3>2, <3>0, ConcatElements
    <3> QED  BY <1>2, <1>3, <3>2, <3>3, <3>4
  <2>2. gathered' \in [Threads -> Seq(Address) \cup {None}]
    BY <1>1, <1>2, <1>5
  <2>3. live' \subseteq both /\ deadline' \subseteq both
    <3>1. live \subseteq Sockets /\ deadline \subseteq Sockets
      BY DEF IInv, TypeOK, Sockets
    <3>2. (n + 1)..(n + Len(new)) \subseteq both
      BY <1>2
    <3>3. live \subseteq both /\ deadline \subseteq both
      BY <1>4, <3>1
    <3> HIDE DEF both
    <3> QED  BY <1>1, <3>2, <3>3
  <2>4. conns' \in Seq(ConnectionType)'
    <3>1. ConnectionType \subseteq ConnectionType'
      BY <1>4 DEF ConnectionType
    <3> QED  BY <1>1, <1>2, <3>1, WiderSeq
  <2>5. /\ local' \in Seq(Address) /\ remotes' \in Seq(Remotes)
        /\ current' \in 0..Len(conns') /\ arrived' \in Nat /\ receiving' \in 0..Len(conns')
        /\ crashed' \in BOOLEAN
    BY <1>1 DEF IInv, TypeOK
  <2> QED  BY <1>3, <1>4, <1>5, <1>9, <2>1, <2>2, <2>3, <2>4, <2>5
           DEF TypeOK, ConnectionType, Sockets
<1>11. ListenersAreLatest'
  <2> DEFINE removed == Len(candidates) - Len(listeners)
  <2>1. /\ removed >= 0
        /\ \A i \in 1..Len(listeners) : addr[listeners[i]] = candidates[removed + i]
        /\ ToSet(listeners) = live
    BY <1>2 DEF IInv, ListenersAreLatest
  <2>2. Len(candidates') - Len(listeners') = removed /\ removed \in Nat
    BY <1>5, <1>9, <2>1
  <2>3. ASSUME NEW i \in 1..Len(listeners')
        PROVE  addr'[listeners'[i]] = candidates'[removed + i]
    <3>1. CASE i <= Len(listeners)
      <4>1. i \in 1..Len(listeners) /\ removed + i \in 1..Len(candidates)
        BY <1>5, <1>9, <2>1, <3>1
      <4>2. listeners[i] \in 1..n
        BY <1>2, <4>1 DEF Sockets
      <4> QED  BY <1>3, <1>5, <1>9, <2>1, <4>1, <4>2
    <3>2. CASE i > Len(listeners)
      <4> DEFINE j == i - Len(listeners)
      <4>1. /\ j \in 1..Len(new)
            /\ Len(listeners) + j = i /\ Len(candidates) + j = removed + i
        BY <1>5, <1>9, <3>2
      <4> HIDE DEF j
      <4>2. listeners'[Len(listeners) + j] = n + j
        BY <1>9, <4>1
      <4>3. addr'[n + j] = new[j] /\ candidates'[Len(candidates) + j] = new[j]
        BY <1>3, <1>5, <4>1
      <4> QED  BY <4>1, <4>2, <4>3
    <3> QED  BY <1>9, <3>1, <3>2
  <2>4. ToSet(listeners') = live'
    BY <1>1, <1>9, <2>1
  <2>5. IsPrefix(candidates', candidates')
    BY <1>5, PrefixElements
  <2>6. ASSUME NEW u \in Threads, gathered'[u] # None
        PROVE  IsPrefix(gathered'[u], candidates')
    <3>1. CASE u = t
      BY <1>1, <1>2, <2>5, <3>1
    <3>2. CASE u # t
      <4>1. gathered[u] # None /\ gathered'[u] = gathered[u] /\ gathered[u] \in Seq(Address)
        BY <1>1, <1>2, <2>6, <3>2
      <4>2. IsPrefix(gathered[u], candidates)
        BY <4>1, KeptPrefix DEF IInv
      <4> QED  BY <1>1, <1>2, <4>1, <4>2, LongerPrefix
    <3> QED  BY <3>1, <3>2
  <2>7. IsPrefix(local', candidates')
    <3>1. IsPrefix(local, candidates)
      BY KeptPrefix DEF IInv
    <3> QED  BY <1>1, <1>2, <3>1, LongerPrefix
  <2>8. DOMAIN listeners' = 1..Len(listeners')
    BY <1>9
  <2> HIDE DEF removed
  <2> QED  BY <2>2, <2>3, <2>4, <2>6, <2>7, <2>8 DEF ListenersAreLatest
<1>12. PairedUnlessClosed' /\ Turns'
  <2>1. Conn' = Conn
    BY <1>1 DEF Conn
  <2>2. \A k \in Conn : conns[k].sock \in 1..n
    <3>1. \A k \in Conn : conns[k] \in ConnectionType
      BY <1>2 DEF Conn
    <3> QED  BY <3>1 DEF ConnectionType, Sockets
  <2>3. PairedUnlessClosed'
    BY <1>1, <1>3, <1>5, <1>9, <2>1, <2>2 DEF IInv, PairedUnlessClosed
  <2> QED  BY <1>1, <2>1, <2>3 DEF IInv, Turns, Shared
<1> QED  BY <1>10, <1>11, <1>12 DEF IInv

-----------------------------------------------------------------------------
(* The agent and the network.                                              *)

LEMMA GatherStoresIInv ==
  ASSUME IInv, NEW t \in Threads, GatherStores(t)
  PROVE  IInv'
<1> USE DEF gatherVars, netVars
<1>1. /\ gathered[t] # None /\ local' = gathered[t]
      /\ gathered' = [gathered EXCEPT ![t] = None]
      /\ UNCHANGED <<addr, live, candidates, listeners, remotes, current, conns, deadline>>
      /\ UNCHANGED <<inbox, arrived, receiving, crashed>>
  BY DEF GatherStores
<1>2. gathered \in [Threads -> Seq(Address) \cup {None}]
  BY DEF IInv, TypeOK
<1>3. TypeOK'
  <2>1. local' \in Seq(Address) /\ gathered' \in [Threads -> Seq(Address) \cup {None}]
    BY <1>1, <1>2
  <2> QED  BY <1>1, <2>1 DEF IInv, TypeOK
<1>4. ListenersAreLatest'
  <2>1. IsPrefix(gathered[t], candidates)
    BY <1>1, KeptPrefix DEF IInv
  <2>2. ASSUME NEW u \in Threads, gathered'[u] # None
        PROVE  IsPrefix(gathered'[u], candidates)
    <3>1. gathered[u] # None /\ gathered'[u] = gathered[u]
      BY <1>1, <1>2, <2>2
    <3> QED  BY <3>1, KeptPrefix DEF IInv
  <2> QED  BY <1>1, <2>1, <2>2 DEF IInv, ListenersAreLatest
<1>5. Conn' = Conn
  BY <1>1 DEF Conn
<1> QED  BY <1>1, <1>3, <1>4, <1>5 DEF IInv, Turns, Shared, PairedUnlessClosed

LEMMA AddRemoteIInv ==
  ASSUME IInv, NEW r \in Remotes, AddRemoteCandidate(r)
  PROVE  IInv'
<1> USE DEF gatherVars, netVars
<1>1. /\ remotes' = Append(remotes, r)
      /\ UNCHANGED <<addr, live, candidates, listeners, gathered, local, current, conns>>
      /\ UNCHANGED <<deadline, inbox, arrived, receiving, crashed>>
  BY DEF AddRemoteCandidate
<1>2. remotes \in Seq(Remotes)
  BY DEF IInv, TypeOK
<1>3. remotes' \in Seq(Remotes)
  BY <1>1, <1>2
<1>4. Conn' = Conn
  BY <1>1 DEF Conn
<1>5. TypeOK'
  BY <1>1, <1>3 DEF IInv, TypeOK
<1> QED  BY <1>1, <1>4, <1>5 DEF IInv, Turns, Shared, ListenersAreLatest, PairedUnlessClosed

\* Until the agent is closed, its first candidate and its first listener belong
\* together.
LEMMA FirstPair ==
  ASSUME IInv, local # <<>>, listeners # <<>>, Len(listeners) = Len(candidates)
  PROVE  local[1] = addr[listeners[1]]
<1>1. /\ local \in Seq(Address) /\ candidates \in Seq(Address) /\ listeners \in Seq(Sockets)
  BY DEF IInv, TypeOK, Sockets
<1>2. Len(local) \in Nat /\ 1 \in 1..Len(local) /\ 1 \in DOMAIN listeners /\ 1 \in Nat
  BY <1>1
<1>3. local[1] = candidates[1]
  <2>1. IsPrefix(local, candidates)
    BY KeptPrefix DEF IInv
  <2> QED  BY <1>1, <1>2, <2>1, PrefixElements
<1>4. addr[listeners[1]] = candidates[1]
  <2>1. Len(candidates) - Len(listeners) = 0
    BY <1>1
  <2>2. addr[listeners[1]] = candidates[0 + 1]
    BY <1>2, <2>1 DEF IInv, ListenersAreLatest
  <2> QED  BY <2>2
<1> QED  BY <1>3, <1>4

LEMMA ConnectIInv ==
  ASSUME IInv, Connect
  PROVE  IInv'
<1> DEFINE c == NewConnection(local[1], remotes[1], listeners[1])
<1> USE DEF gatherVars, netVars
<1>1. /\ local # <<>> /\ remotes # <<>> /\ listeners # <<>>
      /\ conns' = Append(conns, c) /\ current' = Len(conns')
      /\ UNCHANGED <<addr, live, candidates, listeners, gathered, local, remotes>>
      /\ UNCHANGED <<deadline, inbox, arrived, receiving, crashed>>
  BY DEF Connect
<1>2. /\ local \in Seq(Address) /\ remotes \in Seq(Remotes) /\ listeners \in Seq(Sockets)
      /\ conns \in Seq(ConnectionType) /\ Len(conns) \in Nat
  BY DEF IInv, TypeOK, Sockets, ConnectionType
<1>3. /\ c \in ConnectionType /\ LateTurn(c) /\ MissedTurn(c)
      /\ c.local = local[1] /\ c.sock = listeners[1]
  <2>1. local[1] \in Address /\ remotes[1] \in Remotes /\ listeners[1] \in Sockets
    BY <1>1, <1>2
  <2> QED  BY <2>1 DEF NewConnection, ConnectionType, LateTurn, MissedTurn
<1> HIDE DEF c
<1>4. /\ conns' \in Seq(ConnectionType) /\ Len(conns') = Len(conns) + 1
      /\ conns'[Len(conns) + 1] = c /\ \A k \in Conn : conns'[k] = conns[k]
  BY <1>1, <1>2, <1>3, AppendElements DEF Conn
<1>5. Conn' = Conn \cup {Len(conns) + 1}
  BY <1>2, <1>4 DEF Conn
<1>6. TypeOK'
  <2>1. current' \in 0..Len(conns') /\ receiving' \in 0..Len(conns')
    BY <1>1, <1>2, <1>4 DEF IInv, TypeOK
  <2> QED  BY <1>1, <1>4, <2>1 DEF IInv, TypeOK, ConnectionType, Sockets
<1>7. Turns'
  <2>1. \A k \in Conn : Shared(k) => Shared(k)'
    BY <1>4, <1>5 DEF Shared
  <2>2. receiving \in 0..Len(conns) /\ (receiving # 0 => receiving \in Conn)
    BY <1>2 DEF IInv, TypeOK, Conn
  <2>3. receiving' # 0 => conns'[receiving'].polled
    BY <1>1, <1>4, <2>2 DEF IInv, Turns
  <2> QED  BY <1>3, <1>4, <1>5, <2>1, <2>3 DEF IInv, Turns
<1>8. PairedUnlessClosed'
  <2>1. /\ Len(listeners) <= Len(candidates)
        /\ Len(listeners) \in Nat /\ Len(candidates) \in Nat
    BY DEF IInv, TypeOK, ListenersAreLatest
  <2>2. ASSUME Len(listeners) = Len(candidates), NEW k \in Conn \cup {Len(conns) + 1}
        PROVE  conns'[k].local = addr[conns'[k].sock]
    <3>1. CASE k \in Conn
      <4>1. conns[k].local = addr[conns[k].sock]
        BY <2>1, <2>2, <3>1 DEF IInv, PairedUnlessClosed
      <4> QED  BY <1>4, <3>1, <4>1
    <3>2. CASE k = Len(conns) + 1
      BY <1>1, <1>3, <1>4, <2>2, <3>2, FirstPair
    <3> QED  BY <2>2, <3>1, <3>2
  <2>3. \A k \in Conn' : Len(listeners) = Len(candidates) =>
                           conns'[k].local = addr[conns'[k].sock]
    BY <1>5, <2>2
  <2>4. listeners' = listeners /\ candidates' = candidates /\ addr' = addr
    BY <1>1
  <2>5. Len(listeners) # Len(candidates) => Len(listeners) < Len(candidates)
    BY <2>1
  <2> QED  BY <2>3, <2>4, <2>5 DEF PairedUnlessClosed
<1>9. ListenersAreLatest'
  BY <1>1 DEF IInv, ListenersAreLatest
<1> QED  BY <1>6, <1>7, <1>8, <1>9 DEF IInv

LEMMA CloseIInv ==
  ASSUME IInv, Close
  PROVE  IInv'
<1> USE DEF netVars, agentVars
<1>1. /\ listeners' = <<>> /\ live' = live \ ToSet(listeners)
      /\ conns' = IF current = 0 THEN conns ELSE [conns EXCEPT ![current].closed = TRUE]
      /\ UNCHANGED <<addr, candidates, gathered, local, remotes, current>>
      /\ UNCHANGED <<deadline, inbox, arrived, receiving, crashed>>
  BY DEF Close
<1>2. conns \in Seq(ConnectionType) /\ current \in 0..Len(conns) /\ Len(conns) \in Nat
  BY DEF IInv, TypeOK, ConnectionType, Sockets
<1>3. /\ conns' \in Seq(ConnectionType) /\ Len(conns') = Len(conns)
      /\ \A k \in Conn :
           /\ conns'[k].local = conns[k].local /\ conns'[k].sock = conns[k].sock
           /\ conns'[k].polled = conns[k].polled
           /\ LateTurn(conns'[k]) /\ (Shared(k) \/ MissedTurn(conns'[k]))
  <2>1. \A k \in Conn : /\ conns[k] \in ConnectionType /\ LateTurn(conns[k])
                        /\ Shared(k) \/ MissedTurn(conns[k])
    BY EachConnection
  <2>2. CASE current = 0
    BY <1>1, <1>2, <2>1, <2>2
  <2>3. CASE current # 0
    <3> DEFINE d == [conns[current] EXCEPT !.closed = TRUE]
    <3>1. current \in Conn
      BY <1>2, <2>3 DEF Conn
    <3>2. /\ d \in ConnectionType /\ LateTurn(d) /\ (Shared(current) \/ MissedTurn(d))
          /\ d.local = conns[current].local /\ d.polled = conns[current].polled
          /\ d.sock = conns[current].sock
      BY <2>1, <3>1 DEF ConnectionType, LateTurn, MissedTurn
    <3>3. conns' = [conns EXCEPT ![current] = d]
      BY <1>1, <2>3
    <3> HIDE DEF d
    <3>4. /\ conns' \in Seq(ConnectionType) /\ Len(conns') = Len(conns)
          /\ conns'[current] = d /\ \A k \in Conn : k # current => conns'[k] = conns[k]
      BY <1>2, <3>1, <3>2, <3>3 DEF Conn
    <3> QED  BY <2>1, <3>1, <3>2, <3>4
  <2> QED  BY <2>2, <2>3
<1>4. Conn' = Conn
  BY <1>3 DEF Conn
<1>5. live' = {} /\ Len(listeners') = 0 /\ listeners' \in Seq(Sockets)
  <2>1. ToSet(listeners) = live
    BY DEF IInv, ListenersAreLatest
  <2>2. <<>> \in Seq(Sockets) /\ Len(<<>>) = 0
    OBVIOUS
  <2> QED  BY <1>1, <2>1, <2>2
<1>6. TypeOK'
  BY <1>1, <1>3, <1>5 DEF IInv, TypeOK, ConnectionType, Sockets
<1>7. Turns'
  <2>1. \A k \in Conn : Shared(k) => Shared(k)'
    BY <1>3, <1>4 DEF Shared
  <2>2. receiving # 0 => receiving \in Conn
    BY <1>2 DEF IInv, TypeOK, Conn
  <2> QED  BY <1>1, <1>3, <1>4, <2>1, <2>2 DEF IInv, Turns
<1>8. Len(candidates) \in Nat /\ Len(listeners) \in Nat
      /\ Len(listeners) <= Len(candidates)
  BY DEF IInv, TypeOK, ListenersAreLatest
<1>9. PairedUnlessClosed'
  <2>1. SUFFICES ASSUME Len(candidates) = 0, NEW k \in Conn
                 PROVE  conns[k].local = addr[conns[k].sock]
    BY <1>1, <1>3, <1>4, <1>5, <1>8 DEF PairedUnlessClosed
  <2> QED  BY <1>8, <2>1 DEF IInv, PairedUnlessClosed
<1>10. ListenersAreLatest'
  <2>1. DOMAIN listeners' = {} /\ ToSet(listeners') = {}
    BY <1>1 DEF ToSet
  <2> QED  BY <1>1, <1>5, <1>8, <2>1 DEF IInv, ListenersAreLatest
<1> QED  BY <1>6, <1>7, <1>9, <1>10 DEF IInv

\* Receive that returns an error, packets that arrive, and the end of the process.
LEMMA OtherIInv ==
  ASSUME IInv,
         \/ GetRemoteCandidates \/ ReceiveTimesOut \/ ReceiveFails
         \/ \E s \in live, from \in Remotes : Arrive(s, from)
  PROVE  IInv'
<1> USE DEF gatherVars, agentVars, netVars
<1>1. /\ UNCHANGED <<addr, live, candidates, listeners, gathered>>
      /\ UNCHANGED <<local, remotes, current, conns, deadline>>
      /\ receiving' \in {0, receiving} /\ crashed' \in BOOLEAN /\ arrived' \in Nat
  <2>1. crashed \in BOOLEAN /\ arrived \in Nat
    BY DEF IInv, TypeOK
  <2>2. CASE GetRemoteCandidates
    BY <2>1, <2>2 DEF GetRemoteCandidates
  <2>3. CASE ReceiveReturns /\ UNCHANGED <<inbox, conns>>
    BY <2>1, <2>3 DEF ReceiveReturns
  <2>4. ASSUME NEW s \in live, NEW from \in Remotes, Arrive(s, from)
        PROVE  <1>1!:
    BY <2>1, <2>4 DEF Arrive
  <2> QED  BY <2>2, <2>3, <2>4 DEF ReceiveTimesOut, ReceiveFails
<1>2. inbox' \in Seq(Seq(Remotes)) /\ Len(inbox') = Len(inbox)
  <2>1. inbox \in Seq(Seq(Remotes)) /\ Len(inbox) = Len(addr) /\ live \subseteq Sockets
    BY DEF IInv, TypeOK, Sockets
  <2>2. ASSUME NEW s \in live, NEW from \in Remotes, Arrive(s, from)
        PROVE  inbox' \in Seq(Seq(Remotes)) /\ Len(inbox') = Len(inbox)
    <3>1. inbox' = [inbox EXCEPT ![s] = Append(inbox[s], from)]
      BY <2>2 DEF Arrive
    <3>2. s \in 1..Len(inbox) /\ inbox[s] \in Seq(Remotes)
      BY <2>1 DEF Sockets
    <3>3. Append(inbox[s], from) \in Seq(Remotes)
      BY <3>2
    <3> QED  BY <2>1, <3>1, <3>2, <3>3
  <2>3. CASE UNCHANGED inbox
    BY <2>1, <2>3
  <2> QED  BY <2>2, <2>3 DEF GetRemoteCandidates, ReceiveTimesOut, ReceiveFails
<1>3. Conn' = Conn /\ receiving' \in 0..Len(conns)
  BY <1>1, Reads DEF Conn
<1>4. TypeOK'
  BY <1>1, <1>2, <1>3 DEF IInv, TypeOK
<1>5. Turns'
  BY <1>1, <1>3 DEF IInv, Turns, Shared
<1> QED  BY <1>1, <1>3, <1>4, <1>5 DEF IInv, ListenersAreLatest, PairedUnlessClosed

-----------------------------------------------------------------------------
(* The theorems.                                                           *)

LEMMA NextIInv ==
  ASSUME IInv, [Next]_vars
  PROVE  IInv'
<1>1. CASE UNCHANGED vars
  <2>1. Conn' = Conn
    BY <1>1 DEF vars, Conn
  <2> QED  BY <1>1, <2>1 DEF vars, gatherVars, agentVars, netVars, IInv, TypeOK, Turns,
                             Shared, ListenersAreLatest, PairedUnlessClosed
<1>2. ASSUME NEW t \in Threads, NEW ips \in IpLists, NEW busy \in SUBSET Address,
             NEW new \in Bound(ips, busy), GatherSockets(t, new)
      PROVE  IInv'
  BY <1>2, BoundType, GatherIInv
<1>3. ASSUME NEW t \in Threads, GatherStores(t) PROVE IInv'
  BY <1>3, GatherStoresIInv
<1>4. ASSUME NEW r \in Remotes, AddRemoteCandidate(r) PROVE IInv'
  BY <1>4, AddRemoteIInv
<1>5. CASE Connect
  BY <1>5, ConnectIInv
<1>6. CASE Close
  BY <1>6, CloseIInv
<1>7. ASSUME NEW k \in Conn,
             Loop(k) \/ CloseConnection(k) \/ ReceiveStarts(k)
               \/ \E h \in Handlers : SetReceiveHandler(k, h)
      PROVE  IInv'
  BY <1>7, LoopIInv
<1>8. ASSUME NEW from \in Remotes, ReceivePacket(from) PROVE IInv'
  BY <1>8, ReceivePacketIInv
<1>9. CASE \/ GetRemoteCandidates \/ ReceiveTimesOut \/ ReceiveFails
           \/ \E s \in live, from \in Remotes : Arrive(s, from)
  BY <1>9, OtherIInv
<1> QED  BY <1>1, <1>2, <1>3, <1>4, <1>5, <1>6, <1>7, <1>8, <1>9 DEF Next, Agent, Connection

\* What the methods of the agent, the gatherer and the connections preserve together,
\* whatever the interleaving.
THEOREM Invariance == Spec => []IInv
<1>1. Init => IInv
  BY InitIInv
<1>2. IInv /\ [Next]_vars => IInv'
  BY NextIInv
<1> QED  BY <1>1, <1>2, PTL DEF Spec

\* Every variable keeps its type: what Gather stores in the agent, although in a
\* step of its own, is a list of candidates.
THEOREM TypeCorrect == Spec => []TypeOK
<1>1. IInv => TypeOK
  BY DEF IInv
<1> QED  BY <1>1, Invariance, PTL

\* The listeners of the gatherer are the open sockets, bound for its latest
\* candidates, and what any Gather returned is a prefix of those.
THEOREM ListsStayAligned == Spec => []ListenersAreLatest
<1>1. IInv => ListenersAreLatest
  BY DEF IInv
<1> QED  BY <1>1, Invariance, PTL

\* Connect uses another socket than the one of its local candidate only after a
\* Close, however many rounds of Gather there were.
THEOREM ConnectionsArePaired == Spec => []PairedUnlessClosed
<1>1. IInv => PairedUnlessClosed
  BY DEF IInv
<1> QED  BY <1>1, Invariance, PTL

\* After Close of a connection receiveLoop calls the handler at most once.
THEOREM LateOnceAtMost == Spec => []OneLateCall
<1>1. IInv => OneLateCall
  BY DEF IInv, Turns, LateTurn, OneLateCall
<1> QED  BY <1>1, Invariance, PTL

\* Unless Receive or the loop of another connection reads the socket too, a handler
\* misses at most one of its peer's packets that were taken after it was set.
THEOREM MissesOnceUnlessShared == Spec => []OneMissedUnlessShared
<1>1. IInv => OneMissedUnlessShared
  BY DEF IInv, Turns, MissedTurn, OneMissedUnlessShared
<1> QED  BY <1>1, Invariance, PTL
=============================================================================
