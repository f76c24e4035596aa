----------------------------- MODULE AppProofs -----------------------------
(***************************************************************************)
(* Proofs about the client application, for any number of applications,    *)
(* addresses, free ports and commands.                                     *)
(***************************************************************************)
EXTENDS App, TLAPS

-----------------------------------------------------------------------------
(* The inductive invariant.                                                *)

Message == [type : {"joined", "signal"}, from : Apps, sock : Nat]
Remote == [of : Apps, sock : Nat]
AgentType == [local : Seq(Nat), remotes : Seq(Remote)]
IceType == [at : {"idle", "start", "gather", "send"}, to : Apps \cup {None}, rest : Seq(Nat)]
MadeType == [agent : Nat, sock : Nat, remote : Remote]

\* A goroutine of p is past the creation of its agent in startICE.
Busy(p, t) == ice[p][t].at \in {"gather", "send"}

\* A candidate has been stored and its half second is not over, or Connect is next.
Waiting(p) == timers[p] > 0 \/ connecting[p] > 0

\* Whoever loads app.iceAgent finds one, and startICE has something to send.
Ready(p) ==
  /\ Waiting(p) => agents[p] # <<>>
  /\ handling[p] # None => agents[p] # <<>> \/ ice[p]["pump"].at = "start"
  /\ \A t \in Goroutines : Busy(p, t) => agents[p] # <<>>
  /\ \A t \in Goroutines : ice[p][t].at = "send" => ice[p][t].rest # <<>>

\* Without a restart, a goroutine that is to connect has a candidate to connect to,
\* and the read pump has gathered if it was to.
Provided(p) ==
  Waiting(p) /\ ~Restarted(p) => /\ agents[p][1].remotes # <<>>
                                 /\ ice[p]["pump"].at # "gather"

\* A connection uses the first candidates of its agent, which stay the first.
FirstOf(c, agent) ==
  /\ agent.local # <<>> /\ agent.local[1] = c.sock
  /\ agent.remotes # <<>> /\ agent.remotes[1] = c.remote

UsesFirst(p) ==
  \A k \in DOMAIN made[p] :
    /\ made[p][k].agent \in DOMAIN agents[p]
    /\ FirstOf(made[p][k], agents[p][made[p][k].agent])

IInv == TypeOK /\ \A p \in Apps : Ready(p) /\ UsesFirst(p) /\ Provided(p)

\* A list and one more element.
LEMMA AppendElements ==
  ASSUME NEW S, NEW s \in Seq(S), NEW e \in S
  PROVE  /\ Append(s, e) \in Seq(S) /\ Append(s, e) # <<>>
         /\ Len(s) \in Nat /\ Len(Append(s, e)) = Len(s) + 1
         /\ \A i \in 1..Len(s) : Append(s, e)[i] = s[i]
         /\ Append(s, e)[Len(s) + 1] = e
         /\ DOMAIN s = 1..Len(s) /\ DOMAIN Append(s, e) = 1..(Len(s) + 1)
OBVIOUS

\* A list without its first element.
LEMMA TailElements ==
  ASSUME NEW S, NEW s \in Seq(S), s # <<>>
  PROVE  /\ Tail(s) \in Seq(S) /\ Head(s) = s[1] /\ s[1] \in S
         /\ DOMAIN s = 1..Len(s) /\ Len(s) \in Nat /\ Len(s) # 0 /\ 1 \in DOMAIN s
         /\ Len(Tail(s)) = Len(s) - 1 /\ DOMAIN Tail(s) = 1..(Len(s) - 1)
         /\ \A k \in 1..(Len(s) - 1) : Tail(s)[k] = s[k + 1]
<1>1. Len(s) \in Nat /\ Len(s) # 0 /\ DOMAIN s = 1..Len(s)
  OBVIOUS
<1>2. Tail(s) \in Seq(S) /\ Len(Tail(s)) = Len(s) - 1
  BY <1>1
<1>3. \A k \in 1..(Len(s) - 1) : Tail(s)[k] = s[k + 1]
  BY <1>1
<1> QED  BY <1>1, <1>2, <1>3

LEMMA Types ==
  ASSUME TypeOK
  PROVE  /\ inbox \in [Apps -> Seq(Message)] /\ handling \in [Apps -> Message \cup {None}]
         /\ ice \in [Apps -> [Goroutines -> IceType]]
         /\ agents \in [Apps -> Seq(AgentType)]
         /\ made \in [Apps -> Seq(MadeType)]
BY DEF TypeOK, Message, Remote, AgentType, IceType, MadeType

\* Before a restart there is one agent.
LEMMA OneAgent ==
  ASSUME IInv, NEW p \in Apps, agents[p] # <<>>, ~Restarted(p)
  PROVE  Len(agents[p]) = 1
<1>1. agents[p] \in Seq(AgentType)
  BY Types DEF IInv
<1> DEFINE n == Len(agents[p])
<1>2. n \in Nat /\ n # 0
  BY <1>1
<1>3. ~(n > 1)
  BY DEF Restarted
<1> HIDE DEF n
<1>4. n = 1
  BY <1>2, <1>3
<1> QED  BY <1>4 DEF n

LEMMA InitIInv == Init => IInv
<1> SUFFICES ASSUME Init PROVE IInv
  OBVIOUS
<1>1. \A S : <<>> \in Seq(S)
  OBVIOUS
<1>2. Idle \in IceType /\ Idle.at = "idle"
  BY <1>1 DEF Idle, IceType
<1>4. TypeOK
  <2>1. ice \in [Apps -> [Goroutines -> IceType]]
    BY <1>2 DEF Init
  <2>2. agents \in [Apps -> Seq(AgentType)] /\ made \in [Apps -> Seq(MadeType)]
    BY <1>1 DEF Init
  <2>3. inbox \in [Apps -> Seq(Message)]
    BY <1>1 DEF Init
  <2>4. bound \in [Apps -> Nat]
    BY DEF Init
  <2>5. \A p \in Apps : storing[p] \subseteq 1..Len(made[p]) /\ iceConn[p] \in 0..Len(made[p])
    BY DEF Init
  <2>6. /\ main \in [Apps -> {"offline", "sleep", "onPeerEvent", "flags", "shell", "gone"}]
        /\ listed \in [Apps -> SUBSET Apps] /\ handling \in [Apps -> Message \cup {None}]
        /\ timers \in [Apps -> Nat] /\ connecting \in [Apps -> Nat] /\ commands \in Nat
    BY DEF Init
  <2> QED  BY <2>1, <2>2, <2>3, <2>4, <2>5, <2>6
           DEF TypeOK, Message, Remote, AgentType, IceType, MadeType
<1>5. ASSUME NEW p \in Apps PROVE Ready(p) /\ UsesFirst(p) /\ Provided(p)
  <2>1. ~Waiting(p) /\ handling[p] = None
    BY DEF Init, Waiting
  <2>2. \A t \in Goroutines : ice[p][t].at = "idle"
    BY <1>2 DEF Init
  <2> QED  BY <2>1, <2>2 DEF Init, Ready, Busy, UsesFirst, Provided
<1> QED  BY <1>4, <1>5 DEF IInv

-----------------------------------------------------------------------------
(* Frames.                                                                 *)

AppState(p) ==
  <<handling[p], ice[p], agents[p], bound[p], timers[p], connecting[p], made[p]>>

\* Almost every step is the step of one application.
LEMMA OneApplication ==
  ASSUME IInv, NEW p \in Apps, TypeOK', Ready(p)', UsesFirst(p)', Provided(p)',
         \A q \in Apps \ {p} : UNCHANGED AppState(q)
  PROVE  IInv'
<1>1. ASSUME NEW q \in Apps, q # p PROVE (Ready(q) /\ UsesFirst(q) /\ Provided(q))'
  <2>1. UNCHANGED AppState(q) /\ Ready(q) /\ UsesFirst(q) /\ Provided(q)
    BY <1>1 DEF IInv
  <2>2. Ready(q)'
    BY <2>1 DEF AppState, Ready, Busy, Waiting
  <2>3. UsesFirst(q)'
    BY <2>1 DEF AppState, UsesFirst
  <2>4. Provided(q)'
    BY <2>1 DEF AppState, Provided, Waiting, Restarted
  <2> QED  BY <2>2, <2>3, <2>4
<1> QED  BY <1>1 DEF IInv

\* Only main, listed or the messages under way change.
LEMMA Untouched ==
  ASSUME IInv, TypeOK', \A q \in Apps : UNCHANGED AppState(q)
  PROVE  IInv'
<1>1. ASSUME NEW q \in Apps PROVE (Ready(q) /\ UsesFirst(q) /\ Provided(q))'
  <2>1. UNCHANGED AppState(q) /\ Ready(q) /\ UsesFirst(q) /\ Provided(q)
    BY DEF IInv
  <2>2. Ready(q)'
    BY <2>1 DEF AppState, Ready, Busy, Waiting
  <2>3. UsesFirst(q)'
    BY <2>1 DEF AppState, UsesFirst
  <2>4. Provided(q)'
    BY <2>1 DEF AppState, Provided, Waiting, Restarted
  <2> QED  BY <2>2, <2>3, <2>4
<1> QED  BY <1>1 DEF IInv

\* A new agent.
LEMMA StartFacts ==
  ASSUME IInv, NEW p \in Apps, NEW t \in Goroutines,
         NEW to \in Apps \cup {None}, Start(p, t, to)
  PROVE  /\ agents' \in [Apps -> Seq(AgentType)] /\ ice' \in [Apps -> [Goroutines -> IceType]]
         /\ agents'[p] # <<>> /\ Len(agents'[p]) = Len(agents[p]) + 1
         /\ \A q \in Apps \ {p} : agents'[q] = agents[q] /\ ice'[q] = ice[q]
         /\ \A u \in Goroutines : ice'[p][u].at = "send" => ice'[p][u].rest # <<>>
         /\ UNCHANGED made => UsesFirst(p)'
         /\ UNCHANGED <<timers, connecting>> => Provided(p)'
         /\ \A u \in Goroutines : u # t => ice'[p][u] = ice[p][u]
<1> DEFINE fresh == [local |-> <<>>, remotes |-> <<>>]
           began == [at |-> "gather", to |-> to, rest |-> <<>>]
<1>1. /\ agents' = [agents EXCEPT ![p] = Append(agents[p], fresh)]
      /\ ice' = [ice EXCEPT ![p][t] = began]
  BY DEF Start
<1>2. /\ agents \in [Apps -> Seq(AgentType)] /\ ice \in [Apps -> [Goroutines -> IceType]]
      /\ made \in [Apps -> Seq(MadeType)]
  BY Types DEF IInv
<1>3. fresh \in AgentType /\ began \in IceType /\ began.at = "gather"
  BY DEF AgentType, IceType
<1> HIDE DEF fresh, began
<1>4. agents[p] \in Seq(AgentType) /\ Len(agents[p]) \in Nat
  BY <1>2
<1>5. /\ agents'[p] = Append(agents[p], fresh) /\ agents'[p] \in Seq(AgentType)
      /\ agents'[p] # <<>> /\ Len(agents'[p]) = Len(agents[p]) + 1
      /\ \A a \in 1..Len(agents[p]) : agents'[p][a] = agents[p][a]
  <2>1. agents'[p] = Append(agents[p], fresh)
    BY <1>1, <1>2
  <2>2. /\ Append(agents[p], fresh) \in Seq(AgentType)
        /\ Append(agents[p], fresh) # <<>>
        /\ Len(Append(agents[p], fresh)) = Len(agents[p]) + 1
        /\ \A a \in 1..Len(agents[p]) : Append(agents[p], fresh)[a] = agents[p][a]
    BY ONLY <1>3, <1>4, AppendElements
  <2> QED  BY <2>1, <2>2
<1>6. /\ agents' \in [Apps -> Seq(AgentType)] /\ ice' \in [Apps -> [Goroutines -> IceType]]
      /\ \A q \in Apps \ {p} : agents'[q] = agents[q] /\ ice'[q] = ice[q]
      /\ ice'[p][t] = began /\ \A u \in Goroutines : u # t => ice'[p][u] = ice[p][u]
  BY <1>1, <1>2, <1>3, <1>5
<1>7. \A u \in Goroutines : ice'[p][u].at = "send" => ice'[p][u].rest # <<>>
  BY <1>3, <1>6 DEF IInv, Ready
<1>8. ASSUME UNCHANGED made PROVE UsesFirst(p)'
  <2>1. ASSUME NEW k \in DOMAIN made[p]
        PROVE  /\ made[p][k].agent \in DOMAIN agents'[p]
               /\ FirstOf(made[p][k], agents'[p][made[p][k].agent])
    <3>1. /\ made[p][k].agent \in DOMAIN agents[p]
          /\ FirstOf(made[p][k], agents[p][made[p][k].agent])
      BY DEF IInv, UsesFirst
    <3>2. made[p][k].agent \in 1..Len(agents[p]) /\ DOMAIN agents'[p] = 1..(Len(agents[p]) + 1)
      BY <1>4, <1>5, <3>1
    <3> QED  BY <1>4, <1>5, <3>1, <3>2
  <2> QED  BY <1>8, <2>1 DEF UsesFirst
<1>9. ASSUME UNCHANGED <<timers, connecting>> PROVE Provided(p)'
  <2>1. Waiting(p)' => agents[p] # <<>>
    BY <1>9 DEF IInv, Ready, Waiting
  <2>2. agents[p] # <<>> => Len(agents[p]) # 0
    BY <1>4
  <2>3. agents[p] # <<>> => Restarted(p)'
    BY <1>4, <1>5, <2>2 DEF Restarted
  <2> QED  BY <2>1, <2>3 DEF Provided
<1> QED  BY <1>5, <1>6, <1>7, <1>8, <1>9

\* What was first in x is first in y.
Grown(x, y) ==
  /\ x.local # <<>> => y.local # <<>> /\ y.local[1] = x.local[1]
  /\ x.remotes # <<>> => y.remotes # <<>> /\ y.remotes[1] = x.remotes[1]

\* app.iceAgent gets candidates.
LEMMA AgentGrows ==
  ASSUME IInv, NEW p \in Apps, agents[p] # <<>>, NEW d \in AgentType,
         Grown(agents[p][Len(agents[p])], d), UNCHANGED made,
         agents' = [agents EXCEPT ![p] = [agents[p] EXCEPT ![Len(agents[p])] = d]]
  PROVE  /\ agents' \in [Apps -> Seq(AgentType)] /\ agents'[p] # <<>>
         /\ Len(agents'[p]) = Len(agents[p])
         /\ \A q \in Apps \ {p} : agents'[q] = agents[q]
         /\ UsesFirst(p)'
<1> DEFINE a == Len(agents[p])
           s == [agents[p] EXCEPT ![a] = d]
<1>1. agents \in [Apps -> Seq(AgentType)] /\ made \in [Apps -> Seq(MadeType)]
  BY Types DEF IInv
<1>2. agents[p] \in Seq(AgentType) /\ a \in Nat /\ a # 0
  BY <1>1
<1>3. /\ s \in Seq(AgentType) /\ Len(s) = a /\ s # <<>> /\ DOMAIN s = DOMAIN agents[p]
      /\ s[a] = d /\ \A i \in DOMAIN agents[p] : i # a => s[i] = agents[p][i]
  BY <1>2
<1>4. agents' = [agents EXCEPT ![p] = s]
  OBVIOUS
<1> HIDE DEF s
<1>5. /\ agents' \in [Apps -> Seq(AgentType)] /\ agents'[p] = s
      /\ \A q \in Apps \ {p} : agents'[q] = agents[q]
  BY <1>1, <1>3, <1>4
<1>6. ASSUME NEW k \in DOMAIN made[p]
      PROVE  made[p][k].agent \in DOMAIN s /\ FirstOf(made[p][k], s[made[p][k].agent])
  <2> DEFINE i == made[p][k].agent
  <2>1. i \in DOMAIN agents[p] /\ FirstOf(made[p][k], agents[p][i])
    BY DEF IInv, UsesFirst
  <2>2. CASE i = a
    BY <1>3, <2>1, <2>2 DEF FirstOf, Grown
  <2>3. CASE i # a
    BY <1>3, <2>1, <2>3
  <2> QED  BY <1>3, <2>1, <2>2, <2>3
<1>7. UsesFirst(p)'
  BY <1>5, <1>6 DEF UsesFirst
<1> QED  BY <1>3, <1>5, <1>7

-----------------------------------------------------------------------------
(* Steps that may begin startICE.                                          *)

LEMMA StartingStep ==
  ASSUME IInv, NEW p \in Apps,
         \/ UNCHANGED <<agents, ice>>
         \/ \E t \in Goroutines, to \in Apps \cup {None} : Start(p, t, to),
         UNCHANGED <<handling, bound, timers, connVars>>,
         main' \in [Apps -> {"offline", "sleep", "onPeerEvent", "flags", "shell", "gone"}],
         listed' \in [Apps -> SUBSET Apps], commands' \in Nat,
         inbox' \in [Apps -> Seq(Message)]
  PROVE  IInv'
<1> USE DEF connVars
<1>1. /\ agents' \in [Apps -> Seq(AgentType)] /\ ice' \in [Apps -> [Goroutines -> IceType]]
      /\ \A q \in Apps \ {p} : agents'[q] = agents[q] /\ ice'[q] = ice[q]
      /\ Ready(p)' /\ UsesFirst(p)' /\ Provided(p)'
  <2>1. ASSUME NEW t \in Goroutines, NEW to \in Apps \cup {None}, Start(p, t, to) PROVE <1>1!:
    <3>1. /\ agents'[p] # <<>>
          /\ \A u \in Goroutines : ice'[p][u].at = "send" => ice'[p][u].rest # <<>>
      BY <2>1, StartFacts
    <3>2. Ready(p)'
      BY <3>1 DEF Ready
    <3> QED  BY <2>1, <3>2, StartFacts
  <2>2. CASE UNCHANGED <<agents, ice>>
    <3>1. UsesFirst(p)'
      BY <2>2 DEF IInv, UsesFirst
    <3>2. Ready(p)'
      BY <2>2 DEF IInv, Ready, Busy, Waiting
    <3>3. Provided(p)'
      BY <2>2 DEF IInv, Provided, Waiting, Restarted
    <3> QED  BY <2>2, <3>1, <3>2, <3>3, Types DEF IInv
  <2> QED  BY <2>1, <2>2
<1>2. TypeOK'
  <2>1. /\ handling' \in [Apps -> Message \cup {None}]
        /\ bound' \in [Apps -> Nat] /\ timers' \in [Apps -> Nat]
        /\ connecting' \in [Apps -> Nat] /\ made' \in [Apps -> Seq(MadeType)]
        /\ \A q \in Apps : /\ storing'[q] \subseteq 1..Len(made'[q])
                          /\ iceConn'[q] \in 0..Len(made'[q])
    BY Types DEF IInv, TypeOK, MadeType, Remote
  <2> QED  BY <1>1, <2>1 DEF TypeOK, Message, Remote, AgentType, IceType, MadeType
<1>3. \A q \in Apps \ {p} : UNCHANGED AppState(q)
  BY <1>1 DEF AppState
<1> QED  BY <1>1, <1>2, <1>3, OneApplication

\* What the read pump reads is a message.
LEMMA ReadFacts ==
  ASSUME IInv, NEW p \in Apps, NEW type, Read(p, type)
  PROVE  /\ inbox' \in [Apps -> Seq(Message)]
         /\ Head(inbox[p]) \in Message /\ Head(inbox[p]).from \in Apps
<1>1. inbox \in [Apps -> Seq(Message)] /\ inbox[p] \in Seq(Message) /\ inbox[p] # <<>>
  BY Types DEF IInv, Read
<1>2. Head(inbox[p]) \in Message /\ Tail(inbox[p]) \in Seq(Message)
  BY <1>1
<1>3. Head(inbox[p]).from \in Apps
  BY <1>2 DEF Message
<1> QED  BY <1>1, <1>2, <1>3 DEF Read

LEMMA StartsIInv ==
  ASSUME IInv, NEW p \in Apps,
         StartShell(p) \/ (\E q \in Apps : Command(p, q)) \/ ReadJoined(p) \/ AutoStart(p)
  PROVE  IInv'
<1> USE DEF serverVars, Goroutines
<1> DEFINE Starts == \E t \in Goroutines, to \in Apps \cup {None} : Start(p, t, to)
<1>1. /\ main \in [Apps -> {"offline", "sleep", "onPeerEvent", "flags", "shell", "gone"}]
      /\ listed \in [Apps -> SUBSET Apps] /\ commands \in Nat
      /\ inbox \in [Apps -> Seq(Message)]
  BY Types DEF IInv, TypeOK
<1>2. CASE StartShell(p)
  <2>1. UNCHANGED <<agents, ice>> \/ \E q \in listed[p] : Start(p, "main", q)
    BY <1>2 DEF StartShell
  <2>2. UNCHANGED <<agents, ice>> \/ Starts
    BY <1>1, <2>1
  <2>3. main' \in [Apps -> {"offline", "sleep", "onPeerEvent", "flags", "shell", "gone"}]
    BY <1>1, <1>2 DEF StartShell, Goto
  <2>4. UNCHANGED <<listed, inbox, handling, bound, timers, connVars, commands>>
    BY <1>2 DEF StartShell
  <2> QED  BY <1>1, <2>2, <2>3, <2>4, StartingStep
<1>3. ASSUME NEW q \in Apps, Command(p, q) PROVE IInv'
  <2>1. Starts
    BY <1>3 DEF Command
  <2>2. commands' \in Nat /\ UNCHANGED <<main, listed, inbox, handling, bound, timers, connVars>>
    BY <1>1, <1>3 DEF Command
  <2> QED  BY <1>1, <2>1, <2>2, StartingStep
<1>4. CASE ReadJoined(p)
  <2>1. UNCHANGED <<agents, ice>> \/ Starts
    BY <1>4, ReadFacts DEF ReadJoined
  <2>2. /\ inbox' \in [Apps -> Seq(Message)]
        /\ UNCHANGED <<main, listed, handling, bound, timers, connVars, commands>>
    BY <1>4, ReadFacts DEF ReadJoined
  <2> QED  BY <1>1, <2>1, <2>2, StartingStep
<1>5. CASE AutoStart(p)
  <2>1. ice[p]["pump"].to \in Apps \cup {None}
    BY Types DEF IInv, IceType
  <2>2. Starts
    BY <1>5, <2>1 DEF AutoStart
  <2>3. UNCHANGED <<main, listed, inbox, handling, bound, timers, connVars, commands>>
    BY <1>5 DEF AutoStart
  <2> QED  BY <1>1, <2>2, <2>3, StartingStep
<1> QED  BY <1>2, <1>3, <1>4, <1>5

\* A candidate is read, and startICE is to begin unless app.iceAgent is set.
LEMMA ReadCandidateIInv ==
  ASSUME IInv, NEW p \in Apps, ReadCandidate(p)
  PROVE  IInv'
<1> USE DEF serverVars, connVars
<1> DEFINE m == Head(inbox[p])
           next == IF HandlesSignals(p) /\ agents[p] = <<>>
                     THEN [at |-> "start", to |-> m.from, rest |-> <<>>]
                     ELSE ice[p]["pump"]
           h == IF HandlesSignals(p) THEN m ELSE None
<1>1. /\ inbox' \in [Apps -> Seq(Message)] /\ m \in Message /\ m.from \in Apps
      /\ ice[p]["pump"].at = "idle" /\ handling[p] = None
      /\ handling' = [handling EXCEPT ![p] = h]
      /\ ice' = [ice EXCEPT ![p]["pump"] = next]
      /\ UNCHANGED <<main, listed, agents, bound, timers, connVars, commands>>
  BY ReadFacts DEF ReadCandidate, Read
<1>2. /\ ice \in [Apps -> [Goroutines -> IceType]] /\ "pump" \in Goroutines
      /\ handling \in [Apps -> Message \cup {None}]
  BY Types DEF IInv, Goroutines
<1>3. next \in IceType /\ ~(next.at \in {"gather", "send"})
      /\ (h # None => agents[p] # <<>> \/ next.at = "start")
  BY <1>1, <1>2 DEF IceType
<1>4. h \in Message \cup {None}
  BY <1>1
<1> HIDE DEF next, h, m
<1>5. /\ ice' \in [Apps -> [Goroutines -> IceType]] /\ ice'[p]["pump"] = next
      /\ \A u \in Goroutines : u # "pump" => ice'[p][u] = ice[p][u]
      /\ \A q \in Apps \ {p} : ice'[q] = ice[q]
  BY <1>1, <1>2, <1>3
<1>6. /\ handling' \in [Apps -> Message \cup {None}] /\ handling'[p] = h
      /\ \A q \in Apps \ {p} : handling'[q] = handling[q]
  BY <1>1, <1>2, <1>4
<1>7. TypeOK'
  BY <1>1, <1>5, <1>6 DEF IInv, TypeOK, Message, IceType
<1>8. Ready(p)'
  BY <1>1, <1>3, <1>5, <1>6 DEF IInv, Ready, Busy, Waiting
<1>9. UsesFirst(p)'
  BY <1>1 DEF IInv, UsesFirst
<1>10. Provided(p)'
  BY <1>1, <1>3, <1>5 DEF IInv, Provided, Waiting, Restarted
<1> QED  BY <1>1, <1>5, <1>6, <1>7, <1>8, <1>9, <1>10, OneApplication DEF AppState

-----------------------------------------------------------------------------
(* Steps that leave the agents alone.                                      *)

LEMMA OthersIInv ==
  ASSUME IInv, NEW p \in Apps,
         Join(p) \/ OnSignal(p) \/ OnPeerEvent(p)
  PROVE  IInv'
<1> USE DEF connVars
<1>1. UNCHANGED <<handling, ice, agents, bound, timers, connVars, commands>>
  BY DEF Join, OnSignal, OnPeerEvent
<1>2. /\ main' \in [Apps -> {"offline", "sleep", "onPeerEvent", "flags", "shell", "gone"}]
      /\ listed' \in [Apps -> SUBSET Apps]
  <2>1. /\ main \in [Apps -> {"offline", "sleep", "onPeerEvent", "flags", "shell", "gone"}]
        /\ listed \in [Apps -> SUBSET Apps] /\ Online \subseteq Apps
    BY DEF IInv, TypeOK, Online
  <2> QED  BY <2>1 DEF Join, OnSignal, OnPeerEvent, Goto
<1>3. inbox' \in [Apps -> Seq(Message)]
  <2>1. inbox \in [Apps -> Seq(Message)]
    BY Types DEF IInv
  <2>2. CASE Join(p)
    <3>1. Joined(p) \in Message
      BY DEF Joined, Message
    <3>2. \A q \in Apps : inbox[q] \in Seq(Message) /\ Append(inbox[q], Joined(p)) \in Seq(Message)
      BY <2>1, <3>1
    <3> QED  BY <2>2, <3>2 DEF Join
  <2> QED  BY <2>1, <2>2 DEF OnSignal, OnPeerEvent
<1>4. TypeOK'
  BY <1>1, <1>2, <1>3 DEF IInv, TypeOK, Message
<1> QED  BY <1>1, <1>4, Untouched DEF AppState

\* What was under way in a process ends with it.
LEMMA QuitFacts ==
  ASSUME IInv, NEW p \in Apps, Quit(p)
  PROVE  /\ UNCHANGED <<listed, agents, bound, made, iceConn, commands>>
         /\ inbox'[p] = <<>> /\ handling'[p] = None /\ timers'[p] = 0 /\ connecting'[p] = 0
         /\ \A t \in Goroutines : ice'[p][t].at = "idle"
         /\ \A q \in Apps \ {p} :
              UNCHANGED <<inbox[q], handling[q], ice[q], timers[q], connecting[q]>>
         /\ TypeOK'
<1>1. /\ inbox \in [Apps -> Seq(Message)] /\ handling \in [Apps -> Message \cup {None}]
      /\ ice \in [Apps -> [Goroutines -> IceType]]
      /\ timers \in [Apps -> Nat] /\ connecting \in [Apps -> Nat]
  BY Types DEF IInv, TypeOK
<1>2. [t \in Goroutines |-> Idle] \in [Goroutines -> IceType] /\ Idle.at = "idle"
  BY DEF Idle, IceType
<1>3. /\ UNCHANGED <<listed, agents, bound, made, iceConn, commands>>
      /\ main' = [main EXCEPT ![p] = "gone"]
      /\ inbox' = [inbox EXCEPT ![p] = <<>>]
      /\ handling' = [handling EXCEPT ![p] = None]
      /\ ice' = [ice EXCEPT ![p] = [t \in Goroutines |-> Idle]]
      /\ timers' = [timers EXCEPT ![p] = 0] /\ connecting' = [connecting EXCEPT ![p] = 0]
      /\ storing' = [storing EXCEPT ![p] = {}]
  BY DEF Quit
<1>4. /\ inbox'[p] = <<>> /\ handling'[p] = None /\ timers'[p] = 0 /\ connecting'[p] = 0
      /\ ice'[p] = [t \in Goroutines |-> Idle]
      /\ \A q \in Apps \ {p} :
           UNCHANGED <<inbox[q], handling[q], ice[q], timers[q], connecting[q]>>
  BY <1>1, <1>3
<1>5. \A t \in Goroutines : ice'[p][t].at = "idle"
  BY <1>2, <1>4
<1>6. /\ inbox' \in [Apps -> Seq(Message)] /\ handling' \in [Apps -> Message \cup {None}]
      /\ timers' \in [Apps -> Nat] /\ connecting' \in [Apps -> Nat]
  <2>1. <<>> \in Seq(Message)
    OBVIOUS
  <2> QED  BY <1>1, <1>3, <2>1
<1>7. ice' \in [Apps -> [Goroutines -> IceType]]
  BY <1>1, <1>2, <1>3
<1>8. \A q \in Apps : storing'[q] \subseteq 1..Len(made'[q]) /\ iceConn'[q] \in 0..Len(made'[q])
  BY <1>3 DEF IInv, TypeOK
<1>9. main' \in [Apps -> {"offline", "sleep", "onPeerEvent", "flags", "shell", "gone"}]
  BY <1>3 DEF IInv, TypeOK
<1>10. TypeOK'
  BY <1>3, <1>6, <1>7, <1>8, <1>9 DEF IInv, TypeOK, Message, IceType
<1> QED  BY <1>3, <1>4, <1>5, <1>10

LEMMA QuitIInv ==
  ASSUME IInv, NEW p \in Apps, Quit(p)
  PROVE  IInv'
<1>1. Ready(p)' /\ Provided(p)'
  BY QuitFacts DEF Ready, Busy, Waiting, Provided
<1>2. UsesFirst(p)'
  BY QuitFacts DEF IInv, UsesFirst
<1> QED  BY <1>1, <1>2, QuitFacts, OneApplication DEF AppState

LEMMA SendCandidateIInv ==
  ASSUME IInv, NEW p \in Apps, NEW t \in Goroutines, SendCandidate(p, t)
  PROVE  IInv'
<1> USE DEF serverVars, connVars
<1> DEFINE rest == ice[p][t].rest
           next == IF Len(rest) = 1 THEN Idle ELSE [ice[p][t] EXCEPT !.rest = Tail(rest)]
<1>1. /\ ice \in [Apps -> [Goroutines -> IceType]] /\ inbox \in [Apps -> Seq(Message)]
      /\ ice[p][t] \in IceType
  BY Types DEF IInv
<1>2. rest \in Seq(Nat) /\ rest # <<>> /\ ice[p][t].at = "send"
  BY <1>1 DEF IInv, Ready, IceType, SendCandidate
<1>3. Head(rest) \in Nat /\ Tail(rest) \in Seq(Nat) /\ (Len(rest) # 1 => Tail(rest) # <<>>)
  <2> HIDE DEF rest
  <2>1. Len(rest) \in Nat /\ Len(rest) # 0
    BY <1>2
  <2>2. Head(rest) \in Nat /\ Tail(rest) \in Seq(Nat) /\ Len(Tail(rest)) = Len(rest) - 1
    BY <1>2, <2>1
  <2>3. Len(rest) # 1 => Len(Tail(rest)) # 0
    BY <2>1, <2>2
  <2>4. ASSUME Len(rest) # 1, Tail(rest) = <<>> PROVE FALSE
    <3>1. Len(<<>>) = 0
      OBVIOUS
    <3> QED  BY <2>3, <2>4, <3>1
  <2> QED  BY <2>2, <2>4
<1>4. /\ next \in IceType /\ next.at # "gather"
      /\ next.at = "send" => next.rest # <<>>
  <2>1. Idle \in IceType /\ Idle.at = "idle"
    BY DEF Idle, IceType
  <2>2. CASE Len(rest) = 1
    BY <2>1, <2>2
  <2>3. CASE Len(rest) # 1
    BY <1>1, <1>2, <1>3, <2>3 DEF IceType
  <2> QED  BY <2>2, <2>3
<1>5. ice' = [ice EXCEPT ![p][t] = next]
  BY DEF SendCandidate
<1> HIDE DEF next
<1>6. /\ ice' \in [Apps -> [Goroutines -> IceType]] /\ ice'[p][t] = next
      /\ \A u \in Goroutines : u # t => ice'[p][u] = ice[p][u]
      /\ \A q \in Apps \ {p} : ice'[q] = ice[q]
  BY <1>1, <1>4, <1>5
<1>7. inbox' \in [Apps -> Seq(Message)]
  <2> DEFINE to == ice[p][t].to
             m == Signal(p, Head(rest))
  <2>1. m \in Message
    BY <1>3 DEF Signal, Message
  <2>2. inbox' = IF to \in Online THEN [inbox EXCEPT ![to] = Append(inbox[to], m)] ELSE inbox
    BY DEF SendCandidate
  <2> HIDE DEF m
  <2>3. ASSUME to \in Online PROVE Append(inbox[to], m) \in Seq(Message)
    BY <1>1, <2>1, <2>3 DEF Online
  <2> QED  BY <1>1, <2>2, <2>3
<1>8. UNCHANGED <<main, listed, handling, agents, bound, timers, connVars, commands>>
  BY DEF SendCandidate
<1>9. TypeOK'
  BY <1>6, <1>7, <1>8 DEF IInv, TypeOK, Message, IceType
<1>10. Ready(p)'
  BY <1>2, <1>4, <1>6, <1>8 DEF IInv, Ready, Busy, Waiting
<1>11. UsesFirst(p)'
  BY <1>8 DEF IInv, UsesFirst
<1>12. Provided(p)'
  BY <1>4, <1>6, <1>8 DEF IInv, Provided, Waiting, Restarted, Goroutines
<1> QED  BY <1>6, <1>8, <1>9, <1>10, <1>11, <1>12, OneApplication DEF AppState

LEMMA AddRemoteIInv ==
  ASSUME IInv, NEW p \in Apps, AddRemoteCandidate(p)
  PROVE  IInv'
<1> USE DEF serverVars, connVars
<1> DEFINE old == agents[p][Len(agents[p])]
           new == Candidate(handling[p].from, handling[p].sock)
           d == [old EXCEPT !.remotes = Append(old.remotes, new)]
<1>1. /\ handling[p] # None /\ handling' = [handling EXCEPT ![p] = None]
      /\ ice[p]["pump"].at = "idle"
      /\ timers' = [timers EXCEPT ![p] = timers[p] + 1]
      /\ agents' = [agents EXCEPT ![p][Len(agents[p])].remotes = Append(old.remotes, new)]
      /\ UNCHANGED <<main, listed, inbox, ice, bound, connVars, commands>>
  BY DEF AddRemoteCandidate
<1>2. /\ handling \in [Apps -> Message \cup {None}] /\ agents \in [Apps -> Seq(AgentType)]
      /\ timers \in [Apps -> Nat] /\ handling[p] \in Message
      /\ agents[p] \in Seq(AgentType) /\ agents[p] # <<>>
  BY <1>1, Types DEF IInv, TypeOK, Ready
<1>3. old \in AgentType /\ new \in Remote
  BY <1>2 DEF Candidate, Message, Remote
<1>4. Append(old.remotes, new) \in Seq(Remote) /\ Append(old.remotes, new) # <<>>
      /\ (old.remotes # <<>> => Append(old.remotes, new)[1] = old.remotes[1])
  <2>1. old.remotes \in Seq(Remote)
    BY <1>3 DEF AgentType
  <2>2. \A s \in Seq(Remote) : s # <<>> => 1 \in 1..Len(s)
    OBVIOUS
  <2> HIDE DEF old, new
  <2> QED  BY <1>3, <2>1, <2>2, AppendElements
<1>5. d \in AgentType /\ Grown(old, d) /\ d.remotes # <<>>
  <2> HIDE DEF old, new
  <2> QED  BY <1>3, <1>4 DEF AgentType, Grown
<1>6. agents' = [agents EXCEPT ![p] = [agents[p] EXCEPT ![Len(agents[p])] = d]]
  BY <1>1
<1> HIDE DEF d, new
<1>7. /\ agents' \in [Apps -> Seq(AgentType)] /\ agents'[p] # <<>>
      /\ Len(agents'[p]) = Len(agents[p]) /\ UsesFirst(p)'
      /\ \A q \in Apps \ {p} : agents'[q] = agents[q]
  BY <1>1, <1>2, <1>5, <1>6, AgentGrows
<1>8. /\ handling' \in [Apps -> Message \cup {None}] /\ timers' \in [Apps -> Nat]
      /\ \A q \in Apps \ {p} : handling'[q] = handling[q] /\ timers'[q] = timers[q]
  BY <1>1, <1>2
<1>9. TypeOK'
  BY <1>1, <1>7, <1>8 DEF IInv, TypeOK, Message, Remote, AgentType
<1>10. Ready(p)'
  BY <1>1, <1>7, <1>8 DEF IInv, Ready, Busy
<1>11. Provided(p)'
  <2>1. SUFFICES ASSUME ~Restarted(p)' PROVE agents'[p][1].remotes # <<>>
    BY <1>1 DEF Provided
  <2>2. Len(agents[p]) = 1
    BY <1>2, <1>7, <2>1 DEF Restarted
  <2>3. agents'[p][1] = d
    BY <1>2, <1>6, <2>2
  <2> QED  BY <1>5, <2>3
<1> QED  BY <1>1, <1>7, <1>8, <1>9, <1>10, <1>11, OneApplication DEF AppState

\* Gather of the gatherer adds a socket for every address with a free port.
LEMMA GatheredFacts ==
  ASSUME IInv, NEW p \in Apps, NEW s \in Seq(Nat), NEW n \in Nat
  PROVE  /\ Gathered(p, s, n) \in Seq(Nat)
         /\ s # <<>> => Gathered(p, s, n) # <<>> /\ Gathered(p, s, n)[1] = s[1]
<1> DEFINE new == [i \in 1..n |-> bound[p] + i]
<1>1. bound[p] \in Nat
  BY DEF IInv, TypeOK
<1>2. new \in Seq(Nat)
  BY <1>1
<1>3. Gathered(p, s, n) = s \o new
  BY DEF Gathered
<1> HIDE DEF new
<1>4. \A u \in Seq(Nat), v \in Seq(Nat) :
        /\ u \o v \in Seq(Nat) /\ Len(u \o v) = Len(u) + Len(v)
        /\ u # <<>> => (u \o v)[1] = u[1]
  OBVIOUS
<1>5. s # <<>> => s \o new # <<>>
  <2>1. Len(s) \in Nat /\ Len(new) \in Nat /\ (s # <<>> => Len(s) # 0) /\ Len(<<>>) = 0
    BY <1>2
  <2>2. Len(s \o new) = Len(s) + Len(new)
    BY <1>2, <1>4
  <2> QED  BY <2>1, <2>2
<1> QED  BY <1>2, <1>3, <1>4, <1>5

LEMMA GatherIInv ==
  ASSUME IInv, NEW p \in Apps, NEW t \in Goroutines, NEW n \in Nat, Gather(p, t, n)
  PROVE  IInv'
<1> USE DEF serverVars, connVars
<1> DEFINE a == Len(agents[p])
           old == agents[p][a]
           local == Gathered(p, old.local, n)
           d == [old EXCEPT !.local = local]
           next == IF local = <<>> THEN Idle
                   ELSE [ice[p][t] EXCEPT !.at = "send", !.rest = local]
<1>1. /\ ice[p][t].at = "gather"
      /\ agents' = [agents EXCEPT ![p] = [agents[p] EXCEPT ![a] = d]]
      /\ bound' = [bound EXCEPT ![p] = bound[p] + n]
      /\ ice' = [ice EXCEPT ![p][t] = next]
      /\ UNCHANGED <<main, listed, inbox, handling, timers, connVars, commands>>
  BY DEF Gather
<1>2. /\ agents \in [Apps -> Seq(AgentType)] /\ ice \in [Apps -> [Goroutines -> IceType]]
      /\ bound \in [Apps -> Nat] /\ agents[p] # <<>> /\ agents[p] \in Seq(AgentType)
  BY <1>1, Types DEF IInv, TypeOK, Ready, Busy
<1>3. old \in AgentType /\ old.local \in Seq(Nat) /\ ice[p][t] \in IceType
  <2>1. old \in AgentType /\ ice[p][t] \in IceType
    BY <1>2
  <2> HIDE DEF old
  <2> QED  BY <2>1 DEF AgentType
<1>4. /\ local \in Seq(Nat)
      /\ old.local # <<>> => local # <<>> /\ local[1] = old.local[1]
  BY <1>3, GatheredFacts
<1> HIDE DEF local, old
<1>5. d \in AgentType /\ Grown(old, d) /\ d.remotes = old.remotes
  BY <1>3, <1>4 DEF AgentType, Grown
<1>6. /\ next \in IceType /\ next.at \in {"idle", "send"}
      /\ next.at = "send" => next.rest # <<>>
  <2>1. Idle \in IceType /\ Idle.at = "idle"
    BY DEF Idle, IceType
  <2>2. CASE local = <<>>
    BY <2>1, <2>2
  <2>3. CASE local # <<>>
    BY <1>3, <1>4, <2>3 DEF IceType
  <2> QED  BY <2>2, <2>3
<1> HIDE DEF d, next
<1>7. /\ agents' \in [Apps -> Seq(AgentType)] /\ agents'[p] # <<>>
      /\ Len(agents'[p]) = Len(agents[p]) /\ UsesFirst(p)'
      /\ \A q \in Apps \ {p} : agents'[q] = agents[q]
  BY <1>1, <1>2, <1>5, AgentGrows DEF old
<1>8. /\ ice' \in [Apps -> [Goroutines -> IceType]] /\ ice'[p][t] = next
      /\ \A u \in Goroutines : u # t => ice'[p][u] = ice[p][u]
      /\ \A q \in Apps \ {p} : ice'[q] = ice[q]
  BY <1>1, <1>2, <1>6
<1>9. bound' \in [Apps -> Nat] /\ \A q \in Apps \ {p} : bound'[q] = bound[q]
  BY <1>1, <1>2
<1>10. TypeOK'
  BY <1>1, <1>7, <1>8, <1>9 DEF IInv, TypeOK, AgentType, Remote, IceType
<1>11. Ready(p)'
  BY <1>6, <1>7, <1>8 DEF IInv, Ready
<1>12. Provided(p)'
  <2>1. SUFFICES ASSUME Waiting(p), ~Restarted(p)
                 PROVE  agents'[p][1].remotes # <<>> /\ ice'[p]["pump"].at # "gather"
    BY <1>1, <1>7 DEF Provided, Waiting, Restarted
  <2>2. agents[p][1].remotes # <<>> /\ ice[p]["pump"].at # "gather"
    BY <2>1 DEF IInv, Provided
  <2>3. a = 1
    BY <1>2, <2>1, OneAgent
  <2>4. agents'[p][1] = d /\ old = agents[p][1]
    BY <1>1, <1>2, <2>3 DEF old
  <2>5. t # "pump" /\ "pump" \in Goroutines
    BY <1>1, <2>2 DEF Goroutines
  <2> QED  BY <1>5, <1>8, <2>2, <2>4, <2>5
<1> QED  BY <1>1, <1>7, <1>8, <1>9, <1>10, <1>11, <1>12, OneApplication DEF AppState

-----------------------------------------------------------------------------
(* The goroutines that connect.                                            *)

LEMMA ConnectIInv ==
  ASSUME IInv, NEW p \in Apps, Connect(p)
  PROVE  IInv'
<1> USE DEF serverVars
<1> DEFINE a == Len(agents[p])
           agent == agents[p][a]
           c == [agent |-> a, sock |-> agent.local[1], remote |-> agent.remotes[1]]
<1>1. /\ connecting[p] > 0 /\ connecting' = [connecting EXCEPT ![p] = connecting[p] - 1]
      /\ UNCHANGED <<main, listed, inbox, handling, ice, agents, bound, timers, iceConn,
                     commands>>
      /\ \/ UNCHANGED <<made, storing>>
         \/ /\ agent.local # <<>> /\ agent.remotes # <<>>
            /\ made' = [made EXCEPT ![p] = Append(made[p], c)]
            /\ storing' = [storing EXCEPT ![p] = storing[p] \cup {Len(made'[p])}]
  BY DEF Connect
<1>2. /\ agents \in [Apps -> Seq(AgentType)] /\ made \in [Apps -> Seq(MadeType)]
      /\ connecting \in [Apps -> Nat] /\ agents[p] # <<>> /\ Waiting(p)
      /\ agents[p] \in Seq(AgentType) /\ made[p] \in Seq(MadeType)
  BY <1>1, Types DEF IInv, TypeOK, Ready, Waiting
<1>3. agent \in AgentType /\ a \in DOMAIN agents[p] /\ a \in Nat
  BY <1>2
<1>4. connecting' \in [Apps -> Nat] /\ \A q \in Apps \ {p} : connecting'[q] = connecting[q]
  BY <1>1, <1>2
<1>5. Ready(p)' /\ Provided(p)'
  <2>1. agents'[p] # <<>> /\ ice'[p] = ice[p] /\ agents'[p] = agents[p]
    BY <1>1, <1>2
  <2> QED  BY <1>1, <1>2, <2>1 DEF IInv, Ready, Provided, Restarted
<1>6. CASE UNCHANGED <<made, storing>>
  <2>1. UsesFirst(p)'
    BY <1>1, <1>6 DEF IInv, UsesFirst
  <2>2. TypeOK'
    BY <1>1, <1>4, <1>6 DEF IInv, TypeOK
  <2> QED  BY <1>1, <1>4, <1>5, <1>6, <2>1, <2>2, OneApplication DEF AppState
<1>7. CASE /\ agent.local # <<>> /\ agent.remotes # <<>>
           /\ made' = [made EXCEPT ![p] = Append(made[p], c)]
           /\ storing' = [storing EXCEPT ![p] = storing[p] \cup {Len(made'[p])}]
  <2>1. agent.local[1] \in Nat /\ agent.remotes[1] \in Remote
    <3>1. agent.local \in Seq(Nat) /\ agent.remotes \in Seq(Remote)
      <4> HIDE DEF agent
      <4> QED  BY <1>3 DEF AgentType
    <3>2. \A S : \A s \in Seq(S) : s # <<>> => s[1] \in S
      OBVIOUS
    <3> HIDE DEF agent
    <3> QED  BY <1>7, <3>1, <3>2
  <2>2. c \in MadeType /\ FirstOf(c, agent) /\ c.agent = a
    <3> HIDE DEF agent, a
    <3> QED  BY <1>3, <1>7, <2>1 DEF MadeType, FirstOf
  <2> HIDE DEF c
  <2>3. /\ Append(made[p], c) \in Seq(MadeType)
        /\ Len(Append(made[p], c)) = Len(made[p]) + 1 /\ Len(made[p]) \in Nat
        /\ \A k \in 1..Len(made[p]) : Append(made[p], c)[k] = made[p][k]
        /\ Append(made[p], c)[Len(made[p]) + 1] = c
    BY ONLY <1>2, <2>2, AppendElements
  <2>4. /\ made' \in [Apps -> Seq(MadeType)] /\ made'[p] = Append(made[p], c)
        /\ \A q \in Apps \ {p} : made'[q] = made[q]
    BY <1>2, <1>7, <2>3
  <2>5. DOMAIN made'[p] = 1..(Len(made[p]) + 1) /\ DOMAIN made[p] = 1..Len(made[p])
    BY <1>2, <2>3, <2>4
  <2>6. UsesFirst(p)'
    <3>1. ASSUME NEW k \in 1..(Len(made[p]) + 1)
          PROVE  /\ made'[p][k].agent \in DOMAIN agents[p]
                 /\ FirstOf(made'[p][k], agents[p][made'[p][k].agent])
      <4>1. CASE k \in 1..Len(made[p])
        BY <2>3, <2>4, <2>5, <4>1 DEF IInv, UsesFirst
      <4>2. CASE k = Len(made[p]) + 1
        BY <1>3, <2>2, <2>3, <2>4, <4>2
      <4> QED  BY <2>3, <4>1, <4>2
    <3> QED  BY <1>1, <2>5, <3>1 DEF UsesFirst
  <2>7. TypeOK'
    <3>1. ASSUME NEW q \in Apps
          PROVE  storing'[q] \subseteq 1..Len(made'[q]) /\ iceConn'[q] \in 0..Len(made'[q])
      <4>1. /\ storing[q] \subseteq 1..Len(made[q]) /\ iceConn[q] \in 0..Len(made[q])
            /\ iceConn' = iceConn
        BY <1>1 DEF IInv, TypeOK
      <4>2. CASE q = p
        <5>1. storing'[p] \subseteq storing[p] \cup {Len(made'[p])}
          BY <1>7
        <5>2. Len(made'[p]) = Len(made[p]) + 1 /\ Len(made[p]) \in Nat
          BY <2>3, <2>4
        <5> QED  BY <4>1, <4>2, <5>1, <5>2
      <4>3. CASE q # p
        BY <1>7, <2>4, <4>1, <4>3
      <4> QED  BY <4>2, <4>3
    <3> QED  BY <1>1, <1>4, <2>4, <3>1 DEF IInv, TypeOK, MadeType, Remote
  <2> QED  BY <1>1, <1>4, <1>5, <2>4, <2>6, <2>7, OneApplication DEF AppState
<1> QED  BY <1>1, <1>6, <1>7

LEMMA TimersIInv ==
  ASSUME IInv, NEW p \in Apps, TimerChecks(p) \/ Store(p)
  PROVE  IInv'
<1> USE DEF serverVars
<1>1. CASE TimerChecks(p)
  <2>1. /\ timers[p] > 0 /\ timers' = [timers EXCEPT ![p] = timers[p] - 1]
        /\ connecting' = [connecting EXCEPT ![p] =
                            IF iceConn[p] = 0 THEN connecting[p] + 1 ELSE connecting[p]]
        /\ UNCHANGED <<main, listed, inbox, handling, ice, agents, bound, made, storing,
                       iceConn, commands>>
    BY <1>1 DEF TimerChecks
  <2>2. /\ timers \in [Apps -> Nat] /\ connecting \in [Apps -> Nat]
        /\ Waiting(p) /\ agents[p] # <<>>
    BY <2>1 DEF IInv, TypeOK, Ready, Waiting
  <2>3. /\ timers' \in [Apps -> Nat] /\ connecting' \in [Apps -> Nat]
        /\ \A q \in Apps \ {p} : timers'[q] = timers[q] /\ connecting'[q] = connecting[q]
    BY <2>1, <2>2
  <2>4. TypeOK'
    BY <2>1, <2>3 DEF IInv, TypeOK
  <2>5. Ready(p)' /\ Provided(p)' /\ UsesFirst(p)'
    BY <2>1, <2>2 DEF IInv, Ready, Busy, Provided, Restarted, UsesFirst
  <2> QED  BY <2>1, <2>3, <2>4, <2>5, OneApplication DEF AppState
<1>2. CASE Store(p)
  <2>1. UNCHANGED <<main, listed, inbox, handling, ice, agents, bound, timers, connecting,
                    made, commands>>
    BY <1>2 DEF Store
  <2>2. PICK k \in storing[p] : /\ iceConn' = [iceConn EXCEPT ![p] = k]
                                /\ storing' = [storing EXCEPT ![p] = storing[p] \ {k}]
    BY <1>2 DEF Store
  <2>3. ASSUME NEW q \in Apps
        PROVE  storing'[q] \subseteq 1..Len(made[q]) /\ iceConn'[q] \in 0..Len(made[q])
    <3>1. /\ storing[q] \subseteq 1..Len(made[q]) /\ iceConn[q] \in 0..Len(made[q])
          /\ Len(made[q]) \in Nat
      <4>1. /\ storing[q] \subseteq 1..Len(made[q]) /\ iceConn[q] \in 0..Len(made[q])
        BY DEF IInv, TypeOK
      <4>2. made[q] \in Seq(MadeType)
        BY Types DEF IInv
      <4> QED  BY <4>1, <4>2
    <3>2. storing'[q] \subseteq storing[q]
      BY <2>2
    <3>3. iceConn'[q] = iceConn[q] \/ (q = p /\ iceConn'[q] = k)
      BY <2>2
    <3> QED  BY <3>1, <3>2, <3>3
  <2>4. TypeOK'
    BY <2>1, <2>3 DEF IInv, TypeOK
  <2> QED  BY <2>1, <2>4, Untouched DEF AppState
<1> QED  BY <1>1, <1>2

-----------------------------------------------------------------------------
(* The theorems.                                                           *)

LEMMA NextIInv ==
  ASSUME IInv, [Next]_vars
  PROVE  IInv'
<1>1. CASE UNCHANGED vars
  <2>1. TypeOK' /\ \A q \in Apps : UNCHANGED AppState(q)
    BY <1>1 DEF vars, serverVars, connVars, IInv, TypeOK, AppState
  <2> QED  BY <2>1, Untouched
<1>2. ASSUME NEW p \in Apps,
             Join(p) \/ Quit(p) \/ (\E q \in Apps : Command(p, q))
             \/ Main(p) \/ Pump(p) \/ Connector(p)
      PROVE  IInv'
  <2>1. CASE Join(p) \/ OnSignal(p) \/ OnPeerEvent(p) \/ Quit(p)
    BY <2>1, OthersIInv, QuitIInv
  <2>2. CASE \/ StartShell(p) \/ (\E q \in Apps : Command(p, q))
             \/ ReadJoined(p) \/ ReadCandidate(p) \/ AutoStart(p)
    BY <2>2, StartsIInv, ReadCandidateIInv
  <2>3. ASSUME NEW t \in Goroutines, StartICE(p, t) PROVE IInv'
    BY <2>3, FreeAssumption, GatherIInv, SendCandidateIInv DEF StartICE
  <2>4. CASE AddRemoteCandidate(p)
    BY <2>4, AddRemoteIInv
  <2>5. CASE Connector(p)
    BY <2>5, ConnectIInv, TimersIInv DEF Connector
  <2> QED  BY <1>2, <2>1, <2>2, <2>3, <2>4, <2>5 DEF Main, Pump, Goroutines
<1> QED  BY <1>1, <1>2 DEF Next

\* What main, the read pump and the connecting goroutines of an application preserve
\* together, whatever the interleaving.
THEOREM Invariance == Spec => []IInv
<1>1. Init => IInv
  BY InitIInv
<1>2. IInv /\ [Next]_vars => IInv'
  BY NextIInv
<1> QED  BY <1>1, <1>2, PTL DEF Spec

\* Every variable keeps its type, for which nobody may use app.iceAgent before there is
\* one: not the shell, not the read pump, and not the goroutines that wake up to connect.
THEOREM TypeCorrect == Spec => []TypeOK
<1>1. IInv => TypeOK
  BY DEF IInv
<1> QED  BY <1>1, Invariance, PTL

\* However many goroutines of handleRemoteICECandidate connect, and whatever
\* startICE does meanwhile, the connections of one agent are over the same socket
\* to the same address.
THEOREM DuplicatesAreHarmless == Spec => []DuplicatesShareSocket
<1>1. IInv => DuplicatesShareSocket
  BY DEF IInv, UsesFirst, FirstOf, DuplicatesShareSocket
<1> QED  BY <1>1, Invariance, PTL

-----------------------------------------------------------------------------
(* Why connecting fails.                                                   *)

GivesUp(p) == connecting'[p] < connecting[p] /\ made'[p] = made[p] /\ main'[p] # "gone"

Excused(p) == Restarted(p) \/ ice[p]["main"].at = "gather" \/ NoPort(p)

\* Nothing but Connect takes a goroutine off those that connect.
LEMMA OnlyConnectGivesUp ==
  ASSUME IInv, [Next]_vars, NEW p \in Apps, GivesUp(p)
  PROVE  Connect(p)
<1>1. /\ connecting \in [Apps -> Nat] /\ connecting[p] \in Nat
      /\ main \in [Apps -> {"offline", "sleep", "onPeerEvent", "flags", "shell", "gone"}]
  BY DEF IInv, TypeOK
<1>2. ~UNCHANGED connecting
  BY <1>1 DEF GivesUp
<1>3. PICK x \in Apps : Quit(x) \/ TimerChecks(x) \/ Connect(x)
  BY <1>2 DEF Next, vars, serverVars, connVars, Main, Pump, Connector, StartICE, Join,
              OnSignal, OnPeerEvent, StartShell, Command, ReadJoined, ReadCandidate,
              AutoStart, AddRemoteCandidate, Gather, SendCandidate, Store
<1>4. ~Quit(x)
  BY <1>1 DEF GivesUp, Quit
<1>5. ~TimerChecks(x)
  BY <1>1 DEF GivesUp, TimerChecks
<1>6. x = p
  BY <1>1, <1>3, <1>4, <1>5 DEF GivesUp, Connect
<1> QED  BY <1>3, <1>4, <1>5, <1>6

LEMMA GivingUpStep ==
  ASSUME IInv, [Next]_vars, NEW p \in Apps, GivesUp(p)
  PROVE  Excused(p)
<1> DEFINE agent == agents[p][Len(agents[p])]
<1>1. connecting[p] > 0 /\ (agent.local = <<>> \/ agent.remotes = <<>>)
  <2>1. Connect(p)
    BY OnlyConnectGivesUp
  <2>2. made \in [Apps -> Seq(MadeType)] /\ made[p] \in Seq(MadeType)
    BY Types DEF IInv
  <2>3. \A e : Append(made[p], e) # made[p]
    BY <2>2
  <2> QED  BY <2>1, <2>2, <2>3 DEF Connect, GivesUp
<1>2. SUFFICES ASSUME ~Restarted(p), ice[p]["main"].at # "gather" PROVE NoPort(p)
  BY DEF Excused
<1>3. Waiting(p) /\ agents[p] # <<>> /\ agents[p] \in Seq(AgentType)
  BY <1>1, Types DEF IInv, Ready, Waiting
<1>4. agents[p][1].remotes # <<>> /\ ice[p]["pump"].at # "gather"
  BY <1>2, <1>3 DEF IInv, Provided
<1>5. Len(agents[p]) = 1
  BY <1>2, <1>3, OneAgent
<1>6. agents[p][1].local = <<>>
  BY <1>1, <1>4, <1>5
<1> QED  BY <1>2, <1>3, <1>4, <1>6 DEF NoPort, Goroutines

\* When a goroutine of handleRemoteICECandidate wakes up there is a candidate to connect
\* to, whatever the read pump does, and what the read pump gathered for it: unless ICE
\* was started again, only main or the lack of a port can make Connect fail.
THEOREM FailsForAReason == Spec => GivesUpOnlyWithoutPorts
<1>1. IInv /\ [Next]_vars => \A p \in Apps : GivesUp(p) => Excused(p)
  BY GivingUpStep
<1>2. Spec => [][\A p \in Apps : GivesUp(p) => Excused(p)]_vars
  BY <1>1, Invariance, PTL DEF Spec
<1> QED  BY <1>2 DEF GivesUp, Excused, GivesUpOnlyWithoutPorts

-----------------------------------------------------------------------------
(* The first pairs of candidates.  What one application knows of another   *)
(* that has started ICE once is in the order in which that one bound its   *)
(* sockets: S is the list of candidates stored, h the one being handled, Q *)
(* the messages under way, and I the senders.                              *)

StoredBefore(S, q, s) == 0 < s /\ \A i \in DOMAIN S : S[i].of = q => S[i].sock < s

HeardBefore(S, h, q, s) ==
  StoredBefore(S, q, s) /\ (h # None /\ h.from = q => h.sock < s)

Of(m, q) == m.type = "signal" /\ m.from = q

StoredInOrder(S, q) ==
  \A j \in DOMAIN S : S[j].of = q =>
    0 < S[j].sock /\ \A i \in 1..(j - 1) : S[i].of = q => S[i].sock < S[j].sock

ComesInOrder(S, h, Q, q) ==
  \A k \in DOMAIN Q : Of(Q[k], q) =>
    /\ HeardBefore(S, h, q, Q[k].sock)
    /\ \A l \in 1..(k - 1) : Of(Q[l], q) => Q[l].sock < Q[k].sock

SentInOrder(S, h, Q, r, q) ==
  \A i \in DOMAIN r :
    /\ HeardBefore(S, h, q, r[i])
    /\ \A k \in DOMAIN Q : Of(Q[k], q) => Q[k].sock < r[i]
    /\ \A j \in 1..(i - 1) : r[j] < r[i]

InOrder(S, h, Q, I, q) ==
  /\ StoredInOrder(S, q)
  /\ h # None /\ h.from = q => StoredBefore(S, q, h.sock)
  /\ ComesInOrder(S, h, Q, q)
  /\ \A t \in Goroutines : I[t].at = "send" => SentInOrder(S, h, Q, I[t].rest, q)

\* A message that is no candidate of q is sent.
LEMMA OrderOther ==
  ASSUME NEW S \in Seq(Remote), NEW h, NEW Q \in Seq(Message), NEW I, NEW q,
         InOrder(S, h, Q, I, q), NEW m \in Message, ~Of(m, q)
  PROVE  InOrder(S, h, Append(Q, m), I, q)
<1> DEFINE P == Append(Q, m)
<1>1. /\ DOMAIN P = 1..(Len(Q) + 1) /\ DOMAIN Q = 1..Len(Q) /\ Len(Q) \in Nat
      /\ P[Len(Q) + 1] = m /\ \A k \in 1..Len(Q) : P[k] = Q[k]
  BY AppendElements
<1> HIDE DEF P
<1>2. \A k \in DOMAIN P : Of(P[k], q) => k \in DOMAIN Q /\ P[k] = Q[k]
  BY <1>1
<1>3. ComesInOrder(S, h, P, q)
  <2>1. SUFFICES ASSUME NEW k \in DOMAIN P, Of(P[k], q)
                 PROVE  /\ HeardBefore(S, h, q, P[k].sock)
                        /\ \A l \in 1..(k - 1) : Of(P[l], q) => P[l].sock < P[k].sock
    BY DEF ComesInOrder
  <2>2. k \in DOMAIN Q /\ P[k] = Q[k] /\ \A l \in 1..(k - 1) : P[l] = Q[l]
    BY <1>1, <1>2, <2>1
  <2> QED  BY <2>1, <2>2 DEF InOrder, ComesInOrder
<1>4. ASSUME NEW t \in Goroutines, I[t].at = "send" PROVE SentInOrder(S, h, P, I[t].rest, q)
  BY <1>2, <1>4 DEF InOrder, SentInOrder
<1> QED  BY <1>3, <1>4 DEF InOrder, P

\* The read pump takes a message and handles it, or not.
LEMMA OrderRead ==
  ASSUME NEW S \in Seq(Remote), NEW Q \in Seq(Message), NEW I, NEW q,
         InOrder(S, None, Q, I, q), Q # <<>>,
         NEW h \in {None, Head(Q)}, h = None \/ h.type = "signal"
  PROVE  InOrder(S, h, Tail(Q), I, q)
<1> DEFINE P == Tail(Q)
<1>1. /\ DOMAIN Q = 1..Len(Q) /\ Len(Q) \in Nat /\ Len(Q) # 0 /\ 1 \in DOMAIN Q
      /\ Head(Q) = Q[1] /\ DOMAIN P = 1..(Len(Q) - 1)
      /\ \A k \in DOMAIN P : P[k] = Q[k + 1]
  BY TailElements
<1> HIDE DEF P
<1>2. h # None /\ h.from = q => Of(Q[1], q) /\ h = Q[1]
  BY <1>1 DEF Of
<1>3. h # None /\ h.from = q => StoredBefore(S, q, h.sock)
  BY <1>1, <1>2 DEF InOrder, ComesInOrder, HeardBefore
<1>4. ComesInOrder(S, h, P, q)
  <2>1. SUFFICES ASSUME NEW k \in DOMAIN P, Of(P[k], q)
                 PROVE  /\ HeardBefore(S, h, q, P[k].sock)
                        /\ \A l \in 1..(k - 1) : Of(P[l], q) => P[l].sock < P[k].sock
    BY DEF ComesInOrder
  <2>2. k + 1 \in DOMAIN Q /\ P[k] = Q[k + 1] /\ 1 \in 1..((k + 1) - 1)
    BY <1>1
  <2>3. /\ HeardBefore(S, None, q, P[k].sock)
        /\ \A l \in 1..((k + 1) - 1) : Of(Q[l], q) => Q[l].sock < P[k].sock
    BY <2>1, <2>2 DEF InOrder, ComesInOrder
  <2>4. \A l \in 1..(k - 1) : P[l] = Q[l + 1] /\ l + 1 \in 1..((k + 1) - 1)
    BY <1>1, <2>2
  <2> QED  BY <1>2, <2>2, <2>3, <2>4 DEF HeardBefore
<1>5. ASSUME NEW t \in Goroutines, I[t].at = "send" PROVE SentInOrder(S, h, P, I[t].rest, q)
  <2>1. SUFFICES ASSUME NEW i \in DOMAIN I[t].rest
                 PROVE  /\ HeardBefore(S, h, q, I[t].rest[i])
                        /\ \A k \in DOMAIN P : Of(P[k], q) => P[k].sock < I[t].rest[i]
                        /\ \A j \in 1..(i - 1) : I[t].rest[j] < I[t].rest[i]
    BY DEF SentInOrder
  <2>2. /\ HeardBefore(S, None, q, I[t].rest[i])
        /\ \A k \in DOMAIN Q : Of(Q[k], q) => Q[k].sock < I[t].rest[i]
        /\ \A j \in 1..(i - 1) : I[t].rest[j] < I[t].rest[i]
    BY <1>5 DEF InOrder, SentInOrder
  <2>3. \A k \in DOMAIN P : k + 1 \in DOMAIN Q
    BY <1>1
  <2> QED  BY <1>1, <1>2, <2>2, <2>3 DEF HeardBefore
<1> QED  BY <1>3, <1>4, <1>5 DEF InOrder, P

\* Everything under way is lost.
LEMMA OrderNothing ==
  ASSUME NEW S, NEW h, NEW Q, NEW I, NEW q, InOrder(S, h, Q, I, q)
  PROVE  InOrder(S, None, <<>>, I, q)
<1>1. ASSUME NEW t \in Goroutines, I[t].at = "send"
      PROVE  SentInOrder(S, None, <<>>, I[t].rest, q)
  BY <1>1 DEF InOrder, SentInOrder, HeardBefore
<1> QED  BY <1>1 DEF InOrder, ComesInOrder

\* The candidate that is handled is stored.
LEMMA OrderStored ==
  ASSUME NEW S \in Seq(Remote), NEW h \in Message, NEW Q, NEW I, NEW q \in Apps, h # None,
         InOrder(S, h, Q, I, q)
  PROVE  InOrder(Append(S, Candidate(h.from, h.sock)), None, Q, I, q)
<1> DEFINE c == Candidate(h.from, h.sock)
           R == Append(S, c)
<1>1. c \in Remote /\ c.of = h.from /\ c.sock = h.sock
  BY DEF Candidate, Remote, Message
<1> HIDE DEF c
<1>2. /\ DOMAIN R = 1..(Len(S) + 1) /\ DOMAIN S = 1..Len(S) /\ Len(S) \in Nat
      /\ R[Len(S) + 1] = c /\ \A i \in 1..Len(S) : R[i] = S[i]
  BY <1>1, AppendElements
<1> HIDE DEF R
<1>3. \A s : HeardBefore(S, h, q, s) => HeardBefore(R, None, q, s)
  <2>1. SUFFICES ASSUME NEW s, HeardBefore(S, h, q, s), NEW i \in DOMAIN R, R[i].of = q
                 PROVE  R[i].sock < s
    BY DEF HeardBefore, StoredBefore
  <2>2. CASE i = Len(S) + 1
    BY <1>1, <1>2, <2>1, <2>2 DEF HeardBefore
  <2>3. CASE i \in 1..Len(S)
    BY <1>2, <2>1, <2>3 DEF HeardBefore, StoredBefore
  <2> QED  BY <1>2, <2>2, <2>3
<1>4. StoredInOrder(R, q)
  <2>1. SUFFICES ASSUME NEW j \in DOMAIN R, R[j].of = q
                 PROVE  /\ 0 < R[j].sock
                        /\ \A i \in 1..(j - 1) : R[i].of = q => R[i].sock < R[j].sock
    BY DEF StoredInOrder
  <2>2. CASE j \in 1..Len(S)
    <3>1. \A i \in 1..(j - 1) : R[i] = S[i]
      BY <1>2, <2>2
    <3> QED  BY <1>2, <2>1, <2>2, <3>1 DEF InOrder, StoredInOrder
  <2>3. CASE j = Len(S) + 1
    <3>1. R[j] = c /\ h.from = q
      BY <1>1, <1>2, <2>1, <2>3
    <3>2. StoredBefore(S, q, h.sock)
      BY <3>1 DEF InOrder
    <3>3. \A i \in 1..(j - 1) : i \in DOMAIN S /\ R[i] = S[i]
      BY <1>2, <2>3
    <3> QED  BY <1>1, <3>1, <3>2, <3>3 DEF StoredBefore
  <2> QED  BY <1>2, <2>2, <2>3
<1>5. ComesInOrder(R, None, Q, q)
  BY <1>3 DEF InOrder, ComesInOrder
<1>6. ASSUME NEW t \in Goroutines, I[t].at = "send"
      PROVE  SentInOrder(R, None, Q, I[t].rest, q)
  BY <1>3, <1>6 DEF InOrder, SentInOrder
<1> QED  BY <1>4, <1>5, <1>6 DEF InOrder, R, c

\* A sender goes on, or drops what it sent to another application.
LEMMA OrderSenders ==
  ASSUME NEW S, NEW h, NEW Q, NEW I, NEW q, InOrder(S, h, Q, I, q), NEW J,
         \A t \in Goroutines : J[t].at = "send" =>
           /\ I[t].at = "send" /\ I[t].rest \in Seq(Nat) /\ I[t].rest # <<>>
           /\ J[t].rest \in {I[t].rest, Tail(I[t].rest)}
  PROVE  InOrder(S, h, Q, J, q)
<1>1. ASSUME NEW t \in Goroutines, J[t].at = "send"
      PROVE  SentInOrder(S, h, Q, J[t].rest, q)
  <2> DEFINE r == I[t].rest
             s == J[t].rest
  <2>1. SentInOrder(S, h, Q, r, q) /\ r \in Seq(Nat) /\ r # <<>> /\ s \in {r, Tail(r)}
    BY <1>1 DEF InOrder
  <2> HIDE DEF r, s
  <2>2. CASE s = Tail(r)
    <3>1. SUFFICES ASSUME NEW i \in DOMAIN s
                   PROVE  /\ HeardBefore(S, h, q, s[i])
                          /\ \A k \in DOMAIN Q : Of(Q[k], q) => Q[k].sock < s[i]
                          /\ \A j \in 1..(i - 1) : s[j] < s[i]
      BY DEF SentInOrder, s
    <3>2. /\ i + 1 \in DOMAIN r /\ s[i] = r[i + 1]
          /\ \A j \in 1..(i - 1) : s[j] = r[j + 1] /\ j + 1 \in 1..((i + 1) - 1)
      BY <2>1, <2>2, <3>1, TailElements
    <3> QED  BY <2>1, <3>2 DEF SentInOrder
  <2>3. CASE s = r
    BY <2>1, <2>3 DEF s
  <2> QED  BY <2>1, <2>2, <2>3
<1> QED  BY <1>1 DEF InOrder

\* A candidate is sent.
LEMMA OrderSent ==
  ASSUME NEW S, NEW h, NEW Q \in Seq(Message), NEW I, NEW q \in Apps, InOrder(S, h, Q, I, q),
         NEW t \in Goroutines, I[t].at = "send", I[t].rest \in Seq(Nat), I[t].rest # <<>>,
         NEW J, \A u \in Goroutines : J[u].at = "send" => u = t /\ J[t].rest = Tail(I[t].rest)
  PROVE  InOrder(S, h, Append(Q, Signal(q, Head(I[t].rest))), J, q)
<1> DEFINE r == I[t].rest
           m == Signal(q, Head(r))
           P == Append(Q, m)
           s == Tail(r)
<1>1. /\ SentInOrder(S, h, Q, r, q) /\ r \in Seq(Nat) /\ r # <<>>
      /\ ComesInOrder(S, h, Q, q)
  BY DEF InOrder
<1> HIDE DEF r
<1>2. /\ Head(r) = r[1] /\ r[1] \in Nat /\ 1 \in DOMAIN r /\ DOMAIN r = 1..Len(r)
      /\ DOMAIN s = 1..(Len(r) - 1) /\ \A i \in 1..(Len(r) - 1) : s[i] = r[i + 1]
      /\ Len(r) \in Nat
  BY <1>1, TailElements
<1>3. m \in Message /\ m.sock = r[1] /\ Of(m, q)
  BY <1>2 DEF Signal, Message, Of
<1> HIDE DEF m, s
<1>4. /\ DOMAIN P = 1..(Len(Q) + 1) /\ DOMAIN Q = 1..Len(Q) /\ Len(Q) \in Nat
      /\ P[Len(Q) + 1] = m /\ \A k \in 1..Len(Q) : P[k] = Q[k]
  BY <1>3, AppendElements
<1> HIDE DEF P
<1>5. /\ HeardBefore(S, h, q, r[1])
      /\ \A k \in DOMAIN Q : Of(Q[k], q) => Q[k].sock < r[1]
  BY <1>1, <1>2 DEF SentInOrder
<1>6. ComesInOrder(S, h, P, q)
  <2>1. SUFFICES ASSUME NEW k \in DOMAIN P, Of(P[k], q)
                 PROVE  /\ HeardBefore(S, h, q, P[k].sock)
                        /\ \A l \in 1..(k - 1) : Of(P[l], q) => P[l].sock < P[k].sock
    BY DEF ComesInOrder
  <2>2. CASE k \in 1..Len(Q)
    <3>1. \A l \in 1..(k - 1) : P[l] = Q[l]
      BY <1>4, <2>2
    <3> QED  BY <1>1, <1>4, <2>1, <2>2, <3>1 DEF ComesInOrder
  <2>3. CASE k = Len(Q) + 1
    <3>1. \A l \in 1..(k - 1) : l \in DOMAIN Q /\ P[l] = Q[l]
      BY <1>4, <2>3
    <3> QED  BY <1>3, <1>4, <1>5, <2>3, <3>1
  <2> QED  BY <1>4, <2>2, <2>3
<1>7. SentInOrder(S, h, P, s, q)
  <2>1. SUFFICES ASSUME NEW i \in DOMAIN s
                 PROVE  /\ HeardBefore(S, h, q, s[i])
                        /\ \A k \in DOMAIN P : Of(P[k], q) => P[k].sock < s[i]
                        /\ \A j \in 1..(i - 1) : s[j] < s[i]
    BY DEF SentInOrder
  <2>2. /\ i + 1 \in DOMAIN r /\ s[i] = r[i + 1] /\ 1 \in 1..((i + 1) - 1)
        /\ \A j \in 1..(i - 1) : s[j] = r[j + 1] /\ j + 1 \in 1..((i + 1) - 1)
    BY <1>2, <2>1
  <2>3. /\ HeardBefore(S, h, q, s[i])
        /\ \A k \in DOMAIN Q : Of(Q[k], q) => Q[k].sock < s[i]
        /\ \A j \in 1..((i + 1) - 1) : r[j] < s[i]
    BY <1>1, <2>2 DEF SentInOrder
  <2>4. \A k \in DOMAIN P : Of(P[k], q) => P[k].sock < s[i]
    BY <1>3, <1>4, <2>2, <2>3
  <2> QED  BY <2>2, <2>3, <2>4
<1>8. \A u \in Goroutines : J[u].at = "send" => J[u].rest = s
  BY DEF r, s
<1>9. StoredInOrder(S, q) /\ (h # None /\ h.from = q => StoredBefore(S, q, h.sock))
  BY DEF InOrder
<1>10. InOrder(S, h, P, J, q)
  BY <1>6, <1>7, <1>8, <1>9 DEF InOrder
<1> QED  BY <1>10 DEF P, m, r

\* The first candidates are gathered, of which nobody has heard.
LEMMA OrderFresh ==
  ASSUME NEW S, NEW h, NEW Q, NEW J, NEW q,
         \A i \in DOMAIN S : S[i].of # q, h # None => h.from # q,
         \A k \in DOMAIN Q : ~Of(Q[k], q),
         NEW n \in Nat,
         \A t \in Goroutines : J[t].at = "send" => J[t].rest = [i \in 1..n |-> i]
  PROVE  InOrder(S, h, Q, J, q)
<1>1. StoredInOrder(S, q) /\ ComesInOrder(S, h, Q, q)
  BY DEF StoredInOrder, ComesInOrder
<1>2. SentInOrder(S, h, Q, [i \in 1..n |-> i], q)
  BY DEF SentInOrder, HeardBefore, StoredBefore
<1> QED  BY <1>1, <1>2 DEF InOrder

-----------------------------------------------------------------------------
(* The invariant about candidates.                                         *)

Stored(p) == IF agents[p] = <<>> THEN <<>> ELSE agents[p][1].remotes

Ordered(p, q) == InOrder(Stored(p), handling[p], inbox[p], ice[q], q)

\* Nobody has heard of candidates before there are sockets.
Silent(p, q) ==
  ~Restarted(q) /\ bound[q] = 0 =>
    /\ \A t \in Goroutines : ice[q][t].at # "send"
    /\ \A i \in DOMAIN Stored(p) : Stored(p)[i].of # q
    /\ handling[p] # None => handling[p].from # q
    /\ \A k \in DOMAIN inbox[p] : ~Of(inbox[p][k], q)

\* One goroutine at a time is past the creation of an agent, and gathers once, before a
\* restart.
OneRound(q) ==
  /\ agents[q] = <<>> => bound[q] = 0
  /\ ~Restarted(q) /\ agents[q] # <<>> =>
       agents[q][1].local = IF bound[q] = 0 THEN <<>> ELSE [i \in 1..bound[q] |-> i]
  /\ ~Restarted(q) /\ (\E t \in Goroutines : ice[q][t].at = "gather") => bound[q] = 0
  /\ Busy(q, "main") /\ Busy(q, "pump") => Restarted(q)

Fits(p, q) == Silent(p, q) /\ (~Restarted(p) /\ ~Restarted(q) => Ordered(p, q))

FitInv == /\ \A q \in Apps : OneRound(q)
          /\ \A p, q \in Apps : Fits(p, q)

\* p learns of nothing new.
Keeps(p) == Stored(p)' = Stored(p) /\ (~Restarted(p)' => ~Restarted(p))

\* Nobody learns of anything new from p.
Continues(p) ==
  /\ bound'[p] = bound[p]
  /\ ~Restarted(p)' => ~Restarted(p)
  /\ \A t \in Goroutines : ice'[p][t].at = "send" => ice'[p][t] = ice[p][t]

LEMMA InitFitInv == Init => FitInv
<1> SUFFICES ASSUME Init PROVE FitInv
  OBVIOUS
<1>1. ASSUME NEW p \in Apps
      PROVE  /\ agents[p] = <<>> /\ Stored(p) = <<>> /\ inbox[p] = <<>> /\ handling[p] = None
             /\ \A t \in Goroutines : ice[p][t].at = "idle"
  BY DEF Init, Stored, Idle
<1>2. ASSUME NEW q \in Apps PROVE OneRound(q)
  BY <1>1 DEF Init, OneRound, Busy, Goroutines
<1>3. ASSUME NEW p \in Apps, NEW q \in Apps PROVE Fits(p, q)
  <2>1. Silent(p, q)
    BY <1>1 DEF Silent
  <2>2. InOrder(<<>>, None, <<>>, ice[q], q)
    BY <1>1 DEF InOrder, StoredInOrder, ComesInOrder
  <2> QED  BY <1>1, <2>1, <2>2 DEF Fits, Ordered
<1> QED  BY <1>2, <1>3 DEF FitInv

\* What is stored is a list of candidates.
LEMMA StoredType ==
  ASSUME IInv, NEW p \in Apps
  PROVE  /\ Stored(p) \in Seq(Remote) /\ inbox[p] \in Seq(Message)
         /\ handling[p] \in Message \cup {None} /\ ice[p] \in [Goroutines -> IceType]
<1>1. /\ agents[p] \in Seq(AgentType) /\ inbox[p] \in Seq(Message)
      /\ handling[p] \in Message \cup {None} /\ ice[p] \in [Goroutines -> IceType]
  BY Types DEF IInv
<1>2. CASE agents[p] = <<>>
  <2>1. <<>> \in Seq(Remote)
    OBVIOUS
  <2> QED  BY <1>1, <1>2, <2>1 DEF Stored
<1>3. CASE agents[p] # <<>>
  <2>1. agents[p][1] \in AgentType
    BY <1>1, <1>3, TailElements
  <2> QED  BY <1>1, <1>3, <2>1 DEF Stored, AgentType
<1> QED  BY <1>2, <1>3

\* Messages are read, or others than candidates sent.
LEMMA MessagesFit ==
  ASSUME IInv, FitInv, NEW p \in Apps, NEW q \in Apps, Keeps(p), Continues(q),
         \/ UNCHANGED <<handling[p], inbox[p]>>
         \/ /\ UNCHANGED handling[p]
            /\ \E m \in Message : ~Of(m, q) /\ inbox'[p] = Append(inbox[p], m)
         \/ /\ handling[p] = None /\ inbox[p] # <<>> /\ inbox'[p] = Tail(inbox[p])
            /\ handling'[p] \in {None, Head(inbox[p])}
            /\ handling'[p] = None \/ handling'[p].type = "signal"
         \/ handling'[p] = None /\ inbox'[p] = <<>>
  PROVE  Fits(p, q)'
<1>1. PICK S \in Seq(Remote), Q \in Seq(Message), h \in Message \cup {None},
           I \in [Goroutines -> IceType] :
        S = Stored(p) /\ Q = inbox[p] /\ h = handling[p] /\ I = ice[q]
  BY StoredType
<1>2. PICK P, g, J : P = inbox'[p] /\ g = handling'[p] /\ J = ice'[q]
  OBVIOUS
<1>3. /\ Stored(p)' = S /\ bound'[q] = bound[q]
      /\ \A t \in Goroutines : J[t].at = "send" => J[t] = I[t]
      /\ ~Restarted(p)' => ~Restarted(p)
      /\ ~Restarted(q)' => ~Restarted(q)
  BY <1>1, <1>2 DEF Continues, Keeps
<1>4. \/ g = h /\ P = Q
      \/ g = h /\ \E m \in Message : ~Of(m, q) /\ P = Append(Q, m)
      \/ /\ h = None /\ Q # <<>> /\ P = Tail(Q) /\ g \in {None, Head(Q)}
         /\ g = None \/ g.type = "signal"
      \/ g = None /\ P = <<>>
  BY <1>1, <1>2
<1>5. ASSUME InOrder(S, h, Q, I, q) PROVE InOrder(S, g, P, J, q)
  <2>1. InOrder(S, g, P, I, q)
    BY <1>4, <1>5, OrderOther, OrderRead, OrderNothing
  <2>2. \A t \in Goroutines : J[t].at = "send" => SentInOrder(S, g, P, J[t].rest, q)
    BY <1>3, <2>1 DEF InOrder
  <2> QED  BY <2>1, <2>2 DEF InOrder
<1>6. ASSUME h # None => h.from # q, \A k \in DOMAIN Q : ~Of(Q[k], q)
      PROVE  (g # None => g.from # q) /\ \A k \in DOMAIN P : ~Of(P[k], q)
  <2>1. CASE g = h /\ P = Q
    BY <1>6, <2>1
  <2>2. ASSUME g = h, NEW m \in Message, ~Of(m, q), P = Append(Q, m)
        PROVE  (g # None => g.from # q) /\ \A k \in DOMAIN P : ~Of(P[k], q)
    BY <1>6, <2>2, AppendElements
  <2>3. CASE /\ h = None /\ Q # <<>> /\ P = Tail(Q) /\ g \in {None, Head(Q)}
             /\ g = None \/ g.type = "signal"
    <3>1. /\ 1 \in DOMAIN Q /\ Head(Q) = Q[1]
          /\ \A k \in DOMAIN P : P[k] = Q[k + 1] /\ k + 1 \in DOMAIN Q
      BY <2>3, TailElements
    <3> QED  BY <1>6, <2>3, <3>1 DEF Of
  <2>4. CASE g = None /\ P = <<>>
    BY <2>4
  <2> QED  BY <1>4, <2>1, <2>2, <2>3, <2>4
<1>7. Silent(p, q)'
  <2>1. SUFFICES ASSUME bound[q] = 0, ~Restarted(q)
                 PROVE  /\ \A t \in Goroutines : J[t].at # "send"
                        /\ \A i \in DOMAIN S : S[i].of # q
                        /\ g # None => g.from # q
                        /\ \A k \in DOMAIN P : ~Of(P[k], q)
    BY <1>2, <1>3 DEF Silent
  <2>2. Silent(p, q)
    BY DEF FitInv, Fits
  <2> QED  BY <1>1, <1>3, <1>6, <2>1, <2>2 DEF Silent
<1>8. ~Restarted(p)' /\ ~Restarted(q)' => Ordered(p, q)'
  <2>1. ~Restarted(p) /\ ~Restarted(q) => InOrder(S, h, Q, I, q)
    BY <1>1 DEF FitInv, Fits, Ordered
  <2>2. InOrder(S, g, P, J, q) => Ordered(p, q)'
    BY <1>2, <1>3 DEF Ordered
  <2> QED  BY <1>3, <1>5, <2>1, <2>2
<1> QED  BY <1>7, <1>8 DEF Fits

\* A step that leaves p's agents and senders alone.
LEMMA Alone ==
  ASSUME IInv, FitInv, NEW p \in Apps, UNCHANGED <<agents[p], ice[p], bound[p]>>
  PROVE  Keeps(p) /\ Continues(p) /\ OneRound(p)'
<1>1. OneRound(p)
  BY DEF FitInv
<1>2. OneRound(p)'
  BY <1>1 DEF OneRound, Busy, Restarted
<1> QED  BY <1>2 DEF Keeps, Continues, Stored, Restarted

\* Nor does the rest of startICE make an agent.
LEMMA RoundGoesOn ==
  ASSUME NEW p \in Apps, OneRound(p), UNCHANGED <<agents[p], bound[p]>>,
         \A u \in Goroutines : /\ Busy(p, u)' => Busy(p, u)
                               /\ ice'[p][u].at = "gather" => ice[p][u].at = "gather"
  PROVE  OneRound(p)'
<1>1. Restarted(p)' <=> Restarted(p)
  BY DEF Restarted
<1>2. Busy(p, "main")' /\ Busy(p, "pump")' => Restarted(p)
  <2>1. Busy(p, "main") /\ Busy(p, "pump") => Restarted(p)
    BY DEF OneRound
  <2> QED  BY <2>1 DEF Busy, Goroutines
<1>3. /\ agents'[p] = <<>> => bound'[p] = 0
      /\ ~Restarted(p) /\ (\E t \in Goroutines : ice'[p][t].at = "gather") => bound'[p] = 0
  <2>1. /\ agents[p] = <<>> => bound[p] = 0
        /\ ~Restarted(p) /\ (\E t \in Goroutines : ice[p][t].at = "gather") => bound[p] = 0
    BY DEF OneRound
  <2> QED  BY <2>1
<1>4. ~Restarted(p) /\ agents'[p] # <<>> =>
        agents'[p][1].local = IF bound'[p] = 0 THEN <<>> ELSE [i \in 1..bound'[p] |-> i]
  BY DEF OneRound
<1> QED  BY <1>1, <1>2, <1>3, <1>4 DEF OneRound, Busy

\* A new agent has heard of nobody.
LEMMA StartContinues ==
  ASSUME IInv, FitInv, NEW x \in Apps, NEW t \in Goroutines, NEW to \in Apps \cup {None},
         Start(x, t, to), UNCHANGED bound, NEW p \in Apps
  PROVE  Keeps(p) /\ Continues(p) /\ OneRound(p)'
<1>1. CASE p # x
  <2>1. agents'[p] = agents[p] /\ ice'[p] = ice[p]
    BY <1>1, StartFacts
  <2> QED  BY <2>1, Alone
<1>2. CASE p = x
  <2> DEFINE fresh == [local |-> <<>>, remotes |-> <<>>]
             began == [at |-> "gather", to |-> to, rest |-> <<>>]
  <2>1. /\ agents \in [Apps -> Seq(AgentType)] /\ ice \in [Apps -> [Goroutines -> IceType]]
        /\ agents[p] \in Seq(AgentType)
    BY Types DEF IInv
  <2>2. fresh \in AgentType /\ fresh.local = <<>> /\ fresh.remotes = <<>>
    BY DEF AgentType
  <2>3. began.at = "gather"
    OBVIOUS
  <2>4. agents'[p] = Append(agents[p], fresh) /\ ice'[p] = [ice[p] EXCEPT ![t] = began]
    BY <1>2, <2>1 DEF Start
  <2> HIDE DEF fresh, began
  <2>5. /\ Len(agents[p]) \in Nat /\ Len(agents'[p]) = Len(agents[p]) + 1
        /\ agents'[p] # <<>> /\ agents'[p][Len(agents[p]) + 1] = fresh
        /\ \A i \in 1..Len(agents[p]) : agents'[p][i] = agents[p][i]
    BY <2>1, <2>2, <2>4, AppendElements
  <2>6. /\ agents[p] = <<>> => Len(agents[p]) = 0
        /\ agents[p] # <<>> => Len(agents[p]) >= 1
    BY <2>1
  <2>7. /\ agents[p] = <<>> => agents'[p][1] = fresh
        /\ agents[p] # <<>> => agents'[p][1] = agents[p][1]
    BY <2>5, <2>6
  <2>8. Stored(p)' = Stored(p)
    BY <2>2, <2>5, <2>7 DEF Stored
  <2>9. /\ ice'[p][t].at = "gather"
        /\ \A u \in Goroutines : u # t => ice'[p][u] = ice[p][u]
    BY <2>1, <2>3, <2>4
  <2>10. Keeps(p) /\ Continues(p)
    BY <2>5, <2>8, <2>9 DEF Keeps, Continues, Restarted
  <2>11. OneRound(p)
    BY DEF FitInv
  <2>12. ASSUME ~Restarted(p)'
         PROVE  /\ agents'[p][1].local = <<>> /\ bound[p] = 0
    <3>1. agents[p] = <<>> /\ Len(agents[p]) = 0
      BY <2>5, <2>6, <2>12 DEF Restarted
    <3>2. bound[p] = 0
      BY <2>11, <3>1 DEF OneRound
    <3> QED  BY <2>2, <2>7, <3>1, <3>2
  <2>13. ASSUME Busy(p, "main")', Busy(p, "pump")' PROVE Restarted(p)'
    <3>1. PICK u \in Goroutines : u # t
      BY DEF Goroutines
    <3>2. Busy(p, u)
      BY <2>9, <2>13, <3>1 DEF Busy, Goroutines
    <3>3. agents[p] # <<>>
      BY <3>2 DEF IInv, Ready
    <3> QED  BY <2>5, <2>6, <3>3 DEF Restarted
  <2>14. OneRound(p)'
    BY <2>5, <2>12, <2>13 DEF OneRound
  <2> QED  BY <2>10, <2>14
<1> QED  BY <1>1, <1>2

LEMMA StartsFit ==
  ASSUME IInv, FitInv, NEW x \in Apps,
         \/ Join(x) \/ OnSignal(x) \/ OnPeerEvent(x) \/ Connector(x)
         \/ StartShell(x) \/ (\E q \in Apps : Command(x, q)) \/ ReadJoined(x)
         \/ AutoStart(x)
  PROVE  FitInv'
<1> USE DEF serverVars, connVars, Goroutines
<1>1. \/ UNCHANGED <<agents, ice>>
      \/ \E t \in Goroutines, to \in Apps \cup {None} : Start(x, t, to)
  <2>1. CASE Join(x) \/ OnSignal(x) \/ OnPeerEvent(x) \/ Connector(x)
    BY <2>1 DEF Join, OnSignal, OnPeerEvent, Connector, TimerChecks, Connect, Store
  <2>2. CASE StartShell(x)
    <3>1. listed[x] \subseteq Apps
      BY DEF IInv, TypeOK
    <3> QED  BY <2>2, <3>1 DEF StartShell
  <2>3. CASE \E q \in Apps : Command(x, q)
    BY <2>3 DEF Command
  <2>4. CASE ReadJoined(x)
    BY <2>4, ReadFacts DEF ReadJoined
  <2>5. CASE AutoStart(x)
    <3>1. ice[x]["pump"].to \in Apps \cup {None}
      BY Types DEF IInv, IceType
    <3> QED  BY <2>5, <3>1 DEF AutoStart
  <2> QED  BY <2>1, <2>2, <2>3, <2>4, <2>5
<1>2. UNCHANGED bound
  BY DEF Join, OnSignal, OnPeerEvent, Connector, TimerChecks, Connect, Store,
         StartShell, Command, ReadJoined, AutoStart
<1>3. ASSUME NEW p \in Apps PROVE Keeps(p) /\ Continues(p) /\ OneRound(p)'
  BY <1>1, <1>2, Alone, StartContinues
<1>4. ASSUME NEW p \in Apps
      PROVE  \/ UNCHANGED <<handling[p], inbox[p]>>
             \/ /\ UNCHANGED handling[p]
                /\ \E y \in Apps : inbox'[p] = Append(inbox[p], Joined(y))
             \/ /\ handling[p] = None /\ inbox[p] # <<>> /\ inbox'[p] = Tail(inbox[p])
                /\ handling'[p] = None
  <2>1. inbox \in [Apps -> Seq(Message)] /\ handling \in [Apps -> Message \cup {None}]
    BY Types DEF IInv
  <2>2. CASE Join(x)
    BY <2>2 DEF Join
  <2>3. CASE \/ OnSignal(x) \/ OnPeerEvent(x) \/ Connector(x) \/ StartShell(x)
             \/ (\E q \in Apps : Command(x, q)) \/ AutoStart(x)
    BY <2>3 DEF OnSignal, OnPeerEvent, Connector, TimerChecks, Connect, Store,
                StartShell, Command, AutoStart
  <2>4. CASE ReadJoined(x)
    BY <2>1, <2>4 DEF ReadJoined, Read
  <2> QED  BY <2>2, <2>3, <2>4
<1>5. \A y \in Apps, q \in Apps : Joined(y) \in Message /\ ~Of(Joined(y), q)
  BY DEF Joined, Message, Of
<1>6. ASSUME NEW p \in Apps, NEW q \in Apps PROVE Fits(p, q)'
  BY <1>3, <1>4, <1>5, MessagesFit
<1> QED  BY <1>3, <1>6 DEF FitInv

\* A candidate is read, or the process ends: nothing is sent or stored.
LEMMA ReadsFit ==
  ASSUME IInv, FitInv, NEW x \in Apps, ReadCandidate(x) \/ Quit(x)
  PROVE  FitInv'
<1> USE DEF serverVars, connVars
<1>1. inbox \in [Apps -> Seq(Message)] /\ handling \in [Apps -> Message \cup {None}]
      /\ ice \in [Apps -> [Goroutines -> IceType]] /\ "pump" \in Goroutines
  BY Types DEF IInv, Goroutines
<1>2. UNCHANGED <<agents, bound>>
  BY DEF ReadCandidate, Quit
<1>3. /\ \A t \in Goroutines :
           ice'[x][t].at \in {"gather", "send"} => ice'[x][t] = ice[x][t]
      /\ \A q \in Apps : q # x => ice'[q] = ice[q]
  <2>1. CASE ReadCandidate(x)
    <3> DEFINE next == IF HandlesSignals(x) /\ agents[x] = <<>>
                         THEN [at |-> "start", to |-> Head(inbox[x]).from, rest |-> <<>>]
                         ELSE ice[x]["pump"]
    <3>1. ice[x]["pump"].at = "idle" /\ ice' = [ice EXCEPT ![x]["pump"] = next]
      BY <2>1 DEF ReadCandidate, Read
    <3>2. next.at \notin {"gather", "send"}
      BY <3>1
    <3> HIDE DEF next
    <3> QED  BY <1>1, <3>1, <3>2
  <2>2. CASE Quit(x)
    BY <2>2, QuitFacts
  <2> QED  BY <2>1, <2>2
<1>4. ASSUME NEW p \in Apps PROVE Keeps(p) /\ Continues(p) /\ OneRound(p)'
  <2>1. CASE p # x
    BY <1>2, <1>3, <2>1, Alone
  <2>2. CASE p = x
    <3>1. \A t \in Goroutines : Busy(x, t)' => ice'[x][t] = ice[x][t]
      BY <1>3 DEF Busy
    <3>2. \A t \in Goroutines : /\ Busy(x, t)' => Busy(x, t)
                                /\ ice'[x][t].at = "gather" => ice[x][t].at = "gather"
      BY <3>1 DEF Busy
    <3>3. OneRound(x)
      BY DEF FitInv
    <3>4. OneRound(x)'
      BY <1>2, <3>2, <3>3, RoundGoesOn
    <3> QED  BY <1>2, <1>3, <2>2, <3>4 DEF Keeps, Continues, Stored, Restarted
  <2> QED  BY <2>1, <2>2
<1>5. ASSUME NEW p \in Apps
      PROVE  \/ UNCHANGED <<handling[p], inbox[p]>>
             \/ /\ handling[p] = None /\ inbox[p] # <<>> /\ inbox'[p] = Tail(inbox[p])
                /\ handling'[p] \in {None, Head(inbox[p])}
                /\ handling'[p] = None \/ handling'[p].type = "signal"
             \/ handling'[p] = None /\ inbox'[p] = <<>>
  <2>1. CASE ReadCandidate(x)
    BY <1>1, <2>1 DEF ReadCandidate, Read
  <2>2. CASE Quit(x)
    BY <2>2, QuitFacts
  <2> QED  BY <2>1, <2>2
<1>6. ASSUME NEW p \in Apps, NEW q \in Apps PROVE Fits(p, q)'
  BY <1>4, <1>5, MessagesFit
<1> QED  BY <1>4, <1>6 DEF FitInv

LEMMA SendFits ==
  ASSUME IInv, FitInv, NEW x \in Apps, NEW t \in Goroutines, SendCandidate(x, t)
  PROVE  FitInv'
<1> USE DEF serverVars, connVars
<1> DEFINE to == ice[x][t].to
           r == ice[x][t].rest
           m == Signal(x, Head(r))
           next == IF Len(r) = 1 THEN Idle ELSE [ice[x][t] EXCEPT !.rest = Tail(r)]
<1>1. /\ ice[x][t].at = "send" /\ UNCHANGED <<handling, agents, bound>>
      /\ ice' = [ice EXCEPT ![x][t] = next]
      /\ inbox' = IF to \in Online THEN [inbox EXCEPT ![to] = Append(inbox[to], m)] ELSE inbox
  BY DEF SendCandidate
<1>2. /\ ice \in [Apps -> [Goroutines -> IceType]] /\ inbox \in [Apps -> Seq(Message)]
      /\ ice[x][t] \in IceType
  BY Types DEF IInv
<1>3. r \in Seq(Nat) /\ r # <<>>
  BY <1>1, <1>2 DEF IInv, Ready, IceType
<1>4. m \in Message /\ m.from = x
  BY <1>3, TailElements DEF Signal, Message
<1>5. next.at \in {"idle", "send"} /\ (next.at = "send" => next.rest = Tail(r))
  BY <1>1, <1>2 DEF Idle, IceType
<1> HIDE DEF m, next
<1>6. /\ ice'[x][t] = next /\ \A u \in Goroutines : u # t => ice'[x][u] = ice[x][u]
      /\ \A q \in Apps : q # x => ice'[q] = ice[q]
  BY <1>1, <1>2
<1>7. ASSUME NEW p \in Apps
      PROVE  \/ inbox'[p] = inbox[p]
             \/ inbox'[p] = Append(inbox[p], m)
  BY <1>1, <1>2
<1>8. ASSUME NEW p \in Apps PROVE Keeps(p) /\ (p # x => Continues(p)) /\ OneRound(p)'
  <2>1. CASE p # x
    BY <1>1, <1>6, <2>1, Alone
  <2>2. CASE p = x
    <3>1. Keeps(p)
      BY <1>1 DEF Keeps, Stored, Restarted
    <3>2. OneRound(p)
      BY DEF FitInv
    <3>3. \A u \in Goroutines : /\ Busy(p, u)' => Busy(p, u)
                                /\ ice'[p][u].at = "gather" => ice[p][u].at = "gather"
      BY <1>1, <1>5, <1>6, <2>2 DEF Busy
    <3>4. OneRound(p)'
      BY <1>1, <3>2, <3>3, RoundGoesOn
    <3> QED  BY <2>2, <3>1, <3>4
  <2> QED  BY <2>1, <2>2
<1>9. ASSUME NEW p \in Apps, NEW q \in Apps, q # x PROVE Fits(p, q)'
  <2>1. ~Of(m, q)
    BY <1>4, <1>9 DEF Of
  <2> QED  BY <1>1, <1>4, <1>7, <1>8, <1>9, <2>1, MessagesFit
<1>10. ASSUME NEW p \in Apps PROVE Fits(p, x)'
  <2>1. Silent(p, x) /\ (~Restarted(p) /\ ~Restarted(x) => Ordered(p, x)) /\ OneRound(x)
    BY DEF FitInv, Fits
  <2>2. Silent(p, x)'
    BY <1>1, <2>1 DEF Silent, Restarted
  <2>3. ASSUME ~Restarted(p)', ~Restarted(x)' PROVE Ordered(p, x)'
    <3>1. PICK S \in Seq(Remote), Q \in Seq(Message), h \in Message \cup {None},
               I \in [Goroutines -> IceType] :
            S = Stored(p) /\ Q = inbox[p] /\ h = handling[p] /\ I = ice[x]
      BY StoredType
    <3>2. PICK P, J : P = inbox'[p] /\ J = ice'[x]
      OBVIOUS
    <3>3. ~Restarted(p) /\ ~Restarted(x)
      BY <1>1, <2>3 DEF Restarted
    <3>4. InOrder(S, h, Q, I, x)
      BY <2>1, <3>1, <3>3 DEF Ordered
    <3>5. \A u \in Goroutines : u # t => I[u].at # "send"
      BY <1>1, <2>1, <3>1, <3>3 DEF OneRound, Busy, Goroutines
    <3>6. I[t].at = "send" /\ r = I[t].rest
      BY <1>1, <3>1
    <3>7. \A u \in Goroutines : J[u].at = "send" => u = t /\ J[t].rest = Tail(r)
      BY <1>5, <1>6, <3>1, <3>2, <3>5
    <3>8. InOrder(S, h, P, J, x)
      <4>1. CASE P = Q
        BY <1>3, <3>4, <3>6, <3>7, <4>1, OrderSenders
      <4>2. CASE P = Append(Q, m)
        BY <1>3, <3>4, <3>6, <3>7, <4>2, OrderSent DEF m
      <4> QED  BY <1>7, <3>1, <3>2, <4>1, <4>2
    <3>9. Stored(p)' = S /\ handling'[p] = h
      BY <1>1, <1>8, <3>1 DEF Keeps
    <3> QED  BY <3>2, <3>8, <3>9 DEF Ordered
  <2> QED  BY <2>2, <2>3 DEF Fits
<1> QED  BY <1>8, <1>9, <1>10 DEF FitInv

LEMMA AddRemoteFits ==
  ASSUME IInv, FitInv, NEW x \in Apps, AddRemoteCandidate(x)
  PROVE  FitInv'
<1> USE DEF serverVars, connVars
<1> DEFINE a == Len(agents[x])
           old == agents[x][a]
           h == handling[x]
           new == Candidate(h.from, h.sock)
           d == [old EXCEPT !.remotes = Append(old.remotes, new)]
<1>1. /\ h # None /\ handling' = [handling EXCEPT ![x] = None]
      /\ ice[x]["pump"].at = "idle"
      /\ agents' = [agents EXCEPT ![x] = [agents[x] EXCEPT ![a] = d]]
      /\ UNCHANGED <<inbox, ice, bound>>
  BY DEF AddRemoteCandidate
<1>2. /\ handling \in [Apps -> Message \cup {None}] /\ agents \in [Apps -> Seq(AgentType)]
      /\ h \in Message /\ agents[x] \in Seq(AgentType) /\ agents[x] # <<>> /\ a \in Nat /\ a # 0
  BY <1>1, Types DEF IInv, Ready
<1>3. old \in AgentType /\ new.of = h.from
  BY <1>2 DEF Candidate
<1>4. d.local = old.local /\ d.remotes = Append(old.remotes, new)
  <2> HIDE DEF old, new
  <2> QED  BY <1>3 DEF AgentType
<1> HIDE DEF d, new
<1>5. /\ agents'[x] # <<>> /\ Len(agents'[x]) = Len(agents[x])
      /\ agents'[x][1].local = agents[x][1].local
      /\ Stored(x)' = IF Restarted(x) THEN Stored(x) ELSE Append(Stored(x), new)
  <2> DEFINE s == [agents[x] EXCEPT ![a] = d]
  <2>1. /\ s # <<>> /\ Len(s) = a /\ s[a] = d /\ (a # 1 => s[1] = agents[x][1])
    BY <1>2
  <2>2. agents'[x] = s
    BY <1>1, <1>2
  <2>3. Restarted(x) <=> a # 1
    <3>1. a \in Nat /\ a # 0 /\ (Restarted(x) <=> a > 1)
      BY <1>2 DEF Restarted
    <3> HIDE DEF a
    <3> QED  BY <3>1
  <2> HIDE DEF s
  <2> QED  BY <1>2, <1>4, <2>1, <2>2, <2>3 DEF Stored
<1>6. /\ handling'[x] = None
      /\ \A p \in Apps : p # x => UNCHANGED <<agents[p], handling[p]>>
  BY <1>1, <1>2
<1>7. ASSUME NEW p \in Apps PROVE (p # x => Keeps(p)) /\ Continues(p) /\ OneRound(p)'
  <2>1. CASE p # x
    BY <1>1, <1>6, <2>1, Alone
  <2>2. CASE p = x
    <3>1. OneRound(x) /\ Len(agents'[x]) = Len(agents[x])
      BY <1>5 DEF FitInv
    <3>2. OneRound(x)'
      BY <1>1, <1>2, <1>5, <3>1 DEF OneRound, Busy, Restarted
    <3>3. Continues(x)
      BY <1>1, <1>5 DEF Continues, Restarted
    <3> QED  BY <2>2, <3>2, <3>3
  <2> QED  BY <2>1, <2>2
<1>8. ASSUME NEW p \in Apps, NEW q \in Apps, p # x PROVE Fits(p, q)'
  BY <1>1, <1>6, <1>7, <1>8, MessagesFit
<1>9. ASSUME NEW q \in Apps PROVE Fits(x, q)'
  <2>1. PICK S \in Seq(Remote), Q \in Seq(Message), I \in [Goroutines -> IceType] :
          S = Stored(x) /\ Q = inbox[x] /\ I = ice[q]
    BY StoredType
  <2>2. Silent(x, q) /\ (~Restarted(x) /\ ~Restarted(q) => InOrder(S, h, Q, I, q))
    BY <2>1 DEF FitInv, Fits, Ordered
  <2>3. \A i \in DOMAIN Stored(x)' :
          \/ i \in DOMAIN S /\ Stored(x)'[i] = S[i]
          \/ Stored(x)'[i] = new
    <3>1. new \in Remote
      BY <1>2, <1>3 DEF new, Candidate, Message, Remote
    <3>2. \A i \in DOMAIN Append(S, new) : \/ i \in DOMAIN S /\ Append(S, new)[i] = S[i]
                                           \/ Append(S, new)[i] = new
      BY <3>1, AppendElements
    <3> QED  BY <1>5, <2>1, <3>2
  <2>4. Silent(x, q)'
    <3>1. SUFFICES ASSUME bound[q] = 0, ~Restarted(q)
                   PROVE  /\ \A t \in Goroutines : ice[q][t].at # "send"
                          /\ \A i \in DOMAIN Stored(x)' : Stored(x)'[i].of # q
                          /\ \A k \in DOMAIN inbox[x] : ~Of(inbox[x][k], q)
      BY <1>1, <1>6, <1>7 DEF Silent, Continues
    <3>2. (\A i \in DOMAIN S : S[i].of # q) /\ h.from # q
      BY <1>1, <2>1, <2>2, <3>1 DEF Silent
    <3> QED  BY <1>3, <2>2, <2>3, <3>1, <3>2 DEF Silent
  <2>5. ASSUME ~Restarted(x)', ~Restarted(q)' PROVE Ordered(x, q)'
    <3>1. ~Restarted(x) /\ ~Restarted(q)
      BY <1>5, <1>7, <2>5 DEF Continues, Restarted
    <3>2. InOrder(Append(S, new), None, Q, I, q)
      BY <1>1, <1>2, <2>2, <3>1, OrderStored DEF new
    <3> QED  BY <1>1, <1>5, <1>6, <2>1, <3>1, <3>2 DEF Ordered
  <2> QED  BY <2>4, <2>5 DEF Fits
<1> QED  BY <1>7, <1>8, <1>9 DEF FitInv

LEMMA GatherFits ==
  ASSUME IInv, FitInv, NEW x \in Apps, NEW t \in Goroutines, NEW n \in Nat, Gather(x, t, n)
  PROVE  FitInv'
<1> USE DEF serverVars, connVars
<1> DEFINE a == Len(agents[x])
           old == agents[x][a]
           local == Gathered(x, old.local, n)
           d == [old EXCEPT !.local = local]
           next == IF local = <<>> THEN Idle
                   ELSE [ice[x][t] EXCEPT !.at = "send", !.rest = local]
<1>1. /\ ice[x][t].at = "gather" /\ UNCHANGED <<inbox, handling>>
      /\ agents' = [agents EXCEPT ![x] = [agents[x] EXCEPT ![a] = d]]
      /\ bound' = [bound EXCEPT ![x] = bound[x] + n]
      /\ ice' = [ice EXCEPT ![x][t] = next]
  BY DEF Gather
<1>2. /\ agents \in [Apps -> Seq(AgentType)] /\ ice \in [Apps -> [Goroutines -> IceType]]
      /\ bound \in [Apps -> Nat] /\ agents[x] # <<>>
      /\ agents[x] \in Seq(AgentType) /\ a \in Nat /\ a # 0
  <2>1. /\ agents \in [Apps -> Seq(AgentType)] /\ ice \in [Apps -> [Goroutines -> IceType]]
        /\ bound \in [Apps -> Nat]
    BY Types DEF IInv, TypeOK
  <2>2. agents[x] # <<>>
    BY <1>1 DEF IInv, Ready, Busy
  <2> QED  BY <2>1, <2>2
<1>3. old \in AgentType /\ old.local \in Seq(Nat) /\ ice[x][t] \in IceType
  <2>1. old \in AgentType /\ ice[x][t] \in IceType
    BY <1>2
  <2> HIDE DEF old
  <2> QED  BY <2>1 DEF AgentType
<1> HIDE DEF local, old
<1>4. d.local = local /\ d.remotes = old.remotes
  BY <1>3 DEF AgentType
<1>5. /\ next.at \in {"idle", "send"}
      /\ next.at = "send" => next.rest = local /\ local # <<>>
  BY <1>3 DEF Idle, IceType
<1> HIDE DEF d, next
<1>6. /\ agents'[x] # <<>> /\ Len(agents'[x]) = a
      /\ Stored(x)' = Stored(x)
      /\ a = 1 => agents'[x][1].local = local
  <2> DEFINE s == [agents[x] EXCEPT ![a] = d]
  <2>1. s # <<>> /\ Len(s) = a /\ s[a] = d /\ (a # 1 => s[1] = agents[x][1])
    BY <1>2
  <2>2. agents'[x] = s
    BY <1>1, <1>2
  <2> HIDE DEF s
  <2>3. agents'[x][1].remotes = agents[x][1].remotes
    BY <1>4, <2>1, <2>2 DEF old
  <2> QED  BY <1>2, <1>4, <2>1, <2>2, <2>3 DEF Stored
<1>7. /\ ice'[x][t] = next /\ \A u \in Goroutines : u # t => ice'[x][u] = ice[x][u]
      /\ \A q \in Apps : q # x => UNCHANGED <<agents[q], ice[q], bound[q]>>
      /\ bound'[x] = bound[x] + n
  BY <1>1, <1>2
<1>8. /\ Restarted(x)' <=> Restarted(x)
      /\ ~Restarted(x) => a = 1
  BY <1>2, <1>6, OneAgent DEF Restarted
<1>9. ASSUME NEW p \in Apps PROVE Keeps(p) /\ (p # x => Continues(p) /\ OneRound(p)')
  <2>1. CASE p # x
    BY <1>7, <2>1, Alone
  <2>2. CASE p = x
    BY <1>6, <1>8, <2>2 DEF Keeps
  <2> QED  BY <2>1, <2>2
<1>10. ASSUME ~Restarted(x)
       PROVE  /\ bound[x] = 0 /\ bound'[x] = n
              /\ local = IF n = 0 THEN <<>> ELSE [i \in 1..n |-> i]
              /\ \A u \in Goroutines : u # t => ~Busy(x, u)
  <2>1. OneRound(x)
    BY DEF FitInv
  <2>2. bound[x] = 0
    BY <1>1, <1>10, <2>1 DEF OneRound
  <2>3. old.local = <<>>
    BY <1>2, <1>8, <1>10, <2>1, <2>2 DEF OneRound, old
  <2>4. local = <<>> \o [i \in 1..n |-> 0 + i]
    BY <2>2, <2>3 DEF local, Gathered
  <2>5. <<>> \o [i \in 1..n |-> 0 + i] = [i \in 1..n |-> i]
    <3>1. [i \in 1..n |-> 0 + i] = [i \in 1..n |-> i]
      OBVIOUS
    <3>2. [i \in 1..n |-> i] \in Seq(Nat)
      OBVIOUS
    <3>3. \A u \in Seq(Nat) : <<>> \o u = u
      OBVIOUS
    <3> QED  BY <3>1, <3>2, <3>3
  <2>6. ASSUME n = 0 PROVE local = <<>>
    <3>1. [i \in 1..n |-> i] \in Seq(Nat) /\ Len([i \in 1..n |-> i]) = 0
      BY <2>6
    <3>2. \A u \in Seq(Nat) : Len(u) = 0 => u = <<>>
      OBVIOUS
    <3> QED  BY <2>4, <2>5, <3>1, <3>2
  <2>7. ASSUME NEW u \in Goroutines, u # t PROVE ~Busy(x, u)
    BY <1>1, <1>10, <2>1, <2>7 DEF OneRound, Busy, Goroutines
  <2> QED  BY <1>7, <2>2, <2>4, <2>5, <2>6, <2>7
<1>11. OneRound(x)'
  <2>1. ASSUME ~Restarted(x)'
        PROVE  /\ agents'[x][1].local = IF bound'[x] = 0 THEN <<>> ELSE [i \in 1..bound'[x] |-> i]
               /\ \A u \in Goroutines : ice'[x][u].at # "gather"
               /\ ~(Busy(x, "main")' /\ Busy(x, "pump")')
    <3>1. /\ agents'[x][1].local = local /\ bound'[x] = n
          /\ local = IF n = 0 THEN <<>> ELSE [i \in 1..n |-> i]
      BY <1>6, <1>8, <1>10, <2>1
    <3>2. \A u \in Goroutines : u # t => ~(ice'[x][u].at \in {"gather", "send"})
      BY <1>7, <1>8, <1>10, <2>1 DEF Busy
    <3> QED  BY <1>5, <1>7, <3>1, <3>2 DEF Busy, Goroutines
  <2> QED  BY <1>6, <2>1 DEF OneRound
<1>12. ASSUME NEW p \in Apps, NEW q \in Apps, q # x PROVE Fits(p, q)'
  BY <1>1, <1>9, <1>12, MessagesFit
<1>13. ASSUME NEW p \in Apps, ~Restarted(x)' PROVE Silent(p, x)' /\ Ordered(p, x)'
  <2>1. PICK S, Q, h, J : S = Stored(p) /\ Q = inbox[p] /\ h = handling[p] /\ J = ice'[x]
    OBVIOUS
  <2>2. /\ \A i \in DOMAIN S : S[i].of # x
        /\ h # None => h.from # x
        /\ \A k \in DOMAIN Q : ~Of(Q[k], x)
    BY <1>8, <1>10, <1>13, <2>1 DEF FitInv, Fits, Silent
  <2>3. \A u \in Goroutines : J[u].at = "send" =>
          u = t /\ n # 0 /\ J[u].rest = [i \in 1..n |-> i]
    BY <1>5, <1>7, <1>8, <1>10, <1>13, <2>1 DEF Busy
  <2>4. InOrder(S, h, Q, J, x)
    BY <2>2, <2>3, OrderFresh
  <2>5. bound'[x] = n
    BY <1>8, <1>10, <1>13
  <2>6. Stored(p)' = S /\ inbox'[p] = Q /\ handling'[p] = h
    BY <1>1, <1>9, <2>1 DEF Keeps
  <2>7. Silent(p, x)'
    BY <2>1, <2>2, <2>3, <2>5, <2>6 DEF Silent
  <2> QED  BY <2>1, <2>4, <2>6, <2>7 DEF Ordered
<1>14. ASSUME NEW p \in Apps PROVE Fits(p, x)'
  BY <1>13 DEF Fits, Silent
<1> QED  BY <1>9, <1>11, <1>12, <1>14 DEF FitInv

LEMMA NextFitInv == IInv /\ FitInv /\ [Next]_vars => FitInv'
<1> SUFFICES ASSUME IInv, FitInv, [Next]_vars PROVE FitInv'
  OBVIOUS
<1>1. CASE UNCHANGED vars
  <2>1. UNCHANGED <<agents, ice, bound, handling, inbox>>
    BY <1>1 DEF vars
  <2>2. ASSUME NEW p \in Apps PROVE Keeps(p) /\ Continues(p) /\ OneRound(p)'
    BY <2>1, Alone
  <2>3. ASSUME NEW p \in Apps, NEW q \in Apps PROVE Fits(p, q)'
    BY <2>1, <2>2, MessagesFit
  <2> QED  BY <2>2, <2>3 DEF FitInv
<1>2. CASE Next
  <2> PICK x \in Apps : \/ Join(x) \/ Quit(x) \/ \E q \in Apps : Command(x, q)
                        \/ Main(x) \/ Pump(x) \/ Connector(x)
    BY <1>2 DEF Next
  <2>1. CASE \/ Join(x) \/ OnSignal(x) \/ OnPeerEvent(x) \/ Connector(x)
             \/ StartShell(x) \/ (\E q \in Apps : Command(x, q)) \/ ReadJoined(x)
             \/ AutoStart(x)
    BY <2>1, StartsFit
  <2>2. CASE AddRemoteCandidate(x)
    BY <2>2, AddRemoteFits
  <2>3. ASSUME NEW t \in Goroutines, StartICE(x, t) PROVE FitInv'
    BY <2>3, FreeAssumption, SendFits, GatherFits DEF StartICE
  <2>4. CASE ReadCandidate(x) \/ Quit(x)
    BY <2>4, ReadsFit
  <2> QED  BY <2>1, <2>2, <2>3, <2>4 DEF Main, Pump, Goroutines
<1> QED  BY <1>1, <1>2

\* A connection of an application that has started ICE once.
LEMMA FirstConnection ==
  ASSUME IInv, FitInv, NEW p \in Apps, iceConn[p] # 0, ~Restarted(p)
  PROVE  /\ FirstOf(Conn(p), agents[p][1]) /\ Conn(p) \in MadeType /\ agents[p] # <<>>
         /\ 1 \in DOMAIN agents[p][1].local /\ agents[p][1].local[1] = 1
<1>1. made[p] \in Seq(MadeType) /\ agents[p] \in Seq(AgentType) /\ iceConn[p] \in 0..Len(made[p])
  BY Types DEF IInv, TypeOK
<1>2. iceConn[p] \in DOMAIN made[p] /\ Conn(p) \in MadeType
  BY <1>1 DEF Conn
<1>3. Conn(p).agent \in DOMAIN agents[p] /\ FirstOf(Conn(p), agents[p][Conn(p).agent])
  BY <1>2 DEF IInv, UsesFirst, Conn
<1>4. Conn(p).agent = 1 /\ agents[p] # <<>>
  BY <1>1, <1>3 DEF Restarted
<1>5. agents[p][1].local # <<>>
  BY <1>3, <1>4 DEF FirstOf
<1>6. bound[p] # 0 /\ agents[p][1].local = [i \in 1..bound[p] |-> i]
  BY <1>4, <1>5 DEF FitInv, OneRound
<1>7. 1 \in 1..bound[p]
  BY <1>6 DEF IInv, TypeOK
<1> QED  BY <1>2, <1>3, <1>4, <1>6, <1>7

\* What p connects to is the first candidate of q.
LEMMA ConnectsToFirst ==
  ASSUME IInv, FitInv, NEW p \in Apps, NEW q \in Apps,
         TalksTo(p, q), ~Restarted(p), KnowsAll(p, q), iceConn[q] # 0, ~Restarted(q)
  PROVE  Conn(p).remote = Candidate(q, Conn(q).sock)
<1>1. PICK S \in Seq(Remote) : S = Stored(p)
  BY StoredType
<1>2. /\ S = agents[p][1].remotes /\ S # <<>> /\ S[1] = Conn(p).remote /\ S[1].of = q
  BY <1>1, FirstConnection DEF Stored, FirstOf, TalksTo
<1>3. Conn(q).sock = 1
  BY FirstConnection DEF FirstOf
<1>4. PICK j \in DOMAIN S : S[j] = Candidate(q, 1)
  BY <1>2, FirstConnection DEF KnowsAll
<1>5. S[j].of = q /\ S[j].sock = 1
  BY <1>4 DEF Candidate
<1>6. StoredInOrder(S, q)
  BY <1>1 DEF FitInv, Fits, Ordered, InOrder
<1>7. 1 \in DOMAIN S /\ S[1] \in Remote /\ j \in Nat /\ j >= 1
  BY <1>2, TailElements
<1>8. 0 < S[1].sock /\ S[1].sock \in Nat
  BY <1>2, <1>6, <1>7 DEF StoredInOrder, Remote
<1>9. j = 1
  <2> SUFFICES ASSUME j # 1 PROVE FALSE
    OBVIOUS
  <2>1. 1 \in 1..(j - 1)
    BY <1>7
  <2>2. S[1].sock < S[j].sock
    BY <1>2, <1>5, <1>6, <2>1 DEF StoredInOrder
  <2> QED  BY <1>5, <1>8, <2>2
<1> QED  BY <1>2, <1>3, <1>4, <1>9

\* Two applications that talk to each other without a restart, and have lost no
\* candidate, use sockets that fit each other.
THEOREM FirstPairsAgree == Spec => []FirstPairsFit
<1>1. IInv /\ FitInv => FirstPairsFit
  BY ConnectsToFirst DEF FirstPairsFit, Paired, TalksTo
<1> QED  BY Invariance, InitFitInv, NextFitInv, <1>1, PTL DEF Spec
=============================================================================
