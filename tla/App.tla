-------------------------------- MODULE App --------------------------------
(***************************************************************************)
(* The client application (cmd/client/main.go): several of them, which     *)
(* find each other through the signalling server and exchange the          *)
(* candidates of their ICE agents to talk over UDP.                        *)
(*                                                                         *)
(* An application has three kinds of goroutines that share app.iceAgent    *)
(* and app.iceConn without a lock: main, which ends in the interactive     *)
(* shell, the read pump of the client, on which the handlers run, and one  *)
(* goroutine for every candidate received, which connects half a second    *)
(* later.  A statement that loads one of the two fields and calls a method *)
(* of what it points to is one step.                                       *)
(*                                                                         *)
(* The server is the FIFO inbox of each application.  The hub and each     *)
(* read pump of the server are sequential, so what an application is sent  *)
(* arrives in an order that respects causality (Hub!SignalsInOrder), and   *)
(* no channel is taken to overflow.  Only agents, sockets and connections  *)
(* are kept of module Agent: nothing in the application closes one.  The   *)
(* ports of the range are shared with every process of the machine, so how *)
(* many of the local IP addresses still have one is left open.             *)
(***************************************************************************)
EXTENDS Naturals, Sequences, FiniteSets

CONSTANTS
  None,
  Apps,         \* applications, and the IDs the server gives them
  UseICE,       \* those started with -ice
  Free,         \* how many local IP addresses may have a free port when ICE starts
  MaxSockets,   \* bound: sockets of an application; with 0 in Free it stops nobody
  MaxCommands   \* bound: /ice commands

ASSUME NoneAssumption == None \notin Apps
ASSUME UseICEAssumption == UseICE \subseteq Apps
ASSUME FreeAssumption == Free \subseteq Nat

VARIABLES
  main,         \* main[p]: where the main goroutine is
  listed,       \* listed[p]: the peers that were there when p joined
  inbox,        \* inbox[p]: messages on their way to p
  handling,     \* handling[p]: the candidate that the signal handler deals with
  ice,          \* ice[p][t]: where goroutine t is in startICE
  agents,       \* agents[p]: every agent p has made, the last is app.iceAgent
  bound,        \* bound[p]: number of sockets p has bound
  timers,       \* timers[p]: number of goroutines that sleep before connecting
  connecting,   \* connecting[p]: number of those that found app.iceConn nil
  made,         \* made[p]: every connection p has made
  storing,      \* storing[p]: those not yet stored in app.iceConn
  iceConn,      \* iceConn[p]: the index of app.iceConn in made[p], or 0
  commands      \* number of /ice commands

serverVars == <<main, listed>>
connVars == <<connecting, made, storing, iceConn>>
vars == <<serverVars, inbox, handling, ice, agents, bound, timers, connVars, commands>>

Goroutines == {"main", "pump"}
Idle == [at |-> "idle", to |-> None, rest |-> <<>>]

Init ==
  /\ main = [p \in Apps |-> "offline"]
  /\ listed = [p \in Apps |-> {}]
  /\ inbox = [p \in Apps |-> <<>>]
  /\ handling = [p \in Apps |-> None]
  /\ ice = [p \in Apps |-> [t \in Goroutines |-> Idle]]
  /\ agents = [p \in Apps |-> <<>>]
  /\ bound = [p \in Apps |-> 0]
  /\ timers = [p \in Apps |-> 0] /\ connecting = [p \in Apps |-> 0]
  /\ made = [p \in Apps |-> <<>>] /\ storing = [p \in Apps |-> {}]
  /\ iceConn = [p \in Apps |-> 0]
  /\ commands = 0

Online == {p \in Apps : main[p] \notin {"offline", "gone"}}
HandlesSignals(p) == main[p] \in {"onPeerEvent", "flags", "shell"}
HandlesEvents(p) == main[p] \in {"flags", "shell"}

\* A socket of p is the number under which p bound it.
Candidate(p, sock) == [of |-> p, sock |-> sock]

Joined(p) == [type |-> "joined", from |-> p, sock |-> 0]
Signal(p, sock) == [type |-> "signal", from |-> p, sock |-> sock]

-----------------------------------------------------------------------------
(* main: it connects, sleeps for 500 ms and then installs its handlers.    *)

Join(p) ==
  /\ main[p] = "offline"
  /\ main' = [main EXCEPT ![p] = "sleep"]
  /\ listed' = [listed EXCEPT ![p] = Online]
  /\ inbox' = [q \in Apps |-> IF q \in Online THEN Append(inbox[q], Joined(p)) ELSE inbox[q]]
  /\ UNCHANGED <<handling, ice, agents, bound, timers, connVars, commands>>

Goto(p, from, to) == main[p] = from /\ main' = [main EXCEPT ![p] = to]

OnSignal(p) ==
  /\ Goto(p, "sleep", "onPeerEvent")
  /\ UNCHANGED <<listed, inbox, handling, ice, agents, bound, timers, connVars, commands>>

OnPeerEvent(p) ==
  /\ Goto(p, "onPeerEvent", "flags")
  /\ UNCHANGED <<listed, inbox, handling, ice, agents, bound, timers, connVars, commands>>

\* startICE, on goroutine t: the new agent replaces the old one, which is neither
\* closed nor waited for.
Start(p, t, to) ==
  /\ agents' = [agents EXCEPT ![p] = Append(@, [local |-> <<>>, remotes |-> <<>>])]
  /\ ice' = [ice EXCEPT ![p][t] = [at |-> "gather", to |-> to, rest |-> <<>>]]

\* With -ice and -peer the application begins with startICE, for a peer that was
\* running before.
StartShell(p) ==
  /\ Goto(p, "flags", "shell")
  /\ \/ UNCHANGED <<agents, ice>>
     \/ p \in UseICE /\ \E q \in listed[p] : Start(p, "main", q)
  /\ UNCHANGED <<listed, inbox, handling, bound, timers, connVars, commands>>

\* The shell reads its next command when the last has been carried out.
InShell(p) == main[p] = "shell" /\ ice[p]["main"].at = "idle"

Command(p, q) ==
  /\ InShell(p)
  /\ q # p /\ main[q] # "offline"
  /\ commands < MaxCommands
  /\ commands' = commands + 1
  /\ Start(p, "main", q)
  /\ UNCHANGED <<serverVars, inbox, handling, bound, timers, connVars>>

\* The process ends, by /quit or killed anywhere, and with it all that was under way.
Quit(p) ==
  /\ p \in Online
  /\ main' = [main EXCEPT ![p] = "gone"]
  /\ inbox' = [inbox EXCEPT ![p] = <<>>]
  /\ handling' = [handling EXCEPT ![p] = None]
  /\ ice' = [ice EXCEPT ![p] = [t \in Goroutines |-> Idle]]
  /\ timers' = [timers EXCEPT ![p] = 0] /\ connecting' = [connecting EXCEPT ![p] = 0]
  /\ storing' = [storing EXCEPT ![p] = {}]
  /\ UNCHANGED <<listed, agents, bound, made, iceConn, commands>>

-----------------------------------------------------------------------------
(* The rest of startICE, on main or on the pump.                           *)

\* Gather of the agent adds one socket for each IP that has a free port; the IPs whose
\* ports this process or any other holds are skipped.
Gathered(p, local, n) == local \o [i \in 1..n |-> bound[p] + i]

\* app.iceAgent is loaded again and may be the agent of another goroutine.  It is
\* an error to have no candidates, but not to get no new ones.
Gather(p, t, n) ==
  LET a == Len(agents[p])
      local == Gathered(p, agents[p][a].local, n)
  IN  /\ ice[p][t].at = "gather"
      /\ agents' = [agents EXCEPT ![p][a].local = local]
      /\ bound' = [bound EXCEPT ![p] = @ + n]
      /\ ice' = [ice EXCEPT ![p][t] =
                   IF local = <<>> THEN Idle ELSE [@ EXCEPT !.at = "send", !.rest = local]]
      /\ UNCHANGED <<serverVars, inbox, handling, timers, connVars, commands>>

\* The server answers a signal to a peer that is gone with an error.
SendCandidate(p, t) ==
  LET to == ice[p][t].to
      rest == ice[p][t].rest
  IN  /\ ice[p][t].at = "send"
      /\ inbox' = IF to \in Online
                    THEN [inbox EXCEPT ![to] = Append(@, Signal(p, Head(rest)))]
                    ELSE inbox
      /\ ice' = [ice EXCEPT ![p][t] =
                   IF Len(rest) = 1 THEN Idle ELSE [@ EXCEPT !.rest = Tail(rest)]]
      /\ UNCHANGED <<serverVars, handling, agents, bound, timers, connVars, commands>>

StartICE(p, t) ==
  (\E n \in Free : bound[p] + n <= MaxSockets /\ Gather(p, t, n)) \/ SendCandidate(p, t)

-----------------------------------------------------------------------------
(* The read pump.                                                          *)

Read(p, type) ==
  /\ p \in Online
  /\ ice[p]["pump"].at = "idle" /\ handling[p] = None
  /\ inbox[p] # <<>> /\ Head(inbox[p]).type = type
  /\ inbox' = [inbox EXCEPT ![p] = Tail(@)]

ReadJoined(p) ==
  /\ Read(p, "joined")
  /\ IF HandlesEvents(p) /\ p \in UseICE
       THEN Start(p, "pump", Head(inbox[p]).from)
       ELSE UNCHANGED <<agents, ice>>
  /\ UNCHANGED <<serverVars, handling, bound, timers, connVars, commands>>

\* Mutant: a candidate from a peer is ignored unless ICE was started for it.
ReadCandidate_NoAutoStart(p) ==
  /\ Read(p, "signal")
  /\ handling' = [handling EXCEPT ![p] =
       IF HandlesSignals(p) /\ agents[p] # <<>> THEN Head(inbox[p]) ELSE None]
  /\ UNCHANGED <<serverVars, ice, agents, bound, timers, connVars, commands>>

\* handleSignal, and handleRemoteICECandidate up to its look at app.iceAgent.  Before
\* the handler is installed a candidate is lost.
ReadCandidate(p) ==
  /\ Read(p, "signal")
  /\ handling' = [handling EXCEPT ![p] = IF HandlesSignals(p) THEN Head(inbox[p]) ELSE None]
  /\ ice' = [ice EXCEPT ![p]["pump"] =
       IF HandlesSignals(p) /\ agents[p] = <<>>
         THEN [at |-> "start", to |-> Head(inbox[p]).from, rest |-> <<>>] ELSE @]
  /\ UNCHANGED <<serverVars, agents, bound, timers, connVars, commands>>

\* Mutant: the half second runs from before the candidates are gathered.
AutoStart_TimerFirst(p) ==
  /\ p \in Online
  /\ ice[p]["pump"].at = "start"
  /\ Start(p, "pump", ice[p]["pump"].to)
  /\ timers' = [timers EXCEPT ![p] = @ + 1]
  /\ UNCHANGED <<serverVars, inbox, handling, bound, connVars, commands>>

\* app.iceAgent was nil.  By now main may have started ICE itself.
AutoStart(p) ==
  /\ p \in Online
  /\ ice[p]["pump"].at = "start"
  /\ Start(p, "pump", ice[p]["pump"].to)
  /\ UNCHANGED <<serverVars, inbox, handling, bound, timers, connVars, commands>>

\* Mutant: the newest candidate is tried first.
AddRemoteCandidate_First(p) ==
  /\ p \in Online
  /\ handling[p] # None /\ ice[p]["pump"].at = "idle"
  /\ agents' = [agents EXCEPT ![p][Len(agents[p])].remotes =
                  <<Candidate(handling[p].from, handling[p].sock)>> \o @]
  /\ timers' = [timers EXCEPT ![p] = @ + 1]
  /\ handling' = [handling EXCEPT ![p] = None]
  /\ UNCHANGED <<serverVars, inbox, ice, bound, connVars, commands>>

\* The rest of handleRemoteICECandidate.
AddRemoteCandidate(p) ==
  /\ p \in Online
  /\ handling[p] # None /\ ice[p]["pump"].at = "idle"
  /\ agents' = [agents EXCEPT ![p][Len(agents[p])].remotes =
                  Append(@, Candidate(handling[p].from, handling[p].sock))]
  /\ timers' = [timers EXCEPT ![p] = @ + 1]
  /\ handling' = [handling EXCEPT ![p] = None]
  /\ UNCHANGED <<serverVars, inbox, ice, bound, connVars, commands>>

-----------------------------------------------------------------------------
(* The goroutines that connect.                                            *)

TimerChecks(p) ==
  /\ p \in Online
  /\ timers[p] > 0
  /\ timers' = [timers EXCEPT ![p] = @ - 1]
  /\ connecting' = [connecting EXCEPT ![p] = IF iceConn[p] = 0 THEN @ + 1 ELSE @]
  /\ UNCHANGED <<serverVars, inbox, handling, ice, agents, bound, made, storing, iceConn,
                 commands>>

\* Mutant: what Connect returned with an error is stored as well.
Connect_IgnoresError(p) ==
  LET a == Len(agents[p])
      agent == agents[p][a]
  IN  /\ p \in Online
      /\ connecting[p] > 0
      /\ connecting' = [connecting EXCEPT ![p] = @ - 1]
      /\ made' = [made EXCEPT ![p] =
           IF agent.local = <<>> \/ agent.remotes = <<>> THEN @
             ELSE Append(@, [agent |-> a, sock |-> agent.local[1], remote |-> agent.remotes[1]])]
      /\ storing' = [storing EXCEPT ![p] = @ \cup {Len(made[p]) + 1}]
      /\ UNCHANGED <<serverVars, inbox, handling, ice, agents, bound, timers, iceConn,
                     commands>>

\* Connect of the agent: the first local and the first remote candidate.
Connect(p) ==
  LET a == Len(agents[p])
      agent == agents[p][a]
  IN  /\ p \in Online
      /\ connecting[p] > 0
      /\ connecting' = [connecting EXCEPT ![p] = @ - 1]
      /\ IF agent.local = <<>> \/ agent.remotes = <<>>
           THEN UNCHANGED <<made, storing>>
           ELSE /\ made' = [made EXCEPT ![p] =
                     Append(@, [agent |-> a, sock |-> agent.local[1],
                                remote |-> agent.remotes[1]])]
                /\ storing' = [storing EXCEPT ![p] = @ \cup {Len(made'[p])}]
      /\ UNCHANGED <<serverVars, inbox, handling, ice, agents, bound, timers, iceConn,
                     commands>>

Store(p) ==
  /\ p \in Online
  /\ \E k \in storing[p] :
       /\ iceConn' = [iceConn EXCEPT ![p] = k]
       /\ storing' = [storing EXCEPT ![p] = @ \ {k}]
  /\ UNCHANGED <<serverVars, inbox, handling, ice, agents, bound, timers, connecting, made,
                 commands>>

-----------------------------------------------------------------------------
(* The specification.                                                      *)

Main(p) ==
  \/ OnSignal(p) \/ OnPeerEvent(p) \/ StartShell(p)
  \/ main[p] = "shell" /\ StartICE(p, "main")

Pump(p) ==
  \/ ReadJoined(p) \/ ReadCandidate(p) \/ AutoStart(p) \/ AddRemoteCandidate(p)
  \/ p \in Online /\ StartICE(p, "pump")

Connector(p) == TimerChecks(p) \/ Connect(p) \/ Store(p)

Next ==
  \E p \in Apps :
    \/ Join(p) \/ Quit(p) \/ \E q \in Apps : Command(p, q)
    \/ Main(p) \/ Pump(p) \/ Connector(p)

Spec == Init /\ [][Next]_vars

(***************************************************************************)
(* The goroutines of an application run, and the server delivers.  Nobody  *)
(* has to start, to quit or to type a command.                             *)
(***************************************************************************)
Fairness == \A p \in Apps : WF_vars(Main(p)) /\ WF_vars(Pump(p)) /\ WF_vars(Connector(p))

FairSpec == Spec /\ Fairness

-----------------------------------------------------------------------------
(* Properties.                                                             *)

\* The type of every variable.
TypeOK ==
  LET Message == [type : {"joined", "signal"}, from : Apps, sock : Nat]
      Remote == [of : Apps, sock : Nat]
  IN  /\ main \in [Apps -> {"offline", "sleep", "onPeerEvent", "flags", "shell", "gone"}]
      /\ listed \in [Apps -> SUBSET Apps]
      /\ inbox \in [Apps -> Seq(Message)]
      /\ handling \in [Apps -> Message \cup {None}]
      /\ ice \in [Apps -> [Goroutines -> [at : {"idle", "start", "gather", "send"},
                                          to : Apps \cup {None}, rest : Seq(Nat)]]]
      /\ agents \in [Apps -> Seq([local : Seq(Nat), remotes : Seq(Remote)])]
      /\ bound \in [Apps -> Nat]
      /\ timers \in [Apps -> Nat] /\ connecting \in [Apps -> Nat]
      /\ made \in [Apps -> Seq([agent : Nat, sock : Nat, remote : Remote])]
      /\ \A p \in Apps : storing[p] \subseteq 1..Len(made[p]) /\ iceConn[p] \in 0..Len(made[p])
      /\ commands \in Nat

\* Two goroutines may both find app.iceConn nil and connect.  That is harmless as
\* long as no restart came between them: what they make is the same connection,
\* over the same socket to the same address.
DuplicatesShareSocket ==
  \A p \in Apps : \A j, k \in DOMAIN made[p] :
    made[p][j].agent = made[p][k].agent =>
      made[p][j].sock = made[p][k].sock /\ made[p][j].remote = made[p][k].remote

Conn(p) == made[p][iceConn[p]]
TalksTo(p, q) == iceConn[p] # 0 /\ Conn(p).remote.of = q

\* Each sends to the socket that the other reads, and from the address that the
\* other accepts.
Paired(p, q) ==
  /\ iceConn[p] # 0 /\ iceConn[q] # 0
  /\ Conn(p).remote = Candidate(q, Conn(q).sock)
  /\ Conn(q).remote = Candidate(p, Conn(p).sock)

Restarted(p) == Len(agents[p]) > 1

\* p has been sent every candidate of q's first agent and has lost none.
KnowsAll(p, q) ==
  \A i \in DOMAIN agents[q][1].local :
    \E j \in DOMAIN agents[p][1].remotes :
      agents[p][1].remotes[j] = Candidate(q, agents[q][1].local[i])

\* Without connectivity checks, both sides choose the first pair of candidates.
\* The choices fit each other, provided neither has restarted ICE or lost a
\* candidate because its handler was not installed yet.
FirstPairsFit ==
  \A p, q \in Apps :
    /\ TalksTo(p, q) /\ ~Restarted(p) /\ KnowsAll(p, q)
    /\ TalksTo(q, p) /\ ~Restarted(q) /\ KnowsAll(q, p)
    => Paired(p, q)

\* The first agent of p has looked for ports and found none.
NoPort(p) ==
  /\ agents[p] # <<>> /\ agents[p][1].local = <<>>
  /\ \A t \in Goroutines : ice[p][t].at # "gather"

\* Half a second after a candidate a goroutine connects, and nothing tries again.  It
\* finds the candidate and never overtakes the gathering of the read pump that started
\* it: what it tries comes to nothing only if ICE was started again, if main is still
\* gathering, or if there was no port.
GivesUpOnlyWithoutPorts ==
  [][\A p \in Apps :
       connecting'[p] < connecting[p] /\ made'[p] = made[p] /\ main'[p] # "gone" =>
         Restarted(p) \/ ice[p]["main"].at = "gather" \/ NoPort(p)]_vars

\* "/ice <peer_id>" connects both ways once the candidates are gathered, although
\* only one of the two was told to: if it is the first use of ICE of both and both
\* handle signals, they get connected, unless one of them starts ICE again or
\* ends, or the peer finds no free port.  If the peer is told to start as well, its half
\* second can be over before it has gathered, and nothing tries again.
IceConnects ==
  \A p, q \in Apps :
    /\ p # q /\ ~Restarted(p)
    /\ ice[p]["main"].at = "send" /\ ice[p]["main"].to = q
    /\ ice[p]["main"].rest = agents[p][1].local
    /\ HandlesSignals(q) /\ agents[q] = <<>>
    ~> \/ Paired(p, q)
       \/ ice[q]["main"].at # "idle" \/ NoPort(q)
       \/ \E r \in {p, q} : Restarted(r) \/ main[r] = "gone"

\* What the flag -ice promises ("Enable ICE for direct UDP connection"): two
\* applications that were started with it get connected.
FlagConnects ==
  \A p, q \in UseICE :
    p # q /\ main[p] = "shell" /\ main[q] = "shell"
    ~> Paired(p, q) \/ \E r \in {p, q} : main[r] = "gone"
=============================================================================
