# A TLA+ specification of p-and-pp

p-and-pp is a WebSocket signalling server and a client library for peers that
want to talk to each other directly, with an application that does so. This
directory specifies its concurrent core in TLA+, checks it with TLC and proves
with TLAPS the safety properties of the hub, the server, the client library, a
client behind the hub, the ICE agent and the application.

## The system

| Component | Source | State | Operations | Hard behaviour |
|---|---|---|---|---|
| Signalling hub | `internal/signaling/hub.go`, `message.go` | map of peers, one bounded channel `Send` per peer | `handleRegister`, `handleUnregister`, `handleBroadcast`, run one at a time by `Run` | blocking sends from the only goroutine, dropped messages, closed channels |
| Signalling server | `cmd/server/main.go` | per connection: the HTTP handler, two pumps, `done`, the socket | accept, register, read, forward, write, ping, unregister, close | three goroutines per connection against the hub, failing reads and writes |
| Client library | `pkg/p2p/client.go`, `pkg/p2p/transport/websocket.go` | peer map, ID, handlers, context, socket, three locks | `Close`, `Send*`, `Peers`, `OnSignal`, `OnPeerEvent`, the read pump, the ping pump | handlers that run on the read pump and under a lock, `Close` against everything |
| ICE | `pkg/p2p/ice/gatherer.go`, `connection.go` | candidates, UDP listeners, the connection and its receive loop | `Gather`, `AddRemoteCandidate`, `Connect`, `Send`, `Receive`, `Close` | parallel lists that lose step, deadlines shared by two readers, captured handlers |
| Client application | `cmd/client/main.go` | the agent and the connection it uses | handlers, `startICE`, the delayed connect, the shell | fields shared by three kinds of goroutines without a lock, handlers installed late, restarts, check-then-act, ports that may be missing and are never released |
| Signals | `pkg/p2p/sdp/sdp.go` | none | conversion to and from JSON | none |

Clients are told of each other through the hub: a read pump of the server hands
what its client wrote to the hub over an unbuffered channel, the hub puts it in
the `Send` channels of its addressees, their write pumps put it on the sockets,
and the read pump of each client applies it to the peer map and calls the
application's handlers. Applications exchange the candidates of their ICE agents
as such signals, and then talk over UDP without the server.

What makes the components correct:

- the hub never uses a closed channel, never stops, gives every newcomer its ID
  and then the list of the others, keeps each client's roster exact up to what a
  full channel made it drop, never announces a peer after it left, and routes
  signals to their addressees in order;
- the server unregisters every connection once and announces it, writes what is
  queued, and lets go of sockets and goroutines;
- the client's peer map follows the messages, and so trails the hub's by what is on
  its way or was dropped and by nothing else; its calls return, its handlers
  stop when it is closed, and its socket has one writer at a time;
- the agent pairs each candidate with the socket it describes, and a closed
  connection calls nobody;
- applications that know each other's candidates choose pairs of them that fit,
  and a start of ICE leads to a connection of both sides.

## Modules

| Module | What it is | Source |
|---|---|---|
| `Messages` | the vocabulary of messages, and what a sequence of them makes a client believe (`Believes`) | `message.go`, `websocket.go`, `client.go` |
| `Roster` | abstract: a directory in which peers join and leave in single steps | none, it is what the hub promises |
| `Hub` | the hub in the most general server, one action per handler and per blocking send | `hub.go` |
| `Server` | the connections around the hub; its hub variables are an instance of `Hub` | `cmd/server/main.go` |
| `Client` | the client library | `client.go`, `websocket.go` |
| `Signaling` | the hub and one of its clients: `Hub` and `Client` side by side, joined by the client's channel | `writePump` of `cmd/server/main.go`, `readPump` of `websocket.go` |
| `Agent` | the ICE agent of one side, its gatherer and its connections | `gatherer.go`, `connection.go` |
| `App` | several applications that connect to each other through the server | `cmd/client/main.go`, and of `gatherer.go` what a `Gather` may bind |
| `MessageProofs` | lemmas about messages, prefixes and beliefs | |
| `HubProofs`, `ChannelProofs` | proofs about `Hub`: its invariant and the handshake; what channels carry, the roster and the refinement of `Roster` | |
| `ServerProofs`, `ClientProofs`, `SignalingProofs`, `AgentProofs`, `AppProofs` | proofs about the module of that name | |
| `MCHub`, `MCServer`, `MCClient`, `MCSignaling`, `MCAgent`, `MCApp` | instances for TLC | |

**Hub.** `hubPC` and `hubArg` are the position of the goroutine `Run`: in its select
loop, or in a handler before one of its unconditional sends (`sendRegistered`,
`sendPeerList`, `sendError`) or before the broadcast that ends `handleRegister`. A
send in a `select` with a default case is part of the action (`Offer`), a plain
`peer.Send <- msg` is an action that waits for room (`SendBlocking`). Two handlers
never overlap, so between two of these points nothing else of the hub's runs; read
and write pumps do. A channel is its whole history `log[c]` with the number
`taken[c]` of messages received from it. `missed[c]` is a history variable: the
peers of which an announcement to c was dropped. `stage` is the environment,
replaced by the handler's position in `Server`. IDs are eight random bytes, taken to
be distinct, so a connection and its peer are the same value. Clients of this
repository only send messages of type `signal`, so these are what the hub routes.

**Server.** `handler`, `reader` and `writer` are the positions of the three
goroutines of a connection. A send on an unbuffered channel and its reception are
one step: `Register`, `Forward`, `Unregister` with the hub, `ReaderDone` and
`WriterDone` with the handler. A message already buffered may still be read after
the socket is closed; a message that is not JSON changes nothing and is left out.
A write that fails covers the 10-second deadline, a read that fails covers the
disconnect and the 60-second deadline.

**Client.** `op[t]` is where a goroutine is inside a method; the application's
goroutines `App` may call anything at any time, and the read pump may call what
`SignalOps` and `PeerOps` allow while it is inside a handler. `mu`
(`p2p.Client.mu`) is held across steps only while the peer handler runs;
`writeMu` during a write. What the server may send next is `MayFollow` of module
`Messages`: losses are allowed, but the handshake comes first, nobody joins twice
or comes back, and so on. The hub is checked and proved to send every client
nothing else (`FeedsClients`), and `Signaling` composes the two. `Signals` is what
signals there are to be sent to this client. `Receive` is a read that returns a
given message, and `Read` one that returns any the server may send next;
`installedAt` and `closers` are history variables.

**Signaling.** A step is one of `Hub`, one of `Client` other than `Read`, or
`Receive`: the client reads the next of the messages that the write pump has taken
from its channel. `log[Me]` is thus what was sent to the client, its first
`taken[Me]` messages are what was written, and `seen` is what was read: the socket
and its buffers are what lies between the last two. The connections other than `Me`,
and the server's goroutines for `Me` itself, are those of `Hub`, free to do what its
environment may: `Me` may be unregistered while its client goes on reading, as
happens when one of its pumps ends, and its connection may send signals whether the
client calls `Send` or not. This allows more behaviours than the server and the
client have together, so that what is shown here holds of them. A failed write shows
as a read that fails. `registered` is the hub's map of peers, `peers` the client's.

**Agent.** A socket is the number under which it was bound, `addr` says to which IP
and port, `live` which sockets are open. The methods of the agent and the gatherer
hold their locks throughout and are single actions; `Gather` is two (`GatherSockets`,
`GatherStores`), because the agent takes its own lock only when the gatherer has let
go of its. What the interfaces are (`IpLists`, lists in which no address occurs
twice) and which ports other programs hold may differ from one `Gather` to the next;
`Bound` is the set of all that binding can result in: a port is free or not for each
address by itself. A turn of `receiveLoop` is `LoopStarts` (the context, the handler
and the deadline), then the read (`LoopReceives`, `LoopTimesOut`, `LoopFails`), then
the call of the handler (`LoopCalls`); anything may happen between them. `Receive`
reads the same queue `inbox` under the same deadline. Three fields of a connection
are history: `late` counts the calls of a handler after `Close`, `missed` the packets
of the peer that were taken from the socket since the handler was set, by whichever
goroutine, and were not given to it, and `polled` says that `Receive` was called.
`Send` and the other getters change no state and are left out.

**App.** `main[p]` is where the main goroutine is: in the 500 ms after `Connect`
(`sleep`), between installing the two handlers (`onPeerEvent`), before the start that
`-ice` and `-peer` ask for (`flags`), in the interactive shell, or gone with the
process, which may end anywhere (`Quit`) and leaves nothing under way. `ice[p][t]` is
where `startICE` is on goroutine t, the main goroutine or the read pump: it makes an
agent (`Start`), gathers (`Gather`) and sends its candidates one by one
(`SendCandidate`), and loads `app.iceAgent` again for the second of these. The read
pump handles one message at a time; `handling[p]` is the candidate it holds.
`ReadCandidate` is its reception and the look at `app.iceAgent`; if that is nil,
`handleRemoteICECandidate` starts ICE first, in a step of its own (`AutoStart`),
before which main may have started it too. Each candidate adds a goroutine (`timers`)
that finds `app.iceConn` nil or ends (`TimerChecks`), connects (`Connect`) and stores
the result (`Store`). A statement that loads a shared field and calls a method of
what it points to is one step. `agents[p]` keeps every agent p has made and `made[p]`
every connection. An agent is reduced to what `Agent` shows of it as long as nobody
closes it, and nobody in the application does: its candidates are those of its
sockets in the order of binding. How many of the local addresses have a free port is
chosen from `Free` at every `Gather`: the range
10000 to 10100 is shared with every process of the machine, other clients included,
so a start of ICE may find a port for all addresses, for some, or for none. The
server is one FIFO inbox per application: the hub and the read pumps are sequential,
its channels keep the order of routing (`SignalsInOrder`), and none is taken to
overflow. The peer named by `-peer` is one that was online at the start.

## Runs

| Run | Instance | Question and answer |
|---|---|---|
| `hub_churn` | capacity 2; 3 connections and a message to anybody, everybody or a stranger, or 2 connections and 2 messages (`FewOrQuiet`) | Do announcements that are dropped, and peers that come and go during a registration, ever do more harm than the drop itself? No: `RosterExact`, the refinement `DirectorySpec` of `Roster`, `NoSendOnClosed` and `RegistrationNeverBlocks`. Does every client get the handshake first, nobody's announcement twice or after it left, and signals in order? Yes: `FeedsClients`, `SignalsInOrder`. |
| `hub_dropped` | 3 connections, capacity 2 | Does a client that has read everything know all connected peers? No (finding). |
| `server_safety` | 2 connections, capacity 2, 1 message | Do the handlers and pumps drive the hub as `Hub` assumes (`HubSpec`), does one pump and only one cause the unregistration (`OneExit`), and when does a signal of a peer arrive after its `peer_left` (`StragglersOnlyAfterWriteFailure`) or without any announcement (`StrangersOnlyAfterWriteFailure`)? Only if its write pump ended before its read pump. |
| `server_churn` | 2 connections, capacity 2, no signals, fair, deadlock checked | Do the blocking sends of a registration always get through, so that the hub comes back (`HubKeepsServing`), is every disconnect announced (`DisconnectAnnounced`), is everything queued written unless the write pump has ended before it (`QueuedIsWritten`), and what is left of a connection? One blocked goroutine (`OnePumpLeaks`). |
| `server_stuck` | 1 connection, capacity 2, 2 messages to a stranger, fair | And with signals? The hub stops for ever (finding). |
| `client_calls` | 2 goroutines, 2 handlers, 4 messages, 2 calls, a method of each kind from any handler, fair | `PeersAreBelieved`, `QuietAfterClose`, `ReplacedHandlerGetsOldSignals`, `SerialWrites`, and which calls from a handler never return (`TrappedForever`). As long as no handler makes such a call, every call returns (`CallsReturn`) and a closed client leaves no pump behind (`PumpsEnd`). |
| `client_reentrant` | 1 goroutine, 3 messages, 2 calls, fair | Does `Peers` answer a peer handler? No (finding). |
| `signaling_peers` | the client and 1 other peer, capacity 2, 1 message, 1 call, 1 handler, fair | Is the client sent what `Client` assumes? Yes (`ClientSpec`). How far may `Peers` be from the truth? By messages on their way and by what was dropped (`PeersLagBehind`), and in the end by the latter only (`PeersConverge`). May the signal handler be called for a peer that `Peers` does not list? Only for one that has left or whose announcement was dropped (`SenderIsListed`). |
| `agent_sockets` | 2 goroutines that gather, 2 IPs, 2 ports, 3 sockets, 1 remote candidate, 1 connection | Do the two lists of the gatherer stay aligned? Up to what `Close` removed (`ListenersAreLatest`), so a connection is on the wrong socket only after a `Close` (`PairedUnlessClosed`). |
| `agent_loops` | 2 connections and `Receive` on one socket, 2 senders, 1 remote candidate, 2 packets, fair | Who gets a packet? A closed connection calls its handler at most once more (`OneLateCall`). A handler misses at most one of its peer's packets that are taken from the socket, unless `Receive` or the loop of another connection reads it too: these take any number (`OneMissedUnlessShared`). Does every receive loop end once its socket, or every connection on its socket, is closed? Yes (`LoopsEnd`). |
| `app_ice` | 2 applications, one with `-ice`, 2 addresses with a free port or none, 2 sockets, 1 `/ice` command, either may end anywhere, fair | Several goroutines may connect at once: is that harmful? No (`DuplicatesShareSocket`). Do both sides choose sockets that fit each other, without any connectivity check? Unless one has restarted ICE or lost a candidate (`FirstPairsFit`). Half a second after a candidate a goroutine connects, once: what makes it give up? A restart, a main goroutine that is still gathering, or no free port, and nothing else (`GivesUpOnlyWithoutPorts`). Does one `/ice` connect both? Yes, if nothing interferes with it (`IceConnects`). |
| `app_flag` | 2 applications with `-ice`, 1 address with a free port, fair | Do two applications with `-ice` get connected? No (finding). |

The bounds. A channel of capacity two is full right after the handshake, so each
further message can be dropped or block; what the hub does with a full channel does
not depend on how large it is, and the proofs hold for every capacity from two on.
Three connections are the fewest in which one hears of a second while a third
registers; `BoundedSpec` in `MCHub` allows a second message only as long as one of
the three has not come, because two messages among three connections are more states
than there is time for. With one other peer, a client sees every order of a join, a
leave, a list and a signal of that peer; it reads five messages at most (so
`MaxReads` cuts nothing), and `BoundedSpec` in `MCSignaling` leaves out its pings,
which touch nothing but the write lock. One connection and two messages are enough
for the stuck hub: the first may be taken by the write pump that then fails, the
second finds the channel full. `MaxMsgs` counts all messages the hub routes,
`MaxReads` the messages a client reads and `MaxCalls` the calls of its methods; all
three are guards. In the client, two messages are the handshake, and the two that
follow bring a join or leave and a signal; two calls are every pair of methods, by
one goroutine, by two, or by one and a handler. For the agent, two IPs and two ports
are what it takes for sockets to be bound in another order or on another port than
before, three sockets for a second `Gather` that adds to the first; two packets are
one for the turn that is under way and one for the turn after it, the first of which
may be late or missed; a second remote candidate would not be used, so one is enough.
For the application, `Free` of none or two lets a start of ICE find no port, and
makes the order of candidates matter when it finds some; `MaxSockets` bounds the
sockets of an application, and as 0 is in `Free`, no start is held up by it. One
command, a `peer_joined` and a candidate are three starts of ICE, in any order. The
agent and the applications may stop at any time, so their runs do not check deadlock.
Connections, handlers and the goroutines that gather are symmetric where no liveness
is checked. Deadlock is checked where the environment cannot simply stop.

Fairness. Every step of a goroutine that is runnable is weakly fair, as Go's
scheduler is. A write returns because of its deadline. A read is only bound to fail
once its own side has closed the socket. Nothing is assumed of clients, of pings, of
reads that succeed, or of which calls an application makes. Each turn of
`receiveLoop` goes on, and the read of a socket ends with a packet or the deadline;
goroutines that read one socket wait for each other, so one of them gets on and none
is promised a turn. In
the client, waiting for `writeMu` is strongly fair: a `sync.Mutex` hands itself over
to a waiter that has starved for a millisecond. Handlers are assumed to return
unless they are inside a method that does not. In `Signaling`, the write pump takes
what is in the channel, what was written is read unless the read fails, and the read
pump goes on; a read that finds nothing may wait for ever, and nobody has to join,
leave, send or call. In the application, the main goroutine, the read pump (and with
it delivery by the server) and the connecting goroutines are each fair; nobody has
to start, to quit, or to type a command.

## Proofs

Every safety property of the passing runs is a theorem, for every value of the
constants that the named assumptions allow: any connections, goroutines, handlers,
interfaces, ports and applications, any capacity of at least two, and any of the
bounds. Three more, `HandshakeFirst`, `NoResurrection` and `SignalsReadInOrder`, are
proved only: `FeedsClients` includes the first two, and the third is
`SignalsInOrder` seen from the client. Hardly any of these properties is inductive.
Each module has an invariant of its own, proved with one lemma per action, from
which the theorems follow.

`HubProofs` (assuming that `None` is no connection and that the capacity is at least
two): `TypeCorrect`, `NeverSendsOnClosed`, `RegistrationDoesNotBlock`,
`HandshakeIsFirst`, `NobodyIsResurrected`. The invariant `IInv`
adds to the types where the hub goroutine is and for whom (`Busy`), that the map
holds exactly the connections that are registered and that the closed channels
are those of the ones that left (`Membership`), that nothing is sent to a
connection before it registers and no more is received than was sent
(`Backlog`), and how far the handshake in progress has got (`Greeting`): without
`Backlog` the first blocking send could find a full channel, and without
`Membership` a channel could be closed while its peer is in the map. The lemma
`NextGrowth` then says what one step may append to a channel, and with it the
handshake (`HandshakeInv`) and the order of announcements (`RetractsGone`: only
peers that are out are said to have left) follow by induction on the steps.

`ChannelProofs`: `RosterIsExact` and `ImplementsDirectory`, the refinement of
`Roster`. What a newcomer believes between its list and the announcement of itself
(`Told`) is what the abstract join gives it in one step; every other step of the hub
leaves the directory as it is, or is a departure. `SignalsStayInOrder`, because no
channel holds a signal newer than the last one routed (`SignalsCounted`); and
`HubFeedsClients`, because only peers whose registration is complete are heard of
(`HeardInv`). For the modules that build on the hub, it also shows that a connection
gets the signals addressed to it and the server's own messages only (`WellFormed`),
and that whoever a channel has a signal of was announced there before, missed, or
not yet or no longer registered (`SendersKnown`).

`ServerProofs` (with the same assumptions): `TypeCorrect`, `ExactlyOneExit`,
`ImplementsHub`, `ServerNeverSendsOnClosed`, `StragglersAfterWriteFailure`,
`StrangersAfterWriteFailure`, `ServerIsDirectory`, `ServerFeedsClients`. `PumpInv`
relates the positions of handler and pumps, and `Budget` counts what is about to be
routed, so that every step is one of `Hub` with the handler's position as `stage`.
The module takes `ChannelProofs` with the pumps' positions for `stage` (`HP`), so
that every theorem about the hub, once `ImplementsHub` is there, is one about the
server: the last two and `ServerNeverSendsOnClosed` are instances of them.

`ClientProofs` (the read pump, the ping pump and the application's goroutines are
different): `TypeCorrect`, `WritesAreSerial`, `QuietOnceClosed`,
`NobodyFreesTheTrapped`, `ReplacedHandlerIsLate`, `PeersFollowMessages`. The
invariant says that the read pump is inside a method only while in a handler
(`PumpBusy`), that `Close` returns after the pump has ended (`Ended`), who holds
the write lock (`WriteLock`) and that `myID` is the client's (`HasRead`).

`SignalingProofs` (with the assumptions of both modules): `ImplementsClient`,
`PeersOnlyLagBehind`, `SendersAreListed`, `SignalsAreReadInOrder`. A step of the
composition is a step of the hub or a step of the client, and no variable belongs to
both, so each of the two keeps its own invariants as long as the other gives it what
it assumes: the hub assumes nothing of its clients, and the client assumes
`MayFollow`, which is `FeedsClients` of the hub. What joins the two is that the
client has read a prefix of its channel (`Delivered`). Then `seen` is a prefix of
`log[Me]`, `peers` is what `seen` amounts to (`PeersFollowMessages`), the hub's map
is what all of `log[Me]` amounts to (`RosterIsExact`), and beliefs change only by a
message in between (`BelievesPrefix`).

`AgentProofs` (interfaces report no address twice): `TypeCorrect`, `ListsStayAligned`,
`ConnectionsArePaired`, `LateOnceAtMost`, `MissesOnceUnlessShared`. Besides the lists,
the invariant says where a receive loop is when a call is late or a packet missed,
and that its next turn takes the handler that is set (`Turns`).

`AppProofs` (the number of free addresses is a natural number): `TypeCorrect`,
`DuplicatesAreHarmless`, `FailsForAReason`, `FirstPairsAgree`. `IInv` says that
whoever loads `app.iceAgent` finds an agent (`Ready`), that connections use the first
candidates of their agent, which stay the first (`UsesFirst`), and that, without a
restart, a goroutine that waits to connect has a remote candidate and no longer a
read pump that gathers (`Provided`), from which `FailsForAReason` follows.
`FirstPairsAgree` needs the order of candidates on their whole way: in the
sender's list, under way, being handled and stored, each is newer than
all that are ahead of it (`Ordered`, preserved by the `Order...` lemmas), nobody
knows a candidate of an application that has no socket (`Silent`), and an
application that has started once has gathered once (`OneRound`). Hence the
first candidate that q bound is the first of q's that p stored.

Only model-checked is liveness (`HubKeepsServing`, `QueuedIsWritten`,
`DisconnectAnnounced`, `OnePumpLeaks`, `CallsReturn`, `PumpsEnd`, `PeersConverge`,
`LoopsEnd`, `IceConnects`), which is out of the prover's reach.

## Findings

- `server_stuck`: `handleBroadcast` reports an unknown target with a blocking
  send to the sender. A client that does not read, and keeps writing to a peer
  that is gone, fills its own channel; when its write pump then gives up, the hub
  blocks for good and the server stops serving everybody.
- `hub_dropped`: announcements that find a full channel are dropped and never
  repeated, so `Peers()` of that client lacks a connected peer from then on.
- `client_reentrant`: the peer handler runs under the client's lock, so calling
  `Peers` (or `OnSignal`, `OnPeerEvent`) from it never returns.
- `app_flag`: `main` installs its handlers half a second after it has connected, and
  what arrives before is lost: the newcomer loses the candidates that a running
  peer sends when it hears of it, or takes no notice of a peer that joins in that time.

Also shown by properties that hold: every connection leaves one goroutine behind
(`OnePumpLeaks`), `Close` called from a handler never returns (`TrappedForever`), and
`Gatherer.Close` keeps the candidates of the sockets it closes, so that `Connect` may
use the wrong socket after the next `Gather` (`PairedUnlessClosed`).

More defects are steps of the models without a property of their own:
`GetRemoteCandidates` unlocks for writing what it locked for reading, which ends the
process (the action of the same name), and `Receive`, documented as blocking, times
out under the deadline that `receiveLoop` keeps on the same socket
(`ReceiveTimesOut`). `receiveLoop` runs before a handler can be set and discards what
it reads until then (`LoopReceives`), and on a socket that several connections or
`Receive` read, each takes packets that the handlers of the others wait for. The
application never resets `app.iceConn`, so a start of ICE after a connection was made
changes nothing (`TimerChecks`), and a candidate that comes while the main goroutine
is gathering is given up after half a second (`GivesUpOnlyWithoutPorts` names the
case); this is why `FirstPairsFit` and `IceConnects` exclude restarts and a second
starter. Nothing releases the ports of agents that were replaced.

## Not modelled

- JSON, timestamps, logging and flags; conversions that cannot fail here.
- The end of the server process: `Shutdown` does not wait for hijacked
  connections, and nothing is persisted.
- `sdp.go`: data types without control.
- In the ICE package, `calculatePriority`, the string forms of candidates and ports
  chosen by the system (`PortStart` 0, which the default configuration excludes).
- In the application, `/peers`, `/send`, `/offer`, `/signal` and the automatic answer
  to an offer, which send a message or print and change nothing, and the loss of the
  connection to the server, of which the application takes no notice.
- A second `Connect` of the transport: `p2p.Connect` calls it once and nothing else does.
- In the server, flags, the health endpoint and the upgrade itself.

## Plan

1. Done: `Messages`, `Roster`, `Hub`, `Server`, `Client`, `Signaling`, `Agent`, `App`,
   and the proofs of their safety properties.
2. `Transport`: `Connect` after a lost connection, and `Close` against it.
3. Proofs: that `App`'s agents are those of `Agent`, and that its inboxes are
   channels of the server as long as none overflows.
