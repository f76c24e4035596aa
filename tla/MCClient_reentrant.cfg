\* A peer handler that asks for the peers.
SPECIFICATION FairSpec
CONSTANTS
  None = None
  Me = me
  Conns = {me, x}
  Dests = {None}
  App = {a}
  Pump = pump
  Handlers = {h1}
  SignalOps <- OnlyPeers
  PeerOps <- OnlyPeers
  Signals <- FromAnyone
  MaxReads = 3
  MaxCalls = 2
PROPERTIES
  PeersAnswers
CHECK_DEADLOCK FALSE
