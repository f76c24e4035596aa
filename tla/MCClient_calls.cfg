\* Two goroutines and handlers that call any kind of method.
SPECIFICATION FairSpec
CONSTANTS
  None = None
  Me = me
  Conns = {me, x}
  Dests = {None}
  App = {a, b}
  Pump = pump
  Handlers = {h1, h2}
  SignalOps <- OneOfEachKind
  PeerOps <- OneOfEachKind
  Signals <- FromAnyone
  MaxReads = 4
  MaxCalls = 2
INVARIANTS
  TypeOK
  QuietAfterClose
  PeersAreBelieved
  ReplacedHandlerGetsOldSignals
  SerialWrites
PROPERTIES
  TrappedForever
  CallsReturn
  PumpsEnd
CHECK_DEADLOCK FALSE
