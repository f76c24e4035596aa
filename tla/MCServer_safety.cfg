\* Two connections over channels of capacity two; one message to anyone.
SPECIFICATION Spec
CONSTANTS
  None = None
  Stranger = Stranger
  Conns = {c1, c2}
  SendCap = 2
  MaxMsgs = 1
  Dests <- Anyone
SYMMETRY ConnSymmetry
INVARIANTS
  TypeOK
  OneExit
  StragglersOnlyAfterWriteFailure
  StrangersOnlyAfterWriteFailure
PROPERTY HubSpec
CHECK_DEADLOCK FALSE
