\* Three connections come and go, or two send each other messages; channels of
\* capacity two lose announcements.
SPECIFICATION BoundedSpec
CONSTANTS
  None = None
  Stranger = Stranger
  Conns = {c1, c2, c3}
  SendCap = 2
  MaxMsgs = 2
  Dests <- Anyone
SYMMETRY ConnSymmetry
INVARIANTS
  TypeOK
  NoSendOnClosed
  RegistrationNeverBlocks
  RosterExact
  SignalsInOrder
  FeedsClients
PROPERTY DirectorySpec
CHECK_DEADLOCK FALSE
