\* Three connections over channels of capacity two; nobody routes anything.
SPECIFICATION Spec
CONSTANTS
  None = None
  Stranger = Stranger
  Conns = {c1, c2, c3}
  SendCap = 2
  MaxMsgs = 0
  Dests <- Everyone
SYMMETRY ConnSymmetry
INVARIANT RosterComplete
CHECK_DEADLOCK FALSE
