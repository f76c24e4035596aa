\* One connection whose channel is too small for the replies it provokes.
SPECIFICATION FairSpec
CONSTANTS
  None = None
  Stranger = Stranger
  Conns = {c1}
  SendCap = 2
  MaxMsgs = 2
  Dests <- Nobody
PROPERTY DisconnectAnnounced
CHECK_DEADLOCK FALSE
