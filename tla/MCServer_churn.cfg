\* Two connections come and go, over channels of capacity two; no signals.
SPECIFICATION FairSpec
CONSTANTS
  None = None
  Stranger = Stranger
  Conns = {c1, c2}
  SendCap = 2
  MaxMsgs = 0
  Dests <- Everyone
PROPERTIES
  OnePumpLeaks
  QueuedIsWritten
  HubKeepsServing
  DisconnectAnnounced
