\* Two applications with two free addresses each, or none, of which one was started with -ice.
SPECIFICATION FairSpec
CONSTANTS
  None = None
  Apps = {a, b}
  UseICE = {b}
  Free = {0, 2}
  MaxSockets = 2
  MaxCommands = 1
INVARIANTS
  TypeOK
  DuplicatesShareSocket
  FirstPairsFit
PROPERTIES
  GivesUpOnlyWithoutPorts
  IceConnects
CHECK_DEADLOCK FALSE
