\* Two applications started with -ice, which need no command.
SPECIFICATION FairSpec
CONSTANTS
  None = None
  Apps = {a, b}
  UseICE = {a, b}
  Free = {1}
  MaxSockets = 6
  MaxCommands = 0
PROPERTY FlagConnects
CHECK_DEADLOCK FALSE
