\* Liveness of the same system with two option sets and no foreign process.
SPECIFICATION FairSpec
CONSTANTS
  Ports = {1, 2}
  MaxManagers = 2
  UserOptions <- MCTwoOptions
  ForeignPorts = {}
PROPERTIES
  BringUpTerminates
  UnloadCompletes
  ReloadHappens
  SignalledThreadDies
