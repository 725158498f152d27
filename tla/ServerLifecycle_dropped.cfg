\* The stop of a thread that has not published its event loop.
SPECIFICATION Spec
CONSTANTS
  Ports = {1}
  MaxManagers = 2
  UserOptions <- MCOneOption
  ForeignPorts = {}
INVARIANTS
  DroppedWasSignalled
