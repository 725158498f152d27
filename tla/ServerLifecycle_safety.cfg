\* Safety of set-up, bring-up, teardown and reload with two generations of the
\* server, two ports and a foreign process on one of them.
SPECIFICATION Spec
CONSTANTS
  Ports = {1, 2}
  MaxManagers = 2
  UserOptions <- MCUserOptions
  ForeignPorts = {1}
INVARIANTS
  TypeOK
  UnloadedIsQuiet
  RegistrationBacked
  NoStrayThread
  LiveMatchesOptions
PROPERTIES
  ImplementsContract
