SPECIFICATION Spec
CONSTANTS
  Custom = {s1, s2}
  Empty = Empty
  MaxMints = 3
  MaxSaves = 3
CHECK_DEADLOCK FALSE
INVARIANTS TypeOK RetiredStaysOut OncePerRequest OverrideIsServed
