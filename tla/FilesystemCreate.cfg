\* Two calls, and other processes that take two steps.
SPECIFICATION Spec
CONSTANTS
  Inodes = {top, outside, i1, i2, i3, i4}
  Top = top
  Outside = outside
  Names = {"esphome", "a", "f"}
  Root = "esphome"
  Paths <- MCOneFile
  Calls = {c1, c2}
  MaxForeign = 2
  Null = null
SYMMETRY MCSymmetry
CHECK_DEADLOCK FALSE
INVARIANTS
  TypeOK
  StaysInside
  LeftForCause
  RefusedForCause
PROPERTIES
  NeverOverwrites
