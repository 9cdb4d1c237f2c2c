SPECIFICATION Spec
CONSTANTS
  MaxSet = 1
INVARIANTS
  MissingFileIgnored
