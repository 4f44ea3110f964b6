SPECIFICATION Spec
CONSTANTS
  Users = {alice}
  Addresses = {1, 2, 3}
  NoAddress = NoAddress
  ConnIds = {x, y}
  Grace = 1
  MaxLimit = 2
  MaxTime = 4
SYMMETRY Symmetry
CHECK_DEADLOCK FALSE
INVARIANTS TypeOK CapIsEnforced ReportsAgree
PROPERTIES PlacesAreKept CutOnlyWhenFull
