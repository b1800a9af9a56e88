SPECIFICATION Spec
CONSTANTS
  N = 3
  MaxUint = 4
  INITIAL_SUPPLY = 3
  Values = {0, 1, 2, 4}
  Spenders = {2}
INVARIANTS
  TypeOK
  Conserved
  AddNeverOverflows
  ZeroHoldsNothing
PROPERTIES
  SupplyShrinksByOwner
  FallIsAuthorised
