SPECIFICATION Spec
CONSTANTS
  Pool <- MCPool
  Altered <- MCAltered
  MaxSources = 3
  MaxEdits = 2
  MaxFetches = 2
INVARIANTS
  SuppressionNeverHides
  RootBinds
  OrderNeverMatters
PROPERTY
  ResolutionStays
CHECK_DEADLOCK FALSE
