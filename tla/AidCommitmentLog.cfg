SPECIFICATION Spec
CONSTANTS
  None = None
  Torn = Torn
  Until = 1
  MaxTime = 3
  MaxDeaths = 2
INVARIANTS
  ChainHolds
  StateIsLast
  ConfirmedIsAnchored
PROPERTIES
  AllConfirmedIsAll
  LogOnlyGrows
CHECK_DEADLOCK FALSE
