SPECIFICATION RelaySpec
CONSTANTS
  Relays <- MCRelays
  Window = 4
INVARIANTS
  ExitWitnessed
  FailureIsolated
PROPERTY
  Terminates
CHECK_DEADLOCK FALSE
