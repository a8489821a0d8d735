SPECIFICATION Spec
CONSTANTS
  Actions <- MCActions
  Targets = {"t1", "t2"}
  Accepted = {"approve"}
  MaxAge = 2
  Skew = 1
  Declared = "t2"
  Horizon = 5
  MaxIssued = 1
INVARIANTS
  KeptIsCurrent
PROPERTY
  ImplementsGoverned
CHECK_DEADLOCK FALSE
