SPECIFICATION BoardSpec
CONSTANTS
  Words = {"submitted", "pending"}
  Containing = {}
  Marking = {"submitted", "pending"}
  NoTime = NoTime
  MaxTime = 3
INVARIANTS
  PassIsOrdered
PROPERTY
  LateIsFinal
CHECK_DEADLOCK FALSE
