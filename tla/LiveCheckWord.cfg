SPECIFICATION BoardSpec
CONSTANTS
  Words = {"submitted", "unconfirmed"}
  Containing = {"unconfirmed"}
  Marking = {"submitted", "unconfirmed"}
  NoTime = NoTime
  MaxTime = 3
INVARIANT
  InFlightIsNotExistence
CHECK_DEADLOCK FALSE
