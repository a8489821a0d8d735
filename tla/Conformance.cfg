SPECIFICATION Spec
CONSTANTS
  e1 = e1
  e2 = e2
  Key = {v, a, o}
  Trusted = {v}
  Actor = a
  Envelope = {e1, e2}
  Absent = Absent
  MaxTime = 2
  MaxSigned = 2
  MaxStamps = 1
  MaxEdits = 1
SYMMETRY MCSymmetry
INVARIANTS
  PassMeansGoverned
  GeneratedMeetsBar
  CheckersAgree
CHECK_DEADLOCK FALSE
