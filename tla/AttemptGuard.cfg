SPECIFICATION Spec
CONSTANTS
  t1 = t1
  a1 = a1
  x1 = x1
  Tool = {t1}
  Arg = {a1, x1}
  Unbindable <- MCUnbindable
  Raw = {u1}
  MaxSteps = 1
  MaxAttempts = 3
  MaxEdits = 2
INVARIANTS
  AttemptIdsUnique
  CountsFromLog
  KeptHeadsHold
  VerifiedIsGenuine
CHECK_DEADLOCK FALSE
