SPECIFICATION Spec
CONSTANTS
  None = None
  Key = {k1, k2}
  Trust = {k1}
  Actor = k2
  Hint <- MCHint
  PubkeyHash = {"match"}
  MaxCo = 1
  MaxLegs = 2
INVARIANTS
  PassIsSigned
  MultisigEarned
  HintNeverHelps
CHECK_DEADLOCK FALSE
