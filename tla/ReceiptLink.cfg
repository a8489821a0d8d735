SPECIFICATION Spec
CONSTANTS
  Held <- MCHeld
  Payments <- MCPayments
  Wallets = {"w1"}
  MaxBlocks = 2
  MaxReorgs = 1
  MaxTampers = 1
INVARIANTS
  AgreedIsTrue
  GenuineIsConfirmed
  ChallengeIsFair
CHECK_DEADLOCK FALSE
