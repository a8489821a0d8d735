SPECIFICATION Spec
CONSTANTS
  Record = {r1, r2}
  Genesis = Genesis
  HeadHash <- MCHeadHash
  ExtraHeads <- MCExtraHeads
  MaxEntries = 3
  MaxEdits = 3
  HashDepth = 4
INVARIANTS
  TypeOK
  PassMatchesLedger
  GenuineNeverFails
  VerdictIsReference
CHECK_DEADLOCK FALSE
SYMMETRY RecordSymmetry
