SPECIFICATION ToolSpec
CONSTANT MaxAltered <- MCMaxAltered
INVARIANTS
  VectorsCompose
  AcceptanceSound
  PassIsTrue
  
  WorkIsBacked
  LogIsWhole
  BindingHolds
CHECK_DEADLOCK FALSE
