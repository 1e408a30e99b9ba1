CONSTANTS
  Names <- MCNames
  Endpoints <- MCEndpoints
  Functions = {"fkt"}
  NoFunction = "null"
  Settings = {1}
  MaxEntries = 5
  MaxStrings = 2
  MaxConfs = 1
SPECIFICATION BuilderSpec
INVARIANTS
  TotalLengthRight
CHECK_DEADLOCK FALSE
