CONSTANTS
  Requests <- LateEvents
  Data = {}
  Addresses <- MCAddresses
  SetupDisarms = TRUE
  DescLen <- MCDescLen
  MaxTransfers = 2
  Faults = {}
  Patient = FALSE
SPECIFICATION Spec
INVARIANTS
  SetupAnswered
CHECK_DEADLOCK FALSE
