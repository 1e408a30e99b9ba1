CONSTANTS
  Requests <- MCRequests
  Asked <- MCAsked
  Data = {}
  Addresses <- MCAddresses
  SetupDisarms = TRUE
  DescLen <- MCStackDescLen
  MaxTransfers = 3
  Faults = {"abort", "lostack", "reset"}
  Patient = TRUE
SPECIFICATION StackSpec
INVARIANTS
  TypeOK
  ArmedSliceIsCurrent
  ReadIsDescriptor
  RequestAnswered
  AddressAgreed
  StallIsForThisRequest
PROPERTIES
  TransferSucceeds
CHECK_DEADLOCK FALSE
