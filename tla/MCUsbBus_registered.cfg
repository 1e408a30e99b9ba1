CONSTANTS
  Requests <- MCRequests
  Data = {d1, d2}
  Addresses = {}
  SetupDisarms = FALSE
  DescLen <- MCDescLen
  SetConfiguration <- SetConf
  RegisteredOut = {1, 2}
  MaxOut = 3
  MaxConfigurations = 2
SPECIFICATION Spec
INVARIANTS
  RegisteredCanReceive
