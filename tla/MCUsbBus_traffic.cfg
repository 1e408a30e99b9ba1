CONSTANTS
  Requests <- MCRequests
  Data = {d1, d2}
  Addresses = {}
  SetupDisarms = FALSE
  DescLen <- MCDescLen
  SetConfiguration <- SetConf
  RegisteredOut = {1}
  MaxOut = 3
  MaxConfigurations = 2
SPECIFICATION FairSpec
INVARIANTS
  TypeOK
  NoLostInterrupt
  OutDeliveredOnce
  ReceiverRearmed
  WakeEnabled
  SuspendAgrees
PROPERTIES
  AppMaySendAgain
