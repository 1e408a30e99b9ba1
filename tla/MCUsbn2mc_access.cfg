SPECIFICATION FairSpec
CONSTANTS
  Registers <- AllRegisters
  Data <- Values
  PowerOn <- Contents
  StartProgram <- USBNStart
  InterruptPrograms <- Interrupts
  SendPrograms <- Sends
INVARIANTS
  LinesReleased
PROPERTIES
  AccessLands
  StartCompletes
