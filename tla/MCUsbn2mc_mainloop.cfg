SPECIFICATION Spec
CONSTANTS
  Registers <- AllRegisters
  Data <- Values
  PowerOn <- Contents
  StartProgram <- USBNStart
  InterruptPrograms <- Interrupts
  SendPrograms <- Sends
PROPERTIES
  NoStrayWrite
