----------------------------- MODULE MCUsbn2mc -----------------------------
(* The programs of accesses of the stack and of the logic analyzer. *)
EXTENDS Usbn2mc

\* Mutant: the INT pin is switched on before the masks are written.
EarlyInt ==
  <<WriteOf("MCNTRL", "SRST"), AwaitResetOf("MCNTRL"), WriteOf("MCNTRL", "INT"),
    WriteOf("ALTMSK", "mask"), WriteOf("MAMSK", "mask"), WriteOf("NFSR", "OPR")>>

\* USBNStart: software reset, wait for its end, set up, and as the last thing
\* let the chip drive its INT pin (MCNTRL := VGE+NAT+INT_L_P).
USBNStart ==
  <<WriteOf("MCNTRL", "SRST"), AwaitResetOf("MCNTRL"),
    WriteOf("CCONF", "16MHz"),
    WriteOf("NAKMSK", "all"), WriteOf("NAKMSK", "NAK_OUT0"),
    WriteOf("FAR", "AD_EN"), WriteOf("EPC0", "DEF"),
    WriteOf("TXC0", "FLUSH"), WriteOf("RXC0", "RX_EN"),
    WriteOf("RXMSK", "mask"), WriteOf("TXMSK", "mask"),
    WriteOf("ALTMSK", "mask"), WriteOf("MAMSK", "mask"),
    WriteOf("NFSR", "OPR"), WriteOf("MCNTRL", "INT")>>

\* The start and the end of USBNInterrupt, which has the event handled between.
\* The mask is closed and written back as it was read.
USBNInterrupt(handler) ==
  <<ReadOf("MAEV")>> \o handler
    \o <<ReadOf("MAMSK"), WriteOf("MAMSK", "closed"), RestoreOf("MAMSK")>>

\* A packet in FIFO 1, here of two bytes.
ReceiveFIFO1 ==
  <<ReadOf("RXEV"), ReadOf("RXS1"),
    ReadOf("RXD1"), BurstReadOf("RXD1"),
    WriteOf("RXC1", "FLUSH"), WriteOf("RXC1", "RX_EN")>>

TransmitFIFO1 == <<ReadOf("TXEV"), ReadOf("TXS1")>>

\* A bus reset.
AlternateReset ==
  <<ReadOf("ALTEV"), WriteOf("NFSR", "RST"), WriteOf("FAR", "AD_EN"),
    WriteOf("EPC0", "clear"), WriteOf("TXC0", "FLUSH"), WriteOf("RXC0", "RX_EN"),
    WriteOf("NFSR", "OPR")>>

Interrupts == {USBNInterrupt(h) : h \in {ReceiveFIFO1, TransmitFIFO1, AlternateReset}}

\* The main loop of the logic analyzer fills FIFO 1 and sends it.
Sends ==
  {<<WriteOf("TXC1", "FLUSH"), WriteOf("TXD1", "sample"),
     BurstWriteOf("TXD1", "sample2"), WriteOf("TXC1", "TX_EN")>>}

AllRegisters ==
  {"MCNTRL", "CCONF", "NAKMSK", "FAR", "EPC0", "TXC0", "RXC0", "RXMSK", "TXMSK",
   "ALTMSK", "MAMSK", "NFSR", "MAEV", "RXEV", "TXEV", "ALTEV",
   "RXS1", "RXD1", "RXC1", "TXS1", "TXC1", "TXD1"}

Contents == [r \in AllRegisters |-> CASE r = "MAEV" -> "event" [] r = "RXD1" -> "packet"
                                     [] r = "RXS1" -> "status" [] OTHER -> "clear"]

Values ==
  {"none", "clear", "SRST", "INT", "16MHz", "all", "NAK_OUT0", "AD_EN", "DEF", "FLUSH",
   "RX_EN", "mask", "OPR", "closed", "RST", "sample", "sample2", "TX_EN"}
=============================================================================
