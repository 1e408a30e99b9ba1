--------------------------- MODULE MCUsbControl ---------------------------
(* Instances of UsbControl: a device with a 18-byte device descriptor, one *)
(* configuration and one string, and the requests of an enumeration.       *)
EXTENDS UsbControl, TLC

MCDescLen == [DEVICE |-> 18, CONFIGURATION |-> 32, LANG |-> 4, STRING |-> 16]

Standard(zero, code, val, len, mps) ==
  [type |-> "standard", recipient |-> "device", zero |-> zero, code |-> code,
   val |-> val, len |-> len, mps |-> mps]

Addressed(q, recipient) == [q EXCEPT !.recipient = recipient, !.zero = FALSE]

First     == Standard(FALSE, "GET_DESCRIPTOR", "DEVICE", 64, 64)
Device    == Standard(FALSE, "GET_DESCRIPTOR", "DEVICE", 18, 8)
Begin     == Standard(FALSE, "GET_DESCRIPTOR", "DEVICE", 8, 8)
Config    == Standard(FALSE, "GET_DESCRIPTOR", "CONFIGURATION", 9, 8)
Tree      == Standard(FALSE, "GET_DESCRIPTOR", "CONFIGURATION", 16, 8)
Behind    == Standard(FALSE, "GET_DESCRIPTOR", "CONFIGURATION", 41, 8)
Language  == Standard(FALSE, "GET_DESCRIPTOR", "LANG", 255, 8)
Name      == Standard(FALSE, "GET_DESCRIPTOR", "STRING", 255, 8)
SetAddr   == Standard(TRUE, "SET_ADDRESS", 5, 0, 8)
SetConf   == Standard(TRUE, "SET_CONFIGURATION", 1, 0, 8)
Refused   == Addressed(Standard(FALSE, "SYNCH_FRAME", 0, 2, 8), "endpoint")
SetIface  == Addressed(Standard(FALSE, "SET_INTERFACE", 0, 0, 8), "interface")
Status    == Standard(FALSE, "GET_STATUS", 0, 2, 8)
GetConf   == Standard(FALSE, "GET_CONFIGURATION", 0, 1, 8)
ClrHalt   == Addressed(Standard(FALSE, "CLR_FEATURE", 0, 0, 8), "endpoint")
Remote    == Standard(TRUE, "SET_FEATURE", 1, 0, 8)
VendorOut == [Standard(FALSE, "VENDOR", 0, 0, 8) EXCEPT !.type = "vendor"]

Enumeration ==
  {First, Begin, Device, Config, Tree, Behind, Language, Name, SetAddr, SetConf,
   Refused, SetIface, Status, GetConf, ClrHalt, Remote, VendorOut}
LateEvents  == {Device, SetAddr, SetConf}
MCAddresses == {5}
=============================================================================
