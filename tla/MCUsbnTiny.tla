----------------------------- MODULE MCUsbnTiny -----------------------------
(* UsbControl's instance for both stacks.  A keyboard on the tiny stack has a *)
(* report descriptor and no strings; the tree is the one of hidkeyboard.      *)
EXTENDS UsbnTiny, MCUsbControl

MCStackDescLen == [REPORT |-> 59] @@ MCDescLen

Report    == Addressed(Standard(FALSE, "GET_DESCRIPTOR", "REPORT", 59, 8), "interface")
Of(where) == Addressed(Status, where)

OfTiny ==
  {First, Begin, Device, Config, Tree, Behind, Report, Status, Of("interface"),
   Refused, SetAddr, SetConf, SetIface, ClrHalt, Remote, VendorOut}
MCAsked    == [t \in BOOLEAN |-> IF t THEN OfTiny ELSE Enumeration]
MCRequests == Enumeration \cup OfTiny
=============================================================================
