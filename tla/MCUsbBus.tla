------------------------------ MODULE MCUsbBus ------------------------------
(* Instances of UsbBus: two payloads, one configuration request.           *)
EXTENDS UsbBus

MCDescLen == [DEVICE |-> 18]
SetConf   == [type |-> "standard", zero |-> TRUE, recipient |-> "device",
              code |-> "SET_CONFIGURATION", val |-> 1, len |-> 0]
MCRequests == {SetConf}
=============================================================================
