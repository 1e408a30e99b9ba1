----------------------------- MODULE UsbControl -----------------------------
(***************************************************************************)
(* A host running control transfers against the firmware: enumeration, as  *)
(* drivers and operating systems do it.  The host is outside the           *)
(* repository; it follows the USB 1.1 protocol: SETUP, then a data-in      *)
(* stage and an OUT status, or an IN status straight away.  It retries     *)
(* tokens that get NAK, may lose an ACK, may give a transfer up and may    *)
(* reset the bus.                                                          *)
(***************************************************************************)
EXTENDS Usbn960x

CONSTANTS
  MaxTransfers,  \* bound: control transfers of a behaviour
  Faults,        \* what a host that disturbs transfers may do to one
  Patient        \* does the host start a transfer only on a quiet device?

ASSUME ControlAssumption ==
  /\ MaxTransfers \in Nat
  /\ Faults \subseteq {"abort", "lostack", "reset"}
  /\ Patient \in BOOLEAN
  /\ \A q \in Requests : q.mps \in {8, 64}   \* packet size the host assumes

VARIABLES
  stage,      \* idle, data IN, status OUT, status IN
  req,        \* the request of the current or last transfer
  got,        \* the data packets the host accepted in this transfer
  tog,        \* the DATA PID the host expects next
  haddr,      \* the address the host uses
  result,     \* how the last transfer ended
  transfers,  \* transfers started
  faults      \* what the host of this behaviour does: Faults, or nothing

hostVars == <<stage, req, got, tog, haddr, result, transfers, faults>>
vars     == <<vars960x, hostVars>>

\* A control read has a data stage.
IsRead(q) == ~q.zero /\ q.len > 0

Received == IF got = <<>> THEN 0 ELSE got[Len(got)].from + got[Len(got)].len

\* The chip answers tokens for its FAR address, and for address 0 while
\* EPC0.DEF is set.
Reachable == haddr = far \/ (def /\ haddr = 0)

Init ==
  /\ Init960x
  /\ stage = "idle"
  /\ req \in Requests
  /\ got = <<>>
  /\ tog = 1
  /\ haddr = 0
  /\ result = "none"
  /\ transfers = 0
  /\ faults \in {{}, Faults}

\* SET_ADDRESS failed: the host tries it again, or resets the bus.
AddressUnsettled ==
  req.code = "SET_ADDRESS" /\ result \in {"aborted", "error", "stall"}

SendSetup(q) ==
  /\ stage = "idle" /\ transfers < MaxTransfers /\ Reachable
  /\ Patient => Quiet
  /\ q.code = "SET_ADDRESS" => haddr = 0
  /\ AddressUnsettled => q.code = "SET_ADDRESS"
  /\ ReceiveSetup(q)
  /\ stage' = IF IsRead(q) THEN "in" ELSE "statin"
  /\ req' = q
  /\ got' = <<>>
  /\ tog' = 1
  /\ result' = "none"
  /\ transfers' = transfers + 1
  /\ UNCHANGED <<firmwareVars, haddr, faults>>

\* The data stage: a packet with the expected PID is taken, another one is
\* acknowledged as a duplicate.  A short packet, be it an empty one, or the last
\* byte asked for ends the stage; more bytes than asked for is an error.
TakeData(pkt, pid) ==
  IF pid # tog
  THEN UNCHANGED <<stage, got, tog, result>>
  ELSE IF pkt = Empty
  THEN stage' = "out" /\ tog' = 1 - tog /\ UNCHANGED <<got, result>>
  ELSE IF pkt.kind # "desc" \/ Received + pkt.len > req.len
  THEN stage' = "idle" /\ result' = "babble" /\ UNCHANGED <<got, tog>>
  ELSE /\ got' = Append(got, pkt)
       /\ tog' = 1 - tog
       /\ stage' = IF pkt.len < req.mps \/ Received + pkt.len = req.len
                   THEN "out" ELSE "in"
       /\ UNCHANGED result

DataIn(ack) ==
  /\ stage = "in" /\ Reachable /\ ~stall
  /\ ack \/ "lostack" \in faults
  /\ SendIn(0, ack)
  /\ TakeData(tx[0].pkt, tx[0].pid)
  /\ UNCHANGED <<firmwareVars, req, haddr, transfers, faults>>

StatusOut ==
  /\ stage = "out" /\ Reachable /\ ~stall
  /\ ReceiveOut(0, Empty)
  /\ stage' = "idle"
  /\ result' = "ok"
  /\ UNCHANGED <<firmwareVars, req, got, tog, haddr, transfers, faults>>

StatusOutNak ==
  /\ stage = "out" /\ Reachable /\ ~stall
  /\ NakOut0
  /\ UNCHANGED <<firmwareVars, hostVars>>

\* A zero-length DATA1 completes a request without data; the host moves to
\* the new address when it was SET_ADDRESS.
StatusIn(ack) ==
  /\ stage = "statin" /\ Reachable /\ ~stall
  /\ ack \/ "lostack" \in faults
  /\ SendIn(0, ack)
  /\ stage' = "idle"
  /\ IF tx[0].pkt = Empty /\ tx[0].pid = 1
     THEN /\ result' = "ok"
          /\ haddr' = IF req.code = "SET_ADDRESS" THEN req.val ELSE haddr
     ELSE result' = "error" /\ UNCHANGED haddr
  /\ UNCHANGED <<firmwareVars, req, got, tog, transfers, faults>>

Stalled ==
  /\ stage # "idle" /\ Reachable
  /\ SendStall
  /\ stage' = "idle"
  /\ result' = "stall"
  /\ UNCHANGED <<firmwareVars, req, got, tog, haddr, transfers, faults>>

GiveUp ==
  /\ "abort" \in faults
  /\ stage # "idle"
  /\ stage' = "idle"
  /\ result' = "aborted"
  /\ UNCHANGED <<vars960x, req, got, tog, haddr, transfers, faults>>

BusReset ==
  /\ "reset" \in faults
  /\ transfers < MaxTransfers /\ transfers > 0
  /\ Signal("RESET")
  /\ stage' = "idle"
  /\ result' = "reset"
  /\ haddr' = 0
  /\ UNCHANGED <<firmwareVars, req, got, tog, transfers, faults>>

Firmware == Interrupt /\ UNCHANGED hostVars

Tokens ==
  \/ \E ack \in BOOLEAN : DataIn(ack) \/ StatusIn(ack)
  \/ StatusOut \/ StatusOutNak \/ Stalled

Next ==
  \/ Firmware
  \/ \E q \in Requests : SendSetup(q)
  \/ Tokens
  \/ GiveUp
  \/ BusReset

Spec == Init /\ [][Next]_vars

\* The controller takes pending interrupts and runs handlers to their end;
\* the host keeps polling the stage it is in.
FairSpec ==
  /\ Spec
  /\ WF_vars(Firmware)
  /\ WF_vars(DataIn(TRUE)) /\ WF_vars(StatusIn(TRUE))
  /\ WF_vars(StatusOut) /\ WF_vars(Stalled)

-----------------------------------------------------------------------------
(* Properties *)

TypeOK ==
  /\ FirmwareTypeOK
  /\ stage \in {"idle", "in", "out", "statin"}
  /\ req \in Requests
  /\ got \in Seq(TxPackets)
  /\ tog \in {0, 1}
  /\ haddr \in Addresses \cup {0}
  /\ result \in {"none", "ok", "babble", "error", "stall", "aborted", "reset"}
  /\ transfers \in 0..MaxTransfers
  /\ faults \subseteq Faults

\* An event that is still pending when USBNInterrupt has returned has an
\* interrupt of its own coming, although one run of USBNInterrupt handles one
\* class of events and INT is edge-triggered (usbnapi.c, the MAMSK rewrite).
NoLostInterrupt == isr = "idle" /\ Pending => irq

\* Whatever the order in which transmit and receive events are handled, a
\* descriptor packet that is armed is the slice EP0tx ended at, and its DATA
\* PID is the one its place in the descriptor calls for (_USBNTransmit).
ArmedSliceIsCurrent ==
  tx[0].en /\ tx[0].pkt.kind = "desc" =>
    /\ tx[0].pkt.src = ep0tx.buf
    /\ tx[0].pkt.from + tx[0].pkt.len = ep0tx.idx
    /\ tx[0].pid = 1 <=> tx[0].pkt.from % (2 * Ep0Fifo) = 0

\* A control read brings the descriptor asked for: the packets the host accepted
\* are its bytes from the first on, none twice and none left out; what the host
\* counts as successful is all it asked for or the whole descriptor; and no byte
\* comes from behind it.  A configuration request is the exception to the last,
\* its Size being wLength (_USBNGetDescriptor): one that asks for more than the
\* tree gets what lies behind it.
InOrder ==
  \A i \in DOMAIN got :
    got[i].src = req.val /\ got[i].from = (i - 1) * Ep0Fifo

Complete ==
  result = "ok" /\ stage = "idle" =>
    Received = Lesser(req.len, DescriptorSize(req))

Within ==
  \A i \in DOMAIN got :
    got[i].from + got[i].len > DescLen[got[i].src] =>
      req.val = "CONFIGURATION" /\ req.len > DescLen["CONFIGURATION"]

ReadIsDescriptor == IsGetDescriptor(req) => InOrder /\ Complete /\ Within

\* Once the firmware has handled a SETUP packet, the host's first IN gets data,
\* a zero-length packet or a STALL, as the comment in _USBNReceiveFIFO0 says.
SetupAnswered ==
  Quiet /\ stage \in {"in", "statin"} /\ got = <<>> => tx[0].en \/ stall
=============================================================================
