------------------------------ MODULE Usbn960x ------------------------------
(***************************************************************************)
(* The interrupt-driven core of the USB stack: USBNStart and USBNInterrupt *)
(* of firmware/usbn960x/usbnapi.c and the event handlers of usbn960x.c.    *)
(*                                                                         *)
(* An interrupt is four steps: the controller enters USBNInterrupt, reads  *)
(* MAEV and picks ONE class of events, runs that class's handler (one      *)
(* action per branch, atomic towards the bus), and rewrites MAMSK.  Bus    *)
(* traffic interleaves with these steps.                                   *)
(***************************************************************************)
EXTENDS UsbnChip

StandardCodes ==
  {"CLR_FEATURE", "GET_CONFIGURATION", "GET_DESCRIPTOR", "GET_INTERFACE",
   "GET_STATUS", "SET_ADDRESS", "SET_CONFIGURATION", "SET_FEATURE",
   "SET_INTERFACE"}

ASSUME FirmwareAssumption ==
  /\ \A d \in Descriptors : DescLen[d] \in Nat \ {0}
  /\ \A q \in Requests :
       /\ q.zero \in BOOLEAN                  \* bmRequestType = 0x00
       /\ q.type \in {"standard", "class", "vendor", "reserved"}
       /\ q.recipient \in {"device", "interface", "endpoint", "other"}
       /\ q.zero => q.type = "standard" /\ q.recipient = "device"
       /\ q.len \in Nat                       \* wLength
       /\ q.code = "SET_ADDRESS" => q.val \in Addresses

VARIABLES
  isr,       \* where USBNInterrupt is
  ep0tx,     \* EP0tx: Buf, Index, Size, DataPid
  received,  \* the packets func1 of FIFO 1 was called with
  apptx      \* the flag the FIFO 1 transmit callback sets for the application

firmwareVars == <<isr, ep0tx, received, apptx>>
vars960x     == <<chipVars, firmwareVars>>

EpInfo == [buf : Buffers, idx : Nat, size : Nat, pid : {0, 1}]

\* usbnfifo: the packet size of the control endpoint.
Ep0Fifo == 8
Lesser(a, b) == IF a <= b THEN a ELSE b

\* What USBNStart leaves in the chip.
Init960x ==
  /\ rxev = {} /\ txev = {} /\ altev = {} /\ nakev = FALSE
  /\ altmsk = {"RESET", "SD3", "EOP"}
  /\ irq = FALSE
  /\ rx = [n \in RxFifos |-> [en |-> n = 0, pkt |-> Empty]]
  /\ tx = [n \in TxFifos |-> [en |-> FALSE, pid |-> 0, pkt |-> Empty]]
  /\ txack = FALSE
  /\ far = 0 /\ def = TRUE /\ stall = FALSE
  /\ nfs = "OPR" /\ configured = FALSE
  /\ isr = "idle"
  /\ ep0tx = [buf |-> "none", idx |-> 0, size |-> 0, pid |-> 0]
  /\ received = <<>>
  /\ apptx = TRUE

-----------------------------------------------------------------------------
(* USBNInterrupt *)

EnterInterrupt ==
  /\ isr = "idle" /\ irq
  /\ isr' = "dispatch"
  /\ irq' = FALSE
  /\ UNCHANGED <<events, altmsk, rx, tx, txack, control, ep0tx, received,
                 apptx>>

\* One class per interrupt: receive before transmit before alternate before
\* NAK events.
ReadMaev ==
  /\ isr = "dispatch"
  /\ isr' = CASE rxev # {}  -> "rx"
              [] rxev = {} /\ txev # {} -> "tx"
              [] rxev = {} /\ txev = {} /\ AltPending -> "alt"
              [] rxev = {} /\ txev = {} /\ ~AltPending /\ nakev -> "nak"
              [] OTHER -> "unmask"
  /\ UNCHANGED <<chipVars, ep0tx, received, apptx>>

\* MAMSK := 0 raises INT, writing the mask back lets it fall again when an
\* event is still pending: the edge the controller needs.
\* Mutant: MAMSK is not rewritten, so INT makes no new edge.
KeepMask ==
  /\ isr = "unmask"
  /\ isr' = "idle"
  /\ UNCHANGED <<chipVars, ep0tx, received, apptx>>

RewriteMask ==
  /\ isr = "unmask"
  /\ isr' = "idle"
  /\ irq' = (irq \/ Pending)
  /\ UNCHANGED <<events, altmsk, rx, tx, txack, control, ep0tx, received,
                 apptx>>

-----------------------------------------------------------------------------
(* _USBNTransmit: load the next packet of EP0tx.  Given EP0tx as e and the  *)
(* FIFOs as r and t, what it leaves in each.                                *)

Chunk(e) == Lesser(Ep0Fifo, e.size - e.idx)

\* Mutants: the PID is not toggled; it is counted up instead of toggled.
SamePidEp(e) ==
  IF e.size > 0 THEN [e EXCEPT !.idx = @ + Chunk(e)] ELSE e
CountPidEp(e) ==
  IF e.size > 0 THEN [e EXCEPT !.idx = @ + Chunk(e), !.pid = @ + 1] ELSE e

TransmitEp(e) ==
  IF e.size > 0 THEN [e EXCEPT !.idx = @ + Chunk(e), !.pid = 1 - @] ELSE e

TransmitTx(e, t) ==
  IF e.size > 0
  THEN TxSend(TxWrite(TxFlush(t, 0), 0,
                [kind |-> "desc", src |-> e.buf, from |-> e.idx,
                 len |-> Chunk(e)]), 0, e.pid)
  ELSE t

\* The receiver is armed for the status stage with the last packet.
TransmitRx(e, r) ==
  IF e.size > 0 /\ e.size <= e.idx + Chunk(e) THEN RxEnable(r, 0) ELSE r

-----------------------------------------------------------------------------
(* _USBNReceiveFIFO0, a SETUP packet *)

IsGetDescriptor(q) == q.type = "standard" /\ q.code = "GET_DESCRIPTOR"
IsStandard(q, c)   == q.type = "standard" /\ q.code = c

DescriptorSize(q) ==
  CASE q.val = "DEVICE"        -> IF q.len = 64 THEN 8 ELSE DescLen["DEVICE"]
    [] q.val = "CONFIGURATION" -> q.len
    [] OTHER                   -> DescLen[q.val]

\* _USBNGetDescriptor: a type it does not know leaves Buf and Size of the
\* request before, and sends that again.
\* Mutant: Index is not reset.
KeepIndex(q) ==
  IF q.val \in Descriptors
  THEN [ep0tx EXCEPT !.buf = q.val, !.size = DescriptorSize(q), !.pid = 1]
  ELSE [ep0tx EXCEPT !.pid = 1]

GetDescriptor(q) ==
  IF q.val \in Descriptors
  THEN [buf |-> q.val, idx |-> 0, size |-> DescriptorSize(q), pid |-> 1]
  ELSE [ep0tx EXCEPT !.idx = 0, !.pid = 1]

\* Requests answered with a STALL handshake.
Unsupported(q) ==
  \/ q.type = "reserved"
  \/ q.type = "standard" /\ q.code \notin StandardCodes

\* _USBNSetConfiguration: endpoints 1, 2 and 5 whatever the configuration.
ConfigureTx(t) == TxFlush(t, 1)
ConfigureRx(r) == RxEnable(RxFlush(r, 1), 1)

\* Transmit FIFOs after the switch over the request.
AnswerTx(q, t) ==
  CASE IsGetDescriptor(q)               -> TransmitTx(GetDescriptor(q), t)
    [] IsStandard(q, "GET_CONFIGURATION") ->
         TxWrite(t, 0, [kind |-> "conf"])
    [] IsStandard(q, "SET_INTERFACE")   -> TxSend(t, 0, 1)
    [] IsStandard(q, "SET_CONFIGURATION") -> TxSend(ConfigureTx(t), 0, 1)
    [] q.type \in {"class", "vendor"}   -> TxSend(t, 0, 1)
    [] OTHER                            -> t

\* Stage 2 transfers, bmRequestType = 0x00, always get a zero-length DATA1.
\* Mutant: no zero-length packet after a stage 2 transfer.
NoStatusTx(q, t) == t

StatusTx(q, t) == IF q.zero THEN TxSend(t, 0, 1) ELSE t

\* EPC0.STALL falls with every SETUP packet and rises for what is refused.
\* Mutant: it stays once it is set.
StickyStall(q) == stall \/ Unsupported(q)
StallAfter(q)  == Unsupported(q)

ReceiveFIFO0Setup ==
  /\ isr = "rx" /\ 0 \in rxev /\ rx[0].pkt.kind = "setup"
  /\ LET q == rx[0].pkt.req
         r == RxFlush(rx, 0)
         t == TxFlush(tx, 0)
     IN /\ tx' = StatusTx(q, AnswerTx(q, t))
        /\ rx' = CASE IsGetDescriptor(q) -> TransmitRx(GetDescriptor(q), r)
                   [] IsStandard(q, "SET_CONFIGURATION") -> ConfigureRx(r)
                   [] OTHER -> r
        /\ ep0tx' = IF IsGetDescriptor(q)
                    THEN TransmitEp(GetDescriptor(q)) ELSE ep0tx
        /\ stall' = StallAfter(q)
        /\ IF IsStandard(q, "SET_ADDRESS")
           THEN def' = TRUE /\ far' = q.val
           ELSE UNCHANGED <<def, far>>
        /\ configured' = (configured \/ IsStandard(q, "SET_CONFIGURATION"))
  /\ rxev' = rxev \ {0}
  /\ isr' = "unmask"
  /\ UNCHANGED <<txev, altev, nakev, altmsk, txack, nfs, received, apptx>>
  /\ LatchEdge

\* _USBNReceiveFIFO0, an OUT packet: the status stage of a control read.  Only
\* the end of a multi-packet transfer re-arms the receiver.
ReceiveFIFO0Status ==
  /\ isr = "rx" /\ 0 \in rxev /\ rx[0].pkt.kind # "setup"
  /\ IF ep0tx.size > Ep0Fifo
     THEN /\ ep0tx' = [ep0tx EXCEPT !.size = 0]
          /\ tx' = TxFlush(tx, 0)
          /\ rx' = RxEnable(rx, 0)
     ELSE UNCHANGED <<ep0tx, tx, rx>>
  /\ rxev' = rxev \ {0}
  /\ isr' = "unmask"
  /\ UNCHANGED <<txev, altev, nakev, altmsk, txack, control, received, apptx>>
  /\ LatchEdge

\* _USBNReceiveEvent, FIFO 1: hand the packet to the application's function,
\* then arm the receiver again.
\* Mutants: RXS1 is not read, so the event stays; the receiver is not armed.
ReceiveUnread ==
  /\ isr = "rx" /\ 0 \notin rxev
  /\ received' = Append(received, rx[1].pkt)
  /\ rx' = RxEnable(RxFlush(rx, 1), 1)
  /\ isr' = "unmask"
  /\ UNCHANGED <<events, altmsk, tx, txack, control, ep0tx, apptx>>
  /\ LatchEdge
ReceiveUnarmed ==
  /\ isr = "rx" /\ 0 \notin rxev
  /\ received' = Append(received, rx[1].pkt)
  /\ rx' = RxFlush(rx, 1)
  /\ rxev' = rxev \ {1}
  /\ isr' = "unmask"
  /\ UNCHANGED <<txev, altev, nakev, altmsk, tx, txack, control, ep0tx, apptx>>
  /\ LatchEdge

ReceiveFIFO1 ==
  /\ isr = "rx" /\ 0 \notin rxev
  /\ received' = Append(received, rx[1].pkt)
  /\ rx' = RxEnable(RxFlush(rx, 1), 1)
  /\ rxev' = rxev \ {1}
  /\ isr' = "unmask"
  /\ UNCHANGED <<txev, altev, nakev, altmsk, tx, txack, control, ep0tx, apptx>>
  /\ LatchEdge

-----------------------------------------------------------------------------
(* _USBNTransmitEvent *)

\* _USBNTransmitFIFO0: the next packet after an ACK, else the receiver.
TransmitFIFO0 ==
  /\ isr = "tx" /\ 0 \in txev
  /\ LET more == txack /\ ep0tx.idx < ep0tx.size IN
     /\ tx' = IF more THEN TransmitTx(ep0tx, tx) ELSE TxFlush(tx, 0)
     /\ rx' = IF more THEN TransmitRx(ep0tx, rx) ELSE RxEnable(rx, 0)
     /\ ep0tx' = IF more THEN TransmitEp(ep0tx) ELSE ep0tx
  /\ txev' = txev \ {0}
  /\ isr' = "unmask"
  /\ UNCHANGED <<rxev, altev, nakev, altmsk, txack, control, received, apptx>>
  /\ LatchEdge

\* FIFO 1: tell the application that it may send again.
\* Mutant: the callback is not called.
TransmitUntold ==
  /\ isr = "tx" /\ 0 \notin txev
  /\ txev' = txev \ {1}
  /\ isr' = "unmask"
  /\ UNCHANGED <<rxev, altev, nakev, altmsk, rx, tx, txack, control, ep0tx,
                 received, apptx>>
  /\ LatchEdge

TransmitFIFO1 ==
  /\ isr = "tx" /\ 0 \notin txev
  /\ apptx' = TRUE
  /\ txev' = txev \ {1}
  /\ isr' = "unmask"
  /\ UNCHANGED <<rxev, altev, nakev, altmsk, rx, tx, txack, control, ep0tx,
                 received>>
  /\ LatchEdge

-----------------------------------------------------------------------------
(* _USBNAlternateEvent: ALTEV is read whole, one of its events is handled. *)

\* Mutants: the address survives; the node is left in its reset state.
ResetKeepsAddress ==
  /\ "RESET" \in altev
  /\ def' = FALSE /\ stall' = FALSE
  /\ tx' = TxFlush(tx, 0)
  /\ rx' = RxEnable(rx, 0)
  /\ nfs' = "OPR"
  /\ UNCHANGED <<far, altmsk>>
ResetStaysReset ==
  /\ "RESET" \in altev
  /\ far' = 0 /\ def' = FALSE /\ stall' = FALSE
  /\ tx' = TxFlush(tx, 0)
  /\ rx' = RxEnable(rx, 0)
  /\ nfs' = "RST"
  /\ UNCHANGED altmsk

Reset ==
  /\ "RESET" \in altev
  /\ far' = 0 /\ def' = FALSE /\ stall' = FALSE
  /\ tx' = TxFlush(tx, 0)
  /\ rx' = RxEnable(rx, 0)
  /\ nfs' = "OPR"
  /\ UNCHANGED altmsk

\* Mutant: a reset cannot wake the node.
SuspendDeaf ==
  /\ "RESET" \notin altev /\ "SD3" \in altev
  /\ altmsk' = {"RESUME"}
  /\ nfs' = "SUS"
  /\ UNCHANGED <<far, def, stall, tx, rx>>

SuspendDetect ==
  /\ "RESET" \notin altev /\ "SD3" \in altev
  /\ altmsk' = {"RESUME", "RESET"}
  /\ nfs' = "SUS"
  /\ UNCHANGED <<far, def, stall, tx, rx>>

\* Mutant: the next suspend is not seen.
ResumeForgets ==
  /\ altev \cap {"RESET", "SD3"} = {} /\ "RESUME" \in altev
  /\ altmsk' = {"RESUME", "RESET"}
  /\ nfs' = "OPR"
  /\ UNCHANGED <<far, def, stall, tx, rx>>

ResumeDetect ==
  /\ altev \cap {"RESET", "SD3"} = {} /\ "RESUME" \in altev
  /\ altmsk' = {"SD3", "RESET"}
  /\ nfs' = "OPR"
  /\ UNCHANGED <<far, def, stall, tx, rx>>

EndOfPacket ==
  /\ altev \cap {"RESET", "SD3", "RESUME"} = {}
  /\ UNCHANGED <<far, def, stall, tx, rx, nfs, altmsk>>

AlternateEvent ==
  /\ isr = "alt"
  /\ Reset \/ SuspendDetect \/ ResumeDetect \/ EndOfPacket
  /\ altev' = {}
  /\ isr' = "unmask"
  /\ UNCHANGED <<rxev, txev, nakev, txack, configured, ep0tx, received, apptx>>
  /\ LatchEdge

\* _USBNNackEvent only reads the register.
NackEvent ==
  /\ isr = "nak"
  /\ nakev' = FALSE
  /\ isr' = "unmask"
  /\ UNCHANGED <<rxev, txev, altev, altmsk, rx, tx, txack, control, ep0tx,
                 received, apptx>>
  /\ LatchEdge

Handler ==
  \/ ReceiveFIFO0Setup \/ ReceiveFIFO0Status \/ ReceiveFIFO1
  \/ TransmitFIFO0 \/ TransmitFIFO1
  \/ AlternateEvent \/ NackEvent

Interrupt == EnterInterrupt \/ ReadMaev \/ Handler \/ RewriteMask

\* No event is waiting for the firmware and it is not working on one.
Quiet == isr = "idle" /\ ~irq /\ ~Pending

FirmwareTypeOK ==
  /\ ChipTypeOK
  /\ isr \in {"idle", "dispatch", "rx", "tx", "alt", "nak", "unmask"}
  /\ ep0tx \in EpInfo
  /\ received \in Seq(RxPackets)
  /\ apptx \in BOOLEAN
=============================================================================
