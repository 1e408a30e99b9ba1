------------------------------- MODULE UsbBus -------------------------------
(***************************************************************************)
(* The bus beside the control transfers: a host that configures the device *)
(* and then sends bulk OUT packets, polls the bulk IN endpoint, suspends,  *)
(* resumes and resets the bus, and the application's main loop that sends  *)
(* on FIFO 1 whenever the transmit callback has given it leave.            *)
(***************************************************************************)
EXTENDS Usbn960x

CONSTANTS
  SetConfiguration,  \* the SET_CONFIGURATION request, one of Requests
  RegisteredOut,     \* the receive FIFOs given to USBNAddOutEndpoint
  MaxOut,            \* bound: bulk OUT packets of a behaviour
  MaxConfigurations  \* bound: SET_CONFIGURATION requests of a behaviour

ASSUME BusAssumption ==
  /\ SetConfiguration \in Requests
  /\ SetConfiguration.type = "standard"
  /\ SetConfiguration.code = "SET_CONFIGURATION"
  /\ SetConfiguration.zero
  /\ MaxOut \in Nat /\ MaxConfigurations \in Nat
  /\ RegisteredOut \subseteq 1..3

VARIABLES
  bus,       \* what the host drives: active, suspended
  due,       \* history: the packets acknowledged, Empty for one lost to a flush
  settling,  \* SET_CONFIGURATION sent, its status stage still to come
  configs,   \* SET_CONFIGURATION requests sent
  cutshort,  \* history: has a reset ended a suspend?
  starved    \* history: has a configuration flushed a packet of the application's?

busVars == <<bus, due, settling, configs, cutshort, starved>>
vars    == <<vars960x, busVars>>

\* The node sees packets: traffic on the bus, and it is not in its suspend state.
Listening == bus = "active" /\ nfs = "OPR"

Init ==
  /\ Init960x
  /\ bus = "active"
  /\ due = <<>>
  /\ settling = FALSE
  /\ configs = 0
  /\ cutshort = FALSE /\ starved = FALSE

\* A host configures the device whenever it is not just doing so, also when the
\* firmware has not got round to a bulk packet yet.
Configure ==
  /\ Listening /\ ~settling /\ configs < MaxConfigurations
  /\ ReceiveSetup(SetConfiguration)
  /\ configs' = configs + 1
  /\ settling' = TRUE
  /\ UNCHANGED <<firmwareVars, bus, due, cutshort, starved>>

StatusIn ==
  /\ Listening /\ settling
  /\ SendIn(0, TRUE)
  /\ settling' = FALSE
  /\ UNCHANGED <<firmwareVars, bus, due, configs, cutshort, starved>>

\* Where the event of a flushed packet still waits, the new one goes under it.
BulkOut(d) ==
  LET pkt == [kind |-> "out", data |-> d] IN
  /\ Listening /\ configured /\ ~settling /\ Len(due) < MaxOut
  /\ ReceiveOut(1, pkt)
  /\ due' = IF 1 \in rxev THEN [due EXCEPT ![Len(due)] = pkt] ELSE Append(due, pkt)
  /\ UNCHANGED <<firmwareVars, bus, settling, configs, cutshort, starved>>

BulkIn ==
  /\ Listening /\ configured
  /\ SendIn(1, TRUE)
  /\ UNCHANGED <<firmwareVars, busVars>>

\* The main loop runs between interrupts: flag down, FIFO filled, sent with the
\* DATA PID of the application's own toggle, of which nothing is assumed here.
AppSend(d, pid) ==
  /\ isr = "idle" /\ apptx /\ configured
  /\ apptx' = FALSE
  /\ tx' = TxSend(TxWrite(TxFlush(tx, 1), 1, [kind |-> "in", data |-> d]), 1,
                pid)
  /\ UNCHANGED <<events, altmsk, irq, rx, txack, control, isr, ep0tx, received,
                 busVars>>

\* The host lets the device finish before it changes the state of the bus: 3 ms
\* of silence, 10 ms and more of resume or reset.
Suspend ==
  /\ bus = "active" /\ Quiet
  /\ Signal("SD3")
  /\ bus' = "suspended"
  /\ UNCHANGED <<firmwareVars, due, settling, configs, cutshort, starved>>

Resume ==
  /\ bus = "suspended" /\ Quiet
  /\ Signal("RESUME")
  /\ bus' = "active"
  /\ UNCHANGED <<firmwareVars, due, settling, configs, cutshort, starved>>

BusReset ==
  /\ Quiet
  /\ Signal("RESET")
  /\ bus' = "active"
  /\ settling' = FALSE
  /\ cutshort' = (cutshort \/ bus = "suspended")
  /\ UNCHANGED <<firmwareVars, due, configs, starved>>

\* Every packet on the bus ends with an EOP.
Eop ==
  /\ bus = "active" /\ "EOP" \notin altev
  /\ Signal("EOP")
  /\ UNCHANGED <<firmwareVars, busVars>>

\* A SETUP packet is handled, which here is SET_CONFIGURATION: it goes before a
\* packet on FIFO 1 and flushes both of its FIFOs (_USBNSetConfiguration), not the
\* event of the packet.
Configures == isr = "rx" /\ 0 \in rxev

Firmware ==
  /\ Interrupt
  /\ due' = IF Configures /\ 1 \in rxev THEN [due EXCEPT ![Len(due)] = Empty] ELSE due
  /\ starved' = (starved \/ (Configures /\ tx[1].en))
  /\ UNCHANGED <<bus, settling, configs, cutshort>>

Next ==
  \/ Firmware
  \/ Configure \/ StatusIn
  \/ \E d \in Data : BulkOut(d) \/ \E pid \in {0, 1} : AppSend(d, pid)
  \/ BulkIn
  \/ Suspend \/ Resume \/ BusReset \/ Eop

Spec == Init /\ [][Next]_vars

\* Interrupts are taken and handled; the host resumes what it suspended and
\* polls the IN endpoint of an active bus.
FairSpec == Spec /\ WF_vars(Firmware) /\ WF_vars(Resume) /\ SF_vars(BulkIn)

-----------------------------------------------------------------------------
(* Properties *)

TypeOK ==
  /\ FirmwareTypeOK
  /\ bus \in {"active", "suspended"}
  /\ due \in Seq(RxPackets)
  /\ settling \in BOOLEAN
  /\ configs \in 0..MaxConfigurations
  /\ cutshort \in BOOLEAN /\ starved \in BOOLEAN

\* Of any number of event classes pending at once, none is forgotten when
\* USBNInterrupt returns (usbnapi.c: one class per interrupt, edge-triggered).
NoLostInterrupt == isr = "idle" /\ Pending => irq

InFlight == IF 1 \in rxev THEN <<rx[1].pkt>> ELSE <<>>

\* Every bulk packet the chip acknowledged reaches the registered function once
\* and in order, whatever resets and suspends happen.  The one exception is the
\* code's: a packet still unhandled when a SET_CONFIGURATION is handled is lost,
\* and the function is called for it with an empty FIFO, unless the next packet has
\* come by then.
OutDeliveredOnce == received \o InFlight = due

\* FIFO 1 never stays deaf: a quiet configured device can take OUT data.
ReceiverRearmed == Quiet /\ configured => rx[1].en

\* A suspended node can always be woken by a resume or a reset.
WakeEnabled == nfs = "SUS" => {"RESUME", "RESET"} \subseteq altmsk

\* A quiet node is suspended exactly when the bus is, as long as no reset has
\* ended a suspend: such a reset leaves SD3 masked, the next suspend goes unseen,
\* and the resume after it then puts the node to sleep on an active bus, as SD3
\* is still in ALTEV and is looked at first.
SuspendAgrees ==
  Quiet /\ ~cutshort => (nfs = "SUS" <=> bus = "suspended")

\* An endpoint whose function was registered with USBNAddOutEndpoint can
\* receive once the device is configured (README, line 49).
RegisteredCanReceive ==
  Quiet /\ configured => \A n \in RegisteredOut : n \in RxFifos /\ rx[n].en

\* The transmit callback an application waits for comes when the host polls the
\* endpoint, unless the node is asleep on an active bus or a SET_CONFIGURATION has
\* flushed a packet before the host had it.
AppMaySendAgain == ~apptx ~> apptx \/ cutshort \/ starved
=============================================================================
