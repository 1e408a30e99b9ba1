------------------------------ MODULE UsbnChip ------------------------------
(***************************************************************************)
(* The USBN9603/9604 USB node controller, as the firmware in               *)
(* firmware/usbn960x drives it.  The chip is hardware: nothing of it is in *)
(* the repository, so every definition here is external and says only what *)
(* the drivers rely on.                                                    *)
(*                                                                         *)
(*  - An event register (RXEV, TXEV, ALTEV, NAKEV) is a set of pending     *)
(*    bits.  Reading RXSn or TXSn takes the bit of FIFO n out of RXEV or   *)
(*    TXEV; reading ALTEV or NAKEV empties it.                             *)
(*  - The INT pin is low while an event whose mask bit is set is pending   *)
(*    and MAMSK is open.  The controllers are wired to it edge-triggered   *)
(*    (MCUCR |= 1 << ISC01), so `irq' is the interrupt flag the edge sets. *)
(*  - RX_EN and TX_EN are one-shot: a packet received or sent clears them. *)
(*    A SETUP packet is always received.                                   *)
(*                                                                         *)
(* Only FIFOs 0 and 1 of each direction are modelled: with this firmware   *)
(* no code arms another one.                                               *)
(***************************************************************************)
EXTENDS Naturals, FiniteSets, Sequences

CONSTANTS
  Requests,      \* the control requests the host may send
  DescLen,       \* bytes of each descriptor of the device, by name
  Data,          \* payloads of bulk packets
  Addresses,     \* the function addresses the host assigns
  SetupDisarms   \* does a SETUP packet switch the FIFO 0 transmitter off?

ASSUME ChipAssumption ==
  /\ Addresses \subseteq Nat \ {0}
  /\ SetupDisarms \in BOOLEAN

VARIABLES
  rxev, txev,      \* RXEV, TXEV: FIFO numbers with a pending event
  altev, nakev,    \* ALTEV as a set of event names, NAKEV.NAK_OUT0
  altmsk,          \* ALTMSK
  irq,             \* the controller's latched external interrupt
  rx, tx,          \* receive and transmit FIFOs
  txack,           \* TXS0.ACK_STAT of the last FIFO 0 transmission
  far, def,        \* FAR address, EPC0.DEF
  stall,           \* EPC0.STALL
  nfs,             \* NFSR: node operational or suspended
  configured       \* EPC1, EPC2 and EPC5 enabled

events   == <<rxev, txev, altev, nakev>>
control  == <<far, def, stall, nfs, configured>>
chipVars == <<events, altmsk, irq, rx, tx, txack, control>>

RxFifos   == {0, 1}
TxFifos   == {0, 1}
AltEvents == {"RESET", "SD3", "RESUME", "EOP"}

\* What a control packet is cut from: a descriptor, or nothing yet.
Descriptors == DOMAIN DescLen
Buffers     == Descriptors \cup {"none"}

\* The content of a FIFO: nothing, a SETUP packet or OUT data on the receive
\* side; a slice of a descriptor, the configuration index or a payload on
\* the transmit side.  A
\* zero-length packet is an empty FIFO sent.
Empty     == [kind |-> "empty"]
RxPackets == [kind : {"setup"}, req : Requests]
               \cup [kind : {"out"}, data : Data] \cup {Empty}
TxPackets == [kind : {"desc"}, src : Buffers, from : Nat, len : Nat]
               \cup [kind : {"in"}, data : Data]
               \cup {Empty, [kind |-> "conf"]}

RxFifo == [en : BOOLEAN, pkt : RxPackets]
TxFifo == [en : BOOLEAN, pid : {0, 1}, pkt : TxPackets]

\* MAEV with the masks applied.  RXMSK and TXMSK hold all four FIFO bits and
\* NAKMSK holds NAK_OUT0 from USBNStart on; only ALTMSK changes.
AltPending == altev \cap altmsk # {}
Pending    == rxev # {} \/ txev # {} \/ AltPending \/ nakev

\* A falling edge of INT, seen by the controller, latches the interrupt.
\* MAMSK is open in the states between two actions.
LatchEdge == irq' = (irq \/ (~Pending /\ Pending'))

\* RXCn := FLUSH and RXCn := RX_EN.
RxFlush(r, n)  == [r EXCEPT ![n] = [en |-> FALSE, pkt |-> Empty]]
RxEnable(r, n) == [r EXCEPT ![n].en = TRUE]

\* TXCn := FLUSH, bytes written to TXDn, TXCn := TX_EN (+ TX_TOGL for DATA1).
TxFlush(t, n)      == [t EXCEPT ![n] = [en |-> FALSE, pid |-> 0, pkt |-> Empty]]
TxWrite(t, n, pkt) == [t EXCEPT ![n].pkt = pkt]
TxSend(t, n, pid)  == [t EXCEPT ![n].en = TRUE, ![n].pid = pid]

(***************************************************************************)
(* What the bus does to the chip.                                          *)
(***************************************************************************)

\* A SETUP packet: FIFO 0 takes it in any state, and TX_EN may fall.
ReceiveSetup(req) ==
  /\ rx' = [rx EXCEPT ![0] = [en |-> FALSE,
                              pkt |-> [kind |-> "setup", req |-> req]]]
  /\ rxev' = rxev \cup {0}
  /\ tx' = IF SetupDisarms THEN [tx EXCEPT ![0].en = FALSE] ELSE tx
  /\ UNCHANGED <<txev, altev, nakev, altmsk, txack, control>>
  /\ LatchEdge

\* An OUT packet for an armed receiver: stored, and the receiver switches off.
ReceiveOut(n, pkt) ==
  /\ rx[n].en
  /\ rx' = [rx EXCEPT ![n] = [en |-> FALSE, pkt |-> pkt]]
  /\ rxev' = rxev \cup {n}
  /\ UNCHANGED <<txev, altev, nakev, altmsk, tx, txack, control>>
  /\ LatchEdge

\* An OUT packet for FIFO 0 while the receiver is off is answered with NAK.
NakOut0 ==
  /\ ~rx[0].en
  /\ nakev' = TRUE
  /\ UNCHANGED <<rxev, txev, altev, altmsk, rx, tx, txack, control>>
  /\ LatchEdge

\* An IN token for an armed transmitter: the packet goes out once; ack says
\* whether the host's handshake came back.  The first acknowledged IN on
\* FIFO 0 ends the transition to a new address (EPC0.DEF falls).
SendIn(n, ack) ==
  /\ tx[n].en
  /\ tx' = [tx EXCEPT ![n].en = FALSE]
  /\ txev' = txev \cup {n}
  /\ txack' = IF n = 0 THEN ack ELSE txack
  /\ def' = (def /\ ~(n = 0 /\ ack))
  /\ UNCHANGED <<rxev, altev, nakev, altmsk, rx, far, stall, nfs, configured>>
  /\ LatchEdge

\* A token for a stalled control endpoint: a STALL handshake, reported as a
\* transmission without acknowledge.
SendStall ==
  /\ stall
  /\ txev' = txev \cup {0}
  /\ txack' = FALSE
  /\ UNCHANGED <<rxev, altev, nakev, altmsk, rx, tx, control>>
  /\ LatchEdge

\* Bus signalling: reset, 3 ms of silence, resume, end of packet.
Signal(e) ==
  /\ altev' = altev \cup {e}
  /\ UNCHANGED <<rxev, txev, nakev, altmsk, rx, tx, txack, control>>
  /\ LatchEdge

ChipTypeOK ==
  /\ rxev \subseteq RxFifos
  /\ txev \subseteq TxFifos
  /\ altev \subseteq AltEvents
  /\ nakev \in BOOLEAN
  /\ altmsk \subseteq AltEvents
  /\ irq \in BOOLEAN
  /\ rx \in [RxFifos -> RxFifo]
  /\ tx \in [TxFifos -> TxFifo]
  /\ txack \in BOOLEAN
  /\ far \in Addresses \cup {0}
  /\ def \in BOOLEAN
  /\ stall \in BOOLEAN
  /\ nfs \in {"OPR", "SUS"}
  /\ configured \in BOOLEAN
=============================================================================
