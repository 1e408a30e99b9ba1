-------------------------- MODULE UsbControlProofs --------------------------
(***************************************************************************)
(* Invariants of control transfers, for every set of requests and          *)
(* descriptors, every host that keeps the protocol, patient or not, with   *)
(* any of the faults; and of the same host against either stack.           *)
(***************************************************************************)
EXTENDS UsbnTiny, Usbn960xProofs, SequenceTheorems

HostTypeOK ==
  /\ stage \in {"idle", "in", "out", "statin"}
  /\ req \in Requests
  /\ got \in Seq(TxPackets)
  /\ tog \in {0, 1}
  /\ haddr \in Addresses \cup {0}
  /\ result \in {"none", "ok", "babble", "error", "stall", "aborted", "reset"}
  /\ transfers \in 0..MaxTransfers
  /\ faults \subseteq Faults

\* The inductive invariant: ArmedSliceIsCurrent alone does not say where EP0tx
\* stands before the next packet is cut, which SliceCurrent adds.
Inv == FirmwareTypeOK /\ HostTypeOK /\ InterruptComing /\ SliceCurrent

\* USBNStart leaves the invariant true.
LEMMA InitInv == Init => Inv
<1> SUFFICES ASSUME Init PROVE Inv
  OBVIOUS
<1>1. FirmwareTypeOK /\ InterruptComing
  BY StartState DEF Init
<1>2. got \in Seq(TxPackets)
  <2>1. got = <<>>
    BY DEF Init
  <2> QED BY <2>1
<1>3. SliceCurrent
  BY DEF Init, Init960x, SliceCurrent, Aligned, Fits, TxFifos
<1> QED BY <1>1, <1>2, <1>3, ControlAssumption DEF Init, Inv, HostTypeOK

\* What the host does keeps the host's state in its types.
LEMMA HostTypes ==
  ASSUME Inv, Next
  PROVE  HostTypeOK'
<1> USE DEF Inv, HostTypeOK
<1>1. ASSUME NEW q \in Requests, SendSetup(q)
      PROVE  HostTypeOK'
  <2>1. got' \in Seq(TxPackets)
    <3>1. got' = <<>>
      BY <1>1 DEF SendSetup
    <3> QED BY <3>1
  <2>2. transfers' \in 0..MaxTransfers
    BY <1>1, ControlAssumption DEF SendSetup
  <2> QED BY <1>1, <2>1, <2>2 DEF SendSetup
<1>2. ASSUME NEW ack \in BOOLEAN, DataIn(ack)
      PROVE  HostTypeOK'
  <2>1. tx[0].pkt \in TxPackets
    BY DEF FirmwareTypeOK, ChipTypeOK, TxFifos, TxFifo
  <2>2. Append(got, tx[0].pkt) \in Seq(TxPackets)
    BY <2>1
  <2> QED BY <1>2, <2>2 DEF DataIn, TakeData
<1>3. ASSUME NEW ack \in BOOLEAN, StatusIn(ack)
      PROVE  HostTypeOK'
  BY <1>3, FirmwareAssumption DEF StatusIn
<1>4. CASE StatusOut
  BY <1>4 DEF StatusOut
<1>5. CASE StatusOutNak
  BY <1>5 DEF StatusOutNak, hostVars
<1>6. CASE Stalled
  BY <1>6 DEF Stalled
<1>7. CASE GiveUp
  BY <1>7 DEF GiveUp
<1>8. CASE BusReset
  BY <1>8 DEF BusReset
<1>9. CASE Firmware
  BY <1>9 DEF Firmware, hostVars
<1> QED BY <1>1, <1>2, <1>3, <1>4, <1>5, <1>6, <1>7, <1>8, <1>9 DEF Next, Tokens

\* A token on the bus is one of the chip's events; the firmware does not move.
LEMMA HostStep ==
  ASSUME Inv, Next, ~Firmware, ~GiveUp
  PROVE  /\ ChipTypeOK' /\ LatchEdge
         /\ UNCHANGED firmwareVars
         /\ SliceCurrent'
<1>0. ChipTypeOK /\ irq \in BOOLEAN
  BY DEF Inv, FirmwareTypeOK, ChipTypeOK
<1> DEFINE Event == \/ \E q \in Requests : ReceiveSetup(q)
                    \/ \E n \in RxFifos, p \in RxPackets : ReceiveOut(n, p)
                    \/ NakOut0
                    \/ \E n \in TxFifos, ack \in BOOLEAN : SendIn(n, ack)
                    \/ SendStall
                    \/ \E e \in AltEvents : Signal(e)
<1>1. Event /\ UNCHANGED firmwareVars
  <2>1. ASSUME NEW q \in Requests, SendSetup(q)
        PROVE  Event /\ UNCHANGED firmwareVars
    BY <2>1 DEF SendSetup
  <2>2. ASSUME NEW ack \in BOOLEAN, DataIn(ack) \/ StatusIn(ack)
        PROVE  Event /\ UNCHANGED firmwareVars
    BY <2>2 DEF DataIn, StatusIn, TxFifos
  <2>3. CASE StatusOut
    BY <2>3 DEF StatusOut, RxFifos, RxPackets
  <2>4. CASE StatusOutNak \/ Stalled
    BY <2>4 DEF StatusOutNak, Stalled
  <2>5. CASE BusReset
    BY <2>5 DEF BusReset, AltEvents
  <2> QED BY <2>1, <2>2, <2>3, <2>4, <2>5 DEF Next, Tokens
<1>2. ep0tx' = ep0tx
  BY <1>1 DEF firmwareVars
<1> QED BY <1>0, <1>1, <1>2, BusEventTypes, BusEventKeepsSlice DEF Inv

\* Every step of firmware or host keeps it.
LEMMA NextInv == Inv /\ [Next]_vars => Inv'
<1> SUFFICES ASSUME Inv, [Next]_vars PROVE Inv'
  OBVIOUS
<1>1. CASE Firmware
  BY <1>1, InterruptTypes, FirmwareKeepsInterrupt, InterruptKeepsSlice, HostTypes
     DEF Inv, Firmware, Next
<1>2. CASE GiveUp
  <2>1. HostTypeOK'
    BY <1>2, HostTypes DEF Next
  <2>2. UNCHANGED vars960x
    BY <1>2 DEF GiveUp
  <2> QED
    BY <2>1, <2>2 DEF Inv, vars960x, chipVars, firmwareVars, events, control,
         FirmwareTypeOK, ChipTypeOK, InterruptComing, Pending, AltPending, SliceCurrent
<1>3. CASE Next /\ ~Firmware /\ ~GiveUp
  <2>1. ChipTypeOK' /\ LatchEdge /\ UNCHANGED firmwareVars /\ SliceCurrent'
    BY <1>3, HostStep
  <2>2. FirmwareTypeOK'
    BY <2>1 DEF Inv, FirmwareTypeOK, firmwareVars
  <2>3. InterruptComing'
    BY <2>1, LatchKeepsInterrupt DEF Inv, FirmwareTypeOK, ChipTypeOK, firmwareVars
  <2> QED BY <1>3, <2>1, <2>2, <2>3, HostTypes DEF Inv
<1>4. CASE UNCHANGED vars
  BY <1>4 DEF vars, hostVars, vars960x, chipVars, firmwareVars, events, control, Inv,
       HostTypeOK, FirmwareTypeOK, ChipTypeOK, InterruptComing, Pending, AltPending, SliceCurrent
<1> QED BY <1>1, <1>2, <1>3, <1>4

\* Every variable of the chip, the firmware and the host keeps its type.  Of Index
\* in EP0tx this says no more than that it is a number; StackTypeCorrect does.
THEOREM TypeCorrect == Spec => []TypeOK
<1>1. Inv => TypeOK
  BY DEF Inv, TypeOK, HostTypeOK
<1> QED BY <1>1, InitInv, NextInv, PTL DEF Spec

\* No pending event is left without an interrupt of its own when USBNInterrupt
\* returns, for any number of events and any interleaving with the bus.
THEOREM NoInterruptLost == Spec => []NoLostInterrupt
<1>1. Inv => NoLostInterrupt
  BY DEF Inv, InterruptComing, NoLostInterrupt
<1> QED BY <1>1, InitInv, NextInv, PTL DEF Spec

\* Every descriptor packet that is armed is the slice EP0tx ended at, with the
\* PID of its place, whatever the lengths of the descriptors and however late
\* the events of an earlier transfer are handled.
THEOREM SlicesCurrent == Spec => []ArmedSliceIsCurrent
<1>1. Inv => ArmedSliceIsCurrent
  BY DEF Inv, SliceCurrent, Fits, ArmedSliceIsCurrent, Ep0Fifo
<1> QED BY <1>1, InitInv, NextInv, PTL DEF Spec

-----------------------------------------------------------------------------
(* Either stack: types and slices                                           *)

\* The tiny stack sends on from where EP0tx was left: never behind its end.
IndexInv == ep0tx.size > 0 => ep0tx.idx <= ep0tx.size

\* A SETUP packet in the FIFO is one a host sends to this stack.
AskedInv == rx[0].pkt.kind = "setup" => rx[0].pkt.req \in Asked[tiny]

StackInv ==
  /\ Inv
  /\ tiny \in BOOLEAN /\ wasReset \in BOOLEAN
  /\ IndexInv
  /\ AskedInv

\* A packet more of EP0tx keeps the place inside the descriptor.
LEMMA TransmitIndex ==
  ASSUME NEW e \in EpInfo, e.size > 0 => e.idx <= e.size
  PROVE  TransmitEp(e).size > 0 => TransmitEp(e).idx <= TransmitEp(e).size
<1>1. CASE e.size > 0
  <2>1. /\ TransmitEp(e).idx = e.idx + Chunk(e) /\ TransmitEp(e).size = e.size
        /\ e.idx \in Nat /\ e.size \in Nat
    BY <1>1 DEF TransmitEp, EpInfo
  <2>2. e.idx + Chunk(e) <= e.size
    BY <1>1, <2>1 DEF Chunk, Lesser, Ep0Fifo
  <2> QED BY <2>1, <2>2
<1>2. CASE ~(e.size > 0)
  BY <1>2 DEF TransmitEp
<1> QED BY <1>1, <1>2

\* What the tiny stack sends from is in order, also when it is what a request
\* before left.
LEMMA LoadedType ==
  ASSUME StackInv, NEW q \in Requests
  PROVE  /\ Loaded(q) \in EpInfo
         /\ Loaded(q).size > 0 => Loaded(q).idx <= Loaded(q).size
         /\ Aligned(Loaded(q))
<1>1. ep0tx \in EpInfo /\ Aligned(ep0tx) /\ (ep0tx.size > 0 => ep0tx.idx <= ep0tx.size)
  BY DEF StackInv, Inv, FirmwareTypeOK, SliceCurrent, IndexInv
<1>2. CASE Loaded(q) = [buf |-> "REPORT", idx |-> 0, size |-> DescLen["REPORT"], pid |-> 1]
  <2>1. "REPORT" \in Buffers /\ DescLen["REPORT"] \in Nat
    BY AskedAssumption, FirmwareAssumption DEF Buffers
  <2> QED BY <1>2, <2>1 DEF EpInfo, Aligned
<1>3. CASE Loaded(q) = ep0tx
  BY <1>1, <1>3
<1>4. CASE Loaded(q) = GetDescriptor(q)
  <2>1. GetDescriptor(q) \in EpInfo /\ GetDescriptor(q).idx = 0 /\ GetDescriptor(q).pid = 1
    <3>1. GetDescriptor(q) \in EpInfo /\ GetDescriptor(q).idx = 0
      BY GetDescriptorType DEF StackInv, Inv
    <3>2. GetDescriptor(q).pid = 1
      BY <1>1 DEF GetDescriptor, EpInfo
    <3> QED BY <3>1, <3>2
  <2> QED BY <1>4, <2>1 DEF EpInfo, Aligned
<1>5. CASE Loaded(q) = [ep0tx EXCEPT !.idx = 0, !.pid = 1]
  <2> DEFINE e == [ep0tx EXCEPT !.idx = 0, !.pid = 1]
  <2>1. e \in EpInfo /\ e.idx = 0 /\ e.pid = 1
    BY <1>1 DEF EpInfo
  <2>2. Loaded(q) = e
    BY <1>5
  <2> HIDE DEF e
  <2> QED BY <2>1, <2>2 DEF EpInfo, Aligned
<1> QED BY <1>2, <1>3, <1>4, <1>5 DEF Loaded

\* _USBNTransmit of the tiny stack arms the slice EP0tx ends at, or none.
LEMMA TinyTransmit ==
  ASSUME NEW e \in EpInfo, Aligned(e), e.size > 0 => e.idx <= e.size,
         NEW t \in [TxFifos -> TxFifo], t[0].pkt = Empty, ~t[0].en
  PROVE  /\ TinyTransmitTx(e, t) \in [TxFifos -> TxFifo]
         /\ Aligned(TransmitEp(e))
         /\ Fits(TransmitEp(e), TinyTransmitTx(e, t)[0])
<1>0. 0 \in TxFifos /\ e.pid \in {0, 1} /\ e.idx \in Nat /\ e.size \in Nat
  BY DEF TxFifos, EpInfo
<1>1. CASE e.size > 0 /\ e.idx = e.size
  <2>1. TinyTransmitTx(e, t) = TxSend(t, 0, e.pid)
    BY <1>1 DEF TinyTransmitTx
  <2>2. TxSend(t, 0, e.pid) \in [TxFifos -> TxFifo] /\ TxSend(t, 0, e.pid)[0].pkt = Empty
    <3>1. TxSend(t, 0, e.pid) \in [TxFifos -> TxFifo]
      BY <1>0, TxOperations
    <3>2. TxSend(t, 0, e.pid)[0].pkt = Empty
      BY <1>0 DEF TxSend, TxFifo
    <3> QED BY <3>1, <3>2
  <2>3. TransmitEp(e).idx = e.size /\ TransmitEp(e).size = e.size
    BY <1>0, <1>1 DEF TransmitEp, Chunk, Lesser, Ep0Fifo, EpInfo
  <2> QED BY <1>0, <2>1, <2>2, <2>3 DEF Aligned, Fits, Empty
<1>2. CASE ~(e.size > 0 /\ e.idx = e.size)
  <2>1. TinyTransmitTx(e, t) = TransmitTx(e, t)
    BY <1>2 DEF TinyTransmitTx
  <2>2. TransmitTx(e, t) \in [TxFifos -> TxFifo]
    <3>1. [n \in RxFifos |-> [en |-> FALSE, pkt |-> Empty]] \in [RxFifos -> RxFifo]
      BY DEF RxFifo, RxPackets
    <3> QED BY <3>1, TransmitTypes
  <2>3. CASE e.size > 0
    BY <1>0, <1>2, <2>1, <2>2, <2>3, TransmitFits
  <2>4. CASE ~(e.size > 0)
    BY <2>1, <2>2, <2>4 DEF TransmitTx, TransmitEp, Fits
  <2> QED BY <2>1, <2>2, <2>3, <2>4
<1> QED BY <1>1, <1>2

\* The requests of a tiny stack's hosts that it answers from EP0tx.
LEMMA TinyRequest ==
  ASSUME StackInv, tiny, 0 \in rxev, rx[0].pkt.kind = "setup"
  PROVE  /\ tiny = TRUE /\ rx[0].pkt.req \in Asked[TRUE] /\ rx[0].pkt.req \in Requests
         /\ Sends(rx[0].pkt.req) => ~rx[0].pkt.req.zero
<1>1. tiny = TRUE
  BY DEF StackInv
<1>2. rx[0].pkt.req \in Asked[TRUE]
  BY <1>1 DEF StackInv, AskedInv
<1>3. rx[0].pkt.req \in Requests
  BY <1>2, AskedAssumption
<1> QED BY <1>1, <1>2, <1>3, AskedAssumption, FirmwareAssumption DEF Sends, ForInterface

\* A SETUP packet on the tiny stack.
LEMMA TinySetupInv ==
  ASSUME StackInv, tiny, TinyReceiveFIFO0Setup
  PROVE  /\ FirmwareTypeOK' /\ SliceCurrent' /\ IndexInv'
         /\ rx'[0].pkt = Empty
<1> DEFINE q == rx[0].pkt.req
           r == RxFlush(rx, 0)
           t == TxFlush(tx, 0)
           e == Loaded(q)
<1>0. /\ FirmwareTypeOK /\ ChipTypeOK /\ SliceCurrent
      /\ rx \in [RxFifos -> RxFifo] /\ tx \in [TxFifos -> TxFifo]
      /\ 0 \in RxFifos /\ 1 \in RxFifos /\ 0 \in TxFifos /\ 1 \in TxFifos
      /\ ep0tx \in EpInfo /\ (ep0tx.size > 0 => ep0tx.idx <= ep0tx.size)
  BY DEF StackInv, Inv, FirmwareTypeOK, ChipTypeOK, RxFifos, TxFifos, IndexInv
<1>1. q \in Requests /\ (Sends(q) => ~q.zero)
  BY TinyRequest DEF TinyReceiveFIFO0Setup
<1>2. /\ r \in [RxFifos -> RxFifo] /\ r[0].pkt = Empty
      /\ t \in [TxFifos -> TxFifo] /\ t[0].pkt = Empty /\ ~t[0].en
  <2>1. r \in [RxFifos -> RxFifo] /\ t \in [TxFifos -> TxFifo]
    BY <1>0, RxOperations, TxOperations
  <2>2. r[0].pkt = Empty
    BY <1>0 DEF RxFlush
  <2>3. t[0].pkt = Empty /\ ~t[0].en
    BY <1>0 DEF TxFlush
  <2> QED BY <2>1, <2>2, <2>3
<1>3. e \in EpInfo /\ (e.size > 0 => e.idx <= e.size) /\ Aligned(e)
  BY <1>1, LoadedType
<1>4. /\ tx' = StatusTx(q, TinyAnswerTx(q, t))
      /\ rx' = IF Sends(q) THEN TransmitRx(e, r)
               ELSE IF ForDevice(q, "SET_CONFIGURATION") THEN ConfigureRx(r) ELSE r
      /\ ep0tx' = IF Sends(q) THEN TransmitEp(e) ELSE ep0tx
  BY DEF TinyReceiveFIFO0Setup
<1> HIDE DEF e, r, t
<1>5. TransmitEp(e) \in EpInfo /\ TransmitRx(e, r) \in [RxFifos -> RxFifo]
  BY <1>2, <1>3, TransmitTypes
<1>6. ConfigureRx(r) \in [RxFifos -> RxFifo]
  BY <1>0, <1>1, <1>2, AnswerTypes
<1>7. rx' \in [RxFifos -> RxFifo] /\ ep0tx' \in EpInfo
  BY <1>0, <1>2, <1>4, <1>5, <1>6
<1>8. rx'[0].pkt = Empty
  <2>1. TransmitRx(e, r)[0].pkt = Empty
    BY <1>0, <1>2 DEF TransmitRx, RxEnable, RxFifo
  <2>2. ConfigureRx(r)[0].pkt = Empty
    BY <1>0, <1>2 DEF ConfigureRx, RxEnable, RxFlush
  <2> QED BY <1>2, <1>4, <2>1, <2>2
<1>9. IndexInv'
  BY <1>0, <1>3, <1>4, TransmitIndex DEF IndexInv
<1>10. tx' \in [TxFifos -> TxFifo] /\ SliceCurrent'
  <2>1. CASE Sends(q)
    <3>1. /\ ~ForDevice(q, "SET_CONFIGURATION") /\ ~ForDevice(q, "SET_INTERFACE")
          /\ q.type = "standard"
      BY <2>1 DEF Sends, ForInterface, ForDevice, IsGetDescriptor, IsStandard
    <3>2. TinyAnswerTx(q, t) = TinyTransmitTx(e, t)
      BY <2>1, <3>1 DEF TinyAnswerTx, e
    <3>3. tx' = TinyTransmitTx(e, t) /\ ep0tx' = TransmitEp(e)
      BY <1>1, <1>4, <2>1, <3>2 DEF StatusTx
    <3> QED BY <1>2, <1>3, <3>3, TinyTransmit DEF SliceCurrent
  <2>2. CASE ~Sends(q)
    <3> DEFINE u == TinyAnswerTx(q, t)
    <3>1. /\ ConfigureTx(t) \in [TxFifos -> TxFifo] /\ ConfigureTx(t)[0].pkt = Empty
      BY <1>0, <1>2, TxOperations DEF ConfigureTx, TxFlush
    <3>2. \A w \in [TxFifos -> TxFifo] : w[0].pkt = Empty =>
            TxSend(w, 0, 1) \in [TxFifos -> TxFifo] /\ TxSend(w, 0, 1)[0].pkt = Empty
      <4>1. \A w \in [TxFifos -> TxFifo] : TxSend(w, 0, 1) \in [TxFifos -> TxFifo]
        BY <1>0, TxOperations
      <4>2. \A w \in [TxFifos -> TxFifo] : w[0].pkt = Empty => TxSend(w, 0, 1)[0].pkt = Empty
        BY <1>0 DEF TxSend, TxFifo
      <4> QED BY <4>1, <4>2
    <3>3. u \in [TxFifos -> TxFifo] /\ u[0].pkt = Empty
      BY <1>2, <2>2, <3>1, <3>2 DEF TinyAnswerTx
    <3> HIDE DEF u
    <3>4. tx' = StatusTx(q, u)
      BY <1>4 DEF u
    <3>5. tx' \in [TxFifos -> TxFifo] /\ tx'[0].pkt = Empty
      BY <3>2, <3>3, <3>4 DEF StatusTx
    <3> QED BY <1>0, <1>4, <2>2, <3>5 DEF SliceCurrent, Fits, Empty
  <2> QED BY <2>1, <2>2
<1>11. far' \in Addresses \cup {0} /\ def' \in BOOLEAN
  BY <1>0, <1>1, FirmwareAssumption
     DEF TinyReceiveFIFO0Setup, ForDevice, IsStandard, ChipTypeOK
<1>12. stall' \in BOOLEAN /\ configured' \in BOOLEAN /\ irq' \in BOOLEAN
  BY <1>0 DEF TinyReceiveFIFO0Setup, TinyStall, TinyUnsupported, ForDevice, IsStandard,
              LatchEdge, Pending, ChipTypeOK
<1>13. rxev' \subseteq RxFifos /\ isr' = "unmask"
       /\ UNCHANGED <<txev, altev, nakev, altmsk, txack, nfs, received, apptx>>
  BY <1>0 DEF TinyReceiveFIFO0Setup, ChipTypeOK
<1>14. ChipTypeOK'
  BY <1>0, <1>7, <1>10, <1>11, <1>12, <1>13 DEF ChipTypeOK
<1>15. FirmwareTypeOK'
  BY <1>0, <1>7, <1>13, <1>14 DEF FirmwareTypeOK
<1> QED BY <1>8, <1>9, <1>10, <1>15

\* The rest of what the full stack does keeps the place in EP0tx as well, and no
\* handler puts a SETUP packet into the FIFO.
LEMMA InterruptIndex ==
  ASSUME StackInv, Interrupt
  PROVE  IndexInv' /\ (rx'[0].pkt = rx[0].pkt \/ rx'[0].pkt = Empty)
<1>0. /\ FirmwareTypeOK /\ rx \in [RxFifos -> RxFifo] /\ 0 \in RxFifos /\ 1 \in RxFifos
      /\ ep0tx \in EpInfo /\ (ep0tx.size > 0 => ep0tx.idx <= ep0tx.size)
  BY DEF StackInv, Inv, FirmwareTypeOK, ChipTypeOK, RxFifos, IndexInv
<1>1. \A r \in [RxFifos -> RxFifo], e \in EpInfo :
        /\ TransmitRx(e, r)[0].pkt = r[0].pkt
        /\ ConfigureRx(r)[0].pkt = r[0].pkt
        /\ RxEnable(r, 0)[0].pkt = r[0].pkt
  BY <1>0 DEF TransmitRx, ConfigureRx, RxEnable, RxFlush, RxFifo
<1>2. CASE ReceiveFIFO0Setup
  <2> DEFINE q == rx[0].pkt.req
             r == RxFlush(rx, 0)
             g == GetDescriptor(q)
  <2>1. q \in Requests
    BY <1>0, <1>2 DEF ReceiveFIFO0Setup, RxFifo, RxPackets, Empty
  <2>2. g \in EpInfo /\ (g.size > 0 => g.idx <= g.size)
    BY <1>0, <2>1, GetDescriptorType DEF EpInfo
  <2>3. r \in [RxFifos -> RxFifo] /\ r[0].pkt = Empty
    BY <1>0, RxOperations DEF RxFlush
  <2>4. /\ ep0tx' = IF IsGetDescriptor(q) THEN TransmitEp(g) ELSE ep0tx
        /\ rx' = TransmitRx(g, r) \/ rx' = ConfigureRx(r) \/ rx' = r
    BY <1>2 DEF ReceiveFIFO0Setup
  <2> HIDE DEF g, r
  <2>5. IndexInv'
    BY <1>0, <2>2, <2>4, TransmitIndex DEF IndexInv
  <2>6. rx'[0].pkt = Empty
    BY <1>1, <2>2, <2>3, <2>4
  <2> QED BY <2>5, <2>6
<1>3. CASE ReceiveFIFO0Status
  <2>1. IndexInv'
    BY <1>0, <1>3 DEF ReceiveFIFO0Status, IndexInv, EpInfo
  <2>2. rx'[0].pkt = rx[0].pkt
    BY <1>0, <1>1, <1>3 DEF ReceiveFIFO0Status
  <2> QED BY <2>1, <2>2
<1>4. CASE TransmitFIFO0
  <2>1. IndexInv'
    BY <1>0, <1>4, TransmitIndex DEF TransmitFIFO0, IndexInv
  <2>2. rx'[0].pkt = rx[0].pkt
    BY <1>0, <1>1, <1>4 DEF TransmitFIFO0
  <2> QED BY <2>1, <2>2
<1>5. CASE ReceiveFIFO1
  <2>1. ep0tx' = ep0tx /\ rx'[0] = rx[0]
    BY <1>0, <1>5 DEF ReceiveFIFO1, RxEnable, RxFlush, RxFifo
  <2> QED BY <1>0, <2>1 DEF IndexInv
<1>6. CASE AlternateEvent
  <2>1. ep0tx' = ep0tx /\ rx'[0].pkt = rx[0].pkt
    BY <1>0, <1>1, <1>6 DEF AlternateEvent, Reset, SuspendDetect, ResumeDetect, EndOfPacket
  <2> QED BY <1>0, <2>1 DEF IndexInv
<1>7. CASE EnterInterrupt \/ ReadMaev \/ RewriteMask \/ TransmitFIFO1 \/ NackEvent
  <2>1. ep0tx' = ep0tx /\ rx' = rx
    BY <1>7 DEF EnterInterrupt, ReadMaev, RewriteMask, TransmitFIFO1, NackEvent, chipVars
  <2> QED BY <1>0, <2>1 DEF IndexInv
<1> QED BY <1>2, <1>3, <1>4, <1>5, <1>6, <1>7 DEF Interrupt, Handler

\* Either stack's firmware, and the host, keep the invariant.
LEMMA StackNextInv == StackInv /\ [StackNext]_tinyVars => StackInv'
<1> SUFFICES ASSUME StackInv, [StackNext]_tinyVars PROVE StackInv'
  OBVIOUS
<1>0. /\ Inv /\ FirmwareTypeOK /\ InterruptComing
      /\ Asked[tiny] \subseteq Requests
  BY AskedAssumption DEF StackInv, Inv
<1>1. CASE StackFirmware /\ ~tiny
  <2>1. Interrupt /\ UNCHANGED <<hostVars, tiny, wasReset>>
    BY <1>1 DEF StackFirmware
  <2>2. Inv'
    BY <1>0, <2>1, NextInv DEF Next, Firmware
  <2>3. IndexInv' /\ AskedInv'
    BY <2>1, InterruptIndex DEF StackInv, AskedInv, Empty
  <2> QED BY <2>1, <2>2, <2>3 DEF StackInv
<1>2. CASE StackFirmware /\ tiny /\ ~TinyReceiveFIFO0Setup /\ ~TinyAlternateEvent
  <2>1. Interrupt /\ UNCHANGED <<hostVars, tiny, wasReset>>
    BY <1>2 DEF StackFirmware, TinyInterrupt, Interrupt, Handler
  <2>2. Inv'
    BY <1>0, <2>1, NextInv DEF Next, Firmware
  <2>3. IndexInv' /\ AskedInv'
    BY <2>1, InterruptIndex DEF StackInv, AskedInv, Empty
  <2> QED BY <2>1, <2>2, <2>3 DEF StackInv
<1>3. CASE StackFirmware /\ tiny /\ TinyReceiveFIFO0Setup
  <2>1. UNCHANGED <<hostVars, tiny, wasReset>> /\ isr' = "unmask"
    BY <1>3 DEF StackFirmware, TinyReceiveFIFO0Setup
  <2>2. FirmwareTypeOK' /\ SliceCurrent' /\ IndexInv' /\ rx'[0].pkt = Empty
    BY <1>3, TinySetupInv
  <2>3. HostTypeOK'
    BY <1>0, <2>1 DEF Inv, HostTypeOK, hostVars
  <2>4. InterruptComing' /\ AskedInv'
    BY <2>1, <2>2 DEF InterruptComing, AskedInv, Empty
  <2> QED BY <2>1, <2>2, <2>3, <2>4 DEF StackInv, Inv
<1>4. CASE StackFirmware /\ tiny /\ TinyAlternateEvent
  <2>1. /\ UNCHANGED <<hostVars, tiny, wasReset>> /\ isr' = "unmask" /\ altev' = {}
        /\ UNCHANGED <<rxev, txev, nakev, altmsk, rx, tx, txack, control, ep0tx, received, apptx>>
        /\ LatchEdge
    BY <1>4 DEF StackFirmware, TinyAlternateEvent
  <2>2. irq' \in BOOLEAN
    BY <1>0, <2>1 DEF LatchEdge, Pending, FirmwareTypeOK, ChipTypeOK
  <2>3. FirmwareTypeOK'
    BY <1>0, <2>1, <2>2 DEF FirmwareTypeOK, ChipTypeOK, control
  <2>4. HostTypeOK'
    BY <1>0, <2>1 DEF Inv, HostTypeOK, hostVars
  <2>5. InterruptComing' /\ SliceCurrent' /\ IndexInv' /\ AskedInv'
    BY <2>1 DEF InterruptComing, SliceCurrent, IndexInv, AskedInv, StackInv, Inv
  <2> QED BY <2>1, <2>3, <2>4, <2>5 DEF StackInv, Inv
<1>5. CASE Host
  <2>1. Next /\ tiny' = tiny /\ wasReset' \in BOOLEAN
    BY <1>0, <1>5 DEF Host, Next, StackInv
  <2>2. Inv'
    BY <1>0, <2>1, NextInv
  <2>3. UNCHANGED ep0tx
    BY <1>5 DEF Host, SendSetup, Tokens, DataIn, StatusIn, StatusOut, StatusOutNak, Stalled,
                GiveUp, BusReset, firmwareVars, vars960x
  <2>4. AskedInv'
    <3>0. rx \in [RxFifos -> RxFifo] /\ 0 \in RxFifos
      BY <1>0 DEF FirmwareTypeOK, ChipTypeOK, RxFifos
    <3>1. ASSUME NEW q \in Asked[tiny], SendSetup(q) PROVE AskedInv'
      BY <2>1, <3>0, <3>1 DEF SendSetup, ReceiveSetup, AskedInv
    <3>2. CASE StatusOut
      <4>1. rx'[0].pkt = Empty
        BY <3>0, <3>2 DEF StatusOut, ReceiveOut
      <4> QED BY <4>1 DEF AskedInv, Empty
    <3>3. ASSUME NEW ack \in BOOLEAN, DataIn(ack) \/ StatusIn(ack) PROVE AskedInv'
      BY <2>1, <3>3 DEF DataIn, StatusIn, SendIn, AskedInv, StackInv
    <3>4. CASE StatusOutNak \/ Stalled \/ GiveUp \/ BusReset
      <4>1. rx' = rx
        BY <3>4 DEF StatusOutNak, Stalled, GiveUp, BusReset, NakOut0, SendStall, Signal,
                    vars960x, chipVars
      <4> QED BY <2>1, <4>1 DEF AskedInv, StackInv
    <3> QED BY <1>5, <3>1, <3>2, <3>3, <3>4 DEF Host, Tokens
  <2> QED BY <2>1, <2>2, <2>3, <2>4 DEF StackInv, IndexInv
<1>6. CASE UNCHANGED tinyVars
  <2>1. UNCHANGED vars /\ UNCHANGED <<tiny, wasReset, ep0tx, rx>>
    BY <1>6 DEF tinyVars, vars, vars960x, chipVars, firmwareVars
  <2>2. Inv'
    BY <1>0, <2>1, NextInv
  <2> QED BY <2>1, <2>2 DEF StackInv, IndexInv, AskedInv
<1> QED BY <1>1, <1>2, <1>3, <1>4, <1>5, <1>6 DEF StackNext

LEMMA StackInitInv == StackInit => StackInv
<1> SUFFICES ASSUME StackInit PROVE StackInv
  OBVIOUS
<1>1. Inv /\ ep0tx.size = 0 /\ rx[0].pkt = Empty
  BY InitInv DEF StackInit, Init, Init960x, RxFifos
<1>2. tiny \in BOOLEAN /\ wasReset \in BOOLEAN
  BY DEF StackInit
<1>3. IndexInv
  BY <1>1 DEF IndexInv
<1>4. AskedInv
  BY <1>1 DEF AskedInv, Empty
<1> QED BY <1>1, <1>2, <1>3, <1>4 DEF StackInv

\* The types hold for either stack, and Index never passes Size: what the tiny one
\* answers from an EP0tx that a request before left does not drive it out of its
\* bounds.  (Size itself may be wrong: of a configuration read it is wLength.)
THEOREM StackTypeCorrect == StackSpec => [](TypeOK /\ IndexInv)
<1>1. StackInv => TypeOK /\ IndexInv
  BY DEF StackInv, Inv, TypeOK, HostTypeOK
<1> QED BY <1>1, StackInitInv, StackNextInv, PTL DEF StackSpec

\* Nor does either stack arm a packet that is not the slice EP0tx ends at, with
\* the PID of its place.
THEOREM StackSlicesCurrent == StackSpec => []ArmedSliceIsCurrent
<1>1. StackInv => ArmedSliceIsCurrent
  BY DEF StackInv, Inv, SliceCurrent, Fits, ArmedSliceIsCurrent, Ep0Fifo
<1> QED BY <1>1, StackInitInv, StackNextInv, PTL DEF StackSpec

-----------------------------------------------------------------------------
(* Either stack and a host that waits for it                                *)

SetupPending == 0 \in rxev /\ rx[0].pkt.kind = "setup"

\* The host has had nothing of the answer yet, which is not left to chance.
AtStart ==
  ~LeftToChance(req) /\ (stage = "statin" \/ (stage = "in" /\ got = <<>>))

\* A bus reset ends every transfer; while a transfer runs, no event of another one
\* is about; nothing is sent before the SETUP packet has been handled.
EventsInv ==
  /\ altev \subseteq {"RESET"} /\ altmsk = {"RESET", "SD3", "EOP"}
  /\ rxev \subseteq {0} /\ txev \subseteq {0}
  /\ isr = "rx" => 0 \in rxev
  /\ isr = "alt" => "RESET" \in altev
  /\ "RESET" \in altev => stage = "idle" /\ wasReset
  /\ result = "reset" => wasReset
  /\ SetupPending =>
       isr \in {"idle", "dispatch", "rx"} /\ rx[0].pkt.req = req /\ ~tx[0].en
  /\ stage # "idle" => req \in Asked[tiny] /\ (rxev # {} => SetupPending)
  /\ AtStart \/ (stage = "in" /\ tx[0].en /\ ~LeftToChance(req)) => txev = {} /\ isr # "tx"

StallInv == stage # "idle" /\ ~SetupPending => (stall <=> Refuses(req))

\* Where a SET_ADDRESS stands: the SETUP packet is in the FIFO; the device has the
\* new address, which the host has still to take; or the two agree.
ForAddress == req.code = "SET_ADDRESS"

AddressTaken ==
  ForAddress /\ ~SetupPending /\ stage = "statin" =>
    /\ far = req.val /\ def /\ haddr = 0
    /\ tx[0].en => tx[0].pkt = Empty /\ tx[0].pid = 1

AddressPending ==
  /\ ForAddress => stage \in {"idle", "statin"}
  /\ ForAddress /\ SetupPending => haddr = 0 /\ (stage = "idle" => AddressUnsettled)

AddressKnown ==
  \/ haddr = far
  \/ haddr = 0 /\ def /\ ForAddress /\ (stage = "statin" \/ AddressUnsettled)

AddressInv ==
  ~(tiny /\ wasReset) =>
    /\ "RESET" \in altev => haddr = 0
    /\ "RESET" \notin altev => AddressTaken /\ AddressPending /\ AddressKnown

AnswerInv ==
  /\ AtStart /\ ~SetupPending => (tx[0].en \/ stall <=> ~Dropped(req))
  /\ LeftToChance(req) /\ stage # "idle" /\ ~SetupPending => (tx[0].en => ep0tx.size > 0)

\* The host's side of a read: what it has is whole packets up to Received.
Counted ==
  Received = 8 * Len(got) /\ Received < req.len /\ (tog = 1 <=> Len(got) % 2 = 0)

DescriptorRead ==
  /\ stage = "out" \/ (stage = "idle" /\ result = "ok") =>
       Received = Lesser(req.len, DescriptorSize(req))
  /\ InOrder /\ Within
  /\ stage = "in" => Counted
  /\ stage = "in" /\ got # <<>> => req.mps = 8 /\ ~SetupPending

HostReads ==
  /\ stage \in {"in", "out"} => IsRead(req)
  /\ stage = "statin" => ~IsRead(req)
  /\ IsGetDescriptor(req) => DescriptorRead
  /\ stage = "in" /\ ~IsGetDescriptor(req) /\ ~LeftToChance(req) => got = <<>> /\ tog = 1

\* The firmware's side: the next packet is the one behind what the host has.
Slice(buf, from, size) ==
  [kind |-> "desc", src |-> buf, from |-> from, len |-> Lesser(8, size - from)]

NextPacket ==
  IF tx[0].en
  THEN /\ 8 * Len(got) < ep0tx.size
       /\ tx[0].pkt = Slice(req.val, 8 * Len(got), ep0tx.size) /\ tx[0].pid = tog
  ELSE ep0tx.idx = 8 * Len(got)

FirmwareReads ==
  stage = "in" /\ ~SetupPending =>
    /\ IsGetDescriptor(req) =>
         ep0tx.buf = req.val /\ ep0tx.size = DescriptorSize(req) /\ NextPacket
    /\ ~IsGetDescriptor(req) /\ ~LeftToChance(req) =>
         (tx[0].en => tx[0].pkt.kind # "desc" /\ tx[0].pid = 1)

TransferInv ==
  /\ Patient /\ SetupDisarms
  /\ EventsInv /\ StallInv /\ AddressInv /\ AnswerInv /\ HostReads /\ FirmwareReads

\* The descriptor a host asks for is not empty.
LEMMA SizeOf ==
  ASSUME NEW t \in BOOLEAN, NEW q \in Asked[t], IsGetDescriptor(q)
  PROVE  DescriptorSize(q) \in Nat /\ DescriptorSize(q) > 0
<1>1. q \in Requests /\ q.len \in Nat /\ q.len > 0 /\ q.val \in Descriptors
  BY AskedAssumption, FirmwareAssumption
<1>2. DescLen[q.val] \in Nat \ {0}
  BY <1>1, FirmwareAssumption
<1>3. CASE q.val = "DEVICE"
  BY <1>2, <1>3 DEF DescriptorSize
<1>4. CASE q.val = "CONFIGURATION"
  BY <1>1, <1>4 DEF DescriptorSize
<1>5. CASE q.val \notin {"DEVICE", "CONFIGURATION"}
  BY <1>2, <1>5 DEF DescriptorSize
<1> QED BY <1>3, <1>4, <1>5

\* The first packet of a descriptor.
LEMMA FirstPacket ==
  ASSUME NEW e, NEW buf, NEW size \in Nat, size > 0,
         e = [buf |-> buf, idx |-> 0, size |-> size, pid |-> 1],
         NEW t \in [TxFifos -> TxFifo]
  PROVE  /\ TransmitTx(e, t)[0] = [en |-> TRUE, pid |-> 1, pkt |-> Slice(buf, 0, size)]
         /\ TransmitEp(e).buf = buf /\ TransmitEp(e).size = size
<1>1. e.size > 0 /\ e.idx = 0 /\ e.pid = 1 /\ e.buf = buf /\ e.size = size /\ 0 \in TxFifos
  BY DEF TxFifos
<1>2. Chunk(e) = Lesser(8, size - 0)
  BY <1>1 DEF Chunk, Ep0Fifo
<1>3. TransmitTx(e, t)[0] = [en |-> TRUE, pid |-> 1, pkt |-> Slice(buf, 0, size)]
  BY <1>1, <1>2 DEF TransmitTx, TxFlush, TxWrite, TxSend, Slice
<1>4. TransmitEp(e).buf = buf /\ TransmitEp(e).size = size
  BY <1>1 DEF TransmitEp
<1> QED BY <1>3, <1>4

\* What the full stack answers a SETUP packet with.
LEMMA FullAnswer ==
  ASSUME StackInv, ~tiny, NEW q \in Asked[FALSE], NEW t \in [TxFifos -> TxFifo],
         t[0] = [en |-> FALSE, pid |-> 0, pkt |-> Empty],
         NEW u, u = StatusTx(q, AnswerTx(q, t))[0]
  PROVE  /\ IsGetDescriptor(q) =>
              u = [en |-> TRUE, pid |-> 1, pkt |-> Slice(q.val, 0, DescriptorSize(q))]
         /\ ~IsGetDescriptor(q) => u.pkt.kind # "desc" /\ (u.en => u.pid = 1)
         /\ q.code = "SET_ADDRESS" => u = [en |-> TRUE, pid |-> 1, pkt |-> Empty]
         /\ u.en \/ Unsupported(q) <=> ~Dropped(q)
<1>0. 0 \in TxFifos /\ 1 \in TxFifos /\ q \in Requests /\ FALSE \in BOOLEAN
  BY AskedAssumption DEF TxFifos
<1>1. CASE IsGetDescriptor(q)
  <2>1. ~q.zero /\ q.val \in Descriptors /\ q.code # "SET_ADDRESS"
    BY <1>0, <1>1, AskedAssumption DEF IsGetDescriptor
  <2>2. GetDescriptor(q) = [buf |-> q.val, idx |-> 0, size |-> DescriptorSize(q), pid |-> 1]
    BY <2>1 DEF GetDescriptor
  <2>3. AnswerTx(q, t) = TransmitTx(GetDescriptor(q), t)
    BY <1>1 DEF AnswerTx, IsGetDescriptor, IsStandard
  <2>4. u = TransmitTx(GetDescriptor(q), t)[0]
    BY <2>1, <2>3 DEF StatusTx
  <2>5. u = [en |-> TRUE, pid |-> 1, pkt |-> Slice(q.val, 0, DescriptorSize(q))]
    <3>1. DescriptorSize(q) \in Nat /\ DescriptorSize(q) > 0
      BY <1>0, <1>1, SizeOf
    <3> QED BY <2>2, <2>4, <3>1, FirstPacket
  <2>6. ~Dropped(q)
    BY <1>1 DEF Dropped, IsGetDescriptor, IsStandard
  <2> QED BY <1>1, <2>1, <2>5, <2>6
<1>2. CASE ~IsGetDescriptor(q)
  <2> DEFINE w == AnswerTx(q, t)
  <2> DEFINE zlp == [en |-> TRUE, pid |-> 1, pkt |-> Empty]
  <2>1. t[0].pkt = Empty /\ ~t[0].en
    OBVIOUS
  <2>2. ConfigureTx(t) \in [TxFifos -> TxFifo] /\ ConfigureTx(t)[0] = t[0]
    BY <1>0, TxOperations DEF ConfigureTx, TxFlush
  <2>3. /\ TxWrite(t, 0, [kind |-> "conf"]) \in [TxFifos -> TxFifo]
        /\ TxWrite(t, 0, [kind |-> "conf"])[0].pkt = [kind |-> "conf"]
        /\ ~TxWrite(t, 0, [kind |-> "conf"])[0].en
    <3>1. [kind |-> "conf"] \in TxPackets
      BY DEF TxPackets
    <3>2. TxWrite(t, 0, [kind |-> "conf"]) \in [TxFifos -> TxFifo]
      BY <1>0, <3>1, TxOperations
    <3> QED BY <1>0, <3>2 DEF TxWrite
  <2>12. \A x \in [TxFifos -> TxFifo] :
           TxSend(x, 0, 1)[0] = [en |-> TRUE, pid |-> 1, pkt |-> x[0].pkt]
    BY <1>0 DEF TxSend, TxFifo
  <2>13. TxSend(t, 0, 1)[0] = zlp /\ TxSend(ConfigureTx(t), 0, 1)[0] = zlp
    BY <2>1, <2>2, <2>12
  <2>4. TxSend(t, 0, 1) \in [TxFifos -> TxFifo] /\ TxSend(ConfigureTx(t), 0, 1) \in [TxFifos -> TxFifo]
    BY <1>0, <2>2, TxOperations
  <2>5. \/ IsStandard(q, "GET_CONFIGURATION") /\ w = TxWrite(t, 0, [kind |-> "conf"])
        \/ IsStandard(q, "SET_INTERFACE") /\ w = TxSend(t, 0, 1)
        \/ IsStandard(q, "SET_CONFIGURATION") /\ w = TxSend(ConfigureTx(t), 0, 1)
        \/ q.type \in {"class", "vendor"} /\ w = TxSend(t, 0, 1)
        \/ /\ ~IsStandard(q, "SET_INTERFACE") /\ ~IsStandard(q, "SET_CONFIGURATION")
           /\ q.type \notin {"class", "vendor"} /\ w = t
    BY <1>2 DEF AnswerTx, IsStandard
  <2> HIDE DEF w
  <2>6. w \in [TxFifos -> TxFifo]
    BY <2>3, <2>4, <2>5
  <2>7. w[0] = zlp \/ (w[0].pkt \in {Empty, [kind |-> "conf"]} /\ ~w[0].en)
    BY <2>1, <2>3, <2>5, <2>13
  <2>8. /\ q.zero => u = [en |-> TRUE, pid |-> 1, pkt |-> w[0].pkt]
        /\ ~q.zero => u = w[0]
    BY <2>6, <2>12 DEF StatusTx, w
  <2>9. u.pkt.kind # "desc" /\ (u.en => u.pid = 1)
    <3>1. w[0].pkt.kind # "desc"
      BY <2>7 DEF Empty
    <3> QED BY <2>7, <2>8, <3>1
  <2>10. ASSUME q.code = "SET_ADDRESS"
         PROVE  u = [en |-> TRUE, pid |-> 1, pkt |-> Empty]
    <3>1. q.type = "standard" /\ q.zero
      BY <1>0, <2>10, AskedAssumption
    <3>2. w = t
      BY <2>5, <2>10, <3>1 DEF IsStandard
    <3> QED BY <2>1, <2>8, <3>1, <3>2
  <2>11. u.en \/ Unsupported(q) <=> ~Dropped(q)
    <3>1. CASE q.zero
      BY <2>8, <3>1 DEF Dropped
    <3>2. CASE q.type = "reserved"
      BY <3>2 DEF Unsupported, Dropped
    <3>3. CASE ~q.zero /\ q.type \in {"class", "vendor"}
      BY <2>5, <2>8, <2>13, <3>3 DEF IsStandard, Dropped
    <3>4. CASE ~q.zero /\ q.type = "standard"
      <4>1. CASE q.code \notin StandardCodes
        BY <3>4, <4>1 DEF Unsupported, Dropped
      <4>2. CASE q.code \in {"SET_INTERFACE", "SET_CONFIGURATION"}
        <5>1. w = TxSend(t, 0, 1) \/ w = TxSend(ConfigureTx(t), 0, 1)
          BY <2>5, <3>4, <4>2 DEF IsStandard
        <5>2. ~Dropped(q)
          BY <4>2 DEF Dropped
        <5> QED BY <2>8, <2>13, <3>4, <5>1, <5>2
      <4>3. CASE q.code \in StandardCodes \ {"SET_INTERFACE", "SET_CONFIGURATION"}
        <5>1. Dropped(q) /\ ~Unsupported(q)
          BY <1>2, <3>4, <4>3 DEF Dropped, Unsupported, IsGetDescriptor, IsStandard
        <5>2. ~w[0].en
          BY <2>1, <2>3, <2>5, <3>4, <4>3 DEF IsStandard
        <5> QED BY <2>8, <3>4, <5>1, <5>2
      <4> QED BY <4>1, <4>2, <4>3
    <3>5. q.type \in {"standard", "class", "vendor", "reserved"}
      BY <1>0, FirmwareAssumption
    <3> QED BY <3>1, <3>2, <3>3, <3>4, <3>5
  <2> QED BY <1>2, <2>9, <2>10, <2>11
<1> QED BY <1>1, <1>2

\* The tiny stack loads the descriptor asked for, whoever fills EP0tx.
LEMMA LoadedDescriptor ==
  ASSUME NEW q \in Asked[TRUE], IsGetDescriptor(q)
  PROVE  Loaded(q) = [buf |-> q.val, idx |-> 0, size |-> DescriptorSize(q), pid |-> 1]
<1>1. /\ q.val \in Descriptors
      /\ q.val \in IF ForInterface(q) THEN {"REPORT"} ELSE {"DEVICE", "CONFIGURATION"}
  BY AskedAssumption
<1>2. CASE ForInterface(q)
  BY <1>1, <1>2 DEF Loaded, IsReport, IsGetDescriptor, IsStandard, DescriptorSize
<1>3. CASE ~ForInterface(q)
  BY <1>1, <1>3 DEF Loaded, GetDescriptor
<1> QED BY <1>2, <1>3

\* What the tiny stack answers it with.
LEMMA TinyAnswer ==
  ASSUME StackInv, NEW q \in Asked[TRUE], NEW t \in [TxFifos -> TxFifo],
         t[0] = [en |-> FALSE, pid |-> 0, pkt |-> Empty],
         NEW u, u = StatusTx(q, TinyAnswerTx(q, t))[0]
  PROVE  /\ IsGetDescriptor(q) =>
              u = [en |-> TRUE, pid |-> 1, pkt |-> Slice(q.val, 0, DescriptorSize(q))]
         /\ ~Sends(q) => u.pkt.kind # "desc" /\ (u.en => u.pid = 1)
         /\ q.code = "SET_ADDRESS" => u = [en |-> TRUE, pid |-> 1, pkt |-> Empty]
         /\ u.en \/ TinyUnsupported(q) \/ (ForInterface(q) /\ ~IsReport(q))
         /\ ForInterface(q) /\ ~IsReport(q) => (u.en => ep0tx.size > 0)
<1>0. 0 \in TxFifos /\ 1 \in TxFifos /\ q \in Requests /\ TRUE \in BOOLEAN
  BY AskedAssumption DEF TxFifos
<1>1. CASE IsGetDescriptor(q)
  <2> DEFINE e == Loaded(q)
  <2>1. /\ ~q.zero /\ q.val \in Descriptors /\ q.val \in {"DEVICE", "CONFIGURATION", "REPORT"}
        /\ q.code # "SET_ADDRESS" /\ Sends(q)
    BY <1>0, <1>1, AskedAssumption DEF IsGetDescriptor, Sends
  <2>2. e = [buf |-> q.val, idx |-> 0, size |-> DescriptorSize(q), pid |-> 1]
    <3> QED BY <1>0, <1>1, LoadedDescriptor
  <2> HIDE DEF e
  <2>3. DescriptorSize(q) \in Nat /\ DescriptorSize(q) > 0
    BY <1>0, <1>1, SizeOf
  <2>4. TinyTransmitTx(e, t) = TransmitTx(e, t)
    BY <2>2, <2>3 DEF TinyTransmitTx
  <2>5. /\ ~ForDevice(q, "SET_CONFIGURATION") /\ ~ForDevice(q, "SET_INTERFACE")
        /\ q.type = "standard"
    BY <1>1 DEF ForDevice, IsGetDescriptor, IsStandard
  <2>6. u = TransmitTx(e, t)[0]
    BY <2>1, <2>4, <2>5 DEF StatusTx, TinyAnswerTx, e
  <2>7. u = [en |-> TRUE, pid |-> 1, pkt |-> Slice(q.val, 0, DescriptorSize(q))]
    BY <2>2, <2>3, <2>6, FirstPacket
  <2>8. ~(ForInterface(q) /\ ~IsReport(q))
    BY <1>1 DEF IsReport, IsGetDescriptor
  <2> QED BY <1>1, <2>1, <2>7, <2>8
<1>2. CASE ~IsGetDescriptor(q) /\ Sends(q)
  <2>1. /\ ForInterface(q) /\ ~IsReport(q) /\ q.type = "standard" /\ ~q.zero
        /\ ~ForDevice(q, "SET_CONFIGURATION") /\ ~ForDevice(q, "SET_INTERFACE")
    BY <1>0, <1>2, FirmwareAssumption
       DEF Sends, ForInterface, ForDevice, IsReport, IsGetDescriptor
  <2>2. q.code # "SET_ADDRESS"
    BY <1>0, <2>1, AskedAssumption
  <2>3. u = TinyTransmitTx(ep0tx, t)[0]
    BY <1>2, <2>1 DEF StatusTx, TinyAnswerTx, Loaded
  <2>4. u.en => ep0tx.size > 0
    BY <2>3 DEF TinyTransmitTx, TransmitTx
  <2> QED BY <1>2, <2>1, <2>2, <2>4
<1>3. CASE ~Sends(q)
  <2> DEFINE zlp == [en |-> TRUE, pid |-> 1, pkt |-> Empty]
             w == TinyAnswerTx(q, t)
  <2>1. t[0].pkt = Empty /\ ~t[0].en
    OBVIOUS
  <2>2. ConfigureTx(t) \in [TxFifos -> TxFifo] /\ ConfigureTx(t)[0] = t[0]
    BY <1>0, TxOperations DEF ConfigureTx, TxFlush
  <2>3. \A x \in [TxFifos -> TxFifo] :
          /\ TxSend(x, 0, 1) \in [TxFifos -> TxFifo]
          /\ TxSend(x, 0, 1)[0] = [en |-> TRUE, pid |-> 1, pkt |-> x[0].pkt]
    <3>1. \A x \in [TxFifos -> TxFifo] : TxSend(x, 0, 1) \in [TxFifos -> TxFifo]
      BY <1>0, TxOperations
    <3>2. \A x \in [TxFifos -> TxFifo] :
            TxSend(x, 0, 1)[0] = [en |-> TRUE, pid |-> 1, pkt |-> x[0].pkt]
      BY <1>0 DEF TxSend, TxFifo
    <3> QED BY <3>1, <3>2
  <2>4. TxSend(t, 0, 1)[0] = zlp /\ TxSend(ConfigureTx(t), 0, 1)[0] = zlp
    BY <2>1, <2>2, <2>3
  <2>5. \/ ForDevice(q, "SET_CONFIGURATION") /\ w = TxSend(ConfigureTx(t), 0, 1)
        \/ ForDevice(q, "SET_INTERFACE") /\ w = TxSend(t, 0, 1)
        \/ q.type \in {"class", "vendor"} /\ w = TxSend(t, 0, 1)
        \/ /\ ~ForDevice(q, "SET_CONFIGURATION") /\ ~ForDevice(q, "SET_INTERFACE")
           /\ q.type \notin {"class", "vendor"} /\ w = t
    BY <1>3 DEF TinyAnswerTx
  <2> HIDE DEF w
  <2>6. w \in [TxFifos -> TxFifo]
    BY <2>2, <2>3, <2>5
  <2>7. w[0] = zlp \/ (w[0].pkt = Empty /\ ~w[0].en)
    BY <2>1, <2>4, <2>5
  <2>8. /\ q.zero => u = [en |-> TRUE, pid |-> 1, pkt |-> w[0].pkt]
        /\ ~q.zero => u = w[0]
    BY <2>3, <2>6 DEF StatusTx, w
  <2>9. u.pkt.kind # "desc" /\ (u.en => u.pid = 1)
    <3>1. w[0].pkt = Empty
      BY <2>7
    <3> QED BY <2>7, <2>8, <3>1 DEF Empty
  <2>10. ASSUME q.code = "SET_ADDRESS"
         PROVE  u = [en |-> TRUE, pid |-> 1, pkt |-> Empty]
    <3>1. q.type = "standard" /\ q.zero
      BY <1>0, <2>10, AskedAssumption
    <3>2. w = t
      BY <2>5, <2>10, <3>1 DEF ForDevice, IsStandard
    <3> QED BY <2>1, <2>8, <3>1, <3>2
  <2>11. u.en \/ TinyUnsupported(q)
    <3>1. CASE q.zero
      BY <2>8, <3>1
    <3>2. CASE q.type = "reserved"
      BY <3>2 DEF TinyUnsupported
    <3>3. CASE ~q.zero /\ q.type \in {"class", "vendor"}
      BY <2>4, <2>5, <2>8, <3>3 DEF ForDevice, IsStandard
    <3>4. CASE ~q.zero /\ q.type = "standard"
      <4>0. q.recipient = "device"
        BY <1>3, <3>4 DEF Sends, ForInterface
      <4>1. CASE q.code \notin TinyCodes
        BY <3>4, <4>0, <4>1 DEF TinyUnsupported
      <4>2. CASE q.code \in {"SET_CONFIGURATION", "SET_INTERFACE"}
        <5>1. w = TxSend(t, 0, 1) \/ w = TxSend(ConfigureTx(t), 0, 1)
          BY <2>5, <3>4, <4>0, <4>2 DEF ForDevice, IsStandard
        <5> QED BY <2>4, <2>8, <3>4, <5>1
      <4>3. q.code \notin {"GET_DESCRIPTOR", "SET_ADDRESS"}
        BY <1>0, <1>3, <3>4, AskedAssumption DEF Sends, IsGetDescriptor, IsStandard
      <4> QED BY <4>1, <4>2, <4>3 DEF TinyCodes
    <3>5. q.type \in {"standard", "class", "vendor", "reserved"}
      BY <1>0, FirmwareAssumption
    <3> QED BY <3>1, <3>2, <3>3, <3>4, <3>5
  <2>12. ~IsGetDescriptor(q) /\ ~ForInterface(q)
    BY <1>3 DEF Sends
  <2> QED BY <2>9, <2>10, <2>11, <2>12
<1> QED BY <1>1, <1>2, <1>3

\* What a request is does not change while it is the request.
LEMMA RequestKept ==
  ASSUME UNCHANGED <<req, tiny>>
  PROVE  (LeftToChance(req)' <=> LeftToChance(req)) /\ (Dropped(req)' <=> Dropped(req))
BY DEF LeftToChance, ForInterface, IsReport, Dropped

\* The host's side of a read is the host's: the firmware leaves it alone.
LEMMA HostKept ==
  ASSUME HostReads, UNCHANGED <<stage, req, got, tog, result, tiny>>,
         stage = "in" /\ got # <<>> => (SetupPending' => SetupPending)
  PROVE  HostReads'
<1>1. DescriptorRead => DescriptorRead'
  BY DEF DescriptorRead, InOrder, Within, Received, Counted
<1> QED BY <1>1, RequestKept DEF HostReads

\* Where the firmware moves on without touching a packet, the invariant stays.
LEMMA EventTaken ==
  ASSUME StackInv, TransferInv, EventsInv',
         UNCHANGED <<hostVars, tiny, wasReset, far, def, stall, ep0tx, rxev, altev, rx, tx>>
  PROVE  TransferInv'
<1>0. UNCHANGED <<stage, req, got, tog, haddr, result>>
  BY DEF hostVars
<1>1. SetupPending' <=> SetupPending
  BY DEF SetupPending
<1>2. StallInv'
  BY <1>0, <1>1 DEF TransferInv, StallInv, Refuses
<1>3. AddressInv'
  <2>1. /\ AddressTaken => AddressTaken'
        /\ AddressPending => AddressPending'
        /\ AddressKnown => AddressKnown'
    BY <1>0, <1>1 DEF AddressTaken, AddressPending, AddressKnown, ForAddress, AddressUnsettled
  <2> QED BY <1>0, <2>1 DEF TransferInv, AddressInv
<1>4. AnswerInv'
  BY <1>0, <1>1, RequestKept DEF TransferInv, AnswerInv, AtStart
<1>5. HostReads'
  BY <1>0, <1>1, RequestKept, HostKept DEF TransferInv
<1>6. FirmwareReads'
  BY <1>0, <1>1, RequestKept DEF TransferInv, FirmwareReads, NextPacket
<1> QED BY <1>2, <1>3, <1>4, <1>5, <1>6 DEF TransferInv

\* When no transfer runs, only the events, the address and the host's side of the
\* last read matter.
LEMMA NoTransfer ==
  ASSUME TransferInv, stage' = "idle", EventsInv', AddressInv', HostReads'
  PROVE  TransferInv'
BY DEF TransferInv, StallInv, AnswerInv, AtStart, FirmwareReads

\* With the host's packets and its request as they are, its side of a read stays
\* as it is when the transfer ends.
LEMMA ReadKept ==
  ASSUME TransferInv, UNCHANGED <<req, got>>, stage' = "idle",
         result' = "ok" /\ IsGetDescriptor(req) =>
           Received = Lesser(req.len, DescriptorSize(req))
  PROVE  HostReads'
<1>1. IsGetDescriptor(req) => InOrder' /\ Within'
  BY DEF TransferInv, HostReads, DescriptorRead, InOrder, Within
<1>2. Received' = Received
  BY DEF Received
<1> QED BY <1>1, <1>2 DEF HostReads, DescriptorRead

\* Both stacks' handling of a SETUP packet.
SetupHandled ==
  (~tiny /\ ReceiveFIFO0Setup) \/ (tiny /\ TinyReceiveFIFO0Setup)

\* What either leaves behind.
LEMMA SetupAnswer ==
  ASSUME StackInv, TransferInv, SetupHandled
  PROVE  /\ SetupPending /\ req \in Asked[tiny]
         /\ rxev' = {} /\ isr' = "unmask" /\ UNCHANGED <<txev, altev, altmsk>>
         /\ stall' <=> Refuses(req)
         /\ IF ForAddress THEN def' /\ far' = req.val ELSE UNCHANGED <<def, far>>
         /\ ForAddress => tx'[0] = [en |-> TRUE, pid |-> 1, pkt |-> Empty]
         /\ IsGetDescriptor(req) =>
              /\ tx'[0] = [en |-> TRUE, pid |-> 1,
                           pkt |-> Slice(req.val, 0, DescriptorSize(req))]
              /\ ep0tx'.buf = req.val /\ ep0tx'.size = DescriptorSize(req)
         /\ ~IsGetDescriptor(req) /\ ~LeftToChance(req) =>
              tx'[0].pkt.kind # "desc" /\ (tx'[0].en => tx'[0].pid = 1)
         /\ ~LeftToChance(req) => (tx'[0].en \/ stall' <=> ~Dropped(req))
         /\ LeftToChance(req) => (tx'[0].en => ep0tx'.size > 0)
<1> DEFINE t == TxFlush(tx, 0)
<1>0. /\ isr = "rx" /\ 0 \in rxev /\ rx[0].pkt.kind = "setup"
      /\ rxev' = rxev \ {0} /\ isr' = "unmask" /\ UNCHANGED <<txev, altev, altmsk>>
  BY DEF SetupHandled, ReceiveFIFO0Setup, TinyReceiveFIFO0Setup
<1>1. SetupPending /\ rx[0].pkt.req = req /\ req \in Asked[tiny] /\ rxev' = {}
  BY <1>0 DEF SetupPending, TransferInv, EventsInv, StackInv, AskedInv
<1>2. t \in [TxFifos -> TxFifo] /\ t[0] = [en |-> FALSE, pid |-> 0, pkt |-> Empty]
  <2>1. tx \in [TxFifos -> TxFifo] /\ 0 \in TxFifos
    BY DEF StackInv, Inv, FirmwareTypeOK, ChipTypeOK, TxFifos
  <2>2. t \in [TxFifos -> TxFifo]
    BY <2>1, TxOperations
  <2> QED BY <2>1, <2>2 DEF TxFlush
<1>3. tiny \in BOOLEAN
  BY DEF StackInv
<1>4. ForAddress =>
        IsStandard(req, "SET_ADDRESS") /\ ForDevice(req, "SET_ADDRESS") /\ ~IsGetDescriptor(req)
  <2>1. req \in Requests /\ (ForAddress => req.type = "standard" /\ req.zero)
    BY <1>1, <1>3, AskedAssumption DEF ForAddress
  <2>2. ForAddress => req.recipient = "device"
    BY <2>1, FirmwareAssumption
  <2> QED BY <2>1, <2>2 DEF ForAddress, ForDevice, IsStandard, IsGetDescriptor
<1>5. ~ForAddress => ~IsStandard(req, "SET_ADDRESS") /\ ~ForDevice(req, "SET_ADDRESS")
  BY DEF ForAddress, ForDevice, IsStandard
<1>6. IF ForAddress THEN def' /\ far' = req.val ELSE UNCHANGED <<def, far>>
  BY <1>1, <1>4, <1>5 DEF SetupHandled, ReceiveFIFO0Setup, TinyReceiveFIFO0Setup
<1>7. stall' <=> Refuses(req)
  BY <1>1 DEF SetupHandled, ReceiveFIFO0Setup, TinyReceiveFIFO0Setup, StallAfter, TinyStall, Refuses
<1>8. IsGetDescriptor(req) =>
        DescriptorSize(req) \in Nat /\ DescriptorSize(req) > 0 /\ req.val \in Descriptors
  BY <1>1, <1>3, SizeOf, AskedAssumption
<1>9. CASE ~tiny
  <2>1. req \in Asked[FALSE]
    BY <1>1, <1>3, <1>9
  <2>2. /\ tx' = StatusTx(req, AnswerTx(req, t))
        /\ IsGetDescriptor(req) => ep0tx' = TransmitEp(GetDescriptor(req))
    BY <1>1, <1>9 DEF SetupHandled, ReceiveFIFO0Setup
  <2> DEFINE u == StatusTx(req, AnswerTx(req, t))[0]
  <2>3. tx'[0] = u
    BY <2>2
  <2> HIDE DEF t
  <2>4. /\ IsGetDescriptor(req) =>
             u = [en |-> TRUE, pid |-> 1, pkt |-> Slice(req.val, 0, DescriptorSize(req))]
        /\ ~IsGetDescriptor(req) => u.pkt.kind # "desc" /\ (u.en => u.pid = 1)
        /\ req.code = "SET_ADDRESS" => u = [en |-> TRUE, pid |-> 1, pkt |-> Empty]
        /\ u.en \/ Unsupported(req) <=> ~Dropped(req)
    BY <1>2, <1>9, <2>1, FullAnswer
  <2> HIDE DEF u
  <2>5. IsGetDescriptor(req) => ep0tx'.buf = req.val /\ ep0tx'.size = DescriptorSize(req)
    <3> SUFFICES ASSUME IsGetDescriptor(req)
                 PROVE  ep0tx'.buf = req.val /\ ep0tx'.size = DescriptorSize(req)
      OBVIOUS
    <3> DEFINE e == GetDescriptor(req)
    <3>1. e = [buf |-> req.val, idx |-> 0, size |-> DescriptorSize(req), pid |-> 1]
      BY <1>8 DEF GetDescriptor
    <3>2. ep0tx' = TransmitEp(e)
      BY <2>2
    <3> HIDE DEF e
    <3>3. TransmitEp(e).buf = req.val /\ TransmitEp(e).size = DescriptorSize(req)
      <4>1. e.size > 0 /\ e.buf = req.val /\ e.size = DescriptorSize(req)
        BY <1>8, <3>1
      <4> QED BY <3>1, <4>1 DEF TransmitEp
    <3> QED BY <3>2, <3>3
  <2>6. ForAddress => u = [en |-> TRUE, pid |-> 1, pkt |-> Empty]
    BY <2>4 DEF ForAddress
  <2>7. (u.en \/ stall' <=> ~Dropped(req)) /\ ~LeftToChance(req)
    BY <1>7, <1>9, <2>4 DEF Refuses, LeftToChance
  <2> QED BY <1>0, <1>1, <1>6, <1>7, <2>3, <2>4, <2>5, <2>6, <2>7
<1>10. CASE tiny
  <2>1. req \in Asked[TRUE] /\ tiny = TRUE
    BY <1>1, <1>3, <1>10
  <2>2. /\ tx' = StatusTx(req, TinyAnswerTx(req, t))
        /\ Sends(req) => ep0tx' = TransmitEp(Loaded(req))
    BY <1>1, <1>10 DEF SetupHandled, TinyReceiveFIFO0Setup
  <2> DEFINE u == StatusTx(req, TinyAnswerTx(req, t))[0]
  <2>3. tx'[0] = u
    BY <2>2
  <2> HIDE DEF t
  <2>4. /\ IsGetDescriptor(req) =>
             u = [en |-> TRUE, pid |-> 1, pkt |-> Slice(req.val, 0, DescriptorSize(req))]
        /\ ~Sends(req) => u.pkt.kind # "desc" /\ (u.en => u.pid = 1)
        /\ req.code = "SET_ADDRESS" => u = [en |-> TRUE, pid |-> 1, pkt |-> Empty]
        /\ u.en \/ TinyUnsupported(req) \/ (ForInterface(req) /\ ~IsReport(req))
        /\ ForInterface(req) /\ ~IsReport(req) => (u.en => ep0tx.size > 0)
    BY <1>2, <2>1, TinyAnswer
  <2> HIDE DEF u
  <2>5. IsGetDescriptor(req) => ep0tx'.buf = req.val /\ ep0tx'.size = DescriptorSize(req)
    <3> SUFFICES ASSUME IsGetDescriptor(req)
                 PROVE  ep0tx'.buf = req.val /\ ep0tx'.size = DescriptorSize(req)
      OBVIOUS
    <3> DEFINE e == Loaded(req)
    <3>1. e = [buf |-> req.val, idx |-> 0, size |-> DescriptorSize(req), pid |-> 1]
      BY <2>1, LoadedDescriptor
    <3>2. ep0tx' = TransmitEp(e)
      BY <2>2 DEF Sends
    <3> HIDE DEF e
    <3>3. TransmitEp(e).buf = req.val /\ TransmitEp(e).size = DescriptorSize(req)
      <4>1. e.size > 0 /\ e.buf = req.val /\ e.size = DescriptorSize(req)
        BY <1>8, <3>1
      <4> QED BY <3>1, <4>1 DEF TransmitEp
    <3> QED BY <3>2, <3>3
  <2>6. ForAddress => u = [en |-> TRUE, pid |-> 1, pkt |-> Empty]
    BY <2>4 DEF ForAddress
  <2>7. ~LeftToChance(req) => (u.en \/ stall' <=> ~Dropped(req))
    BY <1>7, <1>10, <2>4 DEF Refuses, LeftToChance, Dropped
  <2>8. ~IsGetDescriptor(req) /\ ~LeftToChance(req) => ~Sends(req)
    BY <1>10 DEF Sends, LeftToChance, ForInterface, IsReport, IsGetDescriptor
  <2>9. LeftToChance(req) => (u.en => ep0tx'.size > 0)
    <3> SUFFICES ASSUME LeftToChance(req), u.en PROVE ep0tx'.size > 0
      OBVIOUS
    <3>1. ForInterface(req) /\ ~IsReport(req) /\ ep0tx.size > 0
      BY <2>4 DEF LeftToChance
    <3>2. ep0tx' = TransmitEp(ep0tx)
      BY <2>2, <3>1 DEF Sends, Loaded
    <3>3. TransmitEp(ep0tx).size = ep0tx.size
      BY <3>1 DEF TransmitEp
    <3> QED BY <3>1, <3>2, <3>3
  <2> QED BY <1>0, <1>1, <1>6, <1>7, <2>3, <2>4, <2>5, <2>6, <2>7, <2>8, <2>9
<1> QED BY <1>9, <1>10

\* After it the first packet waits for the host.
LEMMA SetupDone ==
  ASSUME StackInv, TransferInv, SetupHandled, UNCHANGED <<hostVars, tiny, wasReset>>
  PROVE  TransferInv'
<1>0. UNCHANGED <<stage, req, got, tog, haddr, result>>
  BY DEF hostVars
<1>1. /\ SetupPending /\ req \in Asked[tiny]
      /\ rxev' = {} /\ isr' = "unmask" /\ UNCHANGED <<txev, altev, altmsk>>
      /\ stall' <=> Refuses(req)
      /\ IF ForAddress THEN def' /\ far' = req.val ELSE UNCHANGED <<def, far>>
      /\ ForAddress => tx'[0] = [en |-> TRUE, pid |-> 1, pkt |-> Empty]
      /\ IsGetDescriptor(req) =>
           /\ tx'[0] = [en |-> TRUE, pid |-> 1,
                        pkt |-> Slice(req.val, 0, DescriptorSize(req))]
           /\ ep0tx'.buf = req.val /\ ep0tx'.size = DescriptorSize(req)
      /\ ~IsGetDescriptor(req) /\ ~LeftToChance(req) =>
           tx'[0].pkt.kind # "desc" /\ (tx'[0].en => tx'[0].pid = 1)
      /\ ~LeftToChance(req) => (tx'[0].en \/ stall' <=> ~Dropped(req))
      /\ LeftToChance(req) => (tx'[0].en => ep0tx'.size > 0)
  BY SetupAnswer
<1>2. ~SetupPending'
  BY <1>1 DEF SetupPending
<1>3. stage = "in" /\ ~LeftToChance(req) => got = <<>> /\ tog = 1
  <2>1. stage = "in" /\ IsGetDescriptor(req) => got = <<>> /\ Counted
    BY <1>1 DEF TransferInv, HostReads, DescriptorRead
  <2>2. tog \in {0, 1} /\ Len(<<>>) % 2 = 0
    BY DEF StackInv, Inv, HostTypeOK
  <2>3. stage = "in" /\ IsGetDescriptor(req) => got = <<>> /\ tog = 1
    BY <2>1, <2>2 DEF Counted
  <2> QED BY <2>3 DEF TransferInv, HostReads
<1>4. EventsInv'
  <2>1. isr = "rx" /\ txev' = txev /\ isr' # "tx"
    BY <1>1 DEF SetupHandled, ReceiveFIFO0Setup, TinyReceiveFIFO0Setup
  <2> QED BY <1>0, <1>1, <1>2, <1>3, <2>1, RequestKept DEF TransferInv, EventsInv, AtStart
<1>5. StallInv'
  BY <1>0, <1>1 DEF StallInv, Refuses
<1>6. AddressInv'
  <2> SUFFICES ASSUME ~(tiny /\ wasReset)
               PROVE  /\ "RESET" \in altev => haddr = 0
                      /\ "RESET" \notin altev => AddressTaken' /\ AddressPending' /\ AddressKnown'
    BY <1>0, <1>1 DEF AddressInv
  <2>1. "RESET" \in altev => haddr = 0
    BY DEF TransferInv, AddressInv
  <2>2. ASSUME "RESET" \notin altev
        PROVE  AddressTaken' /\ AddressPending' /\ AddressKnown'
    <3>1. AddressPending /\ AddressKnown
      BY <2>2 DEF TransferInv, AddressInv
    <3>2. CASE ForAddress
      BY <1>0, <1>1, <1>2, <3>1, <3>2
         DEF AddressTaken, AddressPending, AddressKnown, ForAddress, AddressUnsettled
    <3>3. CASE ~ForAddress
      BY <1>0, <1>1, <1>2, <3>1, <3>3
         DEF AddressTaken, AddressPending, AddressKnown, ForAddress
    <3> QED BY <3>2, <3>3
  <2> QED BY <2>1, <2>2
<1>7. AnswerInv'
  BY <1>0, <1>1, RequestKept DEF AnswerInv, AtStart
<1>8. HostReads'
  BY <1>0, <1>2, HostKept DEF TransferInv
<1>9. FirmwareReads'
  <2> SUFFICES ASSUME stage = "in"
               PROVE  /\ IsGetDescriptor(req) =>
                           /\ ep0tx'.buf = req.val /\ ep0tx'.size = DescriptorSize(req)
                           /\ NextPacket'
                      /\ ~IsGetDescriptor(req) /\ ~LeftToChance(req) =>
                           (tx'[0].en => tx'[0].pkt.kind # "desc" /\ tx'[0].pid = 1)
    BY <1>0, RequestKept DEF FirmwareReads
  <2>1. IsGetDescriptor(req) => ~LeftToChance(req)
    BY DEF IsGetDescriptor, LeftToChance, IsReport
  <2>2. ASSUME IsGetDescriptor(req) PROVE NextPacket'
    <3>1. DescriptorSize(req) > 0
      BY <1>1, <2>2, SizeOf DEF StackInv
    <3>2. 8 * Len(got') = 0
      BY <1>0, <1>3, <2>1, <2>2
    <3> QED BY <1>0, <1>1, <1>3, <2>1, <2>2, <3>1, <3>2 DEF NextPacket
  <2> QED BY <1>1, <2>2
<1> QED BY <1>4, <1>5, <1>6, <1>7, <1>8, <1>9 DEF TransferInv

\* SET_ADDRESS is a request for the device.
LEMMA AddressNotLeft ==
  ASSUME NEW t \in BOOLEAN, NEW q \in Asked[t], q.code = "SET_ADDRESS"
  PROVE  ~LeftToChance(q)
<1>1. q \in Requests /\ q.zero
  BY AskedAssumption
<1>2. q.recipient = "device"
  BY <1>1, FirmwareAssumption
<1> QED BY <1>2 DEF LeftToChance, ForInterface

\* _USBNTransmitFIFO0 sends on from where the host is, or waits for the status.
LEMMA PacketSent ==
  ASSUME StackInv, TransferInv, TransmitFIFO0, UNCHANGED <<hostVars, tiny, wasReset>>
  PROVE  TransferInv'
<1> DEFINE more == txack /\ ep0tx.idx < ep0tx.size
<1>0. /\ UNCHANGED <<stage, req, got, tog, haddr, result>>
      /\ isr = "tx" /\ isr' = "unmask" /\ txev' = txev \ {0}
      /\ UNCHANGED <<rxev, altev, altmsk, far, def, stall>>
      /\ tx' = IF more THEN TransmitTx(ep0tx, tx) ELSE TxFlush(tx, 0)
      /\ rx' = IF more THEN TransmitRx(ep0tx, rx) ELSE RxEnable(rx, 0)
      /\ ep0tx' = IF more THEN TransmitEp(ep0tx) ELSE ep0tx
  BY DEF TransmitFIFO0, hostVars, control
<1>1. /\ rx \in [RxFifos -> RxFifo] /\ tx \in [TxFifos -> TxFifo] /\ ep0tx \in EpInfo
      /\ 0 \in RxFifos /\ 0 \in TxFifos /\ Aligned(ep0tx)
      /\ tog \in {0, 1} /\ got \in Seq(TxPackets)
  BY DEF StackInv, Inv, HostTypeOK, FirmwareTypeOK, ChipTypeOK, SliceCurrent, RxFifos, TxFifos
<1>2. ~SetupPending /\ ~SetupPending'
  <2>1. rx'[0].pkt = rx[0].pkt
    BY <1>0, <1>1 DEF TransmitRx, RxEnable, RxFifo
  <2>2. ~SetupPending
    BY <1>0 DEF TransferInv, EventsInv
  <2> QED BY <1>0, <2>1, <2>2 DEF SetupPending
<1>3. ~AtStart /\ ~(stage = "in" /\ tx[0].en /\ ~LeftToChance(req)) /\ txev' = {}
  BY <1>0 DEF TransferInv, EventsInv
<1>4. EventsInv'
  BY <1>0, <1>2, <1>3, RequestKept DEF TransferInv, EventsInv, AtStart
<1>5. StallInv'
  BY <1>0, <1>2 DEF TransferInv, StallInv, Refuses
<1>6. AddressInv'
  <2>0. ForAddress => ~LeftToChance(req) \/ stage = "idle"
    <3> SUFFICES ASSUME ForAddress, stage # "idle" PROVE ~LeftToChance(req)
      OBVIOUS
    <3>1. req \in Asked[tiny] /\ tiny \in BOOLEAN
      BY DEF TransferInv, EventsInv, StackInv
    <3> QED BY <3>1, AddressNotLeft DEF ForAddress
  <2>1. AddressTaken' /\ (AddressPending => AddressPending') /\ (AddressKnown => AddressKnown')
    BY <1>0, <1>2, <1>3, <2>0
       DEF AddressTaken, AddressPending, AddressKnown, ForAddress, AddressUnsettled, AtStart
  <2> QED BY <1>0, <2>1 DEF TransferInv, AddressInv
<1>7. AnswerInv'
  <2>1. tx'[0].en => ep0tx'.size > 0
    <3>1. CASE more
      <4>1. ep0tx.size > 0
        BY <1>1, <3>1 DEF EpInfo
      <4> QED BY <1>0, <3>1, <4>1 DEF TransmitEp
    <3>2. CASE ~more
      BY <1>0, <1>1, <3>2 DEF TxFlush
    <3> QED BY <3>1, <3>2
  <2> QED BY <1>0, <1>3, <2>1, RequestKept DEF AnswerInv, AtStart
<1>8. HostReads'
  BY <1>0, <1>2, HostKept DEF TransferInv
<1>9. FirmwareReads'
  <2>0. stage = "in" => IsGetDescriptor(req) \/ LeftToChance(req)
    BY <1>3 DEF TransferInv, HostReads, AtStart
  <2> SUFFICES ASSUME stage = "in", IsGetDescriptor(req)
               PROVE  ep0tx'.buf = req.val /\ ep0tx'.size = DescriptorSize(req) /\ NextPacket'
    BY <1>0, <2>0, RequestKept DEF FirmwareReads
  <2>1. /\ ~tx[0].en
        /\ ep0tx.buf = req.val /\ ep0tx.size = DescriptorSize(req)
        /\ ep0tx.idx = 8 * Len(got) /\ (tog = 1 <=> Len(got) % 2 = 0)
    <3>1. ~tx[0].en
      BY <1>3 DEF IsGetDescriptor, LeftToChance, IsReport
    <3> QED BY <1>2, <3>1
            DEF TransferInv, HostReads, DescriptorRead, Counted, FirmwareReads, NextPacket
  <2>2. CASE ~more
    <3>1. tx'[0].en = FALSE /\ ep0tx' = ep0tx
      BY <1>0, <1>1, <2>2 DEF TxFlush
    <3> QED BY <1>0, <2>1, <3>1 DEF NextPacket
  <2>3. CASE more
    <3>1. ep0tx.idx < ep0tx.size /\ ep0tx.size > 0
      BY <1>1, <2>3 DEF EpInfo
    <3>2. tx'[0] = [en |-> TRUE, pid |-> ep0tx.pid,
                    pkt |-> Slice(ep0tx.buf, ep0tx.idx, ep0tx.size)]
      BY <1>0, <1>1, <2>3, <3>1
         DEF TransmitTx, TxFlush, TxWrite, TxSend, Chunk, Ep0Fifo, Slice
    <3>3. ep0tx'.buf = ep0tx.buf /\ ep0tx'.size = ep0tx.size
      BY <1>0, <2>3, <3>1 DEF TransmitEp
    <3>4. ep0tx.pid = tog
      <4>1. Len(got) \in Nat
        BY <1>1
      <4>2. ep0tx.pid = 1 <=> (8 * Len(got)) % 16 = 0
        BY <2>1, <3>1, <1>1 DEF Aligned
      <4>3. ep0tx.pid \in {0, 1}
        BY <1>1 DEF EpInfo
      <4>4. (8 * Len(got)) % 16 = 0 <=> Len(got) % 2 = 0
        BY <4>1
      <4> QED BY <1>1, <2>1, <4>2, <4>3, <4>4
    <3> QED BY <1>0, <2>1, <3>1, <3>2, <3>3, <3>4 DEF NextPacket
  <2> QED BY <2>2, <2>3
<1> QED BY <1>4, <1>5, <1>6, <1>7, <1>8, <1>9 DEF TransferInv

\* Every step of either stack's firmware keeps what the transfer stands on.
LEMMA FirmwareKeepsTransfer ==
  ASSUME StackInv, TransferInv, StackFirmware
  PROVE  TransferInv'
<1>0. UNCHANGED <<stage, req, got, tog, haddr, result, tiny, wasReset, hostVars>>
  BY DEF StackFirmware, hostVars
<1>1. EventsInv
  BY DEF TransferInv
<1>2. CASE SetupHandled
  BY <1>0, <1>2, SetupDone
<1>3. CASE TransmitFIFO0
  BY <1>0, <1>3, PacketSent
<1>4. CASE EnterInterrupt \/ RewriteMask \/ NackEvent \/ TransmitFIFO1
  <2>1. /\ UNCHANGED <<altmsk, far, def, stall, ep0tx, rxev, altev, rx, tx>>
        /\ txev' \subseteq txev /\ (isr' = "idle" \/ isr' = "dispatch" \/ isr' = "unmask")
        /\ isr \notin {"idle", "dispatch", "rx"} \/ (isr = "idle" /\ isr' = "dispatch")
    BY <1>4 DEF EnterInterrupt, RewriteMask, NackEvent, TransmitFIFO1, events, control
  <2>2. EventsInv'
    BY <1>0, <1>1, <2>1, RequestKept DEF EventsInv, SetupPending, AtStart
  <2> QED BY <1>0, <2>1, <2>2, EventTaken
<1>5. CASE ReadMaev
  <2>1. /\ UNCHANGED <<altmsk, far, def, stall, ep0tx, rxev, txev, altev, rx, tx>>
        /\ isr = "dispatch"
    BY <1>5 DEF ReadMaev, chipVars, events, control
  <2>2. /\ isr' = "rx" => rxev # {}
        /\ rxev # {} => isr' = "rx"
        /\ isr' = "tx" => txev # {}
        /\ isr' = "alt" => AltPending
    BY <1>5 DEF ReadMaev
  <2>3. EventsInv'
    BY <1>0, <1>1, <2>1, <2>2, RequestKept DEF EventsInv, SetupPending, AtStart, AltPending
  <2> QED BY <1>0, <2>1, <2>3, EventTaken
<1>6. CASE ReceiveFIFO0Status
  <2>1. /\ isr' = "unmask" /\ rxev' = rxev \ {0} /\ rxev # {} /\ ~SetupPending
        /\ UNCHANGED <<txev, altev, altmsk, far, def>>
    BY <1>6 DEF ReceiveFIFO0Status, control, SetupPending
  <2>2. stage = "idle" /\ ~SetupPending'
    BY <1>1, <2>1 DEF EventsInv, SetupPending
  <2>3. EventsInv'
    BY <1>0, <1>1, <2>1, <2>2 DEF EventsInv, AtStart
  <2>4. AddressInv'
    <3>1. AddressTaken' /\ (AddressPending => AddressPending') /\ (AddressKnown => AddressKnown')
      BY <1>0, <2>1, <2>2
         DEF AddressTaken, AddressPending, AddressKnown, ForAddress, AddressUnsettled
    <3> QED BY <1>0, <2>1, <3>1 DEF TransferInv, AddressInv
  <2>5. HostReads'
    BY <1>0, <2>2, HostKept DEF TransferInv
  <2> QED BY <1>0, <2>2, <2>3, <2>4, <2>5, NoTransfer
<1>7. CASE ReceiveFIFO1
  BY <1>1, <1>7 DEF ReceiveFIFO1, EventsInv
<1>8. CASE AlternateEvent \/ (tiny /\ TinyAlternateEvent)
  <2>1. isr = "alt" /\ "RESET" \in altev /\ stage = "idle" /\ wasReset
    BY <1>1, <1>8 DEF AlternateEvent, TinyAlternateEvent, EventsInv
  <2>2. /\ altev' = {} /\ isr' = "unmask" /\ UNCHANGED <<rxev, txev, altmsk>>
        /\ rx'[0].pkt = rx[0].pkt
    <3>1. rx \in [RxFifos -> RxFifo] /\ 0 \in RxFifos
      BY DEF StackInv, Inv, FirmwareTypeOK, ChipTypeOK, RxFifos
    <3> QED BY <1>8, <2>1, <3>1
              DEF AlternateEvent, TinyAlternateEvent, Reset, SuspendDetect, ResumeDetect,
                  EndOfPacket, RxEnable, RxFifo
  <2>3. ~SetupPending'
    BY <1>1, <2>1, <2>2 DEF EventsInv, SetupPending
  <2>4. EventsInv'
    BY <1>0, <1>1, <2>1, <2>2, <2>3 DEF EventsInv, AtStart, SetupPending
  <2>5. AddressInv'
    <3>1. CASE tiny
      BY <1>0, <2>1, <3>1 DEF AddressInv
    <3>2. CASE ~tiny
      <4>1. far' = 0 /\ haddr = 0
        BY <1>8, <2>1, <3>2
           DEF AlternateEvent, Reset, SuspendDetect, ResumeDetect, EndOfPacket,
               TransferInv, AddressInv
      <4> QED BY <1>0, <2>1, <2>2, <2>3, <4>1
              DEF AddressInv, AddressTaken, AddressPending, AddressKnown, ForAddress
    <3> QED BY <3>1, <3>2
  <2>6. HostReads'
    BY <1>0, <2>1, <2>3, HostKept DEF TransferInv
  <2> QED BY <1>0, <2>1, <2>4, <2>5, <2>6, NoTransfer
<1> QED BY <1>2, <1>3, <1>4, <1>5, <1>6, <1>7, <1>8
        DEF StackFirmware, TinyInterrupt, Interrupt, Handler, SetupHandled

\* A patient host starts a transfer on a device that has no event left; its SETUP
\* packet is then the only one, and FIFO 0 has nothing to send.
LEMMA TransferStarts ==
  ASSUME StackInv, TransferInv, NEW q \in Asked[tiny], SendSetup(q),
         UNCHANGED <<tiny, wasReset>>
  PROVE  TransferInv'
<1>0. /\ stage = "idle" /\ isr = "idle" /\ isr' = isr
      /\ req' = q /\ got' = <<>> /\ tog' = 1 /\ result' = "none" /\ haddr' = haddr
      /\ stage' = IF IsRead(q) THEN "in" ELSE "statin"
      /\ rxev' = rxev \cup {0} /\ UNCHANGED <<txev, altev, altmsk, far, def>>
  BY DEF SendSetup, ReceiveSetup, TransferInv, Quiet, firmwareVars, control
<1>1. /\ rxev = {} /\ txev = {} /\ altev = {}
  BY DEF SendSetup, TransferInv, EventsInv, Quiet, Pending, AltPending
<1>2. /\ rx'[0].pkt = [kind |-> "setup", req |-> q] /\ ~tx'[0].en
  <2>1. rx \in [RxFifos -> RxFifo] /\ tx \in [TxFifos -> TxFifo] /\ 0 \in RxFifos /\ 0 \in TxFifos
    BY DEF StackInv, Inv, FirmwareTypeOK, ChipTypeOK, RxFifos, TxFifos
  <2>2. /\ rx' = [rx EXCEPT ![0] = [en |-> FALSE, pkt |-> [kind |-> "setup", req |-> q]]]
        /\ tx' = [tx EXCEPT ![0].en = FALSE]
    BY DEF SendSetup, ReceiveSetup, TransferInv
  <2> QED BY <2>1, <2>2
<1>3. SetupPending' /\ rx'[0].pkt.req = q
  BY <1>0, <1>1, <1>2 DEF SetupPending
<1>4. q \in Requests /\ (q.code = "SET_ADDRESS" => q.zero)
  BY AskedAssumption DEF StackInv
<1>5. EventsInv'
  BY <1>0, <1>1, <1>2, <1>3 DEF TransferInv, EventsInv
<1>6. StallInv' /\ AnswerInv' /\ FirmwareReads'
  BY <1>3 DEF StallInv, AnswerInv, FirmwareReads
<1>7. AddressInv'
  <2> SUFFICES ASSUME ~(tiny /\ wasReset)
               PROVE  AddressTaken' /\ AddressPending' /\ AddressKnown'
    BY <1>0, <1>1 DEF AddressInv
  <2>1. AddressKnown
    BY <1>1 DEF TransferInv, AddressInv
  <2>2. q.code = "SET_ADDRESS" => haddr = 0 /\ stage' = "statin"
    BY <1>0, <1>4 DEF SendSetup, IsRead
  <2>3. AddressTaken'
    BY <1>3 DEF AddressTaken
  <2>4. AddressPending'
    BY <1>0, <2>2 DEF AddressPending, ForAddress
  <2>5. AddressKnown'
    <3>1. CASE haddr = far
      BY <1>0, <3>1 DEF AddressKnown
    <3>2. CASE haddr # far
      <4>1. haddr = 0 /\ def /\ AddressUnsettled
        BY <1>0, <2>1, <3>2 DEF AddressKnown
      <4>2. q.code = "SET_ADDRESS"
        BY <4>1 DEF SendSetup
      <4> QED BY <1>0, <2>2, <4>1, <4>2 DEF AddressKnown, ForAddress
    <3> QED BY <3>1, <3>2
  <2> QED BY <2>3, <2>4, <2>5
<1>8. HostReads'
  <2>1. IsRead(q) => q.len > 0
    BY DEF IsRead
  <2>2. Len(<<>>) = 0 /\ 0 % 2 = 0 /\ q.len \in Nat
    BY <1>4, FirmwareAssumption
  <2>3. InOrder' /\ Within'
    BY <1>0 DEF InOrder, Within
  <2>4. Received' = 0
    BY <1>0 DEF Received
  <2>5. stage' = "in" => Counted'
    BY <1>0, <2>1, <2>2, <2>4 DEF Counted
  <2>6. DescriptorRead'
    BY <1>0, <2>3, <2>5 DEF DescriptorRead
  <2> QED BY <1>0, <2>6 DEF HostReads
<1> QED BY <1>5, <1>6, <1>7, <1>8 DEF TransferInv

\* The packet the host takes is the one behind those it has, and inside the
\* descriptor; with the last one it has what it wanted.
LEMMA PacketTaken ==
  ASSUME StackInv, TransferInv, NEW ack \in BOOLEAN, DataIn(ack), UNCHANGED <<tiny, wasReset>>
  PROVE  TransferInv'
<1> DEFINE pkt == tx[0].pkt
           n == Len(got)
           size == DescriptorSize(req)
<1>0. /\ stage = "in" /\ ~stall /\ tx[0].en
      /\ tx' = [tx EXCEPT ![0].en = FALSE]
      /\ def' = (def /\ ~ack)
      /\ UNCHANGED <<rxev, altev, altmsk, rx, far, stall, isr, ep0tx, req, haddr>>
      /\ txev' = txev \cup {0}
      /\ TakeData(pkt, tx[0].pid)
  BY DEF DataIn, SendIn, firmwareVars
<1>1. /\ got \in Seq(TxPackets) /\ tog \in {0, 1} /\ n \in Nat
      /\ tx \in [TxFifos -> TxFifo] /\ 0 \in TxFifos /\ tiny \in BOOLEAN
      /\ pkt \in TxPackets
  <2>1. /\ got \in Seq(TxPackets) /\ tog \in {0, 1} /\ tx \in [TxFifos -> TxFifo]
        /\ 0 \in TxFifos /\ tiny \in BOOLEAN
    BY DEF StackInv, Inv, HostTypeOK, FirmwareTypeOK, ChipTypeOK, TxFifos
  <2> QED BY <2>1 DEF TxFifo
<1>2. ~tx'[0].en /\ tx'[0].pid = tx[0].pid
  BY <1>0, <1>1 DEF TxFifo
<1>3. /\ ~SetupPending /\ ~SetupPending' /\ rxev = {} /\ "RESET" \notin altev
      /\ txev' = {0} /\ req \in Asked[tiny]
  BY <1>0 DEF TransferInv, EventsInv, SetupPending
<1>4. /\ IsRead(req)
      /\ IsGetDescriptor(req) =>
           InOrder /\ Within /\ Counted /\ (got # <<>> => req.mps = 8)
      /\ ~IsGetDescriptor(req) /\ ~LeftToChance(req) => tog = 1
      /\ IsGetDescriptor(req) => ~LeftToChance(req)
  BY <1>0 DEF TransferInv, HostReads, DescriptorRead, IsGetDescriptor, LeftToChance, IsReport
<1>5. StallInv'
  BY <1>0, <1>3 DEF TransferInv, StallInv, Refuses
<1>6. /\ IsGetDescriptor(req) =>
           /\ ep0tx.buf = req.val /\ ep0tx.size = size
           /\ 8 * n < size /\ pkt = Slice(req.val, 8 * n, size) /\ tx[0].pid = tog
      /\ ~IsGetDescriptor(req) /\ ~LeftToChance(req) => pkt.kind # "desc" /\ tx[0].pid = 1
  BY <1>0, <1>3 DEF TransferInv, FirmwareReads, NextPacket
<1>7. ~LeftToChance(req) => tx[0].pid = tog
  BY <1>4, <1>6
<1>8. ~(tiny /\ wasReset) => ~ForAddress /\ haddr = far
  BY <1>0, <1>3 DEF TransferInv, AddressInv, AddressPending, AddressKnown
<1>9. AddressInv'
  BY <1>0, <1>3, <1>8 DEF AddressInv, AddressTaken, AddressPending, AddressKnown, ForAddress
\* Of a request left to chance only the events and the STALL matter.
<1>12. CASE LeftToChance(req) \/ (stage' = "out" /\ ~IsGetDescriptor(req))
  <2>1. stage' \in {"in", "out", "idle"} /\ result' \in {result, "babble"}
    BY <1>0 DEF TakeData
  <2>2. ~AtStart' /\ ~(stage' = "in" /\ ~LeftToChance(req)') /\ UNCHANGED <<req, tiny>>
    BY <1>0, <1>12, RequestKept DEF AtStart
  <2>3. EventsInv'
    BY <1>0, <1>2, <1>3, <2>1, <2>2 DEF TransferInv, EventsInv
  <2>4. AnswerInv'
    BY <1>2, <2>2 DEF AnswerInv
  <2>5. ~IsGetDescriptor(req)
    BY <1>4, <1>12
  <2>6. HostReads'
    BY <1>4, <2>1, <2>2, <2>5 DEF HostReads
  <2>7. FirmwareReads'
    BY <2>2, <2>5 DEF FirmwareReads
  <2> QED BY <1>5, <1>9, <2>3, <2>4, <2>6, <2>7 DEF TransferInv
\* A packet without data is no part of a descriptor.
<1>13. ASSUME ~LeftToChance(req), pkt = Empty
       PROVE  stage' = "out" /\ ~IsGetDescriptor(req)
  BY <1>0, <1>6, <1>7, <1>13 DEF TakeData, Empty, Slice
<1>10. CASE ~LeftToChance(req) /\ pkt # Empty
            /\ (pkt.kind # "desc" \/ Received + pkt.len > req.len)
  <2>1. stage' = "idle" /\ result' = "babble" /\ got' = got
    BY <1>0, <1>7, <1>10 DEF TakeData
  <2>2. EventsInv'
    BY <1>0, <1>3, <2>1 DEF TransferInv, EventsInv, AtStart
  <2>3. HostReads'
    BY <1>0, <2>1, ReadKept
  <2> QED BY <1>9, <2>1, <2>2, <2>3, NoTransfer
<1>11. CASE ~LeftToChance(req) /\ pkt # Empty
            /\ pkt.kind = "desc" /\ ~(Received + pkt.len > req.len)
  <2>1. /\ got' = Append(got, pkt) /\ tog' = 1 - tog
        /\ stage' = IF pkt.len < req.mps \/ Received + pkt.len = req.len THEN "out" ELSE "in"
        /\ result' = result
    BY <1>0, <1>7, <1>11 DEF TakeData
  <2>2. IsGetDescriptor(req)
    BY <1>6, <1>11
  <2>3. /\ req.len \in Nat /\ size \in Nat /\ req.mps \in {8, 64}
        /\ req.val \in Descriptors
        /\ req.mps = 64 => req.val = "DEVICE" /\ req.len = 64
    <3>1. req \in Requests /\ req.val \in Descriptors
          /\ (req.mps = 64 => req.val = "DEVICE" /\ req.len = 64)
      BY <1>1, <1>3, <2>2, AskedAssumption
    <3>2. size \in Nat
      BY <1>1, <1>3, <2>2, SizeOf
    <3> QED BY <3>1, <3>2, FirmwareAssumption, ControlAssumption
  <2> DEFINE m == pkt.len
  <2>4. /\ pkt.src = req.val /\ pkt.from = 8 * n /\ m = Lesser(8, size - 8 * n)
        /\ 8 * n < size
    BY <1>6, <2>2 DEF Slice
  <2>5. /\ m \in Nat /\ m > 0 /\ m <= 8 /\ 8 * n + m <= size
        /\ m < 8 => 8 * n + m = size
    BY <1>1, <2>3, <2>4 DEF Lesser
  <2>6. Received = 8 * n /\ Received + m <= req.len
    <3>1. Received = 8 * n
      BY <1>4, <2>2 DEF Counted
    <3> QED BY <1>1, <1>11, <2>3, <2>5, <3>1
  <2> HIDE DEF size
  <2>7. /\ Len(got') = n + 1 /\ got' # <<>> /\ got'[n + 1] = pkt
        /\ \A i \in 1..n : got'[i] = got[i]
    BY <1>1, <2>1
  <2>8. Received' = 8 * n + m
    BY <2>4, <2>7 DEF Received
  <2>9. DOMAIN got = 1..n /\ DOMAIN got' = 1..(n + 1)
    BY <1>1, <2>1
  <2> HIDE DEF pkt, m, n
  <2>10. InOrder'
    <3> SUFFICES ASSUME NEW i \in 1..(n + 1)
                 PROVE  got'[i].src = req.val /\ got'[i].from = (i - 1) * 8
      BY <1>0, <2>9 DEF InOrder, Ep0Fifo
    <3>1. CASE i = n + 1
      BY <1>1, <2>4, <2>7, <3>1
    <3>2. CASE i # n + 1
      <4>1. i \in 1..n
        BY <1>1, <3>2
      <4> QED BY <1>4, <2>2, <2>7, <2>9, <4>1 DEF InOrder, Ep0Fifo
    <3> QED BY <3>1, <3>2
  <2>11. Within'
    <3> SUFFICES ASSUME NEW i \in 1..(n + 1),
                        got'[i].from + got'[i].len > DescLen[got'[i].src]
                 PROVE  req.val = "CONFIGURATION" /\ req.len > DescLen["CONFIGURATION"]
      BY <1>0, <2>9 DEF Within
    <3>1. CASE i = n + 1
      <4>1. size > DescLen[req.val]
        <5>1. 8 * n + m > DescLen[req.val]
          BY <2>4, <2>7, <3>1 DEF m
        <5>2. DescLen[req.val] \in Nat
          BY <2>3, FirmwareAssumption
        <5> QED BY <1>1, <2>3, <2>5, <5>1, <5>2
      <4>2. req.val = "CONFIGURATION" /\ size = req.len
        <5>1. CASE req.val = "DEVICE"
          <6>1. size = 8 \/ size = DescLen["DEVICE"]
            BY <5>1 DEF size, DescriptorSize
          <6> QED BY <4>1, <5>1, <6>1, AskedAssumption, FirmwareAssumption, <2>3
        <5>2. CASE req.val = "CONFIGURATION"
          BY <5>2 DEF size, DescriptorSize
        <5>3. CASE req.val \notin {"DEVICE", "CONFIGURATION"}
          <6>1. size = DescLen[req.val]
            BY <5>3 DEF size, DescriptorSize
          <6> QED BY <2>3, <4>1, <6>1
        <5> QED BY <5>1, <5>2, <5>3
      <4> QED BY <4>1, <4>2
    <3>2. CASE i # n + 1
      <4>1. i \in 1..n
        BY <1>1, <3>2
      <4> QED BY <1>4, <2>2, <2>7, <2>9, <4>1 DEF Within
    <3> QED BY <3>1, <3>2
  <2>12. stage' = "in" => /\ req.mps = 8 /\ m = 8 /\ Counted'
    <3> SUFFICES ASSUME stage' = "in" PROVE req.mps = 8 /\ m = 8 /\ Counted'
      OBVIOUS
    <3>1. ~(m < req.mps) /\ Received + m # req.len
      BY <2>1 DEF m
    <3>2. req.mps = 8 /\ m = 8
      BY <2>3, <2>5, <3>1
    <3>3. Received' = 8 * (n + 1) /\ Received' < req.len
      BY <1>1, <2>3, <2>5, <2>6, <2>8, <3>1, <3>2
    <3>4. tog' = 1 <=> (n + 1) % 2 = 0
      <4>1. tog = 1 <=> n % 2 = 0
        BY <1>4, <2>2 DEF Counted, n
      <4>2. tog' = 1 <=> tog # 1
        BY <1>1, <2>1
      <4>3. (n + 1) % 2 = 0 <=> n % 2 # 0
        BY <1>1
      <4> QED BY <4>1, <4>2, <4>3
    <3> QED BY <1>0, <2>7, <3>2, <3>3, <3>4 DEF Counted
  <2>13. stage' = "out" => Received' = Lesser(req.len, size)
    <3> SUFFICES ASSUME stage' = "out" PROVE Received' = Lesser(req.len, size)
      OBVIOUS
    <3>1. m < req.mps \/ Received + m = req.len
      BY <2>1 DEF m
    <3>2. CASE Received + m = req.len
      BY <1>1, <2>3, <2>5, <2>6, <2>8, <3>2 DEF Lesser
    <3>3. CASE m < 8
      BY <1>1, <2>3, <2>5, <2>6, <2>8, <3>3 DEF Lesser
    <3>4. CASE req.mps = 64
      <4>1. got = <<>> /\ n = 0
        BY <1>4, <2>2, <3>4 DEF n
      <4>2. size = 8 /\ req.len = 64
        BY <2>3, <3>4 DEF size, DescriptorSize
      <4> QED BY <2>4, <2>8, <4>1, <4>2 DEF Lesser
    <3> QED BY <2>3, <3>1, <3>2, <3>3, <3>4
  <2>14. stage' \in {"in", "out"}
    BY <2>1
  <2>15. HostReads'
    <3>1. DescriptorRead'
      BY <1>0, <1>3, <2>10, <2>11, <2>12, <2>13, <2>14 DEF DescriptorRead, size
    <3> QED BY <1>0, <1>4, <2>2, <2>14, <3>1 DEF HostReads
  <2>16. EventsInv'
    BY <1>0, <1>2, <1>3, <2>1, <2>7, <2>14 DEF TransferInv, EventsInv, AtStart
  <2>18. AnswerInv'
    BY <1>2, <2>7, <2>14 DEF AnswerInv, AtStart
  <2>19. FirmwareReads'
    <3>1. ep0tx.buf = req.val /\ ep0tx.size = size
      BY <1>6, <2>2
    <3>2. stage' = "in" => ep0tx.idx = 8 * (n + 1)
      <4>1. pkt.from + pkt.len = ep0tx.idx
        BY <1>0, <1>11 DEF StackInv, Inv, SliceCurrent, Fits, pkt
      <4> QED BY <1>1, <2>4, <2>12, <4>1 DEF m
    <3> QED BY <1>0, <1>2, <2>2, <2>7, <3>1, <3>2 DEF FirmwareReads, NextPacket, size
  <2> QED BY <1>5, <1>9, <2>15, <2>16, <2>18, <2>19 DEF TransferInv
<1> QED BY <1>10, <1>11, <1>12, <1>13

\* The status stages.
LEMMA StatusEnds ==
  ASSUME StackInv, TransferInv, NEW ack \in BOOLEAN, StatusIn(ack), UNCHANGED <<tiny, wasReset>>
  PROVE  TransferInv'
<1>0. /\ stage = "statin" /\ stage' = "idle" /\ tx[0].en
      /\ def' = (def /\ ~ack) /\ txev' = txev \cup {0}
      /\ UNCHANGED <<rxev, altev, altmsk, rx, far, isr, req, got>>
      /\ IF tx[0].pkt = Empty /\ tx[0].pid = 1
         THEN /\ result' = "ok"
              /\ haddr' = IF req.code = "SET_ADDRESS" THEN req.val ELSE haddr
         ELSE result' = "error" /\ UNCHANGED haddr
  BY DEF StatusIn, SendIn, firmwareVars
<1>1. ~SetupPending /\ ~SetupPending' /\ "RESET" \notin altev
  BY <1>0 DEF TransferInv, EventsInv, SetupPending
<1>2. EventsInv'
  BY <1>0, <1>1 DEF TransferInv, EventsInv, AtStart, SetupPending
<1>3. AddressInv'
  <2> SUFFICES ASSUME ~(tiny /\ wasReset)
               PROVE  AddressTaken' /\ AddressPending' /\ AddressKnown'
    BY <1>0, <1>1 DEF AddressInv
  <2>1. AddressTaken' /\ AddressPending'
    BY <1>0, <1>1 DEF AddressTaken, AddressPending, ForAddress
  <2>2. haddr' = far
    <3>1. AddressTaken /\ AddressKnown
      BY <1>1 DEF TransferInv, AddressInv
    <3>2. CASE ForAddress
      BY <1>0, <1>1, <3>1, <3>2 DEF AddressTaken, ForAddress
    <3>3. CASE ~ForAddress
      BY <1>0, <3>1, <3>3 DEF AddressKnown, ForAddress
    <3> QED BY <3>2, <3>3
  <2> QED BY <1>0, <2>1, <2>2 DEF AddressKnown
<1>4. HostReads'
  <2>1. ~IsGetDescriptor(req)
    <3>1. ~IsRead(req) /\ req \in Asked[tiny] /\ tiny \in BOOLEAN
      BY <1>0 DEF TransferInv, HostReads, EventsInv, StackInv
    <3> QED BY <3>1, AskedAssumption DEF IsRead
  <2> QED BY <1>0, <2>1, ReadKept
<1> QED BY <1>0, <1>2, <1>3, <1>4, NoTransfer

LEMMA ReadEnds ==
  ASSUME StackInv, TransferInv, StatusOut, UNCHANGED <<tiny, wasReset>>
  PROVE  TransferInv'
<1>0. /\ stage = "out" /\ stage' = "idle" /\ result' = "ok"
      /\ rx' = [rx EXCEPT ![0] = [en |-> FALSE, pkt |-> Empty]]
      /\ rxev' = rxev \cup {0}
      /\ UNCHANGED <<txev, altev, altmsk, far, def, isr, req, got, haddr>>
  BY DEF StatusOut, ReceiveOut, firmwareVars, control
<1>1. ~SetupPending' /\ "RESET" \notin altev
  <2>1. rx'[0].pkt = Empty
    BY <1>0 DEF StackInv, Inv, FirmwareTypeOK, ChipTypeOK, RxFifos
  <2>2. ~SetupPending'
    BY <2>1 DEF SetupPending, Empty
  <2> QED BY <1>0, <2>2 DEF TransferInv, EventsInv
<1>2. EventsInv'
  BY <1>0, <1>1 DEF TransferInv, EventsInv, AtStart
<1>3. AddressInv'
  BY <1>0, <1>1 DEF TransferInv, AddressInv, AddressTaken, AddressPending, AddressKnown, ForAddress
<1>4. HostReads'
  <2>1. IsGetDescriptor(req) => Received = Lesser(req.len, DescriptorSize(req))
    BY <1>0 DEF TransferInv, HostReads, DescriptorRead
  <2> QED BY <1>0, <2>1, ReadKept
<1> QED BY <1>0, <1>2, <1>3, <1>4, NoTransfer

\* A transfer that ends with a STALL, is given up or is cut off by a bus reset.
LEMMA TransferCutShort ==
  ASSUME StackInv, TransferInv, Stalled \/ GiveUp \/ BusReset,
         wasReset' = (wasReset \/ result' = "reset"), tiny' = tiny
  PROVE  TransferInv'
<1>0. /\ stage' = "idle" /\ result' \in {"stall", "aborted", "reset"}
      /\ rxev' = rxev /\ UNCHANGED <<altmsk, rx, tx, far, def, isr, req, got>>
      /\ txev' \subseteq txev \cup {0}
  BY DEF Stalled, GiveUp, BusReset, SendStall, Signal, firmwareVars, vars960x, chipVars,
         events, control
<1>1. SetupPending' <=> SetupPending
  BY <1>0 DEF SetupPending
<1>2. HostReads'
  BY <1>0, ReadKept
<1>3. CASE Stalled \/ GiveUp
  <2>1. /\ stage # "idle" /\ result' \in {"stall", "aborted"} /\ UNCHANGED <<altev, haddr>>
    BY <1>3 DEF Stalled, GiveUp, SendStall, vars960x, chipVars, events
  <2>2. wasReset \in BOOLEAN /\ "RESET" \notin altev
    BY <2>1 DEF StackInv, TransferInv, EventsInv
  <2>3. wasReset' = wasReset
    BY <2>1, <2>2
  <2>4. EventsInv'
    BY <1>0, <1>1, <2>1, <2>2 DEF TransferInv, EventsInv, AtStart
  <2>5. AddressInv'
    <3> SUFFICES ASSUME ~(tiny /\ wasReset)
                 PROVE  AddressTaken' /\ AddressPending' /\ AddressKnown'
      BY <2>1, <2>2, <2>3 DEF AddressInv
    <3>1. AddressPending /\ AddressKnown
      BY <2>2 DEF TransferInv, AddressInv
    <3> QED BY <1>0, <1>1, <2>1, <3>1
            DEF AddressTaken, AddressPending, AddressKnown, ForAddress, AddressUnsettled
  <2> QED BY <1>0, <1>2, <2>4, <2>5, NoTransfer
<1>4. CASE BusReset
  <2>1. altev' = altev \cup {"RESET"} /\ haddr' = 0 /\ wasReset' = TRUE
    BY <1>4 DEF BusReset, Signal
  <2>2. EventsInv'
    BY <1>0, <1>1, <2>1 DEF TransferInv, EventsInv, AtStart
  <2>3. AddressInv'
    BY <2>1 DEF AddressInv
  <2> QED BY <1>0, <1>2, <2>2, <2>3, NoTransfer
<1> QED BY <1>3, <1>4

\* Firmware and host keep the invariant.
LEMMA TransferNext ==
  StackInv /\ TransferInv /\ [StackNext]_tinyVars => TransferInv'
<1> SUFFICES ASSUME StackInv, TransferInv, [StackNext]_tinyVars PROVE TransferInv'
  OBVIOUS
<1>0. Asked[tiny] \subseteq Requests
  BY AskedAssumption DEF StackInv
<1>1. CASE StackFirmware
  BY <1>1, FirmwareKeepsTransfer
<1>2. CASE Host
  <2>0. wasReset' = (wasReset \/ result' = "reset") /\ tiny' = tiny /\ wasReset \in BOOLEAN
    BY <1>2 DEF Host, StackInv
  <2>1. ASSUME NEW q \in Asked[tiny], SendSetup(q) PROVE TransferInv'
    <3>1. wasReset' = wasReset
      BY <2>0, <2>1 DEF SendSetup
    <3> QED BY <2>0, <2>1, <3>1, TransferStarts
  <2>2. ASSUME NEW ack \in BOOLEAN, DataIn(ack) PROVE TransferInv'
    <3>1. wasReset' = wasReset
      <4>1. result' = result \/ result' = "babble"
        BY <2>2 DEF DataIn, TakeData
      <4> QED BY <2>0, <4>1 DEF TransferInv, EventsInv
    <3> QED BY <2>0, <2>2, <3>1, PacketTaken
  <2>3. ASSUME NEW ack \in BOOLEAN, StatusIn(ack) PROVE TransferInv'
    <3>1. wasReset' = wasReset
      BY <2>0, <2>3 DEF StatusIn
    <3> QED BY <2>0, <2>3, <3>1, StatusEnds
  <2>4. CASE StatusOut
    <3>1. wasReset' = wasReset
      BY <2>0, <2>4 DEF StatusOut
    <3> QED BY <2>0, <2>4, <3>1, ReadEnds
  <2>5. CASE StatusOutNak
    <3>1. /\ UNCHANGED <<hostVars, isr, ep0tx, rxev, txev, altev, altmsk, rx, tx, far, def, stall>>
          /\ stage = "out"
      BY <2>5 DEF StatusOutNak, NakOut0, firmwareVars, control
    <3>2. wasReset' = wasReset
      BY <2>0, <3>1 DEF hostVars, TransferInv, EventsInv
    <3>3. EventsInv'
      BY <2>0, <3>1, <3>2, RequestKept
         DEF TransferInv, EventsInv, SetupPending, AtStart, hostVars
    <3> QED BY <2>0, <3>1, <3>2, <3>3, EventTaken
  <2>6. CASE Stalled \/ GiveUp \/ BusReset
    BY <2>0, <2>6, TransferCutShort
  <2> QED BY <1>2, <2>1, <2>2, <2>3, <2>4, <2>5, <2>6 DEF Host, Tokens
<1>3. CASE UNCHANGED tinyVars
  <2>1. UNCHANGED <<hostVars, tiny, wasReset, isr, ep0tx, rxev, txev, altev, altmsk, rx, tx,
                    far, def, stall>>
    BY <1>3 DEF tinyVars, vars, vars960x, chipVars, firmwareVars, events, control
  <2>2. EventsInv'
    BY <2>1, RequestKept DEF TransferInv, EventsInv, SetupPending, AtStart, hostVars
  <2> QED BY <2>1, <2>2, EventTaken
<1> QED BY <1>1, <1>2, <1>3 DEF StackNext

LEMMA TransferInit == Patient /\ SetupDisarms /\ StackInit => TransferInv
<1> SUFFICES ASSUME Patient, SetupDisarms, StackInit PROVE TransferInv
  OBVIOUS
<1>1. /\ rxev = {} /\ txev = {} /\ altev = {} /\ altmsk = {"RESET", "SD3", "EOP"}
      /\ isr = "idle" /\ stage = "idle" /\ got = <<>> /\ haddr = 0 /\ far = 0
      /\ result = "none"
  BY DEF StackInit, Init, Init960x
<1>2. ~SetupPending
  BY <1>1 DEF SetupPending
<1>3. EventsInv /\ StallInv /\ AnswerInv /\ FirmwareReads
  BY <1>1, <1>2 DEF EventsInv, StallInv, AnswerInv, FirmwareReads, AtStart
<1>4. AddressInv
  BY <1>1, <1>2 DEF AddressInv, AddressTaken, AddressPending, AddressKnown
<1>5. HostReads
  BY <1>1 DEF HostReads, DescriptorRead, InOrder, Within
<1> QED BY <1>3, <1>4, <1>5 DEF TransferInv

LEMMA TransferHolds == Patient /\ SetupDisarms /\ StackSpec => [](StackInv /\ TransferInv)
BY StackInitInv, StackNextInv, TransferInit, TransferNext, PTL DEF StackSpec

\* A quiet device has no SETUP packet to handle, and no bus reset to answer.
LEMMA QuietDevice ==
  ASSUME TransferInv, Quiet
  PROVE  ~SetupPending /\ "RESET" \notin altev
BY DEF TransferInv, EventsInv, Quiet, Pending, AltPending, SetupPending

\* The control endpoint is stalled for the request that was refused and for no
\* other: whatever transfers were given up, lost or reset before, a transfer that
\* runs finds EPC0.STALL as its own request calls for.
THEOREM StallsOwnRequest == Patient /\ SetupDisarms /\ StackSpec => []StallIsForThisRequest
<1>1. StackInv /\ TransferInv => StallIsForThisRequest
  BY QuietDevice DEF TransferInv, StallInv, StallIsForThisRequest
<1> QED BY <1>1, TransferHolds, PTL

\* A quiet device listens to the address the host uses, after any mix of
\* SET_ADDRESS, lost handshakes, abandoned transfers and (full stack) bus resets.
THEOREM AddressesAgree == Patient /\ SetupDisarms /\ StackSpec => []AddressAgreed
<1>1. StackInv /\ TransferInv => AddressAgreed
  BY QuietDevice DEF TransferInv, AddressInv, AddressKnown, AddressAgreed, Reachable
<1> QED BY <1>1, TransferHolds, PTL

\* Which requests are answered: once a SETUP packet has been handled there is a
\* packet or a STALL for the first IN, but for the requests the full stack drops;
\* of those the tiny stack leaves to chance, only what has to be in EP0tx for it.
THEOREM RequestsAnswered == Patient /\ SetupDisarms /\ StackSpec => []RequestAnswered
<1>1. StackInv /\ TransferInv => RequestAnswered
  BY QuietDevice DEF TransferInv, AnswerInv, AtStart, RequestAnswered
<1> QED BY <1>1, TransferHolds, PTL

\* What a control read brings is the descriptor asked for, from its first byte to
\* the last the host wanted, none twice and none left out, for descriptors and
\* requests of any length and whatever happened to the transfers before.
THEOREM ReadsDescriptor == Patient /\ SetupDisarms /\ StackSpec => []ReadIsDescriptor
<1>1. StackInv /\ TransferInv => ReadIsDescriptor
  BY DEF TransferInv, HostReads, DescriptorRead, ReadIsDescriptor, Complete
<1> QED BY <1>1, TransferHolds, PTL
=============================================================================
