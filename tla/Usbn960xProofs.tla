--------------------------- MODULE Usbn960xProofs ---------------------------
(***************************************************************************)
(* Facts about one step of the firmware and one event on the chip, for     *)
(* every set of requests, descriptors and payloads.  The proofs about the  *)
(* modules that add a host rest on them.                                   *)
(***************************************************************************)
EXTENDS Usbn960x, TLAPS

\* The FIFO operations keep a FIFO a FIFO.
LEMMA RxOperations ==
  ASSUME NEW r \in [RxFifos -> RxFifo], NEW n \in RxFifos
  PROVE  /\ RxFlush(r, n) \in [RxFifos -> RxFifo]
         /\ RxEnable(r, n) \in [RxFifos -> RxFifo]
<1>1. Empty \in RxPackets
  BY DEF RxPackets
<1> QED BY <1>1 DEF RxFifo, RxFlush, RxEnable

\* So do those of the transmit side.
LEMMA TxOperations ==
  ASSUME NEW t \in [TxFifos -> TxFifo], NEW n \in TxFifos
  PROVE  /\ TxFlush(t, n) \in [TxFifos -> TxFifo]
         /\ \A p \in TxPackets : TxWrite(t, n, p) \in [TxFifos -> TxFifo]
         /\ \A pid \in {0, 1} : TxSend(t, n, pid) \in [TxFifos -> TxFifo]
<1>1. Empty \in TxPackets
  BY DEF TxPackets
<1>2. TxFlush(t, n) \in [TxFifos -> TxFifo]
  BY <1>1 DEF TxFifo, TxFlush
<1>3. ASSUME NEW p \in TxPackets
      PROVE  TxWrite(t, n, p) \in [TxFifos -> TxFifo]
  BY DEF TxFifo, TxWrite
<1>4. ASSUME NEW pid \in {0, 1}
      PROVE  TxSend(t, n, pid) \in [TxFifos -> TxFifo]
  BY DEF TxFifo, TxSend
<1> QED BY <1>2, <1>3, <1>4

\* _USBNTransmit, called with a packet left to send (or nothing at all), leaves
\* a well-formed EP0tx and a slice inside the descriptor.
LEMMA TransmitTypes ==
  ASSUME NEW e \in EpInfo, e.size > 0 => e.idx <= e.size,
         NEW t \in [TxFifos -> TxFifo], NEW r \in [RxFifos -> RxFifo]
  PROVE  /\ TransmitEp(e) \in EpInfo
         /\ TransmitTx(e, t) \in [TxFifos -> TxFifo]
         /\ TransmitRx(e, r) \in [RxFifos -> RxFifo]
<1>1. e.size > 0 => Chunk(e) \in Nat
  BY DEF EpInfo, Chunk, Lesser, Ep0Fifo
<1>2. TransmitEp(e) \in EpInfo
  <2>1. CASE e.size > 0
    <3>1. e.idx + Chunk(e) \in Nat /\ 1 - e.pid \in {0, 1}
      BY <1>1, <2>1 DEF EpInfo
    <3>2. TransmitEp(e) = [e EXCEPT !.idx = e.idx + Chunk(e), !.pid = 1 - e.pid]
      BY <2>1 DEF TransmitEp
    <3> QED BY <3>1, <3>2 DEF EpInfo
  <2>2. CASE ~(e.size > 0)
    BY <2>2 DEF TransmitEp
  <2> QED BY <2>1, <2>2
<1>3. ASSUME e.size > 0
      PROVE  [kind |-> "desc", src |-> e.buf, from |-> e.idx, len |-> Chunk(e)]
               \in TxPackets
  BY <1>1, <1>3 DEF TxPackets, EpInfo
<1>4. TransmitTx(e, t) \in [TxFifos -> TxFifo]
  <2>1. TxFlush(t, 0) \in [TxFifos -> TxFifo] /\ 0 \in TxFifos
    BY TxOperations DEF TxFifos
  <2>2. e.pid \in {0, 1}
    BY DEF EpInfo
  <2> QED BY <1>3, <2>1, <2>2, TxOperations DEF TransmitTx
<1>5. TransmitRx(e, r) \in [RxFifos -> RxFifo]
  BY RxOperations DEF TransmitRx, RxFifos
<1> QED BY <1>2, <1>4, <1>5

\* A descriptor request starts EP0tx at its first byte.
LEMMA GetDescriptorType ==
  ASSUME FirmwareTypeOK, NEW q \in Requests
  PROVE  GetDescriptor(q) \in EpInfo /\ GetDescriptor(q).idx = 0
<1>1. ep0tx \in EpInfo
  BY DEF FirmwareTypeOK
<1>2. q.val \in Descriptors => DescriptorSize(q) \in Nat /\ q.val \in Buffers
  BY FirmwareAssumption DEF DescriptorSize, Buffers
<1> QED BY <1>1, <1>2 DEF GetDescriptor, EpInfo

\* Whatever the request, answering it leaves FIFO 0 and FIFO 1 well formed.
LEMMA AnswerTypes ==
  ASSUME FirmwareTypeOK, NEW q \in Requests,
         NEW t \in [TxFifos -> TxFifo], NEW r \in [RxFifos -> RxFifo]
  PROVE  /\ StatusTx(q, AnswerTx(q, t)) \in [TxFifos -> TxFifo]
         /\ TransmitRx(GetDescriptor(q), r) \in [RxFifos -> RxFifo]
         /\ ConfigureRx(r) \in [RxFifos -> RxFifo]
         /\ TransmitEp(GetDescriptor(q)) \in EpInfo
<1> DEFINE e == GetDescriptor(q)
<1>1. e \in EpInfo /\ (e.size > 0 => e.idx <= e.size)
  <2>1. e \in EpInfo /\ e.idx = 0
    BY GetDescriptorType
  <2>2. e.size \in Nat
    BY <2>1 DEF EpInfo
  <2> QED BY <2>1, <2>2
<1> HIDE DEF e
<1>2. /\ TransmitEp(e) \in EpInfo
      /\ TransmitTx(e, t) \in [TxFifos -> TxFifo]
      /\ TransmitRx(e, r) \in [RxFifos -> RxFifo]
  BY <1>1, TransmitTypes
<1>3. 0 \in TxFifos /\ 1 \in TxFifos /\ 1 \in RxFifos
  BY DEF TxFifos, RxFifos
<1>4. \A u \in [TxFifos -> TxFifo] : TxSend(u, 0, 1) \in [TxFifos -> TxFifo]
  BY <1>3, TxOperations
<1>5. ConfigureTx(t) \in [TxFifos -> TxFifo]
  BY <1>3, TxOperations DEF ConfigureTx
<1>6. TxWrite(t, 0, [kind |-> "conf"]) \in [TxFifos -> TxFifo]
  <2>1. [kind |-> "conf"] \in TxPackets
    BY DEF TxPackets
  <2> QED BY <1>3, <2>1, TxOperations
<1>7. AnswerTx(q, t) \in [TxFifos -> TxFifo]
  BY <1>2, <1>4, <1>5, <1>6 DEF AnswerTx, e
<1>8. ConfigureRx(r) \in [RxFifos -> RxFifo]
  <2>1. RxFlush(r, 1) \in [RxFifos -> RxFifo]
    BY <1>3, RxOperations
  <2> QED BY <1>3, <2>1, RxOperations DEF ConfigureRx
<1>9. StatusTx(q, AnswerTx(q, t)) \in [TxFifos -> TxFifo]
  BY <1>4, <1>7 DEF StatusTx
<1> QED BY <1>2, <1>8, <1>9 DEF e

\* Every branch of USBNInterrupt keeps the types.
LEMMA InterruptTypes ==
  ASSUME FirmwareTypeOK, Interrupt
  PROVE  FirmwareTypeOK'
<1> USE DEF FirmwareTypeOK, ChipTypeOK
<1> DEFINE Fifo0 == 0 \in RxFifos /\ 0 \in TxFifos /\ 1 \in RxFifos
<1>0. Fifo0
  BY DEF RxFifos, TxFifos
<1>1. CASE EnterInterrupt
  BY <1>1 DEF EnterInterrupt, events, control
<1>2. CASE ReadMaev
  BY <1>2 DEF ReadMaev, chipVars, events, control
<1>3. CASE RewriteMask
  BY <1>3 DEF RewriteMask, events, control, Pending, AltPending
<1>4. CASE ReceiveFIFO0Setup
  <2> DEFINE q == rx[0].pkt.req
             r == RxFlush(rx, 0)
             t == TxFlush(tx, 0)
  <2>1. q \in Requests
    BY <1>0, <1>4 DEF ReceiveFIFO0Setup, RxFifo, RxPackets, Empty
  <2>2. r \in [RxFifos -> RxFifo] /\ t \in [TxFifos -> TxFifo]
    BY <1>0, RxOperations, TxOperations
  <2>3. /\ tx' \in [TxFifos -> TxFifo]
        /\ rx' \in [RxFifos -> RxFifo]
        /\ ep0tx' \in EpInfo
    BY <1>4, <2>1, <2>2, AnswerTypes DEF ReceiveFIFO0Setup
  <2>4. far' \in Addresses \cup {0} /\ def' \in BOOLEAN
    BY <1>4, <2>1, FirmwareAssumption DEF ReceiveFIFO0Setup, IsStandard
  <2>5. stall' \in BOOLEAN /\ configured' \in BOOLEAN /\ irq' \in BOOLEAN
    BY <1>4 DEF ReceiveFIFO0Setup, StallAfter, Unsupported, IsStandard,
                LatchEdge, Pending
  <2> QED BY <1>4, <2>3, <2>4, <2>5 DEF ReceiveFIFO0Setup
<1>5. CASE ReceiveFIFO0Status
  <2>1. /\ [ep0tx EXCEPT !.size = 0] \in EpInfo
        /\ TxFlush(tx, 0) \in [TxFifos -> TxFifo]
        /\ RxEnable(rx, 0) \in [RxFifos -> RxFifo]
    BY <1>0, RxOperations, TxOperations DEF EpInfo
  <2>2. tx' \in [TxFifos -> TxFifo] /\ rx' \in [RxFifos -> RxFifo] /\ ep0tx' \in EpInfo
    BY <1>5, <2>1 DEF ReceiveFIFO0Status
  <2> QED BY <1>5, <2>2 DEF ReceiveFIFO0Status, LatchEdge, control, Pending
<1>6. CASE ReceiveFIFO1
  <2>1. rx[1].pkt \in RxPackets
    BY <1>0 DEF RxFifo
  <2>2. RxEnable(RxFlush(rx, 1), 1) \in [RxFifos -> RxFifo]
    BY <1>0, RxOperations
  <2>3. Append(received, rx[1].pkt) \in Seq(RxPackets)
    BY <2>1
  <2> QED BY <1>6, <2>2, <2>3 DEF ReceiveFIFO1, LatchEdge, control, Pending
<1>7. CASE TransmitFIFO0
  <2> DEFINE more == txack /\ ep0tx.idx < ep0tx.size
  <2>1. more => ep0tx.size > 0 /\ ep0tx.idx <= ep0tx.size
    BY DEF EpInfo
  <2>2. tx' \in [TxFifos -> TxFifo] /\ rx' \in [RxFifos -> RxFifo] /\ ep0tx' \in EpInfo
    <3>1. TxFlush(tx, 0) \in [TxFifos -> TxFifo] /\ RxEnable(rx, 0) \in [RxFifos -> RxFifo]
      BY <1>0, RxOperations, TxOperations
    <3>2. more => /\ TransmitTx(ep0tx, tx) \in [TxFifos -> TxFifo]
                  /\ TransmitRx(ep0tx, rx) \in [RxFifos -> RxFifo]
                  /\ TransmitEp(ep0tx) \in EpInfo
      BY <2>1, TransmitTypes
    <3> QED BY <1>7, <3>1, <3>2 DEF TransmitFIFO0
  <2> QED BY <1>7, <2>2 DEF TransmitFIFO0, LatchEdge, control, Pending
<1>8. CASE TransmitFIFO1
  BY <1>8 DEF TransmitFIFO1, LatchEdge, control, Pending
<1>9. CASE AlternateEvent
  <2>1. TxFlush(tx, 0) \in [TxFifos -> TxFifo] /\ RxEnable(rx, 0) \in [RxFifos -> RxFifo]
    BY <1>0, RxOperations, TxOperations
  <2>2. irq' \in BOOLEAN
    BY <1>9 DEF AlternateEvent, LatchEdge, Pending
  <2>3. /\ tx' \in [TxFifos -> TxFifo] /\ rx' \in [RxFifos -> RxFifo]
        /\ far' \in Addresses \cup {0} /\ def' \in BOOLEAN /\ stall' \in BOOLEAN
        /\ nfs' \in {"OPR", "SUS"} /\ altmsk' \subseteq AltEvents
    BY <1>9, <2>1 DEF AlternateEvent, Reset, SuspendDetect, ResumeDetect,
                      EndOfPacket, AltEvents
  <2> QED BY <1>9, <2>2, <2>3 DEF AlternateEvent
<1>10. CASE NackEvent
  BY <1>10 DEF NackEvent, LatchEdge, control, Pending
<1> QED
  BY <1>1, <1>2, <1>3, <1>4, <1>5, <1>6, <1>7, <1>8, <1>9, <1>10
     DEF Interrupt, Handler

-----------------------------------------------------------------------------
(* Interrupts *)

\* An event handled or still to come: at rest, pending events have a latched
\* interrupt (the property both host modules check under its own name).
InterruptComing == isr = "idle" /\ Pending => irq

\* The chip's side keeps it: a first pending event makes an edge, and a further
\* one comes on top of an interrupt that is latched already.
LEMMA LatchKeepsInterrupt ==
  ASSUME irq \in BOOLEAN, InterruptComing, LatchEdge, isr' = isr
  PROVE  InterruptComing'
BY DEF InterruptComing, LatchEdge

\* The firmware's side keeps it: a handler ends in the mask rewrite, and the
\* rewrite latches what is pending.
LEMMA FirmwareKeepsInterrupt ==
  ASSUME FirmwareTypeOK, InterruptComing, Interrupt
  PROVE  InterruptComing'
<1>1. CASE EnterInterrupt
  BY <1>1 DEF EnterInterrupt, InterruptComing
<1>2. CASE ReadMaev
  <2>1. isr' # "idle"
    BY <1>2 DEF ReadMaev
  <2> QED BY <2>1 DEF InterruptComing
<1>3. CASE RewriteMask
  <2>1. Pending' = Pending
    BY <1>3 DEF RewriteMask, events, Pending, AltPending
  <2> QED BY <1>3, <2>1 DEF RewriteMask, InterruptComing
<1>4. CASE Handler
  <2>1. isr' = "unmask"
    BY <1>4 DEF Handler, ReceiveFIFO0Setup, ReceiveFIFO0Status, ReceiveFIFO1,
                TransmitFIFO0, TransmitFIFO1, AlternateEvent, NackEvent
  <2> QED BY <2>1 DEF InterruptComing
<1> QED BY <1>1, <1>2, <1>3, <1>4 DEF Interrupt

\* Interrupts are switched on in a chip with nothing pending.
LEMMA StartState ==
  ASSUME Init960x
  PROVE  FirmwareTypeOK /\ InterruptComing
<1>1. InterruptComing
  BY DEF Init960x, InterruptComing, Pending, AltPending
<1>2. rx \in [RxFifos -> RxFifo]
  BY DEF Init960x, RxFifo, RxPackets
<1>3. tx \in [TxFifos -> TxFifo]
  BY DEF Init960x, TxFifo, TxPackets
<1>4. ep0tx \in EpInfo
  <2>1. "none" \in Buffers
    BY DEF Buffers
  <2>2. ep0tx = [buf |-> "none", idx |-> 0, size |-> 0, pid |-> 0]
    BY DEF Init960x
  <2> QED BY <2>1, <2>2 DEF EpInfo
<1>5. received \in Seq(RxPackets)
  <2>1. received = <<>>
    BY DEF Init960x
  <2> QED BY <2>1
<1> QED
  BY <1>1, <1>2, <1>3, <1>4, <1>5
     DEF Init960x, FirmwareTypeOK, ChipTypeOK, RxFifos, TxFifos, AltEvents

-----------------------------------------------------------------------------
(* Bus events *)

\* An event on the bus, given its parameters, latches the edge it makes and
\* keeps the types of the chip.
LEMMA BusEventTypes ==
  ASSUME ChipTypeOK, irq \in BOOLEAN,
         \/ \E q \in Requests : ReceiveSetup(q)
         \/ \E n \in RxFifos, p \in RxPackets : ReceiveOut(n, p)
         \/ NakOut0
         \/ \E n \in TxFifos, ack \in BOOLEAN : SendIn(n, ack)
         \/ SendStall
         \/ \E e \in AltEvents : Signal(e)
  PROVE  ChipTypeOK' /\ LatchEdge
<1> USE DEF ChipTypeOK, control
<1>0. LatchEdge => irq' \in BOOLEAN
  BY DEF LatchEdge, Pending
<1>1. ASSUME NEW q \in Requests, ReceiveSetup(q)
      PROVE  ChipTypeOK' /\ LatchEdge
  <2>1. rx' \in [RxFifos -> RxFifo]
    <3>1. [kind |-> "setup", req |-> q] \in RxPackets
      BY DEF RxPackets
    <3> QED BY <1>1, <3>1 DEF ReceiveSetup, RxFifo
  <2>2. tx' \in [TxFifos -> TxFifo]
    BY <1>1 DEF ReceiveSetup, TxFifo
  <2> QED BY <1>0, <1>1, <2>1, <2>2 DEF ReceiveSetup, RxFifos
<1>2. ASSUME NEW n \in RxFifos, NEW p \in RxPackets, ReceiveOut(n, p)
      PROVE  ChipTypeOK' /\ LatchEdge
  <2>1. rx' \in [RxFifos -> RxFifo]
    BY <1>2 DEF ReceiveOut, RxFifo
  <2> QED BY <1>0, <1>2, <2>1 DEF ReceiveOut
<1>3. CASE NakOut0
  BY <1>0, <1>3 DEF NakOut0
<1>4. ASSUME NEW n \in TxFifos, NEW ack \in BOOLEAN, SendIn(n, ack)
      PROVE  ChipTypeOK' /\ LatchEdge
  <2>1. tx' \in [TxFifos -> TxFifo]
    BY <1>4 DEF SendIn, TxFifo
  <2> QED BY <1>0, <1>4, <2>1 DEF SendIn
<1>5. CASE SendStall
  BY <1>0, <1>5 DEF SendStall, TxFifos
<1>6. ASSUME NEW e \in AltEvents, Signal(e)
      PROVE  ChipTypeOK' /\ LatchEdge
  BY <1>0, <1>6 DEF Signal
<1> QED BY <1>1, <1>2, <1>3, <1>4, <1>5, <1>6

-----------------------------------------------------------------------------
(* The slice of a descriptor in FIFO 0 *)

\* EP0tx stands at a packet boundary while it has bytes left, with the DATA PID
\* of that packet.
Aligned(e) ==
  e.idx < e.size => e.idx % 8 = 0 /\ (e.pid = 1 <=> e.idx % 16 = 0)

\* An armed descriptor packet ends where EP0tx stands and has the PID of its
\* place.
Fits(e, f) ==
  f.en /\ f.pkt.kind = "desc" =>
    /\ f.pkt.src = e.buf
    /\ f.pkt.from + f.pkt.len = e.idx
    /\ f.pid = 1 <=> f.pkt.from % 16 = 0

SliceCurrent == Aligned(ep0tx) /\ Fits(ep0tx, tx[0])

\* _USBNTransmit moves EP0tx to the next boundary and arms the slice before it.
LEMMA TransmitFits ==
  ASSUME NEW e \in EpInfo, NEW t \in [TxFifos -> TxFifo],
         Aligned(e), e.idx < e.size
  PROVE  /\ Aligned(TransmitEp(e))
         /\ Fits(TransmitEp(e), TransmitTx(e, t)[0])
         /\ TransmitTx(e, t)[0].pkt.from = e.idx
         /\ TransmitTx(e, t)[0].pid = e.pid
<1>1. e.idx \in Nat /\ e.size \in Nat /\ e.size > 0 /\ e.pid \in {0, 1}
  BY DEF EpInfo
<1>2. e.idx % 8 = 0 /\ (e.pid = 1 <=> e.idx % 16 = 0)
  BY DEF Aligned
<1> DEFINE n == Chunk(e)
<1>3. n \in Nat /\ (e.idx + n < e.size => n = 8)
  BY <1>1 DEF Chunk, Lesser, Ep0Fifo
<1> HIDE DEF n
<1>4. TransmitEp(e) = [e EXCEPT !.idx = e.idx + n, !.pid = 1 - e.pid]
  BY <1>1 DEF TransmitEp, n
<1>5. /\ TransmitEp(e).idx = e.idx + n
      /\ TransmitEp(e).pid = 1 - e.pid
      /\ TransmitEp(e).size = e.size
      /\ TransmitEp(e).buf = e.buf
  BY <1>4 DEF EpInfo
<1>6. Aligned(TransmitEp(e))
  <2>1. e.idx + n < e.size => (e.idx + n) % 8 = 0
                              /\ (1 - e.pid = 1 <=> (e.idx + n) % 16 = 0)
    BY <1>1, <1>2, <1>3
  <2> QED BY <1>5, <2>1 DEF Aligned
<1>7. TransmitTx(e, t)[0] =
        [en |-> TRUE, pid |-> e.pid,
         pkt |-> [kind |-> "desc", src |-> e.buf, from |-> e.idx, len |-> n]]
  BY <1>1 DEF TransmitTx, TxFlush, TxWrite, TxSend, TxFifos, n
<1> QED BY <1>1, <1>2, <1>5, <1>6, <1>7 DEF Fits

\* A SETUP packet flushes FIFO 0 first; what answers it fits EP0tx.
LEMMA SetupKeepsSlice ==
  ASSUME FirmwareTypeOK, SliceCurrent, ReceiveFIFO0Setup
  PROVE  SliceCurrent'
<1> DEFINE q == rx[0].pkt.req
           t == TxFlush(tx, 0)
           g == GetDescriptor(q)
<1>0. tx \in [TxFifos -> TxFifo] /\ 0 \in TxFifos /\ 1 \in TxFifos
  BY DEF FirmwareTypeOK, ChipTypeOK, TxFifos
<1>1. q \in Requests
  BY DEF ReceiveFIFO0Setup, FirmwareTypeOK, ChipTypeOK, RxFifos, RxFifo, RxPackets, Empty
<1>2. t \in [TxFifos -> TxFifo] /\ t[0] = [en |-> FALSE, pid |-> 0, pkt |-> Empty]
  BY <1>0, TxOperations DEF TxFlush
<1>3. tx' = StatusTx(q, AnswerTx(q, t))
  BY DEF ReceiveFIFO0Setup
<1>4. ep0tx' = IF IsGetDescriptor(q) THEN TransmitEp(g) ELSE ep0tx
  BY DEF ReceiveFIFO0Setup
<1>5. CASE IsGetDescriptor(q)
  <2>1. g \in EpInfo /\ g.idx = 0 /\ g.pid = 1
    <3>1. g \in EpInfo /\ g.idx = 0
      BY <1>1, GetDescriptorType
    <3>2. g.pid = 1
      BY DEF GetDescriptor, FirmwareTypeOK, EpInfo
    <3> QED BY <3>1, <3>2
  <2> HIDE DEF g
  <2>2. AnswerTx(q, t) = TransmitTx(g, t) /\ ep0tx' = TransmitEp(g)
    BY <1>4, <1>5 DEF AnswerTx, IsGetDescriptor, IsStandard, g
  <2>3. CASE g.size = 0
    <3>1. AnswerTx(q, t) = t /\ ep0tx' = g
      BY <2>2, <2>3 DEF TransmitTx, TransmitEp
    <3>2. tx'[0].pkt = Empty
      BY <1>0, <1>2, <1>3, <3>1 DEF StatusTx, TxSend
    <3> QED BY <2>1, <2>3, <3>1, <3>2 DEF SliceCurrent, Aligned, Fits, Empty
  <2>4. CASE g.size > 0
    <3>1. Aligned(g) /\ g.idx < g.size
      BY <2>1, <2>4 DEF Aligned
    <3>2. /\ Aligned(ep0tx') /\ Fits(ep0tx', TransmitTx(g, t)[0])
          /\ TransmitTx(g, t)[0].pkt.from = 0
          /\ TransmitTx(g, t)[0].pid = 1
      BY <1>2, <2>1, <2>2, <3>1, TransmitFits
    <3>3. TransmitTx(g, t) \in [TxFifos -> TxFifo] /\ TransmitTx(g, t)[0].en
      <4>1. TransmitTx(g, t) \in [TxFifos -> TxFifo]
        <5>1. g.size > 0 => g.idx <= g.size
          BY <2>1 DEF EpInfo
        <5>2. rx \in [RxFifos -> RxFifo]
          BY DEF FirmwareTypeOK, ChipTypeOK
        <5> QED BY <1>2, <2>1, <5>1, <5>2, TransmitTypes
      <4>2. TransmitTx(g, t)[0].en
        BY <1>0, <1>2, <2>4 DEF TransmitTx, TxFlush, TxWrite, TxSend
      <4> QED BY <4>1, <4>2
    <3>4. tx'[0].pkt = TransmitTx(g, t)[0].pkt /\ tx'[0].pid = 1
      BY <1>0, <1>3, <2>2, <3>2, <3>3 DEF StatusTx, TxSend, TxFifo
    <3> QED BY <3>2, <3>3, <3>4 DEF SliceCurrent, Fits
  <2> QED BY <2>1, <2>3, <2>4 DEF EpInfo
<1>6. CASE ~IsGetDescriptor(q)
  <2>1. AnswerTx(q, t)[0].pkt \in {Empty, [kind |-> "conf"]}
    BY <1>0, <1>2, <1>6
       DEF AnswerTx, ConfigureTx, TxFlush, TxWrite, TxSend, IsStandard, TxFifo
  <2>2. AnswerTx(q, t) \in [TxFifos -> TxFifo]
    <3>1. ConfigureTx(t) \in [TxFifos -> TxFifo]
      BY <1>0, <1>2, TxOperations DEF ConfigureTx
    <3>2. [kind |-> "conf"] \in TxPackets
      BY DEF TxPackets
    <3> QED BY <1>0, <1>2, <1>6, <3>1, <3>2, TxOperations DEF AnswerTx
  <2>3. tx'[0].pkt = AnswerTx(q, t)[0].pkt
    BY <1>0, <1>3, <2>2 DEF StatusTx, TxSend, TxFifo
  <2>4. tx'[0].pkt.kind # "desc"
    BY <2>1, <2>3 DEF Empty
  <2> QED BY <1>4, <1>6, <2>4 DEF SliceCurrent, Fits
<1> QED BY <1>5, <1>6

\* No other branch of USBNInterrupt arms an old slice.
LEMMA InterruptKeepsSlice ==
  ASSUME FirmwareTypeOK, SliceCurrent, Interrupt
  PROVE  SliceCurrent'
<1>0. /\ tx \in [TxFifos -> TxFifo] /\ 0 \in TxFifos /\ ep0tx \in EpInfo
      /\ ~TxFlush(tx, 0)[0].en
  BY DEF FirmwareTypeOK, ChipTypeOK, TxFifos, TxFlush
<1>1. CASE UNCHANGED <<tx, ep0tx>>
  BY <1>1 DEF SliceCurrent
<1>2. CASE ReceiveFIFO0Setup
  BY <1>2, SetupKeepsSlice
<1>3. CASE ReceiveFIFO0Status
  <2>1. CASE ep0tx.size > Ep0Fifo
    <3>1. ep0tx'.size = 0 /\ ep0tx'.idx \in Nat /\ ~tx'[0].en
      BY <1>0, <1>3, <2>1 DEF ReceiveFIFO0Status, EpInfo
    <3> QED BY <3>1 DEF SliceCurrent, Aligned, Fits
  <2>2. CASE ~(ep0tx.size > Ep0Fifo)
    BY <1>1, <1>3, <2>2 DEF ReceiveFIFO0Status
  <2> QED BY <2>1, <2>2
<1>4. CASE TransmitFIFO0
  <2>1. CASE txack /\ ep0tx.idx < ep0tx.size
    <3>1. tx' = TransmitTx(ep0tx, tx) /\ ep0tx' = TransmitEp(ep0tx)
      BY <1>4, <2>1 DEF TransmitFIFO0
    <3> QED BY <1>0, <2>1, <3>1, TransmitFits DEF SliceCurrent
  <2>2. CASE ~(txack /\ ep0tx.idx < ep0tx.size)
    <3>1. ~tx'[0].en /\ ep0tx' = ep0tx
      BY <1>0, <1>4, <2>2 DEF TransmitFIFO0
    <3> QED BY <3>1 DEF SliceCurrent, Fits
  <2> QED BY <2>1, <2>2
<1>5. CASE AlternateEvent
  <2>1. ep0tx' = ep0tx /\ (tx' = tx \/ tx' = TxFlush(tx, 0))
    BY <1>5 DEF AlternateEvent, Reset, SuspendDetect, ResumeDetect, EndOfPacket
  <2> QED BY <1>0, <2>1 DEF SliceCurrent, Fits
<1>6. CASE \/ EnterInterrupt \/ ReadMaev \/ RewriteMask
           \/ ReceiveFIFO1 \/ TransmitFIFO1 \/ NackEvent
  BY <1>1, <1>6 DEF EnterInterrupt, ReadMaev, RewriteMask, ReceiveFIFO1,
                    TransmitFIFO1, NackEvent, chipVars
<1> QED BY <1>2, <1>3, <1>4, <1>5, <1>6 DEF Interrupt, Handler

\* The bus can only switch a transmitter off.
LEMMA BusEventKeepsSlice ==
  ASSUME ChipTypeOK, SliceCurrent, ep0tx' = ep0tx,
         \/ \E q \in Requests : ReceiveSetup(q)
         \/ \E n \in RxFifos, p \in RxPackets : ReceiveOut(n, p)
         \/ NakOut0
         \/ \E n \in TxFifos, ack \in BOOLEAN : SendIn(n, ack)
         \/ SendStall
         \/ \E e \in AltEvents : Signal(e)
  PROVE  SliceCurrent'
<1>1. tx \in [TxFifos -> TxFifo] /\ 0 \in TxFifos
  BY DEF ChipTypeOK, TxFifos
<1>2. tx'[0] = tx[0] \/ ~tx'[0].en
  <2>1. ASSUME NEW q \in Requests, ReceiveSetup(q)
        PROVE  tx'[0] = tx[0] \/ ~tx'[0].en
    BY <1>1, <2>1 DEF ReceiveSetup, TxFifo
  <2>2. ASSUME NEW n \in TxFifos, NEW ack \in BOOLEAN, SendIn(n, ack)
        PROVE  tx'[0] = tx[0] \/ ~tx'[0].en
    BY <1>1, <2>2 DEF SendIn, TxFifo
  <2> QED BY <2>1, <2>2 DEF ReceiveOut, NakOut0, SendStall, Signal
<1> QED BY <1>2 DEF SliceCurrent, Fits
=============================================================================
