---------------------------- MODULE UsbBusProofs ----------------------------
(***************************************************************************)
(* Invariants of the device on the bus, for every set of payloads, any     *)
(* number of configurations and packets, and resets in any state.          *)
(***************************************************************************)
EXTENDS UsbBus, Usbn960xProofs

BusTypeOK ==
  /\ bus \in {"active", "suspended"}
  /\ due \in Seq(RxPackets)
  /\ settling \in BOOLEAN
  /\ configs \in 0..MaxConfigurations
  /\ cutshort \in BOOLEAN /\ starved \in BOOLEAN

\* FIFO 1 is armed, or its event is on the way to ReceiveFIFO1, which arms it.
ReceiverAlive == configured => rx[1].en \/ 1 \in rxev

Inv == FirmwareTypeOK /\ BusTypeOK /\ InterruptComing /\ WakeEnabled /\ ReceiverAlive

\* Putting another packet in the place of the last one.
LEMMA LastReplaced ==
  ASSUME NEW S, NEW s \in Seq(S), NEW y \in S
  PROVE  /\ [s EXCEPT ![Len(s)] = y] \in Seq(S) /\ Append(s, y) \in Seq(S)
         /\ \A x \in S : LET t == Append(s, x)
                        IN [t EXCEPT ![Len(t)] = y] = Append(s, y)
<1>1. [s EXCEPT ![Len(s)] = y] \in Seq(S)
  <2> DEFINE u == [s EXCEPT ![Len(s)] = y]
  <2> DEFINE n == Len(s)
  <2>1. n \in Nat /\ DOMAIN s = 1..n /\ s \in [1..n -> S]
    OBVIOUS
  <2>2. [s EXCEPT ![n] = y] \in [1..n -> S]
    BY <2>1
  <2> HIDE DEF n
  <2>3. [1..n -> S] \subseteq Seq(S)
    BY <2>1
  <2> QED BY <2>2, <2>3 DEF n
<1>2. ASSUME NEW x \in S
      PROVE  [Append(s, x) EXCEPT ![Len(Append(s, x))] = y] = Append(s, y)
  <2>1. Len(Append(s, x)) = Len(s) + 1 /\ Append(s, x) \in Seq(S) /\ Append(s, y) \in Seq(S)
    OBVIOUS
  <2> DEFINE n == Len(s) + 1
             a == Append(s, x)
             b == Append(s, y)
             A == [a EXCEPT ![n] = y]
  <2>2. /\ n \in Nat /\ DOMAIN a = 1..n /\ a[n] = x /\ (\A i \in 1..Len(s) : a[i] = s[i])
        /\ DOMAIN b = 1..n /\ b[n] = y /\ (\A i \in 1..Len(s) : b[i] = s[i])
        /\ a = [i \in 1..n |-> a[i]] /\ b = [i \in 1..n |-> b[i]]
        /\ \A i \in 1..n : i = n \/ i \in 1..Len(s)
    <3>1. /\ n \in Nat /\ DOMAIN a = 1..n /\ a[n] = x /\ (\A i \in 1..Len(s) : a[i] = s[i])
          /\ DOMAIN b = 1..n /\ b[n] = y /\ (\A i \in 1..Len(s) : b[i] = s[i])
      BY <2>1
    <3> DEFINE asFunction(t) == [i \in 1..Len(t) |-> t[i]]
    <3>6. ASSUME NEW t \in Seq(S) PROVE t = asFunction(t)
      OBVIOUS
    <3>7. a \in Seq(S) /\ b \in Seq(S) /\ Len(a) = n /\ Len(b) = n
      BY <2>1
    <3> HIDE DEF a, b, n
    <3>2. a = [i \in 1..n |-> a[i]]
      BY <3>6, <3>7
    <3>3. b = [i \in 1..n |-> b[i]]
      BY <3>6, <3>7
    <3>4. Len(s) \in Nat
      OBVIOUS
    <3>5. \A i \in 1..n : i = n \/ i \in 1..Len(s)
      BY <3>4 DEF n
    <3> QED BY <3>1, <3>2, <3>3, <3>5
  <2> HIDE DEF n, a, b
  <2>3. A = [i \in 1..n |-> IF i = n THEN y ELSE a[i]]
    BY <2>2
  <2>4. \A i \in 1..n : (IF i = n THEN y ELSE a[i]) = b[i]
    BY <2>2
  <2>5. A = b
    BY <2>2, <2>3, <2>4
  <2> QED BY <2>1, <2>5 DEF n, a, b
<1> QED BY <1>1, <1>2

\* USBNStart leaves the invariant true.
LEMMA InitInv == Init => Inv
<1> SUFFICES ASSUME Init PROVE Inv
  OBVIOUS
<1>1. FirmwareTypeOK /\ InterruptComing
  BY StartState DEF Init
<1>2. due \in Seq(RxPackets)
  <2>1. due = <<>>
    BY DEF Init
  <2> QED BY <2>1
<1>3. WakeEnabled /\ ReceiverAlive
  BY DEF Init, Init960x, WakeEnabled, ReceiverAlive
<1>4. BusTypeOK
  <2>1. configs \in 0..MaxConfigurations
    BY BusAssumption DEF Init
  <2>2. bus = "active" /\ settling = FALSE /\ cutshort = FALSE /\ starved = FALSE
    BY DEF Init
  <2> QED BY <1>2, <2>1, <2>2 DEF BusTypeOK
<1> QED BY <1>1, <1>3, <1>4 DEF Inv

\* An interrupt leaves FIFO 1 armed, or with an event that will arm it, and
\* masks no event that could wake a suspended node.
LEMMA FirmwareStep ==
  ASSUME Inv, Interrupt
  PROVE  WakeEnabled' /\ ReceiverAlive'
<1>0. rx \in [RxFifos -> RxFifo] /\ 0 \in RxFifos /\ 1 \in RxFifos
  BY DEF Inv, FirmwareTypeOK, ChipTypeOK, RxFifos
<1>1. \A r \in [RxFifos -> RxFifo] :
        /\ RxFlush(r, 0)[1] = r[1] /\ RxEnable(r, 0)[1] = r[1]
        /\ ConfigureRx(r)[1].en
        /\ \A e \in EpInfo : TransmitRx(e, r)[1] = r[1]
  BY <1>0 DEF RxFlush, RxEnable, ConfigureRx, TransmitRx, RxFifo
<1>2. CASE ReceiveFIFO0Setup
  <2> DEFINE q == rx[0].pkt.req
             r == RxFlush(rx, 0)
  <2>1. q \in Requests
    BY <1>0, <1>2 DEF ReceiveFIFO0Setup, RxFifo, RxPackets, Empty
  <2>2. GetDescriptor(q) \in EpInfo /\ r \in [RxFifos -> RxFifo]
    BY <1>0, <2>1, GetDescriptorType, RxOperations DEF Inv
  <2>3. CASE IsStandard(q, "SET_CONFIGURATION")
    BY <1>1, <1>2, <2>2, <2>3
       DEF ReceiveFIFO0Setup, IsStandard, IsGetDescriptor, ReceiverAlive,
           WakeEnabled, Inv
  <2>4. CASE ~IsStandard(q, "SET_CONFIGURATION")
    <3>1. rx'[1] = rx[1] /\ configured' = configured
      BY <1>0, <1>1, <1>2, <2>2, <2>4
         DEF ReceiveFIFO0Setup, Inv, FirmwareTypeOK, ChipTypeOK
    <3> QED BY <1>2, <3>1 DEF ReceiveFIFO0Setup, ReceiverAlive, WakeEnabled, Inv
  <2> QED BY <2>3, <2>4
<1>3. CASE ReceiveFIFO1
  <2>1. rx'[1].en
    BY <1>0, <1>3 DEF ReceiveFIFO1, RxEnable, RxFlush, RxFifo
  <2> QED BY <1>3, <2>1 DEF ReceiveFIFO1, ReceiverAlive, WakeEnabled, Inv, control
<1>4. CASE ReceiveFIFO0Status
  <2>1. rx'[1] = rx[1]
    BY <1>0, <1>1, <1>4 DEF ReceiveFIFO0Status
  <2> QED BY <1>4, <2>1 DEF ReceiveFIFO0Status, ReceiverAlive, WakeEnabled, Inv, control
<1>5. CASE TransmitFIFO0
  <2>1. rx'[1] = rx[1]
    BY <1>0, <1>1, <1>5 DEF TransmitFIFO0, Inv, FirmwareTypeOK
  <2> QED BY <1>5, <2>1 DEF TransmitFIFO0, ReceiverAlive, WakeEnabled, Inv, control
<1>6. CASE AlternateEvent
  <2>1. rx'[1] = rx[1]
    BY <1>0, <1>1, <1>6 DEF AlternateEvent, Reset, SuspendDetect, ResumeDetect, EndOfPacket
  <2>2. WakeEnabled'
    BY <1>6 DEF AlternateEvent, Reset, SuspendDetect, ResumeDetect, EndOfPacket,
                WakeEnabled, Inv
  <2> QED BY <1>6, <2>1, <2>2 DEF AlternateEvent, ReceiverAlive, Inv
<1>7. CASE EnterInterrupt \/ ReadMaev \/ RewriteMask \/ TransmitFIFO1 \/ NackEvent
  BY <1>7 DEF EnterInterrupt, ReadMaev, RewriteMask, TransmitFIFO1, NackEvent,
              chipVars, events, control, ReceiverAlive, WakeEnabled, Inv
<1> QED BY <1>2, <1>3, <1>4, <1>5, <1>6, <1>7 DEF Interrupt, Handler

\* So does what the host does.
LEMMA HostStep ==
  ASSUME Inv, Next, ~Firmware, ~(\E d \in Data, pid \in {0, 1} : AppSend(d, pid))
  PROVE  /\ ChipTypeOK' /\ LatchEdge /\ UNCHANGED firmwareVars
         /\ BusTypeOK' /\ WakeEnabled' /\ ReceiverAlive'
<1>0. /\ ChipTypeOK /\ irq \in BOOLEAN /\ BusTypeOK /\ WakeEnabled /\ ReceiverAlive
      /\ rx \in [RxFifos -> RxFifo] /\ 0 \in RxFifos /\ 1 \in RxFifos
  BY DEF Inv, FirmwareTypeOK, ChipTypeOK, RxFifos
<1> DEFINE Event == \/ \E q \in Requests : ReceiveSetup(q)
                    \/ \E n \in RxFifos, p \in RxPackets : ReceiveOut(n, p)
                    \/ NakOut0
                    \/ \E n \in TxFifos, ack \in BOOLEAN : SendIn(n, ack)
                    \/ SendStall
                    \/ \E e \in AltEvents : Signal(e)
           Kept == UNCHANGED firmwareVars /\ BusTypeOK' /\ WakeEnabled' /\ ReceiverAlive'
<1>1. CASE Configure
  <2>1. rx'[1] = rx[1]
    BY <1>0, <1>1 DEF Configure, ReceiveSetup
  <2>2. BusTypeOK'
    BY <1>0, <1>1, BusAssumption DEF Configure, BusTypeOK
  <2>3. WakeEnabled' /\ ReceiverAlive'
    BY <1>0, <1>1, <2>1
       DEF Configure, ReceiveSetup, WakeEnabled, ReceiverAlive, control
  <2>4. UNCHANGED firmwareVars
    BY <1>1 DEF Configure
  <2> QED BY <1>0, <1>1, <2>2, <2>3, <2>4, BusEventTypes, BusAssumption DEF Configure
<1>2. CASE StatusIn \/ BulkIn
  <2>1. Event
    BY <1>2 DEF StatusIn, BulkIn, TxFifos
  <2>2. BusTypeOK' /\ UNCHANGED firmwareVars
    BY <1>0, <1>2 DEF StatusIn, BulkIn, BusTypeOK, busVars
  <2>3. WakeEnabled' /\ ReceiverAlive'
    <3>1. UNCHANGED <<nfs, altmsk, configured, rx, rxev>>
      BY <1>2 DEF StatusIn, BulkIn, SendIn
    <3> QED BY <1>0, <3>1 DEF WakeEnabled, ReceiverAlive
  <2> QED BY <1>0, <2>1, <2>2, <2>3, BusEventTypes
<1>3. ASSUME NEW d \in Data, BulkOut(d)
      PROVE  ChipTypeOK' /\ LatchEdge /\ Kept
  <2>1. Event
    BY <1>0, <1>3 DEF BulkOut, RxPackets
  <2>2. BusTypeOK'
    <3> DEFINE p == [kind |-> "out", data |-> d]
    <3>1. p \in RxPackets /\ due \in Seq(RxPackets)
      BY <1>0 DEF RxPackets, BusTypeOK
    <3>2. due' = [due EXCEPT ![Len(due)] = p] \/ due' = Append(due, p)
      BY <1>3 DEF BulkOut
    <3> HIDE DEF p
    <3>3. due' \in Seq(RxPackets)
      BY <3>1, <3>2, LastReplaced
    <3> QED BY <1>0, <1>3, <3>3 DEF BulkOut, BusTypeOK
  <2>3. Kept
    <3>1. UNCHANGED <<nfs, altmsk, configured>> /\ 1 \in rxev' /\ UNCHANGED firmwareVars
      BY <1>3 DEF BulkOut, ReceiveOut, control
    <3> QED BY <1>0, <2>2, <3>1 DEF WakeEnabled, ReceiverAlive
  <2> QED BY <1>0, <2>1, <2>3, BusEventTypes
<1>4. CASE Suspend \/ Resume \/ BusReset \/ Eop
  <2>1. Event
    BY <1>4 DEF Suspend, Resume, BusReset, Eop, AltEvents
  <2>2. BusTypeOK' /\ UNCHANGED firmwareVars
    BY <1>0, <1>4 DEF Suspend, Resume, BusReset, Eop, BusTypeOK, busVars
  <2>3. WakeEnabled' /\ ReceiverAlive'
    <3>1. UNCHANGED <<nfs, altmsk, configured, rx, rxev>>
      BY <1>4 DEF Suspend, Resume, BusReset, Eop, Signal, control
    <3> QED BY <1>0, <3>1 DEF WakeEnabled, ReceiverAlive
  <2> QED BY <1>0, <2>1, <2>2, <2>3, BusEventTypes
<1> QED BY <1>1, <1>2, <1>3, <1>4 DEF Next

\* Every step of firmware, application or host keeps it.
LEMMA NextInv == Inv /\ [Next]_vars => Inv'
<1> SUFFICES ASSUME Inv, [Next]_vars PROVE Inv'
  OBVIOUS
<1>1. CASE Firmware
  <2>1. BusTypeOK'
    <3>1. Empty \in RxPackets /\ due \in Seq(RxPackets)
      BY DEF RxPackets, Inv, BusTypeOK
    <3>2. due' = [due EXCEPT ![Len(due)] = Empty] \/ due' = due
      BY <1>1 DEF Firmware
    <3>3. due' \in Seq(RxPackets)
      BY <3>1, <3>2, LastReplaced
    <3>4. starved' \in BOOLEAN
      BY <1>1 DEF Firmware, Inv, BusTypeOK
    <3> QED BY <1>1, <3>3, <3>4 DEF Firmware, Inv, BusTypeOK
  <2> QED
    BY <1>1, <2>1, InterruptTypes, FirmwareKeepsInterrupt, FirmwareStep DEF Inv, Firmware
<1>2. ASSUME NEW d \in Data, NEW pid \in {0, 1}, AppSend(d, pid)
      PROVE  Inv'
  <2>1. tx' \in [TxFifos -> TxFifo]
    <3>1. /\ TxFlush(tx, 1) \in [TxFifos -> TxFifo] /\ 1 \in TxFifos
          /\ [kind |-> "in", data |-> d] \in TxPackets
      BY TxOperations DEF Inv, FirmwareTypeOK, ChipTypeOK, TxFifos, TxPackets
    <3> QED BY <1>2, <3>1, TxOperations DEF AppSend
  <2>2. UNCHANGED <<events, altmsk, irq, rx, txack, control, isr, ep0tx, received, busVars>>
        /\ apptx' = FALSE
    BY <1>2 DEF AppSend
  <2>3. FirmwareTypeOK'
    BY ZenonT(40), <2>1, <2>2 DEF events, control, Inv, FirmwareTypeOK, ChipTypeOK
  <2>4. BusTypeOK'
    BY <2>2 DEF busVars, Inv, BusTypeOK
  <2>5. InterruptComing' /\ WakeEnabled' /\ ReceiverAlive'
    BY <2>2 DEF events, control, Inv, InterruptComing, Pending, AltPending,
                WakeEnabled, ReceiverAlive
  <2> QED BY <2>3, <2>4, <2>5 DEF Inv
<1>3. CASE Next /\ ~Firmware /\ ~(\E d \in Data, pid \in {0, 1} : AppSend(d, pid))
  <2>1. /\ ChipTypeOK' /\ LatchEdge /\ UNCHANGED firmwareVars
        /\ BusTypeOK' /\ WakeEnabled' /\ ReceiverAlive'
    BY <1>3, HostStep
  <2>2. FirmwareTypeOK'
    BY <2>1 DEF Inv, FirmwareTypeOK, firmwareVars
  <2>3. InterruptComing'
    BY <2>1, LatchKeepsInterrupt DEF Inv, FirmwareTypeOK, ChipTypeOK, firmwareVars
  <2> QED BY <2>1, <2>2, <2>3 DEF Inv
<1>4. CASE UNCHANGED vars
  BY <1>4 DEF vars, busVars, vars960x, chipVars, firmwareVars, events, control, Inv,
       BusTypeOK, FirmwareTypeOK, ChipTypeOK, InterruptComing, Pending, AltPending,
       WakeEnabled, ReceiverAlive
<1> QED BY <1>1, <1>2, <1>3, <1>4

\* Every variable of the chip, the firmware and the bus keeps its type.
THEOREM TypeCorrect == Spec => []TypeOK
<1>1. Inv => TypeOK
  BY DEF Inv, TypeOK, BusTypeOK
<1> QED BY <1>1, InitInv, NextInv, PTL DEF Spec

\* No pending event of FIFO 0, FIFO 1 or the bus state is left without an
\* interrupt when USBNInterrupt returns.
THEOREM NoInterruptLost == Spec => []NoLostInterrupt
<1>1. Inv => NoLostInterrupt
  BY DEF Inv, InterruptComing, NoLostInterrupt
<1> QED BY <1>1, InitInv, NextInv, PTL DEF Spec

\* A suspended node can be woken, whatever sequence of suspends, resumes, resets
\* and simultaneous events the alternate handler has seen.
THEOREM SuspendedCanWake == Spec => []WakeEnabled
<1>1. Inv => WakeEnabled
  BY DEF Inv
<1> QED BY <1>1, InitInv, NextInv, PTL DEF Spec

\* A configured device that has nothing left to handle can take the next OUT
\* packet, whatever requests, resets and packets came before.
THEOREM ReceiverNeverDeaf == Spec => []ReceiverRearmed
<1>1. Inv => ReceiverRearmed
  BY DEF Inv, ReceiverAlive, ReceiverRearmed, Quiet, Pending
<1> QED BY <1>1, InitInv, NextInv, PTL DEF Spec

-----------------------------------------------------------------------------
(* Delivery of bulk packets *)

\* FIFO 0 receives nothing but configuration requests.
Delivery ==
  /\ isr = "rx" => rxev # {}
  /\ 0 \in rxev => rx[0].pkt = [kind |-> "setup", req |-> SetConfiguration]
  /\ OutDeliveredOnce

\* Joining a sequence with nothing and with one element.
LEMMA Joins ==
  ASSUME NEW S, NEW s \in Seq(S), NEW x \in S
  PROVE  s \o <<>> = s /\ s \o <<x>> = Append(s, x)
OBVIOUS

\* Another packet, or none, in the place of the one in flight.
LEMMA OtherInFlight ==
  ASSUME received \in Seq(RxPackets), rx[1].pkt \in RxPackets, 1 \in rxev, OutDeliveredOnce,
         NEW p \in RxPackets, rx'[1].pkt = p, 1 \in rxev', received' = received,
         due' = [due EXCEPT ![Len(due)] = p]
  PROVE  OutDeliveredOnce'
<1>1. due = Append(received, rx[1].pkt)
  BY Joins DEF OutDeliveredOnce, InFlight
<1>2. due' = Append(received, p)
  BY <1>1, LastReplaced
<1>3. received \o <<p>> = Append(received, p)
  BY Joins
<1> QED BY <1>2, <1>3 DEF OutDeliveredOnce, InFlight

\* USBNStart leaves nothing in flight.
LEMMA DeliveryInit == Init => Delivery
<1> SUFFICES ASSUME Init PROVE Delivery
  OBVIOUS
<1>1. rxev = {} /\ isr = "idle" /\ received = <<>> /\ due = <<>>
  BY DEF Init, Init960x
<1>2. OutDeliveredOnce
  BY <1>1 DEF OutDeliveredOnce, InFlight
<1> QED BY <1>1, <1>2 DEF Delivery

\* The handlers neither lose nor repeat a packet, but for the flush that comes with
\* a configuration.
LEMMA DeliveryFirmware ==
  ASSUME Inv, Delivery, Firmware
  PROVE  Delivery'
<1> USE DEF Delivery
<1>0. /\ rx \in [RxFifos -> RxFifo] /\ 0 \in RxFifos /\ 1 \in RxFifos
      /\ received \in Seq(RxPackets) /\ rxev \subseteq {0, 1}
      /\ rx[1].pkt \in RxPackets /\ Empty \in RxPackets
      /\ due' = IF Configures /\ 1 \in rxev THEN [due EXCEPT ![Len(due)] = Empty] ELSE due
  BY DEF Inv, FirmwareTypeOK, ChipTypeOK, RxFifos, RxFifo, RxPackets, Firmware
<1>1. ASSUME UNCHANGED <<received, due>>, 1 \in rxev' <=> 1 \in rxev,
             1 \in rxev => rx'[1].pkt = rx[1].pkt
      PROVE  OutDeliveredOnce'
  BY <1>1 DEF OutDeliveredOnce, InFlight
<1>2. CASE EnterInterrupt \/ ReadMaev \/ RewriteMask \/ TransmitFIFO1 \/ NackEvent
  <2>1. due' = due
    BY <1>0, <1>2
       DEF EnterInterrupt, ReadMaev, RewriteMask, TransmitFIFO1, NackEvent, Configures
  <2> QED
    BY <1>0, <1>1, <1>2, <2>1
       DEF EnterInterrupt, ReadMaev, RewriteMask, TransmitFIFO1, NackEvent, chipVars,
           events, control
<1>3. CASE ReceiveFIFO0Setup
  <2> DEFINE q == rx[0].pkt.req
             r == RxFlush(rx, 0)
  <2>1. 0 \in rxev /\ q = SetConfiguration /\ Configures
    BY <1>3 DEF ReceiveFIFO0Setup, Configures
  <2>2. IsStandard(q, "SET_CONFIGURATION") /\ ~IsGetDescriptor(q)
    BY <2>1, BusAssumption DEF IsStandard, IsGetDescriptor
  <2>3. /\ rxev' = rxev \ {0} /\ isr' = "unmask" /\ received' = received
        /\ rx' = ConfigureRx(r)
    BY <1>3, <2>2 DEF ReceiveFIFO0Setup
  <2>4. OutDeliveredOnce'
    <3>1. CASE 1 \in rxev
      <4>1. rx'[1].pkt = Empty
        BY <1>0, <2>3 DEF ConfigureRx, RxFlush, RxEnable
      <4>2. 1 \in rxev' /\ due' = [due EXCEPT ![Len(due)] = Empty]
        BY <1>0, <2>1, <2>3, <3>1
      <4> QED BY <1>0, <2>3, <3>1, <4>1, <4>2, OtherInFlight
    <3>2. CASE 1 \notin rxev
      BY <1>0, <1>1, <2>3, <3>2
    <3> QED BY <3>1, <3>2
  <2> QED BY <2>3, <2>4
<1>4. CASE ReceiveFIFO0Status
  BY <1>4 DEF ReceiveFIFO0Status
<1>5. CASE ReceiveFIFO1
  <2>1. rxev = {1} /\ rxev' = {} /\ received' = Append(received, rx[1].pkt) /\ due' = due
    BY <1>0, <1>5 DEF ReceiveFIFO1, Configures
  <2>2. OutDeliveredOnce'
    <3>1. received \o <<rx[1].pkt>> = Append(received, rx[1].pkt)
      BY <1>0, Joins
    <3>2. received' \in Seq(RxPackets)
      BY <1>0, <2>1
    <3>3. received' \o <<>> = received'
      BY <3>2
    <3> QED BY <1>0, <2>1, <3>1, <3>3 DEF OutDeliveredOnce, InFlight
  <2>3. isr' = "unmask"
    BY <1>5 DEF ReceiveFIFO1
  <2> QED BY <2>1, <2>2, <2>3
<1>6. CASE TransmitFIFO0 \/ AlternateEvent
  <2>1. /\ UNCHANGED <<rxev, received>> /\ isr' = "unmask" /\ due' = due
    BY <1>0, <1>6 DEF TransmitFIFO0, AlternateEvent, Configures
  <2>2. rx'[0].pkt = rx[0].pkt /\ rx'[1].pkt = rx[1].pkt
    BY <1>0, <1>6
       DEF TransmitFIFO0, TransmitRx, AlternateEvent, Reset, SuspendDetect, ResumeDetect,
           EndOfPacket, RxEnable, RxFifo
  <2> QED BY <1>1, <2>1, <2>2
<1> QED BY <1>2, <1>3, <1>4, <1>5, <1>6 DEF Firmware, Interrupt, Handler

\* Nor do the host and the application.
LEMMA DeliveryHost ==
  ASSUME Inv, Delivery, Next, ~Firmware
  PROVE  Delivery'
<1> USE DEF Delivery
<1>0. /\ rx \in [RxFifos -> RxFifo] /\ 0 \in RxFifos /\ 1 \in RxFifos
      /\ received \in Seq(RxPackets) /\ due \in Seq(RxPackets) /\ rx[1].pkt \in RxPackets
  BY DEF Inv, FirmwareTypeOK, ChipTypeOK, RxFifos, RxFifo, BusTypeOK
<1>1. ASSUME UNCHANGED <<received, due>>, 1 \in rxev' <=> 1 \in rxev,
             1 \in rxev => rx'[1].pkt = rx[1].pkt
      PROVE  OutDeliveredOnce'
  BY <1>1 DEF OutDeliveredOnce, InFlight
<1>3. CASE Configure
  <2>1. /\ rxev' = rxev \cup {0} /\ rx'[1] = rx[1]
        /\ rx'[0].pkt = [kind |-> "setup", req |-> SetConfiguration]
        /\ UNCHANGED <<isr, received, due>>
    BY <1>0, <1>3 DEF Configure, ReceiveSetup, firmwareVars
  <2> QED BY <1>1, <2>1
<1>4. ASSUME NEW d \in Data, BulkOut(d)
      PROVE  Delivery'
  <2> DEFINE p == [kind |-> "out", data |-> d]
  <2>1. /\ rxev' = rxev \cup {1} /\ rx'[1].pkt = p /\ rx'[0] = rx[0]
        /\ UNCHANGED <<isr, received>>
        /\ due' = IF 1 \in rxev THEN [due EXCEPT ![Len(due)] = p] ELSE Append(due, p)
    BY <1>0, <1>4 DEF BulkOut, ReceiveOut, firmwareVars
  <2>2. p \in RxPackets
    BY DEF RxPackets
  <2> HIDE DEF p
  <2>3. OutDeliveredOnce'
    <3>1. CASE 1 \in rxev
      BY <1>0, <2>1, <2>2, <3>1, OtherInFlight
    <3>2. CASE 1 \notin rxev
      <4>1. due = received /\ received \o <<p>> = Append(received, p)
        BY <1>0, <2>2, <3>2, Joins DEF OutDeliveredOnce, InFlight
      <4> QED BY <2>1, <3>2, <4>1 DEF OutDeliveredOnce, InFlight
    <3> QED BY <3>1, <3>2
  <2> QED BY <2>1, <2>3
<1>5. CASE StatusIn \/ BulkIn \/ Suspend \/ Resume \/ BusReset \/ Eop
  <2>1. UNCHANGED <<rxev, rx, isr, received, due>>
    BY <1>5 DEF StatusIn, BulkIn, SendIn, Suspend, Resume, BusReset, Eop, Signal,
                firmwareVars, busVars
  <2> QED BY <1>1, <2>1
<1>6. ASSUME NEW d \in Data, NEW pid \in {0, 1}, AppSend(d, pid)
      PROVE  Delivery'
  <2>1. UNCHANGED <<rxev, rx, isr, received, due>>
    BY <1>6 DEF AppSend, events, busVars
  <2> QED BY <1>1, <2>1
<1> QED BY <1>3, <1>4, <1>5, <1>6 DEF Next

\* Every bulk packet that was acknowledged reaches the registered function once
\* and in order, for any number of packets and configurations and any order of
\* suspends, resumes, resets and interrupts; only a SET_CONFIGURATION handled
\* before the packet costs it, and leaves its call of the function.
THEOREM PacketsDelivered == Spec => []OutDeliveredOnce
<1>1. Inv /\ Delivery /\ [Next]_vars => Delivery'
  <2>1. ASSUME Inv, Delivery, UNCHANGED vars PROVE Delivery'
    BY <2>1 DEF vars, busVars, vars960x, chipVars, firmwareVars, events, Delivery,
                OutDeliveredOnce, InFlight
  <2> QED BY <2>1, DeliveryFirmware, DeliveryHost
<1>2. Delivery => OutDeliveredOnce
  BY DEF Delivery
<1> QED BY <1>1, <1>2, InitInv, NextInv, DeliveryInit, PTL DEF Spec

-----------------------------------------------------------------------------
(* Suspend and resume *)

\* The four states of a node whose suspends have never been cut short by a reset:
\* awake; the bus is silent and the node has still to see it; asleep; the bus is
\* back and the node has still to see it.  SD3 can be seen in the first two.
Awake ==
  bus = "active" /\ nfs = "OPR" /\ "SD3" \in altmsk /\ altev \cap {"SD3", "RESUME"} = {}

FallingAsleep ==
  /\ bus = "suspended" /\ nfs = "OPR" /\ "SD3" \in altmsk
  /\ "SD3" \in altev /\ altev \cap {"RESET", "RESUME"} = {}

Asleep == bus = "suspended" /\ nfs = "SUS" /\ altev \cap {"RESET", "SD3", "RESUME"} = {}

WakingUp ==
  /\ bus = "active" /\ nfs = "SUS" /\ "RESUME" \in altmsk
  /\ "RESUME" \in altev /\ altev \cap {"RESET", "SD3"} = {}

SuspendInv ==
  /\ "RESET" \in altmsk
  /\ ~cutshort => Awake \/ FallingAsleep \/ Asleep \/ WakingUp

\* What the alternate handler makes of each of them.
LEMMA SuspendHandled ==
  ASSUME Inv, SuspendInv, AlternateEvent, bus' = bus, cutshort' = cutshort
  PROVE  SuspendInv'
<1>1. altev' = {} /\ "RESET" \in altmsk'
  BY DEF AlternateEvent, Reset, SuspendDetect, ResumeDetect, EndOfPacket, SuspendInv
<1>2. CASE Awake
  <2>1. Awake'
    BY <1>1, <1>2 DEF AlternateEvent, Reset, SuspendDetect, ResumeDetect, EndOfPacket, Awake
  <2> QED BY <1>1, <2>1 DEF SuspendInv
<1>3. CASE FallingAsleep
  <2>1. Asleep'
    BY <1>1, <1>3
       DEF AlternateEvent, Reset, SuspendDetect, ResumeDetect, EndOfPacket, FallingAsleep, Asleep
  <2> QED BY <1>1, <2>1 DEF SuspendInv
<1>4. CASE Asleep
  <2>1. Asleep'
    BY <1>1, <1>4 DEF AlternateEvent, Reset, SuspendDetect, ResumeDetect, EndOfPacket, Asleep
  <2> QED BY <1>1, <2>1 DEF SuspendInv
<1>5. CASE WakingUp
  <2>1. Awake'
    BY <1>1, <1>5
       DEF AlternateEvent, Reset, SuspendDetect, ResumeDetect, EndOfPacket, WakingUp, Awake
  <2> QED BY <1>1, <2>1 DEF SuspendInv
<1>6. CASE cutshort
  BY <1>1, <1>6 DEF SuspendInv
<1> QED BY <1>2, <1>3, <1>4, <1>5, <1>6 DEF SuspendInv

\* What the host makes of them, on a node that has handled all there was.
LEMMA SuspendSignalled ==
  ASSUME Inv, SuspendInv, Suspend \/ Resume \/ BusReset
  PROVE  SuspendInv'
<1>1. /\ altev \cap altmsk = {} /\ UNCHANGED <<altmsk, nfs>>
      /\ WakeEnabled /\ "RESET" \in altmsk
  BY DEF Suspend, Resume, BusReset, Quiet, Pending, AltPending, Signal, control, Inv, SuspendInv
<1>2. ~cutshort => Awake \/ Asleep
  BY <1>1 DEF SuspendInv, FallingAsleep, WakingUp
<1>3. CASE Suspend
  <2>1. bus = "active" /\ bus' = "suspended" /\ altev' = altev \cup {"SD3"} /\ cutshort' = cutshort
    BY <1>3 DEF Suspend, Signal
  <2>2. Awake => FallingAsleep'
    BY <1>1, <2>1 DEF Awake, FallingAsleep
  <2>3. ~Asleep
    BY <2>1 DEF Asleep
  <2> QED BY <1>1, <1>2, <2>1, <2>2, <2>3 DEF SuspendInv
<1>4. CASE Resume
  <2>1. /\ bus = "suspended" /\ bus' = "active" /\ altev' = altev \cup {"RESUME"}
        /\ cutshort' = cutshort
    BY <1>4 DEF Resume, Signal
  <2>2. Asleep => WakingUp'
    BY <1>1, <2>1 DEF Asleep, WakingUp, WakeEnabled
  <2>3. ~Awake
    BY <2>1 DEF Awake
  <2> QED BY <1>1, <1>2, <2>1, <2>2, <2>3 DEF SuspendInv
<1>5. CASE BusReset
  <2>1. /\ bus' = "active" /\ altev' = altev \cup {"RESET"}
        /\ ~cutshort' => ~cutshort /\ bus # "suspended"
    BY <1>5 DEF BusReset, Signal
  <2>2. Awake => Awake'
    BY <1>1, <2>1 DEF Awake
  <2>3. Asleep => bus = "suspended"
    BY DEF Asleep
  <2> QED BY <1>1, <1>2, <2>1, <2>2, <2>3 DEF SuspendInv
<1> QED BY <1>3, <1>4, <1>5

\* Every other step leaves them alone; an end of packet only adds EOP.
LEMMA SuspendStep == Inv /\ SuspendInv /\ [Next]_vars => SuspendInv'
<1> SUFFICES ASSUME Inv, SuspendInv, [Next]_vars PROVE SuspendInv'
  OBVIOUS
<1>1. ASSUME UNCHANGED <<bus, nfs, altmsk>>, altev' = altev \/ altev' = altev \cup {"EOP"},
             cutshort' = cutshort
      PROVE  SuspendInv'
  <2>1. (Awake => Awake') /\ (FallingAsleep => FallingAsleep')
    BY <1>1 DEF Awake, FallingAsleep
  <2>2. (Asleep => Asleep') /\ (WakingUp => WakingUp')
    BY <1>1 DEF Asleep, WakingUp
  <2> QED BY <1>1, <2>1, <2>2 DEF SuspendInv
<1>2. CASE Firmware /\ AlternateEvent
  BY <1>2, SuspendHandled DEF Firmware, busVars
<1>3. CASE Firmware /\ ~AlternateEvent
  <2>1. UNCHANGED <<bus, cutshort>>
    BY <1>3 DEF Firmware, busVars
  <2>2. CASE \/ EnterInterrupt \/ ReadMaev \/ RewriteMask \/ ReceiveFIFO0Status
             \/ ReceiveFIFO1 \/ TransmitFIFO0 \/ TransmitFIFO1 \/ NackEvent
    BY <1>1, <2>1, <2>2
       DEF EnterInterrupt, ReadMaev, RewriteMask, ReceiveFIFO0Status, ReceiveFIFO1,
           TransmitFIFO0, TransmitFIFO1, NackEvent, chipVars, events, control
  <2>3. CASE ReceiveFIFO0Setup
    BY <1>1, <2>1, <2>3 DEF ReceiveFIFO0Setup
  <2> QED BY <1>3, <2>2, <2>3 DEF Firmware, Interrupt, Handler
<1>4. CASE Suspend \/ Resume \/ BusReset
  BY <1>4, SuspendSignalled
<1>5. CASE Configure \/ StatusIn \/ BulkIn
  BY <1>1, <1>5 DEF Configure, StatusIn, BulkIn, ReceiveSetup, SendIn, busVars, control
<1>6. ASSUME NEW d \in Data, BulkOut(d) \/ \E pid \in {0, 1} : AppSend(d, pid)
      PROVE  SuspendInv'
  BY <1>1, <1>6 DEF BulkOut, ReceiveOut, AppSend, busVars, events, control
<1>7. CASE Eop
  BY <1>1, <1>7 DEF Eop, Signal, busVars, control
<1>8. CASE UNCHANGED vars
  BY <1>1, <1>8 DEF vars, busVars, vars960x, chipVars, events, control
<1> QED BY <1>2, <1>3, <1>4, <1>5, <1>6, <1>7, <1>8 DEF Next

\* A node that has handled all its events is asleep exactly when the bus is
\* suspended, for any number of suspends, resumes and resets of an active bus.
THEOREM SuspendsWithBus == Spec => []SuspendAgrees
<1>1. Init => SuspendInv
  BY DEF Init, Init960x, SuspendInv, Awake
<1>2. SuspendInv => SuspendAgrees
  BY DEF SuspendInv, SuspendAgrees, Awake, FallingAsleep, Asleep, WakingUp,
         Quiet, Pending, AltPending
<1> QED BY <1>1, <1>2, InitInv, NextInv, SuspendStep, PTL DEF Spec
=============================================================================
