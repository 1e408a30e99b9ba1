------------------------------ MODULE UsbnTiny ------------------------------
(***************************************************************************)
(* The tiny stack (firmware/usbn960xtiny), a second version of the event   *)
(* handlers for devices whose descriptors are constant, and the host of    *)
(* UsbControl against either stack.  What the two share is Usbn960x; here  *)
(* is what differs: strings and some standard requests are gone, standard  *)
(* requests that are not for the device go to a function of the            *)
(* application (hidkeyboard/main.c), and a bus reset is read and ignored.  *)
(* The branches of FIFO 1 are left out; EOP, masked here, does not occur.  *)
(***************************************************************************)
EXTENDS UsbControl

CONSTANTS Asked  \* the requests hosts send to a device, tiny or not

VARIABLES
  tiny,      \* the stack of the device
  wasReset   \* history: has the host reset the bus?

tinyVars == <<vars, tiny, wasReset>>

TinyCodes == {"GET_DESCRIPTOR", "SET_ADDRESS", "SET_CONFIGURATION", "SET_INTERFACE"}

\* Standard requests go by their recipient: those for the device are decoded, all
\* others, be they for an interface or an endpoint, go to USBNInterfaceRequests.
ForInterface(q) == q.type = "standard" /\ q.recipient # "device"
ForDevice(q, c) == IsStandard(q, c) /\ q.recipient = "device"

\* The one the application's function answers: the report descriptor it is.
IsReport(q) == ForInterface(q) /\ q.code = "GET_DESCRIPTOR"

TinyUnsupported(q) ==
  \/ q.type = "reserved"
  \/ q.type = "standard" /\ q.recipient = "device" /\ q.code \notin TinyCodes

\* The hosts' requests: bmRequestType and wLength are those of USB 1.1 chapter 9,
\* the data packets of a descriptor hold the 8 bytes of bMaxPacketSize0 (the first
\* request, for 64 bytes, is made before the host knows), and the descriptors exist:
\* of a tiny device those of the device, and the report descriptor of an interface.
ASSUME AskedAssumption ==
  /\ Asked \in [BOOLEAN -> SUBSET Requests]
  /\ {"DEVICE", "REPORT"} \subseteq Descriptors /\ DescLen["DEVICE"] >= 8
  /\ \A t \in BOOLEAN : \A q \in Asked[t] :
       /\ q.code = "SET_ADDRESS" => q.type = "standard" /\ q.zero
       /\ IsGetDescriptor(q) =>
            /\ ~q.zero /\ q.len > 0
            /\ q.val \in Descriptors
            /\ t => q.val \in IF ForInterface(q) THEN {"REPORT"} ELSE {"DEVICE", "CONFIGURATION"}
            /\ q.mps = 64 => q.val = "DEVICE" /\ q.len = 64

\* The requests that end in _USBNTransmit, and EP0tx when it is called: the
\* application fills it for a descriptor and leaves it alone otherwise.
Sends(q) == ForInterface(q) \/ IsGetDescriptor(q)

Loaded(q) ==
  IF ForInterface(q)
  THEN IF IsReport(q)
       THEN [buf |-> "REPORT", idx |-> 0, size |-> DescLen["REPORT"], pid |-> 1]
       ELSE ep0tx
  ELSE IF q.val \in {"DEVICE", "CONFIGURATION"}
       THEN GetDescriptor(q) ELSE [ep0tx EXCEPT !.idx = 0, !.pid = 1]

\* With nothing left to send, a packet without data goes out.
TinyTransmitTx(e, t) ==
  IF e.size > 0 /\ e.idx = e.size THEN TxSend(t, 0, e.pid) ELSE TransmitTx(e, t)

TinyAnswerTx(q, t) ==
  CASE Sends(q) -> TinyTransmitTx(Loaded(q), t)
    [] ForDevice(q, "SET_CONFIGURATION") -> TxSend(ConfigureTx(t), 0, 1)
    [] ForDevice(q, "SET_INTERFACE") -> TxSend(t, 0, 1)
    [] q.type \in {"class", "vendor"} -> TxSend(t, 0, 1)
    [] OTHER -> t

TinyStall(q) == TinyUnsupported(q)

TinyReceiveFIFO0Setup ==
  /\ isr = "rx" /\ 0 \in rxev /\ rx[0].pkt.kind = "setup"
  /\ LET q == rx[0].pkt.req
         r == RxFlush(rx, 0)
     IN /\ tx' = StatusTx(q, TinyAnswerTx(q, TxFlush(tx, 0)))
        /\ rx' = IF Sends(q) THEN TransmitRx(Loaded(q), r)
                 ELSE IF ForDevice(q, "SET_CONFIGURATION") THEN ConfigureRx(r) ELSE r
        /\ ep0tx' = IF Sends(q) THEN TransmitEp(Loaded(q)) ELSE ep0tx
        /\ stall' = TinyStall(q)
        /\ IF ForDevice(q, "SET_ADDRESS")
           THEN def' = TRUE /\ far' = q.val
           ELSE UNCHANGED <<def, far>>
        /\ configured' = (configured \/ ForDevice(q, "SET_CONFIGURATION"))
  /\ rxev' = rxev \ {0}
  /\ isr' = "unmask"
  /\ UNCHANGED <<txev, altev, nakev, altmsk, txack, nfs, received, apptx>>
  /\ LatchEdge

\* The register is read and nothing done (#if 0).
TinyAlternateEvent ==
  /\ isr = "alt"
  /\ altev' = {}
  /\ isr' = "unmask"
  /\ UNCHANGED <<rxev, txev, nakev, altmsk, rx, tx, txack, control, ep0tx,
                 received, apptx>>
  /\ LatchEdge

TinyInterrupt ==
  \/ EnterInterrupt \/ ReadMaev \/ RewriteMask
  \/ TinyReceiveFIFO0Setup \/ ReceiveFIFO0Status
  \/ TransmitFIFO0 \/ TinyAlternateEvent \/ NackEvent

StackInit == tiny \in BOOLEAN /\ wasReset = FALSE /\ Init

StackFirmware ==
  /\ IF tiny THEN TinyInterrupt ELSE Interrupt
  /\ UNCHANGED <<hostVars, tiny, wasReset>>

Host ==
  /\ \/ \E q \in Asked[tiny] : SendSetup(q)
     \/ Tokens \/ GiveUp \/ BusReset
  /\ wasReset' = (wasReset \/ result' = "reset")
  /\ UNCHANGED tiny

StackNext == StackFirmware \/ Host

\* Fairness as in UsbControl!FairSpec.
StackSpec ==
  /\ StackInit /\ [][StackNext]_tinyVars
  /\ WF_tinyVars(StackFirmware)
  /\ WF_tinyVars(DataIn(TRUE) /\ UNCHANGED <<tiny, wasReset>>)
  /\ WF_tinyVars(StatusIn(TRUE) /\ UNCHANGED <<tiny, wasReset>>)
  /\ WF_tinyVars(StatusOut /\ UNCHANGED <<tiny, wasReset>>)
  /\ WF_tinyVars(Stalled /\ UNCHANGED <<tiny, wasReset>>)

-----------------------------------------------------------------------------
(* Properties of both stacks *)

Refuses(q) == IF tiny THEN TinyUnsupported(q) ELSE Unsupported(q)

\* What the tiny stack answers with whatever EP0tx was left at.
LeftToChance(q) == tiny /\ ForInterface(q) /\ ~IsReport(q)

\* What the full stack decodes and drops: for a recipient other than the device, or
\* with data to return, no code arms the transmitter.
Dropped(q) ==
  /\ ~tiny /\ q.type = "standard" /\ ~q.zero
  /\ q.code \in StandardCodes \ {"GET_DESCRIPTOR", "SET_CONFIGURATION", "SET_INTERFACE"}

\* The comment in _USBNReceiveFIFO0 promises that all SETUP packets are answered,
\* with a zero-length packet if with nothing else.  What the code does is this: once
\* a SETUP packet has been handled, the host's first IN gets a packet or a STALL
\* if and only if the request is not one of those Dropped; to a request left to
\* chance the tiny stack has an answer only if EP0tx holds a descriptor.
RequestAnswered ==
  Quiet /\ stage \in {"in", "statin"} /\ got = <<>> =>
    IF LeftToChance(req) THEN tx[0].en => ep0tx.size > 0
    ELSE (tx[0].en \/ stall) <=> ~Dropped(req)

\* After any mix of SET_ADDRESS, lost handshakes, abandoned transfers and bus
\* resets, a quiet device listens to the address the host uses.  The tiny stack
\* is lost with the first bus reset.
AddressAgreed == Quiet /\ ~(tiny /\ wasReset) => Reachable

\* The control endpoint is stalled for the request that was refused only: a
\* STALL never hits the transfer after it.
StallIsForThisRequest ==
  Quiet /\ stage # "idle" => (stall <=> Refuses(req))

\* Two kinds of reads the firmware leaves without an end.  The host stops before
\* the descriptor does: the receiver is armed with the last packet only, and the
\* status stage gets NAK.  Or it asks for more than there is, and a descriptor of
\* whole packets is not followed by the short one that would tell it so.
LeftWaiting(q) ==
  LET size == DescriptorSize(q) IN
  /\ IsGetDescriptor(q)
  /\ q.len < size \/ (q.len > size /\ size % q.mps = 0)

\* A transfer of an undisturbed host comes to the end its request calls for:
\* firmware and host never wait for each other, but in the reads LeftWaiting, in the
\* requests Dropped and perhaps in those left to chance.  Where the request before
\* was refused it counts from the moment the firmware has taken the STALL back.
Answerable(q) == ~LeftWaiting(q) /\ ~Dropped(q) /\ ~LeftToChance(q)

TransferSucceeds ==
  faults = {} /\ stage # "idle" /\ ~stall /\ Answerable(req)
    ~> result = IF Refuses(req) THEN "stall" ELSE "ok"
=============================================================================
