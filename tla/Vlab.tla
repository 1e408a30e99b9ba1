--------------------------------- MODULE Vlab ---------------------------------
(***************************************************************************)
(* The virtual lab (applications/vlab): clients that run one after another *)
(* (client/vlabc.c) set a pin or ask for a port; the firmware (vlab.c)     *)
(* does so in the USB interrupt and puts the port into FIFO 1.  Each       *)
(* client configures the device anew, which flushes FIFO 1 and starts the  *)
(* PIDs at DATA0; write and read time out, and their results are not       *)
(* looked at.  The interrupt may come late: the serial debug terminal,     *)
(* itself an interrupt, takes longer than the 1 ms of a timeout.  Port 1   *)
(* is input pins, port 2 is output.                                        *)
(***************************************************************************)
EXTENDS Integers

CONSTANTS
  Pins,        \* pins of a port
  MaxClients   \* bound

ASSUME VlabAssumption == MaxClients \in Nat

VARIABLES
  client,    \* where the client is
  command,   \* its command
  outFifo,   \* receive FIFO 1: a command, Empty, or Flushed under its event
  inFifo,    \* transmit FIFO 1: <<>>, or the port it answers with
  portB,     \* pins of port 2 that are set
  printed,   \* <<>>, or the port the client printed
  own,       \* history: port 2 when the client's command had been handled, or <<>>
  chance,    \* history: was a flushed command handled since the client has opened
             \* the device?
  clients    \* bound

vlabVars == <<client, command, outFifo, inFifo, portB, printed, own, chance, clients>>

\* The four bytes are a command, a port, a pin and its value.
Commands ==
  [kind : {"get"}, port : {1, 2}, pin : {0}, value : {FALSE}]
    \cup [kind : {"set"}, port : {1, 2}, pin : Pins, value : BOOLEAN]

Empty   == [kind |-> "empty"]
Flushed == [kind |-> "flushed"]
PinsA   == Pins

VlabInit ==
  /\ client = "done" /\ command = Empty
  /\ outFifo = Empty /\ inFifo = <<>>
  /\ portB = {} /\ printed = <<>> /\ own = <<>>
  /\ chance = FALSE /\ clients = 0

\* SETPORT.  The write of port 1 is commented out.
SetPort(c) ==
  IF c.kind = "set" /\ c.port = 2
  THEN IF c.value THEN portB \cup {c.pin} ELSE portB \ {c.pin} ELSE portB

\* The handler: the command, then the port it names into the FIFO, always as
\* DATA0.  A command flushed under its event is whatever was in memory.
SetGetPort ==
  /\ outFifo # Empty
  /\ \E c \in IF outFifo = Flushed THEN Commands ELSE {outFifo} :
       /\ portB' = SetPort(c)
       /\ inFifo' = <<IF c.port = 1 THEN PinsA ELSE portB'>>
       /\ own' = IF outFifo = Flushed THEN own ELSE <<portB'>>
  /\ chance' = (chance \/ outFifo = Flushed)
  /\ outFifo' = Empty
  /\ UNCHANGED <<client, command, printed, clients>>

-----------------------------------------------------------------------------
(* The client                                                               *)

\* vlab_open: SET_CONFIGURATION goes before a packet in FIFO 1 and flushes both
\* FIFOs, not the event.
\* Mutant: what is in the transmit FIFO stays.
VlabOpenUnflushed(c) ==
  /\ client = "done" /\ clients < MaxClients
  /\ client' = "open" /\ clients' = clients + 1
  /\ command' = c /\ own' = <<>> /\ printed' = <<>>
  /\ outFifo' = IF outFifo = Empty THEN Empty ELSE Flushed
  /\ chance' = FALSE
  /\ UNCHANGED <<inFifo, portB>>

VlabOpen(c) ==
  /\ client = "done" /\ clients < MaxClients
  /\ client' = "open" /\ clients' = clients + 1
  /\ command' = c /\ own' = <<>> /\ printed' = <<>>
  /\ inFifo' = <<>>
  /\ outFifo' = IF outFifo = Empty THEN Empty ELSE Flushed
  /\ chance' = FALSE
  /\ UNCHANGED portB

\* usb_bulk_write, taken or timed out.
BulkWrite(taken) ==
  /\ client = "open" /\ client' = "asked"
  /\ taken => outFifo \in {Empty, Flushed}
  /\ outFifo' = IF taken THEN command ELSE outFifo
  /\ UNCHANGED <<command, inFifo, portB, printed, own, chance, clients>>

\* usb_bulk_read; after a timeout receive_data is still 0.
BulkRead ==
  /\ client = "asked" /\ client' = "done"
  /\ printed' = IF inFifo = <<>> THEN <<{}>> ELSE inFifo
  /\ inFifo' = <<>>
  /\ UNCHANGED <<command, outFifo, portB, own, chance, clients>>

VlabNext ==
  \/ SetGetPort
  \/ \E c \in Commands : VlabOpen(c)
  \/ \E taken \in BOOLEAN : BulkWrite(taken)
  \/ BulkRead

VlabSpec == VlabInit /\ [][VlabNext]_vlabVars

-----------------------------------------------------------------------------
(* Properties                                                               *)

\* A port that is not 0 is the answer to the client's own command, given when it
\* had been obeyed, and never one that a client before it left in the FIFO; unless
\* a command that was flushed under its event was handled since the client began.
AnswerIsOwn ==
  client = "done" /\ printed \notin {<<>>, <<{}>>} /\ ~chance =>
    printed = IF command.port = 1 THEN <<PinsA>> ELSE own
=============================================================================
