-------------------------------- MODULE VPort --------------------------------
(***************************************************************************)
(* The virtual serial port (applications/vport): the Linux driver          *)
(* (drivers/linux2.6/vport.c) packs what is written to the tty into a      *)
(* message, which the firmware (firmware/main.c, vport-uart.c) unpacks for *)
(* its UART; a character from the UART goes to the host in a packet of its *)
(* own, which the driver's read URB puts into the tty.  Characters are     *)
(* numbered in the order they come; none of them reads as a message.       *)
(***************************************************************************)
EXTENDS Integers, Sequences, FiniteSets, SequencesExt

CONSTANTS
  FifoSize,  \* bytes of a packet (64)
  LenValues, \* values of the length byte (256)
  Counts,    \* how many characters are written at once
  MaxChars,  \* bound on the characters written
  MaxArrived \* bound on the characters the UART gets

ASSUME PortAssumption ==
  /\ FifoSize \in Nat /\ FifoSize > 4 /\ LenValues \in Nat /\ LenValues > FifoSize
  /\ Counts \subseteq Nat \ {0} /\ MaxChars \in Nat /\ MaxArrived \in Nat

VARIABLES
  message,           \* what of vport_serial_write is not sent yet
  written, line,     \* history: characters written, and sent by the UART
  failed, overlong,  \* history: characters that timed out; characters of writes
                     \* longer than a packet has room for
  urb,               \* is the read URB of the tty submitted?
  portTogl, portTx,  \* togl; TX FIFO 1, a sequence of at most one packet
  expectedPid,       \* the PID the host expects
  arrived, tty,      \* characters the UART got; history: what the tty got
  flushed, dropped   \* history: packets flushed unsent, PID changes lost; packets
                     \* the host took for duplicates

portVars == <<message, written, line, failed, overlong, urb, portTogl, portTx,
              expectedPid, arrived, tty, flushed, dropped>>

Header == 4
Junk   == 0

PortInit ==
  /\ message = <<>> /\ written = 0 /\ line = <<>> /\ failed = {} /\ overlong = {}
  /\ urb = FALSE
  /\ portTogl = 0 /\ portTx = <<>> /\ expectedPid = 0
  /\ arrived = 0 /\ tty = <<>> /\ flushed = 0 /\ dropped = 0

readVars  == <<urb, portTogl, portTx, expectedPid, arrived, tty, flushed, dropped>>
writeVars == <<message, written, line, failed, overlong>>

-----------------------------------------------------------------------------
(* From the tty to the UART                                                 *)

\* The length of a message of n characters, msg[1], is an unsigned char.
\* Mutant: the header is not counted.
BareLengthByte(n) == n % LenValues
LengthByte(n)     == (n + Header) % LenValues

\* The characters vport_uart_write is told to send: none if the length wrapped to
\* less than a header.
Announced(packet) == IF packet.len > Header THEN packet.len - Header ELSE 0

\* vport_serial_write: header and characters in one bulk message, which the bus
\* carries in a first packet (head) and the rest; the caller is told that all are
\* written.
WriteTty(n) ==
  /\ message = <<>> /\ written + n <= MaxChars
  /\ LET chars == [i \in 1..n |-> written + i]
         first == IF n > FifoSize - Header THEN FifoSize - Header ELSE n
     IN message' = <<[head |-> TRUE, len |-> LengthByte(n),
                      chars |-> SubSeq(chars, 1, first)]>> \o
                   (IF first < n THEN <<[head |-> FALSE, len |-> 0,
                                         chars |-> SubSeq(chars, first + 1, n)]>>
                    ELSE <<>>)
  /\ written' = written + n
  /\ overlong' = IF n > FifoSize - Header
                 THEN overlong \cup (written + 1)..(written + n) ELSE overlong
  /\ UNCHANGED <<line, failed, readVars>>

\* ParseCommand and vport_uart_command: as many characters as the length says,
\* whatever is in the buffer behind the packet.  What goes on with a message is no
\* command.
ParseCommand ==
  /\ message # <<>>
  /\ LET packet == Head(message)
     IN line' = IF packet.head
                THEN line \o [i \in 1..Announced(packet) |->
                                IF i \in DOMAIN packet.chars THEN packet.chars[i] ELSE Junk]
                ELSE line
  /\ message' = Tail(message)
  /\ UNCHANGED <<written, failed, overlong, readVars>>

\* usb_bulk_msg gives up after 100 ms; its result is not looked at.
WriteTimeout ==
  /\ message # <<>>
  /\ failed' = failed \cup UNION {ToSet(message[k].chars) : k \in DOMAIN message}
  /\ message' = <<>>
  /\ UNCHANGED <<written, line, overlong, readVars>>

-----------------------------------------------------------------------------
(* From the UART to the tty                                                 *)

\* SIG_UART_RECV: a character the host has not fetched yet is flushed.
UartReceive ==
  /\ arrived < MaxArrived /\ arrived' = arrived + 1
  /\ portTx' = <<[char |-> arrived + 1, pid |-> portTogl]>>
  /\ portTogl' = 1 - portTogl
  /\ flushed' = flushed + Len(portTx)
  /\ UNCHANGED <<writeVars, urb, expectedPid, tty, dropped>>

\* The URB is submitted while the tty is open: vport_serial_open, and again in
\* vport_serial_read_bulk_callback.  A packet with the wrong PID ends in the
\* host controller.
OpenTty  == ~urb /\ urb' = TRUE
CloseTty == urb /\ urb' = FALSE

OpenOrClose ==
  /\ OpenTty \/ CloseTty
  /\ UNCHANGED <<writeVars, portTogl, portTx, expectedPid, arrived, tty, flushed, dropped>>

ReadCallback ==
  /\ urb /\ portTx # <<>>
  /\ portTx' = <<>>
  /\ IF portTx[1].pid = expectedPid
     THEN /\ tty' = Append(tty, portTx[1].char) /\ expectedPid' = 1 - expectedPid
          /\ UNCHANGED dropped
     ELSE dropped' = dropped + 1 /\ UNCHANGED <<tty, expectedPid>>
  /\ UNCHANGED <<writeVars, urb, portTogl, arrived, flushed>>

\* The driver is bound anew: SET_CONFIGURATION flushes the FIFO and starts the
\* host with DATA0, and nothing resets togl.
Rebind ==
  /\ ~urb /\ expectedPid' = 0 /\ portTx' = <<>>
  /\ flushed' = flushed + (IF expectedPid = 0 THEN 0 ELSE 1) + Len(portTx)
  /\ UNCHANGED <<writeVars, urb, portTogl, arrived, tty, dropped>>

PortNext ==
  \/ \E n \in Counts : WriteTty(n)
  \/ ParseCommand \/ WriteTimeout
  \/ UartReceive \/ OpenOrClose \/ ReadCallback \/ Rebind

PortSpec == PortInit /\ [][PortNext]_portVars

-----------------------------------------------------------------------------
(* Properties                                                               *)

\* The i-th of the line is sent in the place of character c.
InPlaceOf(i, c) ==
  \A j \in DOMAIN line : /\ j < i => line[j] < c
                         /\ j > i => line[j] = Junk \/ line[j] > c

LineIsWritten ==
  /\ \A i, j \in DOMAIN line :
       i < j /\ Junk \notin {line[i], line[j]} => line[i] < line[j]
  /\ message = <<>> =>
       \A c \in 1..written : c \in failed \cup overlong \/ \E i \in DOMAIN line : line[i] = c
  /\ \A i \in DOMAIN line : line[i] = Junk => \E c \in overlong : InPlaceOf(i, c)
  /\ Len(line) <= written

LossesBounded ==
  /\ dropped <= flushed
  /\ \A i, j \in DOMAIN tty : i < j => tty[i] < tty[j]

\* Both directions of the port.  The UART sends what was written, in order and each
\* character once.  What is missing belongs to a write that timed out, or to one
\* longer than a packet has room for; the caller learns of neither.  A character
\* that was not written is sent only in the place of one of such a longer write (its
\* length, modulo a byte, announces more than the packet has), so that never more is
\* sent than was written.  What the tty gets is in order, and a character the host
\* did not fetch in time, or a driver bound anew, costs at most one more: the PIDs
\* are in step again after it.
PortCarries == LineIsWritten /\ LossesBounded
=============================================================================
