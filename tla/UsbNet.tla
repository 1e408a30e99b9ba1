------------------------------- MODULE UsbNet -------------------------------
(***************************************************************************)
(* The USB to Ethernet bridge (applications/usbn2net/cdc_subset/demo.c):   *)
(* frames come from the host in packets of 64 bytes, are put together in   *)
(* uip_buf and handed to uIP, which builds its reply in the same buffer;   *)
(* the reply goes out one packet by usbn2net_send and the rest by the      *)
(* transmit callback.  What uIP answers is a choice here (see Uip).        *)
(* Frames and replies fit in uip_buf, which no code here checks; they are  *)
(* shorter than 256 bytes, so that the high byte of their length, which    *)
(* demo.c multiplies by 255, is 0.                                         *)
(***************************************************************************)
EXTENDS Integers, Sequences

CONSTANTS
  Frames,    \* what the host sends: type "ip", "arp" or "other", and size
  Replies,   \* what uIP answers: type and size
  MaxFrames  \* bound

ASSUME NetAssumption ==
  /\ Frames \subseteq [type : {"ip", "arp", "other"}, size : 42..192]
  /\ \A f \in Frames : f.type # "ip" => f.size <= 64
  /\ \A f \in Frames : f.type = "arp" => f.size = 42  \* 14 of Ethernet, 28 of ARP
  /\ Replies \subseteq [type : {"ip", "arp"}, size : 1..192]
  /\ MaxFrames \in Nat

VARIABLES
  polite,                \* does the host wait for a reply before the next frame?
  frame, part, number,   \* host: the frame it sends, packets of it sent, its number
  uipBuf, uipLen, fillindex, sendBlocks, togl,
  armed, txDone,         \* TX FIFO 1: the packet in it; is a transmit event pending?
  hostPid,               \* the PID the host expects
  handed,                \* history: what uIP was called with
  reply, inStep, taken   \* history: the last reply, did it start with the PID the
                         \* host expects, and what the host took of it

netVars == <<polite, frame, part, number, uipBuf, uipLen, fillindex, sendBlocks, togl,
             armed, txDone, hostPid, handed, reply, inStep, taken>>

NoPacket == [from |-> "none", of |-> 0, part |-> 0, type |-> "other", size |-> 0]
Packets(size) == (size + 63) \div 64

\* Packet k of the host's frame n, or of the reply to it.
Packet(from, n, f, k) ==
  [from |-> from, of |-> n, part |-> k, type |-> f.type, size |-> f.size]

NetInit ==
  /\ polite \in BOOLEAN
  /\ frame \in Frames /\ part = 0 /\ number = 0
  /\ uipBuf = [b \in 0..3 |-> NoPacket] /\ uipLen = 0
  /\ fillindex = 0 /\ sendBlocks = 0 /\ togl = 0
  /\ armed = <<>> /\ txDone = FALSE /\ hostPid = 0
  /\ handed = <<>> /\ reply = [type |-> "other", size |-> 0] /\ inStep = TRUE /\ taken = <<>>

Answered == armed = <<>> /\ ~txDone /\ uipLen = 0

-----------------------------------------------------------------------------

\* usbn2net_toggle
Send(packet, pid) ==
  /\ armed' = <<[packet |-> packet, pid |-> pid]>>
  /\ togl' = 1 - pid

\* usbn2net_send: a long message starts with DATA1 whatever togl is.
UsbnSend(buf, len) ==
  IF len > 64
  THEN /\ Send(buf[sendBlocks], 1)
       /\ sendBlocks' = sendBlocks + 1
       /\ uipLen' = len - 64
  ELSE /\ Send(buf[0], togl)
       /\ uipLen' = 0
       /\ UNCHANGED sendBlocks

\* usbn2net_event with a frame: an ARP request that uIP puts in the place of its
\* answer is looked at once more, as if it had come in, and nothing is done.
Event(buf, len) ==
  /\ handed' = Append(handed, [buf |-> buf, len |-> len])
  /\ \/ /\ uipBuf' = buf /\ uipLen' = 0
        /\ UNCHANGED <<sendBlocks, togl, armed, reply, inStep, taken>>
     \/ \E r \in Replies :
          /\ buf[0].type = "arp" => r.type = "arp"
          /\ uipBuf' = [b \in 0..3 |-> IF b < Packets(r.size) THEN Packet("uIP", number, r, b) ELSE buf[b]]
          /\ UsbnSend(uipBuf', r.size)
          /\ reply' = r /\ taken' = <<>>
          /\ inStep' = (r.size <= 64 \/ hostPid = 1)

\* usbn2net_reveive: the length field counts the header of IP in, that of
\* Ethernet (14 bytes) not.
\* Mutant: a frame is complete when another packet would not fit in.
CompleteEarly(fill, ipLength) == fill + 64 > ipLength + 14
Complete(fill, ipLength)      == fill >= ipLength + 14

UsbnReceive(packet) ==
  LET buf      == [uipBuf EXCEPT ![fillindex \div 64] = packet]
      ipLength == buf[0].size - 14
      NoEvent  == /\ uipBuf' = buf
                  /\ UNCHANGED <<uipLen, sendBlocks, togl, armed, handed, reply, inStep, taken>>
  IN \/ /\ buf[0].type = "ip" /\ ipLength <= 50
        /\ Event(buf, ipLength + 14) /\ UNCHANGED fillindex
     \/ /\ buf[0].type = "ip" /\ ipLength > 50
        /\ \/ /\ Complete(fillindex + 64, ipLength)
              /\ fillindex' = 0 /\ Event(buf, ipLength + 14)
           \/ /\ ~Complete(fillindex + 64, ipLength)
              /\ fillindex' = fillindex + 64 /\ NoEvent
     \/ buf[0].type = "arp" /\ Event(buf, 42) /\ UNCHANGED fillindex
     \/ buf[0].type = "other" /\ NoEvent /\ UNCHANGED fillindex

FramePacket ==
  /\ number < MaxFrames
  /\ polite /\ part = 0 => Answered
  /\ UsbnReceive(Packet("host", number, frame, part))
  /\ IF part + 1 < Packets(frame.size)
     THEN part' = part + 1 /\ UNCHANGED <<frame, number>>
     ELSE part' = 0 /\ number' = number + 1 /\ frame' \in Frames
  /\ UNCHANGED <<polite, txDone, hostPid>>

\* The host fetches a packet; one with the wrong PID it drops as a duplicate.
HostIn ==
  /\ armed # <<>>
  /\ armed' = <<>> /\ txDone' = TRUE
  /\ IF armed[1].pid = hostPid
     THEN hostPid' = 1 - hostPid /\ taken' = Append(taken, armed[1].packet)
     ELSE UNCHANGED <<hostPid, taken>>
  /\ UNCHANGED <<polite, frame, part, number, uipBuf, uipLen, fillindex, sendBlocks, togl,
                 handed, reply, inStep>>

\* usbn2net_txcallback: the rest of the message, but no more than one packet.
\* Mutant: the block to go on with is kept.
TxCallbackKeepsBlock ==
  /\ txDone /\ txDone' = FALSE
  /\ IF uipLen # 0
     THEN /\ Send(uipBuf[sendBlocks], togl)
          /\ uipLen' = 0 /\ UNCHANGED sendBlocks
     ELSE UNCHANGED <<uipLen, sendBlocks, togl, armed>>
  /\ UNCHANGED <<polite, frame, part, number, uipBuf, fillindex, hostPid, handed, reply,
                 inStep, taken>>
TxCallback ==
  /\ txDone /\ txDone' = FALSE
  /\ IF uipLen # 0
     THEN /\ Send(uipBuf[sendBlocks], togl)
          /\ uipLen' = 0 /\ sendBlocks' = 0
     ELSE UNCHANGED <<uipLen, sendBlocks, togl, armed>>
  /\ UNCHANGED <<polite, frame, part, number, uipBuf, fillindex, hostPid, handed, reply,
                 inStep, taken>>

NetNext == FramePacket \/ HostIn \/ TxCallback

NetSpec == NetInit /\ [][NetNext]_netVars

-----------------------------------------------------------------------------
(* Properties                                                               *)

\* uIP is called with whole frames only (the comment above usbn2net_event): all
\* packets of one frame, in their places, and its length, each once, however replies
\* go out of the same buffer meanwhile.
HandedWhole ==
  \A i \in DOMAIN handed :
    LET head == handed[i].buf[0] IN
    /\ handed[i].len = head.size
    /\ \A j \in 1..(i - 1) : handed[j].buf[0].of < head.of
    /\ \A b \in 0..(Packets(head.size) - 1) : handed[i].buf[b] = Packet("host", head.of, head, b)

\* A host that waits for the reply gets it whole, if two packets are enough for
\* it.  What it may miss is the first of two, which starts with DATA1 always.
ReplyWhole ==
  polite /\ Answered /\ reply.size \in 1..128 =>
    /\ Len(taken) = Packets(reply.size) - (IF inStep THEN 0 ELSE 1)
    /\ \A i, j \in DOMAIN taken : taken[i].part - taken[j].part = i - j
    /\ \A i \in DOMAIN taken : taken[i].from = "uIP" /\ taken[i].of = taken[1].of
=============================================================================
