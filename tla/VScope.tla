-------------------------------- MODULE VScope --------------------------------
(***************************************************************************)
(* The logic analyzer: the sampling timer and the commands of the host,    *)
(* both handled in interrupts, the main loop that sends the samples, and   *)
(* the client library that reads them (applications/logicanalyzer: main.c, *)
(* vscope.c, client/lib/vscopedevice.c).  Below it the ring buffer keeps   *)
(* count-- in two steps (module Fifo takes it apart further) and endpoint  *)
(* 1 of the chip is one FIFO with what is in it, armed with a PID or not.  *)
(***************************************************************************)
EXTENDS Integers, Sequences

CONSTANTS
  Depth,       \* bytes of the ring buffer: 1000
  PacketSize,  \* bytes of FIFO 1: 64
  Length,      \* bytes a caller of readVScopeData wants
  Calls,       \* calls of the library, as sequences of what they do
  MaxCalls,    \* bound on the calls
  MaxSamples   \* bound on the samples of one recording

ASSUME VScopeAssumption ==
  /\ Depth \in Nat \ {0} /\ PacketSize \in Nat \ {0}
  /\ Length \in Nat /\ Length % PacketSize = 0 /\ Length > 1
  /\ MaxCalls \in Nat /\ MaxSamples \in Nat

VARIABLES
  cells, rd, wr, count,           \* vscope.fifo
  tx, mode, state, timer,         \* vscope, TCCR1B
  trigger, last,                  \* vscope.trigger, the channel of trigger_last
  pc, left, loaded, togl,         \* the main loop
  packet, armed,                  \* FIFO 1 of the chip: the bytes in it, TX_EN
                                  \* and the PID, and whether it answers a query
  sent, cmd,                      \* TXEV1 pending; command in the OUT FIFO
  todo, reading, part, got, pid,  \* client: steps to do, readVScopeData, PID
  calls, run, kind, n, upset,     \* bound; history: recording, its mode,
  disturbed                       \* samples, what went wrong; PIDs not in step

fifoVars   == <<cells, rd, wr, count>>
modeVars   == <<mode, state, timer>>
mainVars   == <<pc, left, loaded, togl>>
fifo1Vars  == <<packet, armed>>
clientVars == <<todo, reading, part, got, pid, calls>>
history    == <<run, kind, n, upset, disturbed>>
vars == <<fifoVars, tx, modeVars, trigger, last, mainVars, fifo1Vars, sent, cmd,
          clientVars, history>>

\* A byte nobody sampled: -1 of fifo_get_nowait, a cell that is not written.  The
\* answer to CMD_GETSCOPESTATE is none either, but is meant to be read.
Junk      == [run |-> 0, n |-> -1]
StateByte == [run |-> 0, n |-> 0]

\* Mutant: the buffer ends one cell early.
NextCellEarly(p) == (p + 1) % (Depth - 1)
NextCell(p)      == (p + 1) % Depth
Off == [en |-> FALSE, pid |-> 0, query |-> FALSE]

Filling  == pc \in {"get", "load", "store", "room", "send"}
Stopping == pc \in {"stop", "timeroff", "tologic"}

\* Things the properties make an exception for.
Upset(events) == upset' = upset \cup events

Init ==
  /\ cells = [i \in 0..(Depth - 1) |-> Junk] /\ rd = 0 /\ wr = 0 /\ count = 0
  /\ tx = FALSE /\ mode = "none" /\ state = "donothing" /\ timer = FALSE
  /\ trigger = "off" /\ last = 1
  /\ pc = "top" /\ packet = <<>> /\ left = 0 /\ loaded = 0 /\ togl = 0
  /\ armed = Off /\ sent = FALSE /\ cmd = "none"
  /\ todo = <<"open">> /\ reading = "no" /\ part = <<>> /\ got = <<>> /\ pid = 0
  /\ calls = 0
  /\ run = 0 /\ kind = "none" /\ n = 0 /\ upset = {} /\ disturbed = FALSE

-----------------------------------------------------------------------------
(* Interrupts: the sampling timer and VScopeCommand                         *)

\* An edge is a change to 1 since the tick before, a pattern a port of 1.
Fires(port) ==
  \/ trigger = "edge" /\ last = 0 /\ port = 1
  \/ trigger = "pattern" /\ port = 1

SampleTriggered(port) ==
  /\ timer /\ trigger # "off"
  /\ trigger' = IF Fires(port) THEN "off" ELSE trigger
  /\ last' = IF trigger = "edge" THEN port ELSE last
  /\ UNCHANGED <<fifoVars, tx, modeVars, mainVars, fifo1Vars, sent, cmd, clientVars,
                 history>>

\* fifo_put drops the sample when the buffer is full.
Sample ==
  /\ timer /\ trigger = "off" /\ n < MaxSamples
  /\ n' = n + 1
  /\ Upset((IF count >= Depth THEN {"full"} ELSE {}) \cup
           (IF pc = "store" THEN {"miscounted"} ELSE {}))
  /\ IF count >= Depth
     THEN UNCHANGED fifoVars
     ELSE /\ cells' = [cells EXCEPT ![wr] = [run |-> run, n |-> n + 1]]
          /\ wr' = NextCell(wr)
          /\ count' = count + 1
          /\ UNCHANGED rd
  /\ UNCHANGED <<tx, modeVars, trigger, last, mainVars, fifo1Vars, sent, cmd, clientVars,
                 run, kind, disturbed>>

\* The next command is NAKed until this one is handled.
Take(c)   == cmd = c /\ cmd' = "none" /\ UNCHANGED <<mainVars, sent, clientVars>>
Handle(c) == Take(c) /\ UNCHANGED <<fifo1Vars, disturbed>>

SetMode(m) ==
  /\ Handle(m)
  /\ mode' = m
  /\ kind' = "none"
  /\ Upset(IF Stopping THEN {"cancelled"} ELSE {})
  /\ UNCHANGED <<fifoVars, tx, state, timer, trigger, last, run, n>>

StartScope ==
  /\ Handle("start")
  /\ rd' = 0 /\ wr' = 0 /\ count' = 0
  /\ state' = "running" /\ timer' = TRUE
  /\ run' = run + 1 /\ kind' = mode /\ n' = 0
  /\ Upset((IF Filling THEN {"cut"} ELSE {}) \cup
           (IF Stopping THEN {"cancelled"} ELSE {}))
  /\ UNCHANGED <<cells, tx, mode, trigger, last>>

StopScope ==
  /\ Handle("stop")
  /\ count' = 0
  /\ kind' = "none"
  /\ state' = "donothing" /\ timer' = FALSE
  /\ Upset(IF Filling THEN {"cut"} ELSE {})
  /\ UNCHANGED <<cells, rd, wr, tx, mode, trigger, last, run, n>>

\* Mutant: no leave is given.
GetDataIgnored ==
  /\ Handle("getdata")
  /\ UNCHANGED <<fifoVars, tx, modeVars, trigger, last, run, kind, n, upset>>

GetData ==
  /\ Handle("getdata")
  /\ tx' = TRUE
  /\ Upset(IF armed.en \/ sent \/ Filling THEN {"asked"} ELSE {})
  /\ UNCHANGED <<fifoVars, modeVars, trigger, last, run, kind, n>>

SetTrigger(t) ==
  /\ Handle(t)
  /\ trigger' = t
  /\ UNCHANGED <<fifoVars, tx, modeVars, last, run, kind, n, upset>>

\* FIFO 1 is flushed, what the main loop has put there or is filling it with, and
\* the state sent as DATA0.  Nobody has given a leave, but the callback will.  (The
\* line that writes the state has a parenthesis too many; this is what it means.)
GetState ==
  /\ Take("state")
  /\ packet' = <<StateByte>>
  /\ armed' = [en |-> TRUE, pid |-> 0, query |-> TRUE]
  /\ disturbed' = TRUE
  /\ Upset({"queried"})
  /\ UNCHANGED <<fifoVars, tx, modeVars, trigger, last, run, kind, n>>

\* VScopePingPongTX1, the callback of FIFO 1; a command goes first.
PingPong ==
  /\ sent /\ cmd = "none"
  /\ sent' = FALSE
  /\ tx' = TRUE
  /\ UNCHANGED <<fifoVars, modeVars, trigger, last, mainVars, fifo1Vars, cmd, clientVars,
                 history>>

VScopeCommand ==
  \/ \E m \in {"logic", "intern"} : SetMode(m)
  \/ StartScope \/ StopScope \/ GetData \/ GetState
  \/ \E t \in {"edge", "pattern", "off"} : SetTrigger(t)

Interrupt ==
  \/ \E port \in {0, 1} : SampleTriggered(port)
  \/ Sample \/ VScopeCommand \/ PingPong

-----------------------------------------------------------------------------
(* The main loop                                                            *)

At(label) ==
  /\ pc = label
  /\ UNCHANGED <<cells, wr, trigger, last, sent, cmd, clientVars, run, kind, n>>

packetVars == <<packet, left, loaded, togl, armed, upset, disturbed>>

\* An internal recording ends when the buffer is full.
\* Mutant: it waits for more than the buffer holds.
TopPastDepth ==
  /\ At("top")
  /\ pc' = IF count > Depth /\ mode = "intern" THEN "stop" ELSE "check"
  /\ UNCHANGED <<rd, count, tx, modeVars, packetVars>>

Top ==
  /\ At("top")
  /\ pc' = IF count >= Depth /\ mode = "intern" THEN "stop" ELSE "check"
  /\ UNCHANGED <<rd, count, tx, modeVars, packetVars>>

StopState ==
  /\ At("stop") /\ pc' = "timeroff"
  /\ state' = "donothing"
  /\ UNCHANGED <<rd, count, tx, mode, timer, packetVars>>

StopTimer ==
  /\ At("timeroff") /\ pc' = "tologic"
  /\ timer' = FALSE
  /\ UNCHANGED <<rd, count, tx, mode, state, packetVars>>

ToLogic ==
  /\ At("tologic") /\ pc' = "check"
  /\ mode' = "logic"
  /\ UNCHANGED <<rd, count, tx, state, timer, packetVars>>

\* The leave to send is taken back and the FIFO flushed.
Begin ==
  /\ pc' = "get"
  /\ armed' = Off
  /\ packet' = <<>> /\ left' = 0
  /\ Upset(IF armed.en THEN {"flushed"} ELSE {})
  /\ disturbed' = (disturbed \/ armed.en)
  /\ UNCHANGED <<rd, count, modeVars, loaded, togl>>

NotYet == pc' = "top" /\ UNCHANGED <<rd, count, tx, modeVars, packetVars>>

\* Mutants: the leave is kept; the mode is not looked at.
CheckKeepsLeave ==
  /\ At("check")
  /\ IF count > 0 /\ tx /\ mode = "logic" THEN Begin /\ UNCHANGED tx ELSE NotYet
CheckAnyMode ==
  /\ At("check")
  /\ IF count > 0 /\ tx THEN Begin /\ tx' = FALSE ELSE NotYet

Check ==
  /\ At("check")
  /\ IF count > 0 /\ tx /\ mode = "logic" THEN Begin /\ tx' = FALSE ELSE NotYet

\* The first get, with left 0, is followed by min(count, 63) more.
NextGet ==
  /\ pc' = IF left = 0 THEN "room" ELSE IF left > 1 THEN "get" ELSE "send"
  /\ left' = IF left = 0 THEN 0 ELSE left - 1

\* fifo_get_nowait: -1 from an empty buffer, else the element.  Behind the answer to
\* a query FIFO 1 has no room for the last of a full packet.
Get ==
  /\ At("get")
  /\ packet' = IF armed.en /\ Len(packet) >= PacketSize THEN packet
               ELSE Append(packet, IF count = 0 THEN Junk ELSE cells[rd])
  /\ IF count = 0
     THEN NextGet /\ UNCHANGED rd
     ELSE pc' = "load" /\ rd' = NextCell(rd) /\ UNCHANGED left
  /\ UNCHANGED <<count, tx, modeVars, loaded, togl, armed, upset, disturbed>>

LoadCount ==
  /\ At("load") /\ pc' = "store"
  /\ loaded' = count
  /\ UNCHANGED <<rd, count, tx, modeVars, packet, left, togl, armed, upset, disturbed>>

\* A put since LoadCount is lost from count.
StoreCount ==
  /\ At("store") /\ NextGet
  /\ count' = loaded - 1
  /\ UNCHANGED <<rd, tx, modeVars, packet, loaded, togl, armed, upset, disturbed>>

Room ==
  /\ At("room")
  /\ left' = IF count < PacketSize - 1 THEN count ELSE PacketSize - 1
  /\ pc' = IF left' > 0 THEN "get" ELSE "send"
  /\ UNCHANGED <<rd, count, tx, modeVars, packet, loaded, togl, armed, upset, disturbed>>

\* The toggle is a local variable of main.  Mutant: it is not turned.
SendSamePid ==
  /\ At("send") /\ pc' = "top"
  /\ armed' = [en |-> TRUE, pid |-> togl, query |-> FALSE]
  /\ UNCHANGED <<rd, count, tx, modeVars, packet, left, loaded, togl, upset, disturbed>>

Send ==
  /\ At("send") /\ pc' = "top"
  /\ armed' = [en |-> TRUE, pid |-> togl, query |-> FALSE]
  /\ togl' = 1 - togl
  /\ UNCHANGED <<rd, count, tx, modeVars, packet, left, loaded, upset, disturbed>>

Main == Top \/ StopState \/ StopTimer \/ ToLogic \/ Check \/ Get \/ LoadCount
        \/ StoreCount \/ Room \/ Send

-----------------------------------------------------------------------------
(* The client library                                                       *)

deviceVars == <<fifoVars, tx, modeVars, trigger, last, mainVars, sent>>

Call(c) ==
  /\ todo = <<>> /\ calls < MaxCalls
  /\ todo' = c
  /\ calls' = calls + 1
  /\ UNCHANGED <<deviceVars, fifo1Vars, cmd, reading, part, got, pid, history>>

\* openVScope sets the configuration: the device flushes FIFO 1, armed or half
\* filled, and the host expects DATA0.
Open ==
  /\ todo # <<>> /\ Head(todo) = "open" /\ cmd = "none"
  /\ todo' = Tail(todo)
  /\ armed' = Off
  /\ pid' = 0
  /\ packet' = <<>>
  /\ Upset(IF armed.en \/ togl # 0 \/ Filling THEN {"reopened"} ELSE {})
  /\ disturbed' = (togl # 0)
  /\ UNCHANGED <<deviceVars, cmd, reading, part, got, calls, run, kind, n>>

\* RecordingInternal queries the state until GetVScopeState says that it is over; but
\* that function returns nothing, so the loop ends any time or never.
SendCommand ==
  /\ todo # <<>> /\ Head(todo) \notin {"open", "read"} /\ cmd = "none"
  /\ cmd' = Head(todo)
  /\ todo' = Tail(todo) \/ (Head(todo) = "state" /\ todo' = todo)
  /\ UNCHANGED <<deviceVars, fifo1Vars, reading, part, got, pid, calls, history>>

BeginRead ==
  /\ todo # <<>> /\ Head(todo) = "read" /\ reading = "no"
  /\ reading' = "ask"
  /\ got' = <<>>
  /\ UNCHANGED <<deviceVars, fifo1Vars, cmd, todo, part, pid, calls, history>>

Ask ==
  /\ reading = "ask" /\ cmd = "none"
  /\ cmd' = "getdata"
  /\ reading' = "poll"
  /\ part' = <<>>
  /\ UNCHANGED <<deviceVars, fifo1Vars, todo, got, pid, calls, history>>

\* A short packet, or Length bytes, end the bulk read; what it brought is
\* appended up to Length, and all but one byte of Length are enough.
EndBulkRead(data) ==
  LET all == got \o data IN
  /\ got' = SubSeq(all, 1, IF Len(all) < Length THEN Len(all) ELSE Length)
  /\ part' = <<>>
  /\ IF Len(got') >= Length - 1
     THEN reading' = "no" /\ todo' = Tail(todo)
     ELSE reading' = "ask" /\ UNCHANGED todo

\* The host takes what FIFO 1 holds, or drops it for its PID; a packet of the main
\* loop leaves the PIDs in step.
In ==
  /\ reading = "poll" /\ armed.en
  /\ armed' = Off /\ packet' = <<>>
  /\ disturbed' = (disturbed /\ armed.query)
  /\ sent' = TRUE
  /\ IF armed.pid # pid
     THEN UNCHANGED <<pid, part, got, reading, todo>>
     ELSE LET data == part \o packet IN
          /\ pid' = 1 - pid
          /\ IF Len(packet) < PacketSize \/ Len(data) >= Length
             THEN EndBulkRead(data)
             ELSE part' = data /\ UNCHANGED <<got, reading, todo>>
  /\ UNCHANGED <<fifoVars, tx, modeVars, trigger, last, mainVars, cmd, calls,
                 run, kind, n, upset>>

\* After 100 ms usb_bulk_read gives up, and what it had is gone.
Timeout ==
  /\ reading = "poll"
  /\ reading' = "ask"
  /\ part' = <<>>
  /\ Upset(IF part # <<>> THEN {"late"} ELSE {})
  /\ UNCHANGED <<deviceVars, fifo1Vars, cmd, todo, got, pid, calls, run, kind, n, disturbed>>

Client == (\E c \in Calls : Call(c)) \/ Open \/ SendCommand \/ BeginRead \/ Ask
          \/ In \/ Timeout

Next == Interrupt \/ Main \/ Client

Spec == Init /\ [][Next]_vars

\* Interrupts are served, the timer ticks, the main loop runs on; the client
\* goes on with its call, and polls an armed packet before it times out for ever.
FairSpec ==
  /\ Spec
  /\ WF_vars(VScopeCommand) /\ WF_vars(PingPong) /\ WF_vars(Sample)
  /\ WF_vars(Main)
  /\ WF_vars(Open \/ SendCommand \/ BeginRead \/ Ask) /\ SF_vars(In)
-----------------------------------------------------------------------------
(* Properties.  Each names what it cannot stand, as events of upset: "cut", a
   start or stop within the filling of a packet; "miscounted", a sample within
   count--; "full", a sample dropped; "asked", a GETDATA while a packet is under
   way; "queried", the state asked for; "flushed", a packet flushed; "late", a
   timeout that dropped data; "reopened", a configuration under way; "cancelled",
   a command within the end of an internal recording. *)

Without(events) == upset \cap events = {}

Earlier(x, y) == x.run < y.run \/ (x.run = y.run /\ x.n < y.n)

\* What a read brings is in the order it was sampled in, nothing twice and nothing
\* made up, whatever was left in buffer and FIFO by recordings before, but for the
\* answers to state queries among it; and without such a query nothing is left out.
InSequence ==
  Without({"cut", "miscounted"}) =>
    \A i, j \in 1..Len(got) :
      /\ got[i] # Junk
      /\ i < j /\ StateByte \notin {got[i], got[j]} => Earlier(got[i], got[j])

Gapless ==
  upset \subseteq {"asked"} =>
    \A i \in 1..(Len(got) - 1) :
      got[i].run = got[i + 1].run => got[i].n + 1 = got[i + 1].n

ReadIsRecording == InSequence /\ Gapless

\* While an internal recording runs the buffer is its beginning, without a gap.
InternalGapless ==
  kind = "intern" /\ mode = "intern" /\ Without({"cut", "cancelled"}) =>
    /\ rd = 0 /\ count = IF n < Depth THEN n ELSE Depth
    /\ \A i \in 1..count : cells[i - 1] = [run |-> run, n |-> i]

\* There is one leave to send: taken by the main loop, in a packet, or given back
\* by the transmit event.  So no packet is flushed that the host has not read.  A
\* GETDATA too early makes it two, and so does the answer to a state query, whose
\* transmit event gives one.
OneLeave ==
  Without({"asked", "queried"}) =>
    \A a, b \in {"tx", "filling", "armed", "sent"} :
      (LET held == [tx |-> tx, filling |-> Filling, armed |-> armed.en, sent |-> sent]
       IN held[a] /\ held[b]) => a = b

\* A packet has the PID the host expects.  A packet flushed, a configuration set
\* while the toggle of the main loop is 1 and the answer to a state query put them
\* out of step, but for one packet of the main loop only: after it, taken or dropped,
\* they are in step again.
PidInStep ==
  ~disturbed /\ armed.en => armed.pid = pid

\* A reading client gets the rest of a stopped recording.
Drains ==
  reading # "no" /\ mode = "logic" /\ ~timer ~> count <= 0 \/ reading = "no"

\* An internal recording ends by itself, unless the client turns to another mode
\* or sets a trigger meanwhile.
InternalEnds ==
  kind = "intern" /\ mode = "intern" /\ timer /\ trigger = "off"
    ~> (~timer /\ state = "donothing") \/ kind # "intern" \/ trigger # "off" \/ ~Without({"cut", "cancelled"})
=============================================================================
