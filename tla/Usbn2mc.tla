------------------------------- MODULE Usbn2mc -------------------------------
(***************************************************************************)
(* Register access over the parallel bus (firmware/devices/atmega32/       *)
(* usbn2mc.c).  One access is a series of port operations: address on the  *)
(* data port, a strobe with A0 that loads the chip's address latch, then a *)
(* strobe that moves the data.  The interrupt handler uses the same pins   *)
(* and the same latch as the code it interrupts, and can come between any  *)
(* two port operations.                                                    *)
(*                                                                         *)
(* What is accessed is a parameter.  The main program runs StartProgram    *)
(* and then the SendPrograms of an application that sends from its main    *)
(* loop (logicanalyzer/main.c), an interrupt one of InterruptPrograms.     *)
(***************************************************************************)
EXTENDS Naturals, Sequences

CONSTANTS
  Registers,          \* of the chip
  Data,               \* what is written, and "none"
  PowerOn,            \* what the registers hold before the start
  StartProgram,       \* the accesses of USBNStart
  InterruptPrograms,  \* those of USBNInterrupt, one program per event
  SendPrograms        \* those of a main loop that sends

VARIABLES
  regs,    \* the chip's registers
  latch,   \* the chip's address latch
  ctrl,    \* control lines that are asserted: CS, WR, RD, A0
  port,    \* USB_DATA_OUT
  ddr,     \* USB_DATA_DDR: in or out
  plan,    \* accesses each context still has to do, the current one first
  opno,    \* number of the current access' port operation that comes next
  val,     \* what each context read last
  sending  \* history: has the main loop begun to write?

vars == <<regs, latch, ctrl, port, ddr, plan, opno, val, sending>>

Contexts == {"main", "isr"}

(***************************************************************************)
(* Programs are sequences of accesses.                                     *)
(***************************************************************************)
Reads  == {"select", "read", "burstread"}
Writes == {"write", "restore", "burstwrite"}
Kinds  == Reads \cup Writes \cup {"await"}
Access == [kind : Kinds, reg : Registers, data : Data]

WriteOf(r, v) == [kind |-> "write", reg |-> r, data |-> v]
ReadOf(r)     == [kind |-> "read", reg |-> r, data |-> "none"]
\* Only the address: USBNBurstReadSetAddr.
SelectOf(r)   == [kind |-> "select", reg |-> r, data |-> "none"]

\* Another byte from or to the register the latch already selects.
BurstReadOf(r)     == [kind |-> "burstread", reg |-> r, data |-> "none"]
BurstWriteOf(r, v) == [kind |-> "burstwrite", reg |-> r, data |-> v]

\* Read again until the software reset is over, and write what was read last.
AwaitResetOf(r) == [kind |-> "await", reg |-> r, data |-> "none"]
RestoreOf(r)    == [kind |-> "restore", reg |-> r, data |-> "none"]

\* A burst goes on with the register and the direction of the access before.
GoesOn(before, next) ==
  /\ next.kind = "burstread" => before.kind \in Reads /\ before.reg = next.reg
  /\ next.kind = "burstwrite" => before.kind \in Writes /\ before.reg = next.reg

\* What the stack's programs have in common: bursts go on with the access
\* before, and MCNTRL is read only to await the end of the reset.
WellFormed(p) ==
  /\ p \in Seq(Access) /\ p # <<>>
  /\ p[1].kind \notin {"burstread", "burstwrite"}
  /\ \A i \in 1..(Len(p) - 1) : GoesOn(p[i], p[i + 1])
  /\ \A i \in 1..Len(p) : p[i].kind \in Reads => p[i].reg # "MCNTRL"

ASSUME AccessAssumption ==
  /\ "MCNTRL" \in Registers
  /\ PowerOn \in [Registers -> STRING] /\ PowerOn["MCNTRL"] # "INT"
  /\ WellFormed(StartProgram)
  /\ \A p \in InterruptPrograms \cup SendPrograms : WellFormed(p)

\* Can this access let the chip drive its INT pin?
SetsInt(a) ==
  /\ a.reg = "MCNTRL"
  /\ \/ a.kind = "restore"
     \/ a.kind \in {"write", "burstwrite"} /\ a.data = "INT"

\* USBNStart lets the chip drive INT with its last access (usbnapi.c, line 577).
InterruptsLast == \A i \in 1..(Len(StartProgram) - 1) : ~SetsInt(StartProgram[i])

(***************************************************************************)
(* Port operations of an access.                                           *)
(***************************************************************************)
Out(v)     == [op |-> "port", arg |-> v]
Dir(d)     == [op |-> "ddr", arg |-> d]
Toggle(s)  == [op |-> "toggle", arg |-> s]
Sample     == [op |-> "sample", arg |-> "none"]
AddressStrobe == {"CS", "WR", "A0"}
ReadStrobe    == {"CS", "RD"}
WriteStrobe   == {"CS", "WR"}

\* Mutant: the read strobe does not end.
HalfStrobe == <<Toggle(ReadStrobe), Sample>>

USBNBurstRead == <<Toggle(ReadStrobe), Sample, Toggle(ReadStrobe)>>

USBNBurstReadSetAddr(adr) ==
  <<Dir("out"), Out(adr), Toggle(AddressStrobe), Toggle(AddressStrobe), Dir("in")>>

USBNRead(adr) == USBNBurstReadSetAddr(adr) \o USBNBurstRead

USBNBurstWrite(data) == <<Out(data), Toggle(WriteStrobe), Toggle(WriteStrobe)>>

USBNWrite(adr, data) ==
  <<Out(adr), Dir("out"), Toggle(AddressStrobe), Toggle(AddressStrobe)>>
    \o USBNBurstWrite(data)

\* read is what the context read last.
Operations(access, read) ==
  CASE access.kind \in {"read", "await"} -> USBNRead(access.reg)
    [] access.kind = "select"     -> USBNBurstReadSetAddr(access.reg)
    [] access.kind = "burstread"  -> USBNBurstRead
    [] access.kind = "write"      -> USBNWrite(access.reg, access.data)
    [] access.kind = "restore"    -> USBNWrite(access.reg, read)
    [] access.kind = "burstwrite" -> USBNBurstWrite(access.data)

(***************************************************************************)
(* The chip's side of a port operation.                                    *)
(***************************************************************************)
Driven   == IF ddr = "out" THEN port ELSE "floating"
Readable == ReadStrobe \subseteq ctrl /\ ddr = "in" /\ latch \in Registers
ReadBack == IF Readable THEN regs[latch] ELSE "floating"

ExclusiveOr(a, b) == (a \ b) \cup (b \ a)

\* The end of a write strobe takes the byte on the data lines into the latch
\* or into the register the latch selects.
ChipToggle(s) ==
  LET lines == ExclusiveOr(ctrl, s)
      ends  == WriteStrobe \subseteq ctrl /\ ~(WriteStrobe \subseteq lines)
  IN /\ ctrl' = lines
     /\ latch' = IF ends /\ "A0" \in ctrl THEN Driven ELSE latch
     /\ regs' = IF ends /\ "A0" \notin ctrl /\ latch \in Registers
                THEN [regs EXCEPT ![latch] = Driven] ELSE regs

SoftwareResetDone ==
  /\ regs["MCNTRL"] = "SRST"
  /\ regs' = [regs EXCEPT !["MCNTRL"] = "clear"]
  /\ UNCHANGED <<latch, ctrl, port, ddr, plan, opno, val, sending>>

(***************************************************************************)
(* Execution.                                                              *)
(***************************************************************************)
Init ==
  /\ regs = PowerOn
  /\ latch = "none"
  /\ ctrl = {}
  /\ port = "none"
  /\ ddr = "out"
  /\ plan = [main |-> StartProgram, isr |-> <<>>]
  /\ opno = [c \in Contexts |-> 1]
  /\ val = [c \in Contexts |-> "none"]
  /\ sending = FALSE

Running(c) == plan[c] # <<>> /\ (c = "main" => plan["isr"] = <<>>)

\* The interrupt: sei() has been called, INT only works once MCNTRL says so.
Preempt ==
  /\ plan["isr"] = <<>>
  /\ regs["MCNTRL"] = "INT"
  /\ \E p \in InterruptPrograms : plan' = [plan EXCEPT !["isr"] = p]
  /\ UNCHANGED <<regs, latch, ctrl, port, ddr, opno, val, sending>>

\* The main loop of an application that sends by itself.
MainSend ==
  /\ plan["main"] = <<>> /\ plan["isr"] = <<>>
  /\ \E p \in SendPrograms : plan' = [plan EXCEPT !["main"] = p]
  /\ sending' = TRUE
  /\ UNCHANGED <<regs, latch, ctrl, port, ddr, opno, val>>

CurrentOps(c) == Operations(Head(plan[c]), val[c])

Perform(c) ==
  LET o == CurrentOps(c)[opno[c]] IN
  /\ port' = IF o.op = "port" THEN o.arg ELSE port
  /\ ddr' = IF o.op = "ddr" THEN o.arg ELSE ddr
  /\ val' = IF o.op = "sample" THEN [val EXCEPT ![c] = ReadBack] ELSE val
  /\ IF o.op = "toggle" THEN ChipToggle(o.arg) ELSE UNCHANGED <<regs, latch, ctrl>>

\* The wait for the end of the software reset reads again while SRST is set.
AfterAccess(c) ==
  IF Head(plan[c]).kind = "await" /\ val[c] = "SRST" THEN plan[c] ELSE Tail(plan[c])

\* After the last operation of an access comes the next one.
Step(c) ==
  /\ Running(c)
  /\ Perform(c)
  /\ IF opno[c] < Len(CurrentOps(c))
     THEN opno' = [opno EXCEPT ![c] = @ + 1] /\ UNCHANGED plan
     ELSE opno' = [opno EXCEPT ![c] = 1] /\ plan' = [plan EXCEPT ![c] = AfterAccess(c)]
  /\ UNCHANGED sending

Next == SoftwareResetDone \/ Preempt \/ MainSend \/ \E c \in Contexts : Step(c)

Spec == Init /\ [][Next]_vars

\* The controller executes, the chip ends its reset, and the bus is not so busy
\* that interrupts follow each other without end: none is promised.
FairSpec == Spec /\ WF_vars(SoftwareResetDone) /\ \A c \in Contexts : WF_vars(Step(c))

-----------------------------------------------------------------------------
(* Properties *)

\* The context writes v to register r.
Asked(c, r, v) ==
  /\ plan[c] # <<>> /\ Head(plan[c]).reg = r
  /\ \/ Head(plan[c]).kind \in {"write", "burstwrite"} /\ Head(plan[c]).data = v
     \/ Head(plan[c]).kind = "restore" /\ val[c] = v

WritesAsAsked ==
  \A r \in Registers :
    regs'[r] # regs[r] =>
      \/ \E c \in Contexts : Asked(c, r, regs'[r])
      \/ r = "MCNTRL" /\ regs[r] = "SRST" /\ regs'[r] = "clear"

\* The step is the last one of an access of one of these kinds.
Finishes(c, kinds) ==
  /\ plan[c] # <<>> /\ Head(plan[c]).kind \in kinds
  /\ opno[c] = Len(CurrentOps(c)) /\ plan'[c] = Tail(plan[c])

\* A register only ever changes to what some USBNWrite asked for that register
\* ("Write data to usbn96x register", usbn2mc.c): no byte lands elsewhere.
NoStrayWrite == [][WritesAsAsked]_vars

\* As long as only USBNStart and interrupts use the chip, every byte lands where
\* it was meant to: when USBNWrite returns it is in the register and nowhere
\* else, and USBNRead returns what the register held.
AccessLands ==
  [][~sending =>
       /\ WritesAsAsked
       /\ \A c \in Contexts :
            LET a == Head(plan[c]) IN
            /\ Finishes(c, {"write", "burstwrite"}) => regs'[a.reg] = a.data
            /\ Finishes(c, {"restore"}) => regs'[a.reg] = val[c]
            /\ Finishes(c, {"read", "burstread"}) => val[c] = regs[a.reg]]_vars

\* The strobes are exclusive-ors of the control port: whoever interrupts whom
\* between them, the lines are released again when no access is under way.
LinesReleased == (\A c \in Contexts : opno[c] = 1) => ctrl = {}

\* USBNStart gets past its busy wait and returns.
StartCompletes == <>(plan["main"] = <<>>)
=============================================================================
