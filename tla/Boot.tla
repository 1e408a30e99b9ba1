--------------------------------- MODULE Boot ---------------------------------
(***************************************************************************)
(* The boot loader (applications/avrusbnboot): the host sends a file in    *)
(* packets of 64 bytes, a command packet before each (avrusbnboot.c); the  *)
(* device collects two of them for a page of the flash (BootLoader in      *)
(* main.c, called in the USB interrupt) and starts the application when it *)
(* is told so, or two seconds after it was switched on, from the main loop.*)
(* The host gives up a write after 100 ms and goes on with the next.       *)
(***************************************************************************)
EXTENDS Integers, FiniteSets

CONSTANTS
  Files,       \* for each packet of a file, what its first byte is as a command
  Byte,        \* values of a byte: the page number is one
  MaxSessions, \* bound on the downloads, each after a power cycle
  MaxLost      \* bound on the packets lost in each

ASSUME BootAssumption ==
  /\ \A f \in Files :
       /\ IsFiniteSet(DOMAIN f)
       /\ f \in [0..(Cardinality(DOMAIN f) - 1) -> {"code", "write", "start"}]
  /\ Byte \in Nat \ {0} /\ MaxSessions \in Nat /\ MaxLost \in Nat

VARIABLES
  packets, file, calm,                   \* the file; is the host disturbed?
  sent,                                  \* packets the host has sent, of two kinds
  bootState, pageAddr, pageblock, collect128, \* state, page_addr, pageblock
  flash,                                 \* page -> its two halves
  bootPc,                                \* main loop, "app" once it has jumped
  lost, raced, sessions                  \* history: packets lost, a packet handled
                                         \* after the two seconds; bound

senderVars == <<packets, file, calm>>
loaderVars == <<bootState, pageAddr, pageblock, collect128, flash>>
bootVars   == <<senderVars, sent, loaderVars, bootPc, lost, raced, sessions>>

\* What is in a half page that no data packet of the file was written to.
Other == -1

BootInit ==
  /\ file \in Files /\ packets = Cardinality(DOMAIN file)
  /\ calm \in BOOLEAN
  /\ sent = 0
  /\ bootState = "none" /\ pageAddr = 0 /\ collect128 = FALSE
  /\ pageblock = [h \in {0, 1} |-> Other]
  /\ flash = [p \in 0..(Byte - 1) |-> [h \in {0, 1} |-> Other]]
  /\ bootPc = "wait"
  /\ lost = {} /\ raced = FALSE /\ sessions = 1

\* easyAVR_FlashBin and easyAVR_StartApp: command and data of each packet, then
\* the start command.
Number    == sent \div 2
IsStart   == sent = 2 * packets
IsData    == sent % 2 = 1
Sending   == sent <= 2 * packets

-----------------------------------------------------------------------------
(* BootLoader                                                               *)

BootProgramPage(p, block) == flash' = [flash EXCEPT ![p] = block]

\* BootLoaderRunApplication, called by the handler, which nothing interrupts.
\* Mutant: what is collected is forgotten.
RunApplicationAtOnce ==
  /\ bootPc' = "app"
  /\ UNCHANGED loaderVars
RunApplication ==
  /\ bootPc' = "app"
  /\ IF collect128
     THEN /\ pageAddr' = pageAddr \div 2
          /\ BootProgramPage(pageAddr \div 2, pageblock)
     ELSE UNCHANGED <<pageAddr, flash>>
  /\ UNCHANGED <<bootState, pageblock, collect128>>

\* In state WRITEPAGE a packet is data, whatever the host meant it to be.
\* Mutant: the page of an odd packet is rounded up.
WritePageUp(content) ==
  /\ bootState' = "none"
  /\ collect128' = (pageAddr % 2 = 0)
  /\ pageblock' = [pageblock EXCEPT ![pageAddr % 2] = content]
  /\ IF pageAddr % 2 = 1
     THEN BootProgramPage((pageAddr + 1) \div 2, pageblock') ELSE UNCHANGED flash
  /\ UNCHANGED <<pageAddr, bootPc>>
WritePage(content) ==
  /\ bootState' = "none"
  /\ collect128' = (pageAddr % 2 = 0)
  /\ pageblock' = [pageblock EXCEPT ![pageAddr % 2] = content]
  /\ IF pageAddr % 2 = 1
     THEN BootProgramPage((pageAddr - 1) \div 2, pageblock') ELSE UNCHANGED flash
  /\ UNCHANGED <<pageAddr, bootPc>>

\* In any other state it is a command; a byte that is none is kept as the state.
Command(first, page) ==
  \/ /\ first = "write"
     /\ bootState' = "write" /\ pageAddr' = page
     /\ UNCHANGED <<pageblock, collect128, flash, bootPc>>
  \/ first = "start" /\ RunApplication
  \/ /\ first = "code"
     /\ bootState' = "code"
     /\ UNCHANGED <<pageAddr, pageblock, collect128, flash, bootPc>>

BootLoader ==
  IF bootState = "write"
  THEN WritePage(IF IsData /\ ~IsStart THEN Number ELSE Other)
  ELSE IF IsStart THEN Command("start", 0)
  ELSE IF IsData THEN Command(file[Number], 0)
  ELSE Command("write", Number % Byte)

-----------------------------------------------------------------------------

Deliver ==
  /\ Sending /\ bootPc # "app"
  /\ sent' = sent + 1
  /\ BootLoader
  /\ raced' = (raced \/ bootPc # "wait")
  /\ UNCHANGED <<senderVars, lost, sessions>>

\* The write timed out; nobody looks at the result.
Lose ==
  /\ Sending /\ (calm => bootPc = "app")
  /\ sent' = sent + 1
  /\ bootPc # "app" => Cardinality(lost) < MaxLost
  /\ lost' = lost \cup {Number}
  /\ UNCHANGED <<senderVars, loaderVars, bootPc, raced, sessions>>

\* The main loop after wait_ms(2000): BootLoaderRunApplication again, which here
\* an interrupt can come in between.
Main(from, to) == bootPc = from /\ bootPc' = to
                  /\ UNCHANGED <<senderVars, sent, lost, raced, sessions>>

TwoSeconds ==
  /\ Main("wait", IF collect128 THEN "halve" ELSE "reset")
  /\ calm => ~Sending
  /\ UNCHANGED loaderVars

Halve ==
  /\ Main("halve", "program")
  /\ pageAddr' = pageAddr \div 2
  /\ UNCHANGED <<bootState, pageblock, collect128, flash>>

ProgramRest ==
  /\ Main("program", "reset")
  /\ BootProgramPage(pageAddr, pageblock)
  /\ UNCHANGED <<bootState, pageAddr, pageblock, collect128>>

Jump == Main("reset", "app") /\ UNCHANGED loaderVars

SwitchOn ==
  /\ bootPc = "app" /\ ~Sending /\ sessions < MaxSessions
  /\ sessions' = sessions + 1
  /\ sent' = 0 /\ lost' = {} /\ raced' = FALSE
  /\ bootState' = "none" /\ pageAddr' = 0 /\ collect128' = FALSE
  /\ pageblock' = [h \in {0, 1} |-> Other]
  /\ bootPc' = "wait"
  /\ UNCHANGED <<senderVars, flash>>

BootNext ==
  Deliver \/ Lose \/ TwoSeconds \/ Halve \/ ProgramRest \/ Jump \/ SwitchOn

BootSpec == BootInit /\ [][BootNext]_bootVars

-----------------------------------------------------------------------------
(* Properties                                                               *)

\* When the application starts, the packets sent so far are in the flash, each in
\* its place: a packet lost on the way, command or data, spoils nothing but
\* itself and its neighbours, as long as no data packet reads as a command.  It
\* takes a file whose page numbers fit in a byte, and no packet handled between
\* the end of the two seconds and the jump.
ImageInFlash ==
  bootPc = "app" /\ ~raced /\ packets <= Byte /\ (lost = {} \/ \A k \in DOMAIN file : file[k] = "code")
    => \A k \in DOMAIN file :
         2 * k + 1 < sent /\ lost \cap {k - 1, k, k + 1} = {}
           => flash[k \div 2][k % 2] = k

\* Undisturbed, and with page numbers that fit, the boot loader does what
\* FlashImage promises.
Image == INSTANCE FlashImage WITH
  Pages <- 0..(Byte - 1), image <- flash, running <- (bootPc = "app")

ImageReplaced ==
  [][calm /\ packets <= Byte => Image!Next \/ UNCHANGED <<packets, flash, bootPc = "app">>]_bootVars
=============================================================================
