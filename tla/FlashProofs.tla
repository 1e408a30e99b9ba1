----------------------------- MODULE FlashProofs -----------------------------
(***************************************************************************)
(* What is written ends where it was meant to.  In a flash, by the boot    *)
(* loader, for every set of files and any number of downloads and lost     *)
(* packets, and by the AT89 programmer, for files, packets and memories of *)
(* every size; and in a register of the chip, over the parallel bus, for   *)
(* any programs of accesses and interrupts between any two operations.     *)
(***************************************************************************)
EXTENDS Boot, UsbFlash, Usbn2mc, FiniteSetTheorems, TLAPS

-----------------------------------------------------------------------------
(* The boot loader                                                          *)

HalfPages == [{0, 1} -> Int]

BootTypeOK ==
  /\ file \in Files /\ packets \in Nat
  /\ file \in [0..(packets - 1) -> {"code", "write", "start"}]
  /\ calm \in BOOLEAN
  /\ sent \in 0..(2 * packets + 1)
  /\ bootState \in {"none", "write", "code"}
  /\ pageAddr \in 0..(Byte - 1)
  /\ collect128 \in BOOLEAN
  /\ pageblock \in HalfPages
  /\ flash \in [0..(Byte - 1) -> HalfPages]
  /\ bootPc \in {"wait", "halve", "program", "reset", "app"}
  /\ \A k \in lost : k \in Nat /\ 2 * k < sent
  /\ raced \in BOOLEAN

\* The downloads the properties are about.
Regular ==
  /\ ~raced /\ packets <= Byte
  /\ lost = {} \/ \A k \in DOMAIN file : file[k] = "code"

\* Before BootLoaderRunApplication has halved page_addr.
PageAddrIsPacket == bootPc \in {"wait", "halve"}

\* Packet after packet the two sides are in step again as soon as one has not been
\* lost: the loader takes a command for a command, and a packet of data for that,
\* with the page number of its own command.
CommandIsNext ==
  \A n \in 0..packets : sent = 2 * n /\ n - 1 \notin lost => bootState # "write"

DataIsNext ==
  \A n \in 0..packets :
    n < packets /\ sent = 2 * n + 1 /\ lost \cap {n - 1, n} = {} /\ PageAddrIsPacket
      => bootState = "write" /\ pageAddr = n

\* The first half of page p waits for the second, or for the end of the download.
HalfCollected(p) ==
  sent \in {4 * p + 2, 4 * p + 3} /\ 2 * p < packets
  /\ lost \cap {2 * p - 1, 2 * p, 2 * p + 1} = {}
    => /\ PageAddrIsPacket => collect128 /\ pageAddr \div 2 = p /\ pageblock[0] = 2 * p
       /\ bootPc = "program" => pageAddr = p /\ pageblock[0] = 2 * p
       /\ bootPc \in {"reset", "app"} => flash[p][0] = 2 * p

\* Both halves of page p are there, and what is programmed from now on are pages
\* behind it.
PageComplete(p) ==
  4 * p + 3 < sent /\ lost \cap {2 * p, 2 * p + 1} = {}
    => /\ flash[p][1] = 2 * p + 1
       /\ 2 * p - 1 \notin lost => flash[p][0] = 2 * p
       /\ PageAddrIsPacket /\ (collect128 \/ bootState = "write") => pageAddr > 2 * p + 1
       /\ bootPc = "program" => pageAddr > p

\* A half page is collected after an even packet and not after an odd one.
CollectsEven ==
  \A n \in 0..packets :
    sent = 2 * n /\ bootPc = "wait" /\ lost \cap {n - 2, n - 1} = {}
      => (collect128 <=> n % 2 = 1)

InStep ==
  /\ CommandIsNext /\ DataIsNext /\ CollectsEven
  /\ \A p \in 0..(Byte - 1) : HalfCollected(p) /\ PageComplete(p)
  /\ bootPc \in {"halve", "program"} => collect128

\* A host that is not disturbed is done before the two seconds are.
CalmIsDone ==
  calm /\ packets <= Byte /\ bootPc # "app" =>
    bootPc = "wait" /\ lost = {} /\ ~raced /\ Sending

BootInv == BootTypeOK /\ CalmIsDone /\ (Regular => InStep)

\* Of an even number and the next one, halves and remainders; a page number that
\* fits in its byte stays what it is.
LEMMA Halves ==
  /\ \A n \in Nat : /\ (2 * n) \div 2 = n /\ (2 * n) % 2 = 0
                     /\ (2 * n + 1) \div 2 = n /\ (2 * n + 1) % 2 = 1
                     /\ n % 2 = 0 <=> (n + 1) % 2 = 1
  /\ \A n \in Nat : n % 2 \in {0, 1} /\ n \div 2 \in Nat /\ n = 2 * (n \div 2) + (n % 2)
OBVIOUS

\* The page of a packet: of the two of page p, and of one behind them.
LEMMA PageOf ==
  ASSUME NEW a \in Nat, NEW p \in Nat
  PROVE  /\ a % 2 \in {0, 1}
         /\ a = 2 * p => a \div 2 = p /\ a % 2 = 0
         /\ a = 2 * p + 1 => a \div 2 = p /\ a % 2 = 1 /\ (a - 1) \div 2 = p
         /\ a > 2 * p + 1 => a \div 2 > p
         /\ a > 2 * p + 1 => (a - 1) \div 2 >= p
         /\ a > 2 * p + 1 /\ a % 2 = 1 => (a - 1) \div 2 > p
OBVIOUS

LEMMA FitsInByte ==
  ASSUME NEW n \in Nat
  PROVE  n % Byte \in 0..(Byte - 1) /\ (n < Byte => n % Byte = n)
BY BootAssumption

\* The packets are numbered from 0 up to their number.
LEMMA FileType ==
  ASSUME NEW f \in Files
  PROVE  /\ Cardinality(DOMAIN f) \in Nat
         /\ f \in [0..(Cardinality(DOMAIN f) - 1) -> {"code", "write", "start"}]
BY BootAssumption, FS_CardinalityType

LEMMA BootInitInv == BootInit => BootInv
<1> SUFFICES ASSUME BootInit PROVE BootInv
  OBVIOUS
<1>1. BootTypeOK
  <2>1. packets \in Nat /\ file \in [0..(packets - 1) -> {"code", "write", "start"}]
    BY FileType DEF BootInit
  <2>2. pageblock \in HalfPages /\ flash \in [0..(Byte - 1) -> HalfPages]
    BY DEF BootInit, HalfPages, Other
  <2>3. sent \in 0..(2 * packets + 1) /\ pageAddr \in 0..(Byte - 1)
    BY <2>1, BootAssumption DEF BootInit
  <2>4. file \in Files /\ calm \in BOOLEAN /\ lost = {}
    BY DEF BootInit
  <2>5. bootState = "none" /\ collect128 = FALSE /\ bootPc = "wait" /\ raced = FALSE
    BY DEF BootInit
  <2> QED BY <2>1, <2>2, <2>3, <2>4, <2>5 DEF BootTypeOK
<1>2. InStep
  BY <1>1, Halves
     DEF BootInit, InStep, CommandIsNext, DataIsNext, CollectsEven, HalfCollected,
         PageComplete, PageAddrIsPacket, BootTypeOK
<1>3. CalmIsDone
  BY <1>1 DEF BootInit, CalmIsDone, Sending, BootTypeOK
<1> QED BY <1>1, <1>2, <1>3 DEF BootInv

\* What a packet is: the next command, the start, or the data of packet n.
LEMMA PacketKinds ==
  ASSUME BootTypeOK, Sending
  PROVE  \E n \in 0..packets :
           /\ Number = n
           /\ \/ sent = 2 * n /\ n < packets /\ ~IsData /\ ~IsStart
              \/ sent = 2 * n /\ n = packets /\ ~IsData /\ IsStart
              \/ sent = 2 * n + 1 /\ n < packets /\ IsData /\ ~IsStart
<1> DEFINE n == sent \div 2
<1>1. sent \in Nat /\ packets \in Nat /\ sent <= 2 * packets
  BY DEF BootTypeOK, Sending
<1>2. n \in Nat /\ sent \in {2 * n, 2 * n + 1} /\ n = Number
  BY <1>1, Halves DEF Number
<1>3. IsData <=> sent = 2 * n + 1
  BY <1>1, <1>2, Halves DEF IsData
<1> HIDE DEF n
<1>4. n \in 0..packets /\ (n = packets => sent = 2 * n)
  BY <1>1, <1>2
<1> QED BY <1>1, <1>2, <1>3, <1>4 DEF IsStart

LEMMA DeliverType ==
  ASSUME BootTypeOK, Deliver
  PROVE  BootTypeOK'
<1>1. PICK n \in 0..packets :
        /\ Number = n
        /\ \/ sent = 2 * n /\ n < packets /\ ~IsData /\ ~IsStart
           \/ sent = 2 * n /\ n = packets /\ ~IsData /\ IsStart
           \/ sent = 2 * n + 1 /\ n < packets /\ IsData /\ ~IsStart
  BY PacketKinds DEF Deliver
<1> DEFINE H == /\ bootState' \in {"none", "write", "code"}
                /\ pageAddr' \in 0..(Byte - 1) /\ collect128' \in BOOLEAN
                /\ pageblock' \in HalfPages /\ flash' \in [0..(Byte - 1) -> HalfPages]
                /\ bootPc' \in {"wait", "halve", "program", "reset", "app"}
<1>2. ASSUME bootState = "write" PROVE H
  <2> DEFINE c == IF IsData /\ ~IsStart THEN n ELSE Other
  <2>1. WritePage(c) /\ c \in Int
    BY <1>1, <1>2 DEF Deliver, BootLoader, Other
  <2>2. pageAddr % 2 \in {0, 1}
        /\ (pageAddr % 2 = 1 => (pageAddr - 1) \div 2 \in 0..(Byte - 1))
    BY BootAssumption DEF BootTypeOK
  <2>3. pageblock' = [pageblock EXCEPT ![pageAddr % 2] = c] /\ pageblock' \in HalfPages
    BY <2>1, <2>2 DEF WritePage, HalfPages, BootTypeOK
  <2>4. flash' \in [0..(Byte - 1) -> HalfPages]
    BY <2>1, <2>2, <2>3 DEF WritePage, BootProgramPage, BootTypeOK
  <2> QED BY <2>1, <2>3, <2>4 DEF WritePage, BootTypeOK
<1>3. ASSUME bootState # "write" PROVE H
  <2>1. Command("start", 0) \/ Command("code", 0) \/ Command("write", 0)
        \/ Command("write", n % Byte)
    <3>1. IsData => file[n] \in {"code", "write", "start"}
      BY <1>1 DEF BootTypeOK
    <3> QED BY <1>1, <1>3, <3>1 DEF Deliver, BootLoader
  <2>2. n % Byte \in 0..(Byte - 1) /\ 0 \in 0..(Byte - 1)
    <3>1. n \in Nat
      BY DEF BootTypeOK
    <3>2. n % Byte \in 0..(Byte - 1)
      BY <3>1, FitsInByte
    <3> QED BY <3>2, BootAssumption
  <2>3. CASE RunApplication
    BY <2>3, BootAssumption DEF RunApplication, BootProgramPage, BootTypeOK
  <2> QED BY <2>1, <2>2, <2>3 DEF Command, BootTypeOK
<1>4. H
  BY <1>2, <1>3
<1>5. /\ UNCHANGED <<file, packets, calm, lost>> /\ raced' \in BOOLEAN
      /\ sent' = sent + 1 /\ sent <= 2 * packets
  BY DEF Deliver, senderVars, Sending, BootTypeOK
<1> QED BY <1>4, <1>5 DEF BootTypeOK

\* A packet of a regular download is handled in one of five ways.
LEMMA DeliverKinds ==
  ASSUME BootTypeOK, Regular, InStep, bootPc = "wait", Deliver,
         NEW n \in 0..packets, Number = n
  PROVE
    \/ /\ sent = 2 * n /\ bootState = "write" /\ n - 1 \in lost /\ WritePage(Other)
    \/ /\ sent = 2 * n /\ n < packets /\ bootState # "write" /\ Command("write", n)
    \/ /\ sent = 2 * n /\ n = packets /\ bootState # "write" /\ RunApplication
    \/ /\ sent = 2 * n + 1 /\ n < packets /\ bootState = "write" /\ WritePage(n)
    \/ /\ sent = 2 * n + 1 /\ n < packets /\ lost \cap {n - 1, n} # {}
       /\ Command("code", 0)
<1>0. \/ sent = 2 * n /\ n < packets /\ ~IsData /\ ~IsStart
      \/ sent = 2 * n /\ n = packets /\ ~IsData /\ IsStart
      \/ sent = 2 * n + 1 /\ n < packets /\ IsData /\ ~IsStart
  BY PacketKinds DEF Deliver
<1>1. ASSUME sent = 2 * n, bootState = "write"
      PROVE  n - 1 \in lost /\ WritePage(Other)
  BY <1>0, <1>1 DEF InStep, CommandIsNext, Deliver, BootLoader, BootTypeOK
<1>2. ASSUME sent = 2 * n, n < packets, bootState # "write"
      PROVE  Command("write", n)
  <2>1. n \in Nat /\ n < Byte
    BY <1>2, BootAssumption DEF BootTypeOK, Regular
  <2>2. n % Byte = n
    BY <2>1, FitsInByte
  <2> QED BY <1>0, <1>2, <2>2 DEF Deliver, BootLoader, BootTypeOK
<1>3. ASSUME sent = 2 * n, n = packets, bootState # "write"
      PROVE  RunApplication
  BY <1>0, <1>3 DEF Deliver, BootLoader, Command, BootTypeOK
<1>4. ASSUME sent = 2 * n + 1, bootState = "write"
      PROVE  WritePage(n)
  BY <1>0, <1>4 DEF Deliver, BootLoader, BootTypeOK
<1>5. ASSUME sent = 2 * n + 1, n < packets, bootState # "write"
      PROVE  lost \cap {n - 1, n} # {} /\ Command("code", 0)
  <2>1. lost \cap {n - 1, n} # {}
    BY <1>5 DEF InStep, DataIsNext, PageAddrIsPacket
  <2>2. file[n] = "code"
    BY <1>5, <2>1 DEF Regular, BootTypeOK
  <2> QED BY <1>0, <1>5, <2>1, <2>2 DEF Deliver, BootLoader
<1> QED BY <1>0, <1>1, <1>2, <1>3, <1>4, <1>5

LEMMA DeliverInStep ==
  ASSUME BootTypeOK, Regular, InStep, bootPc = "wait", Deliver
  PROVE  InStep'
<1> DEFINE n == Number
<1>0. n \in 0..packets
  BY PacketKinds DEF Deliver
<1>1. /\ packets' = packets /\ lost' = lost /\ sent' = sent + 1
      /\ packets \in Nat /\ n \in Nat /\ pageAddr \in Nat
      /\ \A k \in lost : k \in Nat
  BY <1>0 DEF Deliver, senderVars, BootTypeOK
<1> HIDE DEF n
<1> USE <1>0, <1>1 DEF InStep
<1>2. CASE sent = 2 * n /\ bootState = "write" /\ n - 1 \in lost /\ WritePage(Other)
  <2>1. /\ bootPc' = "wait" /\ bootState' = "none" /\ pageAddr' = pageAddr
        /\ sent' = 2 * n + 1
    BY <1>2 DEF WritePage
  <2>2. CommandIsNext' /\ DataIsNext' /\ CollectsEven'
    BY <1>2, <2>1 DEF CommandIsNext, DataIsNext, CollectsEven
  <2>3. ASSUME NEW p \in 0..(Byte - 1)
        PROVE  HalfCollected(p)' /\ PageComplete(p)'
    <3>1. HalfCollected(p)'
      BY <1>2, <2>1, <2>3 DEF HalfCollected
    <3>2. ASSUME 4 * p + 3 < sent', lost \cap {2 * p, 2 * p + 1} = {}
          PROVE  /\ flash'[p] = flash[p] /\ pageAddr > 2 * p + 1
                 /\ flash[p][1] = 2 * p + 1
                 /\ 2 * p - 1 \notin lost => flash[p][0] = 2 * p
      <4>1. /\ flash[p][1] = 2 * p + 1 /\ pageAddr > 2 * p + 1
            /\ 2 * p - 1 \notin lost => flash[p][0] = 2 * p
        BY <1>2, <2>1, <2>3, <3>2 DEF PageComplete, PageAddrIsPacket
      <4>2. flash'[p] = flash[p]
        <5>1. pageAddr % 2 = 1 => (pageAddr - 1) \div 2 # p
          BY <2>3, <4>1, PageOf
        <5> QED BY <1>2, <2>3, <5>1 DEF WritePage, BootProgramPage, BootTypeOK
      <4> QED BY <4>1, <4>2
    <3> QED BY <2>1, <3>1, <3>2 DEF PageComplete
  <2> QED BY <2>1, <2>2, <2>3
<1>3. CASE sent = 2 * n /\ n < packets /\ bootState # "write" /\ Command("write", n)
  <2>1. /\ bootPc' = "wait" /\ bootState' = "write" /\ pageAddr' = n
        /\ sent' = 2 * n + 1 /\ UNCHANGED <<collect128, pageblock, flash>>
    BY <1>3 DEF Command
  <2>2. CommandIsNext' /\ DataIsNext' /\ CollectsEven'
    BY <1>3, <2>1 DEF CommandIsNext, DataIsNext, CollectsEven
  <2>3. ASSUME NEW p \in 0..(Byte - 1)
        PROVE  HalfCollected(p)' /\ PageComplete(p)'
    <3>1. HalfCollected(p)'
      <4>1. ASSUME n = 2 * p + 1, lost \cap {2 * p - 1, 2 * p, 2 * p + 1} = {}
            PROVE  collect128 /\ n \div 2 = p /\ pageblock[0] = 2 * p
        <5>1. collect128 /\ pageblock[0] = 2 * p
          BY <1>3, <2>3, <4>1 DEF HalfCollected, PageAddrIsPacket
        <5> QED BY <2>3, <4>1, <5>1, PageOf
      <4> QED BY <1>3, <2>1, <2>3, <4>1 DEF HalfCollected
    <3>2. PageComplete(p)'
      BY <1>3, <2>1, <2>3 DEF PageComplete, PageAddrIsPacket
    <3> QED BY <3>1, <3>2
  <2> QED BY <2>1, <2>2, <2>3
<1>4. CASE sent = 2 * n /\ n = packets /\ bootState # "write" /\ RunApplication
  <2>1. bootPc' = "app" /\ sent' = 2 * n + 1 /\ bootState' = bootState
    BY <1>4 DEF RunApplication
  <2>2. CommandIsNext' /\ DataIsNext' /\ CollectsEven'
    BY <1>4, <2>1 DEF CommandIsNext, DataIsNext, CollectsEven, PageAddrIsPacket
  <2>3. ASSUME NEW p \in 0..(Byte - 1)
        PROVE  HalfCollected(p)' /\ PageComplete(p)'
    <3>1. HalfCollected(p)'
      <4>1. ASSUME n = 2 * p + 1, lost \cap {2 * p - 1, 2 * p, 2 * p + 1} = {}
            PROVE  flash'[p][0] = 2 * p
        <5>1. collect128 /\ pageAddr \div 2 = p /\ pageblock[0] = 2 * p
          BY <1>4, <2>3, <4>1 DEF HalfCollected, PageAddrIsPacket
        <5> QED BY <1>4, <2>3, <5>1 DEF RunApplication, BootProgramPage, BootTypeOK
      <4> QED BY <1>4, <2>1, <2>3, <4>1 DEF HalfCollected, PageAddrIsPacket
    <3>2. ASSUME 4 * p + 3 < sent', lost \cap {2 * p, 2 * p + 1} = {}
          PROVE  flash'[p] = flash[p]
      <4>1. collect128 => pageAddr > 2 * p + 1
        BY <1>4, <2>1, <2>3, <3>2 DEF PageComplete, PageAddrIsPacket
      <4>2. collect128 => pageAddr \div 2 # p
        BY <2>3, <4>1, PageOf
      <4> QED BY <1>4, <2>3, <4>2 DEF RunApplication, BootProgramPage, BootTypeOK
    <3>3. PageComplete(p)'
      BY <1>4, <2>1, <2>3, <3>2 DEF PageComplete, PageAddrIsPacket
    <3> QED BY <3>1, <3>3
  <2> QED BY <2>1, <2>2, <2>3
<1>5. CASE sent = 2 * n + 1 /\ n < packets /\ bootState = "write" /\ WritePage(n)
  <2>1. /\ bootPc' = "wait" /\ bootState' = "none" /\ pageAddr' = pageAddr
        /\ sent' = 2 * n + 2
        /\ pageblock' = [pageblock EXCEPT ![pageAddr % 2] = n]
    BY <1>5 DEF WritePage
  <2>5. collect128' <=> pageAddr % 2 = 0
    BY <1>5, Zenon DEF WritePage
  <2>2. lost \cap {n - 1, n} = {} => pageAddr = n
    BY <1>5 DEF DataIsNext, PageAddrIsPacket
  <2>3. CommandIsNext' /\ DataIsNext' /\ CollectsEven'
    <3>1. CollectsEven'
      <4>1. ASSUME lost \cap {n - 1, n} = {}
            PROVE  collect128' <=> (n + 1) % 2 = 1
        <5>1. collect128' <=> n % 2 = 0
          BY <2>2, <2>5, <4>1
        <5> QED BY <5>1, Halves
      <4> QED BY <1>5, <2>1, <4>1 DEF CollectsEven
    <3> QED BY <2>1, <3>1 DEF CommandIsNext, DataIsNext
  <2>4. ASSUME NEW p \in 0..(Byte - 1)
        PROVE  HalfCollected(p)' /\ PageComplete(p)'
    <3>1. HalfCollected(p)'
      <4>1. ASSUME n = 2 * p, lost \cap {2 * p - 1, 2 * p, 2 * p + 1} = {}
            PROVE  collect128' /\ pageAddr \div 2 = p /\ pageblock'[0] = 2 * p
        <5>1. pageAddr = 2 * p /\ pageAddr % 2 = 0 /\ pageAddr \div 2 = p
          BY <2>2, <2>4, <4>1, PageOf
        <5> QED BY <2>1, <2>5, <4>1, <5>1 DEF BootTypeOK, HalfPages
      <4> QED BY <1>5, <2>1, <2>4, <4>1 DEF HalfCollected
    <3>2. CASE n = 2 * p + 1
      <4>1. ASSUME lost \cap {2 * p, 2 * p + 1} = {}
            PROVE  /\ pageAddr = 2 * p + 1 /\ ~collect128'
                   /\ flash'[p] = pageblock'
                   /\ pageblock'[1] = 2 * p + 1 /\ pageblock'[0] = pageblock[0]
        <5>1. pageAddr = 2 * p + 1 /\ pageAddr % 2 = 1 /\ (pageAddr - 1) \div 2 = p
          BY <2>2, <2>4, <3>2, <4>1, PageOf
        <5>2. pageblock' = [pageblock EXCEPT ![1] = n]
          BY <2>1, <5>1
        <5>4. ~collect128'
          BY <2>5, <5>1
        <5>3. flash' = [flash EXCEPT ![p] = pageblock']
          BY <1>5, <5>1 DEF WritePage, BootProgramPage
        <5> QED BY <2>4, <3>2, <5>1, <5>2, <5>3, <5>4 DEF BootTypeOK, HalfPages
      <4>2. ASSUME lost \cap {2 * p - 1, 2 * p, 2 * p + 1} = {}
            PROVE  pageblock[0] = 2 * p
        BY <1>5, <2>4, <3>2, <4>2 DEF HalfCollected, PageAddrIsPacket
      <4>3. PageComplete(p)'
        BY <2>1, <4>1, <4>2 DEF PageComplete
      <4> QED BY <3>1, <4>3
    <3>3. CASE n # 2 * p + 1
      <4>1. ASSUME 4 * p + 3 < sent', lost \cap {2 * p, 2 * p + 1} = {}
            PROVE  /\ flash'[p] = flash[p] /\ pageAddr > 2 * p + 1
                   /\ flash[p][1] = 2 * p + 1
                   /\ 2 * p - 1 \notin lost => flash[p][0] = 2 * p
        <5>1. 4 * p + 3 < sent
          BY <1>5, <2>1, <2>4, <3>3, <4>1
        <5>2. /\ flash[p][1] = 2 * p + 1 /\ pageAddr > 2 * p + 1
              /\ 2 * p - 1 \notin lost => flash[p][0] = 2 * p
          BY <1>5, <2>4, <4>1, <5>1 DEF PageComplete, PageAddrIsPacket
        <5>3. flash'[p] = flash[p]
          <6>1. pageAddr % 2 = 1 => (pageAddr - 1) \div 2 # p
            BY <2>4, <5>2, PageOf
          <6> QED BY <1>5, <2>4, <6>1 DEF WritePage, BootProgramPage, BootTypeOK
        <5> QED BY <5>2, <5>3
      <4>2. PageComplete(p)'
        BY <2>1, <4>1 DEF PageComplete
      <4> QED BY <3>1, <4>2
    <3> QED BY <3>2, <3>3
  <2> QED BY <2>1, <2>3, <2>4
<1>6. CASE /\ sent = 2 * n + 1 /\ n < packets /\ lost \cap {n - 1, n} # {}
           /\ Command("code", 0)
  <2>1. /\ bootPc' = "wait" /\ bootState' = "code" /\ sent' = 2 * n + 2
        /\ UNCHANGED <<pageAddr, collect128, pageblock, flash>>
    BY <1>6 DEF Command
  <2>2. CommandIsNext' /\ DataIsNext' /\ CollectsEven'
    BY <1>6, <2>1 DEF CommandIsNext, DataIsNext, CollectsEven
  <2>3. ASSUME NEW p \in 0..(Byte - 1)
        PROVE  HalfCollected(p)' /\ PageComplete(p)'
    BY <1>6, <2>1, <2>3 DEF HalfCollected, PageComplete, PageAddrIsPacket
  <2> QED BY <2>1, <2>2, <2>3
<1> QED BY <1>2, <1>3, <1>4, <1>5, <1>6, DeliverKinds DEF n

\* A lost packet is remembered in lost, and spoils what its neighbours were for.
LEMMA LoseInv ==
  ASSUME BootTypeOK, Regular => InStep, Lose
  PROVE  BootTypeOK' /\ (Regular => InStep)'
<1>1. PICK n \in 0..packets :
        Number = n /\ (sent = 2 * n \/ sent = 2 * n + 1)
  BY PacketKinds DEF Lose
<1>2. /\ sent' = sent + 1 /\ sent <= 2 * packets /\ lost' = lost \cup {n}
      /\ UNCHANGED <<packets, file, calm, bootState, pageAddr, pageblock, collect128,
                     flash, bootPc, raced>>
      /\ packets \in Nat /\ n \in Nat /\ sent \in Nat
  BY <1>1 DEF Lose, senderVars, loaderVars, Sending, BootTypeOK
<1>3. BootTypeOK'
  BY <1>1, <1>2 DEF BootTypeOK
<1>4. ASSUME Regular', InStep
      PROVE  InStep'
  <2>1. CommandIsNext' /\ DataIsNext' /\ CollectsEven'
    BY <1>1, <1>2, <1>4 DEF CommandIsNext, DataIsNext, CollectsEven
  <2>2. ASSUME NEW p \in 0..(Byte - 1)
        PROVE  HalfCollected(p)' /\ PageComplete(p)'
    <3>1. HalfCollected(p)'
      BY <1>1, <1>2, <2>2 DEF HalfCollected
    <3>2. ASSUME 4 * p + 3 < sent', lost' \cap {2 * p, 2 * p + 1} = {}
          PROVE  4 * p + 3 < sent /\ lost \cap {2 * p, 2 * p + 1} = {}
      BY <1>1, <1>2, <2>2, <3>2
    <3>3. PageComplete(p)
      BY <1>4, <2>2 DEF InStep
    <3>4. PageComplete(p)'
      BY <1>2, <3>2, <3>3 DEF PageComplete, PageAddrIsPacket
    <3> QED BY <3>1, <3>4
  <2> QED BY <1>2, <1>4, <2>1, <2>2 DEF InStep
<1>5. Regular' => Regular
  BY <1>2 DEF Regular
<1> QED BY <1>3, <1>4, <1>5

\* The main loop programs what waits, as the start command does.
LEMMA MainInv ==
  ASSUME BootTypeOK, Regular => InStep,
         TwoSeconds \/ Halve \/ ProgramRest \/ Jump
  PROVE  BootTypeOK' /\ (Regular => InStep)'
<1>1. /\ UNCHANGED <<packets, file, calm, sent, lost, raced, bootState, pageblock,
                     collect128>>
      /\ packets \in Nat /\ sent \in Nat /\ pageAddr \in Nat
      /\ \A k \in lost : k \in Nat
  BY DEF TwoSeconds, Halve, ProgramRest, Jump, Main, senderVars, loaderVars, BootTypeOK
<1>2. BootTypeOK'
  <2>1. bootPc' \in {"wait", "halve", "program", "reset", "app"}
    BY DEF TwoSeconds, Halve, ProgramRest, Jump, Main
  <2>2. pageAddr' \in 0..(Byte - 1)
    <3>1. pageAddr \div 2 \in 0..(Byte - 1)
      BY BootAssumption DEF BootTypeOK
    <3> QED BY <3>1 DEF TwoSeconds, Halve, ProgramRest, Jump, loaderVars, BootTypeOK
  <2>3. flash' \in [0..(Byte - 1) -> HalfPages]
    BY DEF TwoSeconds, Halve, ProgramRest, Jump, BootProgramPage, loaderVars, BootTypeOK
  <2> QED BY <1>1, <2>1, <2>2, <2>3 DEF BootTypeOK
<1>3. SUFFICES ASSUME Regular, InStep PROVE InStep'
  BY <1>1, <1>2 DEF Regular
<1>4. CASE TwoSeconds
  <2>1. /\ bootPc = "wait" /\ bootPc' = IF collect128 THEN "halve" ELSE "reset"
        /\ UNCHANGED <<pageAddr, flash>>
    BY <1>4 DEF TwoSeconds, Main, loaderVars
  <2>2. \A p \in 0..(Byte - 1) : HalfCollected(p)' /\ PageComplete(p)'
    BY <1>1, <1>3, <2>1 DEF InStep, HalfCollected, PageComplete, PageAddrIsPacket
  <2> QED BY <1>1, <1>3, <2>1, <2>2
         DEF InStep, CommandIsNext, DataIsNext, CollectsEven, PageAddrIsPacket
<1>5. CASE Halve
  <2>1. /\ bootPc = "halve" /\ bootPc' = "program" /\ collect128
        /\ pageAddr' = pageAddr \div 2 /\ UNCHANGED flash
    BY <1>3, <1>5 DEF Halve, Main, InStep
  <2>2. ASSUME NEW p \in 0..(Byte - 1)
        PROVE  HalfCollected(p)' /\ PageComplete(p)'
    <3>1. HalfCollected(p)'
      BY <1>1, <1>3, <2>1, <2>2 DEF InStep, HalfCollected, PageAddrIsPacket
    <3>2. pageAddr > 2 * p + 1 => pageAddr \div 2 > p
      BY <1>1, <2>2, PageOf
    <3>3. PageComplete(p)'
      BY <1>1, <1>3, <2>1, <2>2, <3>2 DEF InStep, PageComplete, PageAddrIsPacket
    <3> QED BY <3>1, <3>3
  <2> QED BY <1>1, <1>3, <2>1, <2>2
         DEF InStep, CommandIsNext, DataIsNext, CollectsEven, PageAddrIsPacket
<1>6. CASE ProgramRest
  <2>1. /\ bootPc = "program" /\ bootPc' = "reset" /\ UNCHANGED pageAddr
        /\ flash' = [flash EXCEPT ![pageAddr] = pageblock]
    BY <1>6 DEF ProgramRest, Main, BootProgramPage
  <2>2. ASSUME NEW p \in 0..(Byte - 1)
        PROVE  HalfCollected(p)' /\ PageComplete(p)'
    <3>1. HalfCollected(p)'
      BY <1>1, <1>3, <2>1, <2>2 DEF InStep, HalfCollected, PageAddrIsPacket, BootTypeOK
    <3>2. PageComplete(p)'
      BY <1>1, <1>3, <2>1, <2>2 DEF InStep, PageComplete, PageAddrIsPacket, BootTypeOK
    <3> QED BY <3>1, <3>2
  <2> QED BY <1>1, <1>3, <2>1, <2>2
         DEF InStep, CommandIsNext, DataIsNext, CollectsEven, PageAddrIsPacket
<1>7. CASE Jump
  <2>1. bootPc = "reset" /\ bootPc' = "app" /\ UNCHANGED <<pageAddr, flash>>
    BY <1>7 DEF Jump, Main, loaderVars
  <2> QED BY <1>1, <1>3, <2>1
         DEF InStep, CommandIsNext, DataIsNext, CollectsEven, HalfCollected, PageComplete,
             PageAddrIsPacket
<1> QED BY <1>4, <1>5, <1>6, <1>7

LEMMA SwitchOnInv ==
  ASSUME BootTypeOK, SwitchOn
  PROVE  BootTypeOK' /\ InStep'
<1>1. BootTypeOK'
  <2>1. sent' \in 0..(2 * packets' + 1) /\ pageAddr' \in 0..(Byte - 1)
    BY BootAssumption DEF SwitchOn, senderVars, BootTypeOK
  <2>2. pageblock' \in HalfPages
    BY DEF SwitchOn, HalfPages, Other
  <2> QED BY <2>1, <2>2 DEF SwitchOn, senderVars, BootTypeOK
<1>2. sent' = 0 /\ bootPc' = "wait" /\ bootState' = "none" /\ collect128' = FALSE
  BY DEF SwitchOn
<1>3. CommandIsNext' /\ DataIsNext'
  BY <1>2 DEF CommandIsNext, DataIsNext
<1>4. CollectsEven'
  BY <1>2, Halves DEF CollectsEven
<1>5. \A p \in 0..(Byte - 1) : HalfCollected(p)' /\ PageComplete(p)'
  BY <1>2 DEF HalfCollected, PageComplete
<1> QED BY <1>1, <1>2, <1>3, <1>4, <1>5 DEF InStep

\* Undisturbed and not started yet, a download is regular, and the next packet is
\* what the loader takes it for.
LEMMA CalmDeliver ==
  ASSUME BootInv, calm, packets <= Byte, Deliver
  PROVE  /\ Regular /\ InStep /\ lost = {} /\ bootPc = "wait"
         /\ \E n \in 0..packets :
              \/ sent = 2 * n /\ n < packets /\ Command("write", n)
              \/ sent = 2 * n /\ n = packets /\ RunApplication
              \/ /\ sent = 2 * n + 1 /\ n < packets /\ bootState = "write"
                 /\ pageAddr = n /\ WritePage(n)
<1>1. lost = {} /\ bootPc = "wait" /\ Regular /\ InStep /\ BootTypeOK
  BY DEF BootInv, CalmIsDone, Deliver, Regular
<1>2. PICK n \in 0..packets : Number = n
  BY <1>1, PacketKinds DEF Deliver
<1>3. sent = 2 * n + 1 /\ n < packets => pageAddr = n
  BY <1>1 DEF InStep, DataIsNext, PageAddrIsPacket
<1> QED BY <1>1, <1>2, <1>3, DeliverKinds

LEMMA CalmInv ==
  ASSUME BootInv, BootTypeOK', BootNext
  PROVE  CalmIsDone'
<1> SUFFICES ASSUME calm', packets' <= Byte, bootPc' # "app"
             PROVE  bootPc' = "wait" /\ lost' = {} /\ ~raced' /\ Sending'
  BY DEF CalmIsDone
<1>1. calm /\ packets' = packets /\ packets \in Nat /\ sent \in Nat
  <2>1. UNCHANGED senderVars
    BY DEF BootNext, Deliver, Lose, TwoSeconds, Halve, ProgramRest, Jump, Main, SwitchOn
  <2>2. calm' = calm
    BY <2>1, Zenon DEF senderVars
  <2> QED BY <2>1, <2>2 DEF senderVars, BootInv, BootTypeOK
<1>2. bootPc # "app" => bootPc = "wait" /\ lost = {} /\ ~raced /\ Sending
  BY <1>1 DEF BootInv, CalmIsDone
<1>3. CASE Deliver
  <2>1. PICK n \in 0..packets :
          \/ sent = 2 * n /\ n < packets /\ Command("write", n)
          \/ sent = 2 * n /\ n = packets /\ RunApplication
          \/ sent = 2 * n + 1 /\ n < packets /\ WritePage(n)
    BY <1>1, <1>3, CalmDeliver
  <2>2. bootPc' = bootPc /\ n < packets
    BY <2>1 DEF Command, RunApplication, WritePage
  <2>3. sent' <= 2 * packets /\ UNCHANGED lost /\ raced' = (raced \/ bootPc # "wait")
    BY <1>1, <1>3, <2>1, <2>2 DEF Deliver
  <2> QED BY <1>1, <1>2, <1>3, <2>2, <2>3 DEF Deliver, Sending
<1>4. CASE Lose
  BY <1>1, <1>4 DEF Lose
<1>5. CASE TwoSeconds \/ Halve \/ ProgramRest \/ Jump
  BY <1>1, <1>2, <1>5 DEF TwoSeconds, Halve, ProgramRest, Jump, Main
<1>6. CASE SwitchOn
  BY <1>1, <1>6 DEF SwitchOn, Sending
<1> QED BY <1>3, <1>4, <1>5, <1>6 DEF BootNext

LEMMA BootStepInv ==
  ASSUME BootInv, [BootNext]_bootVars
  PROVE  BootInv'
<1>1. CASE UNCHANGED bootVars
  BY <1>1 DEF bootVars, senderVars, loaderVars, BootInv, BootTypeOK, CalmIsDone, Sending,
     Regular, InStep, CommandIsNext, DataIsNext, CollectsEven, HalfCollected, PageComplete,
     PageAddrIsPacket
<1>2. CASE BootNext
  <2>1. BootTypeOK' /\ (Regular => InStep)'
    <3>1. CASE Deliver
      <4>1. BootTypeOK'
        BY <3>1, DeliverType DEF BootInv
      <4>2. Regular' => Regular /\ bootPc = "wait"
        BY <3>1 DEF Deliver, senderVars, Regular
      <4> QED BY <3>1, <4>1, <4>2, DeliverInStep DEF BootInv
    <3> QED BY <1>2, <3>1, LoseInv, MainInv, SwitchOnInv DEF BootNext, BootInv
  <2> QED BY <1>2, <2>1, CalmInv DEF BootInv
<1> QED BY <1>1, <1>2

\* When the application starts, the packets of the file sent so far, which may be a
\* part of it if the two seconds ended first, are in the flash, each in its half of
\* its page, but for those that were lost and their neighbours; for files of any
\* length with page numbers that fit in a byte.  Nothing is said once a packet was
\* handled between the end of the two seconds and the jump, nor where a packet was
\* lost and one of the file reads as a command.
THEOREM BootImage == BootSpec => []ImageInFlash
<1>1. BootInv => ImageInFlash
  <2> SUFFICES ASSUME BootInv, bootPc = "app", Regular, NEW k \in DOMAIN file,
                      2 * k + 1 < sent, lost \cap {k - 1, k, k + 1} = {}
               PROVE  flash[k \div 2][k % 2] = k
    BY DEF ImageInFlash, Regular
  <2> DEFINE p == k \div 2
  <2>1. k \in Nat /\ k < packets /\ packets \in Nat /\ packets <= Byte /\ sent \in Nat
        /\ Byte \in Nat
    BY BootAssumption DEF BootInv, BootTypeOK, Regular
  <2>2. k % 2 \in {0, 1} /\ p \in Nat /\ k = 2 * p + (k % 2)
    BY <2>1, Halves
  <2> HIDE DEF p
  <2>3. p \in 0..(Byte - 1) /\ HalfCollected(p) /\ PageComplete(p)
    BY <2>1, <2>2 DEF BootInv, InStep
  <2>4. CASE k % 2 = 1
    BY <2>1, <2>2, <2>3, <2>4 DEF PageComplete, p
  <2>5. CASE k % 2 = 0 /\ 4 * p + 3 < sent
    BY <2>1, <2>2, <2>3, <2>5 DEF PageComplete, p
  <2>6. CASE k % 2 = 0 /\ ~(4 * p + 3 < sent)
    <3>1. k = 2 * p /\ sent \in {4 * p + 2, 4 * p + 3}
      BY <2>1, <2>2, <2>6
    <3>2. flash[p][0] = 2 * p
      BY <2>1, <2>3, <3>1 DEF HalfCollected
    <3> QED BY <2>6, <3>1, <3>2 DEF p
  <2> QED BY <2>2, <2>4, <2>5, <2>6
<1> QED BY <1>1, BootInitInv, BootStepInv, PTL DEF BootSpec

\* Undisturbed, the loader starts the application only with the whole file in the
\* flash, and what it programs then is the last page of an odd number of packets.
LEMMA StartRight ==
  ASSUME BootInv, calm, packets <= Byte, Deliver, sent = 2 * packets, RunApplication
  PROVE  Image!Start
<1>1. /\ lost = {} /\ bootPc = "wait" /\ Regular /\ InStep /\ BootTypeOK /\ Regular'
      /\ lost' = {} /\ sent' = sent + 1 /\ packets' = packets /\ bootPc' = "app"
      /\ packets \in Nat /\ Byte \in Nat /\ pageAddr \in Nat
  BY CalmDeliver, BootAssumption
     DEF BootInv, BootTypeOK, Deliver, senderVars, RunApplication, Regular
<1>2. InStep' /\ BootTypeOK'
  BY <1>1, DeliverInStep, DeliverType
<1>3. ASSUME NEW p \in 0..(Byte - 1)
      PROVE  Image!PageRight(flash'[p], p)
  <2>1. HalfCollected(p)' /\ PageComplete(p)'
    BY <1>2, <1>3 DEF InStep
  <2>2. (2 * p) % 2 = 0 /\ (2 * p + 1) % 2 = 1
    BY <1>3, Halves
  <2>3. 2 * p < packets => flash'[p][0] = 2 * p
    <3>1. CASE 2 * p + 1 < packets
      BY <1>1, <1>3, <2>1, <3>1 DEF PageComplete
    <3>2. CASE 2 * p + 1 = packets
      BY <1>1, <1>3, <2>1, <3>2 DEF HalfCollected
    <3> QED BY <1>1, <1>3, <3>1, <3>2
  <2>4. 2 * p + 1 < packets => flash'[p][1] = 2 * p + 1
    BY <1>1, <1>3, <2>1 DEF PageComplete
  <2> QED BY <2>2, <2>3, <2>4 DEF Image!PageRight, Image!Holds
<1>4. ASSUME NEW p \in 0..(Byte - 1), flash'[p] # flash[p]
      PROVE  2 * p + 1 = packets
  <2>1. collect128 /\ p = pageAddr \div 2
    BY <1>4 DEF RunApplication, BootProgramPage, BootInv, BootTypeOK
  <2>2. ~(2 * p + 1 < packets)
    <3> SUFFICES ASSUME 2 * p + 1 < packets PROVE FALSE
      OBVIOUS
    <3>1. pageAddr > 2 * p + 1
      BY <1>1, <1>4, <2>1 DEF InStep, PageComplete, PageAddrIsPacket
    <3> QED BY <1>1, <1>4, <2>1, <3>1, PageOf
  <2>3. packets % 2 = 1
    BY <1>1, <2>1 DEF InStep, CollectsEven
  <2>4. packets = 2 * (packets \div 2) + 1 /\ packets \div 2 \in Nat
    BY <1>1, <2>3, Halves
  <2> DEFINE q == packets \div 2
  <2>5. q \in 0..(Byte - 1) /\ packets = 2 * q + 1
    BY <1>1, <2>4
  <2>6. pageAddr \div 2 = q
    BY <1>1, <2>5 DEF InStep, HalfCollected, PageAddrIsPacket
  <2> QED BY <2>1, <2>5, <2>6
<1> QED BY <1>1, <1>3, <1>4 DEF Image!Start

LEMMA CalmStep ==
  ASSUME BootInv, BootNext, calm, packets <= Byte
  PROVE  Image!Next \/ UNCHANGED <<packets, flash, bootPc = "app">>
<1>1. packets' = packets
  <2>1. UNCHANGED senderVars
    BY DEF BootNext, Deliver, Lose, TwoSeconds, Halve, ProgramRest, Jump, Main, SwitchOn
  <2> QED BY <2>1 DEF senderVars
<1>2. CASE Deliver
  <2>1. Regular /\ InStep /\ lost = {} /\ bootPc = "wait"
    BY <1>2, CalmDeliver
  <2>2. PICK n \in 0..packets :
          \/ sent = 2 * n /\ n < packets /\ Command("write", n)
          \/ sent = 2 * n /\ n = packets /\ RunApplication
          \/ /\ sent = 2 * n + 1 /\ n < packets /\ bootState = "write"
             /\ pageAddr = n /\ WritePage(n)
    BY <1>2, CalmDeliver
  <2>3. CASE Command("write", n)
    BY <1>1, <2>3 DEF Command
  <2>4. CASE sent = 2 * n /\ n = packets /\ RunApplication
    BY <1>2, <2>4, StartRight DEF Image!Next
  <2>5. CASE sent = 2 * n + 1 /\ n < packets /\ pageAddr = n /\ WritePage(n)
    <3>1. bootPc' = bootPc /\ n \in Nat /\ packets \in Nat /\ Byte \in Nat
          /\ n % 2 \in {0, 1} /\ n = 2 * (n \div 2) + (n % 2) /\ n \div 2 \in Nat
      BY <2>5, Halves, BootAssumption DEF WritePage, BootInv, BootTypeOK
    <3>2. CASE n % 2 = 0
      BY <1>1, <2>5, <3>1, <3>2 DEF WritePage
    <3>3. CASE n % 2 = 1
      <4> DEFINE p == n \div 2
      <4>1. p \in 0..(Byte - 1) /\ n = 2 * p + 1 /\ (n - 1) \div 2 = p
        BY <2>1, <3>1, <3>3, PageOf DEF Regular
      <4> HIDE DEF p
      <4>2. pageblock' = [pageblock EXCEPT ![1] = n] /\ flash' = [flash EXCEPT ![p] = pageblock']
        BY <2>5, <3>3, <4>1 DEF WritePage, BootProgramPage
      <4>3. pageblock[0] = 2 * p
        BY <2>1, <2>5, <3>1, <4>1 DEF InStep, HalfCollected, PageAddrIsPacket
      <4>4. flash'[p] = pageblock' /\ pageblock'[0] = 2 * p /\ pageblock'[1] = 2 * p + 1
        BY <4>1, <4>2, <4>3 DEF BootInv, BootTypeOK, HalfPages
      <4>5. Image!PageRight(flash'[p], p)
        BY <4>1, <4>4, Halves DEF Image!PageRight, Image!Holds
      <4>6. Image!Program(p)
        BY <1>1, <2>1, <3>1, <4>2, <4>4, <4>5 DEF Image!Program
      <4> QED BY <4>1, <4>6 DEF Image!Next
    <3> QED BY <3>1, <3>2, <3>3
  <2> QED BY <2>2, <2>3, <2>4, <2>5
<1>3. CASE Lose
  BY <1>1, <1>3 DEF Lose, loaderVars
<1>4. CASE TwoSeconds \/ Halve \/ ProgramRest \/ Jump
  BY <1>4 DEF BootInv, CalmIsDone, TwoSeconds, Halve, ProgramRest, Jump, Main
<1>5. CASE SwitchOn
  BY <1>1, <1>5 DEF SwitchOn, Image!Next, Image!PowerCycle
<1> QED BY <1>2, <1>3, <1>4, <1>5 DEF BootNext

\* To a host that is not disturbed the boot loader is FlashImage, step by step: a
\* page is programmed with its own two packets, and the application is started
\* when the whole file is there; for files of any length with page numbers that fit
\* in a byte.
THEOREM BootReplaces == BootSpec => ImageReplaced
<1>1. ASSUME BootInv, [BootNext]_bootVars
      PROVE  [calm /\ packets <= Byte =>
                Image!Next \/ UNCHANGED <<packets, flash, bootPc = "app">>]_bootVars
  BY <1>1, CalmStep
<1> QED BY <1>1, BootInitInv, BootStepInv, PTL DEF BootSpec, ImageReplaced

-----------------------------------------------------------------------------
(* The AT89 programmer                                                      *)

FlashTypeOK ==
  /\ tool \in {"none", "erase", "upload", "reset"}
  /\ image.size \in Nat
  /\ at \in Nat
  /\ DOMAIN memory = 0..(Cells - 1)
  /\ fresh \in BOOLEAN
  /\ tool = "upload" => at <= image.size
  /\ \A k \in unsent : k \in Nat /\ k < at

\* Up to where the upload has come, the memory is the file, but for what was lost;
\* behind, it is erased.
SentIsThere ==
  fresh /\ image.size <= Cells =>
    \A a \in DOMAIN memory :
      memory[a] = IF a < at /\ a < image.size /\ a \notin unsent THEN ByteOf(a) ELSE Erased

\* An upload that is over has sent all of the file.
AllSent == tool # "upload" /\ fresh => at > image.size

FlashInv == FlashTypeOK /\ SentIsThere /\ AllSent

\* A packet of a file that fits in the memory writes each of its bytes once, to the
\* address of its position, and the byte behind the end of the file changes nothing
\* even where its address wraps around.
LEMMA PacketLands ==
  ASSUME FlashTypeOK, tool = "upload", image.size <= Cells,
         NEW len \in Nat, len <= Room, at + len - 1 <= image.size,
         At89FlashWrite(at, len)
  PROVE  /\ DOMAIN memory' = DOMAIN memory
         /\ \A a \in DOMAIN memory :
              memory'[a] = IF at <= a /\ a < at + len /\ a < image.size
                           THEN Programmed(memory[a], a) ELSE memory[a]
<1>1. DOMAIN memory' = DOMAIN memory
  BY DEF At89FlashWrite
<1>2. ASSUME NEW a \in DOMAIN memory
      PROVE  memory'[a] = IF at <= a /\ a < at + len /\ a < image.size
                          THEN Programmed(memory[a], a) ELSE memory[a]
  <2> DEFINE here == {k \in at..(at + len - 1) : k % Cells = a}
  <2>1. memory'[a] = IF here = {} THEN memory[a]
                     ELSE Programmed(memory[a], CHOOSE k \in here : TRUE)
    BY <1>2 DEF At89FlashWrite
  <2>2. /\ a \in Nat /\ a < Cells /\ Cells \in Nat /\ at \in Nat /\ image.size \in Nat
        /\ Room \in Nat /\ Room <= Cells /\ Room > 0
    BY FlashAssumption DEF FlashTypeOK
  <2>3. \A k \in Nat : (k < Cells => k % Cells = k) /\ Cells % Cells = 0
    BY <2>2
  <2>4. ASSUME NEW k \in here
        PROVE  k = a \/ (k = Cells /\ k = image.size /\ a = 0)
    <3>1. k \in Nat /\ k <= image.size /\ k <= Cells /\ k % Cells = a
      BY <2>2
    <3>2. CASE k < Cells
      BY <2>3, <3>1, <3>2
    <3>3. CASE k = Cells
      BY <2>2, <2>3, <3>1, <3>3
    <3> QED BY <2>2, <3>1, <3>2, <3>3
  <2>5. CASE at <= a /\ a < at + len
    <3>1. a \in here
      BY <2>2, <2>3, <2>5
    <3>2. \A k \in here : k = a
      <4> SUFFICES ASSUME NEW k \in here, k # a PROVE FALSE
        OBVIOUS
      <4>1. k = Cells /\ a = 0
        BY <2>4
      <4> QED BY <2>2, <2>5, <4>1
    <3>3. (CHOOSE k \in here : TRUE) = a
      BY <3>1, <3>2
    <3>4. ~(a < image.size) => a = image.size
      BY <2>2, <2>5
    <3> QED BY <2>1, <2>5, <3>1, <3>3, <3>4 DEF Programmed
  <2>6. CASE ~(at <= a /\ a < at + len)
    <3>1. a \notin here
      BY <2>2, <2>6
    <3>2. \A k \in here : k = image.size
      BY <2>4, <3>1
    <3>3. here # {} => (CHOOSE k \in here : TRUE) = image.size
      BY <3>2
    <3> QED BY <2>1, <2>6, <3>3 DEF Programmed
  <2> QED BY <2>5, <2>6
<1> QED BY <1>1, <1>2

LEMMA UploadInv ==
  ASSUME FlashInv, NEW taken \in BOOLEAN, Upload(taken)
  PROVE  FlashInv'
<1> DEFINE left == image.size + 1 - at
           len  == IF left < Room THEN left ELSE Room
<1>1. /\ tool = "upload" /\ UNCHANGED <<image, fresh>> /\ at' = at + len
      /\ tool' = (IF at' > image.size THEN "none" ELSE "upload")
      /\ unsent' = IF taken THEN unsent ELSE unsent \cup (at..(at + len - 1))
      /\ IF taken THEN At89FlashWrite(at, len) ELSE UNCHANGED memory
  BY DEF Upload
<1>2. /\ image.size \in Nat /\ at \in Nat /\ Room \in Nat /\ at <= image.size
      /\ len \in Nat /\ len <= Room /\ at + len - 1 <= image.size
  BY <1>1, FlashAssumption DEF FlashInv, FlashTypeOK
<1> HIDE DEF len
<1>3. DOMAIN memory' = DOMAIN memory
  BY <1>1 DEF At89FlashWrite
<1>4. FlashTypeOK' /\ AllSent'
  BY <1>1, <1>2, <1>3 DEF FlashInv, FlashTypeOK, AllSent
<1>5. SentIsThere'
  <2> SUFFICES ASSUME fresh, image.size <= Cells, NEW a \in DOMAIN memory
               PROVE  memory'[a] = IF a < at + len /\ a < image.size /\ a \notin unsent'
                                   THEN ByteOf(a) ELSE Erased
    BY <1>1, <1>3 DEF SentIsThere, ByteOf
  <2>1. memory[a] = IF a < at /\ a < image.size /\ a \notin unsent THEN ByteOf(a) ELSE Erased
    BY DEF FlashInv, SentIsThere
  <2>2. a \in Nat
    BY DEF FlashInv, FlashTypeOK
  <2>3. CASE taken
    <3>1. memory'[a] = IF at <= a /\ a < at + len /\ a < image.size
                       THEN Programmed(memory[a], a) ELSE memory[a]
      BY <1>1, <1>2, <2>3, PacketLands DEF FlashInv
    <3>2. Programmed(Erased, a) = IF a = image.size THEN Erased ELSE ByteOf(a)
      BY DEF Programmed
    <3>3. CASE at <= a /\ a < at + len /\ a < image.size
      <4>1. memory[a] = Erased
        BY <1>2, <2>1, <2>2, <3>3
      <4>2. memory'[a] = ByteOf(a)
        BY <2>2, <3>1, <3>2, <3>3, <4>1
      <4>3. a \notin unsent'
        BY <1>1, <2>2, <2>3, <3>3 DEF FlashInv, FlashTypeOK
      <4> QED BY <3>3, <4>2, <4>3
    <3>4. CASE ~(at <= a /\ a < at + len /\ a < image.size)
      BY <1>1, <1>2, <2>1, <2>2, <2>3, <3>1, <3>4
    <3> QED BY <3>3, <3>4
  <2>4. CASE ~taken
    BY <1>1, <1>2, <2>1, <2>2, <2>4
  <2> QED BY <2>3, <2>4
<1> QED BY <1>4, <1>5 DEF FlashInv

LEMMA FlashStepInv ==
  ASSUME FlashInv, [FlashNext]_flashVars
  PROVE  FlashInv'
<1>1. CASE UNCHANGED flashVars
  BY <1>1 DEF flashVars, FlashInv, FlashTypeOK, SentIsThere, AllSent, ByteOf
<1>2. CASE RunErase \/ RunReset \/ Reset
  <2>1. /\ tool # "upload" /\ tool' \in {"none", "erase", "reset"}
        /\ UNCHANGED <<image, at, memory, unsent, fresh>>
    BY <1>2 DEF RunErase, RunReset, Reset, Run
  <2> QED BY <2>1 DEF FlashInv, FlashTypeOK, SentIsThere, AllSent, ByteOf
<1>3. ASSUME NEW size \in FileSizes, RunUpload(size)
      PROVE  FlashInv'
  <2>1. /\ tool' = "upload" /\ image'.size = size /\ size \in Nat /\ at' = 0 /\ unsent' = {}
        /\ fresh' \in BOOLEAN /\ UNCHANGED memory
        /\ fresh' => \A a \in DOMAIN memory : memory[a] = Erased
    BY <1>3, FlashAssumption DEF RunUpload, Run
  <2>2. FlashTypeOK' /\ AllSent'
    BY <2>1 DEF FlashInv, FlashTypeOK, AllSent
  <2>3. SentIsThere'
    <3>1. DOMAIN memory = 0..(Cells - 1) /\ Cells \in Nat
      BY FlashAssumption DEF FlashInv, FlashTypeOK
    <3>2. \A a \in DOMAIN memory : ~(a < 0)
      BY <3>1
    <3> QED BY <2>1, <3>2 DEF SentIsThere
  <2> QED BY <2>2, <2>3 DEF FlashInv
<1>4. ASSUME NEW taken \in BOOLEAN, Erase(taken)
      PROVE  FlashInv'
  BY <1>4 DEF Erase, At89FlashErase, FlashInv, FlashTypeOK, SentIsThere, AllSent, ByteOf
<1> QED BY <1>1, <1>2, <1>3, <1>4, UploadInv DEF FlashNext

\* After an upload to erased memory the memory is the file and nothing else, but for
\* the packets that were lost; for packets, files and memories of any size, as long
\* as the file fits.
THEOREM UploadIsFile == FlashSpec => []MemoryIsFile
<1>1. FlashInit => FlashInv
  <2> SUFFICES ASSUME FlashInit PROVE FlashInv
    OBVIOUS
  <2>1. /\ tool = "none" /\ image.size = 0 /\ at = 0 /\ ~fresh /\ fresh \in BOOLEAN
        /\ unsent = {} /\ DOMAIN memory = 0..(Cells - 1)
    BY DEF FlashInit
  <2> QED BY <2>1 DEF FlashInv, FlashTypeOK, SentIsThere, AllSent
<1>2. FlashInv => MemoryIsFile
  <2> SUFFICES ASSUME FlashInv, tool = "none", fresh, image.size <= Cells,
                      NEW a \in DOMAIN memory
               PROVE  memory[a] = IF a < image.size /\ a \notin unsent
                                  THEN ByteOf(a) ELSE Erased
    BY DEF MemoryIsFile
  <2>1. at > image.size /\ at \in Nat /\ image.size \in Nat /\ a \in Nat
    BY DEF FlashInv, FlashTypeOK, AllSent
  <2>2. memory[a] = IF a < at /\ a < image.size /\ a \notin unsent THEN ByteOf(a) ELSE Erased
    BY DEF FlashInv, SentIsThere
  <2> QED BY <2>1, <2>2
<1> QED BY <1>1, <1>2, FlashStepInv, PTL DEF FlashSpec

-----------------------------------------------------------------------------
(* Register access over the parallel bus                                    *)

LEMMA Appended ==
  ASSUME NEW S, NEW a \in Seq(S), NEW b \in Seq(S)
  PROVE  /\ Len(a \o b) = Len(a) + Len(b)
         /\ \A i \in 1..Len(a) : (a \o b)[i] = a[i]
         /\ \A i \in 1..Len(b) : (a \o b)[Len(a) + i] = b[i]
  BY SMT

LEMMA TailDiffers ==
  ASSUME NEW S, NEW s \in Seq(S), s # <<>>
  PROVE  Tail(s) # s
<1>1. Len(s) \in Nat
  OBVIOUS
<1>2. Len(Tail(s)) = Len(s) - 1
  OBVIOUS
<1>3. ASSUME NEW m \in Nat, m = m - 1 PROVE FALSE
  BY <1>3
<1>4. SUFFICES ASSUME Tail(s) = s PROVE FALSE
  OBVIOUS
<1>5. Len(s) = Len(s) - 1
  BY <1>2, <1>4
<1> QED
  BY <1>1, <1>3, <1>5

\* The port operations of each kind of access, one by one.
LEMMA OpsOfReads ==
  ASSUME NEW adr
  PROVE  /\ Len(USBNBurstReadSetAddr(adr)) = 5
         /\ USBNBurstReadSetAddr(adr)[1] = Dir("out")
         /\ USBNBurstReadSetAddr(adr)[2] = Out(adr)
         /\ USBNBurstReadSetAddr(adr)[3] = Toggle(AddressStrobe)
         /\ USBNBurstReadSetAddr(adr)[4] = Toggle(AddressStrobe)
         /\ USBNBurstReadSetAddr(adr)[5] = Dir("in")
         /\ Len(USBNBurstRead) = 3
         /\ USBNBurstRead[1] = Toggle(ReadStrobe)
         /\ USBNBurstRead[2] = Sample
         /\ USBNBurstRead[3] = Toggle(ReadStrobe)
         /\ Len(USBNRead(adr)) = 8
         /\ \A i \in 1..5 : USBNRead(adr)[i] = USBNBurstReadSetAddr(adr)[i]
         /\ \A i \in 1..3 : USBNRead(adr)[5 + i] = USBNBurstRead[i]
<1> DEFINE A == USBNBurstReadSetAddr(adr)
           B == USBNBurstRead
           S == {Dir("out"), Out(adr), Toggle(AddressStrobe), Dir("in"), Toggle(ReadStrobe), Sample}
<1>1. /\ Len(A) = 5 /\ A[1] = Dir("out") /\ A[2] = Out(adr) /\ A[3] = Toggle(AddressStrobe)
      /\ A[4] = Toggle(AddressStrobe) /\ A[5] = Dir("in")
  BY DEF USBNBurstReadSetAddr
<1>2. Len(B) = 3 /\ B[1] = Toggle(ReadStrobe) /\ B[2] = Sample /\ B[3] = Toggle(ReadStrobe)
  BY DEF USBNBurstRead
<1>3. A \in Seq(S) /\ B \in Seq(S)
  BY DEF USBNBurstReadSetAddr, USBNBurstRead
<1>4. /\ Len(A \o B) = 8
      /\ \A i \in 1..5 : (A \o B)[i] = A[i]
      /\ \A i \in 1..3 : (A \o B)[5 + i] = B[i]
  <2> HIDE DEF A, B, S
  <2>1. /\ Len(A \o B) = Len(A) + Len(B)
        /\ \A i \in 1..Len(A) : (A \o B)[i] = A[i]
        /\ \A i \in 1..Len(B) : (A \o B)[Len(A) + i] = B[i]
    BY <1>3, Appended
  <2> QED
    BY <2>1, <1>1, <1>2
<1> QED
  BY <1>1, <1>2, <1>4 DEF USBNRead

LEMMA OpsOfWrites ==
  ASSUME NEW adr, NEW data
  PROVE  /\ Len(USBNBurstWrite(data)) = 3
         /\ USBNBurstWrite(data)[1] = Out(data)
         /\ USBNBurstWrite(data)[2] = Toggle(WriteStrobe)
         /\ USBNBurstWrite(data)[3] = Toggle(WriteStrobe)
         /\ Len(USBNWrite(adr, data)) = 7
         /\ USBNWrite(adr, data)[1] = Out(adr)
         /\ USBNWrite(adr, data)[2] = Dir("out")
         /\ USBNWrite(adr, data)[3] = Toggle(AddressStrobe)
         /\ USBNWrite(adr, data)[4] = Toggle(AddressStrobe)
         /\ \A i \in 1..3 : USBNWrite(adr, data)[4 + i] = USBNBurstWrite(data)[i]
<1> DEFINE A == <<Out(adr), Dir("out"), Toggle(AddressStrobe), Toggle(AddressStrobe)>>
           B == USBNBurstWrite(data)
           S == {Dir("out"), Out(adr), Out(data), Toggle(AddressStrobe), Toggle(WriteStrobe)}
<1>1. /\ Len(A) = 4 /\ A[1] = Out(adr) /\ A[2] = Dir("out")
      /\ A[3] = Toggle(AddressStrobe) /\ A[4] = Toggle(AddressStrobe)
  OBVIOUS
<1>2. /\ Len(B) = 3 /\ B[1] = Out(data)
      /\ B[2] = Toggle(WriteStrobe) /\ B[3] = Toggle(WriteStrobe)
  BY DEF USBNBurstWrite
<1>3. A \in Seq(S) /\ B \in Seq(S)
  BY DEF USBNBurstWrite
<1>4. /\ Len(A \o B) = 7
      /\ \A i \in 1..4 : (A \o B)[i] = A[i]
      /\ \A i \in 1..3 : (A \o B)[4 + i] = B[i]
  <2> HIDE DEF A, B, S
  <2>1. /\ Len(A \o B) = Len(A) + Len(B)
        /\ \A i \in 1..Len(A) : (A \o B)[i] = A[i]
        /\ \A i \in 1..Len(B) : (A \o B)[Len(A) + i] = B[i]
    BY <1>3, Appended
  <2> QED
    BY <2>1, <1>1, <1>2
<1> QED
  BY <1>1, <1>2, <1>4 DEF USBNWrite

\* How many port operations an access of this kind has.
OpCount(k) ==
  CASE k \in {"read", "await"} -> 8
    [] k = "select" -> 5
    [] k \in {"write", "restore"} -> 7
    [] k \in {"burstread", "burstwrite"} -> 3

LEMMA OpsOfAccess ==
  ASSUME NEW a \in Access, NEW v, NEW n \in 1..OpCount(a.kind)
  PROVE  LET o == Operations(a, v)[n]
             k == a.kind
         IN /\ Len(Operations(a, v)) = OpCount(k)
            /\ k \in {"read", "await", "select"} =>
                 /\ n = 1 => o = Dir("out")
                 /\ n = 2 => o = Out(a.reg)
                 /\ n \in {3, 4} => o = Toggle(AddressStrobe)
                 /\ n = 5 => o = Dir("in")
                 /\ n \in {6, 8} => o = Toggle(ReadStrobe)
                 /\ n = 7 => o = Sample
            /\ k \in {"write", "restore"} =>
                 /\ n = 1 => o = Out(a.reg)
                 /\ n = 2 => o = Dir("out")
                 /\ n \in {3, 4} => o = Toggle(AddressStrobe)
                 /\ n = 5 => o = Out(IF k = "write" THEN a.data ELSE v)
                 /\ n \in {6, 7} => o = Toggle(WriteStrobe)
            /\ k = "burstread" =>
                 /\ n \in {1, 3} => o = Toggle(ReadStrobe)
                 /\ n = 2 => o = Sample
            /\ k = "burstwrite" =>
                 /\ n = 1 => o = Out(a.data)
                 /\ n \in {2, 3} => o = Toggle(WriteStrobe)
<1> DEFINE o == Operations(a, v)[n]
<1>0. a.kind \in {"select", "read", "burstread", "write", "restore", "burstwrite", "await"}
  BY DEF Access, Kinds, Reads, Writes
<1>1. CASE a.kind \in {"read", "await"}
  <2>1. Operations(a, v) = USBNRead(a.reg) /\ OpCount(a.kind) = 8 /\ n \in 1..8
    BY <1>1 DEF Operations, OpCount
  <2>2. n \in {6, 7, 8} => o = USBNBurstRead[n - 5]
    <3> SUFFICES ASSUME n \in {6, 7, 8} PROVE o = USBNBurstRead[n - 5]
      OBVIOUS
    <3>1. n - 5 \in 1..3 /\ 5 + (n - 5) = n
      OBVIOUS
    <3> QED
      BY <2>1, <3>1, OpsOfReads
  <2>3. n \in 1..5 => o = USBNBurstReadSetAddr(a.reg)[n]
    BY <2>1, OpsOfReads
  <2> HIDE DEF o
  <2>4. Len(Operations(a, v)) = 8
    BY <2>1, OpsOfReads
  <2>5. USBNBurstRead[6 - 5] = Toggle(ReadStrobe) /\ USBNBurstRead[7 - 5] = Sample /\ USBNBurstRead[8 - 5] = Toggle(ReadStrobe)
    BY OpsOfReads
  <2> QED
    BY <1>1, <2>1, <2>2, <2>3, <2>4, <2>5, OpsOfReads DEF o
<1>2. CASE a.kind = "select"
  BY <1>2, OpsOfReads DEF Operations, OpCount
<1>3. CASE a.kind \in {"write", "restore"}
  <2> DEFINE d == IF a.kind = "write" THEN a.data ELSE v
  <2>1. Operations(a, v) = USBNWrite(a.reg, d) /\ OpCount(a.kind) = 7 /\ n \in 1..7
    BY <1>3 DEF Operations, OpCount
  <2> HIDE DEF d
  <2>2. n \in {5, 6, 7} => o = USBNBurstWrite(d)[n - 4]
    <3> SUFFICES ASSUME n \in {5, 6, 7} PROVE o = USBNBurstWrite(d)[n - 4]
      OBVIOUS
    <3>1. n - 4 \in 1..3 /\ 4 + (n - 4) = n
      OBVIOUS
    <3> QED
      BY <2>1, <3>1, OpsOfWrites
  <2>3. Len(Operations(a, v)) = 7
    BY <2>1, OpsOfWrites
  <2>4. /\ USBNBurstWrite(d)[5 - 4] = Out(d) /\ USBNBurstWrite(d)[6 - 4] = Toggle(WriteStrobe)
        /\ USBNBurstWrite(d)[7 - 4] = Toggle(WriteStrobe)
    BY OpsOfWrites
  <2>5. /\ n = 1 => o = Out(a.reg)
        /\ n = 2 => o = Dir("out")
        /\ n \in {3, 4} => o = Toggle(AddressStrobe)
    BY <2>1, OpsOfWrites
  <2> HIDE DEF o
  <2>6. /\ n = 5 => o = Out(d)
        /\ n \in {6, 7} => o = Toggle(WriteStrobe)
    BY <2>2, <2>4
  <2> QED
    BY <1>3, <2>1, <2>3, <2>5, <2>6 DEF o, d
<1>4. CASE a.kind = "burstread"
  BY <1>4, OpsOfReads DEF Operations, OpCount
<1>5. CASE a.kind = "burstwrite"
  BY <1>5, OpsOfWrites DEF Operations, OpCount
<1> QED
  BY <1>0, <1>1, <1>2, <1>3, <1>4, <1>5

\* The lines that an access of kind k holds asserted before its n-th operation.
HeldAt(k, n) ==
  IF k \notin {"burstread", "burstwrite"} /\ n = 4 THEN AddressStrobe
  ELSE IF \/ k \in {"read", "await"} /\ n \in {7, 8}
          \/ k = "burstread" /\ n \in {2, 3}
       THEN ReadStrobe
  ELSE IF \/ k \in {"write", "restore"} /\ n = 7
          \/ k = "burstwrite" /\ n = 3
       THEN WriteStrobe
  ELSE {}

Held(c) == IF plan[c] = <<>> THEN {} ELSE HeldAt(Head(plan[c]).kind, opno[c])

AccessTypeOK ==
  /\ plan \in [Contexts -> Seq(Access)]
  /\ opno \in [Contexts -> Nat]
  /\ DOMAIN val = Contexts /\ DOMAIN regs = Registers
  /\ \A c \in Contexts :
       IF plan[c] = <<>> THEN opno[c] = 1
       ELSE opno[c] \in 1..OpCount(Head(plan[c]).kind)

\* Whoever interrupts whom: the asserted lines are the exclusive-or of what the
\* two contexts hold.
LinesInv == AccessTypeOK /\ ctrl = ExclusiveOr(Held("main"), Held("isr"))

\* What is left of a program is as well formed as the program.
PlansInv ==
  \A c \in Contexts :
    /\ \A i \in 1..(Len(plan[c]) - 1) : GoesOn(plan[c][i], plan[c][i + 1])
    /\ \A i \in 1..Len(plan[c]) : plan[c][i].kind \in Reads => plan[c][i].reg # "MCNTRL"

\* While USBNStart runs nothing interrupts it.
StartInv ==
  plan["main"] # <<>> =>
    /\ plan["isr"] = <<>> /\ regs["MCNTRL"] # "INT"
    /\ \A i \in 1..(Len(plan["main"]) - 1) : ~SetsInt(plan["main"][i])

\* What latch, port and direction are before the n-th operation of access a, which
\* has read v last.
BusAt(a, n, v, lat, out, dir) ==
  /\ a.kind \in {"read", "await", "select"} =>
       /\ n \in 2..5 => dir = "out"
       /\ n \in 3..5 => out = a.reg
       /\ n >= 5 => lat = a.reg
       /\ n >= 6 => dir = "in"
  /\ a.kind \in {"write", "restore"} =>
       /\ n \in 2..5 => out = a.reg
       /\ n >= 3 => dir = "out"
       /\ n >= 5 => lat = a.reg
       /\ n >= 6 => out = IF a.kind = "write" THEN a.data ELSE v
  /\ a.kind = "burstread" => lat = a.reg /\ dir = "in"
  /\ a.kind = "burstwrite" => lat = a.reg /\ dir = "out" /\ (n >= 2 => out = a.data)

\* Between sample and end of a read the value is the register's.
ReadAt(a, n, v, rs) ==
  (a.kind = "read" /\ n = 8) \/ (a.kind = "burstread" /\ n = 3) => v = rs[a.reg]

BusInv ==
  \A c \in Contexts :
    plan[c] # <<>> =>
      /\ BusAt(Head(plan[c]), opno[c], val[c], latch, port, ddr)
      /\ ReadAt(Head(plan[c]), opno[c], val[c], regs)

AccessInv == LinesInv /\ PlansInv /\ (~sending => StartInv /\ BusInv)

LEMMA ExclusiveOrFacts ==
  /\ \A a : ExclusiveOr({}, a) = a /\ ExclusiveOr(a, {}) = a /\ ExclusiveOr(a, a) = {}
  /\ \A a, b, s : ExclusiveOr(ExclusiveOr(a, b), s) = ExclusiveOr(ExclusiveOr(a, s), b)
  /\ \A a, b, s : ExclusiveOr(ExclusiveOr(a, b), s) = ExclusiveOr(a, ExclusiveOr(b, s))
  BY DEF ExclusiveOr

\* A toggle changes what the access holds, nothing else does, and it holds nothing
\* before and after.
LEMMA HeldNext ==
  ASSUME NEW a \in Access, NEW v, NEW n \in 1..OpCount(a.kind)
  PROVE  LET o == Operations(a, v)[n]
             k == a.kind
         IN /\ o.op = "toggle" => HeldAt(k, n + 1) = ExclusiveOr(HeldAt(k, n), o.arg)
            /\ o.op # "toggle" => HeldAt(k, n + 1) = HeldAt(k, n)
            /\ HeldAt(k, 1) = {} /\ HeldAt(k, OpCount(k) + 1) = {}
<1> DEFINE o == Operations(a, v)[n]
<1>0. a.kind \in {"select", "read", "burstread", "write", "restore", "burstwrite", "await"}
  BY DEF Access, Kinds, Reads, Writes
<1>1. /\ HeldAt(a.kind, 1) = {} /\ HeldAt(a.kind, OpCount(a.kind) + 1) = {}
      /\ OpCount(a.kind) \in 3..8 /\ n \in Nat
  BY <1>0 DEF HeldAt, OpCount
<1>2. ASSUME NEW s, o = Toggle(s) PROVE o.op = "toggle" /\ o.arg = s
  BY <1>2 DEF Toggle
<1>3. ASSUME NEW s, o = Out(s) \/ o = Dir(s) \/ o = Sample PROVE o.op # "toggle"
  BY <1>3 DEF Out, Dir, Sample
<1>4. CASE a.kind \in {"read", "await", "select"}
  <2>0. /\ n = 1 => o = Dir("out")
        /\ n = 2 => o = Out(a.reg)
        /\ n \in {3, 4} => o = Toggle(AddressStrobe)
        /\ n = 5 => o = Dir("in")
        /\ n \in {6, 8} => o = Toggle(ReadStrobe)
        /\ n = 7 => o = Sample
        /\ n \in 1..8 /\ (a.kind = "select" => n \in 1..5)
    BY <1>4, OpsOfAccess DEF OpCount
  <2> HIDE DEF o
  <2>1. CASE n \in {3, 4}
    <3>1. o.op = "toggle" /\ o.arg = AddressStrobe
      BY <2>0, <2>1, <1>2
    <3>2. HeldAt(a.kind, n) \in {{}, AddressStrobe} /\ HeldAt(a.kind, n + 1) \in {{}, AddressStrobe}
      BY <1>4, <2>0, <2>1 DEF HeldAt
    <3>3. HeldAt(a.kind, n) = {} <=> HeldAt(a.kind, n + 1) # {}
      BY <1>4, <2>0, <2>1 DEF HeldAt, AddressStrobe, ReadStrobe, WriteStrobe
    <3>4. HeldAt(a.kind, n + 1) = ExclusiveOr(HeldAt(a.kind, n), o.arg)
      BY <3>1, <3>2, <3>3, ExclusiveOrFacts
    <3> QED
      BY <3>1, <3>4, <1>1 DEF o
  <2>2. CASE n \in {6, 8}
    <3>1. o.op = "toggle" /\ o.arg = ReadStrobe
      BY <2>0, <2>2, <1>2
    <3>2. HeldAt(a.kind, n) \in {{}, ReadStrobe} /\ HeldAt(a.kind, n + 1) \in {{}, ReadStrobe}
      BY <1>4, <2>0, <2>2 DEF HeldAt
    <3>3. HeldAt(a.kind, n) = {} <=> HeldAt(a.kind, n + 1) # {}
      BY <1>4, <2>0, <2>2 DEF HeldAt, AddressStrobe, ReadStrobe, WriteStrobe
    <3>4. HeldAt(a.kind, n + 1) = ExclusiveOr(HeldAt(a.kind, n), o.arg)
      BY <3>1, <3>2, <3>3, ExclusiveOrFacts
    <3> QED
      BY <3>1, <3>4, <1>1 DEF o
  <2>3. CASE n \in {1, 2, 5, 7}
    <3>1. o.op # "toggle"
      BY <2>0, <2>3, <1>3
    <3> QED
      BY <1>4, <2>0, <2>3, <3>1, <1>1 DEF HeldAt, o
  <2> QED
    BY <2>0, <2>1, <2>2, <2>3
<1>5. CASE a.kind \in {"write", "restore"}
  <2>0. /\ n = 1 => o = Out(a.reg)
        /\ n = 2 => o = Dir("out")
        /\ n \in {3, 4} => o = Toggle(AddressStrobe)
        /\ n = 5 => o = Out(IF a.kind = "write" THEN a.data ELSE v)
        /\ n \in {6, 7} => o = Toggle(WriteStrobe)
        /\ n \in 1..7
    BY <1>5, OpsOfAccess DEF OpCount
  <2> HIDE DEF o
  <2>1. CASE n \in {3, 4}
    <3>1. o.op = "toggle" /\ o.arg = AddressStrobe
      BY <2>0, <2>1, <1>2
    <3>2. HeldAt(a.kind, n) \in {{}, AddressStrobe} /\ HeldAt(a.kind, n + 1) \in {{}, AddressStrobe}
      BY <1>5, <2>0, <2>1 DEF HeldAt
    <3>3. HeldAt(a.kind, n) = {} <=> HeldAt(a.kind, n + 1) # {}
      BY <1>5, <2>0, <2>1 DEF HeldAt, AddressStrobe, ReadStrobe, WriteStrobe
    <3>4. HeldAt(a.kind, n + 1) = ExclusiveOr(HeldAt(a.kind, n), o.arg)
      BY <3>1, <3>2, <3>3, ExclusiveOrFacts
    <3> QED
      BY <3>1, <3>4, <1>1 DEF o
  <2>2. CASE n \in {6, 7}
    <3>1. o.op = "toggle" /\ o.arg = WriteStrobe
      BY <2>0, <2>2, <1>2
    <3>2. HeldAt(a.kind, n) \in {{}, WriteStrobe} /\ HeldAt(a.kind, n + 1) \in {{}, WriteStrobe}
      BY <1>5, <2>0, <2>2 DEF HeldAt
    <3>3. HeldAt(a.kind, n) = {} <=> HeldAt(a.kind, n + 1) # {}
      BY <1>5, <2>0, <2>2 DEF HeldAt, AddressStrobe, ReadStrobe, WriteStrobe
    <3>4. HeldAt(a.kind, n + 1) = ExclusiveOr(HeldAt(a.kind, n), o.arg)
      BY <3>1, <3>2, <3>3, ExclusiveOrFacts
    <3> QED
      BY <3>1, <3>4, <1>1 DEF o
  <2>3. CASE n \in {1, 2, 5}
    <3>1. o.op # "toggle"
      BY <2>0, <2>3, <1>3
    <3> QED
      BY <1>5, <2>0, <2>3, <3>1, <1>1 DEF HeldAt, o
  <2> QED
    BY <2>0, <2>1, <2>2, <2>3
<1>6. CASE a.kind = "burstread"
  <2>0. /\ n \in {1, 3} => o = Toggle(ReadStrobe)
        /\ n = 2 => o = Sample
        /\ n \in 1..3
    BY <1>6, OpsOfAccess DEF OpCount
  <2> HIDE DEF o
  <2>1. CASE n \in {1, 3}
    BY <1>6, <2>0, <2>1, <1>2, ExclusiveOrFacts, <1>1 DEF HeldAt, o
  <2>2. CASE n = 2
    BY <1>6, <2>0, <2>2, <1>3, <1>1 DEF HeldAt, o
  <2> QED
    BY <2>0, <2>1, <2>2
<1>7. CASE a.kind = "burstwrite"
  <2>0. /\ n = 1 => o = Out(a.data)
        /\ n \in {2, 3} => o = Toggle(WriteStrobe)
        /\ n \in 1..3
    BY <1>7, OpsOfAccess DEF OpCount
  <2> HIDE DEF o
  <2>1. CASE n \in {2, 3}
    BY <1>7, <2>0, <2>1, <1>2, ExclusiveOrFacts, <1>1 DEF HeldAt, o
  <2>2. CASE n = 1
    BY <1>7, <2>0, <2>2, <1>3, <1>1 DEF HeldAt, o
  <2> QED
    BY <2>0, <2>1, <2>2
<1> QED
  BY <1>0, <1>4, <1>5, <1>6, <1>7

\* A write strobe ends at the address latch with the fourth operation of an access
\* that says its address, and at a register with the last of a write.
LEMMA StrobeEnds ==
  ASSUME NEW a \in Access, NEW v, NEW n \in 1..OpCount(a.kind),
         Operations(a, v)[n].op = "toggle"
  PROVE  LET lines == HeldAt(a.kind, n)
             after == ExclusiveOr(lines, Operations(a, v)[n].arg)
             ends  == WriteStrobe \subseteq lines /\ ~(WriteStrobe \subseteq after)
         IN /\ ends /\ "A0" \in lines <=> n = 4 /\ a.kind \notin {"burstread", "burstwrite"}
            /\ ends /\ "A0" \notin lines <=> a.kind \in Writes /\ n = OpCount(a.kind)
<1>0. a.kind \in {"select", "read", "burstread", "write", "restore", "burstwrite", "await"}
  BY DEF Access, Kinds, Reads, Writes
<1>1. ExclusiveOr(HeldAt(a.kind, n), Operations(a, v)[n].arg) = HeldAt(a.kind, n + 1)
  BY HeldNext
<1>2. n \in Nat /\ n <= OpCount(a.kind)
  BY <1>0 DEF OpCount
<1>3. /\ WriteStrobe \subseteq AddressStrobe /\ ~(WriteStrobe \subseteq ReadStrobe)
      /\ ~(WriteStrobe \subseteq {}) /\ WriteStrobe \subseteq WriteStrobe
      /\ "A0" \in AddressStrobe /\ "A0" \notin WriteStrobe
  BY DEF WriteStrobe, AddressStrobe, ReadStrobe
<1> QED
  BY <1>0, <1>1, <1>2, <1>3 DEF HeldAt, OpCount, Writes

LEMMA ProgramsWellFormed ==
  /\ WellFormed(StartProgram)
  /\ \A p \in InterruptPrograms : WellFormed(p)
  /\ \A p \in SendPrograms : WellFormed(p)
  /\ "MCNTRL" \in Registers
  BY AccessAssumption

\* The first access of a program starts with its first operation.
LEMMA ProgramStarts ==
  ASSUME NEW p, WellFormed(p)
  PROVE  /\ p \in Seq(Access) /\ p # <<>> /\ Head(p) = p[1] /\ Head(p) \in Access
         /\ 1 \in 1..OpCount(Head(p).kind) /\ HeldAt(Head(p).kind, 1) = {}
<1>1. p \in Seq(Access) /\ p # <<>> /\ Head(p) = p[1] /\ Head(p) \in Access
  BY DEF WellFormed
<1>2. Head(p).kind \in {"select", "read", "burstread", "write", "restore", "burstwrite", "await"}
  BY <1>1 DEF Access, Kinds, Reads, Writes
<1> QED
  BY <1>1, <1>2 DEF OpCount, HeldAt

\* What is under way in a context.
LEMMA UnderWay ==
  ASSUME AccessTypeOK, NEW c \in Contexts, plan[c] # <<>>
  PROVE  /\ Head(plan[c]) \in Access /\ Tail(plan[c]) \in Seq(Access)
         /\ opno[c] \in 1..OpCount(Head(plan[c]).kind)
         /\ opno[c] \in Nat /\ OpCount(Head(plan[c]).kind) \in 3..8
         /\ Len(CurrentOps(c)) = OpCount(Head(plan[c]).kind)
         /\ Held(c) = HeldAt(Head(plan[c]).kind, opno[c])
<1>1. Head(plan[c]) \in Access /\ Tail(plan[c]) \in Seq(Access) /\ opno[c] \in Nat
  BY DEF AccessTypeOK
<1>2. Head(plan[c]).kind \in {"select", "read", "burstread", "write", "restore", "burstwrite", "await"}
  BY <1>1 DEF Access, Kinds, Reads, Writes
<1>3. OpCount(Head(plan[c]).kind) \in 3..8
  BY <1>2 DEF OpCount
<1>4. opno[c] \in 1..OpCount(Head(plan[c]).kind)
  BY DEF AccessTypeOK
<1>5. Len(CurrentOps(c)) = OpCount(Head(plan[c]).kind)
  BY <1>1, <1>4, OpsOfAccess DEF CurrentOps
<1> QED
  BY <1>1, <1>3, <1>4, <1>5 DEF Held

\* A step of a context: types stay, its lines follow the operation.
LEMMA StepKeepsTypes ==
  ASSUME AccessTypeOK, NEW c \in Contexts, Step(c)
  PROVE  /\ AccessTypeOK'
         /\ plan[c] # <<>>
         /\ Held(c)' = HeldAt(Head(plan[c]).kind, opno[c] + 1)
         /\ \A d \in Contexts \ {c} : Held(d)' = Held(d)
<1> DEFINE a == Head(plan[c])
           n == opno[c]
<1>1. plan[c] # <<>>
  BY DEF Step, Running
<1>2. /\ a \in Access /\ Tail(plan[c]) \in Seq(Access) /\ n \in 1..OpCount(a.kind) /\ n \in Nat
      /\ OpCount(a.kind) \in 3..8 /\ Len(CurrentOps(c)) = OpCount(a.kind)
  BY <1>1, UnderWay
<1>3. /\ plan \in [Contexts -> Seq(Access)] /\ opno \in [Contexts -> Nat]
      /\ DOMAIN val = Contexts /\ DOMAIN regs = Registers
      /\ \A d \in Contexts : IF plan[d] = <<>> THEN opno[d] = 1
                            ELSE opno[d] \in 1..OpCount(Head(plan[d]).kind)
  BY DEF AccessTypeOK
<1>4. DOMAIN val' = Contexts /\ DOMAIN regs' = Registers
  <2>1. val' = val \/ \E x : val' = [val EXCEPT ![c] = x]
    BY DEF Step, Perform
  <2>2. regs' = regs \/ \E x : regs' = [regs EXCEPT ![latch] = x]
    BY DEF Step, Perform, ChipToggle
  <2> QED
    BY <1>3, <2>1, <2>2
<1>5. HeldAt(a.kind, OpCount(a.kind) + 1) = {}
  BY <1>2, HeldNext
<1>6. CASE n < OpCount(a.kind)
  <2>1. opno' = [opno EXCEPT ![c] = n + 1] /\ plan' = plan
    BY <1>2, <1>6 DEF Step
  <2>2. opno' \in [Contexts -> Nat] /\ opno'[c] = n + 1 /\ \A d \in Contexts \ {c} : opno'[d] = opno[d]
    BY <2>1, <1>2, <1>3
  <2>3. n + 1 \in 1..OpCount(a.kind)
    BY <1>2, <1>6
  <2>4. AccessTypeOK'
    BY <1>1, <1>3, <1>4, <2>1, <2>2, <2>3 DEF AccessTypeOK
  <2>5. Held(c)' = HeldAt(a.kind, n + 1) /\ \A d \in Contexts \ {c} : Held(d)' = Held(d)
    BY <1>1, <2>1, <2>2 DEF Held
  <2> QED
    BY <1>1, <2>4, <2>5
<1>7. CASE n = OpCount(a.kind)
  <2>1. opno' = [opno EXCEPT ![c] = 1] /\ plan' = [plan EXCEPT ![c] = AfterAccess(c)]
    BY <1>2, <1>7 DEF Step
  <2>2. /\ opno' \in [Contexts -> Nat] /\ opno'[c] = 1
        /\ \A d \in Contexts \ {c} : opno'[d] = opno[d]
    BY <2>1, <1>3
  <2>3. AfterAccess(c) \in Seq(Access)
    BY <1>2, <1>3 DEF AfterAccess
  <2>4. /\ plan' \in [Contexts -> Seq(Access)] /\ plan'[c] = AfterAccess(c)
        /\ \A d \in Contexts \ {c} : plan'[d] = plan[d]
    BY <2>1, <2>3, <1>3
  <2>5. ASSUME plan'[c] # <<>>
        PROVE  1 \in 1..OpCount(Head(plan'[c]).kind) /\ HeldAt(Head(plan'[c]).kind, 1) = {}
    <3>1. Head(plan'[c]) \in Access
      BY <2>4, <2>5
    <3>2. Head(plan'[c]).kind \in {"select", "read", "burstread", "write", "restore", "burstwrite", "await"}
      BY <3>1 DEF Access, Kinds, Reads, Writes
    <3> QED
      BY <3>2 DEF OpCount, HeldAt
  <2>6. AccessTypeOK'
    BY <1>3, <1>4, <2>2, <2>4, <2>5 DEF AccessTypeOK
  <2>7. Held(c)' = {}
    BY <2>2, <2>5 DEF Held
  <2>8. \A d \in Contexts \ {c} : Held(d)' = Held(d)
    BY <2>2, <2>4 DEF Held
  <2> QED
    BY <1>1, <1>5, <1>7, <2>6, <2>7, <2>8
<1> QED
  BY <1>2, <1>6, <1>7

LEMMA StepKeepsLines ==
  ASSUME LinesInv, NEW c \in Contexts, Step(c)
  PROVE  LinesInv'
<1> DEFINE a == Head(plan[c])
           n == opno[c]
           o == Operations(a, val[c])[n]
<1>1. AccessTypeOK /\ ctrl = ExclusiveOr(Held("main"), Held("isr"))
  BY DEF LinesInv
<1>2. /\ AccessTypeOK' /\ plan[c] # <<>> /\ Held(c)' = HeldAt(a.kind, n + 1)
      /\ \A d \in Contexts \ {c} : Held(d)' = Held(d)
  BY <1>1, StepKeepsTypes
<1>3. a \in Access /\ n \in 1..OpCount(a.kind) /\ Held(c) = HeldAt(a.kind, n)
  BY <1>1, <1>2, UnderWay
<1>4. /\ o.op = "toggle" => Held(c)' = ExclusiveOr(Held(c), o.arg)
      /\ o.op # "toggle" => Held(c)' = Held(c)
  BY <1>2, <1>3, HeldNext
<1>5. /\ o.op = "toggle" => ctrl' = ExclusiveOr(ctrl, o.arg)
      /\ o.op # "toggle" => ctrl' = ctrl
  BY DEF Step, Perform, ChipToggle, CurrentOps
<1> HIDE DEF a, n, o
<1>6. ctrl' = ExclusiveOr(Held("main")', Held("isr")')
  <2>1. CASE c = "main"
    <3>1. Held("isr")' = Held("isr")
      BY <1>2, <2>1 DEF Contexts
    <3> QED
      BY <1>1, <1>4, <1>5, <2>1, <3>1, ExclusiveOrFacts
  <2>2. CASE c = "isr"
    <3>1. Held("main")' = Held("main")
      BY <1>2, <2>2 DEF Contexts
    <3> QED
      BY <1>1, <1>4, <1>5, <2>2, <3>1, ExclusiveOrFacts
  <2> QED
    BY <2>1, <2>2 DEF Contexts
<1> QED
  BY <1>2, <1>6 DEF LinesInv

LEMMA LinesInit == Init => LinesInv
<1> SUFFICES ASSUME Init PROVE LinesInv
  OBVIOUS
<1>1. /\ StartProgram \in Seq(Access) /\ StartProgram # <<>>
      /\ 1 \in 1..OpCount(Head(StartProgram).kind) /\ HeldAt(Head(StartProgram).kind, 1) = {}
  BY ProgramsWellFormed, ProgramStarts
<1>2. /\ plan \in [Contexts -> Seq(Access)] /\ plan["main"] = StartProgram /\ plan["isr"] = <<>>
      /\ opno \in [Contexts -> Nat] /\ \A c \in Contexts : opno[c] = 1
  <2>1. plan = [main |-> StartProgram, isr |-> <<>>] /\ opno = [c \in Contexts |-> 1]
    BY DEF Init
  <2>2. plan["main"] = StartProgram /\ plan["isr"] = <<>>
    BY <2>1
  <2>3. plan = [c \in Contexts |-> IF c = "main" THEN StartProgram ELSE <<>>]
    BY <2>1 DEF Contexts
  <2>4. <<>> \in Seq(Access)
    OBVIOUS
  <2>5. plan \in [Contexts -> Seq(Access)]
    BY <1>1, <2>3, <2>4
  <2> QED
    BY <2>1, <2>2, <2>5
<1>3. DOMAIN val = Contexts /\ DOMAIN regs = Registers
  BY AccessAssumption DEF Init
<1>4. AccessTypeOK
  BY <1>1, <1>2, <1>3 DEF AccessTypeOK, Contexts
<1>5. Held("main") = {} /\ Held("isr") = {}
  BY <1>1, <1>2 DEF Held, Contexts
<1> QED
  BY <1>4, <1>5, ExclusiveOrFacts DEF LinesInv, Init

\* A context that had nothing to do begins a program.
LEMMA BeginKeepsLines ==
  ASSUME LinesInv, NEW c \in Contexts, plan[c] = <<>>,
         NEW p, WellFormed(p), plan' = [plan EXCEPT ![c] = p],
         UNCHANGED <<regs, ctrl, opno, val>>
  PROVE  LinesInv'
<1>1. AccessTypeOK /\ ctrl = ExclusiveOr(Held("main"), Held("isr"))
  BY DEF LinesInv
<1>2. /\ p \in Seq(Access) /\ p # <<>> /\ 1 \in 1..OpCount(Head(p).kind)
      /\ HeldAt(Head(p).kind, 1) = {}
  BY ProgramStarts
<1>3. /\ plan' \in [Contexts -> Seq(Access)] /\ plan'[c] = p
      /\ \A d \in Contexts \ {c} : plan'[d] = plan[d]
  BY <1>1, <1>2 DEF AccessTypeOK
<1>4. opno[c] = 1
  BY <1>1 DEF AccessTypeOK
<1>5. AccessTypeOK'
  BY <1>1, <1>2, <1>3, <1>4 DEF AccessTypeOK
<1>6. \A d \in Contexts : Held(d)' = Held(d)
  BY <1>2, <1>3, <1>4 DEF Held
<1> QED
  BY <1>1, <1>5, <1>6 DEF LinesInv, Contexts

LEMMA LinesStep == LinesInv /\ [Next]_vars => LinesInv'
<1> SUFFICES ASSUME LinesInv, [Next]_vars PROVE LinesInv'
  OBVIOUS
<1>1. CASE SoftwareResetDone
  <2>1. DOMAIN regs' = DOMAIN regs
    BY <1>1 DEF SoftwareResetDone
  <2> QED
    BY <1>1, <2>1 DEF SoftwareResetDone, LinesInv, AccessTypeOK, Held
<1>2. CASE Preempt
  BY <1>2, BeginKeepsLines, ProgramsWellFormed DEF Preempt, Contexts
<1>3. CASE MainSend
  BY <1>3, BeginKeepsLines, ProgramsWellFormed DEF MainSend, Contexts
<1>4. ASSUME NEW c \in Contexts, Step(c) PROVE LinesInv'
  BY <1>4, StepKeepsLines
<1>5. CASE UNCHANGED vars
  BY <1>5 DEF vars, LinesInv, AccessTypeOK, Held
<1> QED
  BY <1>1, <1>2, <1>3, <1>4, <1>5 DEF Next

\* For any programs of the three contexts, and interrupts between any two port
\* operations, the control lines are all released when no access is under way.
THEOREM LinesAreReleased == Spec => []LinesReleased
<1>1. LinesInv => LinesReleased
  <2> SUFFICES ASSUME LinesInv, \A c \in Contexts : opno[c] = 1 PROVE ctrl = {}
    BY DEF LinesReleased
  <2>1. \A c \in Contexts : Held(c) = {}
    BY DEF Held, HeldAt
  <2> QED
    BY <2>1, ExclusiveOrFacts DEF LinesInv, Contexts
<1> QED
  BY LinesInit, LinesStep, <1>1, PTL DEF Spec

\* What access a, of a context that has read v last, writes.
Asks(a, v) == IF a.kind = "restore" THEN v ELSE a.data

\* The operation moves latch, port and direction on to where the next one needs
\* them: the fourth of an access with an address loads the latch.
LEMMA BusNext ==
  ASSUME NEW a \in Access, NEW n \in 1..OpCount(a.kind), NEW v, NEW w,
         NEW lat, NEW out, NEW dir, NEW lat2, NEW out2, NEW dir2,
         BusAt(a, n, v, lat, out, dir),
         Operations(a, v)[n].op # "sample" => w = v,
         out2 = IF Operations(a, v)[n].op = "port" THEN Operations(a, v)[n].arg ELSE out,
         dir2 = IF Operations(a, v)[n].op = "ddr" THEN Operations(a, v)[n].arg ELSE dir,
         lat2 = IF n = 4 /\ a.kind \notin {"burstread", "burstwrite"} THEN a.reg ELSE lat
  PROVE  BusAt(a, n + 1, w, lat2, out2, dir2)
<1> DEFINE o == Operations(a, v)[n]
<1>0. a.kind \in {"select", "read", "burstread", "write", "restore", "burstwrite", "await"}
  BY DEF Access, Kinds, Reads, Writes
<1>1. ASSUME NEW s, o = Toggle(s) PROVE out2 = out /\ dir2 = dir /\ w = v
  BY <1>1 DEF Toggle
<1>2. ASSUME NEW x, o = Out(x) PROVE out2 = x /\ dir2 = dir /\ w = v
  BY <1>2 DEF Out
<1>3. ASSUME NEW x, o = Dir(x) PROVE out2 = out /\ dir2 = x /\ w = v
  BY <1>3 DEF Dir
<1>4. ASSUME o = Sample PROVE out2 = out /\ dir2 = dir
  BY <1>4 DEF Sample
<1>5. n \in Nat
  BY <1>0 DEF OpCount
<1>6. CASE a.kind \in {"read", "await", "select"}
  <2>0. /\ n = 1 => o = Dir("out")
        /\ n = 2 => o = Out(a.reg)
        /\ n \in {3, 4} => o = Toggle(AddressStrobe)
        /\ n = 5 => o = Dir("in")
        /\ n \in {6, 8} => o = Toggle(ReadStrobe)
        /\ n = 7 => o = Sample
        /\ n \in 1..8
    BY <1>6, OpsOfAccess DEF OpCount
  <2> HIDE DEF o
  <2>1. /\ n = 1 => out2 = out /\ dir2 = "out"
        /\ n = 2 => out2 = a.reg /\ dir2 = dir
        /\ n \in {3, 4, 6, 7, 8} => out2 = out /\ dir2 = dir
        /\ n = 5 => out2 = out /\ dir2 = "in"
    BY <2>0, <1>1, <1>2, <1>3, <1>4
  <2> QED
    BY <1>6, <2>0, <2>1 DEF BusAt
<1>7. CASE a.kind \in {"write", "restore"}
  <2> DEFINE d == IF a.kind = "write" THEN a.data ELSE v
  <2>0. /\ n = 1 => o = Out(a.reg)
        /\ n = 2 => o = Dir("out")
        /\ n \in {3, 4} => o = Toggle(AddressStrobe)
        /\ n = 5 => o = Out(d)
        /\ n \in {6, 7} => o = Toggle(WriteStrobe)
        /\ n \in 1..7
    BY <1>7, OpsOfAccess DEF OpCount
  <2> HIDE DEF o, d
  <2>1. /\ n = 1 => out2 = a.reg /\ dir2 = dir
        /\ n = 2 => out2 = out /\ dir2 = "out"
        /\ n \in {3, 4, 6, 7} => out2 = out /\ dir2 = dir
        /\ n = 5 => out2 = d /\ dir2 = dir
        /\ w = v
    BY <2>0, <1>1, <1>2, <1>3
  <2> QED
    BY <1>7, <2>0, <2>1 DEF BusAt, d
<1>8. CASE a.kind = "burstread"
  <2>0. /\ n \in {1, 3} => o = Toggle(ReadStrobe)
        /\ n = 2 => o = Sample
        /\ n \in 1..3
    BY <1>8, OpsOfAccess DEF OpCount
  <2> HIDE DEF o
  <2>1. out2 = out /\ dir2 = dir
    BY <2>0, <1>1, <1>4
  <2> QED
    BY <1>8, <2>0, <2>1 DEF BusAt
<1>9. CASE a.kind = "burstwrite"
  <2>0. /\ n = 1 => o = Out(a.data)
        /\ n \in {2, 3} => o = Toggle(WriteStrobe)
        /\ n \in 1..3
    BY <1>9, OpsOfAccess DEF OpCount
  <2> HIDE DEF o
  <2>1. /\ n = 1 => out2 = a.data
        /\ n \in {2, 3} => out2 = out
        /\ dir2 = dir
    BY <2>0, <1>1, <1>2
  <2> QED
    BY <1>9, <2>0, <2>1 DEF BusAt
<1> QED
  BY <1>0, <1>6, <1>7, <1>8, <1>9

\* One context has the bus for itself: a step of it changes the latch to the
\* address of its access, and a register only where and to what it asks.
LEMMA StepEffect ==
  ASSUME LinesInv, StartInv, BusInv, NEW c \in Contexts, Step(c)
  PROVE  LET a == Head(plan[c])
             n == opno[c]
         IN /\ \A d \in Contexts \ {c} : plan[d] = <<>>
            /\ latch' = IF n = 4 /\ a.kind \notin {"burstread", "burstwrite"} THEN a.reg ELSE latch
            /\ regs' = IF a.kind \in Writes /\ n = OpCount(a.kind)
                       THEN [regs EXCEPT ![a.reg] = Asks(a, val[c])] ELSE regs
<1> DEFINE a == Head(plan[c])
           n == opno[c]
           o == Operations(a, val[c])[n]
<1>1. AccessTypeOK /\ plan[c] # <<>>
  BY DEF LinesInv, Step, Running
<1>2. /\ a \in Access /\ n \in 1..OpCount(a.kind) /\ Held(c) = HeldAt(a.kind, n)
      /\ n \in Nat
  BY <1>1, UnderWay
<1>3. \A d \in Contexts \ {c} : plan[d] = <<>>
  BY <1>1 DEF StartInv, Contexts
<1>4. ctrl = HeldAt(a.kind, n)
  <2>1. \A d \in Contexts \ {c} : Held(d) = {}
    BY <1>3 DEF Held
  <2> QED
    <3>1. \/ Held("main") = Held(c) /\ Held("isr") = {}
          \/ Held("isr") = Held(c) /\ Held("main") = {}
      BY <2>1 DEF Contexts
    <3>2. ctrl = Held(c)
      BY <3>1, ExclusiveOrFacts DEF LinesInv
    <3> QED
      BY <1>2, <3>2
<1>5. BusAt(a, n, val[c], latch, port, ddr)
  BY <1>1 DEF BusInv
<1>6. a.kind \in {"select", "read", "burstread", "write", "restore", "burstwrite", "await"} /\ a.reg \in Registers
  BY <1>2 DEF Access, Kinds, Reads, Writes
<1>7. CASE o.op # "toggle"
  <2>1. latch' = latch /\ regs' = regs
    BY <1>7 DEF Step, Perform, CurrentOps
  <2>2. o # Toggle(AddressStrobe) /\ o # Toggle(WriteStrobe)
    BY <1>7 DEF Toggle
  <2> HIDE DEF o
  <2>3. ~(n = 4 /\ a.kind \notin {"burstread", "burstwrite"})
    BY <1>2, <1>6, <2>2, OpsOfAccess DEF o
  <2>4. ~(a.kind \in Writes /\ n = OpCount(a.kind))
    BY <1>2, <1>6, <2>2, OpsOfAccess DEF o, Writes, OpCount
  <2> QED
    BY <1>3, <2>1, <2>3, <2>4
<1>8. CASE o.op = "toggle"
  <2> DEFINE after == ExclusiveOr(ctrl, o.arg)
             ends == WriteStrobe \subseteq ctrl /\ ~(WriteStrobe \subseteq after)
  <2>1. /\ latch' = IF ends /\ "A0" \in ctrl THEN Driven ELSE latch
        /\ regs' = IF ends /\ "A0" \notin ctrl /\ latch \in Registers
                   THEN [regs EXCEPT ![latch] = Driven] ELSE regs
    BY <1>8 DEF Step, Perform, CurrentOps, ChipToggle
  <2>2. /\ ends /\ "A0" \in ctrl <=> n = 4 /\ a.kind \notin {"burstread", "burstwrite"}
        /\ ends /\ "A0" \notin ctrl <=> a.kind \in Writes /\ n = OpCount(a.kind)
    BY <1>2, <1>4, <1>8, StrobeEnds
  <2> HIDE DEF ends, o
  <2>3. n = 4 /\ a.kind \notin {"burstread", "burstwrite"} => Driven = a.reg
    BY <1>5, <1>6 DEF BusAt, Driven
  <2>4. a.kind \in Writes /\ n = OpCount(a.kind) => latch = a.reg /\ Driven = Asks(a, val[c])
    BY <1>5, <1>6 DEF BusAt, Driven, Writes, OpCount, Asks
  <2> HIDE DEF a, n
  <2>5. latch' = IF n = 4 /\ a.kind \notin {"burstread", "burstwrite"} THEN a.reg ELSE latch
    BY <2>1, <2>2, <2>3
  <2>6. regs' = IF a.kind \in Writes /\ n = OpCount(a.kind)
                THEN [regs EXCEPT ![a.reg] = Asks(a, val[c])] ELSE regs
    BY <2>1, <2>2, <2>4, <1>6
  <2> QED
    BY <1>3, <2>5, <2>6 DEF a, n
<1> QED
  BY <1>7, <1>8

LEMMA StepKeepsBus ==
  ASSUME LinesInv, PlansInv, StartInv, BusInv, NEW c \in Contexts, Step(c)
  PROVE  BusInv'
<1> DEFINE a == Head(plan[c])
           n == opno[c]
           o == Operations(a, val[c])[n]
<1>1. AccessTypeOK /\ plan[c] # <<>>
  BY DEF LinesInv, Step, Running
<1>2. /\ a \in Access /\ n \in 1..OpCount(a.kind) /\ Len(CurrentOps(c)) = OpCount(a.kind)
      /\ n \in Nat /\ OpCount(a.kind) \in 3..8 /\ Held(c) = HeldAt(a.kind, n)
  BY <1>1, UnderWay
<1>3. /\ \A d \in Contexts \ {c} : plan[d] = <<>>
      /\ latch' = IF n = 4 /\ a.kind \notin {"burstread", "burstwrite"} THEN a.reg ELSE latch
      /\ regs' = IF a.kind \in Writes /\ n = OpCount(a.kind)
                 THEN [regs EXCEPT ![a.reg] = Asks(a, val[c])] ELSE regs
  BY StepEffect
<1>4. /\ BusAt(a, n, val[c], latch, port, ddr) /\ ReadAt(a, n, val[c], regs)
  BY <1>1 DEF BusInv
<1>5. /\ port' = IF o.op = "port" THEN o.arg ELSE port
      /\ ddr' = IF o.op = "ddr" THEN o.arg ELSE ddr
      /\ val' = IF o.op = "sample" THEN [val EXCEPT ![c] = ReadBack] ELSE val
  BY DEF Step, Perform, CurrentOps
<1>6. /\ o.op # "sample" => val'[c] = val[c]
      /\ o.op = "sample" => val'[c] = ReadBack
  BY <1>1, <1>5 DEF AccessTypeOK
<1>7. BusAt(a, n + 1, val'[c], latch', port', ddr')
  <2> HIDE DEF a, n
  <2>1. ASSUME NEW lat2, NEW out2, NEW dir2, NEW w,
               lat2 = latch', out2 = port', dir2 = ddr', w = val'[c]
        PROVE  BusAt(a, n + 1, w, lat2, out2, dir2)
    <3>1. o.op # "sample" => w = val[c]
      BY <2>1, <1>6
    <3>2. out2 = IF o.op = "port" THEN o.arg ELSE port
      BY <2>1, <1>5
    <3>3. dir2 = IF o.op = "ddr" THEN o.arg ELSE ddr
      BY <2>1, <1>5
    <3>4. lat2 = IF n = 4 /\ a.kind \notin {"burstread", "burstwrite"} THEN a.reg ELSE latch
      BY <2>1, <1>3
    <3> QED
      BY <1>2, <1>4, <3>1, <3>2, <3>3, <3>4, BusNext
  <2> QED
    BY <2>1
<1>8. n < OpCount(a.kind) => ReadAt(a, n + 1, val'[c], regs')
  <2> SUFFICES ASSUME n < OpCount(a.kind),
                      (a.kind = "read" /\ n + 1 = 8) \/ (a.kind = "burstread" /\ n + 1 = 3)
               PROVE  val'[c] = regs'[a.reg]
    BY DEF ReadAt
  <2>1. (a.kind = "read" /\ n = 7) \/ (a.kind = "burstread" /\ n = 2)
    BY <1>2
  <2>2. o.op = "sample"
    <3>1. o = Sample
      BY <1>2, <2>1, OpsOfAccess
    <3> QED
      BY <3>1 DEF Sample
  <2>3. ddr = "in" /\ latch = a.reg /\ a.reg \in Registers
    BY <1>2, <1>4, <2>1 DEF BusAt, Access
  <2>4. ctrl = ReadStrobe
    <3>1. \A d \in Contexts \ {c} : Held(d) = {}
      BY <1>3 DEF Held
    <3>2. Held(c) = ReadStrobe
      BY <1>2, <2>1 DEF HeldAt
    <3> QED
      BY <3>1, <3>2, ExclusiveOrFacts DEF LinesInv, Contexts
  <2>5. ReadBack = regs[a.reg]
    BY <2>3, <2>4 DEF ReadBack, Readable
  <2>6. regs' = regs
    BY <1>2, <1>3, <2>1 DEF Writes
  <2> QED
    BY <1>6, <2>2, <2>5, <2>6
<1>9. CASE n < OpCount(a.kind)
  <2>1. opno' = [opno EXCEPT ![c] = n + 1] /\ plan' = plan
    BY <1>2, <1>9 DEF Step
  <2>2. opno'[c] = n + 1
    BY <2>1, <1>1 DEF AccessTypeOK
  <2> QED
    BY <1>3, <1>7, <1>8, <1>9, <2>1, <2>2 DEF BusInv
<1>10. CASE n = OpCount(a.kind)
  <2>1. opno' = [opno EXCEPT ![c] = 1] /\ plan' = [plan EXCEPT ![c] = AfterAccess(c)]
    BY <1>2, <1>10 DEF Step
  <2>2. /\ opno'[c] = 1 /\ plan'[c] = AfterAccess(c)
        /\ \A d \in Contexts \ {c} : plan'[d] = <<>>
    BY <2>1, <1>1, <1>3 DEF AccessTypeOK
  <2>3. ASSUME NEW b, b.kind \notin {"burstread", "burstwrite"}
        PROVE  BusAt(b, 1, val'[c], latch', port', ddr') /\ ReadAt(b, 1, val'[c], regs')
    BY <2>3 DEF BusAt, ReadAt
  <2>4. ASSUME AfterAccess(c) # <<>>
        PROVE  /\ BusAt(Head(AfterAccess(c)), 1, val'[c], latch', port', ddr')
               /\ ReadAt(Head(AfterAccess(c)), 1, val'[c], regs')
    <3>1. CASE AfterAccess(c) = plan[c] /\ a.kind = "await"
      BY <3>1, <2>3
    <3>2. CASE AfterAccess(c) = Tail(plan[c])
      <4> DEFINE b == Head(Tail(plan[c]))
      <4>1. plan[c] \in Seq(Access) /\ Len(plan[c]) >= 2 /\ b = plan[c][2] /\ a = plan[c][1]
        BY <1>1, <2>4, <3>2 DEF AccessTypeOK
      <4>2. GoesOn(a, b)
        BY <4>1 DEF PlansInv
      <4>3. CASE b.kind = "burstread"
        <5>1. a.kind \in Reads /\ a.reg = b.reg
          BY <4>2, <4>3 DEF GoesOn
        <5> HIDE DEF a, b, n
        <5>2. latch' = b.reg /\ ddr' = "in"
          BY <5>1, <1>7, <1>10 DEF BusAt, Reads, OpCount
        <5>3. /\ BusAt(b, 1, val'[c], latch', port', ddr')
              /\ ReadAt(b, 1, val'[c], regs')
          BY <4>3, <5>2 DEF BusAt, ReadAt
        <5> QED
          BY <3>2, <5>3 DEF b
      <4>4. CASE b.kind = "burstwrite"
        <5>1. a.kind \in Writes /\ a.reg = b.reg
          BY <4>2, <4>4 DEF GoesOn
        <5> HIDE DEF a, b, n
        <5>2. latch' = b.reg /\ ddr' = "out"
          BY <5>1, <1>7, <1>10 DEF BusAt, Writes, OpCount
        <5>3. /\ BusAt(b, 1, val'[c], latch', port', ddr')
              /\ ReadAt(b, 1, val'[c], regs')
          BY <4>4, <5>2 DEF BusAt, ReadAt
        <5> QED
          BY <3>2, <5>3 DEF b
      <4> QED
        BY <2>3, <3>2, <4>3, <4>4
    <3> QED
      BY <3>1, <3>2 DEF AfterAccess
  <2> QED
    BY <2>2, <2>4 DEF BusInv
<1> QED
  BY <1>2, <1>9, <1>10

\* A rest of a program stays one when its first access is done.
LEMMA PlansStep == LinesInv /\ PlansInv /\ [Next]_vars => PlansInv'
<1> SUFFICES ASSUME LinesInv, PlansInv, [Next]_vars PROVE PlansInv'
  OBVIOUS
<1> DEFINE Rest(p) ==
             /\ \A i \in 1..(Len(p) - 1) : GoesOn(p[i], p[i + 1])
             /\ \A i \in 1..Len(p) : p[i].kind \in Reads => p[i].reg # "MCNTRL"
<1>1. plan \in [Contexts -> Seq(Access)] /\ \A c \in Contexts : Rest(plan[c])
  BY DEF LinesInv, AccessTypeOK, PlansInv
<1>2. ASSUME NEW p, WellFormed(p) PROVE Rest(p)
  BY <1>2 DEF WellFormed
<1>3. ASSUME NEW p \in Seq(Access), p # <<>>, Rest(p) PROVE Rest(Tail(p))
  <2>1. /\ Tail(p) \in Seq(Access) /\ Len(Tail(p)) = Len(p) - 1 /\ Len(p) \in Nat
        /\ \A i \in 1..(Len(p) - 1) : Tail(p)[i] = p[i + 1]
    BY <1>3
  <2> QED
    BY <1>3, <2>1
<1> HIDE DEF Rest
<1>4. ASSUME NEW c \in Contexts, NEW p, Rest(p), plan' = [plan EXCEPT ![c] = p]
      PROVE  \A d \in Contexts : Rest(plan'[d])
  BY <1>1, <1>4
<1>5. \A d \in Contexts : Rest(plan'[d])
  <2>1. CASE plan' = plan
    BY <1>1, <2>1
  <2>2. CASE Preempt
    <3>1. PICK p \in InterruptPrograms : plan' = [plan EXCEPT !["isr"] = p]
      BY <2>2 DEF Preempt
    <3> QED
      BY <3>1, <1>2, <1>4, ProgramsWellFormed DEF Contexts
  <2>3. CASE MainSend
    <3>1. PICK p \in SendPrograms : plan' = [plan EXCEPT !["main"] = p]
      BY <2>3 DEF MainSend
    <3> QED
      BY <3>1, <1>2, <1>4, ProgramsWellFormed DEF Contexts
  <2>4. ASSUME NEW c \in Contexts, Step(c), plan' # plan PROVE \A d \in Contexts : Rest(plan'[d])
    <3>1. plan[c] # <<>> /\ plan' = [plan EXCEPT ![c] = AfterAccess(c)]
      BY <2>4 DEF Step, Running
    <3>2. Rest(AfterAccess(c))
      BY <1>1, <1>3, <3>1 DEF AfterAccess
    <3> QED
      BY <3>1, <3>2, <1>4
  <2> QED
    BY <2>1, <2>2, <2>3, <2>4 DEF Next, vars, SoftwareResetDone
<1> QED
  BY <1>5 DEF Rest, PlansInv

LEMMA AccessInit == InterruptsLast /\ Init => AccessInv
<1> SUFFICES ASSUME InterruptsLast, Init PROVE AccessInv
  OBVIOUS
<1>1. LinesInv
  BY LinesInit
<1>2. plan["main"] = StartProgram /\ plan["isr"] = <<>>
  BY DEF Init
<1>3. /\ \A i \in 1..(Len(StartProgram) - 1) : GoesOn(StartProgram[i], StartProgram[i + 1])
      /\ \A i \in 1..Len(StartProgram) : StartProgram[i].kind \in Reads => StartProgram[i].reg # "MCNTRL"
      /\ Head(StartProgram).kind \notin {"burstread", "burstwrite"}
  BY ProgramsWellFormed, ProgramStarts DEF WellFormed
<1>4. PlansInv
  <2>1. Len(<<>>) = 0
    OBVIOUS
  <2> QED
    BY <1>2, <1>3, <2>1 DEF PlansInv, Contexts
<1>5. StartInv
  BY <1>2, AccessAssumption DEF StartInv, InterruptsLast, Init
<1>6. BusInv
  <2>1. opno["main"] = 1
    BY DEF Init, Contexts
  <2> QED
    BY <1>2, <1>3, <2>1 DEF BusInv, BusAt, ReadAt, Contexts
<1> QED
  BY <1>1, <1>4, <1>5, <1>6 DEF AccessInv

\* What USBNStart still has to do keeps the chip from interrupting it, but for its
\* last access, with whose last operation it is over.
LEMMA StartStep ==
  ASSUME LinesInv, PlansInv, StartInv, BusInv, NEW c \in Contexts, Step(c)
  PROVE  StartInv'
<1> DEFINE a == Head(plan[c])
           n == opno[c]
<1>1. AccessTypeOK /\ plan[c] # <<>>
  BY DEF LinesInv, Step, Running
<1>2. /\ a \in Access /\ n \in 1..OpCount(a.kind) /\ Len(CurrentOps(c)) = OpCount(a.kind)
      /\ n \in Nat /\ OpCount(a.kind) \in 3..8
  BY <1>1, UnderWay
<1>3. /\ \A d \in Contexts \ {c} : plan[d] = <<>>
      /\ regs' = IF a.kind \in Writes /\ n = OpCount(a.kind)
                 THEN [regs EXCEPT ![a.reg] = Asks(a, val[c])] ELSE regs
  BY StepEffect
<1>4. CASE c = "isr"
  <2>1. plan'["main"] = <<>>
    BY <1>1, <1>3, <1>4 DEF Step, AccessTypeOK, Contexts
  <2> QED
    BY <2>1 DEF StartInv
<1>5. CASE c = "main"
  <2> SUFFICES ASSUME plan'["main"] # <<>>
               PROVE  /\ plan'["isr"] = <<>> /\ regs'["MCNTRL"] # "INT"
                      /\ \A i \in 1..(Len(plan'["main"]) - 1) : ~SetsInt(plan'["main"][i])
    BY DEF StartInv
  <2>1. /\ plan["isr"] = <<>> /\ regs["MCNTRL"] # "INT"
        /\ \A i \in 1..(Len(plan["main"]) - 1) : ~SetsInt(plan["main"][i])
        /\ plan \in [Contexts -> Seq(Access)] /\ DOMAIN regs = Registers
    BY <1>1, <1>5 DEF StartInv, AccessTypeOK
  <2>2. \/ plan' = plan /\ n < OpCount(a.kind)
        \/ plan' = [plan EXCEPT !["main"] = AfterAccess("main")] /\ n = OpCount(a.kind)
    BY <1>2, <1>5 DEF Step
  <2>3. plan'["isr"] = <<>>
    BY <2>1, <2>2 DEF Contexts
  <2>4. CASE plan'["main"] = plan["main"]
    <3>1. ~(a.kind \in Writes /\ n = OpCount(a.kind))
      <4> SUFFICES ASSUME a.kind \in Writes, n = OpCount(a.kind) PROVE FALSE
        OBVIOUS
      <4>1. plan'["main"] = Tail(plan["main"])
        BY <2>1, <2>2, <1>2, <1>5 DEF AfterAccess, Writes, Contexts
      <4>2. plan["main"] \in Seq(Access) /\ plan["main"] # <<>>
        BY <1>1, <1>5, <2>1 DEF Contexts
      <4> QED
        BY <2>4, <4>1, <4>2, TailDiffers
    <3> QED
      BY <1>3, <2>1, <2>3, <2>4, <3>1
  <2>5. CASE plan'["main"] = Tail(plan["main"])
    <3>1. /\ plan["main"] \in Seq(Access) /\ Len(plan["main"]) \in Nat /\ Len(plan["main"]) >= 2
          /\ Len(Tail(plan["main"])) = Len(plan["main"]) - 1
          /\ \A i \in 1..(Len(plan["main"]) - 1) : Tail(plan["main"])[i] = plan["main"][i + 1]
          /\ a = plan["main"][1]
      BY <1>1, <1>5, <2>1, <2>5 DEF Contexts
    <3>2. ~SetsInt(a)
      BY <2>1, <3>1
    <3>3. \A i \in 1..(Len(plan'["main"]) - 1) : ~SetsInt(plan'["main"][i])
      BY <2>1, <2>5, <3>1
    <3>4. a.kind \in Writes /\ a.reg = "MCNTRL" => Asks(a, val[c]) # "INT"
      BY <3>2 DEF SetsInt, Asks, Writes
    <3> HIDE DEF a, n
    <3>5. regs'["MCNTRL"] # "INT"
      BY <1>3, <2>1, <3>4, ProgramsWellFormed
    <3> QED
      BY <2>3, <3>3, <3>5
  <2> QED
    BY <2>1, <2>2, <2>4, <2>5, <1>5 DEF AfterAccess, Contexts
<1> QED
  BY <1>4, <1>5 DEF Contexts

LEMMA AccessStep == AccessInv /\ [Next]_vars => AccessInv'
<1> SUFFICES ASSUME AccessInv, [Next]_vars PROVE AccessInv'
  OBVIOUS
<1>1. LinesInv /\ LinesInv' /\ PlansInv /\ PlansInv' /\ AccessTypeOK
  BY LinesStep, PlansStep DEF AccessInv, LinesInv
<1> SUFFICES ASSUME ~sending' PROVE StartInv' /\ BusInv'
  BY <1>1 DEF AccessInv
<1>2. CASE SoftwareResetDone
  <2>1. ~sending /\ StartInv /\ BusInv
    BY <1>2 DEF SoftwareResetDone, AccessInv
  <2>2. regs' = [regs EXCEPT !["MCNTRL"] = "clear"] /\ UNCHANGED <<latch, port, ddr, plan, opno, val>>
    BY <1>2 DEF SoftwareResetDone
  <2>3. StartInv'
    BY <1>1, <2>1, <2>2, ProgramsWellFormed DEF StartInv, AccessTypeOK
  <2>4. ASSUME NEW c \in Contexts, plan[c] # <<>>
        PROVE  ReadAt(Head(plan[c]), opno[c], val[c], regs')
    <3>1. Head(plan[c]) = plan[c][1] /\ 1 \in 1..Len(plan[c])
      BY <1>1, <2>4 DEF AccessTypeOK
    <3>2. Head(plan[c]).kind \in Reads => Head(plan[c]).reg # "MCNTRL"
      BY <1>1, <3>1 DEF PlansInv
    <3>3. ReadAt(Head(plan[c]), opno[c], val[c], regs)
      BY <2>1, <2>4 DEF BusInv
    <3> QED
      BY <2>2, <3>2, <3>3 DEF ReadAt, Reads
  <2>5. BusInv'
    BY <2>1, <2>2, <2>4 DEF BusInv
  <2> QED
    BY <2>3, <2>5
<1>3. CASE Preempt
  <2>1. ~sending /\ StartInv /\ BusInv
    BY <1>3 DEF Preempt, AccessInv
  <2>2. PICK p \in InterruptPrograms : plan' = [plan EXCEPT !["isr"] = p]
    BY <1>3 DEF Preempt
  <2>3. plan["isr"] = <<>> /\ regs["MCNTRL"] = "INT" /\ UNCHANGED <<regs, latch, port, ddr, opno, val>>
    BY <1>3 DEF Preempt
  <2>4. plan["main"] = <<>>
    BY <2>1, <2>3 DEF StartInv
  <2>5. plan'["main"] = <<>> /\ plan'["isr"] = p /\ opno'["isr"] = 1
    BY <1>1, <2>2, <2>3, <2>4 DEF AccessTypeOK, Contexts
  <2>6. Head(p).kind \notin {"burstread", "burstwrite"}
    BY ProgramsWellFormed, ProgramStarts DEF WellFormed
  <2> QED
    BY <2>5, <2>6 DEF StartInv, BusInv, BusAt, ReadAt, Contexts
<1>4. CASE MainSend
  BY <1>4 DEF MainSend
<1>5. ASSUME NEW c \in Contexts, Step(c) PROVE StartInv' /\ BusInv'
  <2>1. ~sending /\ StartInv /\ BusInv
    BY <1>5 DEF Step, AccessInv
  <2> QED
    BY <1>1, <1>5, <2>1, StartStep, StepKeepsBus
<1>6. CASE UNCHANGED vars
  BY <1>6 DEF vars, AccessInv, StartInv, BusInv
<1> QED
  BY <1>2, <1>3, <1>4, <1>5, <1>6 DEF Next

\* One step of who has the bus for itself.
LEMMA StepLands ==
  ASSUME LinesInv, StartInv, BusInv, NEW c \in Contexts, Step(c)
  PROVE  /\ WritesAsAsked
         /\ Finishes(c, {"write", "burstwrite"}) =>
              regs'[Head(plan[c]).reg] = Head(plan[c]).data
         /\ Finishes(c, {"restore"}) => regs'[Head(plan[c]).reg] = val[c]
         /\ Finishes(c, {"read", "burstread"}) => val[c] = regs[Head(plan[c]).reg]
<1> DEFINE a == Head(plan[c])
           n == opno[c]
<1>1. AccessTypeOK /\ plan[c] # <<>>
  BY DEF LinesInv, Step, Running
<1>2. /\ a \in Access /\ n \in 1..OpCount(a.kind) /\ Len(CurrentOps(c)) = OpCount(a.kind)
  BY <1>1, UnderWay
<1>3. regs' = IF a.kind \in Writes /\ n = OpCount(a.kind)
              THEN [regs EXCEPT ![a.reg] = Asks(a, val[c])] ELSE regs
  BY StepEffect
<1>4. a.reg \in Registers /\ DOMAIN regs = Registers
  BY <1>1, <1>2 DEF Access, AccessTypeOK
<1>5. a.kind \in Writes => Asked(c, a.reg, Asks(a, val[c]))
  BY <1>1 DEF Asked, Asks, Writes
<1> HIDE DEF a, n
<1>6. WritesAsAsked
  <2> SUFFICES ASSUME NEW r \in Registers, regs'[r] # regs[r] PROVE Asked(c, r, regs'[r])
    BY DEF WritesAsAsked
  <2>1. a.kind \in Writes /\ r = a.reg /\ regs'[r] = Asks(a, val[c])
    BY <1>3, <1>4
  <2> QED
    BY <1>5, <2>1
<1>7. a.kind \in Writes /\ n = OpCount(a.kind) => regs'[a.reg] = Asks(a, val[c])
  BY <1>3, <1>4
<1>8. Finishes(c, {"write", "burstwrite"}) => regs'[a.reg] = a.data
  BY <1>2, <1>7 DEF Finishes, Writes, Asks, a, n
<1>9. Finishes(c, {"restore"}) => regs'[a.reg] = val[c]
  BY <1>2, <1>7 DEF Finishes, Writes, Asks, a, n
<1>10. Finishes(c, {"read", "burstread"}) => val[c] = regs[a.reg]
  <2>1. ReadAt(a, n, val[c], regs)
    BY <1>1 DEF BusInv, a, n
  <2> QED
    BY <1>2, <2>1 DEF Finishes, ReadAt, OpCount, a, n
<1> QED
  BY <1>6, <1>8, <1>9, <1>10 DEF a

\* Nobody finishes an access in a step of someone else.
LEMMA NobodyFinishes ==
  ASSUME AccessTypeOK, NEW c \in Contexts, NEW kinds,
         plan[c] # <<>> => plan'[c] = plan[c]
  PROVE  ~Finishes(c, kinds)
<1> SUFFICES ASSUME plan[c] # <<>>, plan'[c] = Tail(plan[c]) PROVE FALSE
  BY DEF Finishes
<1>1. plan[c] \in Seq(Access)
  BY DEF AccessTypeOK
<1> QED
  BY <1>1, TailDiffers

\* For any programs of USBNStart and of the interrupts, if USBNStart lets the chip
\* drive INT with its last access and nobody sends from the main loop, every byte
\* written is in the register it was meant for, and every byte read is that of
\* the register asked for.
THEOREM BytesLand ==
  ASSUME InterruptsLast
  PROVE  Spec => AccessLands
<1>1. Init => AccessInv
  BY AccessInit
<1>2. AccessInv /\ [Next]_vars => AccessInv'
  BY AccessStep
<1>3. AccessInv /\ [Next]_vars =>
        [~sending =>
           /\ WritesAsAsked
           /\ \A c \in Contexts :
                LET a == Head(plan[c]) IN
                /\ Finishes(c, {"write", "burstwrite"}) => regs'[a.reg] = a.data
                /\ Finishes(c, {"restore"}) => regs'[a.reg] = val[c]
                /\ Finishes(c, {"read", "burstread"}) => val[c] = regs[a.reg]]_vars
  <2> SUFFICES ASSUME AccessInv, Next, ~sending
               PROVE  /\ WritesAsAsked
                      /\ \A c \in Contexts :
                           /\ Finishes(c, {"write", "burstwrite"}) =>
                                regs'[Head(plan[c]).reg] = Head(plan[c]).data
                           /\ Finishes(c, {"restore"}) => regs'[Head(plan[c]).reg] = val[c]
                           /\ Finishes(c, {"read", "burstread"}) =>
                                val[c] = regs[Head(plan[c]).reg]
    OBVIOUS
  <2>1. LinesInv /\ StartInv /\ BusInv /\ AccessTypeOK
    BY DEF AccessInv, LinesInv
  <2>2. CASE SoftwareResetDone
    <3>1. \A c \in Contexts : plan'[c] = plan[c]
      BY <2>2 DEF SoftwareResetDone
    <3>2. WritesAsAsked
      BY <2>1, <2>2 DEF SoftwareResetDone, WritesAsAsked, AccessTypeOK
    <3> QED
      BY <2>1, <3>1, <3>2, NobodyFinishes
  <2>3. CASE Preempt \/ MainSend
    <3>1. \A c \in Contexts : plan[c] # <<>> => plan'[c] = plan[c]
      BY <2>1, <2>3 DEF Preempt, MainSend, AccessTypeOK, Contexts
    <3>2. WritesAsAsked
      BY <2>3 DEF Preempt, MainSend, WritesAsAsked
    <3> QED
      BY <2>1, <3>1, <3>2, NobodyFinishes
  <2>4. ASSUME NEW c \in Contexts, Step(c)
        PROVE  \A d \in Contexts \ {c} : plan[d] # <<>> => plan'[d] = plan[d]
    BY <2>1, <2>4 DEF Step, AccessTypeOK
  <2>5. CASE \E c \in Contexts : Step(c)
    <3>1. PICK c \in Contexts : Step(c)
      BY <2>5
    <3> QED
      BY <2>1, <2>4, <3>1, StepLands, NobodyFinishes
  <2> QED
    BY <2>2, <2>3, <2>5 DEF Next
<1> QED
  BY <1>1, <1>2, <1>3, PTL DEF Spec, AccessLands
=============================================================================
